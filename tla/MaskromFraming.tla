--------------------------- MODULE MaskromFraming ---------------------------
(***************************************************************************)
(* How a loader image is framed for the Rockchip boot ROM                  *)
(* (defib/rockusb/maskrom.py).  An image is abstracted to its length.  The *)
(* boot ROM takes ChunkSize bytes per control transfer, takes a shorter    *)
(* transfer for the end of the image and wants the two bytes of the CRC in *)
(* one transfer.                                                           *)
(***************************************************************************)
EXTENDS Naturals, Sequences

CONSTANT ChunkSize

ASSUME ChunkAssumption == ChunkSize \in Nat /\ ChunkSize >= 3

CrcSize == 2

\* The zero byte that keeps the CRC from straddling two chunks.
PaddedSize(n) == IF n % ChunkSize = ChunkSize - 1 THEN n + 1 ELSE n

FramedSize(n) == PaddedSize(n) + CrcSize

NeedsTerminator(n) == n % ChunkSize = ChunkSize - 2

\* The number of slices of ChunkSize bytes and the length of the i-th.
Slices(n) == (FramedSize(n) + ChunkSize - 1) \div ChunkSize

SliceSize(n, i) ==
    IF i * ChunkSize <= FramedSize(n) THEN ChunkSize
    ELSE FramedSize(n) - (i - 1) * ChunkSize

\* As build_maskrom_chunks below, but without the terminating chunk.
UnterminatedChunks(n) == [i \in 1..Slices(n) |-> SliceSize(n, i)]

\* The lengths of the control transfers that carry an image of n bytes.
build_maskrom_chunks(n) ==
    [i \in 1..Slices(n) |-> SliceSize(n, i)]
        \o (IF NeedsTerminator(n) THEN <<1>> ELSE <<>>)
=============================================================================
