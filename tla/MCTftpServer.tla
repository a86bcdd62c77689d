---------------------------- MODULE MCTftpServer ----------------------------
(* TftpServer for TLC: a loader and a pack, as in the Novatek recovery, a  *)
(* name with a path in front of the loader's, and a name nobody serves.    *)
EXTENDS TftpServer

CONSTANTS rom, uboot, stray, loader, pack, pathloader, other

MCNames == {loader, pack, pathloader, other}
MCFiles == {loader, pack}
MCLookup == [n \in MCNames |-> IF n = other THEN NoFile
                               ELSE IF n = pathloader THEN loader ELSE n]
(* A size that is a multiple of the block size ends with an empty block. *)
MCSize == [f \in MCFiles |-> IF f = loader THEN 1 ELSE 2]

(* The boot ROM asks for no option, U-Boot for blocks of two bytes. *)
MCOption == [c \in Clients |-> IF c = rom THEN 0 ELSE 2]
(* The third client asks for a file that is not served. *)
MCRequest == [c \in Clients |-> IF c = rom THEN pathloader
                                ELSE IF c = uboot THEN pack ELSE other]
=============================================================================
