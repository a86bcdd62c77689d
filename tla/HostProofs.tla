---------------------------- MODULE HostProofs ----------------------------
(***************************************************************************)
(* Proofs about the programs that run on the host beside a board: the TFTP *)
(* server (TftpServer) and what several defib processes share, the host's  *)
(* network address (NetRecovery) and the firmware cache (FirmwareCache).   *)
(*                                                                         *)
(* The server is right for any clients, files, block sizes and number of   *)
(* datagrams lost or duplicated.  Its invariant speaks of one client at a  *)
(* time: the packets to it are blocks of its file, cut by one block size,  *)
(* which cannot change while it fetches, and no ACK is under way for a     *)
(* block it does not hold.                                                 *)
(*                                                                         *)
(* HostAsFound and NetBooted hold for every set of requests and any number *)
(* of faults.  Processes that use the cache one after another read the     *)
(* release they were told of, for any number of processes, releases and    *)
(* faults.                                                                 *)
(***************************************************************************)
EXTENDS TftpServer, FirmwareCache, NetRecovery, TLAPS

Fetching(c) == cpc[c] \in {"rrq", "data"}

\* The client may still make the server act.
Using(c) == Fetching(c) \/ \E m \in up : m.from = c

\* The client knows the block size.
Settled(c) == Option[c] = 0 \/ cbs[c] = BlockSize(c)

Offset(c, n) == (n - 1) * BlockSize(c)
BlockLen(c, n) ==
    IF Offset(c, n) >= Size[File(c)] THEN 0
    ELSE Least(BlockSize(c), Size[File(c)] - Offset(c, n))

\* Block n of the file of c.
Block(c, n) == Data(c, n, Offset(c, n), BlockLen(c, n))

\* A packet that a fetch of c may be sent.
Packet(c, p) ==
    /\ File(c) \in Files
    /\ \/ Option[c] # 0 /\ p = Oack(c, BlockSize(c))
       \/ Settled(c) /\ \E n \in 1..MaxBlockNum : p = Block(c, n)

Up == [from : Clients, op : {"RRQ", "ACK", "ERROR"}, blk : Nat]
Down == [to : Clients, op : {"OACK", "DATA", "ERROR"}, blk : Nat, off : Nat, len : Nat]
Transfer ==
    [blocksize : Nat, block_num : Nat, retries : Nat, last : Down, timer : {"armed", "off"}]

TypeOK ==
    /\ transfers \in [Clients -> {None} \cup Transfer]
    /\ maxbs \in Nat /\ sentto \subseteq Clients
    /\ up \subseteq Up /\ down \subseteq Down
    /\ cpc \in [Clients -> {"idle", "rrq", "data", "done", "failed"}]
    /\ cblk \in [Clients -> Nat] /\ cbs \in [Clients -> Nat] /\ got \in [Clients -> Int]

\* Transfer t waits on no block beyond the one after n.
Within(c, t, n) == t.block_num <= n + 1 /\ t.last.to = c

\* Transfer t sends blocks of the file of c: its last packet is the block it
\* waits on, or, where the block numbers have run out, a full one.
Right(c, t) ==
    /\ t.blocksize = BlockSize(c) /\ Packet(c, t.last)
    /\ t.last.op = "OACK" => t.block_num = 0
    /\ t.last.op = "DATA" => t.last.blk = t.block_num \/ t.last.len = t.blocksize

TransferInv(c) ==
    transfers[c] # None =>
        Within(c, transfers[c], cblk[c]) /\ (Using(c) => Right(c, transfers[c]))

DownInv(c) ==
    Fetching(c) => \A m \in down : m.to = c => m = Error(c) \/ Packet(c, m)

UpInv(c) ==
    \A m \in up : m.from = c /\ m.op = "ACK" => m.blk <= cblk[c] /\ Settled(c)

\* What a client holds: full blocks only, until it is done.
ClientInv(c) ==
    /\ cpc[c] = "idle" =>
         /\ transfers[c] = None /\ cblk[c] = 0 /\ cbs[c] = 0 /\ got[c] = 0
         /\ \A m \in up : m.from # c
         /\ \A m \in down : m.to # c
    /\ Fetching(c) =>
         /\ got[c] = cblk[c] * BlockSize(c)
         /\ cbs[c] \in {0, BlockSize(c)}
         /\ cblk[c] > 0 => cbs[c] = BlockSize(c)
    /\ Using(c) /\ cpc[c] # "done" /\ File(c) \in Files
         => cblk[c] * BlockSize(c) <= Size[File(c)]
    /\ cpc[c] = "done" => got[c] = Size[File(c)]

OneClient(c) == TransferInv(c) /\ DownInv(c) /\ UpInv(c) /\ ClientInv(c)

CountInv ==
    /\ \A c \in sentto : cpc[c] = "done"
    /\ done = "set" => \E c \in sentto : DoneFile = NoFile \/ Request[c] = DoneFile

Inv == TypeOK /\ CountInv /\ \A c \in Clients : OneClient(c)

-----------------------------------------------------------------------------
(* Block sizes and blocks. *)

LEMMA BlockSizeIsPositive ==
    ASSUME TypeOK, NEW c \in Clients
    PROVE  BlockSize(c) \in Nat \ {0}
<1>1. Option[c] \in Nat /\ maxbs \in Nat /\ MinBlock \in Nat \ {0} /\ DefaultBlock \in Nat \ {0}
  BY TftpAssumption DEF TypeOK
<1> QED
  BY <1>1 DEF BlockSize, Most, Least

\* The blocks before the end of a file are full, the one that is not ends it.
LEMMA Blocks ==
    ASSUME TypeOK, NEW c \in Clients, File(c) \in Files, NEW n \in Nat \ {0}
    PROVE  /\ Block(c, n) \in Down /\ Block(c, n).to = c /\ Block(c, n).op = "DATA"
           /\ Block(c, n).blk = n /\ Block(c, n).off = (n - 1) * BlockSize(c)
           /\ Block(c, n).len \in 0..BlockSize(c)
           /\ n * BlockSize(c) <= Size[File(c)] <=> Block(c, n).len = BlockSize(c)
           /\ Block(c, n).len < BlockSize(c) /\ (n - 1) * BlockSize(c) <= Size[File(c)]
                => (n - 1) * BlockSize(c) + Block(c, n).len = Size[File(c)]
<1> DEFINE b == BlockSize(c)
           s == Size[File(c)]
           o == Offset(c, n)
           l == BlockLen(c, n)
<1>1. b \in Nat \ {0} /\ s \in Nat
  BY BlockSizeIsPositive, TftpAssumption, Zenon
<1> HIDE DEF b
<1>2. o = (n - 1) * b /\ o \in Nat /\ o + b = n * b
  <2>1. o = (n - 1) * b
    BY Zenon DEF Offset, b
  <2>2. (n - 1) * b \in Nat /\ (n - 1) * b + b = n * b
    BY <1>1
  <2> QED
    BY <2>1, <2>2, Zenon
<1>3. l = IF o >= s THEN 0 ELSE Least(b, s - o)
  BY Zenon DEF BlockLen, b
<1> HIDE DEF s, o, l
<1>4. l \in 0..b /\ (o + b <= s <=> l = b) /\ (l < b /\ o <= s => o + l = s)
  BY <1>1, <1>2, <1>3 DEF Least
<1>5. Block(c, n) = [to |-> c, op |-> "DATA", blk |-> n, off |-> o, len |-> l]
  BY Zenon DEF Block, Data, o, l
<1>6. o \in Nat /\ l \in Nat
  BY <1>1, <1>2, <1>4
<1>7. Block(c, n) \in Down
  BY <1>5, <1>6 DEF Down
<1> QED
  BY <1>2, <1>4, <1>5, <1>7 DEF b, s

LEMMA Product ==
    ASSUME NEW n \in Nat, NEW k \in Nat, NEW b \in Nat, n <= k
    PROVE  n * b <= k * b
<1>1. PICK d \in Nat : k = n + d
  BY k - n \in Nat
<1>2. k * b = n * b + d * b /\ d * b \in Nat /\ n * b \in Nat
  BY <1>1
<1> QED
  BY <1>2

\* What _send_data_block does to a transfer that uses the block size of c.
LEMMA NextBlockIs ==
    ASSUME TypeOK, NEW c \in Clients, File(c) \in Files, NEW t \in Transfer,
           t.blocksize = BlockSize(c), NEW n, n = t.block_num + 1
    PROVE  /\ NextBlock(c, t) \in Transfer
           /\ NextBlock(c, t).blocksize = t.blocksize /\ NextBlock(c, t).block_num = n
           /\ NextBlock(c, t).last = IF n <= MaxBlockNum THEN Block(c, n) ELSE t.last
<1>1. t.block_num \in Nat /\ n \in Nat \ {0}
  BY DEF Transfer
<1>2. Block(c, n) \in Down
  BY <1>1, Blocks, Zenon
<1>3. NextBlock(c, t) =
        IF n <= MaxBlockNum
        THEN [t EXCEPT !.block_num = n, !.last = Block(c, n), !.timer = "armed"]
        ELSE [t EXCEPT !.block_num = n]
  BY Zenon DEF NextBlock, Block, Offset, BlockLen
<1> QED
  BY <1>1, <1>2, <1>3, Zenon DEF Transfer

-----------------------------------------------------------------------------
(* Steps that leave a client alone. *)

\* Where neither the limit nor what the client was told changes, its packets
\* are what they were.
LEMMA Steady ==
    ASSUME NEW c \in Clients, maxbs' = maxbs, cbs'[c] = cbs[c]
    PROVE  /\ BlockSize(c)' = BlockSize(c) /\ Settled(c)' = Settled(c)
           /\ \A p : Packet(c, p)' = Packet(c, p)
           /\ \A t : Right(c, t)' = Right(c, t)
<1>1. BlockSize(c)' = BlockSize(c) /\ Settled(c)' = Settled(c)
  BY Zenon DEF BlockSize, Settled
<1>2. \A p : Packet(c, p)' = Packet(c, p)
  BY <1>1, Zenon DEF Packet, Block, Offset, BlockLen
<1>3. \A t : Right(c, t)' = Right(c, t)
  BY <1>1, <1>2, Zenon DEF Right
<1> QED
  BY <1>1, <1>2, <1>3, Zenon

\* A client keeps its part of the invariant when nothing of it changes but
\* that datagrams disappear or its transfer is dropped.
LEMMA LeftAlone ==
    ASSUME NEW c \in Clients, OneClient(c), maxbs' = maxbs,
           transfers'[c] \in {transfers[c], None},
           cpc'[c] = cpc[c], cblk'[c] = cblk[c], cbs'[c] = cbs[c], got'[c] = got[c],
           \A m \in up' : m.from = c => m \in up,
           \A m \in down' : m.to = c => m \in down
    PROVE  OneClient(c)'
<1>1. /\ BlockSize(c)' = BlockSize(c) /\ Settled(c)' = Settled(c)
      /\ \A p : Packet(c, p)' = Packet(c, p)
      /\ \A t : Right(c, t)' = Right(c, t)
  BY Steady, Zenon
<1>2. Fetching(c)' = Fetching(c) /\ (Using(c)' => Using(c))
  BY Zenon DEF Fetching, Using
<1>3. TransferInv(c)'
  BY <1>1, <1>2, Zenon DEF OneClient, TransferInv
<1>4. DownInv(c)' /\ UpInv(c)'
  BY <1>1, <1>2, Zenon DEF OneClient, DownInv, UpInv
<1>5. ClientInv(c)'
  BY <1>1, <1>2, Zenon DEF OneClient, ClientInv
<1> QED
  BY <1>3, <1>4, <1>5, Zenon DEF OneClient

\* A step that concerns client c alone.
Only(c) ==
    /\ maxbs' = maxbs
    /\ \A d \in Clients \ {c} :
         /\ transfers'[d] = transfers[d] /\ cpc'[d] = cpc[d]
         /\ cblk'[d] = cblk[d] /\ cbs'[d] = cbs[d] /\ got'[d] = got[d]
    /\ \A m \in up' : m \in up \/ m.from = c
    /\ \A m \in down' : m \in down \/ m.to = c

LEMMA OthersAlone ==
    ASSUME Inv, NEW c \in Clients, Only(c), OneClient(c)'
    PROVE  \A d \in Clients : OneClient(d)'
<1> SUFFICES ASSUME NEW d \in Clients \ {c} PROVE OneClient(d)'
  BY Zenon
<1>1. OneClient(d) /\ d \in Clients
  BY Zenon DEF Inv
<1>2. /\ maxbs' = maxbs /\ transfers'[d] \in {transfers[d], None}
      /\ cpc'[d] = cpc[d] /\ cblk'[d] = cblk[d] /\ cbs'[d] = cbs[d] /\ got'[d] = got[d]
      /\ \A m \in up' : m.from = d => m \in up
      /\ \A m \in down' : m.to = d => m \in down
  BY DEF Only
<1> QED
  BY <1>1, <1>2, LeftAlone, Zenon

-----------------------------------------------------------------------------
(* The server's steps.  Each keeps the types, concerns one client and      *)
(* keeps the invariant of it.                                              *)

LEMMA Datagrams ==
    ASSUME NEW c \in Clients
    PROVE  /\ Rrq(c) \in Up /\ Rrq(c).from = c /\ Rrq(c).op = "RRQ"
           /\ Abort(c) \in Up /\ Abort(c).from = c /\ Abort(c).op = "ERROR"
           /\ \A n \in Nat : /\ AckPkt(c, n) \in Up /\ AckPkt(c, n).from = c
                             /\ AckPkt(c, n).op = "ACK" /\ AckPkt(c, n).blk = n
           /\ Error(c) \in Down /\ Error(c).to = c /\ Error(c).op = "ERROR"
           /\ \A n \in Nat : /\ Oack(c, n) \in Down /\ Oack(c, n).to = c
                             /\ Oack(c, n).op = "OACK" /\ Oack(c, n).len = n
BY Zenon DEF Rrq, Abort, AckPkt, Error, Oack, Up, Down

\* A new transfer is sent its first packet.
LEMMA NewTransferIs ==
    ASSUME TypeOK, NEW c \in Clients, File(c) \in Files
    PROVE  /\ NewTransfer(c) \in Transfer /\ NewTransfer(c).blocksize = BlockSize(c)
           /\ \/ /\ Option[c] # 0 /\ NewTransfer(c).last = Oack(c, BlockSize(c))
                 /\ NewTransfer(c).block_num = 0
              \/ /\ Option[c] = 0 /\ NewTransfer(c).last = Block(c, 1)
                 /\ NewTransfer(c).block_num = 1
<1> DEFINE b == BlockSize(c)
           t == [blocksize |-> b, block_num |-> 0, retries |-> 0,
                 last |-> Oack(c, b), timer |-> "armed"]
<1>1. b \in Nat
  BY BlockSizeIsPositive, Zenon
<1>2. NewTransfer(c) = IF Option[c] = 0 THEN NextBlock(c, t) ELSE t
  BY Zenon DEF NewTransfer
<1> HIDE DEF b
<1>3. t \in Transfer /\ t.blocksize = b /\ t.block_num + 1 = 1 /\ t.last = Oack(c, b)
      /\ t.block_num = 0
  BY <1>1, Datagrams DEF Transfer
<1> HIDE DEF t
<1>4. /\ NextBlock(c, t) \in Transfer
      /\ NextBlock(c, t).blocksize = b /\ NextBlock(c, t).block_num = 1
      /\ NextBlock(c, t).last = Block(c, 1)
  BY <1>3, NextBlockIs, TftpAssumption DEF b
<1> QED
  BY <1>2, <1>3, <1>4, Zenon DEF b

\* The server replaces the transfer of c by t and sends t's packet.
LEMMA ServerSends ==
    ASSUME Inv, NEW c \in Clients, cpc[c] # "idle", NEW t \in Transfer,
           transfers' = [transfers EXCEPT ![c] = t], down' \subseteq down \cup {t.last},
           up' \subseteq up, UNCHANGED <<maxbs, sentto, clients>>,
           Within(c, t, cblk[c]), Using(c) => Right(c, t)
    PROVE  TypeOK' /\ Only(c) /\ OneClient(c)'
<1> DEFINE p == t.last
<1>1. TypeOK /\ OneClient(c) /\ UNCHANGED <<cpc, cblk, cbs, got>>
  BY Zenon DEF Inv, clients
<1>2. p \in Down /\ p.to = c /\ down' \subseteq down \cup {p} /\ (Using(c) => Packet(c, p))
  BY Zenon DEF Transfer, Within, Right
<1> HIDE DEF p
<1>3. TypeOK' /\ transfers'[c] = t
  BY <1>1, <1>2, Zenon DEF TypeOK
<1>4. Only(c)
  BY <1>1, <1>2, Zenon DEF TypeOK, Only
<1>5. /\ BlockSize(c)' = BlockSize(c) /\ Settled(c)' = Settled(c)
      /\ \A q : Packet(c, q)' = Packet(c, q)
      /\ \A u : Right(c, u)' = Right(c, u)
  BY <1>1, Steady, Zenon
<1>6. Fetching(c)' = Fetching(c) /\ (Using(c)' => Using(c)) /\ (Fetching(c) => Using(c))
  BY <1>1, Zenon DEF Fetching, Using
<1>7. TransferInv(c)'
  BY <1>1, <1>3, <1>5, <1>6, Zenon DEF TransferInv
<1>8. DownInv(c)'
  BY <1>1, <1>2, <1>5, <1>6, Zenon DEF OneClient, DownInv, Error
<1>9. UpInv(c)' /\ ClientInv(c)'
  BY <1>1, <1>5, <1>6, Zenon DEF OneClient, UpInv, ClientInv
<1> QED
  BY <1>3, <1>4, <1>7, <1>8, <1>9, Zenon DEF OneClient

LEMMA HandleRrqStep ==
    ASSUME Inv, NEW c \in Clients, HandleRrq(c)
    PROVE  TypeOK' /\ Only(c) /\ OneClient(c)'
<1>1. /\ up' \subseteq up /\ UNCHANGED <<maxbs, sentto, clients>>
      /\ TypeOK /\ OneClient(c) /\ cpc[c] # "idle" /\ cblk[c] \in Nat
  <2>1. /\ up' \subseteq up /\ UNCHANGED <<maxbs, sentto, clients>> /\ Rrq(c) \in up
    BY Zenon DEF HandleRrq, Take
  <2>2. TypeOK /\ OneClient(c) /\ cblk[c] \in Nat
    BY Zenon DEF Inv, TypeOK
  <2>3. cpc[c] # "idle"
    BY <2>1, <2>2, Datagrams, Zenon DEF OneClient, ClientInv
  <2> QED
    BY <2>1, <2>2, <2>3, Zenon
<1>2. CASE UNCHANGED <<transfers, down>>
  <2>1. TypeOK' /\ Only(c)
    BY <1>1, <1>2, Zenon DEF Only, clients, TypeOK
  <2> QED
    BY <1>1, <1>2, <2>1, LeftAlone, Zenon DEF clients
<1>3. CASE down' = down \cup {Error(c)} /\ UNCHANGED transfers
  <2>1. TypeOK' /\ Only(c)
    BY <1>1, <1>3, Datagrams DEF Only, clients, TypeOK
  <2>2. /\ BlockSize(c)' = BlockSize(c) /\ Settled(c)' = Settled(c)
        /\ \A p : Packet(c, p)' = Packet(c, p)
        /\ \A t : Right(c, t)' = Right(c, t)
    BY <1>1, Steady, Zenon DEF clients
  <2>3. Fetching(c)' = Fetching(c) /\ (Using(c)' => Using(c))
    BY <1>1, Zenon DEF Fetching, Using, clients
  <2>4. DownInv(c)'
    BY <1>1, <1>3, <2>2, <2>3, Zenon DEF OneClient, DownInv, Error
  <2>5. TransferInv(c)' /\ UpInv(c)' /\ ClientInv(c)'
    <3>1. UNCHANGED <<cpc, cblk, cbs, got>>
      BY <1>1, Zenon DEF clients
    <3>2. TransferInv(c)'
      BY <1>1, <1>3, <2>2, <2>3, <3>1, Zenon DEF OneClient, TransferInv
    <3> QED
      BY <1>1, <1>3, <2>2, <2>3, <3>1, <3>2, Zenon DEF OneClient, UpInv, ClientInv
  <2> QED
    BY <2>1, <2>4, <2>5, Zenon DEF OneClient
<1>4. CASE /\ File(c) # NoFile
           /\ transfers' = [transfers EXCEPT ![c] = NewTransfer(c)]
           /\ down' = down \cup {NewTransfer(c).last}
  <2>1. File(c) \in Files
    BY <1>4, TftpAssumption, Zenon DEF File
  <2> DEFINE t == NewTransfer(c)
             p == t.last
  <2>2. /\ t \in Transfer /\ t.blocksize = BlockSize(c)
        /\ \/ Option[c] # 0 /\ p = Oack(c, BlockSize(c)) /\ t.block_num = 0
           \/ Option[c] = 0 /\ p = Block(c, 1) /\ t.block_num = 1
    BY <1>1, <2>1, NewTransferIs, Zenon
  <2> HIDE DEF p
  <2>3. Packet(c, p) /\ p.to = c /\ (p.op = "OACK" => t.block_num = 0)
        /\ (p.op = "DATA" => p.blk = t.block_num)
    <3>1. BlockSize(c) \in Nat /\ 1 \in 1..MaxBlockNum
      BY <1>1, BlockSizeIsPositive, TftpAssumption
    <3> QED
      BY <1>1, <2>1, <2>2, <3>1, Blocks, Datagrams DEF Packet, Settled
  <2>4. Within(c, t, cblk[c]) /\ Right(c, t)
    BY <1>1, <2>2, <2>3 DEF Within, Right, p
  <2> QED
    BY <1>1, <1>4, <2>2, <2>4, ServerSends, Zenon
<1> QED
  BY <1>2, <1>3, <1>4, Zenon DEF HandleRrq

\* The awaited ACK of a short block comes from a client that holds the file.
LEMMA CompleteIsDone ==
    ASSUME Inv, NEW c \in Clients, NEW m \in up, m.op = "ACK", m.from = c,
           Awaits(transfers[c], m.blk), Complete(transfers[c])
    PROVE  cpc[c] = "done"
<1> DEFINE t == transfers[c]
           b == BlockSize(c)
<1>1. /\ TypeOK /\ OneClient(c) /\ Using(c) /\ t # None /\ t \in Transfer
      /\ m.blk = t.block_num /\ t.last.op = "DATA" /\ t.last.len < t.blocksize
  BY Zenon DEF Inv, Using, Awaits, Complete, TypeOK
<1>2. /\ t.blocksize = b /\ Packet(c, t.last) /\ t.last.blk = t.block_num
      /\ m.blk <= cblk[c]
  <2>1. t.last.len \in Nat /\ t.blocksize \in Nat
    BY <1>1, Zenon DEF Transfer, Down
  <2>2. Right(c, t) /\ m.blk <= cblk[c]
    BY <1>1, Zenon DEF OneClient, TransferInv, UpInv
  <2> DEFINE l == t.last
  <2> HIDE DEF t
  <2> QED
    BY <1>1, <2>1, <2>2 DEF Right
<1>3. b \in Nat \ {0} /\ cblk[c] \in Nat
  BY <1>1, BlockSizeIsPositive, Zenon DEF TypeOK
<1>4. PICK n \in 1..MaxBlockNum : t.last = Block(c, n) /\ File(c) \in Files
  BY <1>1, <1>2, <1>3, Datagrams DEF Packet
<1>5. n \in Nat \ {0} /\ Size[File(c)] \in Nat
  BY <1>4, TftpAssumption
<1>6. n = m.blk /\ ~(n * b <= Size[File(c)])
  <2>1. /\ Block(c, n).blk = n
        /\ n * b <= Size[File(c)] <=> Block(c, n).len = b
    BY <1>1, <1>4, <1>5, Blocks, ZenonT(40)
  <2>2. Block(c, n).len < b /\ n = m.blk
    BY <1>1, <1>2, <1>4, <2>1, Zenon
  <2>3. ~(b < b)
    BY <1>3
  <2> QED
    BY <2>1, <2>2, <2>3, Zenon
<1>7. n * b <= cblk[c] * b
  BY <1>2, <1>3, <1>5, <1>6, Product, Zenon
<1>8. ~(cblk[c] * b <= Size[File(c)])
  <2>1. n * b \in Int /\ cblk[c] * b \in Int
    BY <1>3, <1>5
  <2> HIDE DEF b
  <2>2. \A x, y, z \in Int : ~(x <= z) /\ x <= y => ~(y <= z)
    OBVIOUS
  <2>3. Size[File(c)] \in Int
    BY <1>5
  <2> QED
    BY <1>6, <1>7, <2>1, <2>2, <2>3, Zenon
<1> QED
  BY <1>1, <1>4, <1>8, Zenon DEF OneClient, ClientInv

\* _handle_ack goes on to the next block.
LEMMA SendNextStep ==
    ASSUME Inv, NEW c \in Clients, NEW m \in up, m.op = "ACK", m.from = c,
           Awaits(transfers[c], m.blk), ~Complete(transfers[c]), SendNext(c),
           up' \subseteq up, UNCHANGED <<maxbs, clients>>
    PROVE  TypeOK' /\ Only(c) /\ OneClient(c)'
<1> DEFINE t == transfers[c]
           b == BlockSize(c)
           r == [t EXCEPT !.retries = 0, !.timer = IF t.block_num = 0 THEN @ ELSE "off"]
           n == t.block_num + 1
           u == NextBlock(c, r)
           l == t.last
<1>1. /\ TypeOK /\ OneClient(c) /\ Using(c) /\ t # None /\ t \in Transfer
      /\ m.blk = t.block_num /\ (l.op = "DATA" => ~(l.len < t.blocksize))
  BY Zenon DEF Inv, Using, Awaits, Complete, TypeOK
<1>2. Right(c, t) /\ m.blk <= cblk[c] /\ Settled(c) /\ cpc[c] # "idle"
  BY <1>1, Zenon DEF OneClient, TransferInv, UpInv, ClientInv
<1>3. transfers' = [transfers EXCEPT ![c] = u] /\ UNCHANGED sentto
      /\ down' = IF u.block_num <= MaxBlockNum THEN down \cup {u.last} ELSE down
  BY Zenon DEF SendNext
<1>4. r \in Transfer /\ r.blocksize = t.blocksize /\ r.block_num = t.block_num /\ r.last = l
  BY <1>1, Zenon DEF Transfer
<1> HIDE DEF r, u, l
<1>5. t.blocksize = b /\ Packet(c, l) /\ (l.op = "OACK" => t.block_num = 0)
  BY <1>2, Zenon DEF Right, l
<1>6. b \in Nat \ {0} /\ cblk[c] \in Nat /\ File(c) \in Files /\ t.block_num \in Nat
  BY <1>1, <1>5, BlockSizeIsPositive, Zenon DEF TypeOK, Packet, Transfer
<1> HIDE DEF t, b
<1>7. n \in Nat \ {0} /\ n <= cblk[c] + 1
  BY <1>1, <1>2, <1>6
<1>8. /\ u \in Transfer /\ u.blocksize = b /\ u.block_num = n
      /\ u.last = IF n <= MaxBlockNum THEN Block(c, n) ELSE l
  BY <1>1, <1>4, <1>5, <1>6, NextBlockIs DEF u, b
<1> DEFINE v == u.last
<1> HIDE DEF n, v
<1>9. /\ Packet(c, v) /\ v.to = c /\ v.op = "DATA" /\ (v.blk = n \/ v.len = b)
  <2>1. CASE n <= MaxBlockNum
    <3>1. v = Block(c, n) /\ n \in 1..MaxBlockNum
      BY <1>7, <1>8, <2>1, TftpAssumption DEF v
    <3>2. v.to = c /\ v.op = "DATA" /\ v.blk = n
      <4>1. Block(c, n).to = c /\ Block(c, n).op = "DATA" /\ Block(c, n).blk = n
        BY Zenon DEF Block, Data
      <4> QED
        BY <3>1, <4>1, Zenon
    <3> QED
      BY <1>2, <1>6, <3>1, <3>2, Zenon DEF Packet
  <2>2. CASE ~(n <= MaxBlockNum)
    <3>1. v = l /\ l.op # "OACK"
      BY <1>5, <1>6, <1>8, <2>2, TftpAssumption DEF n, v
    <3>2. PICK k \in 1..MaxBlockNum : l = Block(c, k)
      <4>1. Oack(c, b).op = "OACK"
        BY Zenon DEF Oack
      <4> QED
        BY <1>5, <3>1, <4>1, Zenon DEF Packet, b
    <3>3. k \in Nat \ {0}
      BY <3>2, TftpAssumption
    <3>4. l.op = "DATA" /\ l.len \in 0..b /\ l.to = c
      <4>1. TypeOK /\ File(c) \in Files
        BY <1>1, <1>6, Zenon
      <4>2. Block(c, k).op = "DATA" /\ Block(c, k).len \in 0..b /\ Block(c, k).to = c
        BY <3>3, <4>1, Blocks, ZenonT(40) DEF b
      <4> QED
        BY <3>2, <4>2, Zenon
    <3>5. l.len = b
      <4>1. ~(l.len < b)
        BY <1>1, <1>5, <3>4, Zenon
      <4>2. \A x \in 0..b : ~(x < b) => x = b
        BY <1>6
      <4> QED
        BY <3>4, <4>1, <4>2, Zenon
    <3> QED
      BY <1>5, <3>1, <3>4, <3>5, Zenon
  <2> QED
    BY <2>1, <2>2, Zenon
<1>10. Within(c, u, cblk[c]) /\ Right(c, u)
  BY <1>7, <1>8, <1>9, Zenon DEF Within, Right, v, b
<1> QED
  BY <1>2, <1>3, <1>8, <1>10, ServerSends, Zenon

LEMMA HandleAckStep ==
    ASSUME Inv, NEW c \in Clients, HandleAck(c)
    PROVE  TypeOK' /\ Only(c) /\ OneClient(c)' /\ CountInv'
<1>1. PICK m \in up :
        /\ m.op = "ACK" /\ m.from = c /\ up' \subseteq up /\ UNCHANGED <<maxbs, clients>>
        /\ IF ~ Awaits(transfers[c], m.blk)
           THEN UNCHANGED <<transfers, completed, done, sentto, down>>
           ELSE IF Complete(transfers[c]) THEN FinishTransfer(c) ELSE SendNext(c)
  BY Zenon DEF HandleAck, Take
<1>2. TypeOK /\ OneClient(c) /\ CountInv
  BY Zenon DEF Inv
<1>3. CASE ~ Awaits(transfers[c], m.blk)
  <2>1. TypeOK' /\ Only(c) /\ CountInv'
    BY <1>1, <1>2, <1>3, Zenon DEF TypeOK, Only, CountInv, clients
  <2> QED
    BY <1>1, <1>2, <1>3, <2>1, LeftAlone, Zenon DEF clients
<1>4. CASE Awaits(transfers[c], m.blk) /\ Complete(transfers[c])
  <2>1. cpc[c] = "done"
    BY <1>1, <1>4, CompleteIsDone, Zenon
  <2>2. /\ transfers' = [transfers EXCEPT ![c] = None] /\ sentto' = sentto \cup {c}
        /\ down' = down /\ done' = IF FiresDone(c) THEN "set" ELSE done
    BY <1>1, <1>4, Zenon DEF FinishTransfer
  <2>3. TypeOK' /\ Only(c) /\ transfers'[c] = None
    BY <1>1, <1>2, <2>2, Zenon DEF TypeOK, Only, clients
  <2>4. CountInv'
    BY <1>1, <1>2, <2>1, <2>2, Zenon DEF CountInv, FiresDone, clients
  <2> QED
    BY <1>1, <1>2, <2>2, <2>3, <2>4, LeftAlone, Zenon DEF clients
<1>5. CASE Awaits(transfers[c], m.blk) /\ ~Complete(transfers[c])
  <2>1. SendNext(c)
    BY <1>1, <1>5, Zenon
  <2>2. CountInv'
    BY <1>1, <1>2, <2>1, Zenon DEF SendNext, CountInv, clients
  <2> QED
    BY <1>1, <1>5, <2>1, <2>2, SendNextStep, Zenon
<1> QED
  BY <1>3, <1>4, <1>5, Zenon

LEMMA HandleErrorStep ==
    ASSUME Inv, NEW c \in Clients, HandleError(c)
    PROVE  TypeOK' /\ Only(c) /\ OneClient(c)'
<1>1. /\ up' \subseteq up /\ transfers' = [transfers EXCEPT ![c] = None]
      /\ UNCHANGED <<maxbs, sentto, down, clients>> /\ TypeOK /\ OneClient(c)
  BY Zenon DEF Inv, HandleError, Take
<1>2. TypeOK' /\ Only(c) /\ transfers'[c] = None
  BY <1>1, Zenon DEF TypeOK, Only, clients
<1> QED
  BY <1>1, <1>2, LeftAlone, Zenon DEF clients

\* A resent packet is as good as it was.
LEMMA RetransmitStep ==
    ASSUME Inv, NEW c \in Clients, Retransmit(c)
    PROVE  TypeOK' /\ Only(c) /\ OneClient(c)'
<1> DEFINE t == transfers[c]
<1>1. /\ t # None /\ t \in Transfer /\ TypeOK /\ OneClient(c)
      /\ UNCHANGED <<maxbs, sentto, up, clients>>
  BY Zenon DEF Inv, Retransmit, TypeOK
<1>2. CASE transfers' = [transfers EXCEPT ![c] = None] /\ UNCHANGED down
  <2>1. TypeOK' /\ Only(c) /\ transfers'[c] = None
    BY <1>1, <1>2, Zenon DEF TypeOK, Only, clients
  <2> QED
    BY <1>1, <1>2, <2>1, LeftAlone, Zenon DEF clients
<1>3. CASE /\ transfers' = [transfers EXCEPT ![c].retries = @ + 1]
           /\ down' = down \cup {t.last}
  <2> DEFINE u == [t EXCEPT !.retries = @ + 1]
  <2>1. /\ u \in Transfer /\ u.block_num = t.block_num /\ u.blocksize = t.blocksize
        /\ u.last = t.last
    BY <1>1 DEF Transfer
  <2>2. transfers' = [transfers EXCEPT ![c] = u]
    BY <1>3, Zenon
  <2> HIDE DEF u
  <2>3. Within(c, t, cblk[c]) /\ (Using(c) => Right(c, t)) /\ cpc[c] # "idle"
    BY <1>1, Zenon DEF OneClient, TransferInv, ClientInv
  <2> HIDE DEF t
  <2>4. Within(c, u, cblk[c]) /\ (Using(c) => Right(c, u))
    BY <2>1, <2>3, Zenon DEF Within, Right
  <2> QED
    BY <1>1, <1>3, <2>1, <2>2, <2>3, <2>4, ServerSends, Zenon
<1> QED
  BY <1>2, <1>3, Zenon DEF Retransmit

-----------------------------------------------------------------------------
(* The clients' steps. *)

LEMMA StartStep ==
    ASSUME Inv, NEW c \in Clients, ClientStart(c) \/ ClientRetry(c)
    PROVE  TypeOK' /\ Only(c) /\ OneClient(c)'
<1>1. /\ cpc[c] \in {"idle", "rrq"} /\ cpc' = [cpc EXCEPT ![c] = "rrq"]
      /\ up' = up \cup {Rrq(c)} /\ TypeOK /\ OneClient(c)
      /\ UNCHANGED <<transfers, maxbs, sentto, down, cblk, cbs, got>>
  <2>1. cpc \in [Clients -> {"idle", "rrq", "data", "done", "failed"}]
    BY Zenon DEF Inv, TypeOK
  <2>2. cpc[c] = "rrq" => cpc = [cpc EXCEPT ![c] = "rrq"]
    BY <2>1, Zenon
  <2> QED
    BY <2>2, Zenon DEF Inv, ClientStart, ClientRetry, server, clients
<1>2. TypeOK' /\ Only(c) /\ cpc'[c] = "rrq"
  BY <1>1, Datagrams DEF TypeOK, Only
<1>3. BlockSize(c)' = BlockSize(c) /\ Settled(c)' = Settled(c)
      /\ (\A p : Packet(c, p)' = Packet(c, p)) /\ (\A t : Right(c, t)' = Right(c, t))
      /\ BlockSize(c) \in Nat \ {0}
  BY <1>1, Steady, BlockSizeIsPositive, Zenon
<1>4. Using(c)' /\ Fetching(c)' /\ (cpc[c] # "idle" => Using(c) /\ Fetching(c))
  BY <1>1, <1>2, Zenon DEF Using, Fetching
<1>5. TransferInv(c)' /\ DownInv(c)'
  BY <1>1, <1>3, <1>4, Zenon DEF OneClient, TransferInv, DownInv, ClientInv
<1>6. UpInv(c)'
  BY <1>1, <1>3, Datagrams, Zenon DEF OneClient, UpInv
<1>7. ClientInv(c)'
  <2>1. CASE cpc[c] = "idle"
    <3>1. cblk'[c] = 0 /\ cbs'[c] = 0 /\ got'[c] = 0
      BY <1>1, <2>1, Zenon DEF OneClient, ClientInv
    <3>2. 0 * BlockSize(c) = 0 /\ (File(c) \in Files => Size[File(c)] \in Nat)
      BY <1>3, TftpAssumption
    <3>3. ~(0 > 0) /\ \A x \in Nat : 0 <= x
      OBVIOUS
    <3> QED
      BY <1>2, <1>3, <1>4, <3>1, <3>2, <3>3, Zenon DEF ClientInv
  <2>2. CASE cpc[c] # "idle"
    BY <1>1, <1>2, <1>3, <1>4, <2>2, Zenon DEF OneClient, ClientInv
  <2> QED
    BY <2>1, <2>2, Zenon
<1> QED
  BY <1>2, <1>5, <1>6, <1>7, Zenon DEF OneClient

\* A client that is told the block size can be sent what it could be before.
LEMMA Told ==
    ASSUME NEW c \in Clients, maxbs' = maxbs, cbs'[c] = BlockSize(c)
    PROVE  /\ BlockSize(c)' = BlockSize(c) /\ Settled(c)'
           /\ \A p : Packet(c, p) => Packet(c, p)'
           /\ \A t : Right(c, t) => Right(c, t)'
<1>1. BlockSize(c)' = BlockSize(c) /\ Settled(c)'
  BY Zenon DEF BlockSize, Settled
<1>2. \A p : Packet(c, p) => Packet(c, p)'
  BY <1>1, Zenon DEF Packet, Block, Offset, BlockLen
<1>3. \A t : Right(c, t) => Right(c, t)'
  BY <1>1, <1>2, Zenon DEF Right
<1> QED
  BY <1>1, <1>2, <1>3, Zenon

LEMMA OackStep ==
    ASSUME Inv, NEW c \in Clients, ClientOack(c)
    PROVE  TypeOK' /\ Only(c) /\ OneClient(c)'
<1> DEFINE b == BlockSize(c)
<1>1. PICK m \in down :
        /\ m.to = c /\ m.op = "OACK" /\ Fetching(c) /\ cblk[c] = 0 /\ down' \subseteq down
        /\ cbs' = [cbs EXCEPT ![c] = m.len] /\ cpc' = [cpc EXCEPT ![c] = "data"]
        /\ up' = up \cup {AckPkt(c, 0)} /\ UNCHANGED <<transfers, maxbs, sentto, cblk, got>>
  BY Zenon DEF ClientOack, TakeDown, server, Fetching
<1>2. TypeOK /\ OneClient(c) /\ b \in Nat \ {0}
  BY BlockSizeIsPositive, Zenon DEF Inv
<1>3. m.len = b
  <2>1. m # Error(c)
    BY <1>1, Datagrams, Zenon
  <2>2. Packet(c, m)
    BY <1>1, <1>2, <2>1, Zenon DEF OneClient, DownInv
  <2>3. \A n \in 1..MaxBlockNum : m # Block(c, n)
    <3>1. ASSUME NEW n \in 1..MaxBlockNum PROVE Block(c, n).op = "DATA"
      BY Blocks, <1>2, <2>2, TftpAssumption DEF Packet
    <3> QED
      BY <1>1, <3>1, Zenon
  <2>4. m = Oack(c, b)
    BY <2>2, <2>3, Zenon DEF Packet
  <2> QED
    BY <2>4, Zenon DEF Oack
<1>4. TypeOK' /\ Only(c) /\ cpc'[c] = "data" /\ cbs'[c] = b
  <2>1. AckPkt(c, 0) \in Up /\ AckPkt(c, 0).from = c
    BY Datagrams
  <2>2. TypeOK'
    BY <1>1, <1>2, <1>3, <2>1, Zenon DEF TypeOK
  <2>3. Only(c)
    BY <1>1, <1>2, <2>1, Zenon DEF TypeOK, Only
  <2> QED
    BY <1>1, <1>2, <1>3, <2>2, <2>3, Zenon DEF TypeOK
<1>5. /\ BlockSize(c)' = b /\ Settled(c)'
      /\ \A p : Packet(c, p) => Packet(c, p)'
      /\ \A t : Right(c, t) => Right(c, t)'
  BY <1>1, <1>4, Told, Zenon
<1>6. Using(c) /\ Using(c)' /\ Fetching(c)'
  BY <1>1, <1>4, Zenon DEF Using, Fetching
<1>7. TransferInv(c)' /\ DownInv(c)'
  BY <1>1, <1>2, <1>5, <1>6, Zenon DEF OneClient, TransferInv, DownInv, Error
<1>8. UpInv(c)'
  <2>1. ASSUME NEW x \in up', x.from = c, x.op = "ACK" PROVE x.blk <= cblk'[c] /\ Settled(c)'
    <3>1. CASE x \in up
      BY <1>1, <1>2, <1>5, <2>1, <3>1, Zenon DEF OneClient, UpInv
    <3>2. CASE x = AckPkt(c, 0)
      <4>1. x.blk = 0
        BY <3>2, Zenon DEF AckPkt
      <4>2. cblk'[c] = 0
        BY <1>1, Zenon
      <4>3. 0 <= 0
        OBVIOUS
      <4> QED
        BY <1>5, <4>1, <4>2, <4>3, Zenon
    <3> QED
      BY <1>1, <2>1, <3>1, <3>2, Zenon
  <2> QED
    BY <2>1, Zenon DEF UpInv
<1>9. ClientInv(c)'
  BY <1>1, <1>2, <1>4, <1>5, <1>6, Zenon DEF OneClient, ClientInv, Fetching
<1> QED
  BY <1>4, <1>7, <1>8, <1>9, Zenon DEF OneClient

\* A DATA packet that a fetching client is sent is a block of its file.
LEMMA DataIsBlock ==
    ASSUME Inv, NEW c \in Clients, Fetching(c), NEW m \in down, m.to = c, m.op = "DATA"
    PROVE  /\ File(c) \in Files /\ Settled(c)
           /\ m.blk \in Nat \ {0} /\ m = Block(c, m.blk)
<1>1. TypeOK /\ Packet(c, m) /\ BlockSize(c) \in Nat
  BY Datagrams, BlockSizeIsPositive, Zenon DEF Inv, OneClient, DownInv
<1>2. PICK n \in 1..MaxBlockNum : m = Block(c, n) /\ Settled(c) /\ File(c) \in Files
  BY <1>1, Datagrams, ZenonT(40) DEF Packet
<1>3. n \in Nat \ {0}
  BY <1>2, TftpAssumption
<1>4. m.blk = n
  BY <1>1, <1>2, <1>3, Blocks
<1> QED
  BY <1>2, <1>3, <1>4, Zenon

LEMMA DataStep ==
    ASSUME Inv, NEW c \in Clients, ClientData(c)
    PROVE  TypeOK' /\ Only(c) /\ OneClient(c)'
<1> DEFINE b == BlockSize(c)
           s == Size[File(c)]
           bs == IF cbs[c] = 0 THEN DefaultBlock ELSE cbs[c]
<1>1. PICK m \in down :
        /\ m.to = c /\ m.op = "DATA" /\ Fetching(c) /\ m.blk = cblk[c] + 1
        /\ down' \subseteq down
        /\ cbs' = [cbs EXCEPT ![c] = bs]
        /\ cpc' = [cpc EXCEPT ![c] = IF m.len < bs THEN "done" ELSE "data"]
        /\ cblk' = [cblk EXCEPT ![c] = m.blk]
        /\ got' = [got EXCEPT ![c] = IF @ = m.off THEN @ + m.len ELSE -1]
        /\ up' = up \cup {AckPkt(c, m.blk)} /\ UNCHANGED <<transfers, maxbs, sentto>>
  BY Zenon DEF ClientData, TakeDown, server, Fetching
<1>2. TypeOK /\ OneClient(c) /\ b \in Nat \ {0} /\ cblk[c] \in Nat /\ m \in Down
      /\ m.off \in Nat /\ m.len \in Nat
  BY BlockSizeIsPositive, Zenon DEF Inv, TypeOK, Down
<1> DEFINE n == m.blk
<1>3. File(c) \in Files /\ Settled(c) /\ n \in Nat \ {0} /\ m = Block(c, n)
  BY <1>1, DataIsBlock, Zenon
<1>4. s \in Nat
  BY <1>3, TftpAssumption, Zenon
<1>5. bs = b
  <2>1. CASE cbs[c] = 0
    <3>1. Option[c] = 0
      BY <1>2, <1>3, <2>1, Zenon DEF Settled
    <3> QED
      BY <2>1, <3>1, Zenon DEF BlockSize
  <2>2. CASE cbs[c] # 0
    BY <1>1, <1>2, <2>2, Zenon DEF OneClient, ClientInv
  <2> QED
    BY <2>1, <2>2, Zenon
<1>6. /\ got[c] = cblk[c] * b /\ cblk[c] * b <= s /\ cblk[c] = n - 1
  <2>1. Using(c) /\ cpc[c] # "done"
    BY <1>1, Zenon DEF Fetching, Using
  <2>2. got[c] = cblk[c] * b /\ cblk[c] * b <= s
    BY <1>1, <1>2, <1>3, <2>1, Zenon DEF OneClient, ClientInv
  <2>3. \A x \in Nat : x = (x + 1) - 1
    OBVIOUS
  <2> QED
    BY <1>1, <1>2, <2>2, <2>3, Zenon
<1> HIDE DEF n
<1>7. /\ m.off = (n - 1) * b /\ m.len \in 0..b
      /\ m.len = b => n * b <= s
      /\ m.len < b /\ (n - 1) * b <= s => (n - 1) * b + m.len = s
  <2>1. /\ Block(c, n).off = (n - 1) * b /\ Block(c, n).len \in 0..b
        /\ n * b <= s <=> Block(c, n).len = b
        /\ Block(c, n).len < b /\ (n - 1) * b <= s => (n - 1) * b + Block(c, n).len = s
    BY <1>2, <1>3, Blocks, Zenon
  <2> QED
    BY <1>3, <2>1, Zenon
<1>8. (n - 1) * b \in Nat /\ (n - 1) * b + b = n * b
  BY <1>2, <1>3
<1> HIDE DEF b, s, bs
<1>9. /\ TypeOK' /\ Only(c) /\ cbs'[c] = b /\ cblk'[c] = n
      /\ cpc'[c] = (IF m.len < b THEN "done" ELSE "data")
      /\ got'[c] = (n - 1) * b + m.len
  <2>1. got[c] = m.off
    BY <1>6, <1>7, Zenon
  <2>2. bs \in Nat /\ m.len \in Nat /\ got[c] + m.len \in Int
    <3>1. bs \in Nat /\ m.len \in Nat /\ got[c] \in Nat
      BY <1>2, <1>5, <1>7, <1>8, <2>1, Zenon
    <3>2. \A x, y \in Nat : x + y \in Int
      OBVIOUS
    <3> QED
      BY <3>1, <3>2, Zenon
  <2>3. got' = [got EXCEPT ![c] = got[c] + m.len]
    BY <1>1, <2>1, Zenon
  <2>4. AckPkt(c, m.blk) \in Up /\ AckPkt(c, m.blk).from = c
    BY <1>3, Datagrams, Zenon DEF n
  <2>5. TypeOK'
    <3>1. cbs' \in [Clients -> Nat] /\ cblk' \in [Clients -> Nat] /\ got' \in [Clients -> Int]
      <4>1. n \in Nat /\ cbs \in [Clients -> Nat] /\ cblk \in [Clients -> Nat] /\ got \in [Clients -> Int]
        BY <1>2, <1>3, Zenon DEF TypeOK
      <4>2. cbs' = [cbs EXCEPT ![c] = bs] /\ cblk' = [cblk EXCEPT ![c] = n]
        BY <1>1, Zenon DEF n
      <4> QED
        BY <2>2, <2>3, <4>1, <4>2, Zenon
    <3>2. cpc' \in [Clients -> {"idle", "rrq", "data", "done", "failed"}]
      BY <1>1, <1>2, Zenon DEF TypeOK
    <3>3. up' \subseteq Up /\ down' \subseteq Down
      BY <1>1, <1>2, <2>4, Zenon DEF TypeOK
    <3> QED
      BY <1>1, <1>2, <3>1, <3>2, <3>3, Zenon DEF TypeOK
  <2>6. Only(c)
    BY <1>1, <1>2, <2>4, Zenon DEF TypeOK, Only
  <2> QED
    <3>1. c \in DOMAIN cbs /\ c \in DOMAIN cblk /\ c \in DOMAIN cpc /\ c \in DOMAIN got
      BY <1>2, Zenon DEF TypeOK
    <3>2. cbs'[c] = bs /\ cblk'[c] = n
      BY <1>1, <3>1, Zenon DEF n
    <3>3. cpc'[c] = IF m.len < bs THEN "done" ELSE "data"
      BY <1>1, <3>1, Zenon
    <3>4. got'[c] = m.off + m.len
      BY <2>1, <2>3, <3>1, Zenon
    <3> QED
      BY <1>5, <1>7, <2>5, <2>6, <3>2, <3>3, <3>4, Zenon
<1>10. /\ BlockSize(c)' = b /\ Settled(c)'
       /\ \A p : Packet(c, p) => Packet(c, p)'
       /\ \A t : Right(c, t) => Right(c, t)'
  BY <1>1, <1>9, Told, Zenon DEF b
<1>11. Using(c) /\ Fetching(c) /\ cpc'[c] # "idle" /\ (Fetching(c)' <=> cpc'[c] = "data")
  <2>1. cpc'[c] \in {"done", "data"}
    BY <1>9, Zenon
  <2> QED
    BY <1>1, <2>1, Zenon DEF Using, Fetching
<1>12. TransferInv(c)'
  <2> SUFFICES ASSUME transfers[c] # None
               PROVE  Within(c, transfers[c], n) /\ Right(c, transfers[c])
    BY <1>1, <1>9, <1>10, Zenon DEF TransferInv
  <2>1. /\ transfers[c].block_num \in Nat
        /\ Within(c, transfers[c], cblk[c]) /\ Right(c, transfers[c])
    BY <1>2, <1>11, Zenon DEF TypeOK, Transfer, OneClient, TransferInv
  <2>2. cblk[c] \in Nat /\ n = cblk[c] + 1
    BY <1>1, <1>2, Zenon DEF n
  <2>3. \A x, k \in Nat : x <= k + 1 => x <= k + 1 + 1
    OBVIOUS
  <2> QED
    BY <2>1, <2>2, <2>3, Zenon DEF Within
<1>13. DownInv(c)'
  BY <1>1, <1>2, <1>10, <1>11, Zenon DEF OneClient, DownInv, Error
<1>14. UpInv(c)'
  <2> SUFFICES ASSUME NEW k \in up', k.from = c, k.op = "ACK"
               PROVE  k.blk <= n
    BY <1>9, <1>10, Zenon DEF UpInv
  <2>1. CASE k \in up
    <3>1. k.blk \in Nat /\ k.blk <= n - 1
      BY <1>2, <1>6, <2>1, Zenon DEF OneClient, UpInv, TypeOK, Up
    <3> QED
      BY <1>3, <3>1
  <2>2. CASE k = AckPkt(c, n)
    BY <1>3, <2>2, Datagrams
  <2> QED
    BY <1>1, <2>1, <2>2, Zenon DEF n
<1>15. ClientInv(c)'
  <2>1. CASE m.len < b
    <3>1. cpc'[c] = "done" /\ got'[c] = s
      BY <1>6, <1>7, <1>9, <2>1, Zenon
    <3> QED
      BY <1>11, <3>1, Zenon DEF ClientInv, s
  <2>2. CASE ~(m.len < b)
    <3>1. m.len = b
      BY <1>2, <1>7, <2>2
    <3>2. cpc'[c] = "data" /\ got'[c] = n * b /\ n * b <= s
      BY <1>7, <1>8, <1>9, <2>2, <3>1, Zenon
    <3> QED
      BY <1>9, <1>10, <1>11, <3>2, Zenon DEF ClientInv, s
  <2> QED
    BY <2>1, <2>2, Zenon
<1> QED
  BY <1>9, <1>12, <1>13, <1>14, <1>15, Zenon DEF OneClient

LEMMA DuplicateStep ==
    ASSUME Inv, NEW c \in Clients, ClientDuplicate(c)
    PROVE  TypeOK' /\ Only(c) /\ OneClient(c)'
<1>1. PICK m \in down :
        /\ m.to = c /\ m.op = "DATA" /\ cpc[c] = "data" /\ m.blk <= cblk[c]
        /\ down' \subseteq down
        /\ up' = up \cup {AckPkt(c, m.blk)} /\ UNCHANGED <<transfers, maxbs, sentto, clients>>
  BY Zenon DEF ClientDuplicate, TakeDown, server
<1>2. TypeOK /\ OneClient(c) /\ Fetching(c)
  BY <1>1, Zenon DEF Inv, Fetching
<1>3. Settled(c) /\ m.blk \in Nat
  BY <1>1, <1>2, DataIsBlock, Zenon
<1>4. /\ AckPkt(c, m.blk) \in Up /\ AckPkt(c, m.blk).from = c /\ AckPkt(c, m.blk).blk = m.blk
  BY <1>3, Datagrams
<1>5. TypeOK' /\ Only(c)
  BY <1>1, <1>2, <1>4, Zenon DEF TypeOK, Only, clients
<1>6. BlockSize(c)' = BlockSize(c) /\ Settled(c)' = Settled(c)
      /\ (\A p : Packet(c, p)' = Packet(c, p)) /\ (\A t : Right(c, t)' = Right(c, t))
  BY <1>1, Steady, Zenon DEF clients
<1>7. Using(c) /\ Fetching(c)' /\ cpc'[c] = "data"
  BY <1>1, <1>2, Zenon DEF Using, Fetching, clients
<1>8. TransferInv(c)' /\ DownInv(c)' /\ ClientInv(c)'
  BY <1>1, <1>2, <1>6, <1>7, Zenon DEF OneClient, TransferInv, DownInv, ClientInv, clients
<1>9. UpInv(c)'
  BY <1>1, <1>2, <1>3, <1>4, <1>6, Zenon DEF OneClient, UpInv, clients
<1> QED
  BY <1>5, <1>8, <1>9, Zenon DEF OneClient

LEMMA StopStep ==
    ASSUME Inv, NEW c \in Clients, ClientError(c) \/ ClientAbort(c)
    PROVE  TypeOK' /\ Only(c) /\ OneClient(c)'
<1>1. /\ Fetching(c) /\ cpc' = [cpc EXCEPT ![c] = "failed"] /\ down' \subseteq down
      /\ up' = up \/ up' = up \cup {Abort(c)}
      /\ UNCHANGED <<transfers, maxbs, sentto, cblk, cbs, got>> /\ TypeOK /\ OneClient(c)
  BY Zenon DEF Inv, ClientError, ClientAbort, TakeDown, server, Fetching
<1>2. TypeOK' /\ Only(c) /\ cpc'[c] = "failed"
  <2>1. Abort(c) \in Up /\ Abort(c).from = c
    BY Datagrams
  <2>2. TypeOK'
    BY <1>1, <2>1, Zenon DEF TypeOK
  <2>3. Only(c)
    BY <1>1, <2>1, Zenon DEF TypeOK, Only
  <2> QED
    BY <1>1, <2>2, <2>3, Zenon DEF TypeOK
<1>3. BlockSize(c)' = BlockSize(c) /\ Settled(c)' = Settled(c)
      /\ (\A p : Packet(c, p)' = Packet(c, p)) /\ (\A t : Right(c, t)' = Right(c, t))
  BY <1>1, Steady, Zenon
<1>4. Using(c) /\ ~Fetching(c)' /\ cpc[c] # "done"
  BY <1>1, <1>2, Zenon DEF Using, Fetching
<1>5. TransferInv(c)' /\ DownInv(c)' /\ ClientInv(c)'
  BY <1>1, <1>2, <1>3, <1>4, Zenon DEF OneClient, TransferInv, DownInv, ClientInv
<1>6. UpInv(c)'
  <2>1. \A x \in up' : x.op = "ACK" => x \in up
    <3>1. Abort(c).op = "ERROR"
      BY Zenon DEF Abort
    <3>2. \A x \in up' : x \in up \/ x = Abort(c)
      BY <1>1, Zenon
    <3> QED
      BY <3>1, <3>2, Zenon
  <2> QED
    BY <1>1, <1>3, <2>1, Zenon DEF OneClient, UpInv
<1> QED
  BY <1>2, <1>5, <1>6, Zenon DEF OneClient

\* The block size changes only when nobody fetches and nothing is under way.
LEMMA SetMaxStep ==
    ASSUME Inv, SetMaxBlocksize
    PROVE  TypeOK' /\ \A c \in Clients : OneClient(c)'
<1>1. /\ up' = {} /\ down' = {} /\ \A c \in Clients : ~Fetching(c)
      /\ UNCHANGED <<transfers, sentto, clients>> /\ TypeOK
      /\ \A c \in Clients : OneClient(c)
  BY Zenon DEF Inv, SetMaxBlocksize, Fetching
<1>2. maxbs' \in Nat
  <2>1. MinBlock \in Nat /\ DefaultBlock \in Nat /\ MaxBlock \in Nat
    BY TftpAssumption
  <2>2. \A x, y \in Nat : Most(x, y) \in Nat /\ Least(x, y) \in Nat
    BY Zenon DEF Most, Least
  <2> QED
    BY <2>1, <2>2, Zenon DEF SetMaxBlocksize
<1>3. TypeOK'
  BY <1>1, <1>2, Zenon DEF TypeOK, clients
<1>4. ASSUME NEW c \in Clients PROVE OneClient(c)'
  <2>1. ~Using(c)' /\ ~Fetching(c)' /\ OneClient(c)
    BY <1>1, Zenon DEF Using, Fetching, clients
  <2> QED
    BY <1>1, <2>1, Zenon DEF OneClient, TransferInv, DownInv, UpInv, ClientInv, clients
<1> QED
  BY <1>3, <1>4, Zenon

\* The endpoint is closed, or the network or a client drops a datagram.
LEMMA DropStep ==
    ASSUME Inv, \/ ConnectionLost \/ LoseUp \/ LoseDown \/ UNCHANGED vars
                \/ \E c \in Clients : ClientDrop(c)
    PROVE  TypeOK' /\ \A c \in Clients : OneClient(c)'
<1>1. /\ up' \subseteq up /\ down' \subseteq down /\ UNCHANGED <<maxbs, sentto, clients>>
      /\ transfers' = transfers \/ transfers' = [c \in Clients |-> None]
      /\ TypeOK /\ \A c \in Clients : OneClient(c)
  BY Zenon DEF Inv, ConnectionLost, LoseUp, LoseDown, ClientDrop, server, clients, vars
<1>2. TypeOK'
  BY <1>1, Zenon DEF TypeOK, clients
<1>3. ASSUME NEW c \in Clients PROVE OneClient(c)'
  <2>1. /\ transfers'[c] \in {transfers[c], None} /\ OneClient(c)
        /\ cpc'[c] = cpc[c] /\ cblk'[c] = cblk[c] /\ cbs'[c] = cbs[c] /\ got'[c] = got[c]
        /\ \A m \in up' : m.from = c => m \in up
        /\ \A m \in down' : m.to = c => m \in down
    BY <1>1, Zenon DEF clients
  <2> QED
    BY <1>1, <2>1, LeftAlone, Zenon
<1> QED
  BY <1>2, <1>3, Zenon

-----------------------------------------------------------------------------
(* The results. *)

\* Only FinishTransfer counts, and a client that is done stays so.
LEMMA CountStep ==
    ASSUME Inv, Next, \A c \in Clients : ~HandleAck(c)
    PROVE  CountInv'
<1>1. UNCHANGED <<sentto, done>>
  BY ZenonT(40) DEF Next, HandleRrq, HandleError, Retransmit, ClientStart, ClientRetry, ClientReceive,
         ClientOack, ClientData, ClientDuplicate, ClientError, ClientDrop, ClientAbort,
         SetMaxBlocksize, ConnectionLost, LoseUp, LoseDown, server
<1>2. \A d \in Clients : cpc[d] = "done" => cpc'[d] = "done"
  <2> DEFINE Stays == \A d \in Clients : cpc[d] = "done" => cpc'[d] = "done"
  <2>0. cpc \in [Clients -> {"idle", "rrq", "data", "done", "failed"}]
    BY Zenon DEF Inv, TypeOK
  <2>1. ASSUME NEW c \in Clients, ClientStart(c) PROVE Stays
    BY <2>0, <2>1, Zenon DEF ClientStart
  <2>2. ASSUME NEW c \in Clients, ClientAbort(c) PROVE Stays
    BY <2>0, <2>2, Zenon DEF ClientAbort
  <2>3. ASSUME NEW c \in Clients, ClientReceive(c) PROVE Stays
    <3>1. CASE ClientOack(c)
      BY <2>0, <3>1, Zenon DEF ClientOack
    <3>2. CASE ClientData(c)
      BY <2>0, <3>2, Zenon DEF ClientData
    <3>3. CASE ClientError(c)
      BY <2>0, <3>3, Zenon DEF ClientError
    <3>4. CASE ClientDuplicate(c) \/ ClientDrop(c)
      BY <3>4, Zenon DEF ClientDuplicate, ClientDrop, clients
    <3> QED
      BY <2>3, <3>1, <3>2, <3>3, <3>4, Zenon DEF ClientReceive
  <2>4. ASSUME NEW c \in Clients, HandleRrq(c) \/ HandleError(c) \/ Retransmit(c) \/ ClientRetry(c)
        PROVE  Stays
    BY <2>4, Zenon DEF HandleRrq, HandleError, Retransmit, ClientRetry, clients
  <2>5. ASSUME SetMaxBlocksize \/ ConnectionLost \/ LoseUp \/ LoseDown PROVE Stays
    BY <2>5, Zenon DEF SetMaxBlocksize, ConnectionLost, LoseUp, LoseDown, clients
  <2> HIDE DEF Stays
  <2>6. Stays
    BY <2>1, <2>2, <2>3, <2>4, <2>5, Zenon DEF Next
  <2> QED
    BY <2>6, Zenon DEF Stays
<1> QED
  BY <1>1, <1>2, Zenon DEF Inv, TypeOK, CountInv

LEMMA InvStep == Inv /\ [Next]_vars => Inv'
<1> SUFFICES ASSUME Inv, [Next]_vars PROVE Inv'
  BY Zenon
<1>1. TypeOK' /\ \A c \in Clients : OneClient(c)'
  <2>1. ASSUME NEW c \in Clients,
               \/ HandleRrq(c) \/ HandleAck(c) \/ HandleError(c) \/ Retransmit(c)
               \/ ClientStart(c) \/ ClientRetry(c) \/ ClientOack(c) \/ ClientData(c)
               \/ ClientDuplicate(c) \/ ClientError(c) \/ ClientAbort(c)
        PROVE  TypeOK' /\ \A d \in Clients : OneClient(d)'
    <3>1. TypeOK' /\ Only(c) /\ OneClient(c)'
      BY <2>1, HandleRrqStep, HandleAckStep, HandleErrorStep, RetransmitStep, StartStep,
         OackStep, DataStep, DuplicateStep, StopStep, Zenon
    <3> QED
      BY <3>1, OthersAlone, Zenon
  <2> QED
    BY <2>1, SetMaxStep, DropStep, Zenon DEF Next, ClientReceive
<1>2. CountInv'
  <2>1. CASE UNCHANGED vars
    BY <2>1, Zenon DEF Inv, CountInv, vars
  <2>2. CASE \E c \in Clients : HandleAck(c)
    BY <2>2, HandleAckStep, Zenon
  <2> QED
    BY <2>1, <2>2, CountStep, Zenon
<1> QED
  BY <1>1, <1>2, Zenon DEF Inv

LEMMA InvInit == Init => Inv
<1> SUFFICES ASSUME Init PROVE Inv
  BY Zenon
<1>1. TypeOK
  BY TftpAssumption DEF Init, TypeOK
<1>2. ASSUME NEW c \in Clients PROVE OneClient(c)
  BY <1>2, Zenon DEF Init, OneClient, TransferInv, DownInv, UpInv, ClientInv, Using, Fetching
<1> QED
  BY <1>1, <1>2, Zenon DEF Init, Inv, CountInv

\* Inv always holds: for any clients, files and block sizes, and however many
\* datagrams are lost, duplicated or reordered.
THEOREM TftpInvariance == Spec => []Inv
  BY InvInit, InvStep, PTL DEF Spec

\* The server never runs ahead of a client: _handle_ack acts on an ACK only
\* when the client holds the block it names.
THEOREM ServerKeepsStep == Spec => []LockStep
<1>1. Inv => LockStep
  BY Zenon DEF Inv, OneClient, TransferInv, Within, LockStep, Active
<1> QED
  BY <1>1, TftpInvariance, PTL

\* A client that ends its fetch has the whole file: _send_data_block cuts it
\* by the block size that _handle_rrq settled, and set_max_blocksize between
\* two fetches does not disturb one.
THEOREM FetchIsWhole == Spec => []WholeFile
<1>1. Inv => WholeFile
  BY Zenon DEF Inv, OneClient, ClientInv, WholeFile
<1> QED
  BY <1>1, TftpInvariance, PTL

\* A transfer that _handle_ack counts complete has been received whole, and
\* _done_event fires for the done_file only.
THEOREM CountedIsDelivered == Spec => []CountedMeansDelivered
<1>1. Inv => CountedMeansDelivered
  BY Zenon DEF Inv, TypeOK, CountInv, OneClient, ClientInv, CountedMeansDelivered
<1> QED
  BY <1>1, TftpInvariance, PTL

(***************************************************************************)
(* Ethernet recovery.                                                      *)
(***************************************************************************)
Phases == {"check", "add", "plumb", "undo", "dhcp", "tftp", "power", "fetch", "prompt",
           "serve", "close", "remove", "end", "done", "failed"}

\* A process that will take the address down again.
Owns(h) ==
    \/ epc[h] \in {"plumb", "undo"}
    \/ h \in added /\ epc[h] \in {"dhcp", "tftp", "power", "fetch", "prompt", "serve",
                                  "close", "remove"}

NetTypes ==
    /\ eq \in NetRequests
    /\ epc \in [Hosts -> Phases]
    /\ added \subseteq Hosts /\ failing \subseteq Hosts
    /\ dhcp \subseteq Hosts /\ tftp \subseteq Hosts

\* An address that was there is nobody's to remove.
OperatorsAddress ==
    eq.had = TRUE =>
        addr = "up" /\ added = {} /\ \A h \in Hosts : epc[h] \notin {"add", "plumb", "undo"}

\* An address that was not there has an owner.
OwnAddress ==
    eq.had = FALSE /\ stuck = "no" /\ addr # "none" => \E h \in Hosts : Owns(h)

\* A server is open only in a process that is going to close it.
ServersHeld ==
    \A h \in dhcp \cup tftp : epc[h] \in {"tftp", "power", "fetch", "prompt", "serve", "close"}

AddressInv == NetTypes /\ OperatorsAddress /\ OwnAddress /\ ServersHeld

LEMMA HadIsBoolean == ASSUME eq \in NetRequests PROVE eq.had \in BOOLEAN
  BY NetAssumption, Zenon

LEMMA AddressInit == NetInit => AddressInv
  <1> SUFFICES ASSUME NetInit PROVE AddressInv
    BY Zenon
  <1>1. eq.had \in BOOLEAN
    BY HadIsBoolean, Zenon DEF NetInit
  <1>2. \A h \in Hosts : Start(h) \in {"done", "dhcp", "check"}
    BY Zenon DEF Start
  <1>3. epc \in [Hosts -> Phases] /\ \A h \in Hosts : epc[h] = Start(h)
    BY <1>2, Zenon DEF NetInit, Phases
  <1> QED
    BY <1>1, <1>2, <1>3, Zenon DEF NetInit, AddressInv, NetTypes, OperatorsAddress, OwnAddress, ServersHeld

LEMMA AddressNext == AddressInv /\ [NetNext]_netVars => AddressInv'
  <1> SUFFICES ASSUME AddressInv, [NetNext]_netVars PROVE AddressInv'
    BY Zenon
  <1>0. eq.had \in BOOLEAN
    BY HadIsBoolean, Zenon DEF AddressInv, NetTypes
  <1> USE <1>0 DEF AddressInv, NetTypes, OperatorsAddress, OwnAddress, ServersHeld, Owns, Phases,
                   To, Out, servers, Ready, _bindable, EthFault
  <1>1. ASSUME NEW h \in Hosts, AddCheck(h) PROVE AddressInv'
    BY <1>1, Zenon DEF AddCheck
  <1>2. ASSUME NEW h \in Hosts, AddCommand(h) PROVE AddressInv'
    BY <1>2, Zenon DEF AddCommand
  <1>3. ASSUME NEW h \in Hosts, AwaitPlumbed(h) PROVE AddressInv'
    BY <1>3, Zenon DEF AwaitPlumbed
  <1>4. ASSUME NEW h \in Hosts, RemoveAddress(h) PROVE AddressInv'
    BY <1>4, Zenon DEF RemoveAddress, remove_ip
  <1>5. ASSUME NEW h \in Hosts, Finish(h) PROVE AddressInv'
    BY <1>5, Zenon DEF Finish
  <1>6. ASSUME NEW h \in Hosts, start_dhcp_server(h) PROVE AddressInv'
    BY <1>6, ZenonT(40) DEF start_dhcp_server
  <1>7. ASSUME NEW h \in Hosts, start_tftp_server(h) PROVE AddressInv'
    BY <1>7 DEF start_tftp_server
  <1>8. ASSUME NEW h \in Hosts, Close(h) PROVE AddressInv'
    BY <1>8, Zenon DEF Close
  <1>9. ASSUME NEW h \in Hosts, Cancel(h) PROVE AddressInv'
    BY <1>9, Zenon DEF Cancel
  <1>10. CASE Serve
    BY <1>10, Zenon DEF Serve, Hosts
  <1>11. CASE PowerOn
    BY <1>11 DEF PowerOn, Hosts
  <1>12. CASE AwaitFetch
    BY <1>12 DEF AwaitFetch, Hosts
  <1>13. CASE _catch_prompt
    BY <1>13, Zenon DEF _catch_prompt, Hosts
  <1>14. CASE Plumb
    BY <1>14, Zenon DEF Plumb
  <1>15. CASE BoardStep
    BY <1>15, Zenon DEF BoardStep, Board
  <1>16. CASE UNCHANGED netVars
    BY <1>16, Zenon DEF netVars
  <1> QED
    BY <1>1, <1>2, <1>3, <1>4, <1>5, <1>6, <1>7, <1>8, <1>9, <1>10, <1>11, <1>12, <1>13, <1>14,
       <1>15, <1>16, Zenon DEF NetNext, NetHost

\* The host is left as it was found (add_ip, temporary_ip and the "finally" of
\* recover_over_ethernet), for any requests and any number of faults.
THEOREM HostIsLeftAsFound == NetSpec => []HostAsFound
  <1>1. AddressInv => HostAsFound
    <2> SUFFICES ASSUME AddressInv PROVE HostAsFound
      BY Zenon
    <2>1. eq.had \in BOOLEAN
      BY HadIsBoolean, Zenon DEF AddressInv, NetTypes
    <2>2. eq.had => addr = "up"
      BY <2>1, Zenon DEF AddressInv, OperatorsAddress
    <2>3. NetEnded => dhcp = {} /\ tftp = {}
      BY Zenon DEF AddressInv, NetTypes, ServersHeld, NetEnded
    <2>4. NetEnded /\ stuck = "no" /\ ~eq.had => addr = "none"
      BY <2>1, Zenon DEF AddressInv, OwnAddress, Owns, NetEnded
    <2> QED
      BY <2>2, <2>3, <2>4, Zenon DEF HostAsFound
  <1> QED
    BY <1>1, AddressInit, AddressNext, PTL DEF NetSpec

-----------------------------------------------------------------------------
Started == {"pack", "prompt", "linux"}

\* The pack runs, and the console is at the prompt if there is one.
Booted == eq.valid = FALSE /\ board \in Started /\ (eq.console = TRUE => board = "prompt")

\* Once the wait for the pack is over without an error the board has it.
BootInv ==
    /\ epc[Novatek] \in {"plumb", "check", "add", "dhcp", "tftp", "power", "fetch", "prompt",
                         "undo", "close", "remove", "end", "done", "failed"}
    /\ epc[Novatek] = "prompt" => eq.valid = FALSE /\ board \in Started
    /\ epc[Novatek] = "undo" => Novatek \in failing
    /\ epc[Novatek] \in {"close", "remove", "end"} => Novatek \in failing \/ Booted
    /\ epc[Novatek] = "done" => Booted

LEMMA FieldsAreBoolean ==
    ASSUME eq \in NetRequests PROVE eq.valid \in BOOLEAN /\ eq.console \in BOOLEAN
  BY NetAssumption, Zenon

LEMMA BootInit == NetInit => BootInv
  <1> SUFFICES ASSUME NetInit PROVE BootInv
    BY Zenon
  <1>1. Start(Novatek) \in {"dhcp", "check"}
    BY NetAssumption, Zenon DEF Start
  <1>2. epc[Novatek] = Start(Novatek)
    BY Zenon DEF NetInit, Hosts
  <1> QED
    BY <1>1, <1>2, Zenon DEF BootInv

LEMMA BootNext == AddressInv /\ BootInv /\ [NetNext]_netVars => BootInv'
  <1> SUFFICES ASSUME AddressInv, BootInv, [NetNext]_netVars PROVE BootInv'
    BY Zenon
  <1>0. /\ eq.valid \in BOOLEAN /\ eq.console \in BOOLEAN
        /\ epc \in [Hosts -> Phases] /\ Novatek \in Hosts /\ Novatek # Other
    BY FieldsAreBoolean, NetAssumption, Zenon DEF AddressInv, NetTypes, Hosts
  <1> USE <1>0 DEF BootInv, Booted, Started, To, Out, servers, Ready, _bindable, EthFault
  <1>1. ASSUME NEW h \in Hosts, AddCheck(h) PROVE BootInv'
    BY <1>1, Zenon DEF AddCheck
  <1>2. ASSUME NEW h \in Hosts, AddCommand(h) PROVE BootInv'
    BY <1>2, Zenon DEF AddCommand
  <1>3. ASSUME NEW h \in Hosts, AwaitPlumbed(h) PROVE BootInv'
    BY <1>3, Zenon DEF AwaitPlumbed
  <1>4. ASSUME NEW h \in Hosts, RemoveAddress(h) PROVE BootInv'
    BY <1>4, Zenon DEF RemoveAddress
  <1>5. ASSUME NEW h \in Hosts, Finish(h) PROVE BootInv'
    BY <1>5, Zenon DEF Finish
  <1>6. ASSUME NEW h \in Hosts, start_dhcp_server(h) PROVE BootInv'
    BY <1>6, Zenon DEF start_dhcp_server
  <1>7. ASSUME NEW h \in Hosts, start_tftp_server(h) PROVE BootInv'
    BY <1>7, Zenon DEF start_tftp_server
  <1>8. ASSUME NEW h \in Hosts, Close(h) PROVE BootInv'
    BY <1>8, Zenon DEF Close
  <1>9. ASSUME NEW h \in Hosts, Cancel(h) PROVE BootInv'
    BY <1>9, Zenon DEF Cancel
  <1>10. CASE Serve
    BY <1>10, Zenon DEF Serve
  <1>11. CASE PowerOn
    BY <1>11, Zenon DEF PowerOn
  <1>12. CASE AwaitFetch
    BY <1>12, Zenon DEF AwaitFetch, Completed
  <1>13. CASE _catch_prompt
    BY <1>13, Zenon DEF _catch_prompt
  <1>14. CASE Plumb
    BY <1>14, Zenon DEF Plumb
  <1>15. CASE BoardStep
    BY <1>15, Zenon DEF BoardStep, Board
  <1>16. CASE UNCHANGED netVars
    BY <1>16, Zenon DEF netVars
  <1> QED
    BY <1>1, <1>2, <1>3, <1>4, <1>5, <1>6, <1>7, <1>8, <1>9, <1>10, <1>11, <1>12, <1>13, <1>14,
       <1>15, <1>16, Zenon DEF NetNext, NetHost

\* A recovery that succeeds has its pack running on the board, whoever else
\* answers DHCP requests and whatever fails (recover_over_ethernet).
THEOREM SuccessIsBooted == NetSpec => []NetBooted
  <1>1. AddressInv /\ BootInv => NetBooted
    <2> SUFFICES ASSUME AddressInv, BootInv, epc[Novatek] = "done" PROVE NetBooted
      BY Zenon DEF NetBooted
    <2>1. eq.valid \in BOOLEAN /\ eq.console \in BOOLEAN
      BY FieldsAreBoolean, Zenon DEF AddressInv, NetTypes
    <2> QED
      BY <2>1, Zenon DEF BootInv, Booted, Started, NetBooted
  <1> QED
    BY <1>1, AddressInit, AddressNext, BootInit, BootNext, PTL DEF NetSpec

(***************************************************************************)
(* The firmware cache.                                                     *)
(***************************************************************************)
CopyType == [ver: Nat, whole: BOOLEAN, mtime: Nat, late: BOOLEAN]

Working == {"head", "judge", "keep", "get", "store", "meta", "clean", "restore", "use"}

CacheTypes ==
    /\ fpc \in [Fetchers -> Working \cup Fetched \cup {"look"}]
    /\ told \in [Fetchers -> Nat]
    /\ kept \in [Fetchers -> CopyType] /\ fresh \in [Fetchers -> CopyType]
    /\ used \in [Fetchers -> CopyType]
    /\ via \in [Fetchers -> {"none", "cached", "dated", "fetched", "kept", "legacy"}]
    /\ cached \in CopyType /\ meta \in Nat /\ release \in Nat

\* One process at a time.
Sequential ==
    \A f, g \in Fetchers : f # g => fpc[f] \notin Working \/ fpc[g] \notin Working

\* The sidecar is about the file or about an earlier one, and a file that was
\* not late is dated no later than its release.
Sound(c) ==
    \/ c = NoCopy
    \/ c.ver # 0 /\ meta <= c.ver /\ (c.late = TRUE \/ c.mtime <= c.ver)

\* A file answers what the process was told of the release.
Fit(f, c) == c.ver >= told[f] \/ (via[f] = "dated" /\ c.late = TRUE)

OneProcess(f) ==
    /\ told[f] <= release
    /\ fpc[f] \in {"look", "head"} => told[f] = 0
    /\ fpc[f] \in {"head", "judge"} => cached.ver # 0
    /\ fpc[f] \in {"get", "store", "clean", "restore"} => Sound(kept[f])
    /\ fpc[f] \in {"store", "meta"} =>
         /\ fresh[f].ver >= told[f] /\ fresh[f].ver >= meta /\ fresh[f].ver <= release
         /\ fresh[f].ver # 0
    /\ fpc[f] = "meta" => cached.ver = fresh[f].ver
    /\ fpc[f] = "use" /\ via[f] \in {"cached", "dated", "fetched"} => Fit(f, cached)
    /\ fpc[f] = "used" /\ via[f] \in {"cached", "dated", "fetched"} => Fit(f, used[f])

CacheInv ==
    /\ CacheTypes /\ Sequential
    /\ meta <= release /\ release >= 1 /\ Sound(cached)
    /\ \A f \in Fetchers : OneProcess(f)

\* The fields of a copy just downloaded.
LEMMA CopyFacts ==
    ASSUME NEW v \in Nat, NEW w \in BOOLEAN
    PROVE  /\ Copy(v, w) \in CopyType
           /\ Copy(v, w).ver = v /\ Copy(v, w).mtime = v
  BY Zenon DEF Copy, CopyType

\* The absent copy.
LEMMA NoCopyFacts == NoCopy \in CopyType /\ NoCopy.ver = 0
  BY CopyFacts, Zenon DEF NoCopy

\* write_bytes keeps the release and sets the date.
LEMMA NowFacts ==
    ASSUME NEW c \in CopyType, release \in Nat
    PROVE  /\ Now(c) \in CopyType
           /\ Now(c).ver = c.ver /\ Now(c).mtime = release
           /\ release > c.ver => Now(c).late = TRUE
  <1> DEFINE b == release > c.ver
  <1>1. b \in BOOLEAN
    OBVIOUS
  <1>2. Now(c) = [c EXCEPT !.mtime = release, !.late = b]
    BY Zenon DEF Now
  <1>3. b => b = TRUE
    BY Zenon, <1>1
  <1> HIDE DEF b
  <1>4. /\ Now(c) \in CopyType /\ Now(c).ver = c.ver /\ Now(c).mtime = release
        /\ Now(c).late = b
    <2>1. /\ [c EXCEPT !.mtime = release, !.late = b] \in CopyType
          /\ [c EXCEPT !.mtime = release, !.late = b].ver = c.ver
          /\ [c EXCEPT !.mtime = release, !.late = b].mtime = release
          /\ [c EXCEPT !.mtime = release, !.late = b].late = b
      BY <1>1, Zenon DEF CopyType
    <2> QED
      BY Zenon, <1>2, <2>1
  <1> QED
    BY Zenon, <1>3, <1>4 DEF b

\* The invariant holds when the first process starts.
LEMMA CacheInitially == CacheInit => CacheInv
  <1> SUFFICES ASSUME CacheInit PROVE CacheInv
    BY Zenon
  <1>1. cached \in CopyType /\ cached.ver \in {0, 1} /\ cached.mtime = cached.ver
    <2>1. CASE cached = NoCopy
      BY <2>1, CopyFacts, Zenon DEF NoCopy
    <2>2. CASE cached = Copy(1, TRUE)
      BY <2>2, CopyFacts, Zenon
    <2> QED
      BY <2>1, <2>2, Zenon DEF CacheInit
  <1>2. meta \in {0, cached.ver} /\ release = 1
    BY Zenon DEF CacheInit
  <1>3. CacheTypes
    BY <1>1, <1>2, NoCopyFacts DEF CacheInit, CacheTypes
  <1>4. Sequential /\ \A f \in Fetchers : fpc[f] = "look" /\ told[f] = 0
    BY Zenon DEF CacheInit, Sequential, Working
  <1>5. meta <= release /\ release >= 1 /\ Sound(cached)
    <2>1. CASE cached = NoCopy
      BY <1>1, <1>2, <2>1, NoCopyFacts DEF Sound
    <2>2. CASE cached = Copy(1, TRUE)
      <3>1. cached.ver = 1 /\ cached.mtime = 1
        BY <2>2, CopyFacts, Zenon
      <3>2. meta <= 1 /\ meta <= cached.ver
        BY <1>2, <3>1
      <3> QED
        BY <1>2, <3>1, <3>2 DEF Sound
    <2> QED
      BY <2>1, <2>2, Zenon DEF CacheInit
  <1>6. \A f \in Fetchers : OneProcess(f)
    <2> TAKE f \in Fetchers
    <2>1. fpc[f] = "look" /\ told[f] = 0 /\ told[f] <= release
      BY <1>2, <1>4
    <2> QED
      BY Zenon, <2>1 DEF OneProcess
  <1> QED
    BY <1>3, <1>4, <1>5, <1>6, Zenon DEF CacheInv

-----------------------------------------------------------------------------
\* What a step of process f does to the program counters.
LEMMA StepAlone ==
    ASSUME CacheInv, Concurrent = FALSE, NEW f \in Fetchers, NEW p, NEW q,
           q \in Working \cup Fetched \cup {"look"}, Step(f, p, q)
    PROVE  /\ fpc[f] = p /\ fpc'[f] = q
           /\ fpc' \in [Fetchers -> Working \cup Fetched \cup {"look"}]
           /\ Sequential'
           /\ \A g \in Fetchers \ {f} :
                 fpc'[g] = fpc[g] /\ fpc[g] \in {"look", "used", "failed", "killed"}
  <1>1. /\ fpc[f] = p /\ fpc' = [fpc EXCEPT ![f] = q]
        /\ \A g \in Fetchers \ {f} : fpc[g] \in Fetched \cup {"look"}
    BY Zenon DEF Step
  <1>2. fpc \in [Fetchers -> Working \cup Fetched \cup {"look"}]
    BY Zenon DEF CacheInv, CacheTypes
  <1>3. /\ fpc'[f] = q /\ fpc' \in [Fetchers -> Working \cup Fetched \cup {"look"}]
        /\ \A g \in Fetchers \ {f} :
              fpc'[g] = fpc[g] /\ fpc[g] \in {"look", "used", "failed", "killed"}
    BY <1>1, <1>2, Zenon DEF Fetched
  <1>4. Sequential'
    BY <1>3, Zenon DEF Sequential, Working
  <1> QED
    BY <1>1, <1>3, <1>4, Zenon

\* The processes that are not taking the step keep their part of the invariant.
LEMMA OthersKeep ==
    ASSUME CacheInv, NEW g \in Fetchers, fpc'[g] = fpc[g],
           fpc[g] \in {"look", "used", "failed", "killed"},
           release' \in Nat, release <= release',
           told'[g] = told[g], via'[g] = via[g], used'[g] = used[g]
    PROVE  OneProcess(g)'
  <1>1. /\ told[g] \in Nat /\ release \in Nat /\ told[g] <= release
        /\ fpc[g] = "look" => told[g] = 0
        /\ fpc[g] = "used" /\ via[g] \in {"cached", "dated", "fetched"} => Fit(g, used[g])
    BY Zenon DEF CacheInv, CacheTypes, OneProcess
  <1>2. told'[g] <= release'
    BY <1>1
  <1>3. fpc'[g] = "used" /\ via'[g] \in {"cached", "dated", "fetched"} => Fit(g, used[g])'
    BY <1>1, Zenon DEF Fit
  <1> QED
    BY <1>1, <1>2, <1>3, Zenon DEF OneProcess

\* What is left to show of a step of f: the types, the file, and f's own part.
Own(f) ==
    /\ told' \in [Fetchers -> Nat] /\ kept' \in [Fetchers -> CopyType]
    /\ fresh' \in [Fetchers -> CopyType] /\ used' \in [Fetchers -> CopyType]
    /\ via' \in [Fetchers -> {"none", "cached", "dated", "fetched", "kept", "legacy"}]
    /\ cached' \in CopyType /\ meta' \in Nat /\ meta' <= release' /\ release' = release
    /\ \A g \in Fetchers \ {f} :
          told'[g] = told[g] /\ via'[g] = via[g] /\ used'[g] = used[g]

\* A step of f that does that keeps the invariant.
LEMMA StepKeeps ==
    ASSUME CacheInv, Concurrent = FALSE, NEW f \in Fetchers, NEW p, NEW q,
           q \in Working \cup Fetched \cup {"look"}, Step(f, p, q),
           Own(f), Sound(cached)', OneProcess(f)'
    PROVE  CacheInv'
  <1>1. release \in Nat /\ release >= 1
    BY Zenon DEF CacheInv, CacheTypes
  <1>2. CacheTypes'
    BY <1>1, StepAlone, Zenon DEF CacheTypes, Own
  <1>3. Sequential'
    BY StepAlone, Zenon
  <1>4. \A g \in Fetchers \ {f} : OneProcess(g)'
    <2> TAKE g \in Fetchers \ {f}
    <2>1. fpc'[g] = fpc[g] /\ fpc[g] \in {"look", "used", "failed", "killed"}
      BY StepAlone, Zenon
    <2>2. /\ told'[g] = told[g] /\ via'[g] = via[g] /\ used'[g] = used[g]
          /\ release' \in Nat /\ release <= release'
      BY <1>1 DEF Own
    <2> QED
      BY <2>1, <2>2, OthersKeep, Zenon
  <1>5. meta' <= release' /\ release' >= 1
    BY <1>1, Zenon DEF Own
  <1>6. \A g \in Fetchers : OneProcess(g)'
    BY <1>4, Zenon
  <1> QED
    BY <1>2, <1>3, <1>5, <1>6, Zenon DEF CacheInv

\* The parts of the invariant the steps start from.
LEMMA InvParts ==
    ASSUME CacheInv, NEW f \in Fetchers
    PROVE  /\ told \in [Fetchers -> Nat] /\ kept \in [Fetchers -> CopyType]
           /\ fresh \in [Fetchers -> CopyType] /\ used \in [Fetchers -> CopyType]
           /\ via \in [Fetchers -> {"none", "cached", "dated", "fetched", "kept", "legacy"}]
           /\ cached \in CopyType /\ meta \in Nat /\ release \in Nat
           /\ meta <= release /\ release >= 1 /\ Sound(cached) /\ OneProcess(f)
  BY Zenon DEF CacheInv, CacheTypes

\* get_cached_path finds a copy, or none.
LEMMA LookKeeps ==
    ASSUME CacheInv, Concurrent = FALSE, NEW f \in Fetchers, Look(f)
    PROVE  CacheInv'
  <1> DEFINE q == IF cached = NoCopy THEN "keep" ELSE "head"
  <1>1. Step(f, "look", q) /\ q \in Working
    BY Zenon DEF Look, Working
  <1>2. UNCHANGED <<told, kept, fresh, via, used, cached, meta, release>>
    BY Zenon DEF Look
  <1>3. Own(f)
    BY <1>2, InvParts, Zenon DEF Own
  <1>4. Sound(cached)'
    BY <1>2, InvParts, Zenon DEF Sound
  <1>5. fpc[f] = "look" /\ fpc'[f] = q
    BY <1>1, StepAlone, Zenon
  <1>6. told'[f] = 0 /\ told'[f] <= release'
    BY <1>2, <1>5, InvParts, Zenon DEF OneProcess
  <1>7. q = "head" => cached'.ver # 0
    BY <1>2, InvParts, Zenon DEF Sound
  <1>8. OneProcess(f)'
    BY <1>5, <1>6, <1>7, Zenon DEF OneProcess
  <1> QED
    BY <1>1, <1>3, <1>4, <1>8, StepKeeps, Zenon

\* The HEAD request names the release or fails.
LEMMA ValidatorsKeeps ==
    ASSUME CacheInv, Concurrent = FALSE, NEW f \in Fetchers, _remote_validators(f)
    PROVE  CacheInv'
  <1>1. Step(f, "head", "judge") /\ "judge" \in Working
    BY Zenon DEF _remote_validators, Working
  <1>2. /\ UNCHANGED <<kept, fresh, via, used, cached, meta, release>>
        /\ told' = told \/ told' = [told EXCEPT ![f] = release]
    BY Zenon DEF _remote_validators
  <1>3. Own(f) /\ told'[f] <= release'
    <2>1. told \in [Fetchers -> Nat] /\ release \in Nat /\ OneProcess(f)
      BY InvParts, Zenon
    <2>2. release <= release
      BY <2>1
    <2>3. told'[f] <= release'
      BY <1>2, <2>1, <2>2, Zenon DEF OneProcess
    <2>4. told' \in [Fetchers -> Nat] /\ \A g \in Fetchers \ {f} : told'[g] = told[g]
      BY <1>2, <2>1, Zenon
    <2> QED
      BY <1>2, <2>3, <2>4, InvParts, Zenon DEF Own
  <1>4. Sound(cached)'
    BY <1>2, InvParts, Zenon DEF Sound
  <1>5. fpc[f] = "head" /\ fpc'[f] = "judge"
    BY <1>1, StepAlone, Zenon
  <1>6. cached'.ver # 0
    BY <1>2, <1>5, InvParts, Zenon DEF OneProcess
  <1>7. OneProcess(f)'
    BY <1>3, <1>5, <1>6, Zenon DEF OneProcess
  <1> QED
    BY <1>1, <1>3, <1>4, <1>7, StepKeeps, Zenon

\* A copy taken for current answers what the process was told.
LEMMA JudgeKeeps ==
    ASSUME CacheInv, Concurrent = FALSE, NEW f \in Fetchers, Judge(f)
    PROVE  CacheInv'
  <1>1. UNCHANGED <<told, kept, fresh, used, cached, meta, release>>
    BY Zenon DEF Judge
  <1>2. Sound(cached)' /\ told'[f] <= release'
    BY <1>1, InvParts, Zenon DEF Sound, OneProcess
  <1>3. CASE _is_current(told[f])
    <2> DEFINE w == IF meta = 0 THEN "dated" ELSE "cached"
    <2>1. Step(f, "judge", "use") /\ "use" \in Working /\ via' = [via EXCEPT ![f] = w]
      BY <1>3, Zenon DEF Judge, Working
    <2>2. Own(f) /\ via'[f] = w
      BY <1>1, <2>1, InvParts, Zenon DEF Own
    <2>3. fpc[f] = "judge" /\ fpc'[f] = "use"
      BY <2>1, StepAlone, Zenon
    <2>4. cached.ver # 0 /\ cached # NoCopy
      BY <2>3, InvParts, NoCopyFacts, Zenon DEF OneProcess
    <2>5. /\ cached.ver \in Nat /\ cached.mtime \in Nat /\ told[f] \in Nat /\ meta \in Nat
          /\ meta <= cached.ver /\ (cached.late = TRUE \/ cached.mtime <= cached.ver)
      BY <2>4, InvParts, Zenon DEF Sound, CopyType
    <2>6. told[f] = 0 \/ (meta # 0 /\ told[f] = meta) \/ (meta = 0 /\ told[f] <= cached.mtime)
      BY <1>3, Zenon DEF _is_current
    <2>7. cached.ver >= told[f] \/ (w = "dated" /\ cached.late = TRUE)
      BY <2>5, <2>6
    <2>8. Fit(f, cached)'
      BY <1>1, <2>2, <2>7, Zenon DEF Fit
    <2>9. OneProcess(f)'
      BY <1>2, <2>3, <2>8, Zenon DEF OneProcess
    <2> QED
      BY <1>2, <2>1, <2>2, <2>9, StepKeeps, Zenon
  <1>4. CASE ~_is_current(told[f])
    <2>1. Step(f, "judge", "keep") /\ "keep" \in Working /\ via' = via
      BY <1>4, Zenon DEF Judge, Working
    <2>2. Own(f)
      BY <1>1, <2>1, InvParts, Zenon DEF Own
    <2>3. fpc'[f] = "keep"
      BY <2>1, StepAlone, Zenon
    <2>4. OneProcess(f)'
      BY <1>2, <2>3, Zenon DEF OneProcess
    <2> QED
      BY <1>2, <2>1, <2>2, <2>4, StepKeeps, Zenon
  <1> QED
    BY <1>3, <1>4, Zenon

\* The copy kept for the rollback is as sound as the file.
LEMMA KeepKeeps ==
    ASSUME CacheInv, Concurrent = FALSE, NEW f \in Fetchers, Keep(f)
    PROVE  CacheInv'
  <1>1. Step(f, "keep", "get") /\ "get" \in Working
    BY Zenon DEF Keep, Working
  <1>2. /\ UNCHANGED <<told, fresh, via, used, cached, meta, release>>
        /\ kept' = [kept EXCEPT ![f] = cached]
    BY Zenon DEF Keep
  <1>3. Own(f) /\ told'[f] <= release' /\ kept'[f] = cached'
    BY <1>2, InvParts, Zenon DEF Own, OneProcess
  <1>4. Sound(cached)'
    BY <1>2, InvParts, Zenon DEF Sound
  <1>5. fpc'[f] = "get"
    BY <1>1, StepAlone, Zenon
  <1>6. Sound(kept[f])'
    BY <1>3, <1>4, Zenon DEF Sound
  <1>7. OneProcess(f)'
    BY <1>3, <1>5, <1>6, Zenon DEF OneProcess
  <1> QED
    BY <1>1, <1>3, <1>4, <1>7, StepKeeps, Zenon

\* The GET request brings the release published now.
LEMMA GetKeeps ==
    ASSUME CacheInv, Concurrent = FALSE, NEW f \in Fetchers, Get(f)
    PROVE  CacheInv'
  <1>1. UNCHANGED <<told, kept, via, used, cached, meta, release>>
    BY Zenon DEF Get
  <1>2. Sound(cached)' /\ told'[f] <= release'
    BY <1>1, InvParts, Zenon DEF Sound, OneProcess
  <1>3. CASE /\ Step(f, "get", "store")
             /\ \E w \in BOOLEAN : fresh' = [fresh EXCEPT ![f] = Copy(release, w)]
    <2>1. "store" \in Working /\ fpc[f] = "get" /\ fpc'[f] = "store"
      BY <1>3, StepAlone, Zenon DEF Working
    <2>2. PICK w \in BOOLEAN : fresh' = [fresh EXCEPT ![f] = Copy(release, w)]
      BY <1>3, Zenon
    <2>3. Copy(release, w) \in CopyType /\ Copy(release, w).ver = release
      BY CopyFacts, InvParts, Zenon
    <2>4. Own(f) /\ fresh'[f].ver = release
      BY <1>1, <2>2, <2>3, InvParts, Zenon DEF Own
    <2>5. Sound(kept[f])'
      BY <1>1, <2>1, InvParts, Zenon DEF OneProcess, Sound
    <2>6. /\ fresh'[f].ver >= told'[f] /\ fresh'[f].ver >= meta' /\ fresh'[f].ver <= release'
          /\ fresh'[f].ver # 0
      <3>1. /\ release \in Nat /\ meta \in Nat /\ told[f] \in Nat
            /\ release >= 1 /\ meta <= release /\ told[f] <= release
        BY InvParts, Zenon DEF OneProcess
      <3>2. release >= told[f] /\ release >= meta /\ release <= release /\ release # 0
        BY <3>1
      <3> QED
        BY <1>1, <2>4, <3>2, Zenon
    <2>7. OneProcess(f)'
      BY <1>2, <2>1, <2>5, <2>6, Zenon DEF OneProcess
    <2> QED
      BY <1>2, <1>3, <2>1, <2>4, <2>7, StepKeeps, Zenon
  <1>4. CASE Step(f, "get", "clean") /\ fresh' = fresh
    <2>1. "clean" \in Working /\ fpc[f] = "get" /\ fpc'[f] = "clean"
      BY <1>4, StepAlone, Zenon DEF Working
    <2>2. Own(f)
      BY <1>1, <1>4, InvParts, Zenon DEF Own
    <2>3. Sound(kept[f])'
      BY <1>1, <2>1, InvParts, Zenon DEF OneProcess, Sound
    <2>4. OneProcess(f)'
      BY <1>2, <2>1, <2>3, Zenon DEF OneProcess
    <2> QED
      BY <1>2, <1>4, <2>1, <2>2, <2>4, StepKeeps, Zenon
  <1> QED
    BY <1>3, <1>4, Zenon DEF Get

\* The file written is dated now.
LEMMA StoreKeeps ==
    ASSUME CacheInv, Concurrent = FALSE, NEW f \in Fetchers, StoreCopy(f)
    PROVE  CacheInv'
  <1>1. UNCHANGED <<told, kept, fresh, via, used, meta, release>>
    BY Zenon DEF StoreCopy
  <1>2. PICK q \in {"meta", "clean"}, c \in CopyType :
          Step(f, "store", q) /\ c.ver = fresh[f].ver /\ cached' = Now(c)
    <2>1. fresh[f] \in CopyType
      BY InvParts, Zenon
    <2>2. /\ [fresh[f] EXCEPT !.whole = FALSE] \in CopyType
          /\ [fresh[f] EXCEPT !.whole = FALSE].ver = fresh[f].ver
      BY <2>1, Zenon DEF CopyType
    <2> QED
      BY Zenon, <2>1, <2>2 DEF StoreCopy
  <1>3. fpc[f] = "store" /\ fpc'[f] = q /\ q \in Working
    BY <1>2, StepAlone, Zenon DEF Working
  <1>4. /\ Now(c) \in CopyType /\ Now(c).ver = c.ver /\ Now(c).mtime = release
        /\ release > c.ver => Now(c).late = TRUE
    BY NowFacts, InvParts, Zenon
  <1>5. /\ c.ver >= told[f] /\ c.ver >= meta /\ c.ver <= release /\ c.ver # 0
        /\ Sound(kept[f]) /\ told[f] <= release /\ c.ver \in Nat
    BY <1>2, <1>3, InvParts, Zenon DEF OneProcess, CopyType
  <1>6. Own(f)
    BY <1>1, <1>2, <1>4, InvParts, Zenon DEF Own
  <1>7. Sound(cached)'
    <2>1. Now(c).late = TRUE \/ Now(c).mtime <= Now(c).ver
      BY <1>4, <1>5, InvParts
    <2> QED
      BY <1>1, <1>2, <1>4, <1>5, <2>1, Zenon DEF Sound
  <1>8. Sound(kept[f])'
    BY <1>1, <1>5, Zenon DEF Sound
  <1>9. /\ fresh'[f].ver >= told'[f] /\ fresh'[f].ver >= meta' /\ fresh'[f].ver <= release'
        /\ fresh'[f].ver # 0 /\ cached'.ver = fresh'[f].ver /\ told'[f] <= release'
    BY <1>1, <1>2, <1>4, <1>5, Zenon
  <1>10. OneProcess(f)'
    BY <1>2, <1>3, <1>8, <1>9, Zenon DEF OneProcess
  <1> QED
    BY <1>2, <1>3, <1>6, <1>7, <1>10, StepKeeps, Zenon

\* The sidecar names the file just written.
LEMMA MetaKeeps ==
    ASSUME CacheInv, Concurrent = FALSE, NEW f \in Fetchers, _write_meta(f)
    PROVE  CacheInv'
  <1>1. /\ UNCHANGED <<told, kept, fresh, used, cached, release>>
        /\ meta' = fresh[f].ver \/ meta' = meta
        /\ via' = [via EXCEPT ![f] = "fetched"]
    BY Zenon DEF _write_meta
  <1>2. Step(f, "meta", "use") /\ "use" \in Working
    BY Zenon DEF _write_meta, Working
  <1>3. fpc[f] = "meta" /\ fpc'[f] = "use"
    BY <1>2, StepAlone, Zenon
  <1>4. /\ fresh[f].ver \in Nat /\ fresh[f].ver <= release /\ fresh[f].ver >= told[f]
        /\ cached.ver = fresh[f].ver /\ fresh[f].ver # 0 /\ told[f] <= release
    BY <1>3, InvParts, Zenon DEF OneProcess, CopyType
  <1>5. Own(f)
    BY <1>1, <1>4, InvParts, Zenon DEF Own
  <1>6. Sound(cached)'
    <2>1. cached # NoCopy
      BY <1>4, NoCopyFacts, Zenon
    <2>2. meta <= cached.ver /\ (cached.late = TRUE \/ cached.mtime <= cached.ver)
      BY <2>1, InvParts, Zenon DEF Sound
    <2>3. meta' <= cached.ver
      BY <1>1, <1>4, <2>2
    <2> QED
      BY <1>1, <1>4, <2>2, <2>3, Zenon DEF Sound
  <1>7. Fit(f, cached)'
    BY <1>1, <1>4, Zenon DEF Fit
  <1>8. told'[f] <= release'
    BY <1>1, <1>4, Zenon
  <1>9. OneProcess(f)'
    BY <1>3, <1>7, <1>8, Zenon DEF OneProcess
  <1> QED
    BY <1>2, <1>5, <1>6, <1>9, StepKeeps, Zenon

\* A failed download removes the file.
LEMMA CleanKeeps ==
    ASSUME CacheInv, Concurrent = FALSE, NEW f \in Fetchers, Clean(f)
    PROVE  CacheInv'
  <1>1. UNCHANGED <<told, kept, fresh, via, used, meta, release>> /\ cached' = NoCopy
    BY Zenon DEF Clean
  <1>2. Step(f, "clean", "restore") /\ "restore" \in Working
    BY Zenon DEF Clean, Working
  <1>3. fpc[f] = "clean" /\ fpc'[f] = "restore"
    BY <1>2, StepAlone, Zenon
  <1>4. Own(f) /\ told'[f] <= release'
    BY <1>1, InvParts, NoCopyFacts, Zenon DEF Own, OneProcess
  <1>5. Sound(cached)'
    BY Zenon, <1>1 DEF Sound
  <1>6. Sound(kept[f])'
    BY <1>1, <1>3, InvParts, Zenon DEF OneProcess, Sound
  <1>7. OneProcess(f)'
    BY <1>3, <1>4, <1>6, Zenon DEF OneProcess
  <1> QED
    BY <1>2, <1>4, <1>5, <1>7, StepKeeps, Zenon

\* The copy put back is the copy that was kept.
LEMMA RollbackKeeps ==
    ASSUME CacheInv, Concurrent = FALSE, NEW f \in Fetchers, Rollback(f)
    PROVE  CacheInv'
  <1>1. UNCHANGED <<told, kept, fresh, used, meta, release>>
    BY Zenon DEF Rollback
  <1>2. told'[f] <= release'
    BY <1>1, InvParts, Zenon DEF OneProcess
  <1>3. CASE Step(f, "restore", "use") /\ cached' = kept[f] /\ via' = [via EXCEPT ![f] = "kept"]
    <2>1. "use" \in Working /\ fpc[f] = "restore" /\ fpc'[f] = "use"
      BY <1>3, StepAlone, Zenon DEF Working
    <2>2. Own(f) /\ via'[f] = "kept"
      BY <1>1, <1>3, InvParts, Zenon DEF Own
    <2>3. Sound(kept[f])
      BY <2>1, InvParts, Zenon DEF OneProcess
    <2>4. Sound(cached)'
      BY <1>1, <1>3, <2>3, Zenon DEF Sound
    <2>5. OneProcess(f)'
      BY <1>2, <2>1, <2>2, Zenon DEF OneProcess
    <2> QED
      BY <1>3, <2>1, <2>2, <2>4, <2>5, StepKeeps, Zenon
  <1>4. ASSUME NEW q \in {"used", "failed"}, NEW w \in {"legacy", via[f]},
               Step(f, "restore", q), cached' = cached, via' = [via EXCEPT ![f] = w],
               q = "used" => w = "legacy"
        PROVE  CacheInv'
    <2>1. q \in Fetched /\ fpc'[f] = q
      BY <1>4, StepAlone, Zenon DEF Fetched
    <2>2. Own(f) /\ via'[f] = w
      BY <1>1, <1>4, InvParts, Zenon DEF Own
    <2>3. Sound(cached)'
      BY <1>1, <1>4, InvParts, Zenon DEF Sound
    <2>4. OneProcess(f)'
      BY <1>2, <1>4, <2>1, <2>2, Zenon DEF OneProcess
    <2> QED
      BY <1>4, <2>1, <2>2, <2>3, <2>4, StepKeeps, Zenon
  <1>5. CASE Step(f, "restore", "used") /\ via' = [via EXCEPT ![f] = "legacy"] /\ cached' = cached
    BY <1>4, <1>5, Zenon
  <1>6. CASE Step(f, "restore", "failed") /\ via' = via /\ cached' = cached
    <2>1. via' = [via EXCEPT ![f] = via[f]]
      BY <1>6, InvParts, Zenon
    <2> QED
      BY <1>4, <1>6, <2>1, Zenon
  <1> QED
    BY <1>3, <1>5, <1>6, Zenon DEF Rollback, _restore

\* The caller reads the file its path names.
LEMMA UseKeeps ==
    ASSUME CacheInv, Concurrent = FALSE, NEW f \in Fetchers, Use(f)
    PROVE  CacheInv'
  <1> DEFINE q == IF cached = NoCopy THEN "failed" ELSE "used"
  <1>1. /\ UNCHANGED <<told, kept, fresh, via, cached, meta, release>>
        /\ used' = [used EXCEPT ![f] = cached]
    BY Zenon DEF Use
  <1>2. Step(f, "use", q) /\ q \in Fetched
    BY Zenon DEF Use, Fetched
  <1>3. fpc[f] = "use" /\ fpc'[f] = q
    BY <1>2, StepAlone, Zenon
  <1>4. Own(f) /\ used'[f] = cached /\ told'[f] <= release'
    BY <1>1, InvParts, Zenon DEF Own, OneProcess
  <1>5. Sound(cached)'
    BY <1>1, InvParts, Zenon DEF Sound
  <1>6. via[f] \in {"cached", "dated", "fetched"} => Fit(f, cached)
    BY <1>3, InvParts, Zenon DEF OneProcess
  <1>7. via'[f] \in {"cached", "dated", "fetched"} => Fit(f, used[f])'
    BY <1>1, <1>4, <1>6, Zenon DEF Fit
  <1>8. OneProcess(f)'
    BY <1>3, <1>4, <1>7, Zenon DEF OneProcess
  <1> QED
    BY <1>2, <1>4, <1>5, <1>8, StepKeeps, Zenon

\* A killed process leaves the files as they are.
LEMMA KillKeeps ==
    ASSUME CacheInv, Concurrent = FALSE, NEW f \in Fetchers, Killed(f)
    PROVE  CacheInv'
  <1>1. UNCHANGED <<told, kept, fresh, via, used, cached, meta, release>>
    BY Zenon DEF Killed
  <1>2. Step(f, fpc[f], "killed") /\ "killed" \in Fetched
    BY Zenon DEF Killed, Fetched
  <1>3. fpc'[f] = "killed"
    BY <1>2, StepAlone, Zenon
  <1>4. Own(f) /\ told'[f] <= release'
    BY <1>1, InvParts, Zenon DEF Own, OneProcess
  <1>5. Sound(cached)'
    BY <1>1, InvParts, Zenon DEF Sound
  <1>6. OneProcess(f)'
    BY <1>3, <1>4, Zenon DEF OneProcess
  <1> QED
    BY <1>2, <1>4, <1>5, <1>6, StepKeeps, Zenon

\* Any process may be at work when the next build is published.
LEMMA PublishKeeps ==
    ASSUME CacheInv, Publish
    PROVE  CacheInv'
  <1>1. /\ UNCHANGED <<fpc, told, kept, fresh, via, used, cached, meta>>
        /\ release \in Nat /\ release' = release + 1 /\ meta \in Nat
        /\ meta <= release /\ release >= 1 /\ Sound(cached)
    BY Zenon DEF Publish, CacheInv, CacheTypes
  <1>2. CacheTypes'
    BY <1>1 DEF CacheInv, CacheTypes
  <1>3. Sequential'
    BY <1>1, Zenon DEF CacheInv, Sequential
  <1>4. meta' <= release' /\ release' >= 1 /\ Sound(cached)'
    BY <1>1 DEF Sound
  <1>5. ASSUME NEW f \in Fetchers PROVE OneProcess(f)'
    <2>1. told[f] \in Nat /\ fresh[f].ver \in Nat /\ OneProcess(f)
      BY InvParts, Zenon DEF CopyType
    <2>2. told'[f] <= release'
      BY <1>1, <2>1 DEF OneProcess
    <2>3. fpc[f] \in {"get", "store", "clean", "restore"} => Sound(kept[f])'
      BY <1>1, <2>1, Zenon DEF OneProcess, Sound
    <2>4. fpc[f] \in {"store", "meta"} =>
            /\ fresh[f].ver >= told[f] /\ fresh[f].ver >= meta /\ fresh[f].ver <= release'
            /\ fresh[f].ver # 0
      BY <1>1, <2>1 DEF OneProcess
    <2>5. /\ fpc[f] = "use" /\ via[f] \in {"cached", "dated", "fetched"} => Fit(f, cached)'
          /\ fpc[f] = "used" /\ via[f] \in {"cached", "dated", "fetched"} => Fit(f, used[f])'
      BY <1>1, <2>1, Zenon DEF OneProcess, Fit
    <2> QED
      BY <1>1, <2>1, <2>2, <2>3, <2>4, <2>5, Zenon DEF OneProcess
  <1> QED
    BY <1>2, <1>3, <1>4, <1>5, Zenon DEF CacheInv

\* Every step of one process at a time keeps the invariant.
LEMMA CacheStep ==
    ASSUME CacheInv, Concurrent = FALSE, [CacheNext]_cacheVars
    PROVE  CacheInv'
  <1>1. CASE CacheHost
    BY <1>1, LookKeeps, ValidatorsKeeps, JudgeKeeps, KeepKeeps, GetKeeps, StoreKeeps,
       MetaKeeps, CleanKeeps, RollbackKeeps, UseKeeps, Zenon DEF CacheHost
  <1>2. CASE Publish
    BY <1>2, PublishKeeps, Zenon
  <1>3. CASE \E f \in Fetchers : Killed(f)
    BY <1>3, KillKeeps, Zenon
  <1>4. CASE UNCHANGED cacheVars
    BY <1>4, Zenon DEF cacheVars, CacheInv, CacheTypes, Sequential, Sound, OneProcess, Fit
  <1> QED
    BY <1>1, <1>2, <1>3, <1>4, Zenon DEF CacheNext

\* The invariant is strong enough.
LEMMA CacheInvSuffices == CacheInv => CachedIsRelease
  <1> SUFFICES ASSUME CacheInv, NEW f \in Fetchers, fpc[f] = "used",
                      via[f] \in {"cached", "dated", "fetched"}
               PROVE  used[f].ver >= told[f] \/ (via[f] = "dated" /\ used[f].late)
    BY Zenon DEF CachedIsRelease
  <1>1. Fit(f, used[f])
    BY InvParts, Zenon DEF OneProcess
  <1> QED
    BY Zenon, <1>1 DEF Fit

\* However many processes use the cache, whatever is published while they
\* work and wherever they fail or are killed: as long as they run one after
\* another, what get_cached_path and download_firmware let a process read is
\* the release its HEAD request named or a later one.
THEOREM SequentialUseIsCurrent ==
    ASSUME Concurrent = FALSE
    PROVE  CacheSpec => []CachedIsRelease
  <1>1. CacheInit => CacheInv
    BY CacheInitially, Zenon
  <1>2. CacheInv /\ [CacheNext]_cacheVars => CacheInv'
    BY CacheStep, Zenon
  <1>3. CacheInv => CachedIsRelease
    BY CacheInvSuffices, Zenon
  <1> QED
    BY <1>1, <1>2, <1>3, PTL DEF CacheSpec
=============================================================================
