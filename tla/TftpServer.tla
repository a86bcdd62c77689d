----------------------------- MODULE TftpServer -----------------------------
(***************************************************************************)
(* The TFTP server of defib (src/src/defib/network/tftp_server.py): one    *)
(* asyncio datagram protocol that serves several clients at once, resends  *)
(* its last packet when no ACK comes back, and tells the recovery when the *)
(* file it was started for has been fetched.                               *)
(*                                                                         *)
(* The event loop runs one callback at a time, so each handler             *)
(* (datagram_received, a timer) is one action.  UDP may lose, duplicate    *)
(* and reorder datagrams: the ones under way are sets, losing or           *)
(* duplicating one is a fault, reordering is free.                         *)
(*                                                                         *)
(* A client is a boot ROM, a loader or U-Boot: external code, modelled as  *)
(* an RFC 1350 reader that fetches one file from one address and port.     *)
(***************************************************************************)
EXTENDS Integers, FiniteSets

CONSTANTS
    Clients,        \* client addresses (IP and port)
    Names,          \* file names a client may request
    Files,          \* names under which the server holds data
    NoFile,         \* not a file: what a lookup of an unknown name returns
    Lookup,         \* [Names -> Files \cup {NoFile}]: exact, basename, case-insensitive
    Request,        \* [Clients -> Names]: the name each client requests
    Option,         \* [Clients -> Nat]: the blksize a client asks for, 0 for none
    Size,           \* [Files -> Nat]: length of each file
    DoneFile,       \* the done_file argument, or NoFile when it is not given
    DoneCount,      \* the done_count argument
    DefaultBlock,   \* DEFAULT_BLOCKSIZE
    MinBlock,       \* the smallest block size ever negotiated (8)
    MaxBlock,       \* MAX_BLOCKSIZE
    MaxBlockNum,    \* largest block number the 16-bit field of a packet holds
    MaxRetries,     \* MAX_RETRIES
    MaxTransfers,   \* MAX_TRANSFERS
    MaxLost,        \* bound: datagrams lost and timers that fire early
    MaxDups         \* bound: datagrams duplicated

None == [blocksize |-> 0]

ASSUME TftpAssumption ==
    /\ Files \subseteq Names /\ NoFile \notin Names
    /\ Lookup \in [Names -> Files \cup {NoFile}]
    /\ \A f \in Files : Lookup[f] = f
    /\ Request \in [Clients -> Names] /\ Option \in [Clients -> Nat]
    /\ Size \in [Files -> Nat]
    /\ DoneFile \in Files \cup {NoFile}
    /\ DoneCount \in Nat \ {0}
    /\ DefaultBlock \in Nat \ {0}
    /\ MinBlock \in 1..DefaultBlock
    /\ MaxBlock \in Nat /\ MaxBlock >= DefaultBlock
    /\ MaxBlockNum \in Nat \ {0} /\ MaxRetries \in Nat
    /\ MaxTransfers \in Nat /\ MaxLost \in Nat /\ MaxDups \in Nat

VARIABLES
    transfers,  \* _transfers: per client address its TFTPTransfer, or None
    maxbs,      \* _max_blocksize
    completed,  \* stats.transfers_complete
    sock,       \* the datagram endpoint: "open" or "closed"
    done,       \* _done_event: "set" or "clear"
    up,         \* datagrams on their way to the server
    down,       \* datagrams on their way to the clients
    cpc,        \* client: "idle", "rrq", "data", "done" or "failed"
    cblk,       \* client: number of the last block received in order
    cbs,        \* client: block size it was told, 0 before an answer
    got,        \* client: bytes received in order, -1 once they do not join up
    sentto,     \* history: clients a transfer to which was counted complete
    lost,       \* datagrams lost and timers fired early so far
    dups        \* datagrams duplicated so far

server == <<transfers, maxbs, completed, done, sock, sentto>>
clients == <<cpc, cblk, cbs, got>>
vars == <<transfers, maxbs, completed, done, sock, sentto, up, down,
          cpc, cblk, cbs, got, lost, dups>>

Least(a, b) == IF a < b THEN a ELSE b
Most(a, b) == IF a > b THEN a ELSE b
File(c) == Lookup[Request[c]]
Active == {c \in Clients : transfers[c] # None}

-----------------------------------------------------------------------------
(* Datagrams.  All packets to a client have the same fields: a DATA packet *)
(* carries bytes off .. off+len-1 of the file, an OACK the block size.     *)

Rrq(c) == [from |-> c, op |-> "RRQ", blk |-> 0]
AckPkt(c, n) == [from |-> c, op |-> "ACK", blk |-> n]
Abort(c) == [from |-> c, op |-> "ERROR", blk |-> 0]
Data(c, n, off, len) ==
    [to |-> c, op |-> "DATA", blk |-> n, off |-> off, len |-> len]
Oack(c, bs) == [to |-> c, op |-> "OACK", blk |-> 0, off |-> 0, len |-> bs]
Error(c) == [to |-> c, op |-> "ERROR", blk |-> 0, off |-> 0, len |-> 0]

(* One more loss or early timer; one more duplicate. *)
Lose == lost < MaxLost /\ lost' = lost + 1
Dup == dups < MaxDups /\ dups' = dups + 1

(* The server takes m from the network, which may deliver it again. *)
Take(m) == \/ up' = up \ {m} /\ UNCHANGED <<lost, dups>>
           \/ up' = up /\ Dup /\ UNCHANGED lost

(* The client takes m from the network, which may deliver it again. *)
TakeDown(m) == \/ down' = down \ {m} /\ UNCHANGED <<lost, dups>>
               \/ down' = down /\ Dup /\ UNCHANGED lost

-----------------------------------------------------------------------------
(* The server. *)

(* As NextBlock below, but the timer is left as it was. *)
NextBlockUntimed(c, t) ==
    LET n == t.block_num + 1
        off == (n - 1) * t.blocksize
        len == IF off >= Size[File(c)] THEN 0
               ELSE Least(t.blocksize, Size[File(c)] - off)
    IN IF n <= MaxBlockNum
       THEN [t EXCEPT !.block_num = n, !.last = Data(c, n, off, len)]
       ELSE [t EXCEPT !.block_num = n]

(* The transfer t of client c after _send_data_block: the next block is    *)
(* sent and the retransmit timer armed.  A block number that does not fit  *)
(* its field raises in struct.pack, after block_num has been counted up:   *)
(* nothing is sent and no timer armed.                                     *)
NextBlock(c, t) ==
    LET n == t.block_num + 1
        off == (n - 1) * t.blocksize
        len == IF off >= Size[File(c)] THEN 0
               ELSE Least(t.blocksize, Size[File(c)] - off)
    IN IF n <= MaxBlockNum
       THEN [t EXCEPT !.block_num = n, !.last = Data(c, n, off, len), !.timer = "armed"]
       ELSE [t EXCEPT !.block_num = n]

(* As Complete below, but a full block ends the file too. *)
CompleteEarly(t) == t.last.op = "DATA" /\ t.last.len <= t.blocksize

(* The flag complete of a transfer: its last packet was a short block. *)
Complete(t) == t.last.op = "DATA" /\ t.last.len < t.blocksize

(* The block size of a transfer to c: what its blksize option asks for,    *)
(* within the limits.                                                      *)
BlockSize(c) ==
    IF Option[c] = 0 THEN DefaultBlock
    ELSE Most(MinBlock, Least(Option[c], maxbs))

(* As NewTransfer below, but the negotiated size is not used. *)
NewTransferUnsized(c) ==
    LET t == [blocksize |-> DefaultBlock, block_num |-> 0, retries |-> 0,
              last |-> Oack(c, BlockSize(c)), timer |-> "armed"]
    IN IF Option[c] = 0 THEN NextBlock(c, t) ELSE t

(* A fresh transfer to c, its first packet sent: an OACK when the client   *)
(* asked for a block size, else the first block.                           *)
NewTransfer(c) ==
    LET bs == BlockSize(c)
        t == [blocksize |-> bs, block_num |-> 0, retries |-> 0,
              last |-> Oack(c, bs), timer |-> "armed"]
    IN IF Option[c] = 0 THEN NextBlock(c, t) ELSE t

(* Whether a request of c is turned away. *)
AtCap(c) == c \notin Active /\ Cardinality(Active) >= MaxTransfers

(* _handle_rrq: a request past the cap is not answered, one for an unknown *)
(* file gets an error, any other replaces the transfer of its address.     *)
HandleRrq(c) ==
    /\ sock = "open" /\ Rrq(c) \in up
    /\ Take(Rrq(c))
    /\ IF AtCap(c)
       THEN UNCHANGED <<transfers, down>>
       ELSE IF File(c) = NoFile
       THEN down' = down \cup {Error(c)} /\ UNCHANGED transfers
       ELSE /\ transfers' = [transfers EXCEPT ![c] = NewTransfer(c)]
            /\ down' = down \cup {NewTransfer(c).last}
    /\ UNCHANGED <<maxbs, completed, done, sock, sentto, clients>>

(* Whether the transfer to c completing now sets _done_event. *)
FiresDone(c) ==
    IF DoneFile # NoFile THEN Request[c] = DoneFile
    ELSE completed + 1 >= DoneCount

(* _handle_ack, the block that waits for this ACK was the last one. *)
FinishTransfer(c) ==
    /\ transfers' = [transfers EXCEPT ![c] = None]
    /\ completed' = completed + 1
    /\ sentto' = sentto \cup {c}
    /\ done' = IF FiresDone(c) THEN "set" ELSE done
    /\ UNCHANGED down

(* _handle_ack, there is a block to send next. *)
SendNext(c) ==
    LET t == NextBlock(c, [transfers[c] EXCEPT
                             !.retries = 0,
                             !.timer = IF transfers[c].block_num = 0 THEN @ ELSE "off"])
    IN /\ transfers' = [transfers EXCEPT ![c] = t]
       /\ down' = IF t.block_num <= MaxBlockNum THEN down \cup {t.last} ELSE down
       /\ UNCHANGED <<completed, done, sentto>>

(* As Awaits below, but a repeated ACK is acted on too. *)
AwaitsAny(t, n) == t # None /\ n <= t.block_num

(* Whether an ACK of block n is the one that transfer t waits for.  Any    *)
(* other is a duplicate of an ACK already acted on.                        *)
Awaits(t, n) == t # None /\ t.block_num = n

(* _handle_ack. *)
HandleAck(c) ==
    \E m \in up :
      /\ sock = "open" /\ m.op = "ACK" /\ m.from = c
      /\ Take(m)
      /\ IF ~ Awaits(transfers[c], m.blk)
         THEN UNCHANGED <<transfers, completed, done, sentto, down>>
         ELSE IF Complete(transfers[c])
         THEN FinishTransfer(c)
         ELSE SendNext(c)
      /\ UNCHANGED <<maxbs, sock, clients>>

(* _handle_error. *)
HandleError(c) ==
    /\ sock = "open" /\ Abort(c) \in up
    /\ Take(Abort(c))
    /\ transfers' = [transfers EXCEPT ![c] = None]
    /\ UNCHANGED <<maxbs, completed, done, sock, sentto, down, clients>>

(* Nothing of client c is under way: an ACK can no longer be the reason    *)
(* why the timer is late.                                                  *)
Quiet(c) == /\ \A m \in up : m.from # c
            /\ \A m \in down : m.to # c

(* As Retransmit below, but the resends are not counted. *)
RetransmitForever(c) ==
    /\ transfers[c] # None
    /\ transfers[c].timer = "armed"
    /\ IF Quiet(c) THEN UNCHANGED lost ELSE Lose
    /\ down' = down \cup {transfers[c].last}
    /\ UNCHANGED <<server, up, clients, dups>>

(* _retransmit: after MaxRetries resends the transfer is given up.  The    *)
(* timer may fire while an answer is still on its way, which is a fault.   *)
Retransmit(c) ==
    /\ transfers[c] # None
    /\ transfers[c].timer = "armed"
    /\ IF Quiet(c) THEN UNCHANGED lost ELSE Lose
    /\ IF transfers[c].retries >= MaxRetries
       THEN transfers' = [transfers EXCEPT ![c] = None] /\ UNCHANGED down
       ELSE /\ transfers' = [transfers EXCEPT ![c].retries = @ + 1]
            /\ down' = down \cup {transfers[c].last}
    /\ UNCHANGED <<maxbs, completed, done, sock, sentto, up, clients, dups>>

(* set_max_blocksize, which the installer calls between two tftpboot       *)
(* commands to fall back to DefaultBlock or to return to MaxBlock: the     *)
(* console has shown the end of the command and often a crc32 over the     *)
(* whole image, by when the command's datagrams are gone.  A request held  *)
(* back until after this call would be served with the other block size.   *)
SetMaxBlocksize ==
    /\ up = {} /\ down = {}
    /\ \A c \in Clients : cpc[c] \notin {"rrq", "data"}
    /\ maxbs' \in {Most(MinBlock, Least(bs, MaxBlock)) : bs \in {DefaultBlock, MaxBlock}} \ {maxbs}
    /\ UNCHANGED <<transfers, completed, done, sock, sentto, up, down, clients, lost, dups>>

(* connection_lost: the endpoint is closed, at the end of the recovery or  *)
(* when its caller's timeout expires, whatever transfers are running.      *)
ConnectionLost ==
    /\ sock = "open"
    /\ sock' = "closed"
    /\ transfers' = [c \in Clients |-> None]
    /\ UNCHANGED <<maxbs, completed, done, sentto, up, down, clients, lost, dups>>

-----------------------------------------------------------------------------
(* The clients (external). *)

ClientStart(c) ==
    /\ cpc[c] = "idle"
    /\ cpc' = [cpc EXCEPT ![c] = "rrq"]
    /\ up' = up \cup {Rrq(c)}
    /\ UNCHANGED <<server, down, cblk, cbs, got, lost, dups>>

(* No answer to the request: it is sent again. *)
ClientRetry(c) ==
    /\ cpc[c] = "rrq" /\ Quiet(c)
    /\ up' = up \cup {Rrq(c)}
    /\ UNCHANGED <<server, down, clients, lost, dups>>

(* The block size is settled; an OACK that comes twice is ACKed twice. *)
ClientOack(c) ==
    \E m \in down :
      /\ m.to = c /\ m.op = "OACK"
      /\ cpc[c] \in {"rrq", "data"} /\ cblk[c] = 0
      /\ TakeDown(m)
      /\ cbs' = [cbs EXCEPT ![c] = m.len]
      /\ cpc' = [cpc EXCEPT ![c] = "data"]
      /\ up' = up \cup {AckPkt(c, 0)}
      /\ UNCHANGED <<server, cblk, got>>

(* The block that comes next; a short one ends the file. *)
ClientData(c) ==
    \E m \in down :
      /\ m.to = c /\ m.op = "DATA"
      /\ cpc[c] \in {"rrq", "data"} /\ m.blk = cblk[c] + 1
      /\ TakeDown(m)
      /\ LET bs == IF cbs[c] = 0 THEN DefaultBlock ELSE cbs[c] IN
         /\ cbs' = [cbs EXCEPT ![c] = bs]
         /\ cpc' = [cpc EXCEPT ![c] = IF m.len < bs THEN "done" ELSE "data"]
      /\ cblk' = [cblk EXCEPT ![c] = m.blk]
      /\ got' = [got EXCEPT ![c] = IF @ = m.off THEN @ + m.len ELSE -1]
      /\ up' = up \cup {AckPkt(c, m.blk)}
      /\ UNCHANGED server

(* A block that came before is ACKed again. *)
ClientDuplicate(c) ==
    \E m \in down :
      /\ m.to = c /\ m.op = "DATA"
      /\ cpc[c] = "data" /\ m.blk <= cblk[c]
      /\ TakeDown(m)
      /\ up' = up \cup {AckPkt(c, m.blk)}
      /\ UNCHANGED <<server, clients>>

ClientError(c) ==
    \E m \in down :
      /\ m.to = c /\ m.op = "ERROR"
      /\ cpc[c] \in {"rrq", "data"}
      /\ TakeDown(m)
      /\ cpc' = [cpc EXCEPT ![c] = "failed"]
      /\ UNCHANGED <<server, up, cblk, cbs, got>>

(* Anything else is dropped: an answer to a client that is no longer       *)
(* fetching, an OACK in the middle of the file, a block ahead of its turn. *)
ClientDrop(c) ==
    \E m \in down :
      /\ m.to = c
      /\ \/ cpc[c] \notin {"rrq", "data"}
         \/ m.op = "OACK" /\ cblk[c] > 0
         \/ m.op = "DATA" /\ m.blk > cblk[c] + 1
      /\ down' = down \ {m}
      /\ UNCHANGED <<server, up, clients, lost, dups>>

(* The operator stops the client, which tells the server. *)
ClientAbort(c) ==
    /\ cpc[c] \in {"rrq", "data"}
    /\ cpc' = [cpc EXCEPT ![c] = "failed"]
    /\ up' = up \cup {Abort(c)}
    /\ UNCHANGED <<server, down, cblk, cbs, got, lost, dups>>

-----------------------------------------------------------------------------
(* The network loses a datagram; a closed endpoint receives nothing. *)
LoseUp == \E m \in up :
    /\ up' = up \ {m}
    /\ IF sock = "open" THEN Lose ELSE UNCHANGED lost
    /\ UNCHANGED <<server, down, clients, dups>>

LoseDown == \E m \in down :
    /\ down' = down \ {m} /\ Lose
    /\ UNCHANGED <<server, up, clients, dups>>

-----------------------------------------------------------------------------
Init ==
    /\ transfers = [c \in Clients |-> None]
    /\ maxbs = MaxBlock /\ completed = 0 /\ done = "clear" /\ sock = "open"
    /\ sentto = {} /\ up = {} /\ down = {}
    /\ cpc = [c \in Clients |-> "idle"]
    /\ cblk = [c \in Clients |-> 0]
    /\ cbs = [c \in Clients |-> 0]
    /\ got = [c \in Clients |-> 0]
    /\ lost = 0 /\ dups = 0

(* A client receives whatever comes. *)
ClientReceive(c) ==
    \/ ClientOack(c) \/ ClientData(c) \/ ClientDuplicate(c)
    \/ ClientError(c) \/ ClientDrop(c)

Next ==
    \/ \E c \in Clients :
         \/ HandleRrq(c) \/ HandleAck(c) \/ HandleError(c) \/ Retransmit(c)
         \/ ClientStart(c) \/ ClientRetry(c) \/ ClientReceive(c) \/ ClientAbort(c)
    \/ SetMaxBlocksize \/ ConnectionLost \/ LoseUp \/ LoseDown

Spec == Init /\ [][Next]_vars

(* The event loop runs every datagram and every timer that is due, and a   *)
(* client that is fetching reads its socket and repeats an unanswered      *)
(* request.  Nothing makes a client start or stop, the network lose a      *)
(* datagram, or the recovery close the endpoint.                           *)
Fairness ==
    \A c \in Clients :
      /\ WF_vars(HandleRrq(c)) /\ WF_vars(HandleAck(c)) /\ WF_vars(HandleError(c))
      /\ WF_vars(Retransmit(c)) /\ WF_vars(ClientRetry(c)) /\ WF_vars(ClientReceive(c))

FairSpec == Spec /\ Fairness

-----------------------------------------------------------------------------
(* The server never runs ahead of a client: the block a transfer waits on  *)
(* is at most the one after the last block the client holds, whatever ACKs *)
(* were lost, repeated or late, and however often a repeated request made  *)
(* the transfer start again (_handle_ack acts on the awaited ACK only).    *)
LockStep ==
    \A c \in Active : transfers[c].block_num <= cblk[c] + 1

(* A client that ends its fetch holds every byte of the file, in order:    *)
(* blocks join up, the short block comes exactly at the end, also when the *)
(* size is a multiple of the block size, and both ends use one block size  *)
(* (_send_data_block, the blksize negotiation of _handle_rrq).             *)
WholeFile ==
    \A c \in Clients : cpc[c] = "done" => got[c] = Size[File(c)]

(* A transfer is counted complete, and _done_event fires, only once the    *)
(* client of it holds the whole file; with done_file, that file.           *)
CountedMeansDelivered ==
    /\ \A c \in sentto : cpc[c] = "done" /\ got[c] = Size[File(c)]
    /\ done = "set" =>
         \E c \in sentto : DoneFile = NoFile \/ Request[c] = DoneFile

(* Every transfer the server holds has a retransmit timer running, so that *)
(* its packet is resent or its slot freed (_send_tracked).                 *)
TimerRuns ==
    \A c \in Active : transfers[c].timer = "armed"

(* Every transfer ends: its slot is freed even when the client is gone     *)
(* (_retransmit gives up after MaxRetries resends).                        *)
SlotFreed ==
    \A c \in Clients : (c \in Active) ~> (c \notin Active)

(* A fetch ends at the client: with the file, with an error, or because    *)
(* the server was closed.  Lost datagrams are resent by the server, a      *)
(* request turned away at the cap is served once a slot is free.           *)
FetchEnds ==
    \A c \in Clients :
        (cpc[c] = "rrq") ~> (cpc[c] \in {"done", "failed"} \/ sock = "closed")
=============================================================================
