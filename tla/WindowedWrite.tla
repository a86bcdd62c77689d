---------------------------- MODULE WindowedWrite ----------------------------
(***************************************************************************)
(* Writing device RAM: write_memory and _write_block of                    *)
(* src/src/defib/agent/client.py against handle_write of src/agent/main.c. *)
(*                                                                         *)
(* The host sends a window of blocks (a CMD_WRITE and its DATA packets     *)
(* each) without waiting, then reads two ACKs per block.  When one is      *)
(* missing or bad it drains what is left of the window's answers and       *)
(* writes the window again block by block.  Nothing on the wire says which *)
(* block an ACK is for, so the host relies on counting.                    *)
(*                                                                         *)
(* The serial line is two queues; a packet may be damaged (proto_recv then *)
(* returns 0) or vanish.  CRC32 is taken to tell different data apart.     *)
(* READY packets, which recv_response skips, are left out.                 *)
(***************************************************************************)
EXTENDS Integers, Sequences

CONSTANTS
    Blocks,     \* blocks of WRITE_MAX_TRANSFER bytes in the data
    Chunks,     \* DATA packets per block
    Window,     \* WRITE_WINDOW
    HasPort,    \* whether the transport is a serial port (has _port)
    Settles,    \* whether the agent ends the failed window during the 0.5 s sleep
    MaxFaults   \* bound: packets damaged or lost, host timeouts before an answer

VARIABLES
    hpc,        \* host: where write_memory is
    off,        \* host: blocks before offset
    base,       \* host: blocks before window_start
    sent,       \* host: blocks_sent of this window
    acked,      \* host: blocks of this window (or of its retry) answered so far
    window,     \* host: window
    ablk,       \* agent: block handle_write receives, 0 in the main loop
    arecv,      \* agent: chunks received of it
    ram,        \* device RAM: what each chunk of each block holds
    h2d,        \* packets to the agent
    d2h,        \* ACKs to the host; what and blk say which ACK of which block
                \* each one is, which nothing on the wire does
    faults      \* faults so far

host == <<hpc, off, base, sent, acked, window>>
agent == <<ablk, arecv, ram>>
vars == <<hpc, off, base, sent, acked, window, ablk, arecv, ram, h2d, d2h, faults>>

Old == <<0, 0>>
Chunk(b, k) == <<b, k>>
Smaller(a, b) == IF a < b THEN a ELSE b

WriteCmd(b) == [op |-> "WRITE", blk |-> b, chunk |-> 0]
DataPkt(b, k) == [op |-> "DATA", blk |-> b, chunk |-> k]
Bad == [op |-> "BAD", blk |-> 0, chunk |-> 0]
Ack(st, what, b) == [st |-> st, what |-> what, blk |-> b]

Fault == faults < MaxFaults /\ faults' = faults + 1

(* The DATA packets of block b. *)
DataOf(b) == [k \in 1..Chunks |-> DataPkt(b, k)]

(* The packets of q but for the j-th. *)
Without(q, j) == [i \in 1..(Len(q) - 1) |-> IF i < j THEN q[i] ELSE q[i + 1]]

-----------------------------------------------------------------------------
(* The host. *)

(* The top of the loop: a window starts at offset. *)
StartWindow ==
    /\ hpc = "top" /\ off < Blocks
    /\ base' = off
    /\ sent' = 0
    /\ acked' = 0
    /\ hpc' = "send"
    /\ UNCHANGED <<off, window, agent, h2d, d2h, faults>>

(* A block of the window goes out without waiting for ACKs. *)
SendBlock ==
    /\ hpc = "send" /\ sent < window /\ off < Blocks
    /\ h2d' = h2d \o <<WriteCmd(off + 1)>> \o DataOf(off + 1)
    /\ off' = off + 1
    /\ sent' = sent + 1
    /\ UNCHANGED <<hpc, base, acked, window, agent, d2h, faults>>

(* The window is out, or the data is: its ACKs are read. *)
WindowSent ==
    /\ hpc = "send" /\ (sent = window \/ off >= Blocks)
    /\ hpc' = "ready"
    /\ UNCHANGED <<off, base, sent, acked, window, agent, h2d, d2h, faults>>

(* The loop is over: write_memory returns True. *)
Return ==
    /\ hpc = "top" /\ off >= Blocks
    /\ hpc' = "true"
    /\ UNCHANGED <<off, base, sent, acked, window, agent, h2d, d2h, faults>>

(* The first ACK of a block of the window: ready to receive. *)
RecvReady ==
    /\ hpc = "ready" /\ d2h # <<>>
    /\ d2h' = Tail(d2h)
    /\ hpc' = IF Head(d2h).st = "OK" THEN "crc" ELSE "drain"
    /\ UNCHANGED <<off, base, sent, acked, window, agent, h2d, faults>>

(* The second ACK of a block of the window: its CRC. *)
RecvCrc ==
    /\ hpc = "crc" /\ d2h # <<>>
    /\ d2h' = Tail(d2h)
    /\ IF Head(d2h).st = "OK"
       THEN /\ acked' = acked + 1
            /\ hpc' = IF acked + 1 = sent THEN "top" ELSE "ready"
       ELSE hpc' = "drain" /\ UNCHANGED acked
    /\ UNCHANGED <<off, base, sent, window, agent, h2d, faults>>

(* The agent has dealt with everything that was sent. *)
Settled == h2d = <<>> /\ ablk = 0

(* No ACK is coming: the agent is idle, or in a retry its first ACK is     *)
(* lost and it waits for DATA while the host waits for that ACK.           *)
NoAckComing == Settled \/ (h2d = <<>> /\ hpc = "retryready")

(* No ACK before the timeout: none will come, or it comes late (a fault).  *)
(* While a window is read this fails the window; during a retry it leaves  *)
(* write_memory as an exception.                                           *)
HostTimeout ==
    /\ hpc \in {"ready", "crc", "retryready", "retrycrc"} /\ d2h = <<>>
    /\ IF NoAckComing THEN UNCHANGED faults ELSE Fault
    /\ hpc' = IF hpc \in {"ready", "crc"} THEN "drain" ELSE "false"
    /\ UNCHANGED <<off, base, sent, acked, window, agent, h2d, d2h>>

(* As Drain below, but the retry starts behind the window. *)
DrainForward ==
    /\ hpc = "drain"
    /\ Settles => Settled
    /\ acked' = 0
    /\ d2h' = IF HasPort THEN <<>> ELSE d2h
    /\ hpc' = "retry"
    /\ UNCHANGED <<off, base, sent, window, agent, h2d, faults>>

(* As Drain below, but what has come in is kept. *)
DrainNothing ==
    /\ hpc = "drain"
    /\ Settles => Settled
    /\ off' = base
    /\ acked' = 0
    /\ hpc' = "retry"
    /\ UNCHANGED <<base, sent, window, agent, h2d, d2h, faults>>

(* The window failed: back to its start, and after 0.5 s what has come in  *)
(* is thrown away, if the transport is a serial port.                      *)
Drain ==
    /\ hpc = "drain"
    /\ Settles => Settled
    /\ off' = base
    /\ acked' = 0
    /\ d2h' = IF HasPort THEN <<>> ELSE d2h
    /\ hpc' = "retry"
    /\ UNCHANGED <<base, sent, window, agent, h2d, faults>>

(* _write_block: the CMD_WRITE of one block.  _clear_rx_buffers forgets    *)
(* what a serial port has handed over already, some first part of what     *)
(* came in.                                                                *)
RetrySend ==
    /\ hpc = "retry" /\ acked < sent /\ off < Blocks
    /\ h2d' = Append(h2d, WriteCmd(off + 1))
    /\ \E n \in (IF HasPort THEN 0..Len(d2h) ELSE {0}) :
         d2h' = SubSeq(d2h, n + 1, Len(d2h))
    /\ hpc' = "retryready"
    /\ UNCHANGED <<off, base, sent, acked, window, agent, faults>>

(* _write_block: ready to receive, the DATA packets go out. *)
RetryReady ==
    /\ hpc = "retryready" /\ d2h # <<>>
    /\ d2h' = Tail(d2h)
    /\ IF Head(d2h).st = "OK"
       THEN hpc' = "retrycrc" /\ h2d' = h2d \o DataOf(off + 1)
       ELSE hpc' = "false" /\ UNCHANGED h2d
    /\ UNCHANGED <<off, base, sent, acked, window, agent, faults>>

(* _write_block: the CRC ACK; when it is bad write_memory returns False. *)
RetryCrc ==
    /\ hpc = "retrycrc" /\ d2h # <<>>
    /\ d2h' = Tail(d2h)
    /\ IF Head(d2h).st = "OK"
       THEN hpc' = "retry" /\ off' = off + 1 /\ acked' = acked + 1
       ELSE hpc' = "false" /\ UNCHANGED <<off, acked>>
    /\ UNCHANGED <<base, sent, window, agent, h2d, faults>>

(* The whole window has been written again. *)
RetryDone ==
    /\ hpc = "retry" /\ (acked = sent \/ off >= Blocks)
    /\ window' = Smaller(Window, Blocks - off)
    /\ hpc' = "top"
    /\ UNCHANGED <<off, base, sent, acked, agent, h2d, d2h, faults>>

-----------------------------------------------------------------------------
(* The agent. *)

(* Main loop: CMD_WRITE enters handle_write, which says it is ready. *)
AgentWrite ==
    /\ ablk = 0 /\ h2d # <<>> /\ Head(h2d).op = "WRITE"
    /\ h2d' = Tail(h2d)
    /\ ablk' = Head(h2d).blk
    /\ arecv' = 0
    /\ d2h' = Append(d2h, Ack("OK", "ready", Head(h2d).blk))
    /\ UNCHANGED <<host, ram, faults>>

(* Main loop: DATA that nobody expects is an unknown command; a damaged    *)
(* packet is no command at all.                                            *)
AgentStray ==
    /\ ablk = 0 /\ h2d # <<>> /\ Head(h2d).op # "WRITE"
    /\ h2d' = Tail(h2d)
    /\ d2h' = IF Head(h2d).op = "DATA" THEN Append(d2h, Ack("ERR", "stray", Head(h2d).blk)) ELSE d2h
    /\ UNCHANGED <<host, agent, faults>>

(* Whether the block in RAM has the CRC its CMD_WRITE announced. *)
CrcMatches(mem, b) == \A k \in 1..Chunks : mem[b][k] = Chunk(b, k)

(* handle_write: the next chunk goes behind the last one, whatever its     *)
(* sequence number; the CRC is checked when the block is full.             *)
AgentData ==
    /\ ablk # 0 /\ h2d # <<>> /\ Head(h2d).op = "DATA"
    /\ h2d' = Tail(h2d)
    /\ ram' = [ram EXCEPT ![ablk][arecv + 1] = Chunk(Head(h2d).blk, Head(h2d).chunk)]
    /\ arecv' = arecv + 1
    /\ IF arecv + 1 < Chunks
       THEN UNCHANGED <<ablk, d2h>>
       ELSE /\ ablk' = 0
            /\ d2h' = Append(d2h, Ack(IF CrcMatches(ram', ablk) THEN "OK" ELSE "ERR", "crc", ablk))
    /\ UNCHANGED <<host, faults>>

(* handle_write: any other command is ignored. *)
AgentIgnore ==
    /\ ablk # 0 /\ h2d # <<>> /\ Head(h2d).op = "WRITE"
    /\ h2d' = Tail(h2d)
    /\ UNCHANGED <<host, agent, d2h, faults>>

(* The host is about to send: the rest of a window, or DATA in answer to   *)
(* the first ACK of a retry.                                               *)
DataComing == hpc = "send" \/ (hpc = "retryready" /\ d2h # <<>>)

(* As AgentGivesUp below, but silence is waited out. *)
AgentWaits ==
    /\ ablk # 0
    /\ h2d # <<>> /\ Head(h2d).op = "BAD" /\ h2d' = Tail(h2d) /\ UNCHANGED faults
    /\ ablk' = 0
    /\ d2h' = Append(d2h, Ack("ERR", "crc", ablk))
    /\ UNCHANGED <<host, arecv, ram>>

(* handle_write gives up: a damaged packet, or nothing for 10 s, which is  *)
(* a fault while the host is still sending.                                *)
AgentGivesUp ==
    /\ ablk # 0
    /\ \/ h2d # <<>> /\ Head(h2d).op = "BAD" /\ h2d' = Tail(h2d) /\ UNCHANGED faults
       \/ h2d = <<>> /\ ~ DataComing /\ UNCHANGED <<h2d, faults>>
       \/ h2d = <<>> /\ DataComing /\ Fault /\ UNCHANGED h2d
    /\ ablk' = 0
    /\ d2h' = Append(d2h, Ack("ERR", "crc", ablk))
    /\ UNCHANGED <<host, arecv, ram>>

-----------------------------------------------------------------------------
(* The line damages or loses a packet. *)
Damage == \E j \in 1..Len(h2d) :
    /\ h2d[j].op # "BAD"
    /\ h2d' = [h2d EXCEPT ![j] = Bad]
    /\ Fault /\ UNCHANGED <<host, agent, d2h>>

LosePacket == \E j \in 1..Len(h2d) :
    /\ h2d' = Without(h2d, j)
    /\ Fault /\ UNCHANGED <<host, agent, d2h>>

LoseAck == \E j \in 1..Len(d2h) :
    /\ d2h' = Without(d2h, j)
    /\ Fault /\ UNCHANGED <<host, agent, h2d>>

-----------------------------------------------------------------------------
Init ==
    /\ hpc = "top" /\ off = 0 /\ base = 0 /\ sent = 0 /\ acked = 0
    /\ window = Smaller(Window, Blocks)
    /\ ablk = 0 /\ arecv = 0
    /\ ram = [b \in 1..Blocks |-> [k \in 1..Chunks |-> Old]]
    /\ h2d = <<>> /\ d2h = <<>> /\ faults = 0

HostStep ==
    \/ StartWindow \/ SendBlock \/ WindowSent \/ Return \/ RecvReady \/ RecvCrc \/ HostTimeout \/ Drain
    \/ RetrySend \/ RetryReady \/ RetryCrc \/ RetryDone

AgentStep ==
    AgentWrite \/ AgentStray \/ AgentData \/ AgentIgnore \/ AgentGivesUp

Next == HostStep \/ AgentStep \/ Damage \/ LosePacket \/ LoseAck

Spec == Init /\ [][Next]_vars

-----------------------------------------------------------------------------
Written(b) == CrcMatches(ram, b)

(* write_memory returns True only when RAM holds the data: the ACKs it has *)
(* counted were those of its own blocks, through windows that failed and   *)
(* were written again.                                                     *)
TrueMeansWritten ==
    hpc = "true" => \A b \in 1..Blocks : Written(b)

(* After the drain, an ACK that comes in is about the block the retry is   *)
(* writing.                                                                *)
NoStaleAck ==
    hpc \in {"retryready", "retrycrc"} => \A j \in 1..Len(d2h) : d2h[j].blk = off + 1
=============================================================================
