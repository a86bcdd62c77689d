------------------------------- MODULE YModem -------------------------------
(***************************************************************************)
(* The YMODEM sender of defib (src/src/defib/recovery/ymodem.py), which    *)
(* chainloads a U-Boot through the loady command of a vendor's U-Boot.     *)
(*                                                                         *)
(* Packets go to the receiver in a queue, control bytes come back in one.  *)
(* flush_input empties what has come back so far; a response that is still *)
(* to come is not affected.  A drain that stalls leaves the packet in the  *)
(* queue and counts as a failed attempt, so that two copies are sent.      *)
(*                                                                         *)
(* The receiver is external code: a YMODEM receiver that takes the packet  *)
(* with the number it expects, ACKs the one before it again, NAKs anything *)
(* else, and answers EOT either at once or after a first NAK.              *)
(***************************************************************************)
EXTENDS Integers, Sequences

CONSTANTS
    Packets,    \* data packets of 1024 bytes in the file
    Modulus,    \* sequence numbers of a packet (256)
    Retries,    \* packet_retries
    MaxFaults,  \* bound: packets or responses damaged or lost, cancellations
    MaxStalls   \* bound: drains that stall, prompts that cross a packet

VARIABLES
    spc,        \* sender: which step of send() and _finish() it is at
    waiting,    \* sender: "yes" between a write and its answer
    pkt,        \* sender: number of the packet it sends: 0 header, then data
    attempt,    \* sender: attempts at it so far
    eotnaks,    \* receiver: whether it NAKs the first EOT, "yes" or "no"; never changes
    rpc,        \* receiver: "header", "data", "eot", "last", "done" or "gone"
    stored,     \* receiver: the data packets it has stored, in order
    s2r,        \* packets to the receiver
    r2s,        \* control bytes to the sender
    faults, stalls

sender == <<spc, waiting, pkt, attempt>>
receiver == <<eotnaks, rpc, stored>>
vars == <<spc, waiting, pkt, attempt, eotnaks, rpc, stored, s2r, r2s, faults, stalls>>

Fault == faults < MaxFaults /\ faults' = faults + 1 /\ UNCHANGED stalls
Stall == stalls < MaxStalls /\ stalls' = stalls + 1 /\ UNCHANGED faults

(* A packet: its kind, the sequence number it carries and its content. *)
Packet(kind, n) == [kind |-> kind, seq |-> n % Modulus, content |-> n]
Eot == [kind |-> "EOT", seq |-> 0, content |-> 0]
Bad == [kind |-> "BAD", seq |-> 0, content |-> 0]

(* As Sequence below, but the number is not counted up. *)
SequenceStuck(n) == Packet("DATA", 1)

(* The data packet with number n; the sequence number wraps. *)
Sequence(n) == Packet("DATA", n)

(* The packet _send_packet is called with at each step. *)
Current ==
    IF spc = "header" THEN Packet("HEADER", 0)
    ELSE IF spc = "final" THEN Packet("EMPTY", 0)
    ELSE Sequence(pkt)

-----------------------------------------------------------------------------
(* The sender. *)

InSendPacket == spc \in {"header", "data", "final"}

(* _send_packet returned: the step that follows it in send or _finish. *)
Advance ==
    /\ attempt' = 0
    /\ IF spc = "header" THEN spc' = "prompt" /\ pkt' = pkt
       ELSE IF spc = "final" THEN spc' = "done" /\ pkt' = pkt
       ELSE IF pkt < Packets THEN spc' = "data" /\ pkt' = pkt + 1
       ELSE spc' = "eot" /\ pkt' = pkt

(* One attempt has failed: try again, or raise when it was the last. *)
Again ==
    IF attempt < Retries THEN UNCHANGED <<spc, pkt, attempt>>
    ELSE spc' = "fail" /\ UNCHANGED <<pkt, attempt>>

(* _send_packet: what has come back is dropped, the packet goes out. *)
SendPacket ==
    /\ InSendPacket /\ waiting = "no"
    /\ r2s' = <<>>
    /\ s2r' = Append(s2r, Current)
    /\ attempt' = attempt + 1
    /\ waiting' = "yes"
    /\ UNCHANGED <<spc, pkt, receiver, faults, stalls>>

(* The drain times out with the packet still queued: an attempt that has   *)
(* failed for _send_packet, the end of the transfer for _finish.           *)
SendStalls ==
    /\ (InSendPacket \/ spc = "eot") /\ waiting = "no"
    /\ Stall
    /\ r2s' = <<>>
    /\ s2r' = Append(s2r, IF spc = "eot" THEN Eot ELSE Current)
    /\ spc' = IF spc = "eot" \/ attempt + 1 = Retries THEN "fail" ELSE spc
    /\ attempt' = IF spc = "eot" THEN attempt ELSE attempt + 1
    /\ UNCHANGED <<waiting, pkt, receiver>>

(* Whether the control byte ends a packet. *)
AckEnds(value) == value = "ACK"

(* _send_packet: the answer.  NAK and C make for another attempt. *)
RecvAnswer ==
    /\ InSendPacket /\ waiting = "yes" /\ r2s # <<>>
    /\ r2s' = Tail(r2s) /\ waiting' = "no"
    /\ IF AckEnds(Head(r2s)) THEN Advance
       ELSE IF Head(r2s) = "CAN" THEN spc' = "fail" /\ UNCHANGED <<pkt, attempt>>
       ELSE Again
    /\ UNCHANGED <<receiver, s2r, faults, stalls>>

(* _wait_crc_request, before the header and after it: other bytes are      *)
(* stray; a cancellation raises.                                           *)
RecvPrompt ==
    /\ spc \in {"start", "prompt", "eotprompt"} /\ r2s # <<>>
    /\ r2s' = Tail(r2s)
    /\ IF Head(r2s) = "C"
       THEN IF spc = "start" THEN spc' = "header" /\ pkt' = pkt
            ELSE IF spc = "eotprompt" THEN spc' = "final" /\ pkt' = pkt
            ELSE IF Packets = 0 THEN spc' = "eot" /\ pkt' = pkt
            ELSE spc' = "data" /\ pkt' = 1
       ELSE spc' = (IF Head(r2s) = "CAN" THEN "fail" ELSE spc) /\ pkt' = pkt
    /\ UNCHANGED <<waiting, attempt, receiver, s2r, faults, stalls>>

(* _finish: EOT, after what has come back is dropped. *)
SendEot ==
    /\ spc = "eot" /\ waiting = "no"
    /\ r2s' = <<>>
    /\ s2r' = Append(s2r, Eot)
    /\ waiting' = "yes"
    /\ UNCHANGED <<spc, pkt, attempt, receiver, faults, stalls>>

(* _finish: the answer to the first EOT; NAK asks for a second one. *)
RecvEot ==
    /\ spc = "eot" /\ waiting = "yes" /\ r2s # <<>>
    /\ r2s' = Tail(r2s)
    /\ waiting' = IF Head(r2s) = "NAK" THEN "yes" ELSE "no"
    /\ s2r' = IF Head(r2s) = "NAK" THEN Append(s2r, Eot) ELSE s2r
    /\ spc' = [CAN |-> "fail", NAK |-> "eot2", ACK |-> "eotprompt", C |-> "final"][Head(r2s)]
    /\ UNCHANGED <<pkt, attempt, receiver, faults, stalls>>

(* _finish: the second EOT has to be ACKed. *)
RecvEot2 ==
    /\ spc = "eot2" /\ r2s # <<>>
    /\ r2s' = Tail(r2s) /\ waiting' = "no"
    /\ spc' = IF Head(r2s) = "ACK" THEN "eotprompt" ELSE "fail"
    /\ UNCHANGED <<pkt, attempt, receiver, s2r, faults, stalls>>

(* No control byte before the timeout; only _send_packet tries again.  All *)
(* that was sent has been dealt with: the receiver answers in time.        *)
SenderTimeout ==
    /\ spc \notin {"done", "fail"} /\ r2s = <<>> /\ s2r = <<>>
    /\ spc \in {"header", "data", "final", "eot"} => waiting = "yes"
    /\ waiting' = "no"
    /\ IF InSendPacket THEN Again ELSE spc' = "fail" /\ UNCHANGED <<pkt, attempt>>
    /\ UNCHANGED <<receiver, s2r, r2s, faults, stalls>>

-----------------------------------------------------------------------------
(* The receiver (external). *)

Answer(bytes) == r2s' = r2s \o bytes

(* The prompt for the header, or for the final header, repeated now and    *)
(* then; it may cross a packet that is on its way.                         *)
Prompt ==
    /\ rpc \in {"header", "last"} /\ r2s = <<>>
    /\ IF s2r = <<>> THEN UNCHANGED <<faults, stalls>> ELSE Stall
    /\ Answer(<<"C">>)
    /\ UNCHANGED <<sender, receiver, s2r>>

Expected == (Len(stored) + 1) % Modulus
Previous == Len(stored) % Modulus

Receive ==
    /\ s2r # <<>> /\ rpc \notin {"done", "gone"}
    /\ s2r' = Tail(s2r)
    /\ LET p == Head(s2r) IN
       \/ /\ rpc = "header" /\ p.kind = "HEADER"
          /\ rpc' = "data" /\ stored' = stored /\ Answer(<<"ACK", "C">>)
       \/ /\ rpc = "data" /\ p.kind = "HEADER" /\ stored = <<>>
          /\ UNCHANGED receiver /\ Answer(<<"ACK", "C">>)
       \/ /\ rpc = "data" /\ p.kind = "DATA" /\ p.seq = Expected
          /\ rpc' = rpc /\ stored' = Append(stored, p.content) /\ Answer(<<"ACK">>)
       \/ /\ rpc = "data" /\ p.kind = "DATA" /\ p.seq = Previous /\ stored # <<>>
          /\ UNCHANGED receiver /\ Answer(<<"ACK">>)
       \/ /\ rpc = "data" /\ p.kind = "EOT" /\ eotnaks = "yes"
          /\ rpc' = "eot" /\ stored' = stored /\ Answer(<<"NAK">>)
       \/ /\ rpc = (IF eotnaks = "yes" THEN "eot" ELSE "data") /\ p.kind = "EOT"
          /\ rpc' = "last" /\ stored' = stored /\ Answer(<<"ACK", "C">>)
       \/ /\ rpc = "last" /\ p.kind = "EMPTY"
          /\ rpc' = "done" /\ stored' = stored /\ Answer(<<"ACK">>)
       \/ /\ \/ p.kind = "BAD"
             \/ /\ rpc = "data" /\ p.kind = "DATA" /\ p.seq # Expected
                /\ p.seq # Previous \/ stored = <<>>
          /\ UNCHANGED receiver /\ Answer(<<"NAK">>)
    /\ UNCHANGED <<sender, eotnaks, faults, stalls>>

(* Anything else goes unanswered. *)
Ignore ==
    /\ s2r # <<>>
    /\ LET p == Head(s2r) IN
       \/ rpc \in {"done", "gone"}
       \/ rpc = "header" /\ p.kind \in {"DATA", "EOT", "EMPTY"}
       \/ rpc = "data" /\ p.kind = "EMPTY"
       \/ rpc = "data" /\ p.kind = "HEADER" /\ stored # <<>>
       \/ rpc = "eot" /\ p.kind \notin {"EOT", "BAD"}
       \/ rpc = "last" /\ p.kind \notin {"EMPTY", "BAD"}
    /\ s2r' = Tail(s2r)
    /\ UNCHANGED <<sender, receiver, r2s, faults, stalls>>

(* The operator stops the receiver. *)
Cancel ==
    /\ rpc \notin {"done", "gone"}
    /\ rpc' = "gone" /\ Answer(<<"CAN">>)
    /\ Fault /\ UNCHANGED <<sender, eotnaks, stored, s2r>>

-----------------------------------------------------------------------------
Damage ==
    /\ s2r # <<>> /\ Head(s2r).kind # "BAD"
    /\ s2r' = [s2r EXCEPT ![1] = Bad]
    /\ Fault /\ UNCHANGED <<sender, receiver, r2s>>

LosePacket ==
    /\ s2r # <<>> /\ s2r' = Tail(s2r)
    /\ Fault /\ UNCHANGED <<sender, receiver, r2s>>

LoseControl ==
    /\ r2s # <<>> /\ r2s' = Tail(r2s)
    /\ Fault /\ UNCHANGED <<sender, receiver, s2r>>

Init ==
    /\ spc = "start" /\ waiting = "no" /\ pkt = 0 /\ attempt = 0
    /\ eotnaks \in {"yes", "no"} /\ rpc = "header" /\ stored = <<>>
    /\ s2r = <<>> /\ r2s = <<>> /\ faults = 0 /\ stalls = 0

SenderStep ==
    \/ SendPacket \/ RecvAnswer \/ RecvPrompt
    \/ SendEot \/ RecvEot \/ RecvEot2 \/ SenderTimeout

ReceiverStep == Receive \/ Ignore

Next ==
    \/ SenderStep \/ SendStalls \/ ReceiverStep \/ Prompt \/ Cancel
    \/ Damage \/ LosePacket \/ LoseControl

Spec == Init /\ [][Next]_vars

-----------------------------------------------------------------------------
Received == stored = [n \in 1..Packets |-> n]

(* send() returns normally only when the receiver has stored the whole     *)
(* file, each packet once and in order, whatever was damaged, lost or sent *)
(* again.  Or else whatever drains stalled and prompts crossed, once the   *)
(* receiver has read what is still on its way to it.  The two kinds of     *)
(* trouble do not meet.                                                    *)
SuccessMeansReceived ==
    spc = "done" /\ (stalls = 0 \/ (faults = 0 /\ s2r = <<>>)) => Received

(* A packet the receiver has not stored is sent again, never covered by    *)
(* the spare answer to another one: success always means the whole file    *)
(* (the comment in _send_packet and the test of it).                       *)
StaleAckCoversNothing == spc = "done" => Received
=============================================================================
