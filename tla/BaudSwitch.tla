----------------------------- MODULE BaudSwitch -----------------------------
(***************************************************************************)
(* Changing the rate of the serial line between the host and the flash     *)
(* agent: set_baud, _switch_baud and _restore_baud of                      *)
(* src/src/defib/agent/client.py against handle_set_baud, the main loop's  *)
(* idle branch (src/agent/main.c) and uart_set_baud (src/agent/uart.c).    *)
(*                                                                         *)
(* Each side has its own rate.  A packet is readable only by a side that   *)
(* listens at the rate it was sent at; otherwise it is garbage, which both *)
(* packet parsers throw away.  The agent goes back to the default rate     *)
(* when it has heard nothing for IdleLimit polls of its main loop.         *)
(***************************************************************************)
EXTENDS Integers, Sequences

CONSTANTS
    Default,    \* FALLBACK_BAUD, 115200
    Fast,       \* DEFAULT_FAST_BAUD, 921600
    ReadyEvery, \* idle polls between two READY packets (4)
    IdleLimit,  \* idle polls before the agent goes back to Default (60)
    MaxFaults,  \* bound: packets lost, host timeouts before the answer
    MaxQueue    \* bound: packets under way when the operator gives a command

Bauds == {Default, Fast}

VARIABLES
    reachable,  \* rates the agent's UART clock has a divisor for; never changes
    canswitch,  \* whether the transport has set_baudrate, "yes" or "no"; never changes
    hpc,        \* host: where the session is
    hbaud,      \* host: rate of the transport
    current,    \* host: _current_baud
    target,     \* host: the rate set_baud was called with
    result,     \* host: what the last set_baud of the session returned
    apc,        \* agent: "loop", or "switching" inside handle_set_baud
    abaud,      \* agent: rate of its UART
    anext,      \* agent: the rate handle_set_baud switches to
    adefault,   \* agent: at_default_baud, "yes" or "no"
    idle,       \* agent: idle_count
    baudidle,   \* agent: baud_idle
    h2d,        \* packets to the agent
    d2h,        \* packets to the host
    faults      \* faults so far

setup == <<reachable, canswitch>>
host == <<hpc, hbaud, current, target, result>>
agent == <<apc, abaud, anext, adefault, idle, baudidle>>
vars == <<reachable, canswitch, hpc, hbaud, current, target, result, apc, abaud, anext, adefault,
          idle, baudidle, h2d, d2h, faults>>

Pkt(op, arg, rate) == [op |-> op, arg |-> arg, rate |-> rate]
Fault == faults < MaxFaults /\ faults' = faults + 1

Room == Len(h2d) + Len(d2h) < MaxQueue
HostSends(op, arg) == h2d' = Append(h2d, Pkt(op, arg, hbaud))

(* The first packet in d2h that recv_response returns at the host's rate:  *)
(* garbage and READY are skipped.                                          *)
Answers == SelectSeq(d2h, LAMBDA m : m.rate = hbaud /\ m.op # "READY")

(* The host takes the first answer, and what it skipped before it. *)
TakeAnswer ==
    LET i == CHOOSE j \in 1..Len(d2h) :
                 /\ d2h[j] = Head(Answers)
                 /\ \A k \in 1..(j - 1) : d2h[k] # d2h[j]
    IN d2h' = SubSeq(d2h, i + 1, Len(d2h))

-----------------------------------------------------------------------------
(* The host. *)

(* A command opens the port, at the default rate, with a new client. *)
Open ==
    /\ hpc = "closed"
    /\ hpc' = "connect" /\ hbaud' = Default /\ current' = Default
    /\ result' = "none" /\ d2h' = <<>>
    /\ UNCHANGED <<setup, target, agent, h2d, faults>>

(* wait_for_ready: READY at the host's rate; what else has come is read    *)
(* and dropped.                                                            *)
Connect ==
    /\ hpc = "connect"
    /\ \E j \in 1..Len(d2h) : d2h[j].op = "READY" /\ d2h[j].rate = hbaud
    /\ hpc' = "ready" /\ d2h' = <<>>
    /\ UNCHANGED <<setup, hbaud, current, target, result, agent, h2d, faults>>

(* _switch_baud and _restore_baud: nothing to do when the client is at the *)
(* rate already, else set_baud sends CMD_SET_BAUD.                         *)
SetBaud(b) ==
    /\ hpc = "ready" /\ current # b /\ Room
    /\ HostSends("SET_BAUD", b)
    /\ target' = b /\ hpc' = "ack" /\ result' = "none"
    /\ UNCHANGED <<setup, hbaud, current, agent, d2h, faults>>

(* set_baud: the agent has answered at the old rate. *)
RecvAck ==
    /\ hpc = "ack" /\ Answers # <<>>
    /\ TakeAnswer
    /\ IF Head(Answers).op = "ACK"
       THEN hpc' = "switch" /\ UNCHANGED result
       ELSE hpc' = "ready" /\ result' = "false"
    /\ UNCHANGED <<setup, hbaud, current, target, agent, h2d, faults>>

(* set_baud: the host follows, drops what came in during the change and    *)
(* asks for INFO at the new rate.                                          *)
HostSwitch ==
    /\ hpc = "switch" /\ canswitch = "yes"
    /\ hbaud' = target
    /\ h2d' = Append(h2d, Pkt("INFO", target, target))
    /\ d2h' = <<>>
    /\ hpc' = "verify"
    /\ UNCHANGED <<setup, current, target, result, agent, faults>>

(* set_baud: the transport cannot change its rate; the agent is asked to   *)
(* return, at the rate it no longer listens at, and nothing waits for it.  *)
HostCannot ==
    /\ hpc = "switch" /\ canswitch = "no"
    /\ HostSends("SET_BAUD", Default)
    /\ hpc' = "ready" /\ result' = "false"
    /\ UNCHANGED <<setup, hbaud, current, target, agent, d2h, faults>>

(* set_baud: INFO came back, the link works; any other answer fails. *)
Verify ==
    /\ hpc = "verify" /\ Answers # <<>>
    /\ TakeAnswer
    /\ hpc' = "ready"
    /\ IF Head(Answers).op = "INFO"
       THEN current' = target /\ result' = "true" /\ UNCHANGED hbaud
       ELSE hbaud' = current /\ result' = "false" /\ UNCHANGED current
    /\ UNCHANGED <<setup, target, agent, h2d, faults>>

(* Any other command of the session, and its answer. *)
Work ==
    /\ hpc = "ready" /\ Room
    /\ HostSends("WORK", Default)
    /\ hpc' = "work"
    /\ UNCHANGED <<setup, hbaud, current, target, result, agent, d2h, faults>>

RecvWork ==
    /\ hpc = "work" /\ Answers # <<>>
    /\ TakeAnswer
    /\ hpc' = "ready"
    /\ UNCHANGED <<setup, hbaud, current, target, result, agent, h2d, faults>>

(* No answer will come: nothing is on its way, or it cannot be read. *)
NoAnswerComing ==
    /\ Answers = <<>> /\ apc = "loop"
    /\ \A j \in 1..Len(h2d) : h2d[j].rate # abaud

(* As HostTimeout below, but the transport keeps the new rate. *)
HostTimeoutStays ==
    /\ hpc \in {"ack", "verify", "work"} /\ Answers = <<>>
    /\ IF NoAnswerComing THEN UNCHANGED faults ELSE Fault
    /\ IF hpc = "verify"
       THEN hpc' = "ready" /\ result' = "false"
       ELSE hpc' = "closed" /\ UNCHANGED result
    /\ UNCHANGED <<setup, hbaud, current, target, agent, h2d, d2h>>

(* No answer before the timeout.  While verifying, set_baud returns to the *)
(* old rate; elsewhere the exception ends the command and the session.     *)
HostTimeout ==
    /\ hpc \in {"ack", "verify", "work"} /\ Answers = <<>>
    /\ IF NoAnswerComing THEN UNCHANGED faults ELSE Fault
    /\ IF hpc = "verify"
       THEN hpc' = "ready" /\ hbaud' = current /\ result' = "false"
       ELSE hpc' = "closed" /\ UNCHANGED <<hbaud, result>>
    /\ UNCHANGED <<setup, current, target, agent, h2d, d2h>>

Close ==
    /\ hpc = "ready" /\ hpc' = "closed"
    /\ UNCHANGED <<setup, hbaud, current, target, result, agent, h2d, d2h, faults>>

-----------------------------------------------------------------------------
(* The agent. *)

Readable == h2d # <<>> /\ Head(h2d).rate = abaud

(* A packet from the main loop: the idle counters start again. *)
AgentTakes ==
    /\ apc = "loop" /\ Readable
    /\ h2d' = Tail(h2d)
    /\ idle' = 0 /\ baudidle' = 0

(* CMD_SET_BAUD: the ACK goes out at the current rate. *)
AgentAck ==
    /\ AgentTakes /\ Head(h2d).op = "SET_BAUD"
    /\ d2h' = Append(d2h, Pkt("ACK", Default, abaud))
    /\ apc' = "switching" /\ anext' = Head(h2d).arg
    /\ UNCHANGED <<setup, host, abaud, adefault, faults>>

(* uart_set_baud: a rate without a divisor leaves the old one in place. *)
UartSetBaud(b) == abaud' = IF b \in reachable THEN b ELSE abaud

(* The UART's FIFO is read empty.  Packets proto_recv had already moved to *)
(* soft_rx, a first part of the queue, stay and remain readable.           *)
DrainFifo(q) ==
    \E n \in 0..Len(q) :
        LET kept == SelectSeq(SubSeq(q, 1, n), LAMBDA m : m.rate = abaud)
        IN h2d' = [j \in 1..Len(kept) |-> [kept[j] EXCEPT !.rate = abaud']]

(* handle_set_baud, after the ACK: the UART changes its rate.              *)
AgentSwitch ==
    /\ apc = "switching"
    /\ UartSetBaud(anext)
    /\ DrainFifo(h2d)
    /\ adefault' = IF anext = Default THEN "yes" ELSE "no"
    /\ apc' = "loop"
    /\ UNCHANGED <<setup, host, anext, idle, baudidle, d2h, faults>>

(* Any other command is answered. *)
AgentAnswer ==
    /\ AgentTakes /\ Head(h2d).op # "SET_BAUD"
    /\ d2h' = Append(d2h, Pkt(Head(h2d).op, Default, abaud))
    /\ UNCHANGED <<setup, host, apc, abaud, anext, adefault, faults>>

Ready == Pkt("READY", Default, abaud)
ReadyUnread == \E j \in 1..Len(d2h) : d2h[j] = Ready

(* The host is not about to act: half a second may pass. *)
HostWaits == hpc \in {"closed", "connect", "ready", "switch"} \/ Answers = <<>>

(* As AgentIdle below, but the agent never returns by itself. *)
AgentIdleStays ==
    /\ apc = "loop" /\ ~ Readable /\ HostWaits
    /\ idle' = (idle + 1) % ReadyEvery
    /\ d2h' = IF idle + 1 < ReadyEvery \/ ReadyUnread THEN d2h ELSE Append(d2h, Ready)
    /\ h2d' = IF h2d = <<>> THEN h2d ELSE Tail(h2d)
    /\ UNCHANGED <<setup, host, apc, abaud, anext, adefault, baudidle, faults>>

(* proto_recv returned 0: nothing came, or only garbage.  Every ReadyEvery *)
(* polls READY goes out (one that is still unread makes no difference to   *)
(* the host); at another rate than the default, after IdleLimit polls the  *)
(* agent returns to it.                                                    *)
AgentIdle ==
    /\ apc = "loop" /\ ~ Readable /\ HostWaits
    /\ idle' = (idle + 1) % ReadyEvery
    /\ d2h' = IF idle + 1 < ReadyEvery \/ ReadyUnread THEN d2h ELSE Append(d2h, Ready)
    /\ IF adefault = "no" /\ baudidle + 1 >= IdleLimit
       THEN /\ UartSetBaud(Default)
            /\ DrainFifo(IF h2d = <<>> THEN h2d ELSE Tail(h2d))
            /\ adefault' = "yes" /\ baudidle' = 0
       ELSE /\ baudidle' = IF adefault = "no" THEN baudidle + 1 ELSE baudidle
            /\ h2d' = IF h2d = <<>> THEN h2d ELSE Tail(h2d)
            /\ UNCHANGED <<abaud, adefault>>
    /\ UNCHANGED <<setup, host, apc, anext, faults>>

-----------------------------------------------------------------------------
LoseToAgent ==
    /\ h2d # <<>> /\ h2d' = Tail(h2d)
    /\ Fault /\ UNCHANGED <<setup, host, agent, d2h>>

LoseToHost ==
    /\ d2h # <<>> /\ d2h' = Tail(d2h)
    /\ Fault /\ UNCHANGED <<setup, host, agent, h2d>>

Init ==
    /\ reachable \in {{Default}, Bauds} /\ canswitch \in {"yes", "no"}
    /\ hpc = "closed" /\ hbaud = Default /\ current = Default
    /\ target = Default /\ result = "none"
    /\ apc = "loop" /\ abaud = Default /\ anext = Default /\ adefault = "yes"
    /\ idle = 0 /\ baudidle = 0
    /\ h2d = <<>> /\ d2h = <<>> /\ faults = 0

AgentStep == AgentAck \/ AgentSwitch \/ AgentAnswer \/ AgentIdle

HostReacts ==
    Connect \/ RecvAck \/ HostSwitch \/ HostCannot \/ Verify \/ RecvWork \/ HostTimeout

Next ==
    \/ Open \/ (\E b \in Bauds : SetBaud(b)) \/ Work \/ Close
    \/ HostReacts \/ AgentStep \/ LoseToAgent \/ LoseToHost

Spec == Init /\ [][Next]_vars

-----------------------------------------------------------------------------
(* Between calls the client's idea of the rate is the transport's rate:    *)
(* _switch_baud and _restore_baud skip the switch on the strength of it,   *)
(* through switches that were refused, timed out or failed to verify.      *)
CurrentIsReal ==
    hpc \in {"ready", "work", "ack", "switch"} => current = hbaud

(* After a set_baud that returned False because the transport cannot       *)
(* change its rate, the two ends can still talk.                           *)
CleanAbort ==
    hpc = "ready" /\ result = "false" /\ apc = "loop" /\ h2d = <<>> => abaud = hbaud
=============================================================================
