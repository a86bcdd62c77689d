-------------------------------- MODULE Links --------------------------------
(***************************************************************************)
(* The protocols of the serial line side by side: the windowed write and   *)
(* the rate switch of the agent, and the YMODEM sender.  A behaviour is    *)
(* the use of one of them: link says which, and the state of the others    *)
(* does not change.  Each is a module of its own; this one adds the choice *)
(* and the fairness.                                                       *)
(***************************************************************************)
EXTENDS Integers

CONSTANTS
    Blocks, Chunks, Window, HasPort, Settles, WriteFaults,          \* WindowedWrite
    Default, Fast, ReadyEvery, IdleLimit, MaxQueue, BaudFaults,     \* BaudSwitch
    Packets, Modulus, Retries, MaxStalls, YModemFaults              \* YModem

ASSUME LinksAssumption ==
    /\ Blocks \in Nat \ {0} /\ Chunks \in Nat \ {0} /\ Window \in Nat \ {0}
    /\ HasPort \in BOOLEAN /\ Settles \in BOOLEAN
    /\ Default # Fast /\ ReadyEvery \in Nat \ {0} /\ IdleLimit \in Nat \ {0}
    /\ Packets \in Nat /\ Modulus \in Nat \ {0, 1} /\ Retries \in Nat \ {0}
    /\ {WriteFaults, BaudFaults, YModemFaults, MaxQueue, MaxStalls} \subseteq Nat

VARIABLES
    link,                                               \* the protocol in use; never changes
    hpc, h2d, d2h, faults,                              \* the host, the serial line
    off, base, sent, acked, window, ablk, arecv, ram,   \* WindowedWrite
    reachable, canswitch, hbaud, current, target, result,
    apc, abaud, anext, adefault, idle, baudidle,        \* BaudSwitch
    spc, waiting, pkt, attempt, eotnaks, rpc, stored,
    s2r, r2s, stalls                                    \* YModem

W == INSTANCE WindowedWrite WITH MaxFaults <- WriteFaults
B == INSTANCE BaudSwitch WITH MaxFaults <- BaudFaults
Y == INSTANCE YModem WITH MaxFaults <- YModemFaults

line == <<hpc, h2d, d2h>>
writer == <<off, base, sent, acked, window, ablk, arecv, ram>>
switch == <<reachable, canswitch, hbaud, current, target, result,
            apc, abaud, anext, adefault, idle, baudidle>>
sender == <<spc, waiting, pkt, attempt, eotnaks, rpc, stored, s2r, r2s, stalls>>
allVars == <<link, line, faults, writer, switch, sender>>

Writing == link = "write" /\ UNCHANGED <<link, switch, sender>>
Switching == link = "baud" /\ UNCHANGED <<link, writer, sender>>
Sending == link = "ymodem" /\ UNCHANGED <<link, line, writer, switch>>

\* A protocol that is not in use: none of its variables has a value that
\* matters.
LineAway == hpc = "away" /\ h2d = <<>> /\ d2h = <<>>
WriterAway ==
    /\ off = 0 /\ base = 0 /\ sent = 0 /\ acked = 0 /\ window = 0 /\ ablk = 0
    /\ arecv = 0 /\ ram = <<>>
SwitchAway ==
    /\ reachable = {} /\ canswitch = "no" /\ hbaud = Default /\ current = Default
    /\ target = Default /\ result = "none" /\ apc = "loop" /\ abaud = Default
    /\ anext = Default /\ adefault = "yes" /\ idle = 0 /\ baudidle = 0
SenderAway ==
    /\ spc = "away" /\ waiting = "no" /\ pkt = 0 /\ attempt = 0 /\ eotnaks = "no"
    /\ rpc = "gone" /\ stored = <<>> /\ s2r = <<>> /\ r2s = <<>> /\ stalls = 0

Init ==
    \/ link = "write" /\ W!Init /\ SwitchAway /\ SenderAway
    \/ link = "baud" /\ B!Init /\ WriterAway /\ SenderAway
    \/ link = "ymodem" /\ Y!Init /\ LineAway /\ WriterAway /\ SwitchAway

Next ==
    \/ Writing /\ W!Next
    \/ Switching /\ B!Next
    \/ Sending /\ Y!Next

Spec == Init /\ [][Next]_allVars

\* Both programs on the line keep running and the receiver reads it.  Nobody
\* has to give a command, and nothing has to be lost.
FairSpec ==
    /\ Spec
    /\ WF_allVars(\/ Writing /\ W!HostStep
                  \/ Switching /\ B!HostReacts
                  \/ Sending /\ Y!SenderStep)
    /\ WF_allVars(\/ Writing /\ W!AgentStep
                  \/ Switching /\ B!AgentStep
                  \/ Sending /\ Y!ReceiverStep)

-----------------------------------------------------------------------------
\* write_memory returns True only when RAM holds the data: the ACKs it has
\* counted were those of its own blocks, through windows that failed and were
\* written again.
TrueMeansWritten == link = "write" => W!TrueMeansWritten

\* After the drain of a failed window, an ACK that comes in is about the
\* block the retry is writing.
NoStaleAck == link = "write" => W!NoStaleAck

\* Between calls the client's idea of the rate is the transport's rate:
\* _switch_baud and _restore_baud skip the switch on the strength of it,
\* through switches that were refused, timed out or failed to verify.
CurrentIsReal == link = "baud" => B!CurrentIsReal

\* A new session, which listens at the default rate, hears READY, however
\* the sessions before it ended: lost ACKs, failed switches, a host that
\* closed at the fast rate.  No power cycle is needed.
SessionConnects == (link = "baud" /\ hpc = "connect") ~> (hpc = "ready")

\* send() returns normally only when the receiver has stored the whole file,
\* each packet once and in order, whatever was damaged, lost or sent again; or
\* else whatever drains stalled and prompts crossed, once the receiver has
\* read what is still on its way to it.
SuccessMeansReceived == link = "ymodem" => Y!SuccessMeansReceived

\* A RAM write and a YMODEM transfer end, with success or with an error,
\* whatever is lost, damaged, stalled or cancelled.
TransferEnds ==
    (link # "baud") ~> (hpc \in {"true", "false"} \/ spc \in {"done", "fail"})
=============================================================================
