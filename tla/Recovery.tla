------------------------------ MODULE Recovery ------------------------------
(***************************************************************************)
(* Getting an image into a board's memory through its boot ROM: the four   *)
(* boot protocols (src/src/defib/protocol), RecoverySession.run, which     *)
(* power-cycles the board, shakes hands, sends and tries again, the agent  *)
(* upload commands of src/src/defib/cli/app.py, and the power controllers  *)
(* (src/src/defib/power).                                                  *)
(*                                                                         *)
(* send_firmware is a plan: a sequence of operations, run in order.  The   *)
(* session runs them one at a time; the power cycle and the handshake are  *)
(* two tasks where the code makes them so.                                 *)
(***************************************************************************)
EXTENDS BootRom

CONSTANTS Retries,    \* attempts at a frame (FRAME_SEND_RETRIES, MAX_NAK_RETRIES)
          Attempts    \* max_handshake_attempts

ASSUME RecoveryAssumption ==
    MaxFaults \in Nat /\ Retries \in Nat \ {0} /\ Attempts \in Nat \ {0}

VARIABLES
    phase,    \* "start", "cycle", "handshake", "send", "done", "failed"
    todo,     \* operations of the plan still to run
    sent,     \* "yes" between a frame and its answer
    tries,    \* attempts at the frame so far
    attempt,  \* attempts at the whole
    shook,    \* "no", "yes", "bad", "raised": how the handshake task ended
    fresh,    \* whether it answered after the last reset
    past,     \* "yes" once Stage.DDR_INIT is among the completed stages
    mode,     \* the PoE mode of the switch's port
    saved,    \* _saved_poe_out: the mode power_off found, or "none"
    broke     \* "yes" once a power command failed

host == <<phase, todo, sent, tries, attempt, shook, fresh, past>>
power == <<mode, saved, broke>>
vars == <<rom, host, power>>

-----------------------------------------------------------------------------
(* The plans. *)

Op(kind, a, i, must) == [kind |-> kind, a |-> a, i |-> i, must |-> must]
Do(kind) == <<Op(kind, "image", 0, TRUE)>>

\* As AreaOps below, but no DATA frame has to be acknowledged.
AreaOpsLoose(a, must) ==
    [k \in 1..(Frames(a) + 2) |-> Op("frame", a, k - 1, k = 1)]

\* An area: HEAD, its DATA frames and TAIL; must says whether an
\* unacknowledged TAIL fails it.
AreaOps(a, must) ==
    [k \in 1..(Frames(a) + 2) |-> Op("frame", a, k - 1, k <= Frames(a) + 1 \/ must)]

If(cond, ops) == IF cond THEN ops ELSE <<>>

\* _send_ddr_step
DdrStep ==
    If(chip.prestep, Do("blast") \o AreaOps("pre", FALSE))
    \o AreaOps("ddr", FALSE)
    \o If(chip.prestep1, AreaOps("pre1", FALSE))
    \o Do("ddrdone")

\* _send_spl: only boards with a prestep may leave TAIL unacknowledged.
SplStep == Do("rehandshake") \o AreaOps("spl", ~chip.prestep)

\* _send_uboot
UbootStep ==
    (IF chip.prestep THEN Do("blast") ELSE Do("rehandshake")) \o AreaOps("image", FALSE)

\* _send_data_to_bootrom of V500 and of CV6xx: every frame must be acknowledged.
V500Area(a) == AreaOps(a, TRUE)
Cv6xxArea(a) == AreaOps(a, TRUE)

\* HiSiliconV500.send_firmware: the first 8 KB, the aux area, the image.
V500Plan == V500Area("head") \o V500Area("aux") \o V500Area("image")

\* HiSiliconCV6xx.send_firmware
Cv6xxPlan ==
    Cv6xxArea("gsl") \o Do("board") \o Cv6xxArea("table")
    \o Do("train") \o Cv6xxArea("image")

\* send_loader: WRLOADER, the loader, WAIT_DONE.
SendLoader == AreaOps("loader", TRUE)

\* send_pack: GET_TMP_ADDR, a MEM_WRITE per chunk, UBOOT.
SendPack == AreaOps("image", TRUE)

\* Novatek.send_firmware; OPEN_DEVICE has ended the handshake.
NovatekPlan == SendLoader \o SendPack

\* An agent upload goes on to FlashAgentClient.connect.
Plan ==
    (IF chip.proto = "standard" THEN DdrStep \o SplStep \o UbootStep
     ELSE IF chip.proto = "v500" THEN V500Plan
     ELSE IF chip.proto = "cv6xx" THEN Cv6xxPlan
     ELSE NovatekPlan)
    \o If(chip.caller = "upload", Do("connect"))

-----------------------------------------------------------------------------
(* How the caller orders power and handshake. *)

Powered == chip.power # "none"
Session == chip.caller = "session"
FrameBlast == chip.proto = "standard" /\ chip.prestep

\* _power_cycle_into_handshake holds the board off where it can.
HoldsOff ==
    ~Session /\ chip.proto # "cv6xx" /\ chip.power \in {"poe", "plug"}

\* As BlastsFirst below, but a reactive handshake starts early as well.
BlastsFirstAll == TRUE

\* The handshake task is started before the power cycle.
BlastsFirst ==
    IF Session THEN ~FrameBlast
    ELSE chip.proto # "standard" \/ HoldsOff

\* RecoverySession: without power control a frame-blast board has its
\* handshake in send_firmware.
Deferred == Session /\ ~Powered /\ FrameBlast

\* Handshakes that give up: Novatek's own deadline, wait_for of the uploads.
Timed ==
    \/ chip.proto = "novatek"
    \/ ~Session /\ chip.proto = "v500"
    \/ ~Session /\ chip.proto = "standard" /\ Powered

MaxAttempts == IF Powered /\ (Session \/ chip.proto # "cv6xx") THEN Attempts ELSE 1

-----------------------------------------------------------------------------
(* The end of an attempt. *)

Stop(end) ==
    /\ phase' = end /\ todo' = <<>> /\ sent' = "no" /\ tries' = 0
    /\ UNCHANGED <<attempt, shook, fresh, past>>

Again ==
    /\ phase' = "start" /\ todo' = <<>> /\ sent' = "no" /\ tries' = 0
    /\ UNCHANGED <<attempt, shook, fresh, past>>

\* As HandshakeFails below, but attempts are not counted.
HandshakeFailsForever ==
    /\ phase' = "start" /\ attempt' = 0 /\ todo' = <<>> /\ sent' = "no" /\ tries' = 0
    /\ UNCHANGED <<shook, fresh, past>>

\* No handshake: another attempt while there is one left.
HandshakeFails == IF attempt < MaxAttempts THEN Again ELSE Stop("failed")

\* send_firmware failed.  The session tries again when it did not get past
\* Stage.DDR_INIT and the result is retryable; the uploads do not.
SendFails(retryable) ==
    IF Session /\ past = "no" /\ retryable /\ attempt < MaxAttempts
    THEN Again ELSE Stop("failed")

-----------------------------------------------------------------------------
(* Power and handshake. *)

\* One attempt begins: RecoverySession's loop, _power_cycle_into_handshake's.
Start ==
    /\ phase = "start"
    /\ attempt' = attempt + 1 /\ shook' = "no" /\ fresh' = "no" /\ past' = "no"
    /\ phase' = IF Deferred THEN "send"
                ELSE IF ~Powered THEN "handshake"
                ELSE IF HoldsOff \/ chip.power = "plug" THEN "off" ELSE "cycle"
    /\ todo' = IF Deferred THEN Plan ELSE <<>>
    /\ heard' = <<>>
    /\ UNCHANGED <<sent, tries, chip, dev, area, expect, loaded, wire, late, faults, power>>

Goto(p) == phase' = p /\ UNCHANGED <<todo, sent, tries, attempt, shook, past>>

\* RouterOS's power_off remembers the port's mode unless it already has one.
PoeOff ==
    /\ chip.power = "poe"
    /\ saved' = (IF saved = "none" THEN mode ELSE saved) /\ mode' = "off"

\* A plug's relay (Tasmota, HTTP, rack pod) has no mode to remember.
PlugOff == chip.power = "plug" /\ UNCHANGED <<saved, mode>>

PowerOff ==
    /\ phase = "off"
    /\ Reset("off") /\ Goto("on") /\ fresh' = "no"
    /\ PoeOff \/ PlugOff
    /\ UNCHANGED <<chip, late, faults, broke>>

\* As RestoreMode below, but the port is simply switched on.
RestoreModeOn(m) == "forced-on"

\* What power_on sets: the mode power_off found, never "off" again.
RestoreMode(m) == IF m \in {"none", "off"} THEN "forced-on" ELSE m

PoeOn == chip.power = "poe" /\ mode' = RestoreMode(saved) /\ saved' = "none"
PlugOn == chip.power = "plug" /\ UNCHANGED <<saved, mode>>

PowerOn ==
    /\ phase = "on"
    /\ Reset("rom") /\ Goto("handshake") /\ fresh' = "no"
    /\ PoeOn \/ PlugOn
    /\ UNCHANGED <<chip, late, faults, broke>>

\* The CV6xx upload names no port, which RouterOS refuses.
NoPort == chip.power = "poe" /\ ~Session

\* power_cycle in one command: RouterOS's own leaves the port's mode alone.
PoeCycle == chip.power = "poe" /\ ~NoPort

\* Vectis pulses the board's reset through the modem-control lines.
PulseCycle == chip.power \notin {"none", "poe"}

PowerCycle ==
    /\ phase = "cycle"
    /\ PoeCycle \/ PulseCycle
    /\ Reset("rom") /\ Goto("handshake") /\ fresh' = "no"
    /\ UNCHANGED <<chip, late, faults, power>>

\* A power command fails: the handshake task is cancelled, the run is over.
\* power_on has already forgotten the mode it was to restore.
PowerError ==
    /\ Stop("failed") /\ broke' = "yes"
    /\ saved' = IF phase = "on" THEN "none" ELSE saved
    /\ UNCHANGED <<mode, chip, dev, area, expect, loaded, wire, heard, late>>

PowerFails == phase \in {"off", "on", "cycle"} /\ Fault /\ PowerError

PowerRefused == phase = "cycle" /\ NoPort /\ PowerError /\ UNCHANGED faults

\* The handshake task runs: before the power cycle, or after it.
Shaking ==
    /\ shook = "no"
    /\ \/ phase = "handshake"
       \/ phase \in {"off", "cycle"} /\ BlastsFirst /\ ~HoldsOff
       \/ phase = "on" /\ BlastsFirst

\* The ROM listens.  V500's and Novatek's answer in download mode too.
Listens == dev = "rom" \/ (dev = "download" /\ chip.proto \in {"v500", "novatek"})

\* The markers of the standard protocol are spaces, which a running system
\* may print.
HandshakeStandard ==
    /\ chip.proto = "standard" /\ shook' = "yes"
    /\ \/ dev = "rom" /\ dev' = "download" /\ UNCHANGED faults
       \/ dev = "os" /\ dev' = dev /\ Fault

\* The upload compares the die that the handshake reports.
HandshakeV500 ==
    /\ chip.proto = "v500" /\ shook' = IF chip.die \/ Session THEN "yes" ELSE "bad"
    /\ Listens /\ dev' = "download" /\ UNCHANGED faults

HandshakeCv6xx ==
    /\ chip.proto = "cv6xx" /\ shook' = "yes"
    /\ Listens /\ dev' = "download" /\ UNCHANGED faults

\* Another die is refused; an OPEN_DEVICE without an answer raises.
HandshakeNovatek ==
    /\ chip.proto = "novatek" /\ Listens /\ dev' = "download"
    /\ \/ shook' = (IF chip.die THEN "yes" ELSE "bad") /\ UNCHANGED faults
       \/ chip.die /\ shook' = "raised" /\ Fault

\* handshake returns; what has come in since is dropped.
Handshake ==
    /\ Shaking
    /\ HandshakeStandard \/ HandshakeV500 \/ HandshakeCv6xx \/ HandshakeNovatek
    /\ fresh' = "yes" /\ heard' = <<>>
    /\ UNCHANGED <<phase, todo, sent, tries, attempt, past, chip, area, expect, loaded,
                   wire, late, power>>

\* The caller has the handshake's result.
HandshakeEnds ==
    /\ phase = "handshake" /\ shook # "no"
    /\ IF shook = "yes"
       THEN /\ phase' = "send" /\ todo' = Plan
            /\ UNCHANGED <<sent, tries, attempt, shook, fresh, past>>
       ELSE IF shook = "bad" /\ chip.proto = "novatek" THEN HandshakeFails
       ELSE Stop("failed")
    /\ UNCHANGED <<rom, power>>

\* A deadline passes without an answer.
HandshakeTimeout ==
    /\ phase = "handshake" /\ shook = "no" /\ Timed /\ ~Listens
    /\ HandshakeFails
    /\ UNCHANGED <<rom, power>>

\* Without power control somebody resets the board by hand.
ManualReset ==
    /\ ~Powered /\ dev = "os" /\ phase \in {"handshake", "send"}
    /\ attempt = 1 /\ (phase = "send" => Deferred /\ Len(todo) = Len(Plan))
    /\ Reset("rom")
    /\ UNCHANGED <<chip, late, faults, host, power>>

-----------------------------------------------------------------------------
(* send_firmware. *)

op == Head(todo)
Doing(kind) == phase = "send" /\ op.kind = kind
InFrame == phase = "send" /\ op.kind \in {"frame", "blast"}
Standard == chip.proto = "standard"

OpDone ==
    /\ todo' = Tail(todo) /\ sent' = "no" /\ tries' = 0
    /\ phase' = IF Len(todo) = 1 THEN "done" ELSE phase
    /\ UNCHANGED <<attempt, shook, fresh, past>>

OpFails == IF op.must THEN SendFails(TRUE) ELSE OpDone

Frame == [a |-> IF op.kind = "blast" THEN "pre" ELSE op.a, i |-> op.i,
          ok |-> TRUE, blast |-> op.kind = "blast"]

\* A frame is written; the standard protocol drops what has come in first.
SendFrame ==
    /\ InFrame /\ sent = "no"
    /\ wire' = Append(wire, Frame)
    /\ heard' = IF Standard /\ op.kind = "frame" THEN <<>> ELSE heard
    /\ sent' = "yes" /\ tries' = tries + 1
    /\ UNCHANGED <<phase, todo, attempt, shook, fresh, past,
                   chip, dev, area, expect, loaded, late, faults, power>>

\* As Accepts below, but any byte will do.
AcceptsAny(h) == TRUE

\* The answer that ends the wait: an ACK, for Novatek the command's echo.
Accepts(h) ==
    /\ h.kind = "ACK"
    /\ chip.proto = "novatek" => h.a = op.a /\ h.i = op.i

\* An answer.  After an ACK the blast drops what else has come in; V500
\* and CV6xx write the frame again on a NAK; other bytes are passed over.
HearAnswer ==
    /\ InFrame /\ sent = "yes" /\ heard # <<>>
    /\ LET h == Head(heard)
           nak == chip.proto \in {"v500", "cv6xx"} IN
       \/ /\ Accepts(h) /\ OpDone /\ wire' = wire
          /\ heard' = IF op.kind = "blast" THEN <<>> ELSE Tail(heard)
       \/ /\ ~Accepts(h) /\ heard' = Tail(heard)
          /\ IF nak THEN /\ wire' = Append(wire, Frame)
                         /\ IF tries = Retries THEN OpFails
                            ELSE /\ tries' = tries + 1
                                 /\ UNCHANGED <<phase, todo, sent, attempt, shook, fresh, past>>
             ELSE UNCHANGED <<host, wire>>
    /\ UNCHANGED <<chip, dev, area, expect, loaded, late, faults, power>>

\* No answer in time: it never comes, or it comes too late.
FrameTimeout ==
    /\ InFrame /\ sent = "yes" /\ heard = <<>>
    /\ \/ wire = <<>> /\ UNCHANGED <<late, faults>>
       \/ wire # <<>> /\ Fault /\ late' = "yes"
    /\ IF Standard /\ tries < Retries
       THEN sent' = "no" /\ UNCHANGED <<phase, todo, tries, attempt, shook, fresh, past>>
       ELSE OpFails
    /\ UNCHANGED <<chip, dev, area, expect, loaded, wire, heard, power>>

\* _rehandshake: markers are answered with 0xAA; any other byte, or
\* silence (the markers may come later), is taken for a board that is ready.
Rehandshake ==
    /\ Doing("rehandshake") /\ OpDone
    /\ \/ heard # <<>> /\ heard' = Tail(heard) /\ UNCHANGED <<dev, faults>>
       \/ heard = <<>> /\ dev = "wait" /\ dev' = "download" /\ UNCHANGED <<heard, faults>>
       \/ heard = <<>> /\ dev = "wait" /\ Fault /\ UNCHANGED <<heard, dev>>
       \/ heard = <<>> /\ dev # "wait" /\ UNCHANGED <<heard, dev, faults>>
    /\ UNCHANGED <<chip, area, expect, loaded, wire, late, power>>

DdrDone ==
    /\ Doing("ddrdone")
    /\ todo' = Tail(todo) /\ past' = "yes"
    /\ UNCHANGED <<phase, sent, tries, attempt, shook, fresh, rom, power>>

\* _get_board_id: without an answer the id is 0.
GetBoardId ==
    /\ Doing("board") /\ wire = <<>>
    /\ OpDone /\ heard' = <<>>
    /\ UNCHANGED <<chip, dev, area, expect, loaded, wire, late, faults, power>>

\* The SPL's account of the DDR training decides; its silence proves nothing.
Train ==
    /\ Doing("train") /\ wire = <<>>
    /\ IF chip.table = "rejected" THEN SendFails(FALSE)
       ELSE IF chip.table = "stuck" THEN SendFails(TRUE)
       ELSE OpDone
    /\ heard' = <<>>
    /\ UNCHANGED <<chip, dev, area, expect, loaded, wire, late, faults, power>>

\* FlashAgentClient.connect: the agent runs when all of it is there.
Connect ==
    /\ Doing("connect") /\ wire = <<>>
    /\ \/ Have = Pieces /\ OpDone /\ UNCHANGED faults
       \/ Have # Pieces /\ Stop("failed") /\ UNCHANGED faults
       \/ Fault /\ Stop("failed")
    /\ heard' = <<>>
    /\ UNCHANGED <<chip, dev, area, expect, loaded, wire, late, power>>

-----------------------------------------------------------------------------
CONSTANT Chips   \* the boards and callers considered

\* A board's boot ROM, its power controller and who recovers it.
Chip == [proto : {"standard", "v500", "cv6xx", "novatek"},
         caller : {"session", "upload"}, power : {"none", "poe", "plug", "pulse"},
         prestep : BOOLEAN, prestep1 : BOOLEAN, remarks : BOOLEAN, detaches : BOOLEAN,
         table : {"trained", "rejected", "stuck", "silent"}, die : BOOLEAN,
         poe : {"auto-on", "forced-on", "off"}]

ASSUME ChipsAssumption == Chips \subseteq Chip

Init ==
    /\ chip \in Chips /\ RomInit
    /\ phase = "start" /\ todo = <<>> /\ sent = "no" /\ tries = 0 /\ attempt = 0
    /\ shook = "no" /\ fresh = "no" /\ past = "no"
    /\ mode = chip.poe /\ saved = "none" /\ broke = "no"

HostStep ==
    \/ Start \/ PowerOff \/ PowerOn \/ PowerCycle \/ PowerRefused
    \/ HandshakeEnds \/ HandshakeTimeout
    \/ SendFrame \/ HearAnswer \/ FrameTimeout \/ Rehandshake \/ DdrDone
    \/ GetBoardId \/ Train \/ Connect

DeviceStep == Serve /\ UNCHANGED <<host, power>>
Trouble == (MissWindow \/ Damage \/ LoseAnswer) /\ UNCHANGED <<host, power>>

Next == HostStep \/ Handshake \/ PowerFails \/ ManualReset \/ DeviceStep \/ Trouble

Spec == Init /\ [][Next]_vars

\* The code's steps are taken, the board reads its line, and a handshake
\* that a listening board can answer is answered.  Nothing makes anybody
\* reset a board by hand.
FairSpec == Spec /\ WF_vars(HostStep) /\ WF_vars(DeviceStep) /\ WF_vars(Handshake)

-----------------------------------------------------------------------------
Ended == phase \in {"done", "failed"}

\* The session asks for no piece again that an ACK without a number, late
\* from an earlier attempt, has covered; the agent upload ends with connect.
LoosePieces == IF Standard /\ Session THEN Pieces ELSE {}

Upload == INSTANCE ImageTransfer WITH
    have <- Have, pieces <- Pieces, sure <- late = "no", loose <- LoosePieces,
    outcome <- IF phase = "done" THEN "success" ELSE IF phase = "failed" THEN "failed"
               ELSE "running"

\* Every upload implements the image transfer: whatever frames are damaged,
\* answers lost or attempts repeated, success is reported only when the
\* board has the whole image.  The one exception is a session of the standard
\* protocol in which an answer has outlived its wait.
ImageLoaded == Upload!Spec

\* Every recovery ends, or it waits in a handshake without a deadline for a
\* board that does not listen (any more).
RecoveryEnds == <>Ended \/ <>[](phase = "handshake" /\ ~Timed /\ ~Listens)

\* Where defib can hold the board off, or resets it before it listens, the
\* firmware goes only to a ROM that answered after the last reset: never to
\* one that a power cycle has just restarted.
FreshHandshake ==
    phase = "send" /\ Powered /\ (HoldsOff \/ (Standard /\ ~(Session /\ ~FrameBlast)))
        => fresh = "yes"

\* A PoE port that defib switched off is left in the mode it had, or on
\* when it was off, unless a power command failed.
PortRestored ==
    Ended /\ broke = "no" /\ HoldsOff /\ chip.power = "poe" =>
        mode = (IF chip.poe = "off" THEN "forced-on" ELSE chip.poe)
=============================================================================
