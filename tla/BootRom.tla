------------------------------ MODULE BootRom ------------------------------
(***************************************************************************)
(* The board that the boot protocols of defib talk to, and the UART to it: *)
(* external code, modelled from what src/src/defib/protocol expects of it. *)
(*                                                                         *)
(* After a reset the mask ROM listens for a moment and then boots what is  *)
(* in flash.  Answered in time it takes images: a HEAD frame opens an      *)
(* area, DATA frames fill it in the order of their numbers, a TAIL frame   *)
(* closes it.  A frame is [a |-> area, i |-> number]: 0 is HEAD, then DATA *)
(* and TAIL last.  Novatek's commands fit the same pattern.                *)
(***************************************************************************)
EXTENDS Integers, Sequences

CONSTANTS
    MaxFaults,    \* bound: frames damaged, answers lost or late, windows missed
    FrameCount    \* the number of DATA frames of each area

VARIABLES
    chip,     \* the board's boot ROM and how defib reaches it; never changes
    dev,      \* "off", "os", "rom" (listens), "wait" (for 0xAA), "download"
    area,     \* the area HEAD opened
    expect,   \* the number of the DATA frame expected; 0 when none is open
    loaded,   \* DATA frames stored of each area
    wire,     \* frames on their way to the board
    heard,    \* answers on their way to the host
    late,     \* "yes" once an answer came after its wait
    faults

rom == <<chip, dev, area, expect, loaded, wire, heard, late, faults>>

Fault == faults < MaxFaults /\ faults' = faults + 1

Areas == [standard |-> {"pre", "ddr", "pre1", "spl", "image"},
          v500     |-> {"head", "aux", "image"},
          cv6xx    |-> {"gsl", "table", "image"},
          novatek  |-> {"loader", "image"}]

AllAreas == UNION {Areas[p] : p \in DOMAIN Areas}

ASSUME FrameAssumption == FrameCount \in [AllAreas -> Nat]

\* DATA frames of an area.
Frames(a) == FrameCount[a]

\* Whether the area a is part of an upload to this board.
Needed(a) ==
    /\ a \in Areas[chip.proto]
    /\ a = "pre" => chip.prestep
    /\ a = "pre1" => chip.prestep1

\* The pieces of the upload, the DATA frames of its areas, and those stored.
Pieces == UNION {{<<a, i>> : i \in 1..Frames(a)} : a \in {b \in AllAreas : Needed(b)}}
Have == {p \in Pieces : p[2] <= loaded[p[1]]}

Blank == [a \in AllAreas |-> 0]

RomInit ==
    /\ dev = "os" /\ area = "none" /\ expect = 0 /\ loaded = Blank
    /\ wire = <<>> /\ heard = <<>> /\ late = "no" /\ faults = 0

Answer(kind, f) == heard' = Append(heard, [kind |-> kind, a |-> f.a, i |-> f.i])

\* Losing power, or a reset, forgets all: frames and answers under way too.
Reset(state) ==
    /\ dev' = state /\ area' = "none" /\ expect' = 0 /\ loaded' = Blank
    /\ wire' = <<>> /\ heard' = <<>>

(* The board takes the next frame.  A blast is 0xAA and a HEAD in one.     *)
Serve ==
    /\ wire # <<>> /\ wire' = Tail(wire)
    /\ LET f == Head(wire)
           listens == dev = "download" \/ (f.blast /\ dev \in {"rom", "wait"})
           last == Frames(f.a) IN
       \/ /\ ~listens
          /\ UNCHANGED <<dev, area, expect, loaded, heard>>
       \/ /\ listens /\ ~f.ok
          /\ IF chip.proto = "novatek" THEN heard' = heard ELSE Answer("NAK", f)
          /\ UNCHANGED <<dev, area, expect, loaded>>
       \/ /\ listens /\ f.ok /\ f.i = 0
          /\ dev' = "download" /\ area' = f.a /\ expect' = 1 /\ loaded' = loaded
          /\ Answer("ACK", f)
       \/ /\ listens /\ f.ok /\ f.i \in 1..last /\ f.a = area /\ f.i = expect
          /\ loaded' = [loaded EXCEPT ![f.a] = IF @ > f.i THEN @ ELSE f.i]
          /\ expect' = f.i + 1
          /\ Answer("ACK", f)
          /\ UNCHANGED <<dev, area>>
       \/ /\ listens /\ f.ok /\ f.i \in 1..last /\ f.a = area /\ f.i = expect - 1
          /\ Answer("ACK", f)
          /\ UNCHANGED <<dev, area, expect, loaded>>
       \/ /\ listens /\ f.ok /\ f.i > last /\ f.a = area /\ expect = last + 1
          /\ IF chip.detaches THEN heard' = heard ELSE Answer("ACK", f)
          /\ dev' = IF f.a = "spl" /\ chip.remarks THEN "wait" ELSE dev
          /\ UNCHANGED <<area, expect, loaded>>
       \/ /\ listens /\ f.ok /\ f.i # 0
          /\ f.a # area \/ ~(f.i \in {expect, expect - 1})
          /\ IF chip.proto = "novatek" THEN heard' = heard ELSE Answer("NAK", f)
          /\ UNCHANGED <<dev, area, expect, loaded>>
    /\ UNCHANGED <<chip, late, faults>>

(* The ROM's window closes: it boots from flash. *)
MissWindow ==
    /\ dev = "rom" /\ dev' = "os"
    /\ Fault
    /\ UNCHANGED <<chip, area, expect, loaded, wire, heard, late>>

Damage ==
    /\ wire # <<>> /\ Head(wire).ok /\ wire' = [wire EXCEPT ![1].ok = FALSE]
    /\ Fault /\ UNCHANGED <<chip, dev, area, expect, loaded, heard, late>>

LoseAnswer ==
    /\ heard # <<>> /\ heard' = Tail(heard)
    /\ Fault /\ UNCHANGED <<chip, dev, area, expect, loaded, wire, late>>
=============================================================================
