--------------------------- MODULE RecoveryProofs ---------------------------
(***************************************************************************)
(* Proofs about module Recovery, for every set of boards, every number of  *)
(* frames, faults, retries and attempts: the firmware goes to a freshly    *)
(* reset ROM, the switch's port is left as it was found, and the uploads   *)
(* implement ImageTransfer.                                                *)
(***************************************************************************)
EXTENDS Recovery, SequenceTheorems, TLAPS

-----------------------------------------------------------------------------
(* Types. *)

Operations == [kind : {"frame", "blast", "ddrdone", "rehandshake", "board", "train", "connect"},
               a : AllAreas, i : Nat, must : BOOLEAN]
FramesOnWire == [a : AllAreas, i : Nat, ok : BOOLEAN, blast : BOOLEAN]
Answers == [kind : {"ACK", "NAK"}, a : AllAreas, i : Nat]

TypeOK ==
    /\ chip \in Chip
    /\ dev \in {"off", "os", "rom", "wait", "download"}
    /\ area \in AllAreas \cup {"none"} /\ expect \in Nat
    /\ loaded \in [AllAreas -> Nat]
    /\ wire \in Seq(FramesOnWire) /\ heard \in Seq(Answers)
    /\ late \in {"no", "yes"}
    /\ phase \in {"start", "off", "on", "cycle", "handshake", "send", "done", "failed"}
    /\ todo \in Seq(Operations)
    /\ sent \in {"no", "yes"} /\ tries \in Nat /\ attempt \in Nat
    /\ shook \in {"no", "yes", "bad", "raised"} /\ fresh \in {"no", "yes"}
    /\ past \in {"no", "yes"}
    /\ mode \in {"auto-on", "forced-on", "off"}
    /\ saved \in {"auto-on", "forced-on", "off", "none"}
    /\ broke \in {"no", "yes"}

-----------------------------------------------------------------------------
(* The inductive invariant. *)

\* Whether the plan is run to its end: what is left of it ends with an
\* operation that can end it, for an agent upload with connect.
PlanInv ==
    phase = "send" =>
        /\ todo # <<>> /\ Len(todo) <= Len(Plan)
        /\ Len(todo) = Len(Plan) => todo = Plan
        /\ todo[Len(todo)].kind \in {"frame", "connect"}
        /\ ~Session => todo[Len(todo)].kind = "connect"
        /\ ~Standard => \A k \in 1..Len(todo) :
              /\ todo[k].kind = "frame" => todo[k].must
              /\ todo[k].kind \notin {"blast", "rehandshake", "ddrdone"}

\* Nothing of an earlier attempt is under way when the plan begins.
QuietInv ==
    /\ phase \in {"off", "on", "cycle"} => Powered
    /\ phase \in {"off", "on", "cycle", "handshake", "send"} => attempt > 0
    /\ phase = "handshake" => wire = <<>> /\ heard = <<>>
    /\ phase # "send" => sent = "no"
    /\ phase = "start" /\ ~Powered => attempt = 0 /\ wire = <<>>

\* The board has stored the DATA frames before the one that it expects.
DeviceInv == area # "none" => expect <= loaded[area] + 1

\* An answer on the line answers the frame that the host waits for: always
\* where a late answer fails the upload, elsewhere until there is one.
Exact == ~Standard \/ late = "no"

\* The frame that the host waits for, if it carries data, has been stored.
Stored == op.kind = "frame" /\ op.i \in 1..Frames(op.a) => op.i <= loaded[op.a]

LineInv ==
    phase = "send" /\ Exact =>
        /\ sent = "no" => wire = <<>> /\ heard = <<>>
        /\ sent = "yes" =>
              /\ op.kind \in {"frame", "blast"}
              /\ wire # <<>> =>
                    /\ heard = <<>> /\ Len(wire) = 1
                    /\ op.kind = "frame" => wire[1].a = op.a /\ wire[1].i = op.i
              /\ heard # <<>> => Len(heard) = 1 /\ (heard[1].kind = "ACK" => Stored)

\* The operations ops still send the i-th DATA frame of the area a.
Sends(ops, a, i) ==
    \E k \in 1..Len(ops) :
        ops[k].kind = "frame" /\ ops[k].a = a /\ ops[k].i = i /\ ops[k].must

\* Every piece has been stored or is still to be sent.
CoverInv ==
    phase = "send" /\ Exact =>
        \A p \in Pieces : p \in Have \/ Sends(todo, p[1], p[2])

\* Nobody answers before the board is reset; an answer found afterwards is
\* the new ROM's.
ResetFirst == Powered /\ (HoldsOff \/ (Standard /\ ~(Session /\ ~FrameBlast)))

FreshInv ==
    ResetFirst =>
        /\ phase \in {"off", "on", "cycle"} => shook = "no"
        /\ phase = "on" => dev = "off"
        /\ phase \in {"handshake", "send"} /\ shook # "no" => fresh = "yes"
        /\ phase = "send" => shook # "no"

\* The mode that power_on leaves the port in.
Restored == IF chip.poe = "off" THEN "forced-on" ELSE chip.poe

PortInv ==
    HoldsOff /\ chip.power = "poe" /\ broke = "no" =>
        /\ phase # "cycle"
        /\ phase \in {"start", "off"} => saved = "none" /\ mode \in {chip.poe, Restored}
        /\ phase = "on" => saved \in {chip.poe, Restored}
        /\ phase \in {"handshake", "send", "done", "failed"} =>
              mode = Restored /\ saved = "none"

Inv == TypeOK /\ PlanInv /\ QuietInv /\ DeviceInv /\ LineInv /\ CoverInv /\ FreshInv /\ PortInv

-----------------------------------------------------------------------------
(* The plans. *)

\* A plan that is run to its end: see PlanInv.
WellFormed(ops) ==
    ops \in Seq(Operations) /\ ops # <<>> /\ ops[Len(ops)].kind \in {"frame", "connect"}

\* What PlanInv says of the operations where every answer is waited for.
Strict(ops) ==
    \A k \in 1..Len(ops) :
        /\ ops[k].kind = "frame" => ops[k].must
        /\ ops[k].kind \notin {"blast", "rehandshake", "ddrdone"}

SendsAll(ops, a) == \A i \in 1..Frames(a) : Sends(ops, a, i)

\* Facts about concatenations: what the parts send, the whole sends; it
\* ends as its second part ends.
LEMMA Concatenation ==
    ASSUME NEW s \in Seq(Operations), NEW t \in Seq(Operations)
    PROVE  /\ s \o t \in Seq(Operations)
           /\ WellFormed(t) => WellFormed(s \o t)
           /\ Strict(s) /\ Strict(t) => Strict(s \o t)
           /\ \A a : SendsAll(s, a) \/ SendsAll(t, a) => SendsAll(s \o t, a)
<1>1. s \o t \in Seq(Operations)
  OBVIOUS
<1>2. Len(s \o t) = Len(s) + Len(t) /\ Len(s) \in Nat /\ Len(t) \in Nat
  OBVIOUS
<1>3. \A k \in 1..Len(s) : k \in 1..Len(s \o t) /\ (s \o t)[k] = s[k]
  BY <1>2
<1>4. \A k \in 1..Len(t) : Len(s) + k \in 1..Len(s \o t) /\ (s \o t)[Len(s) + k] = t[k]
  BY <1>2
<1>5. \A k \in 1..Len(s \o t) :
         k \in 1..Len(s) \/ (k - Len(s) \in 1..Len(t) /\ (s \o t)[k] = t[k - Len(s)])
  BY <1>2
<1>6. WellFormed(t) => WellFormed(s \o t)
  <2>1. SUFFICES ASSUME WellFormed(t) PROVE WellFormed(s \o t)
    BY Zenon
  <2>2. Len(t) \in 1..Len(t)
    BY <1>2, <2>1 DEF WellFormed
  <2>3. (s \o t)[Len(s \o t)] = t[Len(t)] /\ Len(s \o t) > 0
    BY <1>2, <1>4, <2>2
  <2> QED
    BY <1>1, <2>1, <2>3 DEF WellFormed
<1>7. Strict(s) /\ Strict(t) => Strict(s \o t)
  BY <1>3, <1>5, Zenon DEF Strict
<1>8. ASSUME NEW a, SendsAll(s, a) \/ SendsAll(t, a) PROVE SendsAll(s \o t, a)
  <2>1. SUFFICES ASSUME NEW i \in 1..Frames(a) PROVE Sends(s \o t, a, i)
    BY Zenon DEF SendsAll
  <2>2. CASE Sends(s, a, i)
    BY <1>3, <2>2, Zenon DEF Sends
  <2>3. CASE Sends(t, a, i)
    <3>1. PICK k \in 1..Len(t) :
             t[k].kind = "frame" /\ t[k].a = a /\ t[k].i = i /\ t[k].must
      BY <2>3, Zenon DEF Sends
    <3> QED
      BY <1>4, <3>1, Zenon DEF Sends
  <2> QED
    BY <1>8, <2>2, <2>3, Zenon DEF SendsAll
<1> QED
  BY <1>1, <1>6, <1>7, <1>8, Zenon

\* AreaOps sends every DATA frame of its area.
LEMMA AreaPlan ==
    ASSUME NEW a \in AllAreas, NEW must \in BOOLEAN
    PROVE  /\ WellFormed(AreaOps(a, must))
           /\ SendsAll(AreaOps(a, must), a)
           /\ must => Strict(AreaOps(a, must))
<1> DEFINE n == Frames(a)
           ops == AreaOps(a, must)
<1>1. n \in Nat
  BY FrameAssumption, Zenon DEF Frames
<1>2. ops = [k \in 1..(n + 2) |-> Op("frame", a, k - 1, k <= n + 1 \/ must)]
  BY Zenon DEF AreaOps
<1>3. \A k \in 1..(n + 2) : /\ Op("frame", a, k - 1, k <= n + 1 \/ must) \in Operations
                            /\ ops[k].kind = "frame" /\ ops[k].a = a /\ ops[k].i = k - 1
                            /\ ops[k].must = (k <= n + 1 \/ must)
  BY <1>1, <1>2 DEF Op, Operations
<1> HIDE DEF ops, n
<1>4. ops \in Seq(Operations) /\ Len(ops) = n + 2
  BY <1>1, <1>2, <1>3
<1>5. WellFormed(ops)
  BY <1>1, <1>3, <1>4 DEF WellFormed
<1>6. SendsAll(ops, a)
  <2>1. SUFFICES ASSUME NEW i \in 1..n PROVE Sends(ops, a, i)
    BY Zenon DEF SendsAll, n
  <2>2. i + 1 \in 1..Len(ops) /\ i + 1 \in 1..(n + 2) /\ i + 1 <= n + 1 /\ (i + 1) - 1 = i
    BY <1>1, <1>4
  <2>3. ops[i + 1].kind = "frame" /\ ops[i + 1].a = a /\ ops[i + 1].i = i /\ ops[i + 1].must
    BY <1>3, <2>2, Zenon
  <2> QED
    BY <2>2, <2>3, Zenon DEF Sends
<1>7. must => Strict(ops)
  BY <1>3, <1>4, Zenon DEF Strict
<1> QED
  BY <1>5, <1>6, <1>7, Zenon DEF ops

\* One operation that is not a frame.
LEMMA DoPlan ==
    ASSUME NEW kind \in {"blast", "ddrdone", "rehandshake", "board", "train", "connect"}
    PROVE  /\ Do(kind) \in Seq(Operations)
           /\ kind \notin {"blast", "ddrdone", "rehandshake"} => Strict(Do(kind))
           /\ kind = "connect" => WellFormed(Do(kind)) /\ Do(kind)[Len(Do(kind))].kind = kind
<1>1. "image" \in AllAreas
  BY DEF AllAreas, Areas
<1>2. Op(kind, "image", 0, TRUE) \in Operations /\ Op(kind, "image", 0, TRUE).kind = kind
  BY <1>1, Zenon DEF Op, Operations
<1> DEFINE o == Op(kind, "image", 0, TRUE)
<1>3. o \in Operations /\ o.kind = kind
  BY <1>2, Zenon
<1>4. Do(kind) = <<o>>
  BY Zenon DEF Do
<1> HIDE DEF o
<1>5. Do(kind) \in Seq(Operations) /\ Len(Do(kind)) = 1 /\ Do(kind)[1] = o
  BY <1>3, <1>4
<1>6. kind \notin {"blast", "ddrdone", "rehandshake"} => Strict(Do(kind))
  BY <1>3, <1>5 DEF Strict
<1>7. kind = "connect" => WellFormed(Do(kind)) /\ Do(kind)[Len(Do(kind))].kind = kind
  BY <1>3, <1>5 DEF WellFormed
<1> QED
  BY <1>5, <1>6, <1>7, Zenon

\* The areas of each protocol.
LEMMA AreaNames ==
    /\ Areas["standard"] = {"pre", "ddr", "pre1", "spl", "image"}
    /\ Areas["v500"] = {"head", "aux", "image"}
    /\ Areas["cv6xx"] = {"gsl", "table", "image"}
    /\ Areas["novatek"] = {"loader", "image"}
    /\ {"pre", "ddr", "pre1", "spl", "image", "head", "aux", "gsl", "table", "loader"}
         \subseteq AllAreas
BY DEF Areas, AllAreas

\* The standard protocol's plan: _send_ddr_step, _send_spl, _send_uboot.
LEMMA StandardPlan ==
    ASSUME chip \in Chip, chip.proto = "standard"
    PROVE  /\ WellFormed(DdrStep \o SplStep \o UbootStep)
           /\ \A a \in AllAreas : Needed(a) => SendsAll(DdrStep \o SplStep \o UbootStep, a)
<1> DEFINE pre == If(chip.prestep, Do("blast") \o AreaOps("pre", FALSE))
           pre1 == If(chip.prestep1, AreaOps("pre1", FALSE))
           first == IF chip.prestep THEN Do("blast") ELSE Do("rehandshake")
<1>1. \A a \in {"pre", "ddr", "pre1", "spl", "image"}, b \in BOOLEAN :
         AreaOps(a, b) \in Seq(Operations) /\ WellFormed(AreaOps(a, b)) /\ SendsAll(AreaOps(a, b), a)
  <2>1. ASSUME NEW a \in {"pre", "ddr", "pre1", "spl", "image"}, NEW b \in BOOLEAN
        PROVE  WellFormed(AreaOps(a, b)) /\ SendsAll(AreaOps(a, b), a)
    <3>1. a \in AllAreas
      BY AreaNames, Zenon
    <3> QED
      BY <3>1, AreaPlan, Zenon
  <2> QED
    BY <2>1, Zenon DEF WellFormed
<1>2. /\ Do("blast") \in Seq(Operations) /\ Do("rehandshake") \in Seq(Operations)
      /\ Do("ddrdone") \in Seq(Operations)
  BY DoPlan, Zenon
<1>3. chip.prestep \in BOOLEAN /\ chip.prestep1 \in BOOLEAN
  BY Zenon DEF Chip
<1>4. pre \in Seq(Operations) /\ (chip.prestep => SendsAll(pre, "pre"))
  <2>1. CASE chip.prestep
    <3>1. pre = Do("blast") \o AreaOps("pre", FALSE)
      BY <2>1, Zenon DEF If
    <3>2. AreaOps("pre", FALSE) \in Seq(Operations) /\ SendsAll(AreaOps("pre", FALSE), "pre")
      BY <1>1, Zenon
    <3> QED
      BY <1>2, <3>1, <3>2, Concatenation, Zenon
  <2>2. CASE ~chip.prestep
    BY <2>2 DEF If
  <2> QED
    BY <2>1, <2>2, Zenon
<1>5. pre1 \in Seq(Operations) /\ (chip.prestep1 => SendsAll(pre1, "pre1"))
  <2>1. AreaOps("pre1", FALSE) \in Seq(Operations) /\ SendsAll(AreaOps("pre1", FALSE), "pre1")
    BY <1>1, Zenon
  <2>2. CASE chip.prestep1
    BY <2>1, <2>2, Zenon DEF If
  <2>3. CASE ~chip.prestep1
    BY <2>3 DEF If
  <2> QED
    BY <2>2, <2>3, Zenon
<1>6. first \in Seq(Operations)
  BY <1>2, Zenon
<1> HIDE DEF pre, pre1, first
<1>7. /\ DdrStep \in Seq(Operations)
      /\ \A a \in {"pre", "ddr", "pre1"} : Needed(a) => SendsAll(DdrStep, a)
  <2>1. DdrStep = ((pre \o AreaOps("ddr", FALSE)) \o pre1) \o Do("ddrdone")
    BY Zenon DEF DdrStep, pre, pre1
  <2>2. /\ pre \o AreaOps("ddr", FALSE) \in Seq(Operations)
        /\ SendsAll(pre \o AreaOps("ddr", FALSE), "ddr")
        /\ chip.prestep => SendsAll(pre \o AreaOps("ddr", FALSE), "pre")
    BY <1>1, <1>4, Concatenation, Zenon
  <2>3. /\ (pre \o AreaOps("ddr", FALSE)) \o pre1 \in Seq(Operations)
        /\ SendsAll((pre \o AreaOps("ddr", FALSE)) \o pre1, "ddr")
        /\ chip.prestep => SendsAll((pre \o AreaOps("ddr", FALSE)) \o pre1, "pre")
        /\ chip.prestep1 => SendsAll((pre \o AreaOps("ddr", FALSE)) \o pre1, "pre1")
    BY <1>5, <2>2, Concatenation, Zenon
  <2>4. /\ DdrStep \in Seq(Operations) /\ SendsAll(DdrStep, "ddr")
        /\ chip.prestep => SendsAll(DdrStep, "pre")
        /\ chip.prestep1 => SendsAll(DdrStep, "pre1")
    BY <1>2, <2>1, <2>3, Concatenation, Zenon
  <2> QED
    BY <2>4, Zenon DEF Needed
<1>8. SplStep \in Seq(Operations) /\ SendsAll(SplStep, "spl")
  <2>1. (~chip.prestep) \in BOOLEAN
    BY Zenon
  <2> QED
    BY <1>1, <1>2, <2>1, Concatenation, Zenon DEF SplStep
<1>9. UbootStep \in Seq(Operations) /\ WellFormed(UbootStep) /\ SendsAll(UbootStep, "image")
  <2>1. UbootStep = first \o AreaOps("image", FALSE)
    BY Zenon DEF UbootStep, first
  <2> QED
    BY <1>1, <1>6, <2>1, Concatenation, Zenon
<1>10. /\ DdrStep \o SplStep \in Seq(Operations) /\ SendsAll(DdrStep \o SplStep, "spl")
       /\ \A a \in {"pre", "ddr", "pre1"} : Needed(a) => SendsAll(DdrStep \o SplStep, a)
  BY <1>7, <1>8, Concatenation, Zenon
<1>11. /\ WellFormed((DdrStep \o SplStep) \o UbootStep)
       /\ \A a \in {"pre", "ddr", "pre1", "spl", "image"} :
             Needed(a) => SendsAll((DdrStep \o SplStep) \o UbootStep, a)
  BY <1>9, <1>10, Concatenation, Zenon
<1> QED
  BY <1>11, AreaNames DEF Needed

\* The other plans: every frame has to be acknowledged.
LEMMA StrictArea ==
    ASSUME NEW a \in {"head", "aux", "image", "gsl", "table", "loader"}
    PROVE  /\ AreaOps(a, TRUE) \in Seq(Operations) /\ WellFormed(AreaOps(a, TRUE))
           /\ Strict(AreaOps(a, TRUE)) /\ SendsAll(AreaOps(a, TRUE), a)
<1>1. a \in AllAreas
  BY AreaNames, Zenon
<1> QED
  BY <1>1, AreaPlan, Zenon DEF WellFormed

LEMMA V500PlanFacts ==
    ASSUME chip.proto = "v500"
    PROVE  /\ WellFormed(V500Plan) /\ Strict(V500Plan)
           /\ \A a \in AllAreas : Needed(a) => SendsAll(V500Plan, a)
<1> DEFINE head == AreaOps("head", TRUE)
           aux == AreaOps("aux", TRUE)
           image == AreaOps("image", TRUE)
<1>1. /\ head \in Seq(Operations) /\ aux \in Seq(Operations) /\ image \in Seq(Operations)
      /\ Strict(head) /\ Strict(aux) /\ Strict(image) /\ WellFormed(image)
      /\ SendsAll(head, "head") /\ SendsAll(aux, "aux") /\ SendsAll(image, "image")
  BY StrictArea, Zenon
<1>2. V500Plan = (head \o aux) \o image
  BY Zenon DEF V500Plan, V500Area
<1> HIDE DEF head, aux, image
<1>3. /\ head \o aux \in Seq(Operations) /\ Strict(head \o aux)
      /\ SendsAll(head \o aux, "head") /\ SendsAll(head \o aux, "aux")
  BY <1>1, Concatenation, Zenon
<1>4. /\ WellFormed(V500Plan) /\ Strict(V500Plan)
      /\ \A a \in {"head", "aux", "image"} : SendsAll(V500Plan, a)
  BY <1>1, <1>2, <1>3, Concatenation, Zenon
<1> QED
  BY <1>4, AreaNames, Zenon DEF Needed

LEMMA Cv6xxPlanFacts ==
    ASSUME chip.proto = "cv6xx"
    PROVE  /\ WellFormed(Cv6xxPlan) /\ Strict(Cv6xxPlan)
           /\ \A a \in AllAreas : Needed(a) => SendsAll(Cv6xxPlan, a)
<1> DEFINE gsl == AreaOps("gsl", TRUE)
           table == AreaOps("table", TRUE)
           image == AreaOps("image", TRUE)
           p1 == gsl \o Do("board")
           p2 == p1 \o table
           p3 == p2 \o Do("train")
<1>1. /\ gsl \in Seq(Operations) /\ table \in Seq(Operations) /\ image \in Seq(Operations)
      /\ Strict(gsl) /\ Strict(table) /\ Strict(image) /\ WellFormed(image)
      /\ SendsAll(gsl, "gsl") /\ SendsAll(table, "table") /\ SendsAll(image, "image")
  BY StrictArea, Zenon
<1>2. /\ Do("board") \in Seq(Operations) /\ Strict(Do("board"))
      /\ Do("train") \in Seq(Operations) /\ Strict(Do("train"))
  BY DoPlan, Zenon
<1>3. Cv6xxPlan = p3 \o image
  BY Zenon DEF Cv6xxPlan, Cv6xxArea
<1> HIDE DEF gsl, table, image
<1>4. p1 \in Seq(Operations) /\ Strict(p1) /\ SendsAll(p1, "gsl")
  BY <1>1, <1>2, Concatenation, Zenon
<1> HIDE DEF p1
<1>5. p2 \in Seq(Operations) /\ Strict(p2) /\ SendsAll(p2, "gsl") /\ SendsAll(p2, "table")
  BY <1>1, <1>4, Concatenation, Zenon
<1> HIDE DEF p2
<1>6. p3 \in Seq(Operations) /\ Strict(p3) /\ SendsAll(p3, "gsl") /\ SendsAll(p3, "table")
  BY <1>2, <1>5, Concatenation, Zenon
<1> HIDE DEF p3
<1>7. /\ WellFormed(Cv6xxPlan) /\ Strict(Cv6xxPlan)
      /\ \A a \in {"gsl", "table", "image"} : SendsAll(Cv6xxPlan, a)
  BY <1>1, <1>3, <1>6, Concatenation, Zenon
<1> QED
  BY <1>7, AreaNames, Zenon DEF Needed

LEMMA NovatekPlanFacts ==
    ASSUME chip.proto = "novatek"
    PROVE  /\ WellFormed(NovatekPlan) /\ Strict(NovatekPlan)
           /\ \A a \in AllAreas : Needed(a) => SendsAll(NovatekPlan, a)
<1> DEFINE loader == AreaOps("loader", TRUE)
           image == AreaOps("image", TRUE)
<1>1. /\ loader \in Seq(Operations) /\ image \in Seq(Operations)
      /\ Strict(loader) /\ Strict(image) /\ WellFormed(image)
      /\ SendsAll(loader, "loader") /\ SendsAll(image, "image")
  BY StrictArea, Zenon
<1>2. NovatekPlan = loader \o image
  BY Zenon DEF NovatekPlan, SendLoader, SendPack
<1> HIDE DEF loader, image
<1>3. /\ WellFormed(NovatekPlan) /\ Strict(NovatekPlan)
      /\ \A a \in {"loader", "image"} : SendsAll(NovatekPlan, a)
  BY <1>1, <1>2, Concatenation, Zenon
<1> QED
  BY <1>3, AreaNames, Zenon DEF Needed

\* Every plan sends every piece of the upload, and can end it.
LEMMA PlanFacts ==
    ASSUME chip \in Chip
    PROVE  /\ WellFormed(Plan)
           /\ ~Standard => Strict(Plan)
           /\ ~Session => Plan[Len(Plan)].kind = "connect"
           /\ \A p \in Pieces : Sends(Plan, p[1], p[2])
<1> DEFINE core == IF chip.proto = "standard" THEN DdrStep \o SplStep \o UbootStep
                   ELSE IF chip.proto = "v500" THEN V500Plan
                   ELSE IF chip.proto = "cv6xx" THEN Cv6xxPlan
                   ELSE NovatekPlan
           end == If(chip.caller = "upload", Do("connect"))
<1>1. /\ chip.proto \in {"standard", "v500", "cv6xx", "novatek"}
      /\ chip.caller \in {"session", "upload"}
  BY Zenon DEF Chip
<1>2. /\ WellFormed(core)
      /\ ~Standard => Strict(core)
      /\ \A a \in AllAreas : Needed(a) => SendsAll(core, a)
  <2>1. CASE chip.proto = "standard"
    BY <2>1, StandardPlan, Zenon DEF Standard
  <2>2. CASE chip.proto = "v500"
    BY <2>2, V500PlanFacts, Zenon
  <2>3. CASE chip.proto = "cv6xx"
    BY <2>3, Cv6xxPlanFacts, Zenon
  <2>4. CASE chip.proto = "novatek"
    BY <2>4, NovatekPlanFacts, Zenon
  <2> QED
    BY <1>1, <2>1, <2>2, <2>3, <2>4, Zenon
<1>3. Plan = core \o end
  BY Zenon DEF Plan
<1> HIDE DEF core
<1>4. core \in Seq(Operations)
  BY <1>2, Zenon DEF WellFormed
<1>5. CASE chip.caller = "upload"
  <2>1. end = Do("connect")
    BY <1>5, Zenon DEF If
  <2>2. /\ end \in Seq(Operations) /\ Strict(end) /\ WellFormed(end)
        /\ end[Len(end)].kind = "connect"
    BY <2>1, DoPlan, Zenon
  <2> HIDE DEF end
  <2>3. /\ WellFormed(Plan) /\ (~Standard => Strict(Plan))
        /\ \A a \in AllAreas : Needed(a) => SendsAll(Plan, a)
    BY <1>2, <1>3, <1>4, <2>2, Concatenation, Zenon
  <2>4. Plan[Len(Plan)] = end[Len(end)]
    <3>1. Len(end) \in Nat /\ Len(end) > 0
      BY <2>2 DEF WellFormed
    <3> QED
      BY <1>3, <1>4, <2>2, <3>1
  <2> QED
    BY <2>2, <2>3, <2>4 DEF Pieces, SendsAll
<1>6. CASE chip.caller = "session"
  <2>1. end = <<>>
    BY <1>6, Zenon DEF If
  <2>2. Plan = core
    BY <1>3, <1>4, <2>1
  <2> QED
    BY <1>2, <1>6, <2>2 DEF Pieces, SendsAll, Session
<1> QED
  BY <1>1, <1>5, <1>6, Zenon

-----------------------------------------------------------------------------
(* Facts about the steps' building blocks. *)

\* A sequence with an element more or an element less.
LEMMA AppendIsSeq ==
    ASSUME NEW S, NEW s \in Seq(S), NEW x \in S
    PROVE  Append(s, x) \in Seq(S)
OBVIOUS

LEMMA TailIsSeq ==
    ASSUME NEW S, NEW s \in Seq(S), s # <<>>
    PROVE  Tail(s) \in Seq(S) /\ Head(s) \in S
OBVIOUS

\* The rest of a sequence of one element.
LEMMA TailOfOne ==
    ASSUME NEW S, NEW s \in Seq(S), Len(s) = 1
    PROVE  Tail(s) = <<>>
<1>1. Tail(s) \in Seq(S) /\ Len(Tail(s)) = 0
  OBVIOUS
<1> QED
  BY <1>1, EmptySeq, Zenon

\* While send_firmware runs there is a current operation.
LEMMA Current ==
    ASSUME TypeOK, PlanInv, phase = "send"
    PROVE  /\ op \in Operations /\ op = todo[1]
           /\ Len(todo) \in Nat /\ Len(todo) >= 1
           /\ Tail(todo) \in Seq(Operations) /\ Len(Tail(todo)) = Len(todo) - 1
           /\ \A k \in 1..(Len(todo) - 1) : Tail(todo)[k] = todo[k + 1]
<1>1. todo \in Seq(Operations) /\ todo # <<>>
  BY Zenon DEF TypeOK, PlanInv
<1> QED
  BY <1>1 DEF op

\* How a failed attempt leaves the host; only a powered board is tried again.
Over ==
    /\ phase' \in {"start", "failed"} /\ (phase' = "start" => Powered)
    /\ todo' = <<>> /\ sent' = "no" /\ tries' = 0
    /\ UNCHANGED <<attempt, shook, fresh, past>>

LEMMA FailureIsOver ==
    ASSUME TypeOK, QuietInv, phase \in {"handshake", "send"}
    PROVE  /\ HandshakeFails => Over
           /\ \A r \in BOOLEAN : SendFails(r) => Over
           /\ Stop("failed") => Over
<1>1. attempt \in Nat /\ attempt > 0
  BY Zenon DEF TypeOK, QuietInv
<1>2. attempt < MaxAttempts => Powered
  BY <1>1 DEF MaxAttempts
<1> QED
  BY <1>2, Zenon DEF HandshakeFails, SendFails, Again, Stop, Over

\* An operation that fails ends the attempt or, if it may, the operation.
LEMMA FailedOp ==
    ASSUME TypeOK, QuietInv, phase = "send", OpFails
    PROVE  (op.must /\ Over) \/ (~op.must /\ OpDone)
BY FailureIsOver, Zenon DEF OpFails

-----------------------------------------------------------------------------
(* Types. *)

\* An operation of the plan is done.
LEMMA OpDoneType ==
    ASSUME TypeOK, PlanInv, phase = "send", OpDone
    PROVE  /\ phase' \in {"send", "done"} /\ todo' \in Seq(Operations) /\ sent' = "no"
           /\ tries' = 0 /\ UNCHANGED <<attempt, shook, fresh, past>>
BY Current, Zenon DEF OpDone

LEMMA FrameType ==
    ASSUME TypeOK, PlanInv, phase = "send"
    PROVE  Frame \in FramesOnWire
<1>1. op.a \in AllAreas /\ op.i \in Nat
  BY Current, Zenon DEF Operations
<1>2. "pre" \in AllAreas
  BY AreaNames, Zenon
<1> QED
  BY <1>1, <1>2, Zenon DEF Frame, FramesOnWire

\* The board's and the line's part of the type invariant.
RomType ==
    /\ dev \in {"off", "os", "rom", "wait", "download"}
    /\ area \in AllAreas \cup {"none"} /\ expect \in Nat
    /\ loaded \in [AllAreas -> Nat]
    /\ wire \in Seq(FramesOnWire) /\ heard \in Seq(Answers)

LEMMA ResetType ==
    ASSUME NEW state \in {"off", "rom"}, Reset(state)
    PROVE  RomType'
BY DEF Reset, RomType, Blank

LEMMA ServeType ==
    ASSUME TypeOK, Serve
    PROVE  RomType' /\ late' = late /\ chip' = chip
<1> DEFINE f == Head(wire)
<1>1. f \in FramesOnWire /\ wire' \in Seq(FramesOnWire)
  BY TailIsSeq, Zenon DEF TypeOK, Serve
<1>2. f.a \in AllAreas /\ f.i \in Nat /\ Frames(f.a) \in Nat
  BY <1>1, FrameAssumption, Zenon DEF FramesOnWire, Frames
<1>3. \A kind \in {"ACK", "NAK"} : Answer(kind, f) => heard' \in Seq(Answers)
  <2>1. \A kind \in {"ACK", "NAK"} : [kind |-> kind, a |-> f.a, i |-> f.i] \in Answers
    BY <1>2, Zenon DEF Answers
  <2>2. heard \in Seq(Answers)
    BY Zenon DEF TypeOK
  <2> QED
    BY <2>1, <2>2, AppendIsSeq, Zenon DEF Answer
<1>4. heard' \in Seq(Answers)
  BY <1>3, Zenon DEF Serve, TypeOK
<1>5. loaded' \in [AllAreas -> Nat]
  BY <1>2, Zenon DEF Serve, TypeOK
<1>6. /\ dev' \in {"off", "os", "rom", "wait", "download"}
      /\ area' \in AllAreas \cup {"none"}
  BY <1>2, Zenon DEF Serve, TypeOK
<1>7. expect' \in Nat
  <2>1. 1 \in Nat /\ f.i + 1 \in Nat /\ expect \in Nat
    BY <1>2 DEF TypeOK
  <2>2. expect' \in {1, f.i + 1, expect}
    BY Zenon DEF Serve
  <2> QED
    BY <2>1, <2>2, Zenon
<1> QED
  BY <1>1, <1>4, <1>5, <1>6, <1>7, Zenon DEF RomType, Serve

HostType ==
    /\ phase \in {"start", "off", "on", "cycle", "handshake", "send", "done", "failed"}
    /\ todo \in Seq(Operations)
    /\ sent \in {"no", "yes"} /\ tries \in Nat /\ attempt \in Nat
    /\ shook \in {"no", "yes", "bad", "raised"} /\ fresh \in {"no", "yes"}
    /\ past \in {"no", "yes"}

PowerType ==
    /\ mode \in {"auto-on", "forced-on", "off"}
    /\ saved \in {"auto-on", "forced-on", "off", "none"}
    /\ broke \in {"no", "yes"}

LEMMA TypeParts ==
    TypeOK <=> /\ chip \in Chip /\ RomType /\ late \in {"no", "yes"}
               /\ HostType /\ PowerType
BY Zenon DEF TypeOK, RomType, HostType, PowerType

\* The host's variables.
LEMMA HostTypeStep ==
    ASSUME TypeOK, PlanInv, QuietInv, [Next]_vars
    PROVE  HostType'
<1> USE DEF HostType
<1>0. HostType
  BY TypeParts, Zenon
<1>1. CASE Start
  <2>1. Plan \in Seq(Operations)
    BY PlanFacts, Zenon DEF WellFormed, TypeOK
  <2> QED
    BY <1>0, <1>1, <2>1 DEF Start
<1>2. CASE PowerOff \/ PowerOn \/ PowerCycle
  BY <1>0, <1>2, Zenon DEF PowerOff, PowerOn, PowerCycle, Goto
<1>3. CASE PowerRefused \/ PowerFails
  <2>1. Stop("failed") /\ <<>> \in Seq(Operations)
    BY <1>3 DEF PowerRefused, PowerFails, PowerError
  <2> QED
    BY <1>0, <2>1, Zenon DEF Stop
<1>4. CASE HandshakeEnds
  <2>1. Plan \in Seq(Operations)
    BY PlanFacts, Zenon DEF WellFormed, TypeOK
  <2>2. CASE shook = "yes"
    BY <1>0, <1>4, <2>1, <2>2, Zenon DEF HandshakeEnds
  <2>3. CASE shook # "yes"
    <3>1. Over
      BY <1>4, <2>3, FailureIsOver, Zenon DEF HandshakeEnds
    <3> QED
      BY <1>0, <3>1 DEF Over
  <2> QED
    BY <2>2, <2>3, Zenon
<1>5. CASE HandshakeTimeout
  <2>1. Over
    BY <1>5, FailureIsOver, Zenon DEF HandshakeTimeout
  <2> QED
    BY <1>0, <2>1 DEF Over
<1>6. CASE SendFrame
  BY <1>0, <1>6 DEF SendFrame
<1>7. CASE HearAnswer \/ FrameTimeout
  <2>1. phase = "send"
    BY <1>7, Zenon DEF HearAnswer, FrameTimeout, InFrame
  <2>2. \/ OpDone \/ OpFails \/ UNCHANGED host
        \/ /\ tries' \in {tries, tries + 1} /\ sent' \in {"no", sent}
           /\ UNCHANGED <<phase, todo, attempt, shook, fresh, past>>
    BY <1>7, Zenon DEF HearAnswer, FrameTimeout
  <2>3. OpFails => Over \/ OpDone
    BY <2>1, FailedOp, Zenon
  <2>4. OpDone => HostType'
    BY <1>0, <2>1, OpDoneType
  <2>5. Over => HostType'
    BY <1>0 DEF Over
  <2> QED
    BY <1>0, <2>2, <2>3, <2>4, <2>5 DEF host
<1>8. CASE Rehandshake \/ GetBoardId
  BY <1>0, <1>8, OpDoneType DEF Rehandshake, GetBoardId, Doing
<1>9. CASE DdrDone
  BY <1>0, <1>9, Current, Zenon DEF DdrDone, Doing
<1>10. CASE Train
  <2>1. phase = "send" /\ (OpDone \/ Over)
    BY <1>10, FailureIsOver, Zenon DEF Train, Doing
  <2>2. OpDone => HostType'
    BY <1>0, <2>1, OpDoneType
  <2>3. Over => HostType'
    BY <1>0 DEF Over
  <2> QED
    BY <2>1, <2>2, <2>3, Zenon
<1>11. CASE Connect
  <2>1. phase = "send" /\ (OpDone \/ Over)
    BY <1>11, FailureIsOver, Zenon DEF Connect, Doing
  <2>2. OpDone => HostType'
    BY <1>0, <2>1, OpDoneType
  <2>3. Over => HostType'
    BY <1>0 DEF Over
  <2> QED
    BY <2>1, <2>2, <2>3, Zenon
<1>12. CASE Handshake
  BY <1>0, <1>12, Zenon
  DEF Handshake, HandshakeStandard, HandshakeV500, HandshakeCv6xx, HandshakeNovatek
<1>13. CASE ManualReset \/ DeviceStep \/ Trouble \/ UNCHANGED vars
  BY <1>0, <1>13, Zenon DEF ManualReset, DeviceStep, Trouble, host, vars
<1> QED
  BY <1>1, <1>2, <1>3, <1>4, <1>5, <1>6, <1>7, <1>8, <1>9, <1>10, <1>11, <1>12, <1>13, Zenon
  DEF Next, HostStep

\* The board and the line.
LEMMA RomTypeStep ==
    ASSUME TypeOK, PlanInv, [Next]_vars
    PROVE  RomType' /\ chip' = chip /\ late' \in {"no", "yes"}
<1>0. RomType /\ late \in {"no", "yes"}
  BY TypeParts, Zenon
<1>e. <<>> \in Seq(Answers)
  OBVIOUS
<1>1. CASE PowerOff \/ PowerOn \/ PowerCycle \/ ManualReset
  BY <1>0, <1>1, ResetType, Zenon DEF PowerOff, PowerOn, PowerCycle, ManualReset
<1>2. CASE SendFrame \/ HearAnswer \/ FrameTimeout
  <2>1. phase = "send"
    BY <1>2, Zenon DEF SendFrame, HearAnswer, FrameTimeout, InFrame
  <2>2. Frame \in FramesOnWire
    BY <2>1, FrameType, Zenon
  <2>3. /\ wire' \in {wire, Append(wire, Frame)} /\ UNCHANGED <<dev, area, expect, loaded, chip>>
        /\ heard' = heard \/ heard' = <<>> \/ (heard # <<>> /\ heard' = Tail(heard))
        /\ late' \in {late, "yes"}
    BY <1>2, Zenon DEF SendFrame, HearAnswer, FrameTimeout, host
  <2>4. wire' \in Seq(FramesOnWire)
    <3>1. wire \in Seq(FramesOnWire)
      BY <1>0, Zenon DEF RomType
    <3>2. Append(wire, Frame) \in Seq(FramesOnWire)
      BY <2>2, <3>1, AppendIsSeq, Zenon
    <3> QED
      BY <2>3, <3>1, <3>2, Zenon
  <2>5. heard' \in Seq(Answers)
    <3>1. heard # <<>> => Tail(heard) \in Seq(Answers)
      BY <1>0 DEF RomType
    <3> QED
      BY <1>0, <1>e, <2>3, <3>1, Zenon DEF RomType
  <2> QED
    BY <1>0, <2>3, <2>4, <2>5, Zenon DEF RomType
<1>3. CASE DeviceStep
  BY <1>0, <1>3, ServeType, Zenon DEF DeviceStep
<1>4. CASE Trouble
  <2>1. CASE MissWindow
    BY <1>0, <2>1, Zenon DEF MissWindow, RomType
  <2>2. CASE Damage
    <3>1. wire[1] \in FramesOnWire /\ 1 \in 1..Len(wire)
      BY <1>0, <2>2 DEF Damage, RomType
    <3>2. [wire[1] EXCEPT !.ok = FALSE] \in FramesOnWire
      BY <3>1, Zenon DEF FramesOnWire
    <3>3. wire' = [wire EXCEPT ![1] = [wire[1] EXCEPT !.ok = FALSE]]
      BY <2>2, <3>1, Zenon DEF Damage
    <3>4. wire' \in Seq(FramesOnWire)
      BY <1>0, <3>1, <3>2, <3>3 DEF RomType
    <3> QED
      BY <1>0, <2>2, <3>4, Zenon DEF Damage, RomType
  <2>3. CASE LoseAnswer
    <3>1. heard # <<>> /\ heard' = Tail(heard)
      BY <2>3, Zenon DEF LoseAnswer
    <3>2. heard' \in Seq(Answers)
      BY <1>0, <3>1, TailIsSeq, Zenon DEF RomType
    <3> QED
      BY <1>0, <2>3, <3>2, Zenon DEF LoseAnswer, RomType
  <2> QED
    BY <1>4, <2>1, <2>2, <2>3, Zenon DEF Trouble
<1>5. CASE Handshake
  BY <1>0, <1>5 DEF Handshake, HandshakeStandard, HandshakeV500, HandshakeCv6xx,
                    HandshakeNovatek, RomType
<1>6. CASE Rehandshake
  <2>1. heard' = heard \/ (heard # <<>> /\ heard' = Tail(heard))
    BY <1>6, Zenon DEF Rehandshake
  <2>2. heard' \in Seq(Answers)
    BY <1>0, <2>1, TailIsSeq, Zenon DEF RomType
  <2>3. dev' \in {dev, "download"} /\ UNCHANGED <<chip, area, expect, loaded, wire, late>>
    BY <1>6, Zenon DEF Rehandshake
  <2> QED
    BY <1>0, <2>2, <2>3, Zenon DEF RomType
<1>7. CASE Start \/ PowerRefused \/ PowerFails \/ GetBoardId \/ Train \/ Connect
  <2>1. heard' \in {heard, <<>>} /\ UNCHANGED <<chip, dev, area, expect, loaded, wire, late>>
    BY <1>7, Zenon DEF Start, PowerRefused, PowerFails, PowerError, GetBoardId, Train, Connect
  <2>2. heard' \in Seq(Answers)
    BY <1>0, <1>e, <2>1, Zenon DEF RomType
  <2> QED
    BY <1>0, <2>1, <2>2, Zenon DEF RomType
<1>8. CASE HandshakeEnds \/ HandshakeTimeout \/ DdrDone \/ UNCHANGED vars
  BY <1>0, <1>8, Zenon DEF HandshakeEnds, HandshakeTimeout, DdrDone, vars, rom, RomType
<1> QED
  BY <1>1, <1>2, <1>3, <1>4, <1>5, <1>6, <1>7, <1>8, Zenon DEF Next, HostStep

\* The switch's port.
LEMMA PowerTypeStep ==
    ASSUME TypeOK, [Next]_vars
    PROVE  PowerType'
<1> USE DEF PowerType
<1>0. PowerType
  BY TypeParts, Zenon
<1>1. CASE PowerOff
  BY <1>0, <1>1, Zenon DEF PowerOff, PoeOff, PlugOff
<1>2. CASE PowerOn
  BY <1>0, <1>2, Zenon DEF PowerOn, PoeOn, PlugOn, RestoreMode
<1>3. CASE PowerRefused \/ PowerFails
  BY <1>0, <1>3, Zenon DEF PowerRefused, PowerFails, PowerError
<1>4. CASE UNCHANGED power
  BY <1>0, <1>4, Zenon DEF power
<1> QED
  BY <1>1, <1>2, <1>3, <1>4, Zenon
  DEF Next, HostStep, Start, PowerCycle, HandshakeEnds, HandshakeTimeout, SendFrame,
      HearAnswer, FrameTimeout, Rehandshake, DdrDone, GetBoardId, Train, Connect,
      Handshake, ManualReset, DeviceStep, Trouble, vars

LEMMA TypeStep ==
    ASSUME TypeOK, PlanInv, QuietInv, [Next]_vars
    PROVE  TypeOK' /\ chip' = chip
<1>1. RomType' /\ late' \in {"no", "yes"} /\ chip' = chip
  BY RomTypeStep, Zenon
<1>2. HostType' /\ PowerType'
  BY HostTypeStep, PowerTypeStep, Zenon
<1>3. chip' \in Chip
  BY <1>1, Zenon DEF TypeOK
<1> QED
  BY <1>1, <1>2, <1>3, Zenon DEF TypeOK, RomType, HostType, PowerType

-----------------------------------------------------------------------------
(* The plan and the quiet line. *)

\* What depends on the board alone never changes.
LEMMA Frozen ==
    ASSUME chip' = chip
    PROVE  /\ Plan' = Plan /\ Pieces' = Pieces
           /\ Session' = Session /\ Standard' = Standard /\ Powered' = Powered
           /\ HoldsOff' = HoldsOff /\ FrameBlast' = FrameBlast /\ Restored' = Restored
           /\ ResetFirst' = ResetFirst
<1>1. DdrStep' = DdrStep /\ SplStep' = SplStep /\ UbootStep' = UbootStep
  BY Zenon DEF DdrStep, SplStep, UbootStep
<1>2. Plan' = Plan
  BY <1>1, Zenon DEF Plan
<1>3. Pieces' = Pieces
  BY Zenon DEF Pieces, Needed
<1> QED
  BY <1>2, <1>3, Zenon DEF Session, Standard, Powered, HoldsOff, FrameBlast, Restored, ResetFirst

\* PlanInv for the plan as it is handed to send_firmware.
LEMMA WholePlan ==
    ASSUME TypeOK, chip' = chip, todo' = Plan
    PROVE  PlanInv'
<1>1. /\ WellFormed(Plan) /\ (~Standard => Strict(Plan))
      /\ ~Session => Plan[Len(Plan)].kind = "connect"
  BY PlanFacts, Zenon DEF TypeOK
<1>2. Plan' = Plan /\ Session' = Session /\ Standard' = Standard
  BY Frozen, Zenon
<1>3. Len(Plan) \in Nat
  BY <1>1 DEF WellFormed
<1> QED
  BY <1>1, <1>2, <1>3 DEF PlanInv, WellFormed, Strict

\* PlanInv for the rest of the plan.
LEMMA RestOfPlan ==
    ASSUME TypeOK, PlanInv, phase = "send", chip' = chip, todo' = Tail(todo),
           phase' = "send" => Len(todo) # 1
    PROVE  PlanInv'
<1> SUFFICES ASSUME phase' = "send" PROVE PlanInv'
  BY Zenon DEF PlanInv
<1>1. Plan' = Plan /\ Session' = Session /\ Standard' = Standard
  BY Frozen, Zenon
<1>2. /\ Len(todo) \in Nat /\ Len(todo) > 1
      /\ todo' \in Seq(Operations) /\ Len(todo') = Len(todo) - 1
      /\ \A k \in 1..(Len(todo) - 1) : todo'[k] = todo[k + 1]
  <2>1. Len(todo) \in Nat /\ Len(todo) >= 1 /\ Len(todo) # 1
    BY Current, Zenon
  <2>2. Len(todo) > 1
    BY <2>1
  <2> QED
    BY <2>1, <2>2, Current, Zenon
<1>3. todo' # <<>> /\ todo'[Len(todo')] = todo[Len(todo)]
  <2>1. Len(todo) - 1 \in 1..(Len(todo) - 1) /\ (Len(todo) - 1) + 1 = Len(todo)
    BY <1>2
  <2>2. Len(todo') # 0
    BY <1>2
  <2> QED
    BY <1>2, <2>1, <2>2, Zenon
<1>4. Len(Plan) \in Nat
  BY PlanFacts DEF TypeOK, WellFormed
<1>5. Len(todo') < Len(Plan)
  BY <1>2, <1>4 DEF PlanInv
<1>6. ~Standard => \A k \in 1..Len(todo') :
         /\ todo'[k].kind = "frame" => todo'[k].must
         /\ todo'[k].kind \notin {"blast", "rehandshake", "ddrdone"}
  BY <1>2 DEF PlanInv
<1>7. todo[Len(todo)].kind \in {"frame", "connect"} /\ (~Session => todo[Len(todo)].kind = "connect")
  BY Zenon DEF PlanInv
<1> QED
  BY <1>1, <1>3, <1>4, <1>5, <1>6, <1>7 DEF PlanInv

LEMMA OpDonePlan ==
    ASSUME TypeOK, PlanInv, phase = "send", chip' = chip, OpDone
    PROVE  PlanInv'
BY RestOfPlan, Zenon DEF OpDone

\* Unless send_firmware goes on, there is nothing to say about the plan.
LEMMA PlanStep ==
    ASSUME TypeOK, PlanInv, QuietInv, [Next]_vars
    PROVE  PlanInv'
<1>0. chip' = chip
  BY TypeStep, Zenon
<1>1. CASE Start \/ HandshakeEnds
  <2>1. phase' # "send" \/ todo' = Plan
    <3>1. CASE Start
      BY <3>1, Zenon DEF Start
    <3>2. CASE HandshakeEnds
      BY <3>2, Zenon DEF HandshakeEnds, HandshakeFails, Again, Stop
    <3> QED
      BY <1>1, <3>1, <3>2, Zenon
  <2> QED
    BY <1>0, <2>1, WholePlan, Zenon DEF PlanInv
<1>2. CASE HearAnswer \/ FrameTimeout
  <2>1. phase = "send"
    BY <1>2, Zenon DEF HearAnswer, FrameTimeout, InFrame
  <2>2. OpDone \/ OpFails \/ UNCHANGED <<phase, todo>>
    BY <1>2, Zenon DEF HearAnswer, FrameTimeout, host
  <2>3. OpFails => Over \/ OpDone
    BY <2>1, FailedOp, Zenon
  <2>4. OpDone => PlanInv'
    BY <1>0, <2>1, OpDonePlan, Zenon
  <2>5. Over => PlanInv'
    BY Zenon DEF Over, PlanInv
  <2>6. UNCHANGED <<phase, todo>> => PlanInv'
    BY <1>0, Frozen, Zenon DEF PlanInv
  <2> QED
    BY <2>2, <2>3, <2>4, <2>5, <2>6, Zenon
<1>3. CASE Rehandshake \/ GetBoardId
  BY <1>0, <1>3, OpDonePlan, Zenon DEF Rehandshake, GetBoardId, Doing
<1>4. CASE DdrDone
  <2>1. phase = "send" /\ op.kind = "ddrdone" /\ todo' = Tail(todo)
    BY <1>4, Zenon DEF DdrDone, Doing
  <2>2. Len(todo) # 1
    BY <2>1, Current, Zenon DEF PlanInv
  <2> QED
    BY <1>0, <2>1, <2>2, RestOfPlan, Zenon
<1>5. CASE Train \/ Connect
  <2>1. phase = "send" /\ (OpDone \/ Over)
    BY <1>5, FailureIsOver, Zenon DEF Train, Connect, Doing
  <2>2. Over => PlanInv'
    BY Zenon DEF Over, PlanInv
  <2> QED
    BY <1>0, <2>1, <2>2, OpDonePlan, Zenon
<1>6. CASE PowerOff \/ PowerOn \/ PowerCycle \/ PowerRefused \/ PowerFails \/ HandshakeTimeout
  <2>1. phase' # "send"
    BY <1>6, Zenon DEF PowerOff, PowerOn, PowerCycle, PowerRefused, PowerFails, PowerError, Goto,
                HandshakeTimeout, HandshakeFails, Again, Stop
  <2> QED
    BY <2>1, Zenon DEF PlanInv
<1>7. CASE SendFrame \/ Handshake \/ ManualReset \/ DeviceStep \/ Trouble \/ UNCHANGED vars
  <2>1. UNCHANGED <<phase, todo>>
    BY <1>7, Zenon DEF SendFrame, Handshake, ManualReset, DeviceStep, Trouble, host, vars
  <2> QED
    BY <1>0, <2>1, Frozen, Zenon DEF PlanInv
<1> QED
  BY <1>1, <1>2, <1>3, <1>4, <1>5, <1>6, <1>7, Zenon DEF Next, HostStep

\* The steps of send_firmware leave the power controller and the count of
\* attempts alone, and end in one of these ways.
Sending == SendFrame \/ HearAnswer \/ FrameTimeout \/ Rehandshake \/ DdrDone
           \/ GetBoardId \/ Train \/ Connect

LEMMA SendingHost ==
    ASSUME TypeOK, PlanInv, QuietInv, Sending
    PROVE  /\ phase = "send" /\ UNCHANGED <<attempt, shook, fresh, power>>
           /\ Over \/ (phase' \in {"send", "done"} /\ (phase' # "send" => sent' = "no"))
<1>1. phase = "send" /\ UNCHANGED power
  BY Zenon DEF Sending, SendFrame, HearAnswer, FrameTimeout, Rehandshake, DdrDone, GetBoardId,
         Train, Connect, InFrame, Doing
<1>2. \/ OpDone \/ OpFails \/ Over
      \/ UNCHANGED <<phase, attempt, shook, fresh>>
  <2>1. CASE Train \/ Connect
    BY <1>1, <2>1, FailureIsOver, Zenon DEF Train, Connect
  <2>2. CASE ~(Train \/ Connect)
    BY <2>2, Zenon DEF Sending, SendFrame, HearAnswer, FrameTimeout, Rehandshake, DdrDone, GetBoardId,
                host
  <2> QED
    BY <2>1, <2>2, Zenon
<1>3. OpFails => OpDone \/ Over
  BY <1>1, FailedOp, Zenon
<1>4. OpDone => /\ UNCHANGED <<attempt, shook, fresh>>
                /\ phase' \in {"send", "done"} /\ sent' = "no"
  BY <1>1, OpDoneType, Zenon
<1>5. Over => UNCHANGED <<attempt, shook, fresh>>
  BY Zenon DEF Over
<1> QED
  BY <1>1, <1>2, <1>3, <1>4, <1>5, Zenon

\* An attempt whose handshake failed or timed out, and the one that did not.
LEMMA ShakenHost ==
    ASSUME TypeOK, QuietInv, HandshakeEnds \/ HandshakeTimeout
    PROVE  /\ phase = "handshake" /\ UNCHANGED <<rom, power>>
           /\ UNCHANGED <<attempt, shook, fresh>>
           /\ Over \/ (phase' = "send" /\ shook = "yes" /\ todo' = Plan /\ sent' = sent)
<1>1. phase = "handshake" /\ UNCHANGED <<rom, power>>
  BY Zenon DEF HandshakeEnds, HandshakeTimeout
<1>2. Over \/ /\ phase' = "send" /\ shook = "yes" /\ todo' = Plan /\ sent' = sent
              /\ UNCHANGED <<attempt, shook, fresh>>
  BY <1>1, FailureIsOver, Zenon DEF HandshakeEnds, HandshakeTimeout
<1> QED
  BY <1>1, <1>2, Zenon DEF Over

LEMMA QuietStep ==
    ASSUME TypeOK, PlanInv, QuietInv, [Next]_vars
    PROVE  QuietInv'
<1>0. chip' = chip /\ Powered' = Powered /\ attempt \in Nat
  BY TypeStep, Frozen, Zenon DEF TypeOK
<1>1. CASE Start
  BY <1>0, <1>1 DEF Start, Deferred, QuietInv
<1>2. CASE PowerOff \/ PowerOn \/ PowerCycle
  BY <1>0, <1>2, Zenon DEF PowerOff, PowerOn, PowerCycle, Goto, Reset, QuietInv
<1>3. CASE PowerRefused \/ PowerFails
  BY <1>0, <1>3, Zenon DEF PowerRefused, PowerFails, PowerError, Stop, QuietInv
<1>4. CASE HandshakeEnds \/ HandshakeTimeout
  BY <1>0, <1>4, ShakenHost, Zenon DEF Over, QuietInv
<1>5. CASE Sending
  BY <1>0, <1>5, SendingHost, Zenon DEF Over, QuietInv
<1>6. CASE Handshake
  BY <1>0, <1>6, Zenon DEF Handshake, QuietInv
<1>7. CASE ManualReset
  BY <1>0, <1>7, Zenon DEF ManualReset, Reset, host, QuietInv
<1>8. CASE DeviceStep \/ Trouble
  <2>1. UNCHANGED host /\ (wire = <<>> => wire' = <<>>)
        /\ (wire = <<>> /\ heard = <<>> => heard' = <<>>)
    BY <1>8, Zenon DEF DeviceStep, Serve, Trouble, MissWindow, Damage, LoseAnswer
  <2> QED
    BY <1>0, <2>1, Zenon DEF host, QuietInv
<1>9. CASE UNCHANGED vars
  BY <1>0, <1>9, Zenon DEF vars, host, rom, QuietInv
<1> QED
  BY <1>1, <1>2, <1>3, <1>4, <1>5, <1>6, <1>7, <1>8, <1>9, Zenon DEF Next, HostStep, Sending

-----------------------------------------------------------------------------
(* The handshake is the reset board's, and the port is restored. *)

LEMMA FreshStep ==
    ASSUME TypeOK, PlanInv, QuietInv, FreshInv, [Next]_vars
    PROVE  FreshInv'
<1> SUFFICES ASSUME ResetFirst PROVE FreshInv'
  BY TypeStep, Frozen, Zenon DEF FreshInv
<1>0. Powered
  BY Zenon DEF ResetFirst
<1>1. CASE Start
  BY <1>0, <1>1, Zenon DEF Start, Deferred, FreshInv
<1>2. CASE PowerOff \/ PowerOn \/ PowerCycle
  BY <1>2, Zenon DEF PowerOff, PowerOn, PowerCycle, Goto, Reset, FreshInv
<1>3. CASE PowerRefused \/ PowerFails
  BY <1>3, Zenon DEF PowerRefused, PowerFails, PowerError, Stop, FreshInv
<1>4. CASE HandshakeEnds \/ HandshakeTimeout
  BY <1>4, ShakenHost, Zenon DEF Over, FreshInv
<1>5. CASE Sending
  BY <1>5, SendingHost, Zenon DEF Over, FreshInv
<1>6. CASE Handshake
  <2>1. dev # "off"
    BY <1>6, Zenon DEF Handshake, HandshakeStandard, HandshakeV500, HandshakeCv6xx,
                HandshakeNovatek, Listens
  <2>2. phase = "handshake"
    <3>1. phase # "on"
      BY <2>1, Zenon DEF FreshInv
    <3>2. phase \in {"off", "cycle"} => ~(BlastsFirst /\ ~HoldsOff)
      BY Zenon DEF ResetFirst, BlastsFirst, Standard
    <3> QED
      BY <1>6, <3>1, <3>2, Zenon DEF Handshake, Shaking
  <2>3. shook' # "no" /\ fresh' = "yes" /\ phase' = phase
    BY <1>6, Zenon DEF Handshake, HandshakeStandard, HandshakeV500, HandshakeCv6xx, HandshakeNovatek
  <2> QED
    BY <2>2, <2>3, Zenon DEF FreshInv
<1>7. CASE ManualReset
  BY <1>0, <1>7, Zenon DEF ManualReset
<1>8. CASE DeviceStep \/ Trouble
  <2>1. UNCHANGED host /\ (dev = "off" => dev' = "off")
    BY <1>8, Zenon DEF DeviceStep, Serve, Trouble, MissWindow, Damage, LoseAnswer
  <2> QED
    BY <2>1, Zenon DEF host, FreshInv
<1>9. CASE UNCHANGED vars
  BY <1>9, Zenon DEF vars, host, rom, FreshInv
<1> QED
  BY <1>1, <1>2, <1>3, <1>4, <1>5, <1>6, <1>7, <1>8, <1>9, Zenon DEF Next, HostStep, Sending

LEMMA PortStep ==
    ASSUME TypeOK, PlanInv, QuietInv, PortInv, [Next]_vars
    PROVE  PortInv'
<1>0. /\ chip' = chip /\ HoldsOff' = HoldsOff /\ Restored' = Restored
      /\ chip.poe \in {"auto-on", "forced-on", "off"}
      /\ chip.power = "poe" => Powered
  BY TypeStep, Frozen, Zenon DEF TypeOK, Chip, Powered
<1> SUFFICES ASSUME HoldsOff, chip.power = "poe", broke' = "no" PROVE PortInv'
  BY <1>0, Zenon DEF PortInv
<1>1. CASE Start
  BY <1>0, <1>1, Zenon DEF Start, Deferred, power, PortInv
<1>2. CASE PowerOff
  BY <1>0, <1>2, Zenon DEF PowerOff, PoeOff, PlugOff, Goto, PortInv
<1>3. CASE PowerOn
  BY <1>0, <1>3, Zenon DEF PowerOn, PoeOn, PlugOn, Goto, RestoreMode, Restored, PortInv
<1>4. CASE PowerCycle
  BY <1>4, Zenon DEF PowerCycle, power, PortInv
<1>5. CASE PowerRefused \/ PowerFails
  BY <1>5, Zenon DEF PowerRefused, PowerFails, PowerError
<1>6. CASE HandshakeEnds \/ HandshakeTimeout
  BY <1>0, <1>6, ShakenHost, Zenon DEF Over, power, PortInv
<1>7. CASE Sending
  BY <1>0, <1>7, SendingHost, Zenon DEF Over, power, PortInv
<1>8. CASE Handshake \/ ManualReset \/ DeviceStep \/ Trouble \/ UNCHANGED vars
  <2>1. UNCHANGED <<phase, mode, saved, broke>>
    BY <1>8, Zenon DEF Handshake, ManualReset, DeviceStep, Trouble, vars, host, power
  <2> QED
    BY <1>0, <2>1, Zenon DEF PortInv
<1> QED
  BY <1>1, <1>2, <1>3, <1>4, <1>5, <1>6, <1>7, <1>8, Zenon DEF Next, HostStep, Sending

-----------------------------------------------------------------------------
(* What the board has stored. *)

\* Only the board and a reset change what is stored.
LEMMA StoreKept ==
    ASSUME [Next]_vars, ~DeviceStep
    PROVE  \/ UNCHANGED <<area, expect, loaded>>
           \/ /\ PowerOff \/ PowerOn \/ PowerCycle \/ ManualReset
              /\ area' = "none" /\ loaded' = Blank /\ wire' = <<>> /\ heard' = <<>>
<1>1. CASE PowerOff \/ PowerOn \/ PowerCycle \/ ManualReset
  BY <1>1, Zenon DEF PowerOff, PowerOn, PowerCycle, ManualReset, Reset
<1>2. CASE Start \/ PowerRefused \/ PowerFails \/ HandshakeEnds \/ HandshakeTimeout
  BY <1>2, Zenon DEF Start, PowerRefused, PowerFails, PowerError, HandshakeEnds, HandshakeTimeout, rom
<1>3. CASE Sending
  BY <1>3, Zenon DEF Sending, SendFrame, HearAnswer, FrameTimeout, Rehandshake, DdrDone, GetBoardId,
              Train, Connect, rom
<1>4. CASE Handshake \/ Trouble \/ UNCHANGED vars
  BY <1>4, Zenon DEF Handshake, Trouble, MissWindow, Damage, LoseAnswer, vars, rom
<1> QED
  BY <1>1, <1>2, <1>3, <1>4, Zenon DEF Next, HostStep, Sending

\* The board takes a frame.  It stores at most that frame, and an ACK of a
\* DATA frame says that it is stored.
LEMMA ServeStores ==
    ASSUME TypeOK, DeviceInv, Serve
    PROVE  LET f == wire[1] IN
           /\ DeviceInv'
           /\ \/ loaded' = loaded
              \/ /\ f.i \in 1..Frames(f.a) /\ loaded[f.a] < f.i /\ f.i <= loaded[f.a] + 1
                 /\ loaded' = [loaded EXCEPT ![f.a] = f.i]
           /\ \/ heard' = heard
              \/ heard' = Append(heard, [kind |-> "NAK", a |-> f.a, i |-> f.i])
              \/ /\ heard' = Append(heard, [kind |-> "ACK", a |-> f.a, i |-> f.i])
                 /\ f.i \in 1..Frames(f.a) => f.i <= loaded'[f.a]
<1> DEFINE f == wire[1]
           n == Frames(f.a)
<1>1. /\ wire # <<>> /\ Head(wire) = f /\ f \in FramesOnWire
      /\ f.a \in AllAreas /\ f.i \in Nat /\ n \in Nat
  <2>1. wire # <<>> /\ wire \in Seq(FramesOnWire)
    BY Zenon DEF Serve, TypeOK
  <2>2. Head(wire) = f /\ f \in FramesOnWire
    BY <2>1
  <2> QED
    BY <2>1, <2>2, FrameAssumption, Zenon DEF FramesOnWire, Frames
<1>2. "none" \notin AllAreas
  BY DEF AllAreas, Areas
<1>3. /\ area \in AllAreas \cup {"none"} /\ expect \in Nat /\ loaded \in [AllAreas -> Nat]
      /\ area # "none" => expect <= loaded[area] + 1
  BY Zenon DEF TypeOK, DeviceInv
<1> DEFINE Ack == heard' = Append(heard, [kind |-> "ACK", a |-> f.a, i |-> f.i])
           Nak == heard' = Append(heard, [kind |-> "NAK", a |-> f.a, i |-> f.i])
<1>4. \/ UNCHANGED <<area, expect, loaded>> /\ (heard' = heard \/ Nak)
      \/ f.i = 0 /\ area' = f.a /\ expect' = 1 /\ loaded' = loaded /\ Ack
      \/ /\ f.i \in 1..n /\ f.a = area /\ f.i = expect
         /\ loaded' = [loaded EXCEPT ![f.a] = IF @ > f.i THEN @ ELSE f.i]
         /\ expect' = f.i + 1 /\ area' = area /\ Ack
      \/ f.i \in 1..n /\ f.a = area /\ f.i = expect - 1 /\ UNCHANGED <<area, expect, loaded>> /\ Ack
      \/ f.i > n /\ UNCHANGED <<area, expect, loaded>> /\ (heard' = heard \/ Ack)
  BY <1>1, Zenon DEF Serve, Answer
<1> HIDE DEF f, n, Ack, Nak
<1>5. CASE UNCHANGED <<area, expect, loaded>> /\ (heard' = heard \/ Nak)
  BY <1>5, Zenon DEF DeviceInv, f, n, Nak
<1>6. CASE f.i = 0 /\ area' = f.a /\ expect' = 1 /\ loaded' = loaded /\ Ack
  <2>1. DeviceInv'
    BY <1>1, <1>3, <1>6 DEF DeviceInv
  <2>2. f.i \notin 1..n
    BY <1>1, <1>6
  <2> QED
    BY <1>6, <2>1, <2>2, Zenon DEF f, n, Ack
<1>7. CASE /\ f.i \in 1..n /\ f.a = area /\ f.i = expect
           /\ loaded' = [loaded EXCEPT ![f.a] = IF @ > f.i THEN @ ELSE f.i]
           /\ expect' = f.i + 1 /\ area' = area /\ Ack
  <2>1. loaded'[f.a] = (IF loaded[f.a] > f.i THEN loaded[f.a] ELSE f.i) /\ loaded[f.a] \in Nat
    BY <1>1, <1>3, <1>7, Zenon
  <2>2. f.i <= loaded'[f.a] /\ f.i <= loaded[f.a] + 1
    BY <1>1, <1>2, <1>3, <1>7, <2>1
  <2>3. DeviceInv'
    BY <1>1, <1>7, <2>1, <2>2 DEF DeviceInv
  <2>4. loaded' = loaded \/ (loaded[f.a] < f.i /\ loaded' = [loaded EXCEPT ![f.a] = f.i])
    <3>1. CASE loaded[f.a] >= f.i
      BY <1>1, <1>3, <1>7, <2>1, <3>1
    <3>2. CASE loaded[f.a] < f.i
      BY <1>1, <1>3, <1>7, <2>1, <3>2, Zenon
    <3> QED
      BY <1>1, <2>1, <3>1, <3>2
  <2> QED
    BY <1>7, <2>2, <2>3, <2>4, Zenon DEF f, n, Ack
<1>8. CASE /\ f.i \in 1..n /\ f.a = area /\ f.i = expect - 1
           /\ UNCHANGED <<area, expect, loaded>> /\ Ack
  <2>1. f.i <= loaded[f.a] /\ DeviceInv'
    BY <1>1, <1>2, <1>3, <1>8 DEF DeviceInv
  <2> QED
    BY <1>8, <2>1, Zenon DEF f, n, Ack
<1>9. CASE f.i > n /\ UNCHANGED <<area, expect, loaded>> /\ (heard' = heard \/ Ack)
  <2>1. f.i \notin 1..n
    BY <1>1, <1>9
  <2> QED
    BY <1>9, <2>1, Zenon DEF DeviceInv, f, n, Ack
<1> QED
  BY <1>4, <1>5, <1>6, <1>7, <1>8, <1>9, Zenon

LEMMA DeviceInvStep ==
    ASSUME TypeOK, DeviceInv, [Next]_vars
    PROVE  DeviceInv'
<1>1. CASE DeviceStep
  BY <1>1, ServeStores, Zenon DEF DeviceStep
<1>2. CASE ~DeviceStep
  BY <1>2, StoreKept, Zenon DEF DeviceInv
<1> QED
  BY <1>1, <1>2, Zenon

\* What is stored never shrinks but by a reset.
LEMMA LoadedGrows ==
    ASSUME TypeOK, DeviceInv, Serve
    PROVE  \A a \in AllAreas : loaded[a] <= loaded'[a]
<1> DEFINE f == wire[1]
<1>1. loaded \in [AllAreas -> Nat]
  BY Zenon DEF TypeOK
<1>2. \/ loaded' = loaded
      \/ f.i \in 1..Frames(f.a) /\ loaded[f.a] < f.i /\ loaded' = [loaded EXCEPT ![f.a] = f.i]
  BY ServeStores, Zenon
<1> HIDE DEF f
<1> QED
  BY <1>1, <1>2

-----------------------------------------------------------------------------
(* Every answer is the current frame's, and every piece is accounted for. *)

\* A late answer is never forgotten.
LEMMA LateStays ==
    ASSUME [Next]_vars
    PROVE  late' \in {late, "yes"}
<1>1. CASE Start \/ PowerOff \/ PowerOn \/ PowerCycle \/ PowerRefused \/ PowerFails
  BY <1>1, Zenon DEF Start, PowerOff, PowerOn, PowerCycle, PowerRefused, PowerFails, PowerError
<1>2. CASE HandshakeEnds \/ HandshakeTimeout \/ Handshake \/ ManualReset
  BY <1>2, Zenon DEF HandshakeEnds, HandshakeTimeout, Handshake, ManualReset, rom
<1>3. CASE Sending
  BY <1>3, Zenon DEF Sending, SendFrame, HearAnswer, FrameTimeout, Rehandshake, DdrDone, GetBoardId,
              Train, Connect, rom
<1>4. CASE DeviceStep \/ Trouble \/ UNCHANGED vars
  BY <1>4, Zenon DEF DeviceStep, Serve, Trouble, MissWindow, Damage, LoseAnswer, vars, rom
<1> QED
  BY <1>1, <1>2, <1>3, <1>4, Zenon DEF Next, HostStep, Sending

LEMMA ExactBefore ==
    ASSUME TypeOK, PlanInv, QuietInv, [Next]_vars, Exact'
    PROVE  Exact /\ Standard' = Standard
<1>1. Standard' = Standard
  BY TypeStep, Frozen, Zenon
<1> QED
  BY <1>1, LateStays, Zenon DEF Exact

\* What LineInv says while the host waits for an answer.
LEMMA Waiting ==
    ASSUME TypeOK, LineInv, phase = "send", Exact, sent = "yes"
    PROVE  /\ op.kind \in {"frame", "blast"}
           /\ wire # <<>> => /\ heard = <<>> /\ Len(wire) = 1
                             /\ op.kind = "frame" => wire[1].a = op.a /\ wire[1].i = op.i
           /\ heard # <<>> => /\ wire = <<>> /\ Len(heard) = 1
                              /\ heard[1].kind = "ACK" => Stored
BY Zenon DEF LineInv

\* With an empty line LineInv says only which operation waits.
LEMMA EmptyLine ==
    ASSUME wire' = <<>>, heard' = <<>>,
           phase' = "send" /\ Exact' /\ sent' = "yes" => op'.kind \in {"frame", "blast"}
    PROVE  LineInv'
BY Zenon DEF LineInv

\* The board serves the frame that the host waits for.
LEMMA LineServe ==
    ASSUME TypeOK, PlanInv, QuietInv, DeviceInv, LineInv, DeviceStep
    PROVE  LineInv'
<1> SUFFICES ASSUME phase' = "send", Exact' PROVE LineInv'
  BY Zenon DEF LineInv
<1>0. Exact
  BY ExactBefore, Zenon DEF Next
<1>1. Serve /\ UNCHANGED <<phase, todo, sent>> /\ op' = op
  BY Zenon DEF DeviceStep, host, op
<1>2. wire # <<>> /\ wire' = Tail(wire) /\ phase = "send"
  BY <1>1, Zenon DEF Serve
<1>3. sent = "yes"
  BY <1>0, <1>2, Zenon DEF LineInv, TypeOK
<1>4. /\ heard = <<>> /\ Len(wire) = 1 /\ op.kind \in {"frame", "blast"}
      /\ op.kind = "frame" => wire[1].a = op.a /\ wire[1].i = op.i
  BY <1>0, <1>2, <1>3, Waiting, Zenon
<1>5. wire' = <<>>
  BY <1>2, <1>4 DEF TypeOK
<1> DEFINE f == wire[1]
<1>6. \/ heard' = <<>>
      \/ heard' = <<[kind |-> "NAK", a |-> f.a, i |-> f.i]>>
      \/ /\ heard' = <<[kind |-> "ACK", a |-> f.a, i |-> f.i]>>
         /\ f.i \in 1..Frames(f.a) => f.i <= loaded'[f.a]
  BY <1>1, <1>4, ServeStores
<1> HIDE DEF f
<1>7. heard' # <<>> => Len(heard') = 1 /\ (heard'[1].kind = "ACK" => Stored')
  <2>1. CASE heard' = <<[kind |-> "NAK", a |-> f.a, i |-> f.i]>>
    BY <2>1, Zenon
  <2>2. CASE /\ heard' = <<[kind |-> "ACK", a |-> f.a, i |-> f.i]>>
             /\ f.i \in 1..Frames(f.a) => f.i <= loaded'[f.a]
    BY <1>1, <1>4, <2>2, Zenon DEF Stored, f
  <2> QED
    BY <1>6, <2>1, <2>2, Zenon
<1> QED
  BY <1>1, <1>3, <1>4, <1>5, <1>7, Zenon DEF LineInv

\* An answer: the operation is done, repeated or has failed.
LEMMA LineHear ==
    ASSUME TypeOK, PlanInv, QuietInv, LineInv, HearAnswer
    PROVE  LineInv'
<1> SUFFICES ASSUME phase' = "send", Exact' PROVE LineInv'
  BY Zenon DEF LineInv
<1>0. Exact
  BY ExactBefore, Zenon DEF Next, HostStep
<1>1. phase = "send" /\ sent = "yes" /\ heard # <<>> /\ op.kind \in {"frame", "blast"}
  BY Zenon DEF HearAnswer, InFrame
<1>2. wire = <<>> /\ Len(heard) = 1 /\ Tail(heard) = <<>>
  <2>1. wire = <<>> /\ Len(heard) = 1
    BY <1>0, <1>1, Waiting, Zenon
  <2>2. heard \in Seq(Answers)
    BY Zenon DEF TypeOK
  <2> QED
    BY <2>1, <2>2, TailOfOne, Zenon
<1>3. heard' = <<>>
  BY <1>2, Zenon DEF HearAnswer
<1>4. CASE wire' = wire
  <2>1. (OpDone \/ UNCHANGED <<todo, sent>>)
    <3>1. Append(wire, Frame) # wire
      BY <1>2
    <3> QED
      BY <1>4, <3>1, Zenon DEF HearAnswer, host
  <2>2. sent' = "yes" => op' = op
    BY <2>1, Zenon DEF OpDone, op
  <2> QED
    BY <1>1, <1>2, <1>3, <1>4, <2>2, EmptyLine, Zenon
<1>5. CASE wire' = Append(wire, Frame) /\ wire' # wire
  <2>1. ~Standard /\ (OpFails \/ UNCHANGED <<todo, sent>>)
    BY <1>5, Zenon DEF HearAnswer, host, Standard
  <2>2. op.kind = "frame" /\ op.must
    BY <1>1, <2>1, Current DEF PlanInv
  <2>3. UNCHANGED <<todo, sent>> /\ op' = op
    BY <1>1, <2>1, <2>2, FailedOp, Zenon DEF Over, op
  <2>4. wire' = <<Frame>>
    BY <1>2, <1>5
  <2>5. Len(wire') = 1 /\ wire'[1].a = op.a /\ wire'[1].i = op.i
    BY <2>2, <2>4, Zenon DEF Frame
  <2> QED
    BY <1>1, <1>3, <2>2, <2>3, <2>5, Zenon DEF LineInv
<1> QED
  BY <1>4, <1>5, Zenon DEF HearAnswer, host

LEMMA LineStep ==
    ASSUME TypeOK, PlanInv, QuietInv, DeviceInv, LineInv, [Next]_vars
    PROVE  LineInv'
<1> SUFFICES ASSUME phase' = "send", Exact' PROVE LineInv'
  BY Zenon DEF LineInv
<1>0. Exact
  BY ExactBefore, Zenon
<1>1. CASE Start
  <2>1. wire' = <<>> /\ heard' = <<>> /\ sent' = "no"
    BY <1>1, Zenon DEF Start, Deferred, QuietInv
  <2> QED
    BY <2>1, EmptyLine, Zenon
<1>2. CASE PowerOff \/ PowerOn \/ PowerCycle \/ PowerRefused \/ PowerFails
  BY <1>2, Zenon DEF PowerOff, PowerOn, PowerCycle, PowerRefused, PowerFails, PowerError, Goto, Stop
<1>3. CASE HandshakeEnds \/ HandshakeTimeout
  <2>1. phase = "handshake" /\ wire' = wire /\ heard' = heard /\ sent' = sent
    BY <1>3, ShakenHost, Zenon DEF Over, rom
  <2> QED
    BY <2>1, EmptyLine, Zenon DEF QuietInv
<1>4. CASE SendFrame
  <2>1. phase = "send" /\ sent = "no" /\ op' = op /\ op.kind \in {"frame", "blast"} /\ sent' = "yes"
    BY <1>4, Zenon DEF SendFrame, InFrame, op
  <2>2. wire = <<>> /\ heard = <<>>
    BY <1>0, <2>1, Zenon DEF LineInv
  <2>3. wire' = <<Frame>> /\ heard' = <<>>
    BY <1>4, <2>2 DEF SendFrame
  <2>4. Len(wire') = 1 /\ (op.kind = "frame" => wire'[1].a = op.a /\ wire'[1].i = op.i)
    BY <2>3, Zenon DEF Frame
  <2> QED
    BY <2>1, <2>3, <2>4, Zenon DEF LineInv
<1>5. CASE HearAnswer
  BY <1>5, LineHear, Zenon
<1>6. CASE FrameTimeout
  <2>1. phase = "send" /\ sent = "yes" /\ heard = <<>> /\ heard' = heard /\ wire' = wire
    BY <1>6, Zenon DEF FrameTimeout, InFrame
  <2>2. OpDone \/ sent' = "no"
    BY <1>6, <2>1, FailedOp, Zenon DEF FrameTimeout, Over
  <2>3. sent' = "no"
    BY <2>2, Zenon DEF OpDone
  <2>4. wire = <<>>
    <3>1. SUFFICES ASSUME wire # <<>> PROVE FALSE
      BY Zenon
    <3>2. ~Standard /\ OpFails
      BY <1>6, <3>1, ExactBefore DEF FrameTimeout, Exact
    <3>3. op.kind = "frame" /\ op.must
      BY <1>6, <2>1, <3>2, Current DEF PlanInv, FrameTimeout, InFrame
    <3> QED
      BY <2>1, <3>2, <3>3, FailedOp, Zenon DEF Over
  <2> QED
    BY <2>1, <2>3, <2>4, EmptyLine, Zenon
<1>7. CASE Rehandshake \/ DdrDone \/ GetBoardId \/ Train \/ Connect
  <2>1. phase = "send" /\ op.kind \notin {"frame", "blast"}
    BY <1>7, Zenon DEF Rehandshake, DdrDone, GetBoardId, Train, Connect, Doing
  <2>2. sent = "no" /\ wire = <<>> /\ heard = <<>>
    BY <1>0, <2>1, Zenon DEF LineInv, TypeOK
  <2>3. wire' = <<>> /\ heard' = <<>>
    BY <1>7, <2>2, Zenon DEF Rehandshake, DdrDone, GetBoardId, Train, Connect, rom
  <2>4. OpDone \/ Over \/ sent' = sent
    BY <1>7, <2>1, FailureIsOver, Zenon DEF Rehandshake, DdrDone, GetBoardId, Train, Connect
  <2>5. sent' = "no"
    BY <2>2, <2>4, Zenon DEF OpDone, Over
  <2> QED
    BY <2>3, <2>5, EmptyLine, Zenon
<1>8. CASE Handshake
  BY <1>8, Zenon DEF Handshake, Shaking
<1>9. CASE ManualReset
  <2>1. wire' = <<>> /\ heard' = <<>> /\ UNCHANGED <<phase, todo, sent>> /\ op' = op
    BY <1>9, Zenon DEF ManualReset, Reset, host, op
  <2> QED
    BY <1>0, <2>1, EmptyLine, Zenon DEF LineInv
<1>10. CASE DeviceStep
  BY <1>10, LineServe, Zenon
<1>11. CASE Trouble
  <2>1. UNCHANGED <<phase, todo, sent, loaded>> /\ op' = op /\ Stored' = Stored
    BY <1>11, Zenon DEF Trouble, MissWindow, Damage, LoseAnswer, host, op, Stored
  <2>2. CASE MissWindow
    BY <1>0, <2>1, <2>2, Zenon DEF MissWindow, LineInv
  <2>3. CASE Damage
    <3>1. wire # <<>> /\ heard' = heard /\ sent = "yes"
      BY <1>0, <2>1, <2>3, Zenon DEF Damage, LineInv, TypeOK
    <3>2. /\ heard = <<>> /\ Len(wire) = 1 /\ op.kind \in {"frame", "blast"}
          /\ op.kind = "frame" => wire[1].a = op.a /\ wire[1].i = op.i
      BY <1>0, <2>1, <3>1, Waiting, Zenon
    <3>3. wire[1] \in FramesOnWire /\ 1 \in DOMAIN wire
      <4>1. wire \in Seq(FramesOnWire)
        BY Zenon DEF TypeOK
      <4> QED
        BY <3>2, <4>1, SMTT(30)
    <3>4. wire'[1] = [wire[1] EXCEPT !.ok = FALSE] /\ Len(wire') = 1
      BY <2>3, <3>2, <3>3 DEF Damage, TypeOK
    <3>5. wire'[1].a = wire[1].a /\ wire'[1].i = wire[1].i
      BY <3>3, <3>4, Zenon DEF FramesOnWire
    <3> QED
      BY <2>1, <3>1, <3>2, <3>4, <3>5, Zenon DEF LineInv
  <2>4. CASE LoseAnswer
    <3>1. heard # <<>> /\ wire' = wire /\ heard' = Tail(heard) /\ sent = "yes"
      BY <1>0, <2>1, <2>4, Zenon DEF LoseAnswer, LineInv, TypeOK
    <3>2. wire = <<>> /\ Len(heard) = 1 /\ op.kind \in {"frame", "blast"}
      BY <1>0, <2>1, <3>1, Waiting, Zenon
    <3>3. heard' = <<>>
      BY <3>1, <3>2 DEF TypeOK
    <3> QED
      BY <2>1, <3>1, <3>2, <3>3, EmptyLine, Zenon
  <2> QED
    BY <1>11, <2>2, <2>3, <2>4, Zenon DEF Trouble
<1>12. CASE UNCHANGED vars
  BY <1>0, <1>12, Zenon DEF vars, host, rom, LineInv, op, Stored
<1> QED
  BY <1>1, <1>2, <1>3, <1>4, <1>5, <1>6, <1>7, <1>8, <1>9, <1>10, <1>11, <1>12, Zenon DEF Next, HostStep

\* Facts about the pieces.
LEMMA PieceFacts ==
    ASSUME NEW p \in Pieces
    PROVE  /\ p[1] \in AllAreas /\ p[2] \in 1..Frames(p[1]) /\ p = <<p[1], p[2]>>
           /\ p \in Have <=> p[2] <= loaded[p[1]]
<1>1. PICK a \in AllAreas : Needed(a) /\ p \in {<<a, i>> : i \in 1..Frames(a)}
  BY Zenon DEF Pieces
<1>2. PICK i \in 1..Frames(a) : p = <<a, i>>
  BY <1>1, Zenon
<1> QED
  BY <1>2, Zenon DEF Have

\* Every piece of the whole plan is still to be sent.
LEMMA WholeCover ==
    ASSUME TypeOK, chip' = chip, todo' = Plan
    PROVE  CoverInv'
<1>1. \A p \in Pieces : Sends(Plan, p[1], p[2])
  BY PlanFacts, Zenon DEF TypeOK
<1>2. Pieces' = Pieces
  BY Frozen, Zenon
<1> QED
  BY <1>1, <1>2, Zenon DEF CoverInv, Sends

\* An operation can be dropped from the plan once it owes no piece.
LEMMA CoverRest ==
    ASSUME TypeOK, PlanInv, phase = "send", Exact, CoverInv,
           op.kind = "frame" /\ op.must => Stored
    PROVE  \A p \in Pieces : p \in Have \/ Sends(Tail(todo), p[1], p[2])
<1> SUFFICES ASSUME NEW p \in Pieces, p \notin Have PROVE Sends(Tail(todo), p[1], p[2])
  BY Zenon
<1>1. PICK k \in 1..Len(todo) :
         todo[k].kind = "frame" /\ todo[k].a = p[1] /\ todo[k].i = p[2] /\ todo[k].must
  BY Zenon DEF CoverInv, Sends
<1>2. k # 1
  <2>1. SUFFICES ASSUME k = 1 PROVE FALSE
    BY Zenon
  <2>2. Stored /\ op.kind = "frame" /\ op.a = p[1] /\ op.i = p[2]
    BY <1>1, <2>1, Current, Zenon
  <2> QED
    BY <2>2, PieceFacts, Zenon DEF Stored
<1>3. /\ Len(todo) \in Nat /\ Len(Tail(todo)) = Len(todo) - 1
      /\ \A j \in 1..(Len(todo) - 1) : Tail(todo)[j] = todo[j + 1]
  BY Current, Zenon
<1>4. k - 1 \in 1..(Len(todo) - 1) /\ (k - 1) + 1 = k
  BY <1>2, <1>3
<1>5. Tail(todo)[k - 1] = todo[k] /\ k - 1 \in 1..Len(Tail(todo))
  BY <1>3, <1>4, Zenon
<1> QED
  BY <1>1, <1>5, Zenon DEF Sends

\* An operation that is done under an exact line owes no piece.
LEMMA DoneOwesNothing ==
    ASSUME TypeOK, PlanInv, QuietInv, LineInv, Sending, Exact, Exact', phase' \in {"send", "done"},
           todo' # todo
    PROVE  todo' = Tail(todo) /\ (op.kind = "frame" /\ op.must => Stored)
<1>0. phase = "send" /\ ~Over
  BY SendingHost, Zenon DEF Over
<1>1. CASE SendFrame
  BY <1>1, Zenon DEF SendFrame
<1>2. CASE HearAnswer
  <2>1. sent = "yes" /\ heard # <<>>
    BY <1>2, Zenon DEF HearAnswer
  <2>2. Len(heard) = 1 /\ (heard[1].kind = "ACK" => Stored)
    BY <1>0, <2>1, Waiting, Zenon
  <2>3. Head(heard) = heard[1]
    BY <2>2 DEF TypeOK
  <2>4. Accepts(Head(heard)) => Stored
    BY <2>2, <2>3, Zenon DEF Accepts
  <2>5. \/ Accepts(Head(heard)) /\ OpDone
        \/ OpFails
    BY <1>2, Zenon DEF HearAnswer, host
  <2>6. OpFails => ~op.must /\ OpDone
    BY <1>0, FailedOp, Zenon
  <2> QED
    BY <2>4, <2>5, <2>6, Zenon DEF OpDone
<1>3. CASE FrameTimeout
  <2>1. OpFails
    BY <1>3, Zenon DEF FrameTimeout
  <2>2. ~op.must /\ OpDone
    BY <1>0, <2>1, FailedOp, Zenon
  <2> QED
    BY <2>2, Zenon DEF OpDone
<1>4. CASE Rehandshake \/ DdrDone \/ GetBoardId \/ Train \/ Connect
  <2>1. op.kind # "frame"
    BY <1>4, Zenon DEF Rehandshake, DdrDone, GetBoardId, Train, Connect, Doing
  <2>2. OpDone \/ todo' = Tail(todo)
    BY <1>0, <1>4, FailureIsOver, Zenon DEF Rehandshake, DdrDone, GetBoardId, Train, Connect
  <2> QED
    BY <2>1, <2>2, Zenon DEF OpDone
<1> QED
  BY <1>1, <1>2, <1>3, <1>4, Zenon DEF Sending

LEMMA CoverStep ==
    ASSUME TypeOK, PlanInv, QuietInv, DeviceInv, LineInv, CoverInv, [Next]_vars
    PROVE  CoverInv'
<1> SUFFICES ASSUME phase' = "send", Exact' PROVE CoverInv'
  BY Zenon DEF CoverInv
<1>0. Exact /\ chip' = chip /\ Pieces' = Pieces
  BY ExactBefore, TypeStep, Frozen, Zenon
<1>1. CASE Start \/ HandshakeEnds \/ HandshakeTimeout
  <2>1. todo' = Plan
    <3>1. CASE Start
      BY <3>1, Zenon DEF Start
    <3>2. CASE HandshakeEnds \/ HandshakeTimeout
      BY <3>2, ShakenHost, Zenon DEF Over
    <3> QED
      BY <1>1, <3>1, <3>2, Zenon
  <2> QED
    BY <1>0, <2>1, WholeCover, Zenon
<1>2. CASE PowerOff \/ PowerOn \/ PowerCycle \/ PowerRefused \/ PowerFails
  BY <1>2, Zenon DEF PowerOff, PowerOn, PowerCycle, PowerRefused, PowerFails, PowerError, Goto, Stop
<1>3. CASE Sending
  <2>1. phase = "send"
    BY <1>3, SendingHost, Zenon
  <2>2. Have' = Have
    <3>1. loaded' = loaded
      BY <1>3, Zenon DEF Sending, SendFrame, HearAnswer, FrameTimeout, Rehandshake, DdrDone,
                  GetBoardId, Train, Connect, rom
    <3> QED
      BY <1>0, <3>1, Zenon DEF Have
  <2>3. CASE todo' = todo
    BY <1>0, <2>1, <2>2, <2>3, Zenon DEF CoverInv, Sends
  <2>4. CASE todo' # todo
    <3>1. todo' = Tail(todo) /\ (op.kind = "frame" /\ op.must => Stored)
      BY <1>0, <1>3, <2>4, DoneOwesNothing, Zenon
    <3>2. \A p \in Pieces : p \in Have \/ Sends(Tail(todo), p[1], p[2])
      BY <1>0, <2>1, <3>1, CoverRest, Zenon
    <3> QED
      BY <1>0, <2>2, <3>1, <3>2, Zenon DEF CoverInv, Sends
  <2> QED
    BY <2>3, <2>4, Zenon
<1>4. CASE Handshake
  BY <1>4, Zenon DEF Handshake, Shaking
<1>5. CASE ManualReset
  <2>1. Len(todo) = Len(Plan) /\ UNCHANGED <<phase, todo>>
    BY <1>5, Zenon DEF ManualReset, host
  <2>2. todo' = Plan
    BY <2>1, Zenon DEF PlanInv
  <2> QED
    BY <1>0, <2>2, WholeCover, Zenon
<1>6. CASE DeviceStep
  <2>1. UNCHANGED <<phase, todo>> /\ Serve
    BY <1>6, Zenon DEF DeviceStep, host
  <2>2. loaded \in [AllAreas -> Nat] /\ loaded' \in [AllAreas -> Nat]
    BY TypeStep, Zenon DEF TypeOK
  <2>3. Have \subseteq Have'
    <3>1. SUFFICES ASSUME NEW p \in Pieces, p[2] <= loaded[p[1]] PROVE p[2] <= loaded'[p[1]]
      BY <1>0, Zenon DEF Have
    <3>2. loaded[p[1]] <= loaded'[p[1]] /\ p[1] \in AllAreas /\ p[2] \in Nat
      <4>1. p[1] \in AllAreas /\ p[2] \in 1..Frames(p[1])
        BY PieceFacts, Zenon
      <4> QED
        BY <2>1, <4>1, LoadedGrows
    <3> QED
      BY <2>2, <3>1, <3>2
  <2> QED
    BY <1>0, <2>1, <2>3, Zenon DEF CoverInv, Sends
<1>7. CASE Trouble \/ UNCHANGED vars
  <2>1. UNCHANGED <<phase, todo, loaded>>
    BY <1>7, Zenon DEF Trouble, MissWindow, Damage, LoseAnswer, host, vars, rom
  <2> QED
    BY <1>0, <2>1, Zenon DEF CoverInv, Sends, Have
<1> QED
  BY <1>1, <1>2, <1>3, <1>4, <1>5, <1>6, <1>7, Zenon DEF Next, HostStep, Sending

-----------------------------------------------------------------------------
(* The theorems. *)

LEMMA InitInv == Init => Inv
<1> SUFFICES ASSUME Init PROVE Inv
  BY Zenon
<1>1. chip \in Chip /\ chip.poe \in {"auto-on", "forced-on", "off"}
  BY ChipsAssumption, Zenon DEF Init, Chip
<1>2. TypeOK
  BY <1>1 DEF Init, RomInit, TypeOK, Blank
<1>3. PlanInv /\ QuietInv /\ DeviceInv /\ LineInv /\ CoverInv
  BY Zenon DEF Init, RomInit, PlanInv, QuietInv, DeviceInv, LineInv, CoverInv
<1>4. FreshInv /\ PortInv
  BY Zenon DEF Init, FreshInv, PortInv
<1> QED
  BY <1>2, <1>3, <1>4, Zenon DEF Inv

LEMMA NextInv == Inv /\ [Next]_vars => Inv'
<1> SUFFICES ASSUME Inv, [Next]_vars PROVE Inv'
  BY Zenon
<1>1. TypeOK /\ PlanInv /\ QuietInv /\ DeviceInv /\ LineInv /\ CoverInv /\ FreshInv /\ PortInv
  BY Zenon DEF Inv
<1>2. TypeOK' /\ PlanInv' /\ QuietInv'
  BY <1>1, TypeStep, PlanStep, QuietStep, Zenon
<1>3. DeviceInv' /\ LineInv' /\ CoverInv'
  BY <1>1, DeviceInvStep, LineStep, CoverStep, Zenon
<1>4. FreshInv' /\ PortInv'
  BY <1>1, FreshStep, PortStep, Zenon
<1> QED
  BY <1>2, <1>3, <1>4, Zenon DEF Inv

\* The inductive invariant of the session, the boot protocols, the board and
\* the power controller holds in every state of every recovery.
THEOREM RecoveryInvariance == Spec => []Inv
<1>1. Init => Inv
  BY InitInv, Zenon
<1>2. Inv /\ [Next]_vars => Inv'
  BY NextInv, Zenon
<1> QED
  BY <1>1, <1>2, PTL DEF Spec

\* RecoverySession and _power_cycle_into_handshake send firmware to a board
\* that they reset first only after that board's new ROM has answered.
THEOREM HandshakeIsFresh == Spec => []FreshHandshake
<1>1. Inv => FreshHandshake
  BY Zenon DEF Inv, FreshInv, ResetFirst, FreshHandshake
<1> QED
  BY <1>1, RecoveryInvariance, PTL

\* However often the agent upload switches a PoE port off and on, it leaves
\* the port in the mode it found, or on if that was off, unless a power
\* command failed.
THEOREM PortIsRestored == Spec => []PortRestored
<1>1. Inv => PortRestored
  BY Zenon DEF Inv, PortInv, Restored, PortRestored, Ended
<1> QED
  BY <1>1, RecoveryInvariance, PTL

\* What the upload reports.
Outcome == IF phase = "done" THEN "success" ELSE IF phase = "failed" THEN "failed" ELSE "running"

\* A successful end: all pieces are stored, or a session of the standard
\* protocol has met a late answer.
LEMMA SuccessIsWhole ==
    ASSUME Inv, [Next]_vars, phase # "done", phase' = "done"
    PROVE  Sending /\ (Pieces \ Have \subseteq IF late' = "no" THEN {} ELSE LoosePieces)
<1> USE DEF Inv
<1>1. Sending
  <2>1. CASE Start \/ PowerOff \/ PowerOn \/ PowerCycle \/ PowerRefused \/ PowerFails
    BY <2>1, Zenon DEF Start, PowerOff, PowerOn, PowerCycle, PowerRefused, PowerFails, PowerError,
                Goto, Stop
  <2>2. CASE HandshakeEnds \/ HandshakeTimeout
    BY <2>2, ShakenHost, Zenon DEF Over
  <2>3. CASE Handshake \/ ManualReset \/ DeviceStep \/ Trouble \/ UNCHANGED vars
    BY <2>3, Zenon DEF Handshake, ManualReset, DeviceStep, Trouble, host, vars
  <2> QED
    BY <2>1, <2>2, <2>3, Zenon DEF Next, HostStep, Sending
<1>2. phase = "send" /\ ~Over
  BY <1>1, SendingHost, Zenon DEF Over
<1>3. CASE Connect
  <2>1. Have = Pieces
    BY <1>2, <1>3, FailureIsOver, Zenon DEF Connect
  <2> QED
    BY <1>1, <2>1, Zenon
<1>4. CASE ~Connect
  <2>1. OpDone /\ Len(todo) = 1
    <3>1. OpDone \/ OpFails \/ Over \/ UNCHANGED phase
      <4>1. CASE Train
        BY <1>2, <4>1, FailureIsOver, Zenon DEF Train
      <4>2. CASE ~Train
        BY <1>1, <1>4, <4>2, Zenon DEF Sending, SendFrame, HearAnswer, FrameTimeout, Rehandshake,
                                DdrDone, GetBoardId, host
      <4> QED
        BY <4>1, <4>2, Zenon
    <3>2. OpFails => OpDone \/ Over
      BY <1>2, FailedOp, Zenon
    <3> QED
      BY <1>2, <3>1, <3>2, Zenon DEF OpDone
  <2>2. todo' = Tail(todo) /\ todo' # todo /\ Len(Tail(todo)) = 0
    BY <1>2, <2>1, Current DEF OpDone
  <2>3. op.kind # "connect"
    BY <1>1, <1>2, <1>4, Zenon
    DEF Sending, SendFrame, HearAnswer, FrameTimeout, Rehandshake, DdrDone, GetBoardId, Train,
        InFrame, Doing
  <2>4. Session
    BY <1>2, <2>1, <2>3, Current, Zenon DEF PlanInv
  <2>5. CASE Exact'
    <3>1. Exact
      BY <2>5, ExactBefore, Zenon
    <3>2. op.kind = "frame" /\ op.must => Stored
      BY <1>1, <2>2, <2>5, <3>1, DoneOwesNothing, Zenon
    <3>3. \A p \in Pieces : p \in Have \/ Sends(Tail(todo), p[1], p[2])
      BY <1>2, <3>1, <3>2, CoverRest, Zenon
    <3>4. \A p \in Pieces : ~Sends(Tail(todo), p[1], p[2])
      <4>1. 1..Len(Tail(todo)) = {}
        BY <2>2, SMTT(30)
      <4> QED
        BY <4>1, Zenon DEF Sends
    <3>5. \A p \in Pieces : p \in Have
      BY <3>3, <3>4, Zenon
    <3> QED
      BY <1>1, <3>5, Zenon
  <2>6. CASE ~Exact'
    <3>1. Standard /\ late' # "no"
      BY <2>6, TypeStep, Frozen, Zenon DEF Exact
    <3> QED
      BY <1>1, <2>4, <3>1, Zenon DEF LoosePieces
  <2> QED
    BY <2>5, <2>6, Zenon
<1> QED
  BY <1>3, <1>4, Zenon

\* The board stores at most one more piece.
LEMMA ServeReceives ==
    ASSUME Inv, DeviceStep
    PROVE  Have' = Have \/ \E p \in Pieces \ Have : Have' = Have \cup {p}
<1> USE DEF Inv
<1> DEFINE f == wire[1]
<1>0. Serve /\ chip' = chip
  BY Zenon DEF DeviceStep, Serve
<1>1. Pieces' = Pieces /\ loaded \in [AllAreas -> Nat]
  BY <1>0, Frozen, Zenon DEF TypeOK
<1>2. CASE loaded' = loaded
  BY <1>1, <1>2, Zenon DEF Have
<1>3. CASE /\ f.i \in 1..Frames(f.a) /\ loaded[f.a] < f.i /\ f.i <= loaded[f.a] + 1
           /\ loaded' = [loaded EXCEPT ![f.a] = f.i]
  <2>1. f.a \in AllAreas /\ f.i \in Nat
    <3>1. wire # <<>> /\ wire \in Seq(FramesOnWire)
      BY <1>0, Zenon DEF Serve, TypeOK
    <3>2. f \in FramesOnWire
      BY <3>1
    <3> QED
      BY <3>2, Zenon DEF FramesOnWire
  <2> DEFINE q == <<f.a, f.i>>
  <2>2. \A p \in Pieces : p[2] <= loaded'[p[1]] <=> (p[2] <= loaded[p[1]] \/ p = q)
    <3> SUFFICES ASSUME NEW p \in Pieces
                 PROVE  p[2] <= loaded'[p[1]] <=> (p[2] <= loaded[p[1]] \/ p = q)
      BY Zenon
    <3>1. p[1] \in AllAreas /\ p[2] \in 1..Frames(p[1]) /\ p = <<p[1], p[2]>>
      BY PieceFacts, Zenon
    <3>2. Frames(p[1]) \in Nat /\ p[2] \in Nat
      BY <3>1, FrameAssumption DEF Frames
    <3>3. CASE p[1] = f.a
      <4>1. loaded'[p[1]] = f.i /\ loaded[p[1]] \in Nat
        BY <1>1, <1>3, <2>1, <3>3, Zenon
      <4>2. p = q <=> p[2] = f.i
        BY <3>1, <3>3
      <4> HIDE DEF f, q
      <4>3. loaded[p[1]] < f.i /\ f.i <= loaded[p[1]] + 1
        BY <1>3, <3>3, Zenon
      <4> QED
        BY <2>1, <3>2, <4>1, <4>2, <4>3
    <3>4. CASE p[1] # f.a
      <4>1. loaded'[p[1]] = loaded[p[1]]
        BY <1>1, <1>3, <3>1, <3>4, Zenon
      <4>2. p # q
        BY <3>1, <3>4
      <4> QED
        BY <4>1, <4>2, Zenon
    <3> QED
      BY <3>3, <3>4, Zenon
  <2>3. Have' = {p \in Pieces : p[2] <= loaded[p[1]] \/ p = q}
    BY <1>1, <2>2, Zenon DEF Have
  <2>4. CASE q \in Pieces
    <3>1. q \notin Have
      BY <1>1, <1>3, <2>1 DEF Have
    <3>2. Have' = Have \cup {q}
      BY <2>3, <2>4, Zenon DEF Have
    <3> QED
      BY <2>4, <3>1, <3>2, Zenon
  <2>5. CASE q \notin Pieces
    BY <2>3, <2>5, Zenon DEF Have
  <2> QED
    BY <2>4, <2>5, Zenon
<1> QED
  BY <1>0, <1>2, <1>3, ServeStores, Zenon

\* A reset board has no pieces.
LEMMA ResetForgets ==
    ASSUME loaded' = Blank, Pieces' = Pieces
    PROVE  Have' = {}
<1>1. SUFFICES ASSUME NEW p \in Pieces, p[2] <= Blank[p[1]] PROVE FALSE
  BY Zenon DEF Have
<1>2. p[1] \in AllAreas /\ p[2] \in 1..Frames(p[1])
  BY PieceFacts, Zenon
<1>3. Blank[p[1]] = 0 /\ Frames(p[1]) \in Nat
  BY <1>2, FrameAssumption, Zenon DEF Blank, Frames
<1> QED
  BY <1>1, <1>2, <1>3

\* A recovery that has ended stays so.
LEMMA EndedStays ==
    ASSUME Inv, [Next]_vars, phase \in {"done", "failed"}
    PROVE  phase' = phase
<1>1. CASE Start \/ PowerOff \/ PowerOn \/ PowerCycle \/ PowerRefused \/ PowerFails
  BY <1>1, Zenon DEF Start, PowerOff, PowerOn, PowerCycle, PowerRefused, PowerFails
<1>2. CASE HandshakeEnds \/ HandshakeTimeout
  BY <1>2, Zenon DEF HandshakeEnds, HandshakeTimeout
<1>3. CASE Sending
  BY <1>3, SendingHost, Zenon DEF Inv
<1>4. CASE Handshake \/ ManualReset \/ DeviceStep \/ Trouble \/ UNCHANGED vars
  BY <1>4, Zenon DEF Handshake, ManualReset, DeviceStep, Trouble, host, vars
<1> QED
  BY <1>1, <1>2, <1>3, <1>4, Zenon DEF Next, HostStep, Sending

\* Every step of a recovery is a step of an image transfer, or none.
LEMMA StepImplements ==
    ASSUME Inv, [Next]_vars
    PROVE  [Upload!Next]_(Upload!vars)
<1> USE DEF Inv
<1>0. /\ chip' = chip /\ Pieces' = Pieces /\ LoosePieces' = LoosePieces
      /\ late \in {"no", "yes"} /\ late' \in {"no", "yes"}
  <2>1. chip' = chip /\ TypeOK'
    BY TypeStep, Zenon
  <2>2. Pieces' = Pieces /\ Standard' = Standard /\ Session' = Session
    BY <2>1, Frozen, Zenon
  <2> QED
    BY <2>1, <2>2, Zenon DEF LoosePieces, TypeOK
<1>1. CASE DeviceStep
  <2>1. UNCHANGED <<phase, late>>
    BY <1>1, Zenon DEF DeviceStep, Serve, host
  <2>2. CASE Have' = Have
    BY <1>0, <2>1, <2>2, Zenon DEF Upload!vars
  <2>3. CASE \E p \in Pieces \ Have : Have' = Have \cup {p}
    <3>1. Upload!Receive
      BY <1>0, <2>1, <2>3, Zenon DEF Upload!Receive
    <3> QED
      BY <3>1, Zenon DEF Upload!Next
  <2> QED
    BY <1>1, <2>2, <2>3, ServeReceives, Zenon
<1>2. CASE PowerOff \/ PowerOn \/ PowerCycle \/ ManualReset
  <2>1. /\ phase \notin {"done", "failed"} /\ phase' \notin {"done", "failed"} /\ late' = late
        /\ loaded' = Blank
    BY <1>2, Zenon DEF PowerOff, PowerOn, PowerCycle, ManualReset, Goto, host, Reset
  <2>2. Have' \subseteq Have
    BY <1>0, <2>1, ResetForgets, Zenon
  <2>3. Upload!Restart
    BY <1>0, <2>1, <2>2, Zenon DEF Upload!Restart
  <2> QED
    BY <2>3, Zenon DEF Upload!Next
<1>3. CASE ~DeviceStep /\ ~(PowerOff \/ PowerOn \/ PowerCycle \/ ManualReset)
  <2>1. Have' = Have
    BY <1>0, <1>3, StoreKept, Zenon DEF Have
  <2>2. late' \in {late, "yes"}
    BY LateStays, Zenon
  <2>3. Upload!Doubt
    BY <1>0, <2>1, <2>2, Zenon DEF Upload!Doubt
  <2>4. CASE Outcome' = Outcome
    <3>1. Upload!Wait
      BY <2>3, <2>4, Zenon DEF Upload!Wait, Outcome
    <3> QED
      BY <3>1, Zenon DEF Upload!Next
  <2>5. CASE phase \notin {"done", "failed"} /\ phase' = "failed"
    <3>1. Upload!GiveUp
      BY <2>3, <2>5, Zenon DEF Upload!GiveUp
    <3> QED
      BY <3>1, Zenon DEF Upload!Next
  <2>6. CASE phase \notin {"done", "failed"} /\ phase' = "done"
    <3>1. Pieces \ Have \subseteq IF late' = "no" THEN {} ELSE LoosePieces
      BY <2>6, SuccessIsWhole, Zenon
    <3>2. Upload!Succeed
      BY <2>3, <2>6, <3>1, Zenon DEF Upload!Succeed
    <3> QED
      BY <3>2, Zenon DEF Upload!Next
  <2>7. phase \in {"done", "failed"} => phase' = phase
    BY EndedStays, Zenon
  <2> QED
    BY <2>4, <2>5, <2>6, <2>7, Zenon DEF Outcome
<1> QED
  BY <1>1, <1>2, <1>3, Zenon

\* Every upload implements the image transfer: RecoverySession and the agent
\* uploads report success only when the board has every piece of the image;
\* only a session of the standard protocol may miss some, after an answer
\* came late.
THEOREM UploadsImplementTransfer == Spec => ImageLoaded
<1>1. Init => Upload!Init
  <2> SUFFICES ASSUME Init PROVE Upload!Init
    BY Zenon
  <2>1. Have = {}
    <3>1. SUFFICES ASSUME NEW p \in Pieces, p[2] <= loaded[p[1]] PROVE FALSE
      BY Zenon DEF Have
    <3>2. p[1] \in AllAreas /\ p[2] \in 1..Frames(p[1])
      BY PieceFacts, Zenon
    <3>3. loaded[p[1]] = 0 /\ Frames(p[1]) \in Nat
      BY <3>2, FrameAssumption, Zenon DEF Init, RomInit, Blank, Frames
    <3> QED
      BY <3>1, <3>2, <3>3
  <2>2. LoosePieces \subseteq Pieces
    BY Zenon DEF LoosePieces
  <2> QED
    BY <2>1, <2>2, Zenon DEF Init, RomInit, Upload!Init
<1>2. Inv /\ [Next]_vars => [Upload!Next]_(Upload!vars)
  BY StepImplements, Zenon
<1> QED
  BY <1>1, <1>2, RecoveryInvariance, PTL DEF Spec, ImageLoaded, Upload!Spec
=============================================================================
