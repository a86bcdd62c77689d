--------------------------- MODULE RockusbProofs ---------------------------
(***************************************************************************)
(* OneBoardTouched and UsbResultWhole hold for any boards and requests,    *)
(* any size of flash and transfer, and any number of failing transfers.    *)
(***************************************************************************)
EXTENDS Rockusb, TLAPS

Early == {"resolve", "power", "find"}
Late == {"reset", "backrom", "upload", "reload", "id", "info", "dump", "write", "restart"}

\* From the first board found on, the command holds on to its port.
Pinned ==
    /\ ureq \in UsbRequests
    /\ upc \in Early \cup Late \cup {"done", "failed"}
    /\ found \in Ports \cup {NoPort}
    /\ upc \in Early => found = NoPort /\ held = NoPort
    /\ upc \in Late => found \in Ports /\ held = found
    /\ DOMAIN bus = Ports /\ DOMAIN rom = Ports /\ DOMAIN pipe = Ports /\ DOMAIN flash = Ports
    /\ OneBoardTouched

LEMMA PinnedInit == UsbInit => Pinned
  BY UsbAssumption, Zenon DEF UsbInit, Pinned, Early, Late, OneBoardTouched

\* Every way out with an error leaves the boards alone.
LEMMA FailKeepsPinned ==
    ASSUME Pinned, NEW reason, NEW closes, _usb_fail(reason, closes) PROVE Pinned'
  BY Zenon DEF _usb_fail, Pinned, OneBoardTouched, device, Early, Late

LEMMA RaiseKeepsPinned == ASSUME Pinned, NEW reason, Raise(reason) PROVE Pinned'
  BY FailKeepsPinned, Zenon DEF Raise

LEMMA FoundAt ==
    ASSUME NEW path \in Ports \cup {AnyPort}, NEW modes, NEW p \in Ports, OnlyMatch(path, modes, p)
    PROVE bus[p] \in modes /\ (path # AnyPort => path = p)
  BY Zenon DEF OnlyMatch, find_devices

LEMMA OpenKeepsPinned ==
    ASSUME Pinned, NEW p \in Ports, NEW next \in Late, NEW plan, open(p, next, plan),
           found' = p, found \in {NoPort, p}, ureq.path # AnyPort => ureq.path = p
    PROVE Pinned'
  BY UsbAssumption, Zenon DEF open, Pinned, OneBoardTouched, Early, Late

LEMMA ReacquireKeepsPinned ==
    ASSUME Pinned, NEW phase \in Late, NEW mode, NEW next \in Late, NEW plan,
           Reacquire(phase, mode, next, plan)
    PROVE Pinned'
<1>1. found \in Ports /\ upc = phase /\ (ureq.path # AnyPort => ureq.path = found)
  BY UsbAssumption, Zenon DEF Pinned, OneBoardTouched, Reacquire
<1> QED
  BY <1>1, OpenKeepsPinned, RaiseKeepsPinned, Zenon DEF Reacquire

LEMMA SendKeepsPinned ==
    ASSUME Pinned, NEW phase \in Late, NEW op, NEW lba, NEW count, Send(phase, op, lba, count)
    PROVE Pinned'
<1>1. CASE \E reason : Raise(reason)
  BY <1>1, RaiseKeepsPinned, Zenon
<1>2. CASE ~\E reason : Raise(reason)
  <2>1. upc = phase /\ held = found /\ found \in Ports
    BY Zenon DEF Send, Pinned
  <2>2. UNCHANGED <<upc, ureq, found, held, rom>>
    BY <1>2, Zenon DEF Send
  <2>3. /\ \E x : pipe' = [pipe EXCEPT ![held] = x]
        /\ \E x : bus' = [bus EXCEPT ![held] = x]
        /\ \E x : flash' = [flash EXCEPT ![held] = x] \/ flash' = flash
    BY <1>2, Zenon DEF Send, Written
  <2> QED
    BY <2>1, <2>2, <2>3, Zenon DEF Pinned, OneBoardTouched
<1> QED
  BY <1>1, <1>2, Zenon

LEMMA ConsumeKeepsPinned ==
    ASSUME Pinned, Consume, upc' \in Early \cup Late \cup {"done", "failed"}, upc \in Late, upc' \notin Early
    PROVE Pinned'
  BY Zenon DEF Consume, Pinned, OneBoardTouched

LEMMA PinnedStep == Pinned /\ [UsbNext]_usbVars => Pinned'
<1> SUFFICES ASSUME Pinned, [UsbNext]_usbVars PROVE Pinned'
  BY Zenon
<1> USE DEF Early, Late
<1>1. CASE _resolve_usb_loader
  BY <1>1, RaiseKeepsPinned, Zenon DEF _resolve_usb_loader, Pinned, OneBoardTouched, host, device
<1>2. CASE PowerCycle
  BY <1>2, RaiseKeepsPinned, Zenon DEF PowerCycle, Pinned, OneBoardTouched, host
<1>3. CASE FindBoard
  <2>1. ureq.path \in Ports \cup {AnyPort} /\ found = NoPort
    BY <1>3, UsbAssumption, Zenon DEF FindBoard, Pinned
  <2>2. ASSUME NEW reason, Raise(reason) PROVE Pinned'
    BY <2>2, RaiseKeepsPinned, Zenon
  <2>3. ASSUME NEW p \in Ports, OnlyMatch(ureq.path, {"maskrom", "loader"}, p), found' = p,
               NEW next \in {"reset", "upload"}, NEW plan, open(p, next, plan)
        PROVE Pinned'
    BY <2>1, <2>3, FoundAt, OpenKeepsPinned, Zenon
  <2> QED
    BY <1>3, <2>2, <2>3, Zenon DEF FindBoard, wait_for_device
<1>4. CASE return_to_maskrom
  BY <1>4, ReacquireKeepsPinned, Zenon DEF return_to_maskrom
<1>5. CASE control_write
  BY <1>5, RaiseKeepsPinned, Zenon DEF control_write, Pinned, OneBoardTouched
<1>6. CASE download_boot
  BY <1>6, Zenon DEF download_boot, Pinned, OneBoardTouched, device
<1>7. CASE AwaitLoader
  <2>1. FlashPhase \in Late
    BY Zenon DEF FlashPhase
  <2> QED
    BY <1>7, <2>1, ReacquireKeepsPinned, Zenon DEF AwaitLoader
<1>8. CASE SendCommand
  BY <1>8, SendKeepsPinned, Zenon DEF SendCommand
<1>9. CASE CommandFails
  BY <1>9, RaiseKeepsPinned, FailKeepsPinned, Zenon DEF CommandFails
<1>10. CASE ResetAnswered
  BY <1>10, ConsumeKeepsPinned, Zenon DEF ResetAnswered
<1>11. CASE LastAnswered
  BY <1>11, ConsumeKeepsPinned, Zenon DEF LastAnswered
<1>12. CASE InfoAnswered
  BY <1>12, ConsumeKeepsPinned, RaiseKeepsPinned, Zenon DEF InfoAnswered
<1>13. CASE SectorsRead
  BY <1>13, ConsumeKeepsPinned, Zenon DEF SectorsRead
<1>14. CASE UsbDumpEnds
  BY <1>14, Zenon DEF UsbDumpEnds, Pinned, OneBoardTouched, device
<1>15. CASE SectorsWritten
  BY <1>15, ConsumeKeepsPinned, Zenon DEF SectorsWritten
<1>16. ASSUME NEW p \in Ports, Enumerate(p) PROVE Pinned'
  BY <1>16, Zenon DEF Enumerate, Pinned, OneBoardTouched, host
<1>17. ASSUME NEW p \in Ports, PlugIn(p) \/ Unplug(p) PROVE Pinned'
  BY <1>17, Zenon DEF PlugIn, Unplug, Pinned, OneBoardTouched, host
<1>18. CASE UNCHANGED usbVars
  BY <1>18, Zenon DEF usbVars, host, device, Pinned, OneBoardTouched
<1> QED
  BY <1>1, <1>2, <1>3, <1>4, <1>5, <1>6, <1>7, <1>8, <1>9, <1>10, <1>11, <1>12, <1>13, <1>14,
     <1>15, <1>16, <1>17, <1>18, Zenon DEF UsbNext, UsbHost

\* Whatever is plugged in, pulled or slow while a board re-enumerates, the pin
\* that _open_usb_target hands on keeps uploads and writes to the board found
\* first, at the port the user named.
THEOREM OneBoardIsTouched == UsbSpec => []OneBoardTouched
<1>1. Pinned => OneBoardTouched
  BY Zenon DEF Pinned
<1> QED
  BY <1>1, PinnedInit, PinnedStep, PTL DEF UsbSpec

-----------------------------------------------------------------------------
(* The transfers still to make are adjacent and cover from..to-1. *)
Splits(t, from, to) ==
    /\ t \in Seq([lba : Nat, count : Nat \ {0}])
    /\ t = <<>> => from = to
    /\ t # <<>> => t[1].lba = from /\ t[Len(t)].lba + t[Len(t)].count = to
    /\ \A i \in 1..Len(t) - 1 : t[i + 1].lba = t[i].lba + t[i].count
    /\ \A i \in 1..Len(t) : t[i].lba + t[i].count <= to

Flashing == {"id", "info", "dump", "write", "restart"}

\* The command that a phase sends.
PhaseOp ==
    CASE upc = "id" -> "READ_FLASH_ID" [] upc = "info" -> "READ_FLASH_INFO"
      [] upc = "dump" -> "READ_LBA" [] upc = "write" -> "WRITE_LBA" [] OTHER -> "RESET_NORMAL"

InFlash(from, to) == \A l \in from..to - 1 : flash[found][l] = ImageSector(l)

\* An answer that passes for complete is: what it says was read or written.
Truthful ==
    /\ upc = "info" => Payload \in {<<0>>, <<FlashSectors>>}
    /\ upc = "dump" => Payload = Content(found, cmd)
    /\ upc = "write" => InFlash(cmd.lba, cmd.lba + cmd.count)

\* A loader has nothing queued but the answer to the command under way.
QueueInv ==
    /\ \A p \in Ports : bus[p] \in {"maskrom", "absent"} => pipe[p] = <<>>
    /\ upc \in {"upload", "reload"} => pipe[found] = <<>>
    /\ upc \notin Flashing \cup {"reset"} => cmd = NoCommand
    /\ upc \in Flashing /\ cmd = NoCommand => pipe[found] = <<>>
    /\ upc \in Flashing /\ cmd # NoCommand =>
         /\ cmd.op = PhaseOp
         /\ upc \in {"dump", "write"} =>
              todo # <<>> /\ cmd.lba = Head(todo).lba /\ cmd.count = Head(todo).count
         /\ Len(pipe[found]) \in 0..StatusAt
         /\ Answered => Truthful

First0 == Extent(FlashSectors)[1]
Count0 == Extent(FlashSectors)[2]
Whole == Content(found, [lba |-> First0, count |-> Count0])

\* The command of defib that has the phase.
PhaseCmd ==
    CASE upc = "id" -> "burn" [] upc \in {"info", "dump"} -> "dump" [] OTHER -> "write"

\* How far the file or the flash is.
ResultInv ==
    /\ upc \in Flashing => ureq.cmd = PhaseCmd
    /\ \A p \in Ports : DOMAIN flash[p] = 0..FlashSectors - 1
    /\ ureq.cmd # "write" => \A p \in Ports : flash[p] = BlankFlash(p)
    /\ upc # "dump" => part = NoFile
    /\ upc # "done" \/ ureq.cmd # "dump" => outfile = OldFile
    /\ upc = "done" /\ ureq.cmd = "dump" =>
         outfile = Whole /\ First0 + Count0 <= FlashSectors /\ found \in Ports
    /\ upc = "dump" =>
         /\ First0 + Count0 <= FlashSectors
         /\ \E n \in 0..Count0 :
              /\ part = Content(found, [lba |-> First0, count |-> n])
              /\ Splits(todo, First0 + n, First0 + Count0)
    /\ upc = "write" =>
         \E n \in 0..ureq.sectors :
            /\ InFlash(ureq.start, ureq.start + n)
            /\ Splits(todo, ureq.start + n, ureq.start + ureq.sectors)
    /\ upc = "restart" \/ (upc = "done" /\ ureq.cmd = "write") =>
         InFlash(ureq.start, ureq.start + ureq.sectors)

LEMMA DivBounds ==
    ASSUME NEW n \in Nat, NEW m \in Nat \ {0}
    PROVE  LET k == (n + m - 1) \div m
           IN  k \in Nat /\ n <= k * m /\ (k > 0 => (k - 1) * m < n) /\ (n > 0 => k > 0)
<1> DEFINE k == (n + m - 1) \div m
<1>1. k \in Nat
  BY SMT
<1>2. k * m <= n + m - 1 /\ n + m - 1 < (k + 1) * m
  BY SMT
<1>3. k * m \in Nat /\ (k + 1) * m = k * m + m /\ (k - 1) * m = k * m - m
  BY <1>1, SMT
<1>4. n > 0 => k # 0
  BY <1>2, <1>3, SMT
<1> HIDE DEF k
<1>5. k \in Nat /\ n <= k * m /\ (k > 0 => (k - 1) * m < n) /\ (n > 0 => k > 0)
  BY <1>1, <1>2, <1>3, <1>4, SMT
<1> QED
  BY <1>5 DEF k

LEMMA Monotone ==
    ASSUME NEW a \in Nat, NEW b \in Nat, NEW m \in Nat \ {0}, a <= b PROVE a * m <= b * m
  BY SMT

\* split_lba_transfers covers its range without a gap.
LEMMA SplitCovers ==
    ASSUME NEW s \in Nat, NEW n \in Nat PROVE Splits(split_lba_transfers(s, n), s, s + n)
<1> DEFINE m == MaxSectors
           k == (n + m - 1) \div m
           t == split_lba_transfers(s, n)
<1>1. m \in Nat \ {0}
  BY UsbAssumption, Zenon
<1>2. k \in Nat /\ n <= k * m /\ (k > 0 => (k - 1) * m < n) /\ (n > 0 => k > 0)
  BY <1>1, DivBounds, Zenon
<1>3. t = [i \in 1..k |-> [lba |-> s + (i - 1) * m,
                           count |-> IF i * m <= n THEN m ELSE n - (i - 1) * m]]
  BY Zenon DEF split_lba_transfers
<1> HIDE DEF m, k, t
<1>4. ASSUME NEW i \in 1..k
      PROVE  /\ (i - 1) * m \in Nat /\ (i - 1) * m < n /\ i * m = (i - 1) * m + m
             /\ i < k => i * m <= n
  <2>1. i \in Nat /\ i - 1 \in Nat /\ k - 1 \in Nat /\ i - 1 <= k - 1 /\ k > 0
    BY <1>2, SMT
  <2>2. (i - 1) * m <= (k - 1) * m
    BY <1>1, <2>1, Monotone, Zenon
  <2>3. (i - 1) * m \in Nat /\ i * m = (i - 1) * m + m /\ (k - 1) * m \in Nat
    BY <1>1, <2>1, SMT
  <2>4. i < k => i <= k - 1
    BY <2>1, <1>2, SMT
  <2>5. i < k => i * m <= (k - 1) * m
    BY <1>1, <2>1, <2>4, Monotone, Zenon
  <2>6. i * m \in Nat
    BY <1>1, <2>1, <2>3, SMT
  <2> QED
    BY <1>2, <2>1, <2>2, <2>3, <2>5, <2>6, SMT
<1>5. DOMAIN t = 1..k /\ Len(t) = k
  BY <1>2, <1>3, SMT
<1>6. ASSUME NEW i \in 1..k
      PROVE  /\ t[i] \in [lba : Nat, count : Nat \ {0}]
             /\ t[i].lba = s + (i - 1) * m
             /\ t[i].count = IF i * m <= n THEN m ELSE n - (i - 1) * m
             /\ t[i].lba + t[i].count <= s + n
             /\ i < k => t[i].lba + t[i].count = s + i * m
             /\ i = k => t[i].lba + t[i].count = s + n
  <2>1. t[i] = [lba |-> s + (i - 1) * m, count |-> IF i * m <= n THEN m ELSE n - (i - 1) * m]
    BY <1>3, Zenon
  <2> DEFINE a == (i - 1) * m
             b == i * m
  <2>2. /\ a \in Nat /\ a < n /\ b = a + m /\ (i < k => b <= n)
        /\ i = k => n <= b
    BY <1>2, <1>4, SMT
  <2>3. t[i] = [lba |-> s + a, count |-> IF b <= n THEN m ELSE n - a]
    BY <2>1, Zenon
  <2> HIDE DEF a, b
  <2>4. /\ t[i].lba = s + a /\ t[i].count = IF b <= n THEN m ELSE n - a
        /\ t[i] \in [lba : Nat, count : Nat \ {0}]
        /\ t[i].lba + t[i].count <= s + n
        /\ i < k => t[i].lba + t[i].count = s + b
        /\ i = k => t[i].lba + t[i].count = s + n
    BY <1>1, <1>2, <2>2, <2>3, SMT
  <2> QED
    BY <2>4 DEF a, b
<1>7. t \in Seq([lba : Nat, count : Nat \ {0}])
  <2>1. t \in [1..k -> [lba : Nat, count : Nat \ {0}]]
    BY <1>3, <1>5, <1>6, Zenon
  <2>2. ASSUME NEW S, NEW j \in Nat, NEW f \in [1..j -> S] PROVE f \in Seq(S)
    OBVIOUS
  <2> QED
    BY <1>2, <2>1, <2>2, Zenon
<1>8. t = <<>> => s = s + n
  BY <1>2, <1>5, SMT
<1>9. t # <<>> => t[1].lba = s /\ t[Len(t)].lba + t[Len(t)].count = s + n
  <2> SUFFICES ASSUME t # <<>> PROVE t[1].lba = s /\ t[k].lba + t[k].count = s + n
    BY <1>5, Zenon
  <2>1. k # 0
    BY <1>5, <1>7, SMT
  <2>2. 1 \in 1..k /\ k \in 1..k
    BY <1>2, <2>1, SMT
  <2>3. (1 - 1) * m = 0
    BY <1>1, SMT
  <2>4. t[1].lba = s + (1 - 1) * m /\ t[k].lba + t[k].count = s + n
    BY <1>6, <2>2, Zenon
  <2> QED
    BY <2>3, <2>4, SMT
<1>10. ASSUME NEW i \in 1..Len(t) - 1 PROVE t[i + 1].lba = t[i].lba + t[i].count
  <2>1. i \in 1..k /\ i + 1 \in 1..k /\ i < k /\ (i + 1) - 1 = i
    BY <1>2, <1>5, SMT
  <2>2. t[i + 1].lba = s + ((i + 1) - 1) * m /\ t[i].lba + t[i].count = s + i * m
    BY <1>6, <2>1, Zenon
  <2> QED
    BY <2>1, <2>2
<1> QED
  BY <1>5, <1>6, <1>7, <1>8, <1>9, <1>10, Zenon DEF Splits, t

LEMMA SplitsTail ==
    ASSUME NEW t, NEW from \in Nat, NEW to \in Nat, Splits(t, from, to), t # <<>>
    PROVE  /\ Head(t).lba = from /\ Head(t).count \in Nat \ {0} /\ from + Head(t).count <= to
           /\ Splits(Tail(t), from + Head(t).count, to)
           /\ Len(t) = 1 => from + Head(t).count = to
           /\ Len(t) # 1 => Tail(t) # <<>>
<1> DEFINE S == [lba : Nat, count : Nat \ {0}]
<1>1. t \in Seq(S) /\ Len(t) \in Nat \ {0} /\ Head(t) = t[1] /\ 1 \in 1..Len(t)
  BY SMT DEF Splits
<1>2. \A i \in 1..Len(t) : t[i].lba \in Nat /\ t[i].count \in Nat \ {0} /\ t[i].lba + t[i].count <= to
  <2>1. \A x \in S : x.lba \in Nat /\ x.count \in Nat \ {0}
    OBVIOUS
  <2> HIDE DEF S
  <2>2. \A i \in 1..Len(t) : t[i] \in S
    BY <1>1, SMT
  <2> QED
    BY <2>1, <2>2, Zenon DEF Splits
<1>3. \A i \in 1..Len(t) - 1 : t[i + 1].lba = t[i].lba + t[i].count
  BY Zenon DEF Splits
<1>4. t[1].lba = from /\ t[Len(t)].lba + t[Len(t)].count = to
  BY Zenon DEF Splits
<1>5. /\ Tail(t) \in Seq(S) /\ Len(Tail(t)) = Len(t) - 1
      /\ \A i \in 1..Len(t) - 1 : Tail(t)[i] = t[i + 1]
  BY <1>1, SMT
<1>6. Head(t).lba = from /\ Head(t).count \in Nat \ {0} /\ from + Head(t).count <= to
  BY <1>1, <1>2, <1>4, SMT
<1>7. Len(t) = 1 => from + Head(t).count = to
  BY <1>1, <1>4, <1>6, SMT
<1>8. Tail(t) = <<>> <=> Len(t) = 1
  <2>1. Len(<<>>) = 0 /\ \A x \in Seq(S) : Len(x) = 0 => x = <<>>
    BY SMT
  <2>2. Len(t) - 1 = 0 <=> Len(t) = 1
    BY <1>1, SMT
  <2> QED
    BY <1>5, <2>1, <2>2, Zenon
<1>9. Tail(t) = <<>> => from + Head(t).count = to
  BY <1>7, <1>8, Zenon
<1>10. Tail(t) # <<>> =>
         /\ Tail(t)[1].lba = from + Head(t).count
         /\ Tail(t)[Len(Tail(t))].lba + Tail(t)[Len(Tail(t))].count = to
  <2> SUFFICES ASSUME Tail(t) # <<>>
               PROVE /\ Tail(t)[1].lba = from + Head(t).count
                     /\ Tail(t)[Len(Tail(t))].lba + Tail(t)[Len(Tail(t))].count = to
    BY Zenon
  <2>1. Len(t) - 1 \in Nat \ {0}
    BY <1>1, <1>8, SMT
  <2>2. 1 \in 1..Len(t) - 1 /\ Len(t) - 1 \in 1..Len(t) - 1 /\ (Len(t) - 1) + 1 = Len(t)
    BY <1>1, <2>1, SMT
  <2>3. Tail(t)[1] = t[1 + 1] /\ Tail(t)[Len(t) - 1] = t[Len(t)] /\ t[1 + 1].lba = t[1].lba + t[1].count
    BY <1>3, <1>5, <2>2, Zenon
  <2> QED
    BY <1>1, <1>4, <1>5, <2>3, Zenon
<1>11. ASSUME NEW i \in 1..Len(Tail(t)) - 1 PROVE Tail(t)[i + 1].lba = Tail(t)[i].lba + Tail(t)[i].count
  <2>1. i \in 1..Len(t) - 1 /\ i + 1 \in 1..Len(t) - 1
    BY <1>1, <1>5, SMT
  <2>2. Tail(t)[i] = t[i + 1] /\ Tail(t)[i + 1] = t[(i + 1) + 1]
    BY <1>5, <2>1, Zenon
  <2> QED
    BY <1>3, <2>1, <2>2, Zenon
<1>12. ASSUME NEW i \in 1..Len(Tail(t)) PROVE Tail(t)[i].lba + Tail(t)[i].count <= to
  <2>1. i \in 1..Len(t) - 1 /\ i + 1 \in 1..Len(t)
    BY <1>1, <1>5, SMT
  <2> QED
    BY <1>2, <1>5, <2>1, Zenon
<1> HIDE DEF S
<1>13. Splits(Tail(t), from + Head(t).count, to)
  BY <1>5, <1>9, <1>10, <1>11, <1>12, Zenon DEF Splits, S
<1> QED
  BY <1>6, <1>7, <1>8, <1>13, Zenon

\* What a loader can answer to a command.
LEMMA ReplyShape ==
    ASSUME NEW p, NEW op, NEW lba, NEW count, NEW tg, NEW faulty \in BOOLEAN,
           NEW r \in Replies(p, [op |-> op, lba |-> lba, count |-> count, tag |-> tg], faulty)
    PROVE LET data == AnswerData(p, [op |-> op, lba |-> lba, count |-> count, tag |-> tg], faulty)
          IN  /\ DirectionIn(op) => /\ Len(r) \in 1..2
                                    /\ r[1].val = data
              /\ ~DirectionIn(op) => Len(r) \in 0..1
              /\ ~DirectionIn(op) /\ Len(r) = 1 /\ faulty => ~r[1].ok \/ r[1].residue
<1> DEFINE c == [op |-> op, lba |-> lba, count |-> count, tag |-> tg]
           data == AnswerData(p, c, faulty)
<1>0. c.op = op /\ c.tag = tg
  OBVIOUS
<1> HIDE DEF c, data
<1>1. CASE DirectionIn(op)
  <2>1. r = <<Data(data)>> \/ \E x : r = <<Data(data)>> \o <<x>>
    BY <1>0, <1>1, Zenon DEF Replies, c, data
  <2>2. \A x : /\ Len(<<Data(data)>> \o <<x>>) = 2 /\ (<<Data(data)>> \o <<x>>)[1] = Data(data)
               /\ Len(<<Data(data)>>) = 1 /\ <<Data(data)>>[1] = Data(data)
    OBVIOUS
  <2>3. Data(data).val = data
    BY DEF Data
  <2>4. 1 \in 1..2 /\ 2 \in 1..2
    BY SMT
  <2> QED
    BY <1>1, <2>1, <2>2, <2>3, <2>4, Zenon DEF c, data
<1>2. CASE ~DirectionIn(op)
  <2>1. \E ok, res : r = <<>> \/ (r = <<>> \o <<Csw(tg, ok, res)>> /\ (faulty => ok = FALSE \/ res = TRUE))
    BY <1>0, <1>2, Zenon DEF Replies, c
  <2>4. Len(<<>>) = 0 /\ 0 \in 0..1 /\ 1 \in 0..1 /\ 0 # 1
    BY SMT
  <2>5. Len(r) \in 0..1 /\ (Len(r) = 1 /\ faulty => ~r[1].ok \/ r[1].residue)
    <3>1. CASE r = <<>>
      BY <2>4, <3>1, Zenon
    <3>2. ASSUME NEW ok, NEW res, r = <<>> \o <<Csw(tg, ok, res)>>, faulty => ok = FALSE \/ res = TRUE
          PROVE Len(r) \in 0..1 /\ (Len(r) = 1 /\ faulty => ~r[1].ok \/ r[1].residue)
      <4>1. Len(r) = 1 /\ r[1] = Csw(tg, ok, res)
        BY <3>2, SMT
      <4>2. r[1].ok = ok /\ r[1].residue = res
        BY <4>1 DEF Csw
      <4> QED
        BY <2>4, <3>2, <4>1, <4>2, Zenon
    <3> QED
      BY <2>1, <3>1, <3>2, Zenon
  <2> QED
    BY <1>2, <2>5, Zenon
<1> QED
  BY <1>1, <1>2, Zenon

LEMMA NothingLeft ==
    ASSUME NEW s, NEW k \in Nat, Len(s) \in 0..k PROVE SubSeq(s, k + 1, Len(s)) = <<>>
  OBVIOUS

LEMMA StatusPlace == StatusAt \in {1, 2} /\ (Len(<<>>) >= StatusAt <=> FALSE) /\ Len(<<>>) \in 0..StatusAt
  BY SMT DEF StatusAt

LEMMA ExtentFacts ==
    ASSUME ureq \in UsbRequests
    PROVE  /\ First0 = (IF ureq.sectors = 0 THEN 0 ELSE ureq.start) /\ First0 \in Nat
           /\ Count0 = (IF ureq.sectors = 0 THEN FlashSectors ELSE ureq.sectors)
           /\ Count0 \in Nat \ {0}
<1>1. ureq.start \in Nat /\ ureq.sectors \in Nat /\ FlashSectors \in Nat \ {0}
  BY UsbAssumption, Zenon
<1>2. \A a, b : <<a, b>>[1] = a /\ <<a, b>>[2] = b
  OBVIOUS
<1>3. /\ First0 = (IF ureq.sectors = 0 THEN 0 ELSE ureq.start)
      /\ Count0 = (IF ureq.sectors = 0 THEN FlashSectors ELSE ureq.sectors)
  BY <1>2, Zenon DEF First0, Count0, Extent
<1> QED
  BY <1>1, <1>3, SMT

LEMMA WholeInit == UsbInit => QueueInv /\ ResultInv
<1> SUFFICES ASSUME UsbInit PROVE QueueInv /\ ResultInv
  BY Zenon
<1>1. upc = "resolve" /\ cmd = NoCommand /\ part = NoFile /\ outfile = OldFile /\ ureq \in UsbRequests
  BY Zenon DEF UsbInit
<1>2. \A p \in Ports : flash[p] = BlankFlash(p) /\ DOMAIN flash[p] = 0..FlashSectors - 1
  BY Zenon DEF UsbInit, BlankFlash
<1>3. \A p \in Ports : bus[p] \in {"maskrom", "absent"} => pipe[p] = <<>>
  BY Zenon DEF UsbInit
<1> QED
  BY <1>1, <1>2, <1>3, Zenon DEF QueueInv, ResultInv, Flashing

LEMMA FailKeepsWhole ==
    ASSUME QueueInv, ResultInv, upc # "done", NEW reason, NEW closes, _usb_fail(reason, closes)
    PROVE  QueueInv' /\ ResultInv'
<1>1. upc' = "failed" /\ cmd' = NoCommand /\ part' = NoFile /\ UNCHANGED <<ureq, outfile, bus, pipe, flash>>
  BY Zenon DEF _usb_fail, device
<1>2. outfile = OldFile
  BY Zenon DEF ResultInv
<1>3. QueueInv'
  BY <1>1, Zenon DEF QueueInv, Flashing
<1>4. ResultInv'
  BY <1>1, <1>2, Zenon DEF ResultInv, Flashing
<1> QED
  BY <1>3, <1>4

LEMMA RaiseKeepsWhole ==
    ASSUME QueueInv, ResultInv, upc # "done", NEW reason, Raise(reason)
    PROVE  QueueInv' /\ ResultInv'
  BY FailKeepsWhole, Zenon DEF Raise

\* Answers are unchanged or gone with the board.
LEMMA PipeStep ==
    ASSUME Pinned, QueueInv, UNCHANGED <<upc, ureq, found, held, cmd, tag, todo, flash>>,
           \A p \in Ports : pipe'[p] \in {pipe[p], <<>>},
           \A p \in Ports : bus'[p] \in {"maskrom", "absent"} => pipe'[p] = <<>>
    PROVE  QueueInv'
<1>1. upc \in {"upload", "reload"} => pipe'[found] = <<>>
  BY Zenon DEF QueueInv, Pinned, Late
<1>2. upc \in Flashing /\ cmd = NoCommand => pipe'[found] = <<>>
  BY Zenon DEF QueueInv, Pinned, Late, Flashing
<1>3. PhaseOp' = PhaseOp /\ StatusAt' = StatusAt
  BY Zenon DEF PhaseOp, StatusAt
<1>4. ASSUME upc \in Flashing, cmd # NoCommand
      PROVE  Len(pipe[found])' \in 0..StatusAt' /\ (Answered' => Truthful')
  <2>1. found \in Ports /\ held = found
    BY <1>4, Zenon DEF Pinned, Late, Flashing
  <2>2. CASE pipe'[found] = <<>>
    <3>1. ~HasStatus'
      BY <1>3, <2>1, <2>2, StatusPlace, Zenon DEF HasStatus
    <3>2. Answered' => upc \notin {"info", "dump", "write"}
      BY <1>4, <3>1, Zenon DEF Answered, Tolerant, QueueInv, PhaseOp, Flashing
    <3> QED
      BY <1>3, <2>1, <2>2, <3>2, StatusPlace, Zenon DEF Truthful
  <2>3. CASE pipe'[found] = pipe[found]
    <3>1. HasStatus' = HasStatus /\ Status' = Status /\ Payload' = Payload /\ Wanted' = Wanted
      BY <1>3, <2>1, <2>3, Zenon DEF HasStatus, Status, Payload, Wanted
    <3>2. Framed' = Framed /\ Complete' = Complete /\ Tolerant' = Tolerant
      BY <3>1, Zenon DEF Framed, Complete, Tolerant
    <3>3. Answered' = Answered
      BY <3>1, <3>2, Zenon DEF Answered
    <3>4. Content(found, cmd)' = Content(found, cmd)
      BY Zenon DEF Content
    <3>5. Truthful' = Truthful
      BY <3>1, <3>4, Zenon DEF Truthful, InFlash
    <3>6. Len(pipe[found]) \in 0..StatusAt /\ (Answered => Truthful)
      BY <1>4, Zenon DEF QueueInv
    <3> QED
      BY <1>3, <2>1, <2>3, <3>3, <3>5, <3>6, Zenon
  <2> QED
    BY <2>1, <2>2, <2>3, Zenon
<1> QED
  BY <1>1, <1>2, <1>3, <1>4, Zenon DEF QueueInv, Flashing

LEMMA FunctionIsSeq ==
    ASSUME NEW S, NEW n \in Nat, NEW f \in [1..n -> S] PROVE f \in Seq(S) /\ Len(f) = n
  OBVIOUS

LEMMA SeqEqual ==
    ASSUME NEW S, NEW s \in Seq(S), NEW t \in Seq(S), NEW n, Len(s) = n, Len(t) = n,
           \A i \in 1..n : s[i] = t[i]
    PROVE  s = t
  OBVIOUS

\* Reading c after the n sectors from a is one longer read.
Joins(p, a, n, c) ==
    Content(p, [lba |-> a, count |-> n]) \o Content(p, c)
      = Content(p, [lba |-> a, count |-> n + c.count])

\* Two adjacent ranges of sectors make one.
LEMMA ContentAppend ==
    ASSUME NEW p, NEW a \in Nat, NEW n \in Nat, NEW c, c.lba = a + n, c.count \in Nat
    PROVE  Joins(p, a, n, c)
<1> DEFINE S == {flash[p][l] : l \in Int}
           k == c.count
           u == [i \in 1..n |-> flash[p][a + i - 1]]
           v == [i \in 1..k |-> flash[p][(a + n) + i - 1]]
           w == [i \in 1..n + k |-> flash[p][a + i - 1]]
<1>1. /\ Content(p, [lba |-> a, count |-> n]) = u
      /\ Content(p, c) = v
      /\ Content(p, [lba |-> a, count |-> n + k]) = w
  BY DEF Content
<1>2. \A j \in 1..n + k : a + j - 1 \in Int
  BY SMT
<1>3. u \in [1..n -> S] /\ v \in [1..k -> S] /\ w \in [1..n + k -> S]
  BY SMT
<1>4. \A i \in 1..n : u[i] = w[i]
  BY SMT
<1>5. \A i \in 1..k : v[i] = w[n + i]
  BY SMT
<1>6. k \in Nat
  OBVIOUS
<1> HIDE DEF S, k, u, v, w
<1>7. u \o v = w
  <2>1. u \in Seq(S) /\ Len(u) = n /\ v \in Seq(S) /\ Len(v) = k
    BY <1>3, <1>6, SMT
  <2>2. u \o v \in Seq(S) /\ Len(u \o v) = n + k /\ w \in Seq(S) /\ Len(w) = n + k
    <3>1. u \o v \in Seq(S) /\ Len(u \o v) = n + k
      BY <2>1, SMT
    <3>2. n + k \in Nat
      BY <1>6, SMT
    <3> QED
      BY <1>3, <3>1, <3>2, FunctionIsSeq, Zenon
  <2>3. ASSUME NEW i \in 1..n + k PROVE (u \o v)[i] = w[i]
    <3>1. CASE i <= n
      <4>1. i \in 1..n /\ (u \o v)[i] = u[i]
        BY <1>6, <2>1, <3>1, SMT
      <4> QED
        BY <1>4, <4>1, Zenon
    <3>2. CASE ~(i <= n)
      <4>1. i - n \in 1..k /\ n + (i - n) = i /\ (u \o v)[i] = v[i - n]
        BY <1>6, <2>1, <3>2, SMT
      <4> QED
        BY <1>5, <4>1, Zenon
    <3> QED
      BY <3>1, <3>2, Zenon
  <2>4. PICK x \in Seq(S) : x = u \o v
    BY <2>2, Zenon
  <2>5. PICK m : m = n + k
    BY Zenon
  <2>6. Len(x) = m /\ Len(w) = m /\ w \in Seq(S) /\ \A i \in 1..m : x[i] = w[i]
    BY <2>2, <2>3, <2>4, <2>5, Zenon
  <2>7. x = w
    BY <2>6, SeqEqual, ZenonT(40)
  <2> QED
    BY <2>4, <2>7, Zenon
<1> QED
  BY <1>1, <1>7, Zenon DEF Joins, k

LEMMA NoContent == ASSUME NEW p, NEW a PROVE Content(p, [lba |-> a, count |-> 0]) = <<>>
  BY SMT DEF Content

\* A backup is a sequence of sectors, and no other file is.
LEMMA WholeIsNew ==
    ASSUME ureq \in UsbRequests, found \in Ports, First0 + Count0 <= FlashSectors,
           flash[found] = BlankFlash(found)
    PROVE  Whole # OldFile
<1>1. First0 \in Nat /\ Count0 \in Nat \ {0} /\ FlashSectors \in Nat
  BY ExtentFacts, UsbAssumption, Zenon
<1>2. Whole = [i \in 1..Count0 |-> flash[found][First0 + i - 1]]
  BY DEF Whole, Content
<1>3. \A i \in 1..Count0 : First0 + i - 1 \in 0..FlashSectors - 1
  BY <1>1, SMT
<1>4. \A l \in 0..FlashSectors - 1 : flash[found][l] \in Ports \X (0..FlashSectors - 1)
  BY SMT DEF BlankFlash
<1>5. Whole \in [1..Count0 -> Ports \X (0..FlashSectors - 1)]
  BY <1>2, <1>3, <1>4, Zenon
<1>6. Count0 \in 0..FlashSectors
  BY <1>1, SMT
<1> QED
  BY <1>5, <1>6, UsbAssumption, Zenon

LEMMA ResultFrame ==
    ASSUME ResultInv, UNCHANGED <<upc, ureq, found, todo, part, outfile, flash>> PROVE ResultInv'
<1>1. First0' = First0 /\ Count0' = Count0 /\ PhaseCmd' = PhaseCmd
  BY Zenon DEF First0, Count0, Extent, PhaseCmd
<1>2. \A n, a : Content(found, [lba |-> a, count |-> n])' = Content(found, [lba |-> a, count |-> n])
  BY Zenon DEF Content
<1>3. Whole' = Whole
  BY <1>1, Zenon DEF Whole, Content
<1>4. \A a, b : InFlash(a, b)' = InFlash(a, b)
  BY Zenon DEF InFlash
<1>5. \A a, b : Splits(todo, a, b)' = Splits(todo, a, b)
  BY Zenon
<1> QED
  BY <1>1, <1>2, <1>3, <1>4, <1>5, Zenon DEF ResultInv

-----------------------------------------------------------------------------
(* A command goes out. *)

\* The command a phase sends, and what the board makes of it.
Sends(op, lba, count, faulty, r) ==
    LET c == [op |-> op, lba |-> lba, count |-> count, tag |-> tag + 1]
    IN  /\ bus[held] = "loader" /\ cmd = NoCommand
        /\ cmd' = [op |-> op, lba |-> lba, count |-> count]
        /\ r \in Replies(held, c, faulty)
        /\ pipe' = [pipe EXCEPT ![held] = @ \o r]
        /\ flash' = Written(held, c, faulty)
        /\ bus' = [bus EXCEPT ![held] =
                     IF op \in {"RESET_MASKROM", "RESET_NORMAL"} /\ ~faulty THEN ResetTo(op) ELSE @]
        /\ UNCHANGED <<upc, ureq, found, held, todo, part, outfile>>

LEMMA SendCases ==
    ASSUME NEW phase, NEW op, NEW lba, NEW count, Send(phase, op, lba, count)
    PROVE  upc = phase /\ \/ \E reason : Raise(reason)
                          \/ \E faulty \in BOOLEAN : \E r : Sends(op, lba, count, faulty, r)
  BY Zenon DEF Send, Sends

ReadOps == {"READ_FLASH_ID", "READ_FLASH_INFO", "READ_LBA"}
OtherOps == {"WRITE_LBA", "RESET_NORMAL"}

LEMMA ReplyAlone ==
    ASSUME NEW p, NEW c, NEW faulty, NEW r \in Replies(p, c, faulty) PROVE <<>> \o r = r
<1>1. \E x, y : r \in {<<>>, <<x>>, <<x>> \o <<y>>, <<>> \o <<y>>}
  BY Zenon DEF Replies
<1>2. \A x, y : /\ <<>> \o <<>> = <<>> /\ <<>> \o <<x>> = <<x>>
               /\ <<>> \o (<<x>> \o <<y>>) = <<x>> \o <<y>>
               /\ <<>> \o (<<>> \o <<y>>) = <<>> \o <<y>>
  OBVIOUS
<1> QED
  BY <1>1, <1>2, Zenon

LEMMA SendQueues ==
    ASSUME Pinned, QueueInv, upc \in Flashing \cup {"reset"},
           NEW op, NEW lba, NEW count, NEW faulty, NEW r, Sends(op, lba, count, faulty, r),
           op # "none"
    PROVE  /\ \A p \in Ports : bus'[p] \in {"maskrom", "absent"} => pipe'[p] = <<>>
           /\ cmd' # NoCommand /\ cmd'.op = op /\ cmd'.lba = lba /\ cmd'.count = count
           /\ upc \in Flashing => pipe'[found] = r
<1>1. held = found /\ found \in Ports /\ DOMAIN pipe = Ports /\ DOMAIN bus = Ports
  BY Zenon DEF Pinned, Late, Flashing
<1>2. bus'[found] \notin {"maskrom", "absent"} /\ \A p \in Ports \ {found} : bus'[p] = bus[p] /\ pipe'[p] = pipe[p]
  BY <1>1, Zenon DEF Sends, ResetTo
<1>3. \A p \in Ports : bus'[p] \in {"maskrom", "absent"} => pipe'[p] = <<>>
  BY <1>2, Zenon DEF QueueInv
<1>4. cmd'.op = op /\ cmd'.lba = lba /\ cmd'.count = count
  BY DEF Sends
<1>5. cmd' # NoCommand
  BY <1>4 DEF NoCommand
<1>6. ASSUME upc \in Flashing PROVE pipe'[found] = r
  <2>1. pipe[found] = <<>> /\ pipe'[found] = <<>> \o r
    BY <1>1, <1>6, Zenon DEF Sends, QueueInv
  <2>2. <<>> \o r = r
    BY ReplyAlone, Zenon DEF Sends
  <2> QED
    BY <2>1, <2>2, Zenon
<1> QED
  BY <1>3, <1>4, <1>5, <1>6, Zenon

\* An answer that command accepts tells what the board did: a read that fell
\* short has too little data, a write that did leaves a residue.
LEMMA SendTruthful ==
    ASSUME Pinned, QueueInv, upc \in Flashing,
           NEW op, NEW lba, NEW count, NEW faulty \in BOOLEAN, NEW r, Sends(op, lba, count, faulty, r),
           op = PhaseOp, \A p \in Ports : DOMAIN flash[p] = 0..FlashSectors - 1,
           upc \in {"dump", "write"} =>
             lba \in Nat /\ count \in Nat \ {0} /\ lba + count <= FlashSectors
    PROVE  Len(pipe[found])' \in 0..StatusAt' /\ (Answered' => Truthful')
<1> DEFINE c == [op |-> op, lba |-> lba, count |-> count, tag |-> tag + 1]
<1>1. /\ held = found /\ held' = found /\ found' = found /\ found \in Ports /\ upc' = upc
      /\ DOMAIN flash = Ports
  BY Zenon DEF Pinned, Late, Flashing, Sends
<1>2. op \in ReadOps \cup OtherOps /\ op # "none"
  BY Zenon DEF PhaseOp, ReadOps, OtherOps
<1>3. cmd'.op = op /\ cmd'.lba = lba /\ cmd'.count = count /\ pipe'[found] = r
  <2>1. upc \in Flashing \cup {"reset"} /\ upc # "reset"
    BY Zenon DEF Flashing
  <2> QED
    BY <1>2, <2>1, SendQueues, Zenon
<1>4. DirectionIn(op) <=> op \in ReadOps
  BY <1>2, Zenon DEF DirectionIn, ReadOps, OtherOps
<1>5. /\ op \in ReadOps => Len(r) \in 1..2 /\ r[1].val = AnswerData(found, c, faulty)
      /\ op \notin ReadOps => Len(r) \in 0..1
      /\ op \notin ReadOps /\ Len(r) = 1 /\ faulty => ~r[1].ok \/ r[1].residue
  <2>1. r \in Replies(found, c, faulty)
    BY <1>1, Zenon DEF Sends
  <2> QED
    BY <1>4, <2>1, ReplyShape, SMT
<1>6. StatusAt' = IF op \in ReadOps THEN 2 ELSE 1
  BY <1>3, <1>4, Zenon DEF StatusAt
<1>7. Len(pipe[found])' \in 0..StatusAt'
  <2>1. Len(pipe[found])' = Len(r)
    BY <1>1, <1>3, Zenon
  <2>2. \A n \in 1..2 : n \in 0..2
    BY SMT
  <2> QED
    BY <1>5, <1>6, <2>1, <2>2, Zenon
<1>8. op \in ReadOps => Payload' = AnswerData(found, c, faulty)
  BY <1>1, <1>3, <1>4, <1>5, Zenon DEF Payload
<1>9. c.op = op /\ c.lba = lba /\ c.count = count
  OBVIOUS
<1> HIDE DEF c
<1>10. CASE upc = "info"
  <2>1. op = "READ_FLASH_INFO"
    BY <1>10, Zenon DEF PhaseOp
  <2>2. AnswerData(found, c, faulty) \in {<<0>>, <<FlashSectors>>}
    BY <1>9, <2>1, Zenon DEF AnswerData
  <2> QED
    BY <1>1, <1>7, <1>8, <1>10, <2>1, <2>2, Zenon DEF Truthful, ReadOps
<1>11. CASE upc = "dump"
  <2> SUFFICES ASSUME Answered' PROVE Payload' = Content(found, cmd)'
    BY <1>1, <1>7, <1>11, Zenon DEF Truthful
  <2>1. op = "READ_LBA" /\ op \in ReadOps
    BY <1>11, Zenon DEF PhaseOp, ReadOps
  <2>2. Len(Payload') = count
    BY <1>3, <1>4, <2>1, Zenon DEF Answered, Tolerant, Complete, Wanted
  <2>3. lba \in Nat /\ count \in Nat \ {0}
    BY <1>11, Zenon
  <2>4. AnswerData(found, c, faulty)
          = IF faulty THEN SubSeq(Content(found, c), 1, count - 1) ELSE Content(found, c)
    BY <1>9, <2>1, Zenon DEF AnswerData
  <2>5. Len(SubSeq(Content(found, c), 1, count - 1)) = count - 1
    <3> DEFINE S == {flash[found][l] : l \in Int}
    <3>1. Content(found, c) = [i \in 1..count |-> flash[found][lba + i - 1]]
      BY <1>9, Zenon DEF Content
    <3>2. \A i \in 1..count : flash[found][lba + i - 1] \in S
      BY <2>3, SMT
    <3>3. Content(found, c) \in [1..count -> S]
      BY <3>1, <3>2, Zenon
    <3> HIDE DEF S
    <3>4. Content(found, c) \in Seq(S) /\ Len(Content(found, c)) = count
      BY <2>3, <3>3, FunctionIsSeq, Zenon
    <3> QED
      BY <2>3, <3>4, SMT
  <2>6. count - 1 # count
    BY <2>3, SMT
  <2>7. Payload' = Content(found, c)
    BY <1>8, <2>1, <2>2, <2>4, <2>5, <2>6, Zenon
  <2>8. flash' = flash
    BY <1>9, <2>1, Zenon DEF Sends, Written, c
  <2>9. Content(found, cmd)' = Content(found, c)
    BY <1>1, <1>3, <1>9, <2>8, Zenon DEF Content
  <2> QED
    BY <2>7, <2>9, Zenon
<1>12. CASE upc = "write"
  <2> SUFFICES ASSUME Answered' PROVE InFlash(lba, lba + count)'
    BY <1>1, <1>3, <1>7, <1>12, Zenon DEF Truthful
  <2>1. op = "WRITE_LBA" /\ op \notin ReadOps
    BY <1>12, Zenon DEF PhaseOp, ReadOps
  <2>2. HasStatus' /\ Complete'
    BY <1>3, <2>1, Zenon DEF Answered, Tolerant
  <2>3. Len(r) >= 1
    BY <1>1, <1>3, <1>6, <2>1, <2>2, Zenon DEF HasStatus
  <2>4. Len(r) = 1
    BY <1>5, <2>1, <2>3, SMT
  <2>5. r[1].ok /\ ~r[1].residue
    BY <1>1, <1>3, <1>6, <2>1, <2>2, Zenon DEF Complete, Status, residue_is_meaningful
  <2>6. ~faulty
    BY <1>5, <2>1, <2>4, <2>5, Zenon
  <2>7. flash' = [flash EXCEPT ![found] = [l \in DOMAIN @ |->
                    IF l >= lba /\ l < lba + count - 0 THEN ImageSector(l) ELSE @[l]]]
    BY <1>1, <1>9, <2>1, <2>6, Zenon DEF Sends, Written, c
  <2>8. lba \in Nat /\ count \in Nat \ {0} /\ lba + count <= FlashSectors /\ FlashSectors \in Nat
    BY <1>12, UsbAssumption, Zenon
  <2>9. \A l \in lba..(lba + count) - 1 : l \in 0..FlashSectors - 1 /\ l >= lba /\ l < lba + count - 0
    BY <2>8, SMT
  <2>10. flash'[found] = [l \in 0..FlashSectors - 1 |->
                    IF l >= lba /\ l < lba + count - 0 THEN ImageSector(l) ELSE flash[found][l]]
    BY <1>1, <2>7, Zenon
  <2> QED
    <3>1. \A l \in lba..(lba + count) - 1 : flash'[found][l] = ImageSector(l)
      BY <2>9, <2>10, Zenon
    <3> QED
      BY <1>1, <3>1, Zenon DEF InFlash
<1> QED
  BY <1>1, <1>7, <1>10, <1>11, <1>12, Zenon DEF Truthful

\* The next transfer is within the flash.
LEMMA NextTransfer ==
    ASSUME Pinned, ResultInv, upc \in {"dump", "write"}, todo # <<>>
    PROVE  /\ Head(todo).lba \in Nat /\ Head(todo).count \in Nat \ {0}
           /\ Head(todo).lba + Head(todo).count <= FlashSectors
<1>1. PICK from \in Nat, to \in Nat : Splits(todo, from, to) /\ to <= FlashSectors
  <2>1. ureq.start \in Nat /\ ureq.sectors \in Nat /\ First0 \in Nat /\ Count0 \in Nat
    BY ExtentFacts, UsbAssumption, Zenon DEF Pinned
  <2>2. CASE upc = "dump"
    <3>1. PICK n \in 0..Count0 : Splits(todo, First0 + n, First0 + Count0)
      BY <2>2, Zenon DEF ResultInv
    <3>2. First0 + Count0 <= FlashSectors
      BY <2>2, Zenon DEF ResultInv
    <3>3. First0 + n \in Nat /\ First0 + Count0 \in Nat
      BY <2>1, SMT
    <3> QED
      BY <3>1, <3>2, <3>3, Zenon
  <2>3. CASE upc = "write"
    <3>1. PICK n \in 0..ureq.sectors : Splits(todo, ureq.start + n, ureq.start + ureq.sectors)
      BY <2>3, Zenon DEF ResultInv
    <3>2. ureq.cmd = "write"
      BY <2>3, Zenon DEF ResultInv, PhaseCmd, Flashing
    <3>3. ureq.start + ureq.sectors <= FlashSectors
      BY <3>2, UsbAssumption, Zenon DEF Pinned
    <3>4. ureq.start + n \in Nat /\ ureq.start + ureq.sectors \in Nat
      BY <2>1, SMT
    <3> QED
      BY <3>1, <3>3, <3>4, Zenon
  <2> QED
    BY <2>2, <2>3, Zenon
<1>2. Head(todo).lba = from /\ Head(todo).count \in Nat \ {0} /\ from + Head(todo).count <= to
  BY <1>1, SplitsTail, Zenon
<1>3. \A k \in Nat : from + k <= to => from + k <= FlashSectors
  BY <1>1, UsbAssumption, SMT
<1> QED
  BY <1>2, <1>3, Zenon

LEMMA SendKeepsWhole ==
    ASSUME Pinned, QueueInv, ResultInv, upc \in Flashing \cup {"reset"},
           NEW op, NEW lba, NEW count, NEW faulty \in BOOLEAN, NEW r, Sends(op, lba, count, faulty, r),
           upc = "reset" => op = "RESET_MASKROM", upc \in Flashing => op = PhaseOp,
           upc \in {"dump", "write"} =>
             todo # <<>> /\ lba = Head(todo).lba /\ count = Head(todo).count
    PROVE  QueueInv' /\ ResultInv'
<1>1. UNCHANGED <<upc, ureq, found, held, todo, part, outfile>>
  BY Zenon DEF Sends
<1>2. op # "none"
  BY Zenon DEF PhaseOp
<1>3. /\ \A p \in Ports : bus'[p] \in {"maskrom", "absent"} => pipe'[p] = <<>>
      /\ cmd' # NoCommand /\ cmd'.op = op /\ cmd'.lba = lba /\ cmd'.count = count
  <2>1. cmd' # NoCommand /\ cmd'.op = op /\ cmd'.lba = lba /\ cmd'.count = count
    BY <1>2, SendQueues, Zenon
  <2>2. ASSUME NEW p \in Ports, bus'[p] \in {"maskrom", "absent"} PROVE pipe'[p] = <<>>
    BY <1>2, <2>2, SendQueues, Zenon
  <2> QED
    BY <2>1, <2>2, Zenon
<1>4. PhaseOp' = PhaseOp
  BY <1>1, Zenon DEF PhaseOp
<1>5. ASSUME upc \in Flashing PROVE Len(pipe[found])' \in 0..StatusAt' /\ (Answered' => Truthful')
  <2>1. upc \in {"dump", "write"} => lba \in Nat /\ count \in Nat \ {0} /\ lba + count <= FlashSectors
    BY NextTransfer, Zenon
  <2>2. \A p \in Ports : DOMAIN flash[p] = 0..FlashSectors - 1
    BY Zenon DEF ResultInv
  <2>3. op = PhaseOp
    BY <1>5, Zenon
  <2> QED
    BY <1>5, <2>1, <2>2, <2>3, SendTruthful, SMT
<1>6. QueueInv'
  BY <1>1, <1>3, <1>4, <1>5, Zenon DEF QueueInv, Flashing
<1>7. CASE op # "WRITE_LBA"
  <2>1. flash' = flash
    <3>1. \A a, b, x : [op |-> op, lba |-> a, count |-> b, tag |-> x].op = op
      OBVIOUS
    <3> QED
      BY <1>7, <3>1, Zenon DEF Sends, Written
  <2> QED
    BY <1>1, <1>6, <2>1, ResultFrame, Zenon
<1>8. CASE op = "WRITE_LBA"
  <2>1. upc = "write" /\ upc \in Flashing
    BY <1>8, Zenon DEF PhaseOp, Flashing
  <2>2. ureq.cmd = "write" /\ held = found /\ found \in Ports /\ DOMAIN flash = Ports
    BY <2>1, Zenon DEF ResultInv, PhaseCmd, Flashing, Pinned, Late
  <2>3. \E u, v : flash' = [flash EXCEPT ![found] = [l \in DOMAIN @ |->
                              IF l >= u /\ l < v THEN ImageSector(l) ELSE @[l]]]
    <3> DEFINE c == [op |-> op, lba |-> lba, count |-> count, tag |-> tag + 1]
    <3>1. c.op = op
      OBVIOUS
    <3>2. flash' = Written(found, c, faulty)
      BY <2>2, Zenon DEF Sends
    <3> HIDE DEF c
    <3>3. flash' = [flash EXCEPT ![found] = [l \in DOMAIN @ |->
                      IF l >= c.lba /\ l < c.lba + c.count - (IF faulty THEN 1 ELSE 0)
                      THEN ImageSector(l) ELSE @[l]]]
      BY <1>8, <3>1, <3>2, Zenon DEF Written
    <3> QED
      BY <3>3, Zenon
  <2>4. \A p \in Ports : DOMAIN flash'[p] = 0..FlashSectors - 1
    BY <2>2, <2>3, Zenon DEF ResultInv
  <2>5. \A l \in 0..FlashSectors - 1 : flash'[found][l] \in {flash[found][l], ImageSector(l)}
    BY <2>2, <2>3, Zenon DEF ResultInv
  <2>6. PICK n \in 0..ureq.sectors :
            /\ InFlash(ureq.start, ureq.start + n)
            /\ Splits(todo, ureq.start + n, ureq.start + ureq.sectors)
    BY <2>1, Zenon DEF ResultInv
  <2>7. \A l \in ureq.start..(ureq.start + n) - 1 : l \in 0..FlashSectors - 1
    <3>1. ureq.start \in Nat /\ ureq.sectors \in Nat /\ ureq.start + ureq.sectors <= FlashSectors /\ FlashSectors \in Nat
      BY <2>2, UsbAssumption, Zenon DEF Pinned
    <3> QED
      BY <3>1, SMT
  <2>8. \A l \in ureq.start..(ureq.start + n) - 1 : flash'[found][l] = ImageSector(l)
    BY <2>5, <2>6, <2>7, Zenon DEF InFlash
  <2>9. InFlash(ureq.start, ureq.start + n)'
    BY <1>1, <2>8, Zenon DEF InFlash
  <2>10. PhaseCmd' = PhaseCmd
    BY <1>1, Zenon DEF PhaseCmd
  <2> QED
    BY <1>1, <1>6, <2>1, <2>2, <2>4, <2>6, <2>9, <2>10, Zenon DEF ResultInv
<1> QED
  BY <1>7, <1>8, Zenon

LEMMA SendCommandStep == ASSUME Pinned, QueueInv, ResultInv, SendCommand PROVE QueueInv' /\ ResultInv'
<1>1. ASSUME NEW phase \in Flashing \cup {"reset"}, NEW op, NEW lba, NEW count,
             Send(phase, op, lba, count), upc = "reset" => op = "RESET_MASKROM",
             upc \in Flashing => op = PhaseOp,
             upc \in {"dump", "write"} =>
               todo # <<>> /\ lba = Head(todo).lba /\ count = Head(todo).count
      PROVE  QueueInv' /\ ResultInv'
  <2>1. upc = phase /\ upc # "done"
    BY <1>1, SendCases, Zenon DEF Flashing
  <2>2. CASE \E reason : Raise(reason)
    BY <2>1, <2>2, RaiseKeepsWhole, Zenon
  <2>3. ASSUME NEW faulty \in BOOLEAN, NEW r, Sends(op, lba, count, faulty, r) PROVE QueueInv' /\ ResultInv'
    BY <1>1, <2>1, <2>3, SendKeepsWhole, SMT
  <2> QED
    BY <1>1, <2>2, <2>3, SendCases, Zenon
<1>2. CASE Send("reset", "RESET_MASKROM", 0, 0)
  <2>1. upc = "reset"
    BY <1>2, Zenon DEF Send
  <2> QED
    BY <1>1, <1>2, <2>1, Zenon DEF Flashing
<1>3. CASE Send("id", "READ_FLASH_ID", 0, 0)
  <2>1. upc = "id"
    BY <1>3, Zenon DEF Send
  <2> QED
    BY <1>1, <1>3, <2>1, Zenon DEF Flashing, PhaseOp
<1>4. CASE Send("info", "READ_FLASH_INFO", 0, 0)
  <2>1. upc = "info"
    BY <1>4, Zenon DEF Send
  <2> QED
    BY <1>1, <1>4, <2>1, Zenon DEF Flashing, PhaseOp
<1>5. CASE todo # <<>> /\ Send("dump", "READ_LBA", Head(todo).lba, Head(todo).count)
  <2>1. upc = "dump"
    BY <1>5, Zenon DEF Send
  <2> QED
    BY <1>1, <1>5, <2>1, Zenon DEF Flashing, PhaseOp
<1>6. CASE todo # <<>> /\ Send("write", "WRITE_LBA", Head(todo).lba, Head(todo).count)
  <2>1. upc = "write"
    BY <1>6, Zenon DEF Send
  <2> QED
    BY <1>1, <1>6, <2>1, Zenon DEF Flashing, PhaseOp
<1>7. CASE Send("restart", "RESET_NORMAL", 0, 0)
  <2>1. upc = "restart"
    BY <1>7, Zenon DEF Send
  <2> QED
    BY <1>1, <1>7, <2>1, Zenon DEF Flashing, PhaseOp
<1> QED
  BY <1>2, <1>3, <1>4, <1>5, <1>6, <1>7, Zenon DEF SendCommand

-----------------------------------------------------------------------------
(* An answer is read. *)

LEMMA ConsumeQueue ==
    ASSUME Pinned, QueueInv, upc \in Flashing \cup {"reset"}, Consume,
           upc' \notin {"upload", "reload"}, upc' \in Flashing => upc \in Flashing
    PROVE  QueueInv'
<1>1. held = found /\ found \in Ports /\ DOMAIN pipe = Ports
  BY Zenon DEF Pinned, Late, Flashing
<1>2. /\ cmd # NoCommand /\ cmd' = NoCommand /\ UNCHANGED <<found, bus>>
      /\ pipe' = [pipe EXCEPT ![found] = SubSeq(pipe[found], StatusAt + 1, Len(pipe[found]))]
  BY <1>1, Zenon DEF Consume
<1>3. \A k \in {1, 2} : \A s : Len(s) \in 0..k => SubSeq(s, k + 1, Len(s)) = <<>>
  <2>1. 1 \in Nat /\ 2 \in Nat
    BY SMT
  <2> QED
    BY <2>1, NothingLeft, Zenon
<1>4. ASSUME Len(pipe[found]) \in 0..StatusAt PROVE pipe'[found] = <<>>
  BY <1>1, <1>2, <1>3, <1>4, StatusPlace, Zenon
<1>5. upc \in Flashing => pipe'[found] = <<>>
  BY <1>2, <1>4, Zenon DEF QueueInv
<1>6. \A p \in Ports : bus'[p] \in {"maskrom", "absent"} => pipe'[p] = <<>>
  BY <1>1, <1>2, <1>4, StatusPlace, Zenon DEF QueueInv
<1> QED
  BY <1>2, <1>5, <1>6, Zenon DEF QueueInv

LEMMA ResetAnsweredStep == ASSUME Pinned, QueueInv, ResultInv, ResetAnswered PROVE QueueInv' /\ ResultInv'
<1>1. /\ upc = "reset" /\ upc' = "backrom" /\ Consume
      /\ UNCHANGED <<ureq, part, outfile, flash, found>>
  BY Zenon DEF ResetAnswered, Consume
<1>2. QueueInv'
  BY <1>1, ConsumeQueue, Zenon DEF Flashing
<1>3. ResultInv'
  BY <1>1, Zenon DEF ResultInv, Flashing
<1> QED
  BY <1>2, <1>3, Zenon

LEMMA LastAnsweredStep == ASSUME Pinned, QueueInv, ResultInv, LastAnswered PROVE QueueInv' /\ ResultInv'
<1>1. /\ upc \in {"id", "restart"} /\ upc' = "done" /\ Consume
      /\ UNCHANGED <<ureq, part, outfile, flash, found>>
  BY Zenon DEF LastAnswered, Consume
<1>2. QueueInv'
  BY <1>1, ConsumeQueue, Zenon DEF Flashing
<1>3. ureq.cmd # "dump" /\ (ureq.cmd = "write" => upc = "restart")
  BY <1>1, Zenon DEF ResultInv, PhaseCmd, Flashing
<1>4. \A a, b : InFlash(a, b)' = InFlash(a, b)
  BY <1>1, Zenon DEF InFlash
<1>5. ResultInv'
  BY <1>1, <1>3, <1>4, Zenon DEF ResultInv, Flashing
<1> QED
  BY <1>2, <1>5, Zenon

LEMMA InfoAnsweredStep == ASSUME Pinned, QueueInv, ResultInv, InfoAnswered PROVE QueueInv' /\ ResultInv'
<1>0. upc = "info" /\ cmd # NoCommand /\ Answered
  BY Zenon DEF InfoAnswered
<1>1. CASE \E reason : Raise(reason)
  BY <1>0, <1>1, RaiseKeepsWhole, Zenon
<1>2. CASE ~\E reason : Raise(reason)
  <2> DEFINE sectors == Payload[1]
             e == Extent(sectors)
  <2>1. /\ sectors > 0 /\ e[1] + e[2] <= sectors /\ Consume
        /\ part' = <<>> /\ todo' = split_lba_transfers(e[1], e[2]) /\ upc' = "dump" /\ outfile' = outfile
    BY <1>2, Zenon DEF InfoAnswered
  <2>2. UNCHANGED <<ureq, found, flash>>
    BY <2>1, Zenon DEF Consume
  <2>3. sectors = FlashSectors
    <3>1. Payload \in {<<0>>, <<FlashSectors>>}
      BY <1>0, Zenon DEF QueueInv, Truthful, Flashing
    <3>2. <<0>>[1] = 0 /\ <<FlashSectors>>[1] = FlashSectors /\ ~(0 > 0)
      BY SMT
    <3> QED
      BY <2>1, <3>1, <3>2, Zenon
  <2> HIDE DEF sectors, e
  <2>4. e[1] = First0 /\ e[2] = Count0
    BY <2>3, Zenon DEF e, First0, Count0
  <2>5. First0 + Count0 <= FlashSectors
    BY <2>1, <2>3, <2>4, Zenon
  <2>6. First0 \in Nat /\ Count0 \in Nat
    BY ExtentFacts, Zenon DEF Pinned
  <2>7. Splits(todo', First0, First0 + Count0)
    BY <2>1, <2>4, <2>6, SplitCovers, Zenon
  <2>8. First0 + 0 = First0 /\ 0 \in 0..Count0
    BY <2>6, SMT
  <2>9. First0' = First0 /\ Count0' = Count0
    BY <2>2, Zenon DEF First0, Count0, Extent
  <2>10. part' = Content(found, [lba |-> First0, count |-> 0])'
    <3>1. part' = Content(found, [lba |-> First0, count |-> 0])
      BY <2>1, NoContent, Zenon
    <3> QED
      BY <2>2, <2>9, <3>1, Zenon DEF Content
  <2>11. Splits(todo, First0 + 0, First0 + Count0)'
    BY <2>7, <2>8, <2>9, Zenon
  <2>12. ureq.cmd = "dump"
    BY <1>0, Zenon DEF ResultInv, PhaseCmd, Flashing
  <2>13. PhaseCmd' = "dump"
    BY <2>1, Zenon DEF PhaseCmd
  <2>14. ResultInv'
    BY <1>0, <2>1, <2>2, <2>5, <2>8, <2>9, <2>10, <2>11, <2>12, <2>13, Zenon DEF ResultInv
  <2>15. QueueInv'
    BY <1>0, <2>1, ConsumeQueue, Zenon DEF Flashing
  <2> QED
    BY <2>14, <2>15, Zenon
<1> QED
  BY <1>1, <1>2, Zenon

LEMMA SectorsReadStep == ASSUME Pinned, QueueInv, ResultInv, SectorsRead PROVE QueueInv' /\ ResultInv'
<1>1. /\ upc = "dump" /\ upc' = "dump" /\ Consume /\ part' = part \o Payload /\ todo' = Tail(todo)
      /\ UNCHANGED <<ureq, found, flash, outfile>>
  BY Zenon DEF SectorsRead, Consume
<1>2. QueueInv'
  BY <1>1, ConsumeQueue, Zenon DEF Flashing
<1>3. /\ todo # <<>> /\ cmd.lba = Head(todo).lba /\ cmd.count = Head(todo).count
      /\ Payload = Content(found, cmd)
  <2>1. cmd # NoCommand /\ Answered
    BY <1>1, Zenon DEF Consume
  <2> QED
    BY <1>1, <2>1, Zenon DEF QueueInv, Truthful, Flashing
<1>4. PICK n \in 0..Count0 :
              /\ part = Content(found, [lba |-> First0, count |-> n])
              /\ Splits(todo, First0 + n, First0 + Count0)
  BY <1>1, Zenon DEF ResultInv
<1>5. First0 \in Nat /\ Count0 \in Nat
  BY ExtentFacts, Zenon DEF Pinned
<1>6. n \in Nat /\ First0 + n \in Nat /\ First0 + Count0 \in Nat
  BY <1>5, SMT
<1>7. /\ cmd.lba = First0 + n /\ cmd.count \in Nat \ {0} /\ (First0 + n) + cmd.count <= First0 + Count0
      /\ Splits(Tail(todo), (First0 + n) + cmd.count, First0 + Count0)
  BY <1>3, <1>4, <1>6, SplitsTail, Zenon
<1>8. /\ (First0 + n) + cmd.count = First0 + (n + cmd.count) /\ n + cmd.count \in 0..Count0
      /\ cmd.count \in Nat
  BY <1>5, <1>6, <1>7, SMT
<1>9. part' = Content(found, [lba |-> First0, count |-> n + cmd.count])
  <2>1. Content(found, [lba |-> First0, count |-> n]) \o Content(found, cmd)
          = Content(found, [lba |-> First0, count |-> n + cmd.count])
    <3>1. First0 \in Nat /\ n \in Nat /\ cmd.lba = First0 + n /\ cmd.count \in Nat
      BY <1>5, <1>6, <1>7, <1>8, Zenon
    <3>2. Joins(found, First0, n, cmd)
      BY <3>1, ContentAppend, Zenon
    <3> QED
      BY <3>2 DEF Joins
  <2> QED
    BY <1>1, <1>3, <1>4, <2>1, Zenon
<1>10. First0' = First0 /\ Count0' = Count0 /\ PhaseCmd' = PhaseCmd
  BY <1>1, Zenon DEF First0, Count0, Extent, PhaseCmd
<1> DEFINE m == n + cmd.count
<1>11. m \in 0..Count0 /\ part' = Content(found, [lba |-> First0, count |-> m])
       /\ Splits(Tail(todo), First0 + m, First0 + Count0)
  BY <1>7, <1>8, <1>9, Zenon
<1> HIDE DEF m
<1>12. \A k : Content(found, [lba |-> First0, count |-> k])' = Content(found, [lba |-> First0, count |-> k])
  BY <1>1, <1>10, Zenon DEF Content
<1>13. \E k \in 0..Count0' : /\ part' = Content(found, [lba |-> First0, count |-> k])'
                             /\ Splits(todo, First0 + k, First0 + Count0)'
  BY <1>1, <1>10, <1>11, <1>12, Zenon
<1>14. ResultInv'
  BY <1>1, <1>10, <1>13, Zenon DEF ResultInv
<1> QED
  BY <1>2, <1>14, Zenon

LEMMA UsbDumpEndsStep == ASSUME Pinned, QueueInv, ResultInv, UsbDumpEnds PROVE QueueInv' /\ ResultInv'
<1>1. /\ upc = "dump" /\ upc' = "done" /\ todo = <<>> /\ outfile' = part /\ part' = NoFile
      /\ UNCHANGED <<ureq, found, flash, bus, pipe, cmd>>
  BY Zenon DEF UsbDumpEnds, device
<1>2. cmd = NoCommand
  BY <1>1, Zenon DEF QueueInv, Flashing
<1>3. QueueInv'
  BY <1>1, <1>2, Zenon DEF QueueInv, Flashing
<1>4. PICK n \in 0..Count0 :
              /\ part = Content(found, [lba |-> First0, count |-> n])
              /\ Splits(todo, First0 + n, First0 + Count0)
  BY <1>1, Zenon DEF ResultInv
<1>5. First0 + n = First0 + Count0
  BY <1>1, <1>4, Zenon DEF Splits
<1>6. n = Count0
  <2>1. First0 \in Nat /\ Count0 \in Nat
    BY ExtentFacts, Zenon DEF Pinned
  <2> QED
    BY <1>5, <2>1, SMT
<1>7. outfile' = Whole
  BY <1>1, <1>4, <1>6, Zenon DEF Whole
<1>8. First0' = First0 /\ Count0' = Count0
  BY <1>1, Zenon DEF First0, Count0, Extent
<1>9. Whole' = Whole
  BY <1>1, <1>8, Zenon DEF Whole, Content
<1>10. First0 + Count0 <= FlashSectors /\ ureq.cmd = "dump" /\ found \in Ports
  BY <1>1, Zenon DEF ResultInv, PhaseCmd, Flashing, Pinned, Late
<1>11. ResultInv'
  BY <1>1, <1>7, <1>8, <1>9, <1>10, Zenon DEF ResultInv, Flashing
<1> QED
  BY <1>3, <1>11, Zenon

LEMMA SectorsWrittenStep == ASSUME Pinned, QueueInv, ResultInv, SectorsWritten PROVE QueueInv' /\ ResultInv'
<1>1. /\ upc = "write" /\ upc' = (IF Len(todo) = 1 THEN "restart" ELSE "write")
      /\ Consume /\ todo' = Tail(todo)
      /\ UNCHANGED <<ureq, found, flash, outfile, part>>
  BY Zenon DEF SectorsWritten, Consume
<1>2. QueueInv'
  BY <1>1, ConsumeQueue, Zenon DEF Flashing
<1>3. /\ todo # <<>> /\ cmd.lba = Head(todo).lba /\ cmd.count = Head(todo).count
      /\ InFlash(cmd.lba, cmd.lba + cmd.count)
  <2>1. cmd # NoCommand /\ Answered
    BY <1>1, Zenon DEF Consume
  <2> QED
    BY <1>1, <2>1, Zenon DEF QueueInv, Truthful, Flashing
<1>5. PICK a \in Nat, z \in Nat : a = ureq.start /\ z = ureq.sectors
  BY UsbAssumption, Zenon DEF Pinned
<1>4. PICK n \in 0..z : InFlash(a, a + n) /\ Splits(todo, a + n, a + z)
  BY <1>1, <1>5, Zenon DEF ResultInv
<1>6. n \in Nat /\ a + n \in Nat /\ a + z \in Nat
  BY <1>5, SMT
<1>7. /\ cmd.lba = a + n /\ cmd.count \in Nat \ {0} /\ (a + n) + cmd.count <= a + z
      /\ Splits(Tail(todo), (a + n) + cmd.count, a + z)
      /\ Len(todo) = 1 => (a + n) + cmd.count = a + z
  <2>1. /\ Head(todo).lba = a + n /\ Head(todo).count \in Nat \ {0} /\ (a + n) + Head(todo).count <= a + z
        /\ Splits(Tail(todo), (a + n) + Head(todo).count, a + z)
        /\ Len(todo) = 1 => (a + n) + Head(todo).count = a + z
    BY <1>3, <1>4, <1>6, SplitsTail, Zenon
  <2> QED
    BY <1>3, <2>1, Zenon
<1>8. PICK m \in 0..z : (a + n) + cmd.count = a + m /\ m \in Nat
  <2>1. (a + n) + cmd.count = a + (n + cmd.count) /\ n + cmd.count \in 0..z /\ n + cmd.count \in Nat
    BY <1>5, <1>6, <1>7, SMT
  <2> QED
    BY <2>1, Zenon
<1>9. InFlash(a, a + m)
  <2>1. InFlash(a + n, a + m)
    BY <1>3, <1>7, <1>8, Zenon
  <2>2. \A l \in a..(a + m) - 1 : l \in a..(a + n) - 1 \/ l \in (a + n)..(a + m) - 1
    BY <1>5, <1>6, <1>8, SMT
  <2> QED
    BY <1>4, <2>1, <2>2, Zenon DEF InFlash
<1>10. \A u, v : InFlash(u, v)' = InFlash(u, v)
  BY <1>1, Zenon DEF InFlash
<1>11. ureq.cmd = "write" /\ PhaseCmd' = "write"
  BY <1>1, Zenon DEF ResultInv, PhaseCmd, Flashing
<1>12. InFlash(a, a + m)' /\ ureq.start' = a /\ ureq.sectors' = z
  BY <1>1, <1>5, <1>9, <1>10, Zenon
<1>13. CASE Len(todo) = 1
  <2>1. upc' = "restart" /\ InFlash(a, a + z)'
    BY <1>1, <1>7, <1>8, <1>12, <1>13, Zenon
  <2>2. InFlash(ureq.start, ureq.start + ureq.sectors)'
    BY <1>12, <2>1, Zenon
  <2>3. ResultInv'
    BY <1>1, <1>11, <2>1, <2>2, Zenon DEF ResultInv
  <2> QED
    BY <1>2, <2>3, Zenon
<1>14. CASE Len(todo) # 1
  <2>1. upc' = "write"
    BY <1>1, <1>14, Zenon
  <2>2. Splits(todo, a + m, a + z)'
    BY <1>1, <1>7, <1>8, <1>12, Zenon
  <2>3. \E k \in 0..ureq.sectors' : /\ InFlash(ureq.start, ureq.start + k)'
                                    /\ Splits(todo, ureq.start + k, ureq.start + ureq.sectors)'
    BY <1>12, <2>2, Zenon
  <2>4. ResultInv'
    BY <1>1, <1>11, <2>1, <2>3, Zenon DEF ResultInv
  <2> QED
    BY <1>2, <2>4, Zenon
<1> QED
  BY <1>13, <1>14, Zenon

-----------------------------------------------------------------------------
(* The other steps. *)

\* Outside the flash phases nothing is read or written.
LEMMA ElsewhereKeepsResult ==
    ASSUME ResultInv, upc \notin {"dump", "done"}, upc' \notin Flashing \cup {"done"},
           UNCHANGED <<ureq, part, outfile, flash>>
    PROVE  ResultInv'
  BY Zenon DEF ResultInv, Flashing

LEMMA OpenQueue ==
    ASSUME Pinned, QueueInv, upc \in {"find", "backrom", "reload"},
           NEW p \in Ports, NEW next, NEW plan, found' = p, open(p, next, plan),
           next = "reset" \/ pipe[p] = <<>>
    PROVE  QueueInv'
<1>1. /\ cmd = NoCommand /\ UNCHANGED <<cmd, bus>> /\ upc' = next /\ DOMAIN pipe = Ports
      /\ pipe' = [pipe EXCEPT ![p] = SubSeq(pipe[p], DrainMax + 1, Len(pipe[p]))]
  BY Zenon DEF open, QueueInv, Flashing, Pinned
<1>2. SubSeq(<<>>, DrainMax + 1, Len(<<>>)) = <<>>
  <2>1. DrainMax \in Nat
    BY UsbAssumption, Zenon
  <2>2. Len(<<>>) \in 0..DrainMax
    BY <2>1, SMT
  <2> QED
    BY <2>1, <2>2, NothingLeft, Zenon
<1>3. \A q \in Ports : pipe[q] = <<>> => pipe'[q] = <<>>
  BY <1>1, <1>2, Zenon
<1> QED
  BY <1>1, <1>3, Zenon DEF QueueInv, Flashing

LEMMA OpenKeeps ==
    ASSUME NEW p, NEW next, NEW plan, open(p, next, plan)
    PROVE  upc' = next /\ todo' = plan /\ UNCHANGED <<ureq, part, outfile, flash, bus>>
  BY Zenon DEF open

LEMMA FindBoardStep == ASSUME Pinned, QueueInv, ResultInv, FindBoard PROVE QueueInv' /\ ResultInv'
<1>1. upc = "find"
  BY Zenon DEF FindBoard
<1>2. CASE \E reason : Raise(reason)
  BY <1>1, <1>2, RaiseKeepsWhole, Zenon
<1>3. CASE ~\E reason : Raise(reason)
  <2>1. PICK p \in Ports :
          /\ OnlyMatch(ureq.path, {"maskrom", "loader"}, p) /\ found' = p
          /\ IF bus[p] = "loader" THEN open(p, "reset", <<>>) ELSE open(p, "upload", UploadPlan(ureq))
    BY <1>3, Zenon DEF FindBoard, wait_for_device
  <2>2. bus[p] # "loader" => pipe[p] = <<>>
    BY <2>1, Zenon DEF OnlyMatch, QueueInv
  <2>3. QueueInv'
    BY <1>1, <2>1, <2>2, OpenQueue, Zenon
  <2>4. upc' \in {"reset", "upload"} /\ UNCHANGED <<ureq, part, outfile, flash>>
    BY <2>1, OpenKeeps, Zenon
  <2>5. ResultInv'
    BY <1>1, <2>4, ElsewhereKeepsResult, Zenon DEF Flashing
  <2> QED
    BY <2>3, <2>5, Zenon
<1> QED
  BY <1>2, <1>3, Zenon

LEMMA ReturnStep == ASSUME Pinned, QueueInv, ResultInv, return_to_maskrom PROVE QueueInv' /\ ResultInv'
<1>1. upc = "backrom" /\ found \in Ports
  BY Zenon DEF return_to_maskrom, Reacquire, Pinned, Late
<1>2. CASE \E reason : Raise(reason)
  BY <1>1, <1>2, RaiseKeepsWhole, Zenon
<1>3. CASE ~\E reason : Raise(reason)
  <2>1. /\ OnlyMatch(found, {"maskrom"}, found) /\ found' = found
        /\ open(found, "upload", UploadPlan(ureq))
    BY <1>3, Zenon DEF return_to_maskrom, Reacquire
  <2>2. pipe[found] = <<>>
    BY <1>1, <2>1, Zenon DEF OnlyMatch, QueueInv
  <2>3. QueueInv'
    BY <1>1, <2>1, <2>2, OpenQueue, Zenon
  <2>4. upc' = "upload" /\ UNCHANGED <<ureq, part, outfile, flash>>
    BY <2>1, OpenKeeps, Zenon
  <2>5. ResultInv'
    BY <1>1, <2>4, ElsewhereKeepsResult, Zenon DEF Flashing
  <2> QED
    BY <2>3, <2>5, Zenon
<1> QED
  BY <1>2, <1>3, Zenon

LEMMA AwaitLoaderStep == ASSUME Pinned, QueueInv, ResultInv, AwaitLoader PROVE QueueInv' /\ ResultInv'
<1> DEFINE plan == IF ureq.cmd = "write" THEN split_lba_transfers(ureq.start, ureq.sectors) ELSE <<>>
<1>1. upc = "reload" /\ found \in Ports /\ pipe[found] = <<>> /\ ureq \in UsbRequests
  BY Zenon DEF AwaitLoader, Reacquire, Pinned, Late, QueueInv
<1>2. CASE \E reason : Raise(reason)
  BY <1>1, <1>2, RaiseKeepsWhole, Zenon
<1>3. CASE ~\E reason : Raise(reason)
  <2>1. found' = found /\ open(found, FlashPhase, plan)
    BY <1>3, Zenon DEF AwaitLoader, Reacquire
  <2> HIDE DEF plan
  <2>2. QueueInv'
    BY <1>1, <2>1, OpenQueue, Zenon
  <2>3. upc' = FlashPhase /\ todo' = plan /\ UNCHANGED <<ureq, part, outfile, flash>>
    BY <2>1, OpenKeeps, Zenon
  <2>4. ureq.cmd \in {"burn", "dump", "write"} /\ ureq.start \in Nat /\ ureq.sectors \in Nat
    BY <1>1, UsbAssumption, Zenon
  <2>5. upc' \in {"id", "info", "write"} /\ PhaseCmd' = ureq.cmd /\ (upc' = "write" => ureq.cmd = "write")
    BY <2>3, <2>4, Zenon DEF FlashPhase, PhaseCmd
  <2>6. ureq.start + 0 = ureq.start /\ 0 \in 0..ureq.sectors /\ ureq.start..(ureq.start + 0) - 1 = {}
    BY <2>4, SMT
  <2>7. InFlash(ureq.start, ureq.start + 0)'
    BY <2>3, <2>6, Zenon DEF InFlash
  <2>8. upc' = "write" => Splits(todo, ureq.start + 0, ureq.start + ureq.sectors)'
    BY <2>3, <2>4, <2>5, <2>6, SplitCovers, Zenon DEF plan
  <2>9. upc' = "write" =>
          \E k \in 0..ureq.sectors' : /\ InFlash(ureq.start, ureq.start + k)'
                                      /\ Splits(todo, ureq.start + k, ureq.start + ureq.sectors)'
    BY <2>3, <2>6, <2>7, <2>8, Zenon
  <2>10. ResultInv'
    BY <1>1, <2>3, <2>5, <2>9, Zenon DEF ResultInv
  <2> QED
    BY <2>2, <2>10, Zenon
<1> QED
  BY <1>2, <1>3, Zenon

\* Resolving the files, the power, the upload and errors.
LEMMA PlainStep ==
    ASSUME Pinned, QueueInv, ResultInv,
           _resolve_usb_loader \/ PowerCycle \/ control_write \/ download_boot \/ CommandFails
    PROVE  QueueInv' /\ ResultInv'
<1>1. CASE _resolve_usb_loader
  <2>1. /\ upc = "resolve"
        /\ \/ upc' \in {"power", "find"} /\ UNCHANGED <<host, device>>
           \/ \E reason : Raise(reason)
    BY <1>1, Zenon DEF _resolve_usb_loader
  <2>2. CASE \E reason : Raise(reason)
    BY <2>1, <2>2, RaiseKeepsWhole, Zenon
  <2>3. CASE upc' \in {"power", "find"} /\ UNCHANGED <<host, device>>
    <3>1. UNCHANGED <<ureq, found, cmd, part, outfile, bus, pipe, flash>>
      BY <2>3, Zenon DEF host, device
    <3> QED
      BY <2>1, <2>3, <3>1, ElsewhereKeepsResult, Zenon DEF QueueInv, Flashing
  <2> QED
    BY <2>1, <2>2, <2>3, Zenon
<1>2. CASE PowerCycle
  <2>1. /\ upc = "power"
        /\ \/ \E reason : Raise(reason)
           \/ /\ bus' = [bus EXCEPT ![ureq.board] = "to_maskrom"]
              /\ upc' = "find" /\ UNCHANGED <<ureq, found, cmd, part, outfile, pipe, flash>>
    BY <1>2, Zenon DEF PowerCycle, host
  <2>2. CASE \E reason : Raise(reason)
    BY <2>1, <2>2, RaiseKeepsWhole, Zenon
  <2>3. CASE ~\E reason : Raise(reason)
    <3>1. DOMAIN bus = Ports
      BY Zenon DEF Pinned
    <3>2. \A p \in Ports : bus'[p] \in {"maskrom", "absent"} => pipe'[p] = <<>>
      BY <2>1, <2>3, <3>1, Zenon DEF QueueInv
    <3>3. QueueInv'
      BY <2>1, <2>3, <3>2, Zenon DEF QueueInv, Flashing
    <3> QED
      BY <2>1, <2>3, <3>3, ElsewhereKeepsResult, Zenon DEF Flashing
  <2> QED
    BY <2>2, <2>3, Zenon
<1>3. CASE control_write
  <2>1. CASE \E reason : Raise(reason)
    BY <1>3, <2>1, RaiseKeepsWhole, Zenon DEF control_write
  <2>2. CASE ~\E reason : Raise(reason)
    <3>1. /\ upc = "upload" /\ upc' = "upload" /\ bus[held] = "maskrom"
          /\ UNCHANGED <<ureq, found, cmd, part, outfile, pipe, flash>>
      BY <1>3, <2>2, Zenon DEF control_write
    <3>2. \E m : bus' = [bus EXCEPT ![held] = m]
      BY <1>3, <2>2, Zenon DEF control_write
    <3>3. held = found /\ found \in Ports /\ DOMAIN bus = Ports
      BY <3>1, Zenon DEF Pinned, Late
    <3>4. \A p \in Ports : bus'[p] \in {"maskrom", "absent"} => pipe'[p] = <<>>
      BY <3>1, <3>2, <3>3, Zenon DEF QueueInv
    <3>5. QueueInv'
      BY <3>1, <3>4, Zenon DEF QueueInv, Flashing
    <3> QED
      BY <3>1, <3>5, ElsewhereKeepsResult, Zenon DEF Flashing
  <2> QED
    BY <2>1, <2>2, Zenon
<1>4. CASE download_boot
  <2>1. /\ upc = "upload" /\ upc' = "reload"
        /\ UNCHANGED <<ureq, found, cmd, part, outfile, bus, pipe, flash>>
    BY <1>4, Zenon DEF download_boot, device
  <2> QED
    BY <2>1, ElsewhereKeepsResult, Zenon DEF QueueInv, Flashing
<1>5. CASE CommandFails
  <2>1. upc # "done"
    BY <1>5, Zenon DEF CommandFails, QueueInv, Flashing
  <2> QED
    BY <1>5, <2>1, FailKeepsWhole, RaiseKeepsWhole, Zenon DEF CommandFails
<1> QED
  BY <1>1, <1>2, <1>3, <1>4, <1>5, Zenon

\* Boards come and go: what a board has queued goes with it.
LEMMA BusStep ==
    ASSUME Pinned, QueueInv, ResultInv, NEW p \in Ports, Enumerate(p) \/ PlugIn(p) \/ Unplug(p)
    PROVE  QueueInv' /\ ResultInv'
<1>1. UNCHANGED <<upc, ureq, found, held, cmd, tag, todo, part, outfile, flash>>
  BY Zenon DEF Enumerate, PlugIn, Unplug, host
<1>2. DOMAIN bus = Ports /\ DOMAIN pipe = Ports
  BY Zenon DEF Pinned
<1>3. /\ \A q \in Ports : pipe'[q] \in {pipe[q], <<>>}
      /\ \A q \in Ports : bus'[q] \in {"maskrom", "absent"} => pipe'[q] = <<>>
  <2>1. CASE Enumerate(p) \/ Unplug(p)
    <3>1. pipe' = [pipe EXCEPT ![p] = <<>>] /\ \E m : bus' = [bus EXCEPT ![p] = m]
      BY <2>1, Zenon DEF Enumerate, Unplug
    <3> QED
      BY <1>2, <3>1, Zenon DEF QueueInv
  <2>2. CASE PlugIn(p)
    <3>1. pipe' = pipe /\ bus[p] = "absent" /\ \E m : bus' = [bus EXCEPT ![p] = m]
      BY <2>2, Zenon DEF PlugIn
    <3> QED
      BY <1>2, <3>1, Zenon DEF QueueInv
  <2> QED
    BY <2>1, <2>2, Zenon
<1>4. QueueInv'
  BY <1>1, <1>3, PipeStep, Zenon
<1>5. ResultInv'
  BY <1>1, ResultFrame, Zenon
<1> QED
  BY <1>4, <1>5, Zenon

LEMMA WholeStep ==
    Pinned /\ QueueInv /\ ResultInv /\ [UsbNext]_usbVars => QueueInv' /\ ResultInv'
<1> SUFFICES ASSUME Pinned, QueueInv, ResultInv, [UsbNext]_usbVars PROVE QueueInv' /\ ResultInv'
  BY Zenon
<1>1. CASE UsbHost
  BY <1>1, PlainStep, FindBoardStep, ReturnStep, AwaitLoaderStep, SendCommandStep, ResetAnsweredStep,
     LastAnsweredStep, InfoAnsweredStep, SectorsReadStep, UsbDumpEndsStep, SectorsWrittenStep, Zenon
     DEF UsbHost
<1>2. CASE \E p \in Ports : Enumerate(p) \/ PlugIn(p) \/ Unplug(p)
  BY <1>2, BusStep, Zenon
<1>3. CASE UNCHANGED usbVars
  <2>1. UNCHANGED <<upc, ureq, found, held, cmd, tag, todo, part, outfile, flash, bus, pipe>>
    BY <1>3, Zenon DEF usbVars, host, device
  <2>2. \A q \in Ports : pipe'[q] \in {pipe[q], <<>>} /\ (bus'[q] \in {"maskrom", "absent"} => pipe'[q] = <<>>)
    BY <2>1, Zenon DEF QueueInv
  <2> QED
    BY <2>1, <2>2, PipeStep, ResultFrame, Zenon
<1> QED
  BY <1>1, <1>2, <1>3, Zenon DEF UsbNext

LEMMA WholeSuffices == Pinned /\ ResultInv => UsbResultWhole
<1> SUFFICES ASSUME Pinned, ResultInv PROVE UsbResultWhole
  BY Zenon
<1>1. upc = "done" /\ ureq.cmd = "dump" => outfile = Whole /\ Whole # OldFile
  BY WholeIsNew, Zenon DEF ResultInv, Pinned
<1>2. ~(upc = "done" /\ ureq.cmd = "dump") => outfile = OldFile
  BY Zenon DEF ResultInv
<1>3. Whole = Content(found, [lba |-> Extent(FlashSectors)[1], count |-> Extent(FlashSectors)[2]])
  BY Zenon DEF Whole, First0, Count0
<1>4. upc = "done" /\ ureq.cmd = "write" => InFlash(ureq.start, ureq.start + ureq.sectors)
  BY Zenon DEF ResultInv
<1>5. ureq.start + (ureq.sectors - 1) = (ureq.start + ureq.sectors) - 1
  <2>1. ureq.start \in Nat /\ ureq.sectors \in Nat
    BY UsbAssumption, Zenon DEF Pinned
  <2> QED
    BY <2>1, SMT
<1>6. UsbEnded => part = NoFile
  BY Zenon DEF ResultInv, UsbEnded
<1> QED
  BY <1>1, <1>2, <1>3, <1>4, <1>5, <1>6, Zenon DEF UsbResultWhole, InFlash

\* Transfers fall short, statuses are lost, packets of an earlier process are
\* queued and boards come and go: a backup that takes the old one's place is
\* the whole extent of the board found first, a write that is reported is in
\* its flash, and no partial file is left (command, dump_image, write_image,
\* _dump_flash_usb_async).
THEOREM UsbResultIsWhole == UsbSpec => []UsbResultWhole
<1>1. UsbInit => Pinned /\ QueueInv /\ ResultInv
  BY PinnedInit, WholeInit
<1>2. Pinned /\ QueueInv /\ ResultInv /\ [UsbNext]_usbVars => (Pinned /\ QueueInv /\ ResultInv)'
  BY PinnedStep, WholeStep
<1>3. Pinned /\ QueueInv /\ ResultInv => UsbResultWhole
  BY WholeSuffices
<1> QED
  BY <1>1, <1>2, <1>3, PTL DEF UsbSpec
=============================================================================
