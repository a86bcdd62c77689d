------------------------- MODULE FlashStreamProofs -------------------------
(***************************************************************************)
(* The inductive invariant of FlashStream, what the steps of host, agent   *)
(* and line do to it, and the theorems about `defib agent flash` that      *)
(* follow from it, for every image, chip geometry and number of faults.    *)
(*                                                                         *)
(* The invariant says how far host and agent can be apart: the host never  *)
(* sends a page of a sector the agent has passed, and the position of a    *)
(* page on the wire and in the buffer bounds its number from below and     *)
(* from above, so that a buffer that is full holds every page of the       *)
(* sector at its place.                                                    *)
(***************************************************************************)
EXTENDS FlashStream, TLAPS

Streaming == apc \in {"sector", "program"}

(* Sectors reported to the host, and pages of the next one in the buffer. *)
Reported == IF apc = "program" THEN asec + 1 ELSE asec
InBuffer == IF apc = "program" THEN 0 ELSE got

SectorOK(s) == \A p \in 0..SectorPages(s)-1 : flash[s][p] = Image[s][p]

(* Host: what has been sent of sector hs. *)
HostInv ==
    /\ hpc \in {"stream", "prog"} =>
         /\ hs < ImgSectors
         /\ sent <= SectorPages(hs)
         /\ ~Dirty(hs) => sent = 0
         /\ hpc = "prog" /\ Dirty(hs) => sent = SectorPages(hs)
    /\ hpc \in {"start", "ack"} => hs = 0 /\ sent = 0
    /\ hpc = "final" => hs = ImgSectors /\ sent = 0

(* Which commands can be on the wire, and when the agent is at work. *)
WireInv ==
    /\ hpc = "start" => apc = "main" /\ h2d = <<>> /\ d2h = <<>>
    /\ Streaming => hpc \in {"ack", "stream", "prog", "final"}
    /\ apc = "off" => hpc = "done"
    /\ \A i \in 1..Len(h2d) :
         /\ h2d[i].type = "STREAM" =>
              hpc = "ack" /\ apc = "main" /\ Len(h2d) = 1 /\ d2h = <<>>
         /\ h2d[i].type = "CRC" => hpc \in {"crc", "done"}
         /\ h2d[i].type = "REBOOT" => hpc = "done"
         /\ h2d[i].type = "DATA" =>
              /\ hpc \in {"stream", "prog"} /\ h2d[i].sec = hs /\ Dirty(hs)
              /\ \A j \in 1..Len(d2h) : d2h[j].type # "DATA"

(* Nothing is left to be sent of the first n sectors. *)
SentThrough(n) ==
    \A s \in 0..n-1 : Dirty(s) => s < hs \/ (s = hs /\ sent = SectorPages(hs))

(* Progress packets: in order, ahead of the host, and only past sectors     *)
(* whose pages the host has sent.                                           *)
ProgressInv ==
    /\ \A i \in 1..Len(d2h) : d2h[i].type = "DATA" =>
         /\ hs < d2h[i].done
         /\ Streaming => d2h[i].done <= Reported
         /\ \A j \in i+1..Len(d2h) : d2h[j].type = "DATA" => d2h[i].done < d2h[j].done
         /\ SentThrough(d2h[i].done)
    /\ Streaming => SentThrough(Reported)

(* Where the pages of sector hs are. *)
PageInv ==
    Streaming =>
      /\ hs <= Reported
      /\ Reported > hs => h2d = <<>> /\ InBuffer = 0
      /\ Reported = hs =>
           /\ InBuffer + Len(h2d) <= sent
           /\ \A i \in 1..Len(h2d) : h2d[i].type = "DATA" =>
                InBuffer + i - 1 <= h2d[i].page /\ h2d[i].page <= sent - 1 - (Len(h2d) - i)
           /\ \A j \in 0..InBuffer-1 :
                \E q \in j..(sent - Len(h2d) - InBuffer + j) : buf[rx][j] = Image[hs][q]

(* The agent's buffers. *)
BufferInv ==
    Streaming =>
      /\ apc = "program" =>
           /\ asec < ImgSectors /\ Dirty(asec)
           /\ \A p \in 0..SectorPages(asec)-1 : buf[rx][p] = Image[asec][p]
      /\ pending # -1 =>
           /\ pending = 1 - rx /\ psec < asec
           /\ \A p \in 0..SectorPages(psec)-1 : buf[pending][p] = Image[psec][p]
      /\ spoiled = {} => \A s \in 0..asec-1 : SectorOK(s) \/ (pending # -1 /\ s = psec)

(* What the host may conclude from an answer. *)
AnswerInv ==
    /\ \A i \in 1..Len(d2h) :
         /\ d2h[i] = Ack("ok") /\ (i > 1 \/ hpc # "ack") =>
              /\ ~Streaming /\ (spoiled = {} => Matches)
              /\ hpc \notin {"crc", "done"} => h2d = <<>> /\ SentThrough(ImgSectors)
         /\ d2h[i].type = "CRC32" => hpc \in {"crc", "done"} /\ d2h[i].crc = View(flash)
    /\ hpc \in {"crc", "done"} => ~Streaming /\ (spoiled = {} => Matches)
    /\ hpc = "done" /\ Verify => Matches

Sync == HostInv /\ WireInv /\ ProgressInv /\ PageInv /\ BufferInv /\ AnswerInv

(* Only a host that is done has sent REBOOT. *)
RebootInv ==
    /\ apc = "off" => hpc = "done"
    /\ \A i \in 1..Len(h2d) : h2d[i].type = "REBOOT" => hpc = "done"

Inv == TypeOK /\ RebootInv /\ (hpc # "fail" => Sync)
-----------------------------------------------------------------------------
(* What losing a packet leaves of a queue. *)
LEMMA WithoutFacts ==
    ASSUME NEW S, NEW q \in Seq(S), NEW i \in 1..Len(q)
    PROVE  /\ Without(q, i) \in Seq(S)
           /\ Len(Without(q, i)) = Len(q) - 1
           /\ \A j \in 1..Len(q)-1 :
                Without(q, i)[j] = IF j < i THEN q[j] ELSE q[j+1]
BY DEF Without

(* What receiving a packet leaves of a queue. *)
LEMMA TailFacts ==
    ASSUME NEW S, NEW q \in Seq(S), q # <<>>
    PROVE  /\ Tail(q) \in Seq(S) /\ Head(q) \in S /\ Head(q) = q[1]
           /\ Len(q) \in Nat \ {0} /\ Len(Tail(q)) = Len(q) - 1
           /\ \A j \in 1..Len(q)-1 : Tail(q)[j] = q[j+1]
OBVIOUS

(* What sending a packet makes of a queue. *)
LEMMA AppendFacts ==
    ASSUME NEW S, NEW q \in Seq(S), NEW e \in S
    PROVE  /\ Append(q, e) \in Seq(S)
           /\ Len(Append(q, e)) = Len(q) + 1
           /\ \A j \in 1..Len(q) : Append(q, e)[j] = q[j]
           /\ Append(q, e)[Len(q) + 1] = e
OBVIOUS

(* Every packet that is sent is one of the protocol. *)
LEMMA PacketTypes ==
    /\ Cmd("STREAM") \in ToDevice /\ Cmd("CRC") \in ToDevice /\ Cmd("REBOOT") \in ToDevice
    /\ Bad \in ToDevice
    /\ \A s \in ImgSector, p \in Page : DataPkt(s, p) \in ToDevice
    /\ Ack("ok") \in ToHost /\ Ack("crc") \in ToHost /\ Ack("flash") \in ToHost
    /\ \A n \in 1..ImgSectors : Progress(n) \in ToHost
    /\ \A v \in [ImgSector -> [Page -> Val]] : CrcReply(v) \in ToHost
BY Zenon DEF Cmd, Bad, DataPkt, Ack, Progress, CrcReply, ToDevice, ToHost

(* The number of image pages of a sector. *)
LEMMA SectorPagesFacts ==
    \A s : SectorPages(s) \in 1..SecPages /\ SectorPages(s) \in Nat /\ SecPages \in Nat
BY FlashAssumption DEF SectorPages

(* A CRC32 reply is well formed. *)
LEMMA ViewType == ASSUME TypeOK PROVE View(flash) \in [ImgSector -> [Page -> Val]]
BY FlashAssumption DEF TypeOK, View, ImgSector, Sector, Page, Val
(* Type correctness is inductive by itself. *)
LEMMA TypeStep == TypeOK /\ [Next]_vars => TypeOK'
<1> SUFFICES ASSUME TypeOK, [Next]_vars PROVE TypeOK'
  BY Zenon
<1> USE FlashAssumption, SectorPagesFacts, PacketTypes
<1>1. CASE SendStream
  BY <1>1 DEF SendStream, TypeOK, stream
<1>2. CASE RecvFirstAck
  BY <1>2 DEF RecvFirstAck, TypeOK, stream
<1>3. CASE SendPage
  BY <1>3 DEF SendPage, TypeOK, stream, Page, ImgSector
<1>4. CASE SectorSent
  BY <1>4, Zenon DEF SectorSent, TypeOK, stream
<1>a. ASSUME NEW m, AckEndsWrite(m)
      PROVE  /\ h2d' \in Seq(ToDevice) /\ hpc' \in {"crc", "done", "fail"}
             /\ hs' = hs /\ sent' = sent
  <2>1. CASE WriteDone
    <3>1. (IF Verify THEN Cmd("CRC") ELSE Cmd("REBOOT")) \in ToDevice
      BY Zenon
    <3> QED BY <2>1, <3>1 DEF WriteDone, TypeOK
  <2>2. CASE ~WriteDone
    BY <1>a, <2>2, Zenon DEF AckEndsWrite, TypeOK
  <2> QED BY <2>1, <2>2, Zenon
<1>5. CASE RecvProgress
  <2>1. d2h' \in Seq(ToHost)
    BY <1>5 DEF RecvProgress, TypeOK
  <2>2. CASE Head(d2h).type = "DATA" /\ UNCHANGED h2d /\ hs' = hs + 1 /\ sent' = 0
    BY <1>5, <2>1, <2>2 DEF RecvProgress, TypeOK, stream
  <2>3. CASE AckEndsWrite(Head(d2h))
    BY <1>5, <2>1, <2>3, <1>a, Zenon DEF RecvProgress, TypeOK, stream
  <2> QED BY <1>5, <2>2, <2>3, Zenon DEF RecvProgress
<1>6. CASE RecvFinal
  <2>1. d2h' \in Seq(ToHost)
    BY <1>6 DEF RecvFinal, TypeOK
  <2>2. CASE UNCHANGED <<hpc, hs, sent, h2d>>
    BY <1>6, <2>1, <2>2, Zenon DEF RecvFinal, TypeOK, stream
  <2>3. CASE AckEndsWrite(Head(d2h))
    BY <1>6, <2>1, <2>3, <1>a, Zenon DEF RecvFinal, TypeOK, stream
  <2> QED BY <1>6, <2>2, <2>3, Zenon DEF RecvFinal
<1>7. CASE RecvCrc
  <2>a. d2h' \in Seq(ToHost)
    BY <1>7 DEF RecvCrc, TypeOK
  <2>b. Append(h2d, Cmd("REBOOT")) \in Seq(ToDevice)
    BY DEF TypeOK
  <2>1. d2h' \in Seq(ToHost) /\ h2d' \in Seq(ToDevice) /\ hpc' \in {"done", "fail"}
    BY <1>7, <2>a, <2>b, Zenon DEF RecvCrc, TypeOK
  <2> QED BY <1>7, <2>1, Zenon DEF RecvCrc, TypeOK, stream
<1>8. CASE HostTimeout
  BY <1>8 DEF HostTimeout, Fault, TypeOK, stream
<1>9. CASE AgentStart \/ AgentReject \/ AgentCrc \/ AgentReboot \/ AgentUnknown \/ AgentIdle
  <2>1. CrcReply(View(flash)) \in ToHost
    BY ViewType, Zenon
  <2>2. CASE AgentStart
    BY <2>2 DEF AgentStart, Receive, TypeOK, host
  <2>3. CASE AgentCrc
    BY <2>1, <2>3 DEF AgentCrc, Receive, TypeOK, stream, host
  <2>4. CASE AgentReject
    BY <2>4 DEF AgentReject, Receive, TypeOK, stream, host
  <2>5. CASE AgentReboot
    BY <2>5 DEF AgentReboot, Receive, TypeOK, stream, host
  <2>6. CASE AgentUnknown
    BY <2>6 DEF AgentUnknown, Receive, TypeOK, stream, host
  <2>7. CASE AgentIdle
    BY <2>7 DEF AgentIdle, Receive, TypeOK, stream, host
  <2> QED BY <1>9, <2>2, <2>3, <2>4, <2>5, <2>6, <2>7, Zenon
<1>10. CASE AgentRecv
  <2>1. Head(h2d) \in ToDevice /\ h2d' \in Seq(ToDevice)
    BY <1>10 DEF AgentRecv, TypeOK
  <2>2. Head(h2d).type = "DATA" => Image[Head(h2d).sec][Head(h2d).page] \in Val
    BY <2>1 DEF ToDevice, ImgSector, Page, Val
  <2>3. CASE Head(h2d).type = "DATA"
    <3>1. buf' = [buf EXCEPT ![rx][got] = Image[Head(h2d).sec][Head(h2d).page]] /\ got' = got + 1
      BY <1>10, <2>3, Zenon DEF AgentRecv
    <3>2. buf' \in [0..1 -> [Page -> Val]] /\ got' \in 0..SecPages
      <4>1. got \in Page /\ rx \in 0..1 /\ buf \in [0..1 -> [Page -> Val]] /\ got + 1 \in 0..SecPages
        BY <1>10, SMTT(30) DEF AgentRecv, TypeOK, Page
      <4>2. \A v \in Val : [buf EXCEPT ![rx][got] = v] \in [0..1 -> [Page -> Val]]
        BY <4>1, Zenon
      <4> QED BY <2>2, <2>3, <3>1, <4>1, <4>2, Zenon
    <3>3. UNCHANGED <<apc, d2h>>
      BY <1>10, <2>3 DEF AgentRecv, Bad
    <3> QED BY <1>10, <2>1, <3>2, <3>3, Zenon DEF AgentRecv, TypeOK, host
  <2>4. CASE Head(h2d).type # "DATA"
    <3>1. UNCHANGED <<buf, got>>
      BY <1>10, <2>4, Zenon DEF AgentRecv
    <3>2. Append(d2h, Ack("flash")) \in Seq(ToHost)
      BY DEF TypeOK
    <3>3. d2h' \in Seq(ToHost) /\ apc' \in {"sector", "main"}
      BY <1>10, <3>2, Zenon DEF AgentRecv, AbortTransfer, TypeOK
    <3> QED BY <1>10, <2>1, <3>1, <3>3, Zenon DEF AgentRecv, TypeOK, host
  <2> QED BY <2>3, <2>4, Zenon
<1>11. CASE AgentRecvTimeout
  BY <1>11, SMTT(30) DEF AgentRecvTimeout, AbortTransfer, Fault, TypeOK, stream, host
<1>12. CASE AgentProgress
  BY <1>12 DEF AgentProgress, TypeOK, stream, host
<1>13. ASSUME NEW s \in ImgSector, NEW b \in [Page -> Val], EraseAndProgram(s, b)
       PROVE  (flash \in [Sector -> [Page -> Val]] /\ spoiled \in SUBSET ImgSector /\ faults \in 0..MaxFaults)'
  <2>1. Programmed(flash, s, b) \in [Sector -> [Page -> Val]]
    BY Zenon DEF Programmed, TypeOK, Val, Page
  <2>2. \A p : [Programmed(flash, s, b) EXCEPT ![s][p] = Junk] \in [Sector -> [Page -> Val]]
    BY <2>1, Zenon DEF Val
  <2>3. CASE flash' = Programmed(flash, s, b) /\ UNCHANGED <<spoiled, faults>>
    BY <2>1, <2>3, Zenon DEF TypeOK
  <2>4. CASE /\ Fault /\ spoiled' = spoiled \cup {s}
             /\ \E p \in 0..SectorPages(s)-1 :
                  b[p] # FF /\ flash' = [Programmed(flash, s, b) EXCEPT ![s][p] = Junk]
    <3>f. Fault
      BY <2>4, Zenon
    <3>1. faults' \in 0..MaxFaults
      BY <3>f DEF Fault, TypeOK
    <3>2. spoiled' \in SUBSET ImgSector
      BY <2>4, Zenon DEF TypeOK
    <3>3. flash' \in [Sector -> [Page -> Val]]
      <4>1. PICK p : flash' = [Programmed(flash, s, b) EXCEPT ![s][p] = Junk]
        BY <2>4, Zenon
      <4> QED BY <2>2, <4>1, Zenon DEF TypeOK
    <3> QED BY <3>1, <3>2, <3>3, Zenon
  <2> QED BY <1>13, <2>3, <2>4, Zenon DEF EraseAndProgram
<1>14. CASE AgentProgram
  <2>1. (flash \in [Sector -> [Page -> Val]] /\ spoiled \in SUBSET ImgSector /\ faults \in 0..MaxFaults)'
    BY <1>14, <1>13 DEF AgentProgram, TypeOK
  <2> QED BY <1>14, <2>1 DEF AgentProgram, TypeOK, host, ImgSector
<1>15. CASE AgentFlush
  BY <1>15, <1>13 DEF AgentFlush, TypeOK, host
<1>16. CASE AgentSkip
  <2>1. flash' \in [Sector -> [Page -> Val]]
    BY <1>16, Zenon DEF AgentSkip, Erased, TypeOK, Val
  <2> QED BY <1>16, <2>1 DEF AgentSkip, TypeOK, host
<1>17. CASE AgentFinish
  BY <1>17 DEF AgentFinish, TypeOK, host, stream
<1>18. CASE AgentEraseFails
  BY <1>18 DEF AgentEraseFails, AbortTransfer, Fault, TypeOK, host, stream
<1>19. CASE CorruptToDevice
  BY <1>19 DEF CorruptToDevice, Fault, TypeOK, host, stream
<1>20. CASE LoseToDevice
  BY <1>20, WithoutFacts DEF LoseToDevice, Fault, TypeOK, host, stream
<1>21. CASE LoseToHost
  BY <1>21, WithoutFacts DEF LoseToHost, Fault, TypeOK, host, stream
<1>22. CASE Rerun
  BY <1>22 DEF Rerun, TypeOK, stream
<1>23. CASE UNCHANGED vars
  BY <1>23, Zenon DEF vars, TypeOK
<1> QED
  BY <1>1, <1>2, <1>3, <1>4, <1>5, <1>6, <1>7, <1>8, <1>9, <1>10, <1>11, <1>12, <1>14,
     <1>15, <1>16, <1>17, <1>18, <1>19, <1>20, <1>21, <1>22, <1>23, Zenon
     DEF Next, HostNext, AgentNext, LinkNext, Quiet
-----------------------------------------------------------------------------
(* A step that leaves the flash alone keeps what can be said about it. *)
LEMMA FlashKept == ASSUME flash' = flash PROVE (Matches' <=> Matches) /\ View(flash)' = View(flash)
BY Zenon DEF Matches, View

LEMMA BufferKept ==
    ASSUME BufferInv, UNCHANGED <<apc, asec, buf, rx, pending, psec, flash, spoiled>>
    PROVE  BufferInv'
BY Zenon DEF BufferInv, Streaming, SectorOK

LEMMA PageKept ==
    ASSUME PageInv, UNCHANGED <<hs, sent, apc, asec, got, buf, rx, h2d>>
    PROVE  PageInv'
<1>1. Reported' = Reported /\ InBuffer' = InBuffer /\ (Streaming' <=> Streaming)
  BY Zenon DEF Streaming, Reported, InBuffer
<1> QED BY <1>1, Zenon DEF PageInv

LEMMA ProgressKept ==
    ASSUME ProgressInv, UNCHANGED <<hs, sent, apc, asec, d2h>>
    PROVE  ProgressInv'
<1>1. Reported' = Reported /\ (Streaming' <=> Streaming)
  BY Zenon DEF Streaming, Reported
<1>2. \A n : SentThrough(n) => SentThrough(n)'
  BY Zenon DEF SentThrough
<1> QED BY <1>1, <1>2, Zenon DEF ProgressInv

LEMMA ProgressTail ==
    ASSUME TypeOK, ProgressInv, d2h # <<>>, d2h' = Tail(d2h), UNCHANGED <<hs, sent, apc, asec>>
    PROVE  ProgressInv'
<1>1. Reported' = Reported /\ (Streaming' <=> Streaming)
  BY Zenon DEF Streaming, Reported
<1>2. (Streaming => SentThrough(Reported))'
  BY <1>1, Zenon DEF ProgressInv, SentThrough
<1>3. d2h \in Seq(ToHost) /\ Len(d2h') = Len(d2h) - 1 /\ \A i \in 1..Len(d2h') : d2h'[i] = d2h[i+1]
  BY DEF TypeOK
<1>4. ASSUME NEW i \in 1..Len(d2h'), d2h'[i].type = "DATA"
      PROVE  /\ hs' < d2h'[i].done /\ (Streaming' => d2h'[i].done <= Reported')
             /\ \A j \in i+1..Len(d2h') : d2h'[j].type = "DATA" => d2h'[i].done < d2h'[j].done
             /\ SentThrough(d2h[i].done)'
  <2>1. i + 1 \in 1..Len(d2h) /\ d2h'[i] = d2h[i+1]
    BY <1>3
  <2>2. /\ hs < d2h[i+1].done /\ (Streaming => d2h[i+1].done <= Reported)
        /\ \A j \in (i+1)+1..Len(d2h) : d2h[j].type = "DATA" => d2h[i+1].done < d2h[j].done
        /\ SentThrough(d2h[i+1].done)
    BY <1>4, <2>1, Zenon DEF ProgressInv
  <2>3. \A j \in i+1..Len(d2h') : j + 1 \in (i+1)+1..Len(d2h) /\ d2h'[j] = d2h[j+1]
    BY <1>3
  <2>4. SentThrough(d2h[i].done)'
    BY <2>1, <2>2, Zenon DEF SentThrough
  <2> QED BY <1>1, <2>1, <2>2, <2>3, <2>4, Zenon
<1> QED BY <1>2, <1>4, Zenon DEF ProgressInv

(* Each action keeps host and agent in step. *)
LEMMA SendStreamKeeps == ASSUME TypeOK, TypeOK', Sync, SendStream, hpc' # "fail" PROVE Sync'
<1> USE FlashAssumption, SectorPagesFacts DEF SendStream, stream
<1>1. HostInv'
  BY Zenon DEF Sync, HostInv
<1>2. WireInv'
  BY DEF Sync, TypeOK, WireInv, Streaming, Cmd
<1>3. ProgressInv' /\ PageInv' /\ BufferInv'
  BY Zenon DEF Sync, WireInv, ProgressInv, PageInv, BufferInv, Streaming
<1>4. AnswerInv'
  BY FlashKept DEF Sync, WireInv, AnswerInv, Streaming
<1> QED BY <1>1, <1>2, <1>3, <1>4, Zenon DEF Sync

LEMMA RecvFirstAckKeeps == ASSUME TypeOK, TypeOK', Sync, RecvFirstAck, hpc' # "fail" PROVE Sync'
<1> USE FlashAssumption, SectorPagesFacts
<1>1. /\ hpc = "ack" /\ hpc' = "stream" /\ d2h # <<>> /\ hs = 0 /\ sent = 0
      /\ UNCHANGED <<hs, sent, apc, asec, got, buf, rx, pending, psec, flash, h2d, spoiled>>
  BY Zenon DEF RecvFirstAck, stream, Sync, HostInv
<1>2. d2h \in Seq(ToHost) /\ Len(d2h') = Len(d2h) - 1 /\ \A i \in 1..Len(d2h') : d2h'[i] = d2h[i+1]
  BY DEF RecvFirstAck, TypeOK
<1>3. HostInv'
  BY <1>1 DEF Sync, HostInv
<1>4. WireInv'
  BY <1>1, <1>2, Zenon DEF Sync, WireInv, Streaming
<1>5. ProgressInv'
  BY <1>1, ProgressTail, Zenon DEF Sync, RecvFirstAck
<1>6. PageInv' /\ BufferInv'
  BY <1>1 DEF Sync, PageInv, BufferInv, Streaming, Reported, InBuffer, SectorOK
<1>7. AnswerInv'
  <2>1. \A i \in 1..Len(d2h') : i + 1 \in 1..Len(d2h) /\ i + 1 > 1 /\ d2h'[i] = d2h[i+1]
    BY <1>2
  <2>2. \A i \in 1..Len(d2h) :
          /\ d2h[i] = Ack("ok") /\ i > 1 =>
               ~Streaming /\ (spoiled = {} => Matches) /\ h2d = <<>> /\ SentThrough(ImgSectors)
          /\ d2h[i].type # "CRC32"
    BY <1>1, Zenon DEF Sync, AnswerInv
  <2>3. /\ (Streaming' <=> Streaming) /\ (Matches' <=> Matches)
        /\ (SentThrough(ImgSectors)' <=> SentThrough(ImgSectors))
    BY <1>1, FlashKept, Zenon DEF Streaming, SentThrough
  <2> QED BY <1>1, <2>1, <2>2, <2>3, Zenon DEF AnswerInv
<1> QED BY <1>3, <1>4, <1>5, <1>6, <1>7, Zenon DEF Sync

LEMMA SendPageKeeps == ASSUME TypeOK, TypeOK', Sync, SendPage, hpc' # "fail" PROVE Sync'
<1> USE FlashAssumption, SectorPagesFacts
<1>1. /\ hpc = "stream" /\ Dirty(hs) /\ sent < SectorPages(hs) /\ sent' = sent + 1
      /\ hs \in 0..ImgSectors-1 /\ sent \in Nat /\ asec \in Nat
      /\ UNCHANGED <<hpc, hs, apc, asec, got, buf, rx, pending, psec, flash, d2h, spoiled>>
  BY DEF SendPage, stream, TypeOK
<1>2. /\ h2d \in Seq(ToDevice) /\ Len(h2d') = Len(h2d) + 1 /\ h2d'[Len(h2d)+1] = DataPkt(hs, sent)
      /\ \A i \in 1..Len(h2d) : h2d'[i] = h2d[i]
  BY DEF SendPage, TypeOK
<1>3. \A n \in Nat : SentThrough(n) => n <= hs
  BY <1>1 DEF SentThrough
<1>4. \A i \in 1..Len(d2h) : d2h[i].type # "DATA" /\ d2h[i] # Ack("ok")
  <2> SUFFICES ASSUME NEW i \in 1..Len(d2h) PROVE d2h[i].type # "DATA" /\ d2h[i] # Ack("ok")
    BY Zenon
  <2>1. d2h[i] \in ToHost
    BY SMTT(30) DEF TypeOK
  <2>2. d2h[i].type # "DATA"
    BY <1>1, <1>3, <2>1 DEF Sync, ProgressInv, ToHost
  <2>3. d2h[i] = Ack("ok") => SentThrough(ImgSectors)
    BY <1>1, Zenon DEF Sync, AnswerInv
  <2> QED BY <1>1, <1>3, <2>2, <2>3
<1>5. Streaming => Reported = hs
  BY <1>1, <1>3 DEF Sync, ProgressInv, PageInv, Reported
<1>6. HostInv'
  BY <1>1 DEF Sync, HostInv
<1>7. WireInv'
  <2>1. ASSUME NEW i \in 1..Len(h2d')
        PROVE  /\ h2d'[i].type \notin {"STREAM", "CRC", "REBOOT"}
               /\ h2d'[i].type = "DATA" => h2d'[i].sec = hs
    <3>1. CASE i = Len(h2d) + 1
      BY <1>2, <3>1 DEF DataPkt
    <3>2. CASE i \in 1..Len(h2d)
      BY <1>1, <1>2, <3>2, Zenon DEF Sync, WireInv
    <3> QED BY <1>2, <2>1, <3>1, <3>2
  <2> QED BY <1>1, <1>4, <2>1, Zenon DEF Sync, WireInv, Streaming, Dirty
<1>8. ProgressInv'
  BY <1>1, <1>4, <1>5 DEF ProgressInv, SentThrough, Streaming, Reported
<1>9. PageInv'
  <2>0. Streaming' <=> Streaming
    BY <1>1, Zenon DEF Streaming
  <2> SUFFICES ASSUME Streaming PROVE PageInv'
    BY <2>0, Zenon DEF PageInv
  <2>1. /\ InBuffer \in Nat /\ InBuffer + Len(h2d) <= sent
        /\ Reported' = Reported /\ InBuffer' = InBuffer
    BY <1>1, <1>5 DEF Sync, PageInv, InBuffer, TypeOK, Streaming, Reported
  <2>2. ASSUME NEW i \in 1..Len(h2d'), h2d'[i].type = "DATA"
        PROVE  InBuffer + i - 1 <= h2d'[i].page /\ h2d'[i].page <= sent' - 1 - (Len(h2d') - i)
    <3>1. CASE i = Len(h2d) + 1
      BY <1>1, <1>2, <2>1, <3>1 DEF DataPkt
    <3>2. CASE i \in 1..Len(h2d)
      <4>1. InBuffer + i - 1 <= h2d[i].page /\ h2d[i].page <= sent - 1 - (Len(h2d) - i)
        BY <1>2, <1>5, <2>2, <3>2, Zenon DEF Sync, PageInv
      <4>2. sent' - 1 - (Len(h2d') - i) = sent - 1 - (Len(h2d) - i)
        BY <1>1, <1>2
      <4> QED BY <1>2, <3>2, <4>1, <4>2, Zenon
    <3> QED BY <1>2, <2>2, <3>1, <3>2
  <2>3. \A j \in 0..InBuffer-1 :
          \E q \in j..(sent - Len(h2d) - InBuffer + j) : buf[rx][j] = Image[hs][q]
    BY <1>5, Zenon DEF Sync, PageInv
  <2>4. sent' - Len(h2d') = sent - Len(h2d) /\ InBuffer' + Len(h2d') <= sent'
    BY <1>1, <1>2, <2>1
  <2>5. \A j \in 0..InBuffer'-1 :
          \E q \in j..(sent' - Len(h2d') - InBuffer' + j) : buf'[rx'][j] = Image[hs'][q]
    BY <1>1, <2>1, <2>3, <2>4, Zenon
  <2>6. Reported' = hs' /\ hs' <= Reported' /\ ~(Reported' > hs')
    BY <1>1, <1>5, <2>1
  <2>7. \A i \in 1..Len(h2d') : h2d'[i].type = "DATA" =>
          InBuffer' + i - 1 <= h2d'[i].page /\ h2d'[i].page <= sent' - 1 - (Len(h2d') - i)
    BY <2>1, <2>2, Zenon
  <2> QED BY <2>4, <2>5, <2>6, <2>7, Zenon DEF PageInv
<1>10. BufferInv'
  BY <1>1, BufferKept, Zenon DEF Sync
<1>11. AnswerInv'
  BY <1>1, <1>4, FlashKept, Zenon DEF Sync, AnswerInv, Streaming
<1> QED BY <1>6, <1>7, <1>8, <1>9, <1>10, <1>11, Zenon DEF Sync

LEMMA SectorSentKeeps == ASSUME TypeOK, TypeOK', Sync, SectorSent, hpc' # "fail" PROVE Sync'
<1> USE FlashAssumption, SectorPagesFacts
<1>1. /\ hpc = "stream" /\ hpc' = "prog" /\ (Dirty(hs) => sent = SectorPages(hs))
      /\ UNCHANGED <<hs, sent, apc, asec, got, buf, rx, pending, psec, flash, h2d, d2h, spoiled>>
  BY Zenon DEF SectorSent, stream
<1>2. HostInv' /\ WireInv'
  BY <1>1, Zenon DEF Sync, HostInv, WireInv, Streaming
<1>3. ProgressInv' /\ PageInv' /\ BufferInv'
  BY <1>1, ProgressKept, PageKept, BufferKept, Zenon DEF Sync
<1>4. AnswerInv'
  BY <1>1, FlashKept, Zenon DEF Sync, AnswerInv, Streaming, SentThrough
<1> QED BY <1>2, <1>3, <1>4, Zenon DEF Sync

(* write_flash returning True. *)
LEMMA WriteDoneKeeps ==
    ASSUME TypeOK, Sync, hpc \in {"prog", "final"}, d2h # <<>>, Head(d2h).type = "ACK",
           Head(d2h).st = "ok", WriteDone, d2h' = Tail(d2h),
           UNCHANGED <<apc, stream, flash, spoiled>>
    PROVE  Sync'
<1> USE FlashAssumption, VerifyAssumption, SectorPagesFacts
<1>1. /\ d2h \in Seq(ToHost) /\ Len(d2h) \in Nat \ {0} /\ Head(d2h) = d2h[1]
      /\ Len(d2h') = Len(d2h) - 1 /\ \A i \in 1..Len(d2h') : i + 1 \in 2..Len(d2h) /\ d2h'[i] = d2h[i+1]
  BY DEF TypeOK
<1>2. d2h[1] = Ack("ok")
  <2>1. d2h[1] \in ToHost
    BY <1>1
  <2> QED BY <1>1, <2>1, Zenon DEF ToHost, Ack
<1>3. ~Streaming /\ (spoiled = {} => Matches) /\ h2d = <<>>
  BY <1>1, <1>2 DEF Sync, AnswerInv
<1>4. ~Streaming' /\ apc' # "off"
  BY <1>3, Zenon DEF Streaming, Sync, WireInv
<1>5. HostInv'
  BY Zenon DEF WriteDone, HostInv
<1>6. hpc' \in {"crc", "done"} /\ (hpc' = "done" => ~Verify)
  BY Zenon DEF WriteDone
<1>7. WireInv'
  <2>1. /\ Len(h2d') = 1
        /\ hpc' = "crc" => h2d'[1].type = "CRC"
        /\ hpc' = "done" => h2d'[1].type = "REBOOT"
    BY <1>3 DEF WriteDone, Cmd
  <2> QED BY <1>4, <1>6, <2>1 DEF WireInv
<1>8. ProgressInv'
  BY ProgressTail, Zenon DEF Sync, WriteDone, stream
<1>9. PageInv' /\ BufferInv'
  BY <1>4, Zenon DEF PageInv, BufferInv
<1>10. AnswerInv'
  <2>1. (spoiled = {} => Matches)'
    BY <1>3, FlashKept, Zenon
  <2>2. \A i \in 1..Len(d2h') : d2h'[i].type # "CRC32"
    BY <1>1 DEF Sync, AnswerInv
  <2> QED BY <1>4, <1>6, <2>1, <2>2, Zenon DEF AnswerInv
<1> QED BY <1>5, <1>7, <1>8, <1>9, <1>10, Zenon DEF Sync

LEMMA RecvProgressKeeps == ASSUME TypeOK, TypeOK', Sync, RecvProgress, hpc' # "fail" PROVE Sync'
<1> USE FlashAssumption, SectorPagesFacts
<1>1. CASE Head(d2h).type # "DATA"
  BY <1>1, WriteDoneKeeps, Zenon DEF RecvProgress, AckEndsWrite
<1>2. CASE Head(d2h).type = "DATA"
  <2>1. d2h[1] \in ToHost
    BY DEF RecvProgress, TypeOK
  <2>2. /\ hpc = "prog" /\ hs' = hs + 1 /\ sent' = 0
        /\ hpc' = IF hs + 1 < ImgSectors THEN "stream" ELSE "final"
        /\ hs \in 0..ImgSectors-1 /\ asec \in Nat /\ d2h[1].type = "DATA"
        /\ UNCHANGED <<apc, asec, got, buf, rx, pending, psec, flash, h2d, spoiled>>
    BY <1>2, <2>1 DEF RecvProgress, stream, TypeOK, ToHost, AckEndsWrite
  <2>3. /\ d2h \in Seq(ToHost) /\ Len(d2h) \in Nat \ {0} /\ 1 \in 1..Len(d2h)
        /\ Len(d2h') = Len(d2h) - 1 /\ \A i \in 1..Len(d2h') : i + 1 \in 2..Len(d2h) /\ d2h'[i] = d2h[i+1]
    BY DEF TypeOK, RecvProgress
  <2>4. /\ d2h[1].done \in Nat /\ hs < d2h[1].done /\ (Streaming => d2h[1].done <= Reported)
        /\ \A j \in 2..Len(d2h) : d2h[j].type = "DATA" => d2h[1].done < d2h[j].done
    <3>1. d2h[1].done \in Nat
      BY <2>1, <2>2 DEF ToHost
    <3>2. 1 + 1 = 2
      OBVIOUS
    <3> QED BY <2>2, <2>3, <3>1, <3>2, Zenon DEF Sync, ProgressInv
  <2>5. \A i \in 1..Len(h2d) : h2d[i].type \notin {"STREAM", "CRC", "REBOOT", "DATA"}
    BY <2>2, <2>3, Zenon DEF Sync, WireInv
  <2>6. Reported' = Reported /\ InBuffer' = InBuffer /\ (Streaming' <=> Streaming)
    BY <2>2, Zenon DEF Reported, InBuffer, Streaming
  <2>7. HostInv'
    BY <2>2 DEF HostInv
  <2>8. WireInv'
    BY <2>2, <2>5, Zenon DEF Sync, WireInv, Streaming
  <2>9. \A n : SentThrough(n) => SentThrough(n)'
    BY <2>2 DEF SentThrough
  <2>10. ProgressInv'
    <3>1. ASSUME NEW i \in 1..Len(d2h'), d2h'[i].type = "DATA"
          PROVE  /\ hs' < d2h'[i].done /\ (Streaming' => d2h'[i].done <= Reported')
                 /\ \A j \in i+1..Len(d2h') : d2h'[j].type = "DATA" => d2h'[i].done < d2h'[j].done
                 /\ SentThrough(d2h[i].done)'
      <4>0. i + 1 \in 2..Len(d2h) /\ d2h'[i] = d2h[i+1]
        BY <2>3, Zenon
      <4>1. i + 1 \in 2..Len(d2h) /\ i + 1 \in 1..Len(d2h) /\ d2h'[i] = d2h[i+1] /\ d2h[i+1] \in ToHost
        BY <2>3, <4>0
      <4>2. /\ (Streaming => d2h[i+1].done <= Reported)
            /\ \A j \in (i+1)+1..Len(d2h) : d2h[j].type = "DATA" => d2h[i+1].done < d2h[j].done
            /\ SentThrough(d2h[i+1].done)
        BY <3>1, <4>1, Zenon DEF Sync, ProgressInv
      <4>3. \A j \in i+1..Len(d2h') : j + 1 \in (i+1)+1..Len(d2h) /\ d2h'[j] = d2h[j+1]
        BY <2>3
      <4>4. d2h[i+1].done \in Nat
        BY <3>1, <4>1 DEF ToHost
      <4>5. hs' < d2h'[i].done
        BY SMTT(30), <2>2, <2>4, <3>1, <4>1, <4>4
      <4>6. SentThrough(d2h[i].done)'
        <5>1. \A s \in 0..d2h'[i].done-1 : Dirty(s) => s < hs \/ s = hs
          BY <4>1, <4>2, Zenon DEF SentThrough
        <5>2. \A s \in 0..d2h'[i].done-1 : s < hs \/ s = hs => s < hs'
          BY <2>2, <4>1, <4>4
        <5> QED BY <5>1, <5>2, Zenon DEF SentThrough, Dirty
      <4>7. Streaming' => d2h'[i].done <= Reported'
        BY <2>6, <4>1, <4>2, Zenon
      <4>8. \A j \in i+1..Len(d2h') : d2h'[j].type = "DATA" => d2h'[i].done < d2h'[j].done
        <5> SUFFICES ASSUME NEW j \in i+1..Len(d2h'), d2h'[j].type = "DATA"
                     PROVE  d2h[i+1].done < d2h'[j].done
          BY <4>1, Zenon
        <5>1. j + 1 \in (i+1)+1..Len(d2h) /\ d2h'[j] = d2h[j+1]
          BY <4>3, Zenon
        <5> QED BY <4>2, <5>1, Zenon
      <4> QED BY <4>5, <4>6, <4>7, <4>8, Zenon
    <3>2. (Streaming => SentThrough(Reported))'
      BY <2>2, <2>6 DEF Sync, ProgressInv, SentThrough
    <3> QED BY <3>1, <3>2, Zenon DEF ProgressInv
  <2>11. PageInv'
    <3>1. Streaming => Reported > hs /\ Reported \in Nat
      BY <2>2, <2>4 DEF Reported
    <3>2. Streaming => h2d = <<>> /\ InBuffer = 0
      BY <3>1, Zenon DEF Sync, PageInv
    <3> QED BY <2>2, <2>6, <3>1, <3>2 DEF PageInv
  <2>12. BufferInv'
    BY <2>2, BufferKept, Zenon DEF Sync
  <2>13. AnswerInv'
    <3>1. ASSUME NEW i \in 1..Len(d2h')
          PROVE  /\ d2h'[i] = Ack("ok") =>
                      ~Streaming /\ (spoiled = {} => Matches) /\ h2d = <<>> /\ SentThrough(ImgSectors)
                 /\ d2h'[i].type # "CRC32"
      <4>1. i + 1 \in 1..Len(d2h) /\ d2h'[i] = d2h[i+1]
        BY <2>3
      <4> QED BY <2>2, <4>1, Zenon DEF Sync, AnswerInv
    <3>2. SentThrough(ImgSectors) => SentThrough(ImgSectors)'
      BY <2>2 DEF SentThrough
    <3>3. hpc' \in {"stream", "final"} /\ (Matches' <=> Matches)
      BY <2>2, FlashKept, Zenon
    <3> QED BY <2>2, <2>6, <3>1, <3>2, <3>3, Zenon DEF AnswerInv
  <2> QED BY <2>7, <2>8, <2>10, <2>11, <2>12, <2>13, Zenon DEF Sync
<1> QED BY <1>1, <1>2, Zenon

LEMMA RecvFinalKeeps == ASSUME TypeOK, TypeOK', Sync, RecvFinal, hpc' # "fail" PROVE Sync'
<1> USE FlashAssumption, SectorPagesFacts
<1>1. CASE Head(d2h).type = "ACK"
  BY <1>1, WriteDoneKeeps, Zenon DEF RecvFinal, AckEndsWrite
<1>2. CASE Head(d2h).type # "ACK"
  <2>1. /\ hpc = "final" /\ hpc' = hpc /\ d2h # <<>> /\ d2h' = Tail(d2h)
        /\ UNCHANGED <<hs, sent, apc, asec, got, buf, rx, pending, psec, flash, h2d, spoiled>>
    BY <1>2, Zenon DEF RecvFinal, stream
  <2>2. d2h \in Seq(ToHost) /\ Len(d2h') = Len(d2h) - 1 /\ \A i \in 1..Len(d2h') : d2h'[i] = d2h[i+1]
    BY <2>1 DEF TypeOK
  <2>3. HostInv' /\ PageInv'
    <3>1. Streaming' = Streaming /\ Reported' = Reported /\ InBuffer' = InBuffer
      BY <2>1, Zenon DEF Streaming, Reported, InBuffer
    <3>2. HostInv'
      BY <2>1, Zenon DEF Sync, HostInv
    <3>3. PageInv'
      BY <2>1, PageKept, Zenon DEF Sync
    <3> QED BY <3>2, <3>3, Zenon
  <2>4. WireInv'
    BY <2>1, <2>2, Zenon DEF Sync, WireInv, Streaming
  <2>5. ProgressInv' /\ BufferInv'
    BY <2>1, ProgressTail, BufferKept, Zenon DEF Sync
  <2>6. AnswerInv'
    <3>1. \A i \in 1..Len(d2h') : i + 1 \in 1..Len(d2h) /\ d2h'[i] = d2h[i+1]
      BY <2>2
    <3>2. (Matches' <=> Matches) /\ View(flash)' = View(flash) /\ (Streaming' <=> Streaming)
      BY <2>1, FlashKept, Zenon DEF Streaming
    <3>3. SentThrough(ImgSectors)' = SentThrough(ImgSectors)
      BY <2>1, Zenon DEF SentThrough
    <3>4. \A i \in 1..Len(d2h) :
            /\ d2h[i] = Ack("ok") => /\ ~Streaming /\ (spoiled = {} => Matches)
                                    /\ h2d = <<>> /\ SentThrough(ImgSectors)
            /\ d2h[i].type # "CRC32"
      BY <2>1, Zenon DEF Sync, AnswerInv
    <3> QED BY <2>1, <3>1, <3>2, <3>3, <3>4, Zenon DEF AnswerInv
  <2> QED BY <2>3, <2>4, <2>5, <2>6, Zenon DEF Sync
<1> QED BY <1>1, <1>2, Zenon

LEMMA RecvCrcKeeps == ASSUME TypeOK, TypeOK', Sync, RecvCrc, hpc' # "fail" PROVE Sync'
<1> USE FlashAssumption, SectorPagesFacts
<1>1. /\ hpc = "crc" /\ hpc' = "done" /\ d2h # <<>> /\ d2h' = Tail(d2h)
      /\ Head(d2h).type = "CRC32" /\ Head(d2h).crc = View(Image)
      /\ UNCHANGED <<hs, sent, apc, asec, got, buf, rx, pending, psec, flash, spoiled>>
  BY Zenon DEF RecvCrc, stream
<1>2. d2h \in Seq(ToHost) /\ Len(d2h') = Len(d2h) - 1 /\ \A i \in 1..Len(d2h') : d2h'[i] = d2h[i+1]
  BY <1>1 DEF TypeOK
<1>3. Matches /\ ~Streaming
  BY <1>1, <1>2 DEF Sync, AnswerInv, Matches
<1>4. HostInv' /\ PageInv' /\ BufferInv'
  BY <1>1, <1>3, Zenon DEF HostInv, PageInv, BufferInv, Streaming
<1>5. WireInv'
  <2>1. /\ h2d \in Seq(ToDevice) /\ Len(h2d') = Len(h2d) + 1 /\ h2d'[Len(h2d)+1] = Cmd("REBOOT")
        /\ \A i \in 1..Len(h2d) : h2d'[i] = h2d[i]
    <3>1. h2d' = Append(h2d, Cmd("REBOOT")) /\ h2d \in Seq(ToDevice)
      BY <1>1, Zenon DEF RecvCrc, TypeOK
    <3> QED BY SMTT(30), <3>1, PacketTypes
  <2>2. \A i \in 1..Len(h2d) : h2d[i].type \notin {"STREAM", "REBOOT", "DATA"}
    BY <1>1, Zenon DEF Sync, WireInv
  <2>3. \A i \in 1..Len(h2d') : h2d'[i].type \notin {"STREAM", "DATA"}
    <3> SUFFICES ASSUME NEW i \in 1..Len(h2d') PROVE h2d'[i].type \notin {"STREAM", "DATA"}
      BY Zenon
    <3>1. i \in 1..Len(h2d) \/ i = Len(h2d) + 1
      <4>1. Len(h2d) \in Nat
        BY <2>1
      <4> QED BY <2>1, <4>1
    <3>2. Cmd("REBOOT").type = "REBOOT"
      BY Zenon DEF Cmd
    <3> QED BY <2>1, <2>2, <3>1, <3>2, Zenon
  <2> QED BY <1>1, <1>3, <2>3, Zenon DEF WireInv, Streaming
<1>6. ProgressInv'
  BY <1>1, ProgressTail, Zenon DEF Sync
<1>7. AnswerInv'
  <2>1. \A i \in 1..Len(d2h') : d2h'[i].type = "CRC32" => d2h'[i].crc = View(flash)
    <3>1. \A i \in 1..Len(d2h') : i + 1 \in 1..Len(d2h) /\ d2h'[i] = d2h[i+1]
      BY <1>2
    <3> QED BY <3>1, Zenon DEF Sync, AnswerInv
  <2>2. Matches' /\ ~Streaming' /\ View(flash)' = View(flash)
    BY <1>1, <1>3, FlashKept, Zenon DEF Streaming
  <2> QED BY <1>1, <2>1, <2>2, Zenon DEF AnswerInv
<1> QED BY <1>4, <1>5, <1>6, <1>7, Zenon DEF Sync

-----------------------------------------------------------------------------
(* The agent's steps keep the invariant. *)

(* The agent answers and is, or is back, in its main loop. *)
LEMMA AnswerKeeps ==
    ASSUME TypeOK, Sync, NEW m \in ToHost, hpc # "start",
           apc' \in {"main", "off"}, apc' = "off" => hpc = "done",
           h2d' = h2d \/ (h2d # <<>> /\ h2d' = Tail(h2d)),
           \A i \in 1..Len(h2d') : h2d'[i].type # "STREAM",
           d2h' = d2h \/ d2h' = Append(d2h, m),
           m.type # "DATA",
           m = Ack("ok") => /\ spoiled = {} => Matches
                            /\ hpc \notin {"crc", "done"} => h2d = <<>> /\ SentThrough(ImgSectors),
           m.type = "CRC32" => hpc \in {"crc", "done"} /\ m.crc = View(flash),
           UNCHANGED <<hpc, hs, sent, flash, spoiled>>
    PROVE  Sync'
<1> USE FlashAssumption, SectorPagesFacts
<1>1. /\ d2h \in Seq(ToHost) /\ Len(d2h') \in Nat
      /\ \A i \in 1..Len(d2h') : (i \in 1..Len(d2h) /\ d2h'[i] = d2h[i]) \/ d2h'[i] = m
  <2>1. d2h \in Seq(ToHost)
    BY Zenon DEF TypeOK
  <2>2. CASE d2h' = d2h
    BY <2>1, <2>2
  <2>3. CASE d2h' = Append(d2h, m)
    BY <2>1, <2>3
  <2> QED BY <2>1, <2>2, <2>3, Zenon
<1>2. /\ h2d \in Seq(ToDevice)
      /\ \A i \in 1..Len(h2d') : \E k \in 1..Len(h2d) : h2d'[i] = h2d[k]
  <2>1. h2d \in Seq(ToDevice)
    BY Zenon DEF TypeOK
  <2>2. CASE h2d' = h2d
    BY <2>1, <2>2, Zenon
  <2>3. CASE h2d # <<>> /\ h2d' = Tail(h2d)
    <3>1. \A i \in 1..Len(h2d') : i + 1 \in 1..Len(h2d) /\ h2d'[i] = h2d[i+1]
      BY <2>1, <2>3
    <3> QED BY <2>1, <3>1, Zenon
  <2> QED BY <2>1, <2>2, <2>3, Zenon
<1>3. ~Streaming'
  BY Zenon DEF Streaming
<1>4. HostInv' /\ PageInv' /\ BufferInv'
  BY <1>3, Zenon DEF Sync, HostInv, PageInv, BufferInv
<1>5. \A i \in 1..Len(d2h') : d2h'[i].type = "DATA" => i \in 1..Len(d2h) /\ d2h'[i] = d2h[i]
  BY <1>1, Zenon
<1>6. WireInv'
  <2>1. ASSUME NEW i \in 1..Len(h2d')
        PROVE  /\ h2d'[i].type = "CRC" => hpc \in {"crc", "done"}
               /\ h2d'[i].type = "REBOOT" => hpc = "done"
               /\ h2d'[i].type = "DATA" =>
                    /\ hpc \in {"stream", "prog"} /\ h2d'[i].sec = hs /\ Dirty(hs)
                    /\ \A j \in 1..Len(d2h) : d2h[j].type # "DATA"
    <3>1. PICK k \in 1..Len(h2d) : h2d'[i] = h2d[k]
      BY <1>2, Zenon
    <3> QED BY <3>1, Zenon DEF Sync, WireInv
  <2> QED BY <1>3, <1>5, <2>1, Zenon DEF WireInv, Dirty
<1>7. ProgressInv'
  <2>1. ASSUME NEW i \in 1..Len(d2h'), d2h'[i].type = "DATA"
        PROVE  /\ hs' < d2h'[i].done
               /\ \A j \in i+1..Len(d2h') : d2h'[j].type = "DATA" => d2h'[i].done < d2h'[j].done
               /\ SentThrough(d2h[i].done)'
    <3>1. i \in 1..Len(d2h) /\ d2h'[i] = d2h[i]
      BY <1>5, <2>1, Zenon
    <3>2. /\ hs < d2h[i].done /\ SentThrough(d2h[i].done)
          /\ \A j \in i+1..Len(d2h) : d2h[j].type = "DATA" => d2h[i].done < d2h[j].done
      BY <2>1, <3>1, Zenon DEF Sync, ProgressInv
    <3>3. SentThrough(d2h[i].done)'
      BY <3>1, <3>2, Zenon DEF SentThrough
    <3>4. \A j \in i+1..Len(d2h') : d2h'[j].type = "DATA" => j \in i+1..Len(d2h) /\ d2h'[j] = d2h[j]
      BY <1>1, <1>5, <3>1
    <3> QED BY <3>1, <3>2, <3>3, <3>4, Zenon
  <2> QED BY <1>3, <2>1, Zenon DEF ProgressInv
<1>8. AnswerInv'
  <2>1. (Matches' <=> Matches) /\ View(flash)' = View(flash)
    BY FlashKept, Zenon
  <2>2. SentThrough(ImgSectors) => SentThrough(ImgSectors)'
    BY Zenon DEF SentThrough
  <2>3. ASSUME NEW i \in 1..Len(d2h')
        PROVE  /\ d2h'[i] = Ack("ok") /\ (i > 1 \/ hpc # "ack") =>
                    /\ spoiled = {} => Matches
                    /\ hpc \notin {"crc", "done"} => h2d = <<>> /\ SentThrough(ImgSectors)
               /\ d2h'[i].type = "CRC32" => hpc \in {"crc", "done"} /\ d2h'[i].crc = View(flash)
    <3>1. CASE d2h'[i] = m
      BY <3>1, Zenon
    <3>2. CASE i \in 1..Len(d2h) /\ d2h'[i] = d2h[i]
      BY <3>2, Zenon DEF Sync, AnswerInv
    <3> QED BY <1>1, <3>1, <3>2, Zenon
  <2>4. hpc \in {"crc", "done"} => (spoiled = {} => Matches)
    BY Zenon DEF Sync, AnswerInv
  <2>5. hpc = "done" /\ Verify => Matches
    BY Zenon DEF Sync, AnswerInv
  <2>6. h2d = <<>> => h2d' = <<>>
    BY Zenon
  <2> QED BY <1>3, <2>1, <2>2, <2>3, <2>4, <2>5, <2>6, Zenon DEF AnswerInv
<1> QED BY <1>4, <1>6, <1>7, <1>8, Zenon DEF Sync

(* A packet received in the main loop leaves no STREAM command behind it. *)
LEMMA NoStreamBehind ==
    ASSUME TypeOK, Sync, h2d # <<>>, h2d' = Tail(h2d)
    PROVE  hpc # "start" /\ \A i \in 1..Len(h2d') : h2d'[i].type # "STREAM"
<1>1. h2d \in Seq(ToDevice) /\ \A i \in 1..Len(h2d') : i + 1 \in 2..Len(h2d) /\ h2d'[i] = h2d[i+1]
  BY DEF TypeOK
<1> QED BY <1>1 DEF Sync, WireInv

LEMMA FirstCommand ==
    ASSUME TypeOK, h2d # <<>>
    PROVE  1 \in 1..Len(h2d) /\ Head(h2d) = h2d[1]
BY DEF TypeOK

LEMMA AgentRejectKeeps == ASSUME TypeOK, TypeOK', Sync, AgentReject, hpc' # "fail" PROVE Sync'
BY AnswerKeeps, NoStreamBehind, PacketTypes, Zenon DEF AgentReject, Receive, host, Ack

LEMMA AgentUnknownKeeps == ASSUME TypeOK, TypeOK', Sync, AgentUnknown, hpc' # "fail" PROVE Sync'
BY AnswerKeeps, NoStreamBehind, PacketTypes, Zenon DEF AgentUnknown, Receive, host, Ack

LEMMA AgentIdleKeeps == ASSUME TypeOK, TypeOK', Sync, AgentIdle, hpc' # "fail" PROVE Sync'
<1>1. Ack("crc") \in ToHost /\ Ack("crc").type = "ACK" /\ Ack("crc") # Ack("ok")
  BY Zenon DEF Ack, ToHost
<1> QED BY <1>1, AnswerKeeps, NoStreamBehind, Zenon DEF AgentIdle, Receive, host

LEMMA AgentCrcKeeps == ASSUME TypeOK, TypeOK', Sync, AgentCrc, hpc' # "fail" PROVE Sync'
<1>1. CrcReply(View(flash)) \in ToHost
  BY ViewType, PacketTypes, Zenon
<1>2. hpc \in {"crc", "done"}
  <2>1. Head(h2d).type = "CRC" /\ h2d # <<>>
    BY Zenon DEF AgentCrc, Receive
  <2> QED BY <2>1, FirstCommand, Zenon DEF Sync, WireInv
<1> QED BY <1>1, <1>2, AnswerKeeps, NoStreamBehind, Zenon DEF AgentCrc, Receive, host, CrcReply, Ack

LEMMA AgentRebootKeeps == ASSUME TypeOK, TypeOK', Sync, AgentReboot, hpc' # "fail" PROVE Sync'
<1>1. hpc = "done"
  <2>1. Head(h2d).type = "REBOOT" /\ h2d # <<>>
    BY Zenon DEF AgentReboot, Receive
  <2> QED BY <2>1, FirstCommand, Zenon DEF Sync, WireInv
<1>2. spoiled = {} => Matches
  BY <1>1, Zenon DEF Sync, AnswerInv
<1> QED BY <1>1, <1>2, AnswerKeeps, NoStreamBehind, PacketTypes, Zenon DEF AgentReboot, Receive, host, Ack

(* While the agent is at work no answer is on its way that ends the write. *)
LEMMA StreamingAnswers ==
    ASSUME TypeOK, Sync, Streaming, hpc' = hpc, NEW n,
           d2h' = d2h \/ d2h' = Append(d2h, Progress(n))
    PROVE  AnswerInv'
<1>1. hpc \notin {"crc", "done"}
  BY Zenon DEF Sync, AnswerInv
<1>2. \A i \in 1..Len(d2h) : ~(d2h[i] = Ack("ok") /\ (i > 1 \/ hpc # "ack")) /\ d2h[i].type # "CRC32"
  BY <1>1, Zenon DEF Sync, AnswerInv
<1>3. Progress(n) # Ack("ok") /\ Progress(n).type = "DATA"
  BY Zenon DEF Progress, Ack
<1>4. \A i \in 1..Len(d2h') : (i \in 1..Len(d2h) /\ d2h'[i] = d2h[i]) \/ d2h'[i] = Progress(n)
  <2>1. d2h \in Seq(ToHost)
    BY Zenon DEF TypeOK
  <2>2. CASE d2h' = Append(d2h, Progress(n))
    BY <2>1, <2>2
  <2> QED BY <2>2, Zenon
<1>5. \A i \in 1..Len(d2h') : ~(d2h'[i] = Ack("ok") /\ (i > 1 \/ hpc # "ack")) /\ d2h'[i].type # "CRC32"
  BY <1>2, <1>3, <1>4, Zenon
<1> QED BY <1>1, <1>5, Zenon DEF AnswerInv

(* The agent reports one more sector. *)
LEMMA ReportKeeps ==
    ASSUME TypeOK, Sync, Streaming, Reported \in Nat, Reported < ImgSectors, hs <= Reported,
           SentThrough(Reported + 1), Reported' = Reported + 1,
           d2h' = Append(d2h, Progress(Reported + 1)), UNCHANGED <<hs, sent>>
    PROVE  ProgressInv'
<1> USE FlashAssumption
<1>1. /\ d2h \in Seq(ToHost) /\ Len(d2h) \in Nat /\ Len(d2h') = Len(d2h) + 1
      /\ d2h'[Len(d2h)+1] = Progress(Reported + 1) /\ \A i \in 1..Len(d2h) : d2h'[i] = d2h[i]
  BY DEF TypeOK
<1>2. \A k : SentThrough(k) => (SentThrough(k))'
  BY Zenon DEF SentThrough
<1>3. Progress(Reported + 1).done = Reported + 1
  BY Zenon DEF Progress
<1>4. ASSUME NEW i \in 1..Len(d2h'), d2h'[i].type = "DATA"
      PROVE  /\ hs' < d2h'[i].done /\ (Streaming' => d2h'[i].done <= Reported')
             /\ \A j \in i+1..Len(d2h') : d2h'[j].type = "DATA" => d2h'[i].done < d2h'[j].done
             /\ SentThrough(d2h[i].done)'
  <2>1. CASE i = Len(d2h) + 1
    <3>1. d2h'[i].done = Reported + 1
      BY <1>1, <1>3, <2>1, Zenon
    <3>2. hs' < d2h'[i].done /\ d2h'[i].done <= Reported'
      <4>1. hs \in Nat
        <5>1. hs \in 0..ImgSectors
          BY Zenon DEF TypeOK
        <5> QED BY <5>1
      <4>2. \A h, r \in Nat : h <= r => h < r + 1 /\ r + 1 <= r + 1
        OBVIOUS
      <4> QED BY <3>1, <4>1, <4>2, Zenon
    <3>3. \A j \in i+1..Len(d2h') : FALSE
      <4>1. Len(d2h) \in Nat /\ Len(d2h') = Len(d2h) + 1
        BY <1>1, Zenon
      <4> QED BY <2>1, <4>1
    <3>4. SentThrough(d2h[i].done)'
      BY <3>1, Zenon DEF SentThrough
    <3> QED BY <3>2, <3>3, <3>4, Zenon
  <2>2. CASE i \in 1..Len(d2h)
    <3>1. d2h'[i] = d2h[i] /\ d2h[i] \in ToHost
      BY <1>1, <2>2
    <3>2. d2h[i].done \in Nat
      BY <1>4, <3>1 DEF ToHost
    <3>3. /\ hs < d2h[i].done /\ d2h[i].done <= Reported /\ SentThrough(d2h[i].done)
          /\ \A j \in i+1..Len(d2h) : d2h[j].type = "DATA" => d2h[i].done < d2h[j].done
      BY SMTT(30), <1>4, <2>2, <3>1 DEF Sync, ProgressInv
    <3>4. SentThrough(d2h[i].done)'
      BY <3>1, <3>3, Zenon DEF SentThrough
    <3>5. ASSUME NEW j \in i+1..Len(d2h'), d2h'[j].type = "DATA" PROVE d2h'[i].done < d2h'[j].done
      <4>1. CASE j = Len(d2h) + 1
        BY <1>1, <1>3, <3>1, <3>2, <3>3, <4>1
      <4>2. CASE j \in i+1..Len(d2h)
        BY <1>1, <3>1, <3>3, <3>5, <4>2
      <4>3. j = Len(d2h) + 1 \/ j \in i+1..Len(d2h)
        <5>1. Len(d2h) \in Nat /\ Len(d2h') = Len(d2h) + 1
          BY <1>1, Zenon
        <5>2. \A n \in Nat, l \in Int : \A k \in l..n+1 : k = n + 1 \/ k \in l..n
          OBVIOUS
        <5>3. i + 1 \in Int /\ j \in i+1..Len(d2h)+1
          BY <5>1
        <5> QED BY <5>1, <5>2, <5>3, Zenon
      <4> QED BY <4>1, <4>2, <4>3, Zenon
    <3>6. \A x, r \in Nat : x <= r => x <= r + 1
      OBVIOUS
    <3> QED BY <3>1, <3>2, <3>3, <3>4, <3>5, <3>6, Zenon
  <2>3. i \in 1..Len(d2h) \/ i = Len(d2h) + 1
    <3>1. Len(d2h) \in Nat /\ i \in 1..Len(d2h)+1
      BY <1>1, Zenon
    <3> QED BY <3>1, SMTT(30)
  <2> QED BY <2>1, <2>2, <2>3, Zenon
<1>5. (Streaming => SentThrough(Reported))'
  BY Zenon DEF SentThrough
<1> QED BY <1>4, <1>5, Zenon DEF ProgressInv

LEMMA AgentStartKeeps == ASSUME TypeOK, TypeOK', Sync, AgentStart, hpc' # "fail" PROVE Sync'
<1> USE FlashAssumption, SectorPagesFacts
<1>1. h2d \in Seq(ToDevice) /\ h2d # <<>> /\ h2d[1].type = "STREAM" /\ h2d' = Tail(h2d)
  BY DEF AgentStart, Receive, TypeOK
<1>2. hpc = "ack" /\ Len(h2d) = 1 /\ d2h = <<>>
  BY <1>1 DEF Sync, WireInv
<1>3. /\ apc' = "sector" /\ asec' = 0 /\ got' = 0 /\ rx' = 0 /\ pending' = -1
      /\ d2h' = <<Ack("ok")>> /\ h2d' = <<>> /\ UNCHANGED <<hpc, hs, sent, flash, spoiled>>
  BY <1>1, <1>2 DEF AgentStart, Receive, host
<1>4. hs = 0 /\ sent = 0
  BY <1>2, Zenon DEF Sync, HostInv
<1>5. HostInv' /\ WireInv'
  BY <1>2, <1>3, <1>4 DEF HostInv, WireInv, Streaming
<1>6. ProgressInv' /\ PageInv'
  BY <1>3, <1>4 DEF ProgressInv, PageInv, Streaming, Reported, InBuffer, SentThrough, Ack
<1>7. BufferInv'
  BY <1>3 DEF BufferInv
<1>8. AnswerInv'
  BY <1>2, <1>3 DEF AnswerInv, Ack
<1> QED BY <1>5, <1>6, <1>7, <1>8, Zenon DEF Sync

LEMMA AgentFinishKeeps == ASSUME TypeOK, TypeOK', Sync, AgentFinish, hpc' # "fail" PROVE Sync'
<1> USE FlashAssumption, SectorPagesFacts
<1>1. /\ apc = "sector" /\ asec = ImgSectors /\ pending = -1 /\ apc' = "main"
      /\ d2h' = Append(d2h, Ack("ok")) /\ UNCHANGED <<hpc, hs, sent, flash, h2d, spoiled>>
  BY Zenon DEF AgentFinish, host, stream
<1>2. Streaming /\ Reported = ImgSectors
  BY <1>1, Zenon DEF Streaming, Reported
<1>3. spoiled = {} => Matches
  <2> SUFFICES ASSUME spoiled = {} PROVE Matches
    BY Zenon
  <2>1. \A s \in ImgSector : SectorOK(s)
    BY <1>1, <1>2, Zenon DEF Sync, BufferInv, ImgSector
  <2>2. \A s \in ImgSector : \A p \in Page : p < SectorPages(s) => flash[s][p] = Image[s][p]
    BY <2>1, SMTT(30) DEF SectorOK, Page
  <2> QED BY <2>2, Zenon DEF Matches, View
<1>4. SentThrough(ImgSectors)
  BY <1>2, Zenon DEF Sync, ProgressInv
<1>5. h2d = <<>>
  <2>1. CASE Reported > hs
    BY <1>2, <2>1, Zenon DEF Sync, PageInv
  <2>2. CASE hs = ImgSectors
    <3>1. sent = 0 /\ Len(h2d) + InBuffer <= sent /\ InBuffer \in Nat
      <4>1. hpc \in {"ack", "stream", "prog", "final"} /\ Reported = hs
        BY <1>2, <2>2, Zenon DEF Sync, WireInv
      <4>2. InBuffer + Len(h2d) <= sent
        BY <1>2, <4>1, Zenon DEF Sync, PageInv
      <4>3. ~(ImgSectors < ImgSectors)
        OBVIOUS
      <4>4. sent = 0
        BY <2>2, <4>1, <4>3, Zenon DEF Sync, HostInv
      <4>5. InBuffer \in Nat /\ Len(h2d) \in Nat
        BY SMTT(30) DEF TypeOK, InBuffer
      <4> QED BY <4>2, <4>4, <4>5
    <3> QED BY <3>1, SMTT(30) DEF TypeOK
  <2> QED BY <1>2, <2>1, <2>2 DEF TypeOK
<1>6. hpc # "start"
  BY <1>2, Zenon DEF Sync, WireInv
<1>7. Ack("ok").type = "ACK"
  BY Zenon DEF Ack
<1> QED BY <1>1, <1>3, <1>4, <1>5, <1>6, <1>7, AnswerKeeps, PacketTypes

(* A transfer given up leaves host and agent in step. *)
LEMMA AbortKeeps ==
    ASSUME TypeOK, Sync, Streaming, AbortTransfer, h2d' = h2d \/ (h2d # <<>> /\ h2d' = Tail(h2d)),
           UNCHANGED <<hpc, hs, sent, flash, spoiled>>
    PROVE  Sync'
<1>1. Ack("flash").type = "ACK" /\ Ack("flash") # Ack("ok")
  BY Zenon DEF Ack
<1>2. \A i \in 1..Len(h2d) : h2d[i].type # "STREAM"
  BY Zenon DEF Sync, WireInv, Streaming
<1>3. hpc # "start" /\ \A i \in 1..Len(h2d') : h2d'[i].type # "STREAM"
  <2>1. CASE h2d' = h2d
    BY <1>2, <2>1, Zenon DEF Sync, WireInv, Streaming
  <2>2. CASE h2d # <<>> /\ h2d' = Tail(h2d)
    BY <2>2, NoStreamBehind, Zenon
  <2> QED BY <2>1, <2>2, Zenon
<1> QED BY <1>1, <1>3, AnswerKeeps, PacketTypes, Zenon DEF AbortTransfer

LEMMA AgentRecvTimeoutKeeps == ASSUME TypeOK, TypeOK', Sync, AgentRecvTimeout, hpc' # "fail" PROVE Sync'
BY AbortKeeps, Zenon DEF AgentRecvTimeout, host, stream, Streaming

LEMMA AgentEraseFailsKeeps == ASSUME TypeOK, TypeOK', Sync, AgentEraseFails, hpc' # "fail" PROVE Sync'
BY AbortKeeps, Zenon DEF AgentEraseFails, host, stream, Streaming

LEMMA AgentRecvKeeps == ASSUME TypeOK, TypeOK', Sync, AgentRecv, hpc' # "fail" PROVE Sync'
<1> USE FlashAssumption, SectorPagesFacts
<1>1. /\ apc = "sector" /\ asec < ImgSectors /\ Dirty(asec) /\ got < SectorPages(asec)
      /\ h2d # <<>> /\ h2d' = Tail(h2d) /\ Streaming /\ Reported = asec /\ InBuffer = got
      /\ UNCHANGED <<hpc, hs, sent, asec, rx, pending, psec, flash, spoiled>>
  BY Zenon DEF AgentRecv, host, Streaming, Reported, InBuffer
<1>2. /\ h2d \in Seq(ToDevice) /\ Len(h2d) \in Nat \ {0} /\ Head(h2d) = h2d[1] /\ h2d[1] \in ToDevice
      /\ Len(h2d') = Len(h2d) - 1 /\ \A i \in 1..Len(h2d') : i + 1 \in 2..Len(h2d) /\ h2d'[i] = h2d[i+1]
  BY <1>1, SMTT(30) DEF TypeOK
<1>3. h2d[1].type \in {"DATA", "bad"}
  <2>1. h2d[1].type \in {"STREAM", "CRC", "REBOOT", "DATA", "bad"}
    BY <1>2 DEF ToDevice
  <2>2. hpc \in {"ack", "stream", "prog", "final"}
    BY <1>1, Zenon DEF Sync, WireInv
  <2> QED BY <1>1, <2>1, <2>2, FirstCommand, Zenon DEF Sync, WireInv
<1>4. CASE h2d[1].type = "bad"
  <2>1. Head(h2d) = Bad
    BY <1>2, <1>4, Zenon DEF Bad, ToDevice
  <2> QED BY <1>1, <2>1, AbortKeeps, Zenon DEF AgentRecv
<1>5. CASE h2d[1].type = "DATA"
  <2>1. /\ apc' = apc /\ d2h' = d2h /\ got' = got + 1
        /\ buf' = [buf EXCEPT ![rx][got] = Image[h2d[1].sec][h2d[1].page]]
    BY <1>2, <1>5, SMTT(30) DEF AgentRecv, Bad
  <2>2. /\ hs \in Nat /\ sent \in Nat /\ got \in Nat /\ asec \in Nat /\ rx \in 0..1 /\ pending \in -1..1
        /\ buf \in [0..1 -> [Page -> Val]] /\ got \in Page
    BY <1>1, SMTT(30) DEF TypeOK, Page
  <2>3. hs = asec /\ h2d[1].sec = hs
    <3>1. hs <= asec /\ ~(asec > hs)
      BY <1>1, Zenon DEF Sync, PageInv
    <3> QED BY <1>2, <1>5, <2>2, <3>1 DEF Sync, WireInv
  <2>4. /\ got + Len(h2d) <= sent
        /\ \A i \in 1..Len(h2d) : h2d[i].type = "DATA" =>
             got + i - 1 <= h2d[i].page /\ h2d[i].page <= sent - 1 - (Len(h2d) - i)
        /\ \A j \in 0..got-1 :
             \E q \in j..(sent - Len(h2d) - got + j) : buf[rx][j] = Image[hs][q]
    BY <1>1, <2>3, Zenon DEF Sync, PageInv
  <2>5. Streaming' /\ Reported' = Reported /\ InBuffer' = got + 1
    BY <1>1, <2>1, Zenon DEF Streaming, Reported, InBuffer
  <2>6. HostInv' /\ ProgressInv'
    BY <1>1, <2>1, <2>5, Zenon DEF Sync, HostInv, ProgressInv, SentThrough
  <2>7. WireInv'
    BY <1>1, <1>2, <2>1, <2>5, SMTT(30) DEF Sync, WireInv
  <2>8. PageInv'
    <3>1. InBuffer' + Len(h2d') <= sent' /\ sent' - Len(h2d') - InBuffer' = sent - Len(h2d) - got
      BY <1>1, <1>2, <2>2, <2>4, <2>5, SMTT(30)
    <3>2. ASSUME NEW i \in 1..Len(h2d'), h2d'[i].type = "DATA"
          PROVE  InBuffer' + i - 1 <= h2d'[i].page /\ h2d'[i].page <= sent' - 1 - (Len(h2d') - i)
      <4>1. i + 1 \in 1..Len(h2d) /\ h2d'[i] = h2d[i+1]
        BY <1>2
      <4>2. got + (i+1) - 1 <= h2d[i+1].page /\ h2d[i+1].page <= sent - 1 - (Len(h2d) - (i+1))
        BY <2>4, <3>2, <4>1, Zenon
      <4>3. got + (i+1) - 1 = InBuffer' + i - 1 /\ sent - 1 - (Len(h2d) - (i+1)) = sent' - 1 - (Len(h2d') - i)
        BY <1>1, <1>2, <2>2, <2>5
      <4> QED BY <4>1, <4>2, <4>3, Zenon
    <3>3. ASSUME NEW j \in 0..InBuffer'-1
          PROVE  \E q \in j..(sent' - Len(h2d') - InBuffer' + j) : buf'[rx][j] = Image[hs][q]
      <4>1. CASE j = got
        <5>1. got + 1 - 1 <= h2d[1].page /\ h2d[1].page <= sent - 1 - (Len(h2d) - 1)
          BY <1>2, <1>5, <2>4
        <5>2. h2d[1].page \in Int
          BY <1>2, <1>5 DEF ToDevice, Page
        <5>3. h2d[1].page \in j..(sent' - Len(h2d') - InBuffer' + j)
          BY <1>2, <2>2, <3>1, <4>1, <5>1, <5>2
        <5>4. buf'[rx][j] = Image[hs][h2d[1].page]
          BY <2>1, <2>2, <2>3, <4>1, Zenon
        <5> QED BY <5>3, <5>4, Zenon
      <4>2. CASE j \in 0..got-1
        <5>1. PICK q \in j..(sent - Len(h2d) - got + j) : buf[rx][j] = Image[hs][q]
          BY <2>4, <4>2, Zenon
        <5>2. buf'[rx][j] = buf[rx][j]
          BY <2>1, <2>2, <4>2
        <5>3. q \in j..(sent' - Len(h2d') - InBuffer' + j)
          BY <3>1, Zenon
        <5> QED BY <5>1, <5>2, <5>3, Zenon
      <4>3. j = got \/ j \in 0..got-1
        BY <2>2, <2>5
      <4> QED BY <4>1, <4>2, <4>3, Zenon
    <3>4. Reported' = hs' /\ hs' \in Nat
      BY <1>1, <2>2, <2>3, <2>5, Zenon
    <3>5. ~(Reported' > hs') /\ hs' <= Reported' /\ rx' = rx /\ hs' = hs
      BY <1>1, <3>4
    <3> QED BY <3>1, <3>2, <3>3, <3>5, Zenon DEF PageInv
  <2>9. BufferInv'
    <3>1. pending # -1 => pending = 1 - rx /\ pending # rx /\ pending \in 0..1
      BY <1>1, <2>2 DEF Sync, BufferInv
    <3>2. pending # -1 => buf'[pending] = buf[pending]
      BY <2>1, <2>2, <3>1, Zenon
    <3>3. apc' # "program"
      BY <1>1, <2>1, Zenon
    <3>0. flash' = flash
      BY <1>1, Zenon
    <3>4. \A s : SectorOK(s) => SectorOK(s)'
      BY <3>0, Zenon DEF SectorOK
    <3>5. pending # -1 => \A p \in 0..SectorPages(psec)-1 : buf'[pending][p] = Image[psec][p]
      BY <1>1, <3>2, Zenon DEF Sync, BufferInv
    <3>6. spoiled = {} => \A s \in 0..asec-1 : SectorOK(s)' \/ (pending # -1 /\ s = psec)
      BY <1>1, <3>4, Zenon DEF Sync, BufferInv
    <3>7. pending # -1 => psec < asec
      BY <1>1, Zenon DEF Sync, BufferInv
    <3> QED BY <1>1, <3>1, <3>3, <3>5, <3>6, <3>7, Zenon DEF BufferInv
  <2>10. AnswerInv'
    BY <1>1, <2>1, StreamingAnswers, Zenon DEF Sync
  <2> QED BY <2>6, <2>7, <2>8, <2>9, <2>10, Zenon DEF Sync
<1> QED BY <1>3, <1>4, <1>5, Zenon

(* A sector is reported received only when its buffer holds all of it. *)
LEMMA AgentProgressKeeps == ASSUME TypeOK, TypeOK', Sync, AgentProgress, hpc' # "fail" PROVE Sync'
<1> USE FlashAssumption, SectorPagesFacts
<1>1. /\ apc = "sector" /\ asec < ImgSectors /\ Dirty(asec) /\ got = SectorPages(asec) /\ apc' = "program"
      /\ d2h' = Append(d2h, Progress(asec + 1)) /\ Streaming /\ Reported = asec /\ InBuffer = got
      /\ UNCHANGED <<hpc, hs, sent, asec, got, buf, rx, pending, psec, flash, h2d, spoiled>>
  BY Zenon DEF AgentProgress, host, stream, Streaming, Reported, InBuffer
<1>2. hs \in Nat /\ sent \in Nat /\ asec \in Nat /\ got \in Nat \ {0} /\ Len(h2d) \in Nat
  BY <1>1, SMTT(30) DEF TypeOK
<1>3. hs = asec
  <2>1. hs <= asec /\ ~(asec > hs)
    BY <1>1, <1>2, Zenon DEF Sync, PageInv
  <2> QED BY <1>2, <2>1
<1>4. /\ got + Len(h2d) <= sent
      /\ \A j \in 0..got-1 : \E q \in j..(sent - Len(h2d) - got + j) : buf[rx][j] = Image[hs][q]
  BY <1>1, <1>3, Zenon DEF Sync, PageInv
<1>5. hpc \in {"stream", "prog"} /\ sent <= SectorPages(hs)
  <2>1. sent # 0
    BY <1>2, <1>4
  <2>2. hpc \in {"ack", "stream", "prog", "final"}
    BY <1>1, Zenon DEF Sync, WireInv
  <2>3. hpc \in {"stream", "prog"}
    BY <2>1, <2>2, Zenon DEF Sync, HostInv
  <2> QED BY <2>3, Zenon DEF Sync, HostInv
<1>6. Len(h2d) = 0 /\ h2d = <<>> /\ sent = SectorPages(hs) /\ sent = got
  <2>1. SectorPages(hs) = got
    BY <1>1, <1>3, Zenon
  <2>2. Len(h2d) = 0 /\ sent = got
    BY <1>2, <1>4, <1>5, <2>1
  <2> QED BY <2>1, <2>2 DEF TypeOK
<1>7. \A p \in 0..SectorPages(asec)-1 : buf[rx][p] = Image[asec][p]
  <2> SUFFICES ASSUME NEW p \in 0..SectorPages(asec)-1 PROVE buf[rx][p] = Image[asec][p]
    BY Zenon
  <2>1. PICK q \in p..(sent - Len(h2d) - got + p) : buf[rx][p] = Image[hs][q]
    BY <1>1, <1>4, Zenon
  <2>2. q = p
    BY <1>2, <1>6, <2>1
  <2> QED BY <1>3, <2>1, <2>2, Zenon
<1>8. Streaming' /\ Reported' = Reported + 1 /\ InBuffer' = 0
  BY <1>1, Zenon DEF Streaming, Reported, InBuffer
<1>9. HostInv' /\ WireInv'
  <2>1. HostInv'
    BY <1>1, Zenon DEF Sync, HostInv
  <2>2. \A i \in 1..Len(<<>>) : FALSE
    OBVIOUS
  <2>3. WireInv'
    BY <1>1, <1>5, <1>6, <1>8, <2>2, Zenon DEF Sync, WireInv
  <2> QED BY <2>1, <2>3, Zenon
<1>10. ProgressInv'
  <2>1. SentThrough(Reported + 1)
    BY <1>1, <1>2, <1>3, <1>6 DEF SentThrough
  <2> QED BY <1>1, <1>2, <1>3, <1>8, <2>1, ReportKeeps
<1>11. PageInv'
  <2>1. Reported' > hs' /\ hs' <= Reported' /\ ~(Reported' = hs') /\ h2d' = <<>> /\ InBuffer' = 0
    BY <1>1, <1>2, <1>3, <1>6, <1>8
  <2> QED BY <2>1, Zenon DEF PageInv
<1>12. BufferInv'
  BY <1>1, <1>7, Zenon DEF Sync, BufferInv, SectorOK, Streaming, Dirty
<1>13. AnswerInv'
  BY <1>1, StreamingAnswers, Zenon DEF Sync
<1> QED BY <1>9, <1>10, <1>11, <1>12, <1>13, Zenon DEF Sync

(* Programming a buffer that holds its sector makes that sector right. *)
LEMMA ProgramSector ==
    ASSUME TypeOK, NEW b, EraseAndProgram(psec, b),
           \A p \in 0..SectorPages(psec)-1 : b[p] = Image[psec][p]
    PROVE  spoiled' = {} => /\ spoiled = {} /\ (\A p \in 0..SectorPages(psec)-1 : flash'[psec][p] = Image[psec][p])
                            /\ \A s \in ImgSector \ {psec} : SectorOK(s) => SectorOK(s)'
<1> USE FlashAssumption, SectorPagesFacts
<1> SUFFICES ASSUME spoiled' = {}
             PROVE  /\ spoiled = {} /\ (\A p \in 0..SectorPages(psec)-1 : flash'[psec][p] = Image[psec][p])
                    /\ \A s \in ImgSector \ {psec} : SectorOK(s) => SectorOK(s)'
  BY Zenon
<1>1. flash' = Programmed(flash, psec, b) /\ spoiled' = spoiled
  BY Zenon DEF EraseAndProgram
<1>2. psec \in Sector /\ flash \in [Sector -> [Page -> Val]]
  BY DEF TypeOK, ImgSector, Sector
<1>3. \A s \in ImgSector \ {psec} : flash'[s] = flash[s]
  BY <1>1, <1>2 DEF Programmed, ImgSector, Sector
<1>4. flash'[psec] = [p \in Page |-> IF p < SectorPages(psec) THEN b[p] ELSE FF]
  BY <1>1, <1>2, Zenon DEF Programmed
<1>5. \A p \in 0..SectorPages(psec)-1 : flash'[psec][p] = Image[psec][p]
  BY <1>4, SMTT(30) DEF Page
<1> QED BY <1>1, <1>3, <1>5, Zenon DEF SectorOK

LEMMA AgentProgramKeeps == ASSUME TypeOK, TypeOK', Sync, AgentProgram, hpc' # "fail" PROVE Sync'
<1> USE FlashAssumption, SectorPagesFacts
<1>1. /\ apc = "program" /\ apc' = "sector" /\ pending' = rx /\ psec' = asec /\ rx' = 1 - rx
      /\ asec' = asec + 1 /\ got' = 0 /\ UNCHANGED <<hpc, hs, sent, buf, h2d, d2h>>
  BY Zenon DEF AgentProgram, host
<1>2. asec \in Nat /\ asec < ImgSectors /\ rx \in 0..1 /\ pending \in -1..1 /\ psec \in ImgSector
  BY <1>1, SMTT(30) DEF TypeOK
<1>3. Streaming /\ Streaming' /\ Reported' = Reported /\ InBuffer' = 0 /\ InBuffer = 0
  BY <1>1, Zenon DEF Streaming, Reported, InBuffer
<1>4. HostInv' /\ WireInv'
  BY <1>1, <1>3, Zenon DEF Sync, HostInv, WireInv
<1>5. ProgressInv'
  <2>1. UNCHANGED <<hs, sent, d2h>> /\ Reported' = Reported /\ Streaming
    BY <1>1, <1>3, Zenon
  <2> QED BY <2>1, Zenon DEF Sync, ProgressInv, SentThrough
<1>6. PageInv'
  BY <1>1, <1>3, SMTT(30) DEF Sync, PageInv
<1>7. BufferInv'
  <2>1. \A p \in 0..SectorPages(asec)-1 : buf[rx][p] = Image[asec][p]
    BY <1>1, <1>3, Zenon DEF Sync, BufferInv
  <2>2. pending # -1 => psec < asec /\ \A p \in 0..SectorPages(psec)-1 : buf[pending][p] = Image[psec][p]
    BY <1>3, Zenon DEF Sync, BufferInv
  <2>3. ASSUME spoiled' = {}, NEW s \in 0..asec-1 PROVE SectorOK(s)'
    <3>1. CASE pending = -1
      <4>1. flash' = flash /\ spoiled = {}
        BY <2>3, <3>1, Zenon DEF AgentProgram
      <4>2. SectorOK(s)
        BY <1>3, <3>1, <4>1, Zenon DEF Sync, BufferInv
      <4> QED BY <4>1, <4>2, Zenon DEF SectorOK
    <3>2. CASE pending # -1
      <4>1. EraseAndProgram(psec, buf[pending])
        BY <3>2, Zenon DEF AgentProgram
      <4>2. /\ spoiled = {} /\ \A p \in 0..SectorPages(psec)-1 : flash'[psec][p] = Image[psec][p]
            /\ \A r \in ImgSector \ {psec} : SectorOK(r) => SectorOK(r)'
        BY <2>2, <2>3, <3>2, <4>1, ProgramSector, Zenon
      <4>3. SectorOK(s) \/ s = psec
        BY <1>3, <4>2, Zenon DEF Sync, BufferInv
      <4>4. s \in ImgSector
        BY <1>2 DEF ImgSector
      <4>5. CASE s = psec
        BY <4>2, <4>5, Zenon DEF SectorOK
      <4>6. CASE s # psec
        BY <4>2, <4>3, <4>4, <4>6, Zenon
      <4> QED BY <4>5, <4>6, Zenon
    <3> QED BY <3>1, <3>2, Zenon
  <2>4. pending' = 1 - rx' /\ psec' < asec' /\ apc' # "program"
    BY <1>1, <1>2
  <2>5. \A p \in 0..SectorPages(psec')-1 : buf'[pending'][p] = Image[psec'][p]
    BY <1>1, <2>1, Zenon
  <2>6. spoiled' = {} => \A s \in 0..asec'-1 : SectorOK(s)' \/ (pending' # -1 /\ s = psec')
    BY <1>1, <1>2, <2>3
  <2> QED BY <2>4, <2>5, <2>6, Zenon DEF BufferInv
<1>8. AnswerInv'
  BY <1>1, <1>3, StreamingAnswers, Zenon DEF Sync
<1> QED BY <1>4, <1>5, <1>6, <1>7, <1>8, Zenon DEF Sync

LEMMA AgentFlushKeeps == ASSUME TypeOK, TypeOK', Sync, AgentFlush, hpc' # "fail" PROVE Sync'
<1> USE FlashAssumption, SectorPagesFacts
<1>1. /\ apc = "sector" /\ pending # -1 /\ EraseAndProgram(psec, buf[pending]) /\ pending' = -1
      /\ UNCHANGED <<hpc, hs, sent, apc, asec, got, buf, rx, psec, h2d, d2h>>
  BY Zenon DEF AgentFlush, host
<1>2. asec \in 0..ImgSectors /\ psec \in ImgSector
  BY Zenon DEF TypeOK
<1>3. Streaming /\ Streaming' /\ Reported' = Reported /\ InBuffer' = InBuffer
  BY <1>1, Zenon DEF Streaming, Reported, InBuffer
<1>4. HostInv' /\ WireInv'
  BY <1>1, <1>3, Zenon DEF Sync, HostInv, WireInv
<1>5. ProgressInv'
  <2>1. UNCHANGED <<hs, sent, d2h>> /\ Reported' = Reported /\ Streaming
    BY <1>1, <1>3, Zenon
  <2> QED BY <2>1, Zenon DEF Sync, ProgressInv, SentThrough
<1>6. PageInv'
  BY <1>1, PageKept, Zenon DEF Sync
<1>7. BufferInv'
  <2>1. \A p \in 0..SectorPages(psec)-1 : buf[pending][p] = Image[psec][p]
    BY <1>1, <1>3, Zenon DEF Sync, BufferInv
  <2>2. ASSUME spoiled' = {}, NEW s \in 0..asec-1 PROVE SectorOK(s)'
    <3>1. /\ spoiled = {} /\ \A p \in 0..SectorPages(psec)-1 : flash'[psec][p] = Image[psec][p]
          /\ \A r \in ImgSector \ {psec} : SectorOK(r) => SectorOK(r)'
      BY <1>1, <2>1, <2>2, ProgramSector, Zenon
    <3>2. SectorOK(s) \/ s = psec
      BY <1>3, <3>1, Zenon DEF Sync, BufferInv
    <3>3. s \in ImgSector
      BY <1>2 DEF ImgSector
    <3>4. CASE s = psec
      BY <3>1, <3>4, Zenon DEF SectorOK
    <3>5. CASE s # psec
      BY <3>1, <3>2, <3>3, <3>5, Zenon
    <3> QED BY <3>4, <3>5, Zenon
  <2> QED BY <1>1, <2>2, Zenon DEF BufferInv
<1>8. AnswerInv'
  BY <1>1, <1>3, StreamingAnswers, Zenon DEF Sync
<1> QED BY <1>4, <1>5, <1>6, <1>7, <1>8, Zenon DEF Sync

LEMMA AgentSkipKeeps == ASSUME TypeOK, TypeOK', Sync, AgentSkip, hpc' # "fail" PROVE Sync'
<1> USE FlashAssumption, SectorPagesFacts
<1>1. /\ apc = "sector" /\ asec < ImgSectors /\ ~Dirty(asec) /\ pending = -1
      /\ flash' = Erased(flash, asec) /\ d2h' = Append(d2h, Progress(asec + 1)) /\ asec' = asec + 1
      /\ UNCHANGED <<hpc, hs, sent, apc, got, buf, rx, pending, psec, h2d, spoiled>>
  BY Zenon DEF AgentSkip, host
<1>2. /\ asec \in Nat /\ hs \in Nat /\ sent \in Nat /\ got \in Nat
      /\ flash \in [Sector -> [Page -> Val]] /\ h2d \in Seq(ToDevice)
  BY SMTT(30) DEF TypeOK
<1>3. /\ Streaming /\ Streaming' /\ Reported = asec /\ Reported' = asec + 1
      /\ InBuffer = got /\ InBuffer' = got
  BY <1>1, Zenon DEF Streaming, Reported, InBuffer
<1>4. hs <= asec
  BY <1>3, Zenon DEF Sync, PageInv
<1>5. h2d = <<>> /\ got = 0
  <2>1. CASE asec > hs
    BY <1>3, <2>1, Zenon DEF Sync, PageInv
  <2>2. CASE asec = hs
    <3>1. sent = 0
      BY <1>1, <1>3, <2>2, Zenon DEF Sync, WireInv, HostInv
    <3>2. got + Len(h2d) <= sent
      BY <1>3, <2>2, Zenon DEF Sync, PageInv
    <3>3. Len(h2d) = 0 /\ got = 0
      BY <1>2, <3>1, <3>2
    <3> QED BY <1>2, <3>3
  <2> QED BY <1>2, <1>4, <2>1, <2>2
<1>6. HostInv' /\ WireInv'
  <2>1. HostInv'
    BY <1>1, Zenon DEF Sync, HostInv
  <2>2. \A i \in 1..Len(<<>>) : FALSE
    OBVIOUS
  <2>3. WireInv'
    BY <1>1, <1>3, <1>5, <2>2, Zenon DEF Sync, WireInv
  <2> QED BY <2>1, <2>3, Zenon
<1>7. ProgressInv'
  <2>1. SentThrough(asec)
    BY <1>3, Zenon DEF Sync, ProgressInv
  <2>2. SentThrough(asec + 1)
    BY <1>1, <1>2, <2>1 DEF SentThrough
  <2> QED BY <1>1, <1>2, <1>3, <1>4, <2>2, ReportKeeps, Zenon
<1>8. PageInv'
  <2>1. Reported' > hs' /\ hs' <= Reported' /\ ~(Reported' = hs') /\ h2d' = <<>> /\ InBuffer' = 0
    BY SMTT(30), <1>1, <1>2, <1>3, <1>4, <1>5
  <2> QED BY <2>1, Zenon DEF PageInv
<1>9. BufferInv'
  <2>1. asec \in Sector /\ flash' = [flash EXCEPT ![asec] = [p \in Page |-> FF]]
    BY <1>1, <1>2 DEF Sector, Erased
  <2>2. ASSUME spoiled = {}, NEW s \in 0..asec-1 PROVE SectorOK(s)'
    <3>1. SectorOK(s)
      BY <1>1, <1>3, <2>2, Zenon DEF Sync, BufferInv
    <3>2. flash'[s] = flash[s]
      BY <1>1, <1>2, <2>1 DEF Sector
    <3> QED BY <3>1, <3>2, Zenon DEF SectorOK
  <2>3. \A p \in 0..SectorPages(asec)-1 : flash'[asec][p] = Image[asec][p]
    <3>1. \A p \in 0..SectorPages(asec)-1 : Image[asec][p] = FF
      BY <1>1, Zenon DEF Dirty
    <3>2. \A p \in Page : flash'[asec][p] = FF
      BY <1>2, <2>1, Zenon
    <3> QED BY <3>1, <3>2 DEF Page
  <2>4. spoiled' = {} => \A s \in 0..asec'-1 : SectorOK(s)'
    <3>1. \A s \in 0..asec : s = asec \/ s \in 0..asec-1
      BY <1>2
    <3>2. asec' - 1 = asec
      BY <1>1, <1>2
    <3>3. \A s \in 0..asec : s = asec => SectorOK(s)'
      BY <2>3, Zenon DEF SectorOK
    <3>4. spoiled' = spoiled
      BY <1>1, Zenon
    <3> QED BY <2>2, <3>1, <3>2, <3>3, <3>4, Zenon
  <2> QED BY <1>1, <2>4, Zenon DEF BufferInv
<1>10. AnswerInv'
  BY <1>1, <1>3, StreamingAnswers, Zenon DEF Sync
<1> QED BY <1>6, <1>7, <1>8, <1>9, <1>10, Zenon DEF Sync

LEMMA CorruptToDeviceKeeps == ASSUME TypeOK, TypeOK', Sync, CorruptToDevice, hpc' # "fail" PROVE Sync'
<1> USE FlashAssumption, SectorPagesFacts
<1>1. UNCHANGED <<hpc, hs, sent, apc, asec, got, buf, rx, pending, psec, flash, d2h, spoiled>>
  BY Zenon DEF CorruptToDevice, host, stream
<1>2. h2d \in Seq(ToDevice) /\ Bad.type = "bad"
  BY Zenon DEF TypeOK, Bad
<1>3. PICK k \in 1..Len(h2d) : h2d' = [h2d EXCEPT ![k] = Bad]
  BY Zenon DEF CorruptToDevice
<1>4. Len(h2d') = Len(h2d) /\ h2d # <<>> /\ \A i \in 1..Len(h2d) : h2d'[i] = h2d[i] \/ h2d'[i].type = "bad"
  BY <1>2, <1>3
<1>5. HostInv' /\ ProgressInv' /\ BufferInv'
  <2>1. HostInv' /\ ProgressInv'
    BY <1>1, Zenon DEF Sync, HostInv, ProgressInv, SentThrough, Streaming, Reported
  <2>2. BufferInv'
    BY <1>1, BufferKept, Zenon DEF Sync
  <2> QED BY <2>1, <2>2, Zenon
<1>6. WireInv'
  BY <1>1, <1>4, Zenon DEF Sync, WireInv, Streaming
<1>7. PageInv'
  BY <1>1, <1>4, Zenon DEF Sync, PageInv, Streaming, Reported, InBuffer
<1>8. AnswerInv'
  <2>1. \A i \in 1..Len(d2h) : d2h[i] = Ack("ok") /\ (i > 1 \/ hpc # "ack") => hpc \in {"crc", "done"}
    BY <1>4, Zenon DEF Sync, AnswerInv
  <2> QED BY <1>1, <2>1, FlashKept, Zenon DEF Sync, AnswerInv, Streaming
<1> QED BY <1>5, <1>6, <1>7, <1>8, Zenon DEF Sync

(* A lost page loosens the bounds, never the other way. *)
LEMMA LoseToDeviceKeeps == ASSUME TypeOK, TypeOK', Sync, LoseToDevice, hpc' # "fail" PROVE Sync'
<1> USE FlashAssumption, SectorPagesFacts
<1>1. UNCHANGED <<hpc, hs, sent, apc, asec, got, buf, rx, pending, psec, flash, d2h, spoiled>>
  BY Zenon DEF LoseToDevice, host, stream
<1>2. h2d \in Seq(ToDevice) /\ Len(h2d) \in Nat /\ sent \in Nat /\ asec \in Nat /\ got \in Nat
  BY DEF TypeOK
<1>3. PICK k \in 1..Len(h2d) : h2d' = Without(h2d, k)
  BY Zenon DEF LoseToDevice
<1>4. /\ Len(h2d') = Len(h2d) - 1 /\ h2d # <<>>
      /\ \A i \in 1..Len(h2d') : h2d'[i] = IF i < k THEN h2d[i] ELSE h2d[i+1]
  <2>1. /\ Len(Without(h2d, k)) = Len(h2d) - 1
        /\ \A i \in 1..Len(h2d)-1 : Without(h2d, k)[i] = IF i < k THEN h2d[i] ELSE h2d[i+1]
    BY <1>2, WithoutFacts, Zenon
  <2> QED BY <1>2, <1>3, <2>1
<1>5. HostInv' /\ ProgressInv' /\ BufferInv'
  <2>1. HostInv' /\ ProgressInv'
    BY <1>1, Zenon DEF Sync, HostInv, ProgressInv, SentThrough, Streaming, Reported
  <2>2. BufferInv'
    BY <1>1, BufferKept, Zenon DEF Sync
  <2> QED BY <2>1, <2>2, Zenon
<1>6. WireInv'
  <2>0. Len(h2d') = Len(h2d) - 1
    BY <1>4, Zenon
  <2>1. ASSUME NEW i \in 1..Len(h2d') PROVE i \in 1..Len(h2d) /\ i + 1 \in 1..Len(h2d) /\ Len(h2d) > 1
    <3>1. i \in Int /\ 1 <= i /\ i <= Len(h2d) - 1
      BY <1>2, <2>0
    <3>2. Len(h2d) \in Int
      BY <1>2
    <3> QED BY <3>1, <3>2
  <2>3. hpc # "start"
    BY <1>4, Zenon DEF Sync, WireInv
  <2>4. \A i \in 1..Len(h2d') : \E j \in 1..Len(h2d) : h2d'[i] = h2d[j]
    BY <1>4, <2>1, Zenon
  <2>2. \A i \in 1..Len(h2d') : h2d'[i].type # "STREAM"
    BY SMTT(30), <2>1, <2>4 DEF Sync, WireInv
  <2> QED BY <1>1, <2>2, <2>3, <2>4, Zenon DEF Sync, WireInv, Streaming
<1>7. PageInv'
  <2>1. Reported' = Reported /\ InBuffer' = InBuffer /\ InBuffer \in Nat /\ (Streaming' <=> Streaming)
    BY <1>1, <1>2, Zenon DEF Streaming, Reported, InBuffer
  <2> SUFFICES ASSUME Streaming PROVE PageInv'
    BY <2>1, Zenon DEF PageInv
  <2>2. hs <= Reported /\ ~(Reported > hs)
    BY <1>4, Zenon DEF Sync, PageInv
  <2>3. Reported = hs
    BY <1>2, <2>2, SMTT(30) DEF Reported, TypeOK
  <2>4. /\ InBuffer + Len(h2d) <= sent
        /\ \A i \in 1..Len(h2d) : h2d[i].type = "DATA" =>
             InBuffer + i - 1 <= h2d[i].page /\ h2d[i].page <= sent - 1 - (Len(h2d) - i)
        /\ \A j \in 0..InBuffer-1 :
             \E q \in j..(sent - Len(h2d) - InBuffer + j) : buf[rx][j] = Image[hs][q]
    BY <2>3, Zenon DEF Sync, PageInv
  <2>5. InBuffer + Len(h2d') <= sent
    BY <1>2, <1>4, <2>1, <2>4
  <2>6. ASSUME NEW i \in 1..Len(h2d'), h2d'[i].type = "DATA"
        PROVE  InBuffer + i - 1 <= h2d'[i].page /\ h2d'[i].page <= sent - 1 - (Len(h2d') - i)
    <3>1. CASE i < k
      <4>1. i \in 1..Len(h2d) /\ h2d'[i] = h2d[i]
        BY <1>2, <1>4, <3>1
      <4>t. h2d[i] \in ToDevice
        BY <1>2, <4>1
      <4>2. h2d[i].page \in Int
        BY <2>6, <4>1, <4>t DEF ToDevice, Page
      <4>3. InBuffer + i - 1 <= h2d[i].page /\ h2d[i].page <= sent - 1 - (Len(h2d) - i)
        BY <2>4, <2>6, <4>1, Zenon
      <4>4. h2d[i].page <= sent - 1 - (Len(h2d') - i)
        BY <1>2, <1>4, <4>2, <4>3
      <4> QED BY <4>1, <4>3, <4>4, Zenon
    <3>2. CASE ~(i < k)
      <4>1. i + 1 \in 1..Len(h2d) /\ h2d'[i] = h2d[i+1]
        BY <1>2, <1>4, <3>2
      <4>t. h2d[i+1] \in ToDevice
        BY <1>2, <4>1
      <4>2. h2d[i+1].page \in Int
        BY <2>6, <4>1, <4>t DEF ToDevice, Page
      <4>3. InBuffer + (i+1) - 1 <= h2d[i+1].page /\ h2d[i+1].page <= sent - 1 - (Len(h2d) - (i+1))
        BY <2>4, <2>6, <4>1, Zenon
      <4>4. InBuffer + i - 1 <= h2d[i+1].page /\ h2d[i+1].page <= sent - 1 - (Len(h2d') - i)
        BY <1>2, <1>4, <2>1, <4>2, <4>3
      <4> QED BY <4>1, <4>4, Zenon
    <3> QED BY <3>1, <3>2, Zenon
  <2>7. ASSUME NEW j \in 0..InBuffer-1
        PROVE  \E q \in j..(sent - Len(h2d') - InBuffer + j) : buf[rx][j] = Image[hs][q]
    <3>1. PICK q \in j..(sent - Len(h2d) - InBuffer + j) : buf[rx][j] = Image[hs][q]
      BY <2>4, Zenon
    <3>2. q \in j..(sent - Len(h2d') - InBuffer + j)
      BY <1>2, <1>4, <2>1
    <3> QED BY <3>1, <3>2, Zenon
  <2> QED BY <1>1, <2>1, <2>2, <2>5, <2>6, <2>7, Zenon DEF PageInv
<1>8. AnswerInv'
  <2>1. \A i \in 1..Len(d2h) : d2h[i] = Ack("ok") /\ (i > 1 \/ hpc # "ack") => hpc \in {"crc", "done"}
    BY <1>4, Zenon DEF Sync, AnswerInv
  <2> QED BY <1>1, <2>1, FlashKept, Zenon DEF Sync, AnswerInv, Streaming
<1> QED BY <1>5, <1>6, <1>7, <1>8, Zenon DEF Sync

LEMMA LoseToHostKeeps == ASSUME TypeOK, TypeOK', Sync, LoseToHost, hpc' # "fail" PROVE Sync'
<1> USE FlashAssumption, SectorPagesFacts
<1>1. UNCHANGED <<hpc, hs, sent, apc, asec, got, buf, rx, pending, psec, flash, h2d, spoiled>>
  BY Zenon DEF LoseToHost, host, stream
<1>2. d2h \in Seq(ToHost) /\ Len(d2h) \in Nat
  BY DEF TypeOK
<1>3. PICK k \in 1..Len(d2h) : d2h' = Without(d2h, k)
  BY Zenon DEF LoseToHost
<1>4. /\ Len(d2h') = Len(d2h) - 1
      /\ \A i \in 1..Len(d2h') : d2h'[i] = IF i < k THEN d2h[i] ELSE d2h[i+1]
  <2>1. /\ Len(Without(d2h, k)) = Len(d2h) - 1
        /\ \A i \in 1..Len(d2h)-1 : Without(d2h, k)[i] = IF i < k THEN d2h[i] ELSE d2h[i+1]
    BY <1>2, WithoutFacts, Zenon
  <2> QED BY <1>2, <1>3, <2>1, Zenon
<1> DEFINE at(i) == IF i < k THEN i ELSE i + 1
<1>5. /\ \A i \in 1..Len(d2h') : at(i) \in 1..Len(d2h) /\ d2h'[i] = d2h[at(i)] /\ (i > 1 => at(i) > 1)
      /\ \A i, j \in 1..Len(d2h') : i < j => at(i) < at(j)
  <2>1. Len(d2h') \in Nat /\ Len(d2h) \in Nat /\ k \in Nat
    BY <1>2, <1>4
  <2>2. \A i, j \in 1..Len(d2h') : i < j => at(i) < at(j)
    BY <2>1
  <2>3. \A i \in 1..Len(d2h') : at(i) \in 1..Len(d2h) /\ d2h'[i] = d2h[at(i)] /\ (i > 1 => at(i) > 1)
    BY <1>2, <1>4, <2>1
  <2> QED
    BY <2>2, <2>3, Zenon
<1> HIDE DEF at
<1>6. HostInv' /\ PageInv' /\ BufferInv'
  <2>1. HostInv' /\ PageInv'
    BY <1>1, PageKept, Zenon DEF Sync, HostInv
  <2>2. BufferInv'
    BY <1>1, BufferKept, Zenon DEF Sync
  <2> QED BY <2>1, <2>2, Zenon
<1>7. WireInv'
  <2>1. d2h # <<>> /\ hpc # "start"
    BY <1>2 DEF Sync, WireInv
  <2>2. \A i \in 1..Len(h2d) : h2d[i].type # "STREAM"
    BY <2>1, Zenon DEF Sync, WireInv
  <2>3. (\A j \in 1..Len(d2h) : d2h[j].type # "DATA") => \A j \in 1..Len(d2h') : d2h'[j].type # "DATA"
    BY <1>5, Zenon
  <2> QED BY <1>1, <2>1, <2>2, <2>3, Zenon DEF Sync, WireInv, Streaming
<1>8. ProgressInv'
  <2>1. Reported' = Reported /\ (Streaming' <=> Streaming)
    BY <1>1, Zenon DEF Streaming, Reported
  <2>2. (Streaming => SentThrough(Reported))'
    BY <1>1, <2>1, Zenon DEF Sync, ProgressInv, SentThrough
  <2>3. ASSUME NEW i \in 1..Len(d2h'), d2h'[i].type = "DATA"
        PROVE  /\ hs' < d2h'[i].done /\ (Streaming' => d2h'[i].done <= Reported')
               /\ \A j \in i+1..Len(d2h') : d2h'[j].type = "DATA" => d2h'[i].done < d2h'[j].done
               /\ SentThrough(d2h[i].done)'
    <3>1. at(i) \in 1..Len(d2h) /\ d2h'[i] = d2h[at(i)]
      BY <1>5, Zenon
    <3>2. /\ hs < d2h[at(i)].done /\ (Streaming => d2h[at(i)].done <= Reported)
          /\ SentThrough(d2h[at(i)].done)
          /\ \A j \in at(i)+1..Len(d2h) : d2h[j].type = "DATA" => d2h[at(i)].done < d2h[j].done
      BY <2>3, <3>1, Zenon DEF Sync, ProgressInv
    <3>3. \A j \in i+1..Len(d2h') : at(j) \in at(i)+1..Len(d2h) /\ d2h'[j] = d2h[at(j)]
      BY <1>2, <1>4, <1>5
    <3>4. SentThrough(d2h[i].done)'
      BY <1>1, <3>1, <3>2, Zenon DEF SentThrough
    <3>5. \A j \in i+1..Len(d2h') : d2h'[j].type = "DATA" => d2h'[i].done < d2h'[j].done
      <4> SUFFICES ASSUME NEW j \in i+1..Len(d2h'), d2h'[j].type = "DATA"
                   PROVE  d2h[at(i)].done < d2h'[j].done
        BY <3>1, Zenon
      <4>1. at(j) \in at(i)+1..Len(d2h) /\ d2h'[j] = d2h[at(j)]
        BY <3>3, Zenon
      <4> QED BY <3>2, <4>1, Zenon
    <3> QED BY <1>1, <2>1, <3>1, <3>2, <3>4, <3>5, Zenon
  <2> QED BY <2>2, <2>3, Zenon DEF ProgressInv
<1>9. AnswerInv'
  BY <1>1, <1>5, FlashKept, Zenon DEF Sync, AnswerInv, Streaming, SentThrough
<1> QED BY <1>6, <1>7, <1>8, <1>9, Zenon DEF Sync
-----------------------------------------------------------------------------
(* A new run starts in step whatever the one before it left. *)
LEMMA RerunKeeps == ASSUME TypeOK', Rerun PROVE Sync'
<1>1. hpc' = "start" /\ apc' = "main" /\ h2d' = <<>> /\ d2h' = <<>> /\ hs' = 0 /\ sent' = 0
  BY Zenon DEF Rerun
<1>2. \A i \in 1..Len(<<>>) : FALSE
  OBVIOUS
<1>3. ~Streaming'
  BY <1>1, Zenon DEF Streaming
<1>4. HostInv' /\ WireInv'
  BY <1>1, <1>2, <1>3, Zenon DEF HostInv, WireInv
<1>5. ProgressInv' /\ AnswerInv'
  BY <1>1, <1>2, <1>3, Zenon DEF ProgressInv, AnswerInv
<1> QED BY <1>3, <1>4, <1>5, Zenon DEF Sync, PageInv, BufferInv

(* A REBOOT on the wire, or a camera that took it, means the host is done. *)
LEMMA RebootStep == TypeOK /\ RebootInv /\ [Next]_vars => RebootInv'
<1> SUFFICES ASSUME TypeOK, RebootInv, [Next]_vars PROVE RebootInv'
  BY Zenon
<1>0. h2d \in Seq(ToDevice)
  BY Zenon DEF TypeOK
<1>1. CASE SendStream \/ SendPage
  <2>1. PICK m \in ToDevice : h2d' = Append(h2d, m) /\ m.type # "REBOOT"
    <3>1. CASE SendStream
      BY <3>1, PacketTypes, Zenon DEF SendStream, Cmd
    <3>2. CASE SendPage
      <4>1. hs \in ImgSector /\ sent \in Page
        BY <3>2, FlashAssumption, SectorPagesFacts DEF SendPage, TypeOK, ImgSector, Page
      <4> QED BY <3>2, <4>1, PacketTypes, Zenon DEF SendPage, DataPkt
    <3> QED BY <1>1, <3>1, <3>2, Zenon
  <2>2. \A i \in 1..Len(h2d') : (i \in 1..Len(h2d) /\ h2d'[i] = h2d[i]) \/ h2d'[i].type # "REBOOT"
    BY <1>0, <2>1
  <2>3. apc' = apc /\ hpc # "done"
    BY <1>1, Zenon DEF SendStream, SendPage
  <2> QED BY <2>2, <2>3, Zenon DEF RebootInv
<1>2. CASE UNCHANGED <<h2d, apc>> /\ (hpc = "done" => hpc' = "done")
  BY <1>2, Zenon DEF RebootInv
<1>3. CASE hpc' = "done" /\ apc' = apc
  BY <1>3, Zenon DEF RebootInv
<1>4. CASE h2d # <<>> /\ h2d' = Tail(h2d) /\ hpc' = hpc /\ apc' \in {"main", "sector", apc}
  <2>1. \A i \in 1..Len(h2d') : i + 1 \in 1..Len(h2d) /\ h2d'[i] = h2d[i+1]
    BY <1>0, <1>4
  <2> QED BY <1>4, <2>1, Zenon DEF RebootInv
<1>5. CASE AgentReboot
  <2>1. hpc = "done" /\ hpc' = hpc
    BY <1>0, <1>5 DEF AgentReboot, Receive, RebootInv, host
  <2> QED BY <2>1, Zenon DEF RebootInv
<1>6. CASE UNCHANGED <<h2d, hpc>> /\ apc' # "off"
  BY <1>6, Zenon DEF RebootInv
<1>7. CASE CorruptToDevice
  <2>1. PICK k \in 1..Len(h2d) : h2d' = [h2d EXCEPT ![k] = Bad]
    BY <1>7, Zenon DEF CorruptToDevice
  <2>2. Len(h2d') = Len(h2d) /\ \A i \in 1..Len(h2d) : h2d'[i] = h2d[i] \/ h2d'[i].type = "bad"
    BY <1>0, <2>1 DEF Bad
  <2>3. UNCHANGED <<hpc, apc>>
    BY <1>7, Zenon DEF CorruptToDevice, host
  <2> QED BY <2>2, <2>3, Zenon DEF RebootInv
<1>8. CASE LoseToDevice
  <2>1. PICK k \in 1..Len(h2d) : h2d' = Without(h2d, k)
    BY <1>8, Zenon DEF LoseToDevice
  <2>2. /\ Len(Without(h2d, k)) = Len(h2d) - 1
        /\ \A i \in 1..Len(h2d)-1 : Without(h2d, k)[i] = IF i < k THEN h2d[i] ELSE h2d[i+1]
    BY <1>0, WithoutFacts, Zenon
  <2>3. \A i \in 1..Len(h2d') : \E j \in 1..Len(h2d) : h2d'[i] = h2d[j]
    BY <1>0, <2>1, <2>2
  <2>4. UNCHANGED <<hpc, apc>>
    BY <1>8, Zenon DEF LoseToDevice, host
  <2> QED BY <2>3, <2>4, Zenon DEF RebootInv
<1>9. CASE Rerun
  BY <1>9 DEF Rerun, RebootInv
<1>10. CASE HostNext
  <2>1. CASE SectorSent \/ RecvFirstAck \/ HostTimeout
    BY <1>2, <2>1, Zenon DEF SectorSent, RecvFirstAck, HostTimeout
  <2>2. CASE RecvCrc
    BY <1>2, <1>3, <2>2, Zenon DEF RecvCrc
  <2>3. CASE WriteDone /\ apc' = apc /\ hpc \in {"prog", "final"}
    <3>1. CASE Verify
      <4>1. h2d' = Append(h2d, Cmd("CRC")) /\ Cmd("CRC") \in ToDevice /\ Cmd("CRC").type = "CRC"
        BY <2>3, <3>1, PacketTypes, Zenon DEF WriteDone, Cmd
      <4>2. \A i \in 1..Len(h2d') : (i \in 1..Len(h2d) /\ h2d'[i] = h2d[i]) \/ h2d'[i].type # "REBOOT"
        BY <1>0, <4>1
      <4> QED BY <2>3, <4>2, Zenon DEF RebootInv
    <3>2. CASE ~Verify
      BY <1>3, <2>3, <3>2, Zenon DEF WriteDone
    <3> QED BY <3>1, <3>2, Zenon
  <2>4. CASE RecvProgress \/ RecvFinal
    BY <1>2, <2>3, <2>4, Zenon DEF RecvProgress, RecvFinal, AckEndsWrite
  <2> QED BY <1>1, <1>10, <2>1, <2>2, <2>4, Zenon DEF HostNext
<1>11. CASE AgentNext
  <2>1. CASE AgentStart \/ AgentReject \/ AgentCrc \/ AgentUnknown \/ AgentIdle \/ AgentRecv
    BY <1>4, <2>1, Zenon DEF AgentStart, AgentReject, AgentCrc, AgentUnknown, AgentIdle, Receive, AgentRecv,
                      AbortTransfer, host
  <2>2. CASE AgentRecvTimeout \/ AgentProgress \/ AgentProgram \/ AgentFlush \/ AgentSkip
             \/ AgentFinish \/ AgentEraseFails
    BY <1>6, <2>2, Zenon DEF AgentRecvTimeout, AgentProgress, AgentProgram, AgentFlush, AgentSkip,
                      AgentFinish, AgentEraseFails, AbortTransfer, host
  <2> QED BY <1>5, <1>11, <2>1, <2>2, Zenon DEF AgentNext
<1>12. CASE LoseToHost \/ UNCHANGED vars
  BY <1>2, <1>12, Zenon DEF LoseToHost, host, vars
<1> QED BY <1>7, <1>8, <1>9, <1>10, <1>11, <1>12, Zenon DEF Next, LinkNext, Quiet

LEMMA InvInit == Init => Inv
<1> SUFFICES ASSUME Init PROVE Inv
  BY Zenon
<1>1. TypeOK
  <2>1. buf \in [0..1 -> [Page -> Val]] /\ flash \in [Sector -> [Page -> Val]]
    BY Zenon DEF Init, Val
  <2> QED BY <2>1, FlashAssumption DEF Init, TypeOK, ImgSector
<1>2. Sync
  <2>1. /\ hpc = "start" /\ apc = "main" /\ h2d = <<>> /\ d2h = <<>> /\ hs = 0 /\ sent = 0
    BY Zenon DEF Init
  <2>2. \A i \in 1..Len(<<>>) : FALSE
    OBVIOUS
  <2>3. ~Streaming
    BY <2>1, Zenon DEF Streaming
  <2>4. HostInv /\ WireInv
    BY <2>1, <2>2, <2>3, Zenon DEF HostInv, WireInv
  <2>5. ProgressInv /\ AnswerInv
    BY <2>1, <2>2, <2>3, Zenon DEF ProgressInv, AnswerInv
  <2> QED BY <2>3, <2>4, <2>5, Zenon DEF Sync, PageInv, BufferInv
<1>3. RebootInv
  BY DEF Init, RebootInv
<1> QED BY <1>1, <1>2, <1>3, Zenon DEF Inv

LEMMA InvStep == Inv /\ [Next]_vars => Inv'
<1> SUFFICES ASSUME Inv, [Next]_vars PROVE Inv'
  BY Zenon
<1>1. TypeOK /\ TypeOK' /\ RebootInv'
  BY TypeStep, RebootStep, Zenon DEF Inv
<1> SUFFICES ASSUME hpc' # "fail" PROVE Sync'
  BY <1>1, Zenon DEF Inv
<1>2. CASE Rerun
  BY <1>1, <1>2, RerunKeeps, Zenon
<1>3. CASE UNCHANGED vars
  <2>1. Sync
    BY <1>3, Zenon DEF Inv, vars
  <2>2. HostInv' /\ WireInv'
    BY <1>3, <2>1, Zenon DEF vars, Sync, HostInv, WireInv, Streaming
  <2>3. ProgressInv' /\ PageInv'
    <3>1. Streaming' = Streaming /\ Reported' = Reported /\ InBuffer' = InBuffer
      BY <1>3, Zenon DEF vars, Streaming, Reported, InBuffer
    <3>2. PageInv'
      BY <1>3, <2>1, <3>1, Zenon DEF vars, Sync, PageInv
    <3>3. \A n : SentThrough(n) => SentThrough(n)'
      BY <1>3, Zenon DEF vars, SentThrough
    <3>4. ProgressInv'
      BY <1>3, <2>1, <3>1, <3>3, Zenon DEF vars, Sync, ProgressInv
    <3> QED BY <3>2, <3>4, Zenon
  <2>4. BufferInv' /\ AnswerInv'
    BY <1>3, <2>1, FlashKept, BufferKept, Zenon DEF vars, Sync, AnswerInv, Streaming, SentThrough
  <2> QED BY <2>2, <2>3, <2>4, Zenon DEF Sync
<1>4. CASE HostNext
  <2>1. hpc # "fail" /\ ~HostTimeout
    BY <1>4, Zenon DEF HostNext, SendStream, RecvFirstAck, SendPage, SectorSent, RecvProgress, RecvFinal,
                RecvCrc, HostTimeout
  <2>2. Sync
    BY <2>1, Zenon DEF Inv
  <2> QED BY <1>1, <1>4, <2>1, <2>2, SendStreamKeeps, RecvFirstAckKeeps, SendPageKeeps, SectorSentKeeps,
             RecvProgressKeeps, RecvFinalKeeps, RecvCrcKeeps, Zenon DEF HostNext
<1>5. CASE AgentNext
  <2>1. hpc' = hpc
    BY <1>5, Zenon DEF AgentNext, AgentStart, AgentReject, AgentCrc, AgentReboot, AgentUnknown, AgentIdle,
                Receive, AgentRecv, AgentRecvTimeout, AgentProgress, AgentProgram, AgentFlush,
                AgentSkip, AgentFinish, AgentEraseFails, host
  <2>2. Sync
    BY <2>1, Zenon DEF Inv
  <2> QED BY SMTT(30), <1>1, <1>5, <2>2, AgentStartKeeps, AgentRejectKeeps, AgentCrcKeeps, AgentRebootKeeps,
             AgentUnknownKeeps, AgentIdleKeeps, AgentRecvKeeps, AgentRecvTimeoutKeeps,
             AgentProgressKeeps, AgentProgramKeeps, AgentFlushKeeps, AgentSkipKeeps,
             AgentFinishKeeps, AgentEraseFailsKeeps DEF AgentNext
<1>6. CASE LinkNext
  <2>1. hpc' = hpc
    BY <1>6, Zenon DEF LinkNext, CorruptToDevice, LoseToDevice, LoseToHost, host
  <2>2. Sync
    BY <2>1, Zenon DEF Inv
  <2> QED BY <1>1, <1>6, <2>2, CorruptToDeviceKeeps, LoseToDeviceKeeps, LoseToHostKeeps, Zenon DEF LinkNext
<1> QED BY <1>2, <1>3, <1>4, <1>5, <1>6, Zenon DEF Next, Quiet

(* The invariant holds throughout every behaviour of the command. *)
THEOREM Invariance == Spec => []Inv
<1>1. Init => Inv
  BY InvInit, Zenon
<1>2. Inv /\ [Next]_vars => Inv'
  BY InvStep, Zenon
<1> QED BY <1>1, <1>2, PTL DEF Spec

(* Every variable of host, agent, wire and chip stays in its type. *)
THEOREM Typing == Spec => []TypeOK
<1>1. Inv => TypeOK
  BY Zenon DEF Inv
<1> QED BY <1>1, Invariance, PTL

(* For every image, chip and number of lost or damaged packets, erase and   *)
(* timing faults: write_flash returns True only when the flash holds the    *)
(* image, page programs that failed unnoticed apart.                        *)
THEOREM WriteIsTruthful == Spec => []WrittenMeansFlashed
<1>1. Inv => WrittenMeansFlashed
  BY Zenon DEF Inv, Sync, AnswerInv, WrittenMeansFlashed
<1> QED BY <1>1, Invariance, PTL

(* With --verify, reboot reaches only a camera whose flash holds the image, *)
(* page programs that failed unnoticed included.                            *)
THEOREM RebootIsSafe == Spec => []RebootOnlyVerified
<1>1. Inv => RebootOnlyVerified
  <2> SUFFICES ASSUME Inv, Verify, hpc = "done" \/ apc = "off" PROVE Matches
    BY Zenon DEF RebootOnlyVerified
  <2>1. CASE hpc = "done"
    BY <2>1, Zenon DEF Inv, Sync, AnswerInv
  <2>2. CASE hpc # "done"
    BY SMTT(30), <2>2 DEF Inv, RebootInv
  <2> QED BY <2>1, <2>2, Zenon
<1> QED BY <1>1, Invariance, PTL

(* The buffer waiting to be programmed is never disturbed by the sector     *)
(* received behind it.                                                      *)
THEOREM DoubleBufferIsSafe == Spec => []PendingIntact
<1>1. Inv => PendingIntact
  <2>1. \A r \in 0..1 : 1 - r # r
    OBVIOUS
  <2> QED BY <2>1, Zenon DEF Inv, Sync, BufferInv, PendingIntact, Streaming, TypeOK
<1> QED BY <1>1, Invariance, PTL

-----------------------------------------------------------------------------
(* No erase without data. *)

(* Every sector that waits to be programmed holds data of the image. *)
WaitingInv ==
    /\ apc = "program" => Dirty(asec)
    /\ Streaming /\ pending # -1 => Dirty(psec)

LEMMA WaitingStep == WaitingInv /\ [Next]_vars => WaitingInv'
<1> SUFFICES ASSUME WaitingInv, [Next]_vars PROVE WaitingInv'
  BY Zenon
<1>1. CASE UNCHANGED <<apc, asec, pending, psec>>
  BY <1>1, Zenon DEF WaitingInv, Streaming
<1>2. CASE apc' \in {"main", "off"}
  BY <1>2, Zenon DEF WaitingInv, Streaming
<1>3. CASE AgentStart
  BY <1>3, Zenon DEF AgentStart, WaitingInv
<1>4. CASE AgentProgress
  BY <1>4, Zenon DEF AgentProgress, WaitingInv, Streaming, stream
<1>5. CASE AgentProgram
  BY <1>5, Zenon DEF AgentProgram, WaitingInv, Streaming
<1>6. CASE AgentFlush
  BY <1>6, Zenon DEF AgentFlush, WaitingInv
<1>7. CASE AgentSkip
  BY <1>7, Zenon DEF AgentSkip, WaitingInv
<1>8. CASE AgentRecv
  BY <1>2, <1>8, Zenon DEF AgentRecv, AbortTransfer, WaitingInv, Streaming
<1>9. CASE AgentNext
  BY <1>1, <1>2, <1>3, <1>4, <1>5, <1>6, <1>7, <1>8, <1>9, Zenon
  DEF AgentNext, AgentReject, AgentCrc, AgentReboot, AgentUnknown, AgentIdle, Receive,
      AgentRecvTimeout, AgentFinish, AgentEraseFails, AbortTransfer, stream
<1>10. CASE HostNext \/ LinkNext
  BY <1>1, <1>10, Zenon
  DEF HostNext, SendStream, RecvFirstAck, SendPage, SectorSent, RecvProgress, RecvFinal, RecvCrc,
      HostTimeout, LinkNext, CorruptToDevice, LoseToDevice, LoseToHost, stream
<1>11. CASE Rerun
  BY <1>2, <1>11, Zenon DEF Rerun
<1>12. CASE UNCHANGED vars
  BY <1>1, <1>12, Zenon DEF vars
<1> QED BY <1>9, <1>10, <1>11, <1>12, Zenon DEF Next, Quiet

(* erase_and_program touches its own sector only. *)
LEMMA OnlyThatSector ==
    ASSUME TypeOK, NEW t \in Sector, NEW b, EraseAndProgram(t, b)
    PROVE  \A s \in Sector : flash'[s] # flash[s] => s = t
<1>1. flash \in [Sector -> [Page -> Val]]
  BY Zenon DEF TypeOK
<1>2. \A s \in Sector \ {t} : Programmed(flash, t, b)[s] = flash[s]
  BY <1>1, Zenon DEF Programmed
<1>3. DOMAIN Programmed(flash, t, b) = Sector
  BY <1>1, Zenon DEF Programmed
<1> QED BY <1>2, <1>3, Zenon DEF EraseAndProgram

LEMMA EraseStep ==
    ASSUME TypeOK, WaitingInv, [Next]_vars, NEW s \in Sector, flash'[s] # flash[s]
    PROVE  s \in ImgSector /\ IF Dirty(s) THEN pending # -1 /\ s = psec ELSE s = asec
<1>1. ImgSector \subseteq Sector /\ psec \in ImgSector /\ flash \in [Sector -> [Page -> Val]]
  <2>1. ImgSector \subseteq Sector
    BY FlashAssumption DEF ImgSector, Sector
  <2> QED BY <2>1, Zenon DEF TypeOK
<1>2. CASE AgentProgram \/ AgentFlush
  <2>1. pending # -1 /\ EraseAndProgram(psec, buf[pending]) /\ Streaming
    BY <1>2, Zenon DEF AgentProgram, AgentFlush, Streaming
  <2>2. s = psec
    BY <1>1, <2>1, OnlyThatSector, Zenon
  <2> QED BY <1>1, <2>1, <2>2, Zenon DEF WaitingInv
<1>3. CASE AgentSkip
  <2>1. asec \in ImgSector
    BY <1>3, FlashAssumption DEF AgentSkip, TypeOK, ImgSector
  <2>2. s = asec /\ ~Dirty(asec)
    BY <1>1, <1>3, Zenon DEF AgentSkip, Erased
  <2> QED BY <2>1, <2>2, Zenon
<1>4. CASE HostNext \/ LinkNext \/ Rerun \/ UNCHANGED vars
  BY <1>4, Zenon
  DEF HostNext, SendStream, RecvFirstAck, SendPage, SectorSent, RecvProgress, RecvFinal, RecvCrc,
      HostTimeout, LinkNext, CorruptToDevice, LoseToDevice, LoseToHost, Rerun, vars
<1>5. CASE AgentNext
  BY <1>2, <1>3, <1>5, Zenon
  DEF AgentNext, AgentStart, AgentReject, AgentCrc, AgentReboot, AgentUnknown, AgentIdle, Receive,
      AgentRecv, AgentRecvTimeout, AgentProgress, AgentFinish, AgentEraseFails
<1> QED BY <1>4, <1>5, Zenon DEF Next, Quiet

(* For every image and chip: handle_flash_stream erases a sector of the     *)
(* image only, and one with data only when the data is complete in a        *)
(* buffer, whatever packets are lost or damaged.                            *)
THEOREM EraseIsCovered == Spec => EraseOnlyWithData
<1>1. Init => WaitingInv
  BY Zenon DEF Init, WaitingInv, Streaming
<1>2. TypeOK /\ WaitingInv /\ [Next]_vars =>
        [\A s \in Sector : flash'[s] # flash[s] =>
           /\ s \in ImgSector
           /\ IF Dirty(s) THEN pending # -1 /\ s = psec ELSE s = asec]_vars
  BY EraseStep, Zenon
<1> QED BY <1>1, <1>2, WaitingStep, Typing, PTL DEF Spec, EraseOnlyWithData

-----------------------------------------------------------------------------
(* No failure without a cause. *)

(* The answers q on their way to the host: the ACK of the start (f = 1), n  *)
(* progress packets, the final ACK (l = 1).                                 *)
Answers(q, f, n, l) ==
    /\ Len(q) = f + n + l
    /\ \A i \in 1..Len(q) :
         IF f < i /\ i <= f + n THEN q[i].type = "DATA" ELSE q[i] = Ack("ok")

First == IF hpc = "ack" THEN 1 ELSE 0
Final == IF Streaming THEN 0 ELSE 1

(* Host and agent are in step: the agent has reported each sector it is     *)
(* ahead, and the pages sent of a sector are in the buffer or on the wire.  *)
StepInv ==
    /\ Streaming \/ (apc = "main" /\ asec = ImgSectors)
    /\ Answers(d2h, First, Reported - hs, Final)
    /\ Streaming /\ Reported = hs => InBuffer + Len(h2d) = sent

InStep ==
    /\ hpc # "fail" /\ spoiled = {}
    /\ \A i \in 1..Len(h2d) : h2d[i].type # "bad"
    /\ hpc = "crc" =>
         /\ apc = "main" /\ Len(h2d) + Len(d2h) = 1
         /\ \A i \in 1..Len(d2h) : d2h[i].type = "CRC32"
    /\ hpc = "ack" /\ h2d # <<>> => d2h = <<>> /\ apc = "main"
    /\ (hpc = "ack" /\ h2d = <<>>) \/ hpc \in {"stream", "prog", "final"} => StepInv

(* A run without a fault on a chip that was found. *)
Clean == faults = 0 /\ chip # 0 /\ hpc # "done"

CleanInv == Clean => InStep

LEMMA AnswersAppend ==
    ASSUME NEW S, NEW q \in Seq(S), NEW m \in S, NEW f \in Nat, NEW n \in Nat, Answers(q, f, n, 0)
    PROVE  /\ m.type = "DATA" => Answers(Append(q, m), f, n + 1, 0)
           /\ m = Ack("ok") => Answers(Append(q, m), f, n, 1)
<1>1. /\ Len(Append(q, m)) = Len(q) + 1 /\ Len(q) \in Nat
      /\ Append(q, m)[Len(q) + 1] = m /\ \A i \in 1..Len(q) : Append(q, m)[i] = q[i]
  BY SMT
<1> DEFINE r == Append(q, m)
<1> HIDE DEF r
<1>2. \A i \in 1..Len(r) : i \in 1..Len(q) \/ i = Len(q) + 1
  BY <1>1 DEF r
<1>3. ASSUME m.type = "DATA" PROVE Answers(r, f, n + 1, 0)
  <2> SUFFICES ASSUME NEW i \in 1..Len(r)
               PROVE  IF f < i /\ i <= f + (n + 1) THEN r[i].type = "DATA" ELSE r[i] = Ack("ok")
    BY <1>1 DEF Answers, r
  <2> QED BY <1>1, <1>2, <1>3 DEF Answers, r
<1>4. ASSUME m = Ack("ok") PROVE Answers(r, f, n, 1)
  <2> SUFFICES ASSUME NEW i \in 1..Len(r)
               PROVE  IF f < i /\ i <= f + n THEN r[i].type = "DATA" ELSE r[i] = Ack("ok")
    BY <1>1 DEF Answers, r
  <2> QED BY <1>1, <1>2, <1>4 DEF Answers, r
<1> QED BY <1>3, <1>4, Zenon DEF r

LEMMA AnswersTail ==
    ASSUME NEW S, NEW q \in Seq(S), q # <<>>, NEW n \in Nat, NEW l \in 0..1
    PROVE  /\ Answers(q, 1, n, l) => Head(q) = Ack("ok") /\ Answers(Tail(q), 0, n, l)
           /\ Answers(q, 0, n, l) /\ n > 0 => Head(q).type = "DATA" /\ Answers(Tail(q), 0, n - 1, l)
           /\ Answers(q, 0, 0, l) => Head(q) = Ack("ok") /\ Tail(q) = <<>> /\ l = 1
<1>1. /\ Len(q) \in Nat \ {0} /\ Head(q) = q[1] /\ 1 \in 1..Len(q)
      /\ Tail(q) \in Seq(S) /\ Len(Tail(q)) = Len(q) - 1
      /\ \A i \in 1..Len(Tail(q)) : i + 1 \in 1..Len(q) /\ Tail(q)[i] = q[i + 1]
  BY SMT
<1> DEFINE r == Tail(q)
<1>2. Len(r) = 0 => r = <<>>
  <2>1. \A s \in Seq(S) : Len(s) = 0 => s = <<>>
    BY SMT
  <2> QED BY <1>1, <2>1, Zenon
<1> HIDE DEF r
<1>3. ASSUME Answers(q, 1, n, l) PROVE q[1] = Ack("ok") /\ Answers(r, 0, n, l)
  <2>1. q[1] = Ack("ok") /\ Len(r) = n + l
    BY <1>1, <1>3 DEF Answers, r
  <2> SUFFICES ASSUME NEW i \in 1..Len(r)
               PROVE  IF 0 < i /\ i <= 0 + n THEN r[i].type = "DATA" ELSE r[i] = Ack("ok")
    BY <2>1 DEF Answers
  <2>2. i + 1 \in 1..Len(q) /\ r[i] = q[i + 1]
    BY <1>1, Zenon DEF r
  <2> QED BY <1>3, <2>2 DEF Answers
<1>4. ASSUME Answers(q, 0, n, l), n > 0 PROVE q[1].type = "DATA" /\ Answers(r, 0, n - 1, l)
  <2>1. q[1].type = "DATA" /\ Len(r) = n - 1 + l
    BY <1>1, <1>4 DEF Answers, r
  <2> SUFFICES ASSUME NEW i \in 1..Len(r)
               PROVE  IF 0 < i /\ i <= 0 + (n - 1) THEN r[i].type = "DATA" ELSE r[i] = Ack("ok")
    BY <2>1 DEF Answers
  <2>2. i + 1 \in 1..Len(q) /\ r[i] = q[i + 1]
    BY <1>1, Zenon DEF r
  <2> QED BY <1>4, <2>2 DEF Answers
<1>5. ASSUME Answers(q, 0, 0, l) PROVE q[1] = Ack("ok") /\ r = <<>> /\ l = 1
  BY <1>1, <1>2, <1>5 DEF Answers, r
<1> QED BY <1>1, <1>3, <1>4, <1>5, Zenon DEF r

LEMMA Ahead ==
    ASSUME TypeOK, Sync, StepInv
    PROVE  Reported \in 0..ImgSectors /\ hs \in 0..ImgSectors /\ Reported - hs \in Nat
<1>1. /\ asec \in 0..ImgSectors /\ hs \in 0..ImgSectors /\ ImgSectors \in Nat
      /\ apc = "program" => asec < ImgSectors
  BY FlashAssumption, Zenon DEF TypeOK
<1>2. Reported \in 0..ImgSectors
  BY <1>1 DEF Reported
<1>3. hs <= Reported
  <2>1. CASE Streaming
    BY <2>1, Zenon DEF Sync, PageInv
  <2>2. CASE ~Streaming
    BY <1>1, <2>2 DEF StepInv, Reported, Streaming
  <2> QED BY <2>1, <2>2, Zenon
<1> QED BY <1>1, <1>2, <1>3

LEMMA EmptyQueue ==
    ASSUME TypeOK
    PROVE  /\ Len(h2d) \in Nat /\ (Len(h2d) = 0 <=> h2d = <<>>)
           /\ Len(d2h) \in Nat /\ (Len(d2h) = 0 <=> d2h = <<>>)
           /\ h2d # <<>> => h2d[1] = Head(h2d) /\ 1 \in 1..Len(h2d)
           /\ d2h # <<>> => d2h[1] = Head(d2h) /\ 1 \in 1..Len(d2h)
<1>1. h2d \in Seq(ToDevice) /\ d2h \in Seq(ToHost)
  BY Zenon DEF TypeOK
<1>2. \A S : \A q \in Seq(S) : /\ Len(q) \in Nat /\ (Len(q) = 0 <=> q = <<>>)
                               /\ q # <<>> => q[1] = Head(q) /\ 1 \in 1..Len(q)
  BY SMT
<1>3. /\ Len(h2d) \in Nat /\ (Len(h2d) = 0 <=> h2d = <<>>)
      /\ h2d # <<>> => h2d[1] = Head(h2d) /\ 1 \in 1..Len(h2d)
  BY <1>1, <1>2, Zenon
<1>4. /\ Len(d2h) \in Nat /\ (Len(d2h) = 0 <=> d2h = <<>>)
      /\ d2h # <<>> => d2h[1] = Head(d2h) /\ 1 \in 1..Len(d2h)
  BY <1>1, <1>2, Zenon
<1> QED BY <1>3, <1>4, Zenon

(* The final ACK finds the host at the end and nothing else under way. *)
LEMMA FinalAck ==
    ASSUME TypeOK, Sync, StepInv, hpc \in {"prog", "final"}, d2h # <<>>, Head(d2h).type = "ACK"
    PROVE  Head(d2h) = Ack("ok") /\ Tail(d2h) = <<>> /\ h2d = <<>> /\ apc = "main"
<1>1. Reported - hs \in Nat /\ d2h \in Seq(ToHost) /\ Final \in 0..1 /\ First = 0
  BY Ahead DEF TypeOK, Final, First
<1>2. Answers(d2h, 0, Reported - hs, Final)
  BY <1>1, Zenon DEF StepInv
<1>3. Reported - hs = 0
  <2>1. ~(Reported - hs > 0)
    BY <1>1, <1>2, AnswersTail, Zenon
  <2> QED BY <1>1, <2>1
<1>4. Head(d2h) = Ack("ok") /\ Tail(d2h) = <<>> /\ Final = 1
  BY <1>1, <1>2, <1>3, AnswersTail, Zenon
<1>5. ~Streaming
  BY <1>4 DEF Final
<1>6. h2d = <<>>
  <2>1. d2h[1] = Ack("ok") /\ 1 \in 1..Len(d2h)
    BY <1>4, EmptyQueue, Zenon
  <2> QED BY <2>1, Zenon DEF Sync, AnswerInv
<1> QED BY <1>4, <1>5, <1>6, Zenon DEF StepInv

(* write_flash has returned True: one CRC32 request is under way. *)
LEMMA WriteDoneInStep ==
    ASSUME TypeOK, InStep, WriteDone, h2d = <<>>, d2h' = <<>>, apc = "main", apc' = apc,
           spoiled' = spoiled, hpc' # "done"
    PROVE  InStep'
<1>1. hpc' = "crc" /\ h2d' = Append(h2d, Cmd("CRC"))
  BY Zenon DEF WriteDone
<1>2. Len(h2d') = 1 /\ h2d'[1] = Cmd("CRC") /\ Len(d2h') = 0
  BY <1>1
<1>3. \A i \in 1..Len(h2d') : h2d'[i].type # "bad"
  BY <1>2 DEF Cmd
<1>4. \A i \in 1..Len(d2h') : d2h'[i].type = "CRC32"
  BY <1>2
<1> QED BY <1>1, <1>2, <1>3, <1>4, SMT DEF InStep

LEMMA SendStreamInStep ==
    ASSUME TypeOK, Sync, InStep, SendStream PROVE InStep'
<1>1. /\ hpc' = "ack" /\ h2d = <<>> /\ h2d' = Append(h2d, Cmd("STREAM")) /\ d2h = <<>>
      /\ apc = "main" /\ UNCHANGED <<d2h, apc, spoiled>>
  BY Zenon DEF SendStream, Sync, WireInv
<1>2. Len(h2d') = 1 /\ h2d'[1] = Cmd("STREAM")
  BY <1>1
<1>3. h2d' # <<>> /\ \A i \in 1..Len(h2d') : h2d'[i].type # "bad"
  BY <1>2 DEF Cmd
<1> QED BY <1>1, <1>3, Zenon DEF InStep

LEMMA RecvFirstAckInStep ==
    ASSUME TypeOK, Sync, InStep, RecvFirstAck PROVE InStep'
<1>1. /\ hpc = "ack" /\ d2h # <<>> /\ d2h' = Tail(d2h) /\ hs = 0 /\ hs' = 0 /\ sent = 0 /\ sent' = 0
      /\ UNCHANGED <<apc, asec, got, h2d, spoiled>>
  BY Zenon DEF RecvFirstAck, Sync, HostInv, stream
<1>2. StepInv
  BY <1>1, Zenon DEF InStep
<1>3. /\ First = 1 /\ Reported - hs \in Nat /\ Final \in 0..1 /\ d2h \in Seq(ToHost)
  BY <1>1, <1>2, Ahead DEF First, Final, TypeOK
<1>4. Head(d2h) = Ack("ok") /\ Answers(Tail(d2h), 0, Reported - hs, Final)
  BY <1>1, <1>2, <1>3, AnswersTail, Zenon DEF StepInv
<1>5. hpc' = "stream" /\ First' = 0
  BY <1>1, <1>4, Zenon DEF RecvFirstAck, First
<1>6. Reported' = Reported /\ InBuffer' = InBuffer /\ Final' = Final /\ (Streaming' <=> Streaming)
  BY <1>1, Zenon DEF Reported, InBuffer, Final, Streaming
<1>7. StepInv'
  BY <1>1, <1>2, <1>4, <1>5, <1>6, Zenon DEF StepInv
<1> QED BY <1>1, <1>5, <1>7, Zenon DEF InStep

LEMMA SendInStep ==
    ASSUME TypeOK, Sync, InStep, SendPage \/ SectorSent PROVE InStep'
<1>1. /\ hpc = "stream" /\ hpc' \in {"stream", "prog"}
      /\ UNCHANGED <<hs, apc, asec, got, d2h, spoiled>>
  BY Zenon DEF SendPage, SectorSent, stream
<1>2. StepInv /\ h2d \in Seq(ToDevice) /\ sent \in Nat /\ got \in Nat /\ InBuffer \in Nat
  BY <1>1, FlashAssumption DEF InStep, TypeOK, InBuffer
<1>3. /\ First' = First /\ Reported' = Reported /\ InBuffer' = InBuffer /\ Final' = Final
      /\ (Streaming' <=> Streaming)
  BY <1>1, Zenon DEF First, Reported, InBuffer, Final, Streaming
<1>4. /\ \A i \in 1..Len(h2d') : h2d'[i].type # "bad"
      /\ (InBuffer + Len(h2d) = sent => InBuffer + Len(h2d') = sent')
  <2>1. CASE SendPage
    <3>1. sent' = sent + 1 /\ h2d' = Append(h2d, DataPkt(hs, sent))
      BY <2>1, Zenon DEF SendPage
    <3>2. /\ Len(h2d) \in Nat /\ Len(h2d') = Len(h2d) + 1 /\ h2d'[Len(h2d) + 1] = DataPkt(hs, sent)
          /\ \A i \in 1..Len(h2d) : h2d'[i] = h2d[i]
      BY <1>2, <3>1
    <3>3. \A i \in 1..Len(h2d') : i \in 1..Len(h2d) \/ i = Len(h2d) + 1
      BY <3>2
    <3>4. \A i \in 1..Len(h2d') : h2d'[i].type # "bad"
      BY <3>2, <3>3, SMTT(30) DEF DataPkt, InStep
    <3> QED BY <1>2, <3>1, <3>2, <3>4
  <2>2. CASE SectorSent
    BY <2>2, Zenon DEF SectorSent, InStep
  <2> QED BY <2>1, <2>2, Zenon
<1>5. StepInv'
  BY <1>1, <1>2, <1>3, <1>4, Zenon DEF StepInv
<1> QED BY <1>1, <1>4, <1>5, Zenon DEF InStep

LEMMA RecvProgressInStep ==
    ASSUME TypeOK, Sync, InStep, RecvProgress, hpc' # "done" PROVE InStep'
<1>1. /\ hpc = "prog" /\ d2h # <<>> /\ d2h' = Tail(d2h) /\ UNCHANGED <<apc, asec, got, spoiled>>
  BY Zenon DEF RecvProgress, stream
<1>2. StepInv
  BY <1>1, Zenon DEF InStep
<1>3. CASE Head(d2h).type = "ACK"
  <2>1. Head(d2h) = Ack("ok") /\ Tail(d2h) = <<>> /\ h2d = <<>> /\ apc = "main"
    BY <1>1, <1>2, <1>3, FinalAck, Zenon
  <2>2. WriteDone
    BY <1>3, <2>1 DEF RecvProgress, AckEndsWrite, Ack
  <2> QED BY <1>1, <2>1, <2>2, WriteDoneInStep, Zenon
<1>4. CASE Head(d2h).type = "DATA"
  <2>1. /\ hs' = hs + 1 /\ sent' = 0 /\ h2d' = h2d /\ hpc' \in {"stream", "final"}
    BY <1>4, Zenon DEF RecvProgress
  <2>2. /\ Reported \in 0..ImgSectors /\ hs \in 0..ImgSectors /\ Reported - hs \in Nat
        /\ ImgSectors \in Nat /\ d2h \in Seq(ToHost) /\ Final \in 0..1 /\ First = 0
    BY <1>1, <1>2, Ahead, FlashAssumption, SMTT(30) DEF TypeOK, First, Final
  <2>3. Answers(d2h, 0, Reported - hs, Final)
    BY <1>2, <2>2, Zenon DEF StepInv
  <2>4. Reported - hs > 0
    <3>1. Reported - hs # 0
      BY <1>1, <1>4, <2>2, <2>3, AnswersTail DEF Ack
    <3> QED BY <2>2, <3>1
  <2>5. Answers(Tail(d2h), 0, Reported - hs - 1, Final)
    BY <1>1, <2>2, <2>3, <2>4, AnswersTail, Zenon
  <2>6. Reported - hs - 1 = Reported - hs'
    BY <2>1, <2>2
  <2>7. /\ Reported' = Reported /\ InBuffer' = InBuffer /\ Final' = Final /\ (Streaming' <=> Streaming)
        /\ First' = 0
    BY <1>1, <2>1, Zenon DEF Reported, InBuffer, Final, Streaming, First
  <2>8. Streaming => InBuffer = 0 /\ Len(h2d) = 0
    <3>1. Streaming => h2d = <<>> /\ InBuffer = 0
      BY <2>2, <2>4 DEF Sync, PageInv
    <3> QED BY <3>1, EmptyQueue, Zenon
  <2>9. StepInv'
    <3>1. Answers(d2h', First', Reported' - hs', Final')
      BY <1>1, <2>5, <2>6, <2>7, Zenon
    <3>2. Streaming' => InBuffer' + Len(h2d') = sent'
      BY <2>1, <2>7, <2>8
    <3> QED BY <1>1, <1>2, <2>7, <3>1, <3>2, Zenon DEF StepInv
  <2> QED BY <1>1, <2>1, <2>9, Zenon DEF InStep
<1> QED BY <1>3, <1>4, Zenon DEF RecvProgress

LEMMA RecvFinalInStep ==
    ASSUME TypeOK, Sync, InStep, RecvFinal, hpc' # "done" PROVE InStep'
<1>1. /\ hpc = "final" /\ d2h # <<>> /\ d2h' = Tail(d2h) /\ UNCHANGED <<apc, asec, got, spoiled>>
  BY Zenon DEF RecvFinal, stream
<1>2. StepInv
  BY <1>1, Zenon DEF InStep
<1>3. Head(d2h).type = "ACK"
  <2>1. /\ Reported - hs = 0 /\ Final \in 0..1 /\ First = 0 /\ d2h \in Seq(ToHost)
    <3>1. hs = ImgSectors /\ ImgSectors \in Nat
      BY <1>1, FlashAssumption, Zenon DEF Sync, HostInv
    <3> QED BY <1>1, <1>2, <3>1, Ahead, SMTT(30) DEF TypeOK, First, Final
  <2>2. Answers(d2h, 0, 0, Final)
    BY <1>2, <2>1, Zenon DEF StepInv
  <2> QED BY <1>1, <2>1, <2>2, AnswersTail DEF Ack
<1>4. Head(d2h) = Ack("ok") /\ Tail(d2h) = <<>> /\ h2d = <<>> /\ apc = "main"
  BY <1>1, <1>2, <1>3, FinalAck, Zenon
<1>5. WriteDone
  BY <1>3, <1>4 DEF RecvFinal, AckEndsWrite, Ack
<1> QED BY <1>1, <1>4, <1>5, WriteDoneInStep, Zenon

(* The CRC32 of a clean run matches: the command ends with the reboot. *)
LEMMA RecvCrcInStep ==
    ASSUME TypeOK, Sync, InStep, RecvCrc PROVE hpc' = "done"
<1>1. hpc = "crc" /\ d2h # <<>> /\ spoiled = {}
  BY Zenon DEF RecvCrc, InStep
<1>2. d2h[1] = Head(d2h) /\ 1 \in 1..Len(d2h)
  BY <1>1, EmptyQueue, Zenon
<1>3. Head(d2h).type = "CRC32"
  BY <1>1, <1>2, Zenon DEF InStep
<1>4. Head(d2h).crc = View(Image)
  BY <1>1, <1>2, <1>3, Zenon DEF Sync, AnswerInv, Matches
<1> QED BY <1>3, <1>4, Zenon DEF RecvCrc

(* Nobody waits in vain: an agent that is silent has answered. *)
LEMMA HostTimeoutInStep ==
    ASSUME TypeOK, Sync, InStep, HostTimeout PROVE ~AgentSilent
<1> SUFFICES ASSUME AgentSilent PROVE FALSE
  BY Zenon
<1>1. /\ hpc \in {"ack", "prog", "final", "crc"} /\ Len(d2h) = 0 /\ h2d = <<>> /\ Len(h2d) = 0
      /\ ~Streaming
  BY EmptyQueue, Zenon DEF HostTimeout, AgentSilent, Streaming
<1>2. hpc # "crc"
  BY <1>1 DEF InStep
<1>3. StepInv
  BY <1>1, <1>2, Zenon DEF InStep
<1>4. Reported - hs \in Nat /\ First \in Nat /\ Final = 1
  BY <1>1, <1>3, Ahead, Zenon DEF First, Final
<1> QED BY <1>1, <1>3, <1>4 DEF StepInv, Answers

(* What InStep says of an agent in the middle of a transfer. *)
LEMMA StreamingInStep ==
    ASSUME TypeOK, Sync, InStep, Streaming
    PROVE  /\ hpc \in {"ack", "stream", "prog", "final"} /\ (hpc = "ack" => h2d = <<>>) /\ StepInv
           /\ First \in Nat /\ Final = 0 /\ Answers(d2h, First, Reported - hs, 0)
           /\ \A i \in 1..Len(h2d) : h2d[i].type = "DATA"
<1>1. hpc \in {"ack", "stream", "prog", "final"} /\ apc # "main"
  BY Zenon DEF Sync, WireInv, Streaming
<1>2. (hpc = "ack" => h2d = <<>>) /\ StepInv
  BY <1>1, Zenon DEF InStep
<1>3. First \in Nat /\ Final = 0
  BY Zenon DEF First, Final
<1>4. Answers(d2h, First, Reported - hs, 0)
  BY <1>2, <1>3, Zenon DEF StepInv
<1>5. ASSUME NEW i \in 1..Len(h2d) PROVE h2d[i].type = "DATA"
  <2>1. h2d[i] \in ToDevice
    <3>1. h2d \in Seq(ToDevice)
      BY Zenon DEF TypeOK
    <3> QED BY <3>1
  <2>2. h2d[i].type \in {"STREAM", "CRC", "REBOOT", "bad", "DATA"}
    BY <2>1, Zenon DEF ToDevice
  <2>3. h2d[i].type # "bad"
    BY Zenon DEF InStep
  <2> QED BY <1>1, <2>2, <2>3, Zenon DEF Sync, WireInv
<1> QED BY <1>1, <1>2, <1>3, <1>4, <1>5, Zenon

(* A step of the transfer that keeps the count keeps host and agent in step. *)
LEMMA TransferInStep ==
    ASSUME TypeOK, Sync, InStep, Streaming, StepInv', UNCHANGED <<host, spoiled>>,
           \A i \in 1..Len(h2d') : h2d'[i].type = "DATA", hpc = "ack" => h2d' = <<>>
    PROVE  InStep'
<1>1. hpc' = hpc /\ spoiled' = spoiled /\ hpc \in {"ack", "stream", "prog", "final"}
  BY StreamingInStep, Zenon DEF host
<1>2. \A i \in 1..Len(h2d') : h2d'[i].type # "bad"
  BY Zenon
<1> QED BY <1>1, <1>2, Zenon DEF InStep

LEMMA AgentRecvInStep ==
    ASSUME TypeOK, Sync, InStep, AgentRecv PROVE InStep'
<1>1. /\ apc = "sector" /\ h2d # <<>> /\ h2d' = Tail(h2d)
      /\ UNCHANGED <<host, asec, spoiled>> /\ UNCHANGED <<hpc, hs, sent>>
  BY Zenon DEF AgentRecv, host
<1>2. Streaming /\ got \in Nat /\ sent \in Nat /\ h2d \in Seq(ToDevice)
  BY <1>1, FlashAssumption DEF Streaming, TypeOK
<1>3. hpc # "ack" /\ StepInv /\ Head(h2d).type = "DATA"
  BY <1>1, <1>2, StreamingInStep, EmptyQueue, Zenon
<1>4. got' = got + 1 /\ apc' = apc /\ d2h' = d2h
  BY <1>3 DEF AgentRecv, Bad
<1>5. Len(h2d) \in Nat /\ Len(h2d') = Len(h2d) - 1 /\ \A i \in 1..Len(h2d') : i + 1 \in 1..Len(h2d) /\ h2d'[i] = h2d[i + 1]
  BY <1>1, <1>2
<1>6. \A i \in 1..Len(h2d') : h2d'[i].type = "DATA"
  BY <1>2, <1>5, StreamingInStep, Zenon
<1>7. /\ First' = First /\ Final' = Final /\ (Streaming' <=> Streaming)
      /\ Reported' = Reported /\ InBuffer' = got + 1 /\ InBuffer = got
  BY <1>1, <1>4, Zenon DEF First, Final, Streaming, Reported, InBuffer
<1>8. InBuffer + Len(h2d) = sent => InBuffer' + Len(h2d') = sent'
  BY <1>1, <1>2, <1>5, <1>7
<1>9. StepInv'
  BY <1>1, <1>2, <1>3, <1>4, <1>7, <1>8, Zenon DEF StepInv
<1> QED BY <1>1, <1>2, <1>3, <1>6, <1>9, TransferInStep, Zenon

LEMMA AgentReportInStep ==
    ASSUME TypeOK, Sync, InStep, AgentProgress \/ AgentSkip PROVE InStep'
<1>1. /\ apc = "sector" /\ asec < ImgSectors /\ d2h' = Append(d2h, Progress(asec + 1))
      /\ UNCHANGED <<host, spoiled>> /\ UNCHANGED <<hpc, hs, sent, h2d>>
      /\ (apc' = "program" /\ asec' = asec) \/ (apc' = "sector" /\ asec' = asec + 1)
  BY Zenon DEF AgentProgress, AgentSkip, host, stream
<1>2. Streaming /\ asec \in Nat /\ Progress(asec + 1) \in ToHost /\ d2h \in Seq(ToHost)
  <2>1. Streaming /\ asec \in Nat /\ asec + 1 \in 1..ImgSectors
    BY <1>1, FlashAssumption DEF Streaming, TypeOK
  <2> QED BY <2>1, PacketTypes, Zenon DEF TypeOK
<1>3. /\ StepInv /\ First \in Nat /\ Reported - hs \in Nat /\ Reported \in Nat /\ hs \in Nat
      /\ Answers(d2h, First, Reported - hs, 0)
  BY <1>2, StreamingInStep, Ahead, FlashAssumption
<1>4. Answers(d2h', First, Reported - hs + 1, 0)
  <2>1. Progress(asec + 1).type = "DATA"
    BY Zenon DEF Progress
  <2> QED BY <1>1, <1>2, <1>3, <2>1, AnswersAppend, Zenon
<1>5. /\ First' = First /\ Final' = 0 /\ Streaming' /\ Reported' = Reported + 1
  BY <1>1, <1>2, Zenon DEF First, Final, Streaming, Reported
<1>6. Reported' - hs' = Reported - hs + 1 /\ Reported' # hs'
  BY <1>1, <1>3, <1>5
<1>7. StepInv'
  BY <1>4, <1>5, <1>6, Zenon DEF StepInv
<1> QED BY <1>1, <1>2, <1>7, StreamingInStep, TransferInStep, Zenon

LEMMA AgentProgramInStep ==
    ASSUME TypeOK, Sync, InStep, AgentProgram \/ AgentFlush, faults' = faults PROVE InStep'
<1>1. faults \in Nat
  BY FlashAssumption DEF TypeOK
<1>2. spoiled' = spoiled
  BY <1>1 DEF AgentProgram, AgentFlush, EraseAndProgram, Fault
<1>3. /\ Streaming /\ UNCHANGED <<host, hpc, hs, sent, h2d, d2h>> /\ Streaming'
  BY Zenon DEF AgentProgram, AgentFlush, Streaming, host
<1>4. Reported' = Reported /\ InBuffer' = InBuffer
  BY Zenon DEF AgentProgram, AgentFlush, Reported, InBuffer
<1>5. First' = First /\ Final' = Final
  BY <1>3, Zenon DEF First, Final
<1>6. StepInv'
  BY <1>3, <1>4, <1>5, StreamingInStep, Zenon DEF StepInv
<1> QED BY <1>2, <1>3, <1>6, StreamingInStep, TransferInStep, Zenon

LEMMA AgentFinishInStep ==
    ASSUME TypeOK, Sync, InStep, AgentFinish PROVE InStep'
<1>1. /\ apc = "sector" /\ asec = ImgSectors /\ d2h' = Append(d2h, Ack("ok")) /\ apc' = "main"
      /\ UNCHANGED <<host, spoiled>> /\ UNCHANGED <<hpc, hs, sent, h2d, asec>>
  BY Zenon DEF AgentFinish, host, stream
<1>2. Streaming /\ d2h \in Seq(ToHost)
  BY <1>1, Zenon DEF Streaming, TypeOK
<1>3. /\ StepInv /\ First \in Nat /\ Reported - hs \in Nat
      /\ Answers(d2h, First, Reported - hs, 0)
  BY <1>2, StreamingInStep, Ahead, Zenon
<1>4. Answers(d2h', First, Reported - hs, 1)
  BY <1>1, <1>2, <1>3, AnswersAppend, PacketTypes, Zenon
<1>5. /\ First' = First /\ Final' = 1 /\ ~Streaming' /\ Reported' = Reported
  BY <1>1, Zenon DEF First, Final, Streaming, Reported
<1>6. StepInv'
  BY <1>1, <1>4, <1>5, Zenon DEF StepInv
<1> QED BY <1>1, <1>2, <1>6, StreamingInStep, TransferInStep, Zenon

(* The agent never gives up on a host that has nothing left to send. *)
LEMMA AgentRecvTimeoutInStep ==
    ASSUME TypeOK, Sync, InStep, AgentRecvTimeout PROVE HostSending
<1> SUFFICES ASSUME ~HostSending PROVE FALSE
  BY Zenon
<1>1. /\ apc = "sector" /\ asec < ImgSectors /\ Dirty(asec) /\ got < SectorPages(asec) /\ h2d = <<>>
  BY Zenon DEF AgentRecvTimeout
<1>2. Streaming /\ got \in Nat /\ sent \in Nat /\ Len(h2d) = 0 /\ Reported = asec /\ InBuffer = got
      /\ ImgSectors \in Nat /\ asec \in Nat
  BY <1>1, EmptyQueue, FlashAssumption DEF Streaming, TypeOK, Reported, InBuffer
<1>3. /\ StepInv /\ First \in Nat /\ Reported - hs \in Nat /\ hs \in Nat /\ Reported \in Nat
      /\ Answers(d2h, First, Reported - hs, 0) /\ hpc \in {"ack", "stream", "prog", "final"}
  BY <1>2, StreamingInStep, Ahead, FlashAssumption
<1>4. CASE hpc = "final"
  <2>1. hs = ImgSectors
    BY <1>4, Zenon DEF Sync, HostInv
  <2> QED BY <1>1, <1>2, <1>3, <2>1
<1>5. CASE hpc # "final"
  <2>1. hpc \in {"ack", "prog"} /\ d2h = <<>> /\ Len(d2h) = 0
    BY <1>3, <1>5, EmptyQueue, Zenon DEF HostSending
  <2>2. hpc = "prog" /\ Reported = hs
    BY <1>3, <2>1 DEF Answers, First
  <2>3. InBuffer + Len(h2d) = sent
    BY <1>2, <1>3, <2>2, Zenon DEF StepInv
  <2>4. sent = SectorPages(asec)
    BY <1>1, <1>2, <2>2, Zenon DEF Sync, HostInv
  <2> QED BY <1>1, <1>2, <2>3, <2>4, SectorPagesFacts
<1> QED BY <1>4, <1>5, Zenon

LEMMA AgentStartInStep ==
    ASSUME TypeOK, Sync, InStep, AgentStart PROVE InStep'
<1>1. /\ h2d # <<>> /\ h2d' = Tail(h2d) /\ Head(h2d).type = "STREAM"
      /\ d2h' = Append(d2h, Ack("ok")) /\ apc' = "sector" /\ asec' = 0 /\ got' = 0
      /\ UNCHANGED <<hpc, hs, sent, spoiled>>
  BY Zenon DEF AgentStart, Receive, host
<1>2. /\ hpc = "ack" /\ Len(h2d) = 1 /\ d2h = <<>> /\ hs = 0 /\ sent = 0
  BY <1>1, EmptyQueue, Zenon DEF Sync, WireInv, HostInv
<1>3. h2d' = <<>> /\ Len(h2d') = 0
  <2>1. h2d \in Seq(ToDevice)
    BY Zenon DEF TypeOK
  <2> QED BY <1>1, <1>2, <2>1
<1>4. Len(d2h') = 1 /\ d2h'[1] = Ack("ok")
  BY <1>1, <1>2
<1>5. First' = 1 /\ Final' = 0 /\ Streaming' /\ Reported' = 0 /\ InBuffer' = 0
  BY <1>1, <1>2, Zenon DEF First, Final, Streaming, Reported, InBuffer
<1>6. StepInv'
  BY <1>1, <1>2, <1>3, <1>4, <1>5 DEF StepInv, Answers
<1>7. \A i \in 1..Len(h2d') : h2d'[i].type # "bad"
  BY <1>3
<1> QED BY <1>1, <1>2, <1>3, <1>6, <1>7, Zenon DEF InStep

LEMMA AgentCrcInStep ==
    ASSUME TypeOK, Sync, InStep, AgentCrc, hpc # "done" PROVE InStep'
<1>1. /\ h2d # <<>> /\ h2d' = Tail(h2d) /\ Head(h2d).type = "CRC" /\ apc = "main" /\ apc' = apc
      /\ d2h' = Append(d2h, CrcReply(View(flash))) /\ UNCHANGED <<hpc, spoiled>>
  BY Zenon DEF AgentCrc, Receive, host
<1>2. hpc = "crc"
  BY <1>1, EmptyQueue, Zenon DEF Sync, WireInv
<1>3. Len(h2d) = 1 /\ Len(d2h) = 0 /\ d2h = <<>>
  <2>1. Len(h2d) + Len(d2h) = 1 /\ Len(h2d) # 0
    BY <1>1, <1>2, EmptyQueue, Zenon DEF InStep
  <2>2. Len(h2d) \in Nat /\ Len(d2h) \in Nat
    BY EmptyQueue, Zenon
  <2>3. \A m, n \in Nat : m + n = 1 /\ m # 0 => m = 1 /\ n = 0
    BY SMT
  <2>4. Len(h2d) = 1 /\ Len(d2h) = 0
    BY <2>1, <2>2, <2>3, Zenon
  <2> QED BY <2>4, EmptyQueue, Zenon
<1>4. Len(h2d') = 0
  <2>1. h2d \in Seq(ToDevice)
    BY Zenon DEF TypeOK
  <2> QED BY <1>1, <1>3, <2>1
<1>5. Len(d2h') = 1 /\ d2h'[1].type = "CRC32"
  BY <1>1, <1>3 DEF CrcReply
<1>6. /\ \A i \in 1..Len(h2d') : h2d'[i].type # "bad"
      /\ \A i \in 1..Len(d2h') : d2h'[i].type = "CRC32"
  BY <1>4, <1>5
<1> QED BY <1>1, <1>2, <1>4, <1>5, <1>6 DEF InStep

(* No page reaches the main loop: the host waits for the progress first. *)
LEMMA NoStrayPage ==
    ASSUME TypeOK, Sync, InStep PROVE ~AgentUnknown
<1> SUFFICES ASSUME AgentUnknown PROVE FALSE
  BY Zenon
<1>1. h2d # <<>> /\ Head(h2d).type = "DATA" /\ apc = "main"
  BY Zenon DEF AgentUnknown, Receive
<1>2. /\ hpc \in {"stream", "prog"} /\ \A j \in 1..Len(d2h) : d2h[j].type # "DATA"
  BY <1>1, EmptyQueue, Zenon DEF Sync, WireInv
<1>3. StepInv /\ ~Streaming /\ asec = ImgSectors
  BY <1>1, <1>2, Zenon DEF InStep, StepInv, Streaming
<1>4. /\ Reported = ImgSectors /\ hs < ImgSectors /\ ImgSectors \in Nat /\ hs \in Nat
      /\ First = 0 /\ Final = 1
  <2>1. Reported = ImgSectors
    BY <1>1, <1>3, Zenon DEF Reported
  <2>2. hs < ImgSectors
    BY <1>2, Zenon DEF Sync, HostInv
  <2>3. ImgSectors \in Nat /\ hs \in 0..ImgSectors
    BY FlashAssumption, Zenon DEF TypeOK
  <2>4. First = 0 /\ Final = 1
    BY <1>2, <1>3, Zenon DEF First, Final
  <2> QED BY <2>1, <2>2, <2>3, <2>4, SMTT(30)
<1>5. d2h[1].type = "DATA" /\ 1 \in 1..Len(d2h)
  BY <1>3, <1>4, EmptyQueue DEF StepInv, Answers
<1> QED BY <1>2, <1>5, Zenon

LEMMA CleanAgent ==
    ASSUME TypeOK, Sync, InStep, AgentNext, faults = 0, faults' = 0, chip # 0, hpc # "done"
    PROVE  InStep'
<1>1. ~Fault
  BY DEF Fault
<1>2. CASE AgentReject
  BY <1>2, Zenon DEF AgentReject
<1>3. CASE AgentReboot
  BY <1>3, EmptyQueue, Zenon DEF AgentReboot, Receive, Sync, WireInv
<1>4. CASE AgentIdle
  BY <1>4, EmptyQueue, Zenon DEF AgentIdle, Receive, InStep
<1>5. CASE AgentRecvTimeout
  BY <1>1, <1>5, AgentRecvTimeoutInStep, Zenon DEF AgentRecvTimeout
<1>6. CASE AgentEraseFails
  BY <1>1, <1>6, Zenon DEF AgentEraseFails
<1> QED BY <1>2, <1>3, <1>4, <1>5, <1>6, AgentStartInStep, AgentCrcInStep, NoStrayPage,
           AgentRecvInStep, AgentReportInStep, AgentProgramInStep, AgentFinishInStep, Zenon
           DEF AgentNext

LEMMA CleanHost ==
    ASSUME TypeOK, Sync, InStep, HostNext, faults = 0, faults' = 0, hpc' # "done"
    PROVE  InStep'
<1>1. ~HostTimeout
  <2>1. ~Fault
    BY DEF Fault
  <2> QED BY <2>1, HostTimeoutInStep, Zenon DEF HostTimeout
<1> QED BY <1>1, SendStreamInStep, RecvFirstAckInStep, SendInStep, RecvProgressInStep,
           RecvFinalInStep, RecvCrcInStep, Zenon DEF HostNext

LEMMA CleanInit == Init => CleanInv
<1> SUFFICES ASSUME Init PROVE InStep
  BY Zenon DEF CleanInv
<1>1. hpc = "start" /\ spoiled = {} /\ h2d = <<>>
  BY Zenon DEF Init
<1>2. \A i \in 1..Len(h2d) : h2d[i].type # "bad"
  BY <1>1
<1> QED BY <1>1, <1>2, Zenon DEF InStep

LEMMA CleanStep == Inv /\ CleanInv /\ [Next]_vars => CleanInv'
<1> SUFFICES ASSUME Inv, CleanInv, Next, Clean' PROVE InStep'
  <2>1. ASSUME UNCHANGED vars PROVE CleanInv' <=> CleanInv
    <3>1. /\ First' = First /\ Final' = Final /\ Reported' = Reported /\ InBuffer' = InBuffer
          /\ (Streaming' <=> Streaming)
      BY <2>1, Zenon DEF vars, First, Final, Reported, InBuffer, Streaming
    <3>2. StepInv' <=> StepInv
      BY <2>1, <3>1, Zenon DEF vars, StepInv
    <3>3. InStep' <=> InStep
      BY <2>1, <3>2, Zenon DEF vars, InStep
    <3> QED BY <2>1, <3>3, Zenon DEF vars, CleanInv, Clean
  <2> QED BY <2>1, Zenon DEF CleanInv
<1>1. CASE Rerun
  <2>1. hpc' = "start" /\ spoiled' = {} /\ h2d' = <<>>
    BY <1>1, Zenon DEF Rerun
  <2>2. \A i \in 1..Len(h2d') : h2d'[i].type # "bad"
    BY <2>1
  <2> QED BY <2>1, <2>2, Zenon DEF InStep
<1>2. CASE ~Rerun
  <2>1. faults \in Nat /\ (faults' = faults \/ faults' = faults + 1) /\ chip' = chip
    <3>1. faults \in Nat
      BY FlashAssumption DEF Inv, TypeOK
    <3>2. (faults' = faults \/ Fault) /\ chip' = chip
      BY <1>2, Zenon DEF Next, HostNext, AgentNext, LinkNext, SendStream, RecvFirstAck, SendPage,
           SectorSent, RecvProgress, RecvFinal, RecvCrc, HostTimeout, AgentStart, AgentReject,
           AgentCrc, AgentReboot, AgentUnknown, AgentIdle, Receive, AgentRecv, AgentRecvTimeout,
           AgentProgress, AgentProgram, AgentFlush, EraseAndProgram, AgentSkip, AgentFinish,
           AgentEraseFails, CorruptToDevice, LoseToDevice, LoseToHost, Quiet, vars
    <3> QED BY <3>1, <3>2, Zenon DEF Fault
  <2>2. faults = 0 /\ faults' = 0 /\ chip # 0 /\ hpc' # "done"
    BY <2>1 DEF Clean
  <2>3. hpc # "done"
    BY <1>2, <2>2, Zenon DEF Next, HostNext, AgentNext, LinkNext, SendStream, RecvFirstAck, SendPage,
           SectorSent, RecvProgress, RecvFinal, RecvCrc, HostTimeout, AgentStart, AgentReject,
           AgentCrc, AgentReboot, AgentUnknown, AgentIdle, Receive, AgentRecv, AgentRecvTimeout,
           AgentProgress, AgentProgram, AgentFlush, AgentSkip, AgentFinish, host,
           AgentEraseFails, CorruptToDevice, LoseToDevice, LoseToHost, Quiet, vars
  <2>4. InStep /\ TypeOK /\ Sync
    BY <2>2, <2>3, Zenon DEF CleanInv, Clean, InStep, Inv
  <2>5. ~LinkNext
    <3>1. ~Fault
      BY <2>2 DEF Fault
    <3> QED BY <3>1, Zenon DEF LinkNext, CorruptToDevice, LoseToDevice, LoseToHost
  <2>6. CASE Quiet
    BY <2>3, <2>4, <2>6, Zenon DEF Quiet, InStep
  <2> QED BY <1>2, <2>2, <2>3, <2>4, <2>5, <2>6, CleanAgent, CleanHost, Zenon DEF Next
<1> QED BY <1>1, <1>2, Zenon

(* A run of `defib agent flash` fails only for a cause: a fault of the      *)
(* link, of the flash or of timing, or a chip the agent did not find.       *)
(* Without one, each wait of write_flash and of handle_flash_stream is      *)
(* answered, whatever the order in which host and agent take their steps.   *)
THEOREM FailureHasCause == Spec => []FailsOnlyWithCause
<1>1. Inv /\ CleanInv => FailsOnlyWithCause
  <2> SUFFICES ASSUME Inv, CleanInv, hpc = "fail" PROVE faults > 0 \/ chip = 0
    BY Zenon DEF FailsOnlyWithCause
  <2>1. ~InStep /\ hpc # "done"
    BY Zenon DEF InStep
  <2>2. ~(faults = 0 /\ chip # 0)
    BY <2>1, Zenon DEF CleanInv, Clean
  <2>3. faults \in Nat
    BY FlashAssumption DEF Inv, TypeOK
  <2> QED BY <2>2, <2>3
<1> QED BY <1>1, CleanInit, CleanStep, Invariance, PTL DEF Spec
=============================================================================
