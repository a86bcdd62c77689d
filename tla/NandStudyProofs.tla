-------------------------- MODULE NandStudyProofs --------------------------
(***************************************************************************)
(* Proofs about NandStudy: what the sidecar of a dump says of its file,    *)
(* what a command that ends well has done, and the on-die ECC a dump       *)
(* leaves behind, for every command, chip, buffer size, number of tries    *)
(* and number of losses and delays.                                        *)
(*                                                                         *)
(* All of it rests on the queues.  Outside resync, there is at most one    *)
(* exchange on the line and it is the current one, so an answer that names *)
(* the operation is the answer to the request.  resync brings that back:   *)
(* its INFO is the last request out, and READY is said by an agent with    *)
(* none left.                                                              *)
(***************************************************************************)
EXTENDS NandStudy, TLAPS

\* The phases of each command.
Before == {"info", "protect", "config", "status"}
Resync == {"drain", "sync", "ready"}
Loop == {"pages", "stat", "data"} \cup Resync
Phases(c) ==
    CASE c = "dump" -> Before \cup Loop \cup {"eccoff", "eccon", "sidecar", "done", "failed"}
      [] c = "scan" -> {"info", "pages", "stat", "done", "failed"}
      [] c = "program" -> {"info", "stage", "program", "done", "failed"}
      [] c = "erase" -> {"info", "erase", "done", "failed"}
      [] OTHER -> {"flash", "crc", "done", "failed"}

\* The phases in which the only exchange on the line is the phase's own.
Synced == Before \cup {"eccoff", "pages", "stat", "data", "program", "erase", "flash", "crc"}

\* How the dump's pages are read: as the sidecar says.
Raw == b0 /\ ~toggled

\* A sequence, whatever it is of.
ASeq(s) == \E S : s \in Seq(S)

NandTypeOK ==
    /\ nreq \in NandRequests /\ npc \in Phases(nreq.cmd)
    /\ sent \in BOOLEAN /\ b0 \in BOOLEAN /\ ecc \in BOOLEAN /\ page \in Nat
    /\ ASeq(toAgent) /\ ASeq(toHost) /\ ASeq(rcv)
    /\ ASeq(recs) /\ ASeq(records) /\ ASeq(saved)
    /\ DOMAIN mem = 0..Pages - 1
    /\ ASeq(dma) /\ ASeq(stat) /\ Len(dma) = Batch /\ Len(stat) = Batch

\* The agent's buffers hold the records of n pages from the current one, of
\* which only the last may have failed, and in a dump the pages.
Loaded(n) ==
    /\ n \in 1..BatchSize
    /\ \A i \in 1..n - 1 : page + i - 1 \notin nreq.bad
    /\ \A i \in 1..n : stat[i] = (page + i - 1 \in nreq.bad)
    /\ nreq.cmd = "dump" =>
         \A i \in 1..n : page + i - 1 \notin nreq.bad => dma[i] = Reads(page + i - 1, Raw)

\* What the answer v to a call says of the chip and the buffers.
Says(v) ==
    /\ npc = "config" => v = nreq.ecc
    /\ npc = "eccoff" => v = ecc
    /\ npc = "pages" => Loaded(v)
    /\ npc = "program" => (v = 0 => mem[nreq.start] = "new")
    /\ npc = "erase" => (v = 0 => mem[nreq.start] = "erased")

\* The k-th value of the stream read_memory is receiving.
Sent(k) == CASE npc = "stat" -> stat[k] [] npc = "data" -> dma[k] [] OTHER -> FlashContent[k]

\* What is left of a stream, each packet at its place in it, and what has
\* been received.
StreamPart ==
    /\ \A i \in 1..Len(toHost) :
         \/ toHost[i] = Ack /\ i = Len(toHost)
         \/ i < Len(toHost) /\ \E k \in 1..Expected : toHost[i] = DataPacket(k - 1, Sent(k))
    /\ Len(rcv) <= Expected /\ \A i \in 1..Len(rcv) : rcv[i] = Sent(i)

Answer ==
    /\ npc \in Streams => StreamPart
    /\ npc = "crc" => toHost \in {<<>>, <<[Reply("CRC32", FlashContent) EXCEPT !.kind = "crc"]>>}
    /\ npc \in Calls => toHost = <<>> \/ (toHost = <<Reply(NandOp[npc], val)>> /\ Says(val))

\* Is this an answer to op?
IsReply(p, o) == p.kind = "nand" /\ p.op = o

PageOps == {"READ_PAGES", "READ_STAT", "READ_DMA"}

\* A request as the host makes them.
Good(r) == r.value \in BOOLEAN /\ (r.op \in {"READ_STAT", "READ_DMA"} => r.count \in 0..Batch)

\* What is on the line: outside resync only the current exchange; in resync
\* what is left of abandoned batches, and after them the INFO, once.
QueueInv ==
    /\ sent => npc \in DOMAIN NandOp
    /\ \A i \in 1..Len(toAgent) : Good(toAgent[i])
    /\ npc \in Synced \cup {"stage"} /\ ~sent => toAgent = <<>> /\ toHost = <<>>
    /\ npc \in Synced /\ sent =>
         \/ toAgent = <<Request>> /\ toHost = <<>> /\ rcv = <<>>
         \/ toAgent = <<>> /\ Answer
    /\ npc \in Resync =>
         /\ \A i \in 1..Len(toAgent) : toAgent[i].op \in PageOps \cup {"INFO"}
         /\ \A i \in 1..Len(toHost) : ~IsReply(toHost[i], "FEATURE_SET")
    /\ npc = "drain" \/ (npc = "sync" /\ ~sent) =>
         /\ \A i \in 1..Len(toAgent) : toAgent[i].op # "INFO"
         /\ \A i \in 1..Len(toHost) : ~IsReply(toHost[i], "INFO")
    /\ npc = "sync" /\ sent =>
         /\ \A i \in 1..Len(toAgent) : toAgent[i].op = "INFO" => i = Len(toAgent)
         /\ \A i \in 1..Len(toHost) :
              IsReply(toHost[i], "INFO") => i = Len(toHost) /\ toAgent = <<>>
    /\ nreq.cmd = "dump" =>
         \A i \in 1..Len(toAgent) : toAgent[i].op \notin {"PROGRAM_PAGE", "ERASE_BLOCK"}
    /\ npc = "done" /\ nreq.cmd # "dump" => toAgent = <<>>

\* What the command has so far, and how the chip reads.
FileInv ==
    /\ page <= nreq.start + nreq.count
    /\ npc \in Loop => page < nreq.start + nreq.count
    /\ npc \in Before \cup {"eccoff"} => page = nreq.start
    /\ npc \in Before => ecc = nreq.ecc
    /\ npc = "eccoff" => toggled
    /\ nreq.cmd = "dump" =>
         /\ page = nreq.start + Len(saved) /\ Len(records) = Len(saved)
         /\ \A i \in 1..Len(saved) : saved[i] = Reads(nreq.start + i - 1, Raw)
         /\ npc \in {"status", "eccoff"} => b0 = nreq.ecc
         /\ npc \in Loop => ecc = Raw
    /\ nreq.cmd = "scan" =>
         /\ page = nreq.start + Len(records)
         /\ \A i \in 1..Len(records) : records[i] = (nreq.start + i - 1 \in nreq.bad)
    /\ npc \in {"stat", "data"} => Loaded(Len(recs))
    /\ npc = "data" => \A i \in 1..Len(recs) : recs[i] = (page + i - 1 \in nreq.bad)
    /\ npc = "program" => dma[1][2] = "new"
    /\ sidecar.there =>
         /\ nreq.cmd = "dump" /\ NandEnded
         /\ sidecar.ondie = Raw /\ sidecar.pages = Len(records)
         /\ sidecar.complete => page = nreq.start + nreq.count

\* The on-die ECC and the requests that may still change it.
Restoring ==
    \A i \in 1..Len(toAgent) : toAgent[i].op = "FEATURE_SET" => nreq.ecc /\ toAgent[i].value
NoSwitch == \A i \in 1..Len(toAgent) : toAgent[i].op # "FEATURE_SET"
NoReply == \A i \in 1..Len(toHost) : ~IsReply(toHost[i], "FEATURE_SET")

EccInv ==
    /\ ~toggled => ecc = nreq.ecc /\ NoSwitch
    /\ b0 => nreq.ecc
    /\ nreq.sticky => ecc = nreq.ecc
    /\ npc = "eccon" => toggled
    /\ ~late /\ npc = "eccon" =>
         /\ Restoring
         /\ ecc = nreq.ecc \/ NoReply
         /\ ~sent => NoSwitch /\ NoReply
    /\ ~late /\ npc \in {"sidecar", "done", "failed"} /\ ~warned => ecc = nreq.ecc /\ Restoring


(***************************************************************************)
(* Sequences.                                                              *)
(***************************************************************************)
\* t is an end of s, element by element.
Part(t, s) ==
    \A i \in 1..Len(t) : \E j \in 1..Len(s) : t[i] = s[j] /\ (j = Len(s) <=> i = Len(t))

\* t is s with x after it, element by element.
Grown(t, s, x) ==
    \A i \in 1..Len(t) :
        \/ i \in 1..Len(s) /\ i # Len(t) /\ t[i] = s[i]
        \/ i = Len(t) /\ t[i] = x

\* u is s and then t, element by element.
Joined(u, s, t) ==
    /\ Len(u) = Len(s) + Len(t)
    /\ \A i \in 1..Len(s) : u[i] = s[i]
    /\ \A i \in 1..Len(t) : u[Len(s) + i] = t[i]

LEMMA EmptySeq == ASeq(<<>>) /\ Len(<<>>) = 0 /\ 1..0 = {}
<1>1. <<>> \in Seq({}) /\ Len(<<>>) = 0 /\ 1..0 = {}
  BY SMT
<1> QED
  BY <1>1, Zenon DEF ASeq

LEMMA SingleSeq ==
    ASSUME NEW x
    PROVE  /\ ASeq(<<x>>) /\ Len(<<x>>) = 1 /\ <<x>>[1] = x /\ <<x>> # <<>>
           /\ Head(<<x>>) = x /\ Tail(<<x>>) = <<>>
<1>1. <<x>> \in Seq({x}) /\ Len(<<x>>) = 1 /\ <<x>>[1] = x /\ <<x>> # <<>> /\ Head(<<x>>) = x
      /\ Tail(<<x>>) = <<>>
  BY SMT
<1> QED
  BY <1>1, Zenon DEF ASeq

LEMMA LenNat ==
    ASSUME NEW s, ASeq(s)
    PROVE  Len(s) \in Nat /\ (s = <<>> <=> Len(s) = 0)
<1>1. PICK S : s \in Seq(S)
  BY Zenon DEF ASeq
<1> QED
  BY <1>1, SMT

LEMMA AppendSeq ==
    ASSUME NEW s, NEW x, ASeq(s)
    PROVE  /\ ASeq(Append(s, x)) /\ Len(Append(s, x)) = Len(s) + 1 /\ Grown(Append(s, x), s, x)
           /\ Append(s, x) # <<>>
<1>1. PICK S : s \in Seq(S)
  BY Zenon DEF ASeq
<1>2. s \in Seq(S \cup {x})
  BY <1>1, SMT
<1>3. Append(s, x) \in Seq(S \cup {x}) /\ Len(Append(s, x)) = Len(s) + 1 /\ Append(s, x) # <<>>
  BY <1>2, SMT
<1>4. Grown(Append(s, x), s, x)
  BY <1>1, SMT DEF Grown
<1> QED
  BY <1>3, <1>4, Zenon DEF ASeq

LEMMA TailSeq ==
    ASSUME NEW s, ASeq(s), s # <<>>
    PROVE  /\ ASeq(Tail(s)) /\ Len(Tail(s)) = Len(s) - 1 /\ Part(Tail(s), s)
           /\ Head(s) = s[1] /\ 1 \in 1..Len(s) /\ (Len(s) = 1 => Tail(s) = <<>>)
<1>1. PICK S : s \in Seq(S)
  BY Zenon DEF ASeq
<1>2. Tail(s) \in Seq(S) /\ Len(Tail(s)) = Len(s) - 1 /\ Head(s) = s[1] /\ Len(s) \in Nat /\ Len(s) > 0
  BY <1>1, SMT
<1>3. \A i \in 1..Len(Tail(s)) :
        i + 1 \in 1..Len(s) /\ Tail(s)[i] = s[i + 1] /\ (i + 1 = Len(s) <=> i = Len(Tail(s)))
  BY <1>1, <1>2, SMT
<1>4. 1 \in 1..Len(s) /\ (Len(s) = 1 => Tail(s) = <<>>)
  BY <1>1, <1>2, SMT
<1> QED
  BY <1>2, <1>3, <1>4, Zenon DEF ASeq, Part

LEMMA SuffixSeq ==
    ASSUME NEW s, ASeq(s), NEW n \in 1..Len(s) + 1
    PROVE  ASeq(SubSeq(s, n, Len(s))) /\ Part(SubSeq(s, n, Len(s)), s)
<1>1. PICK S : s \in Seq(S)
  BY Zenon DEF ASeq
<1> DEFINE t == SubSeq(s, n, Len(s))
<1>2. t \in Seq(S) /\ Len(t) = Len(s) - n + 1
  BY <1>1, SMT
<1>3. \A i \in 1..Len(t) :
        n + i - 1 \in 1..Len(s) /\ t[i] = s[n + i - 1] /\ (n + i - 1 = Len(s) <=> i = Len(t))
  BY <1>1, <1>2, SMT
<1> HIDE DEF t
<1>4. ASeq(t) /\ Part(t, s)
  BY <1>2, <1>3, Zenon DEF ASeq, Part
<1> QED
  BY <1>4, Zenon DEF t

LEMMA PrefixSeq ==
    ASSUME NEW s, ASeq(s), NEW n \in 0..Len(s)
    PROVE  /\ ASeq(SubSeq(s, 1, n)) /\ Len(SubSeq(s, 1, n)) = n
           /\ \A i \in 1..n : SubSeq(s, 1, n)[i] = s[i]
<1>1. PICK S : s \in Seq(S)
  BY Zenon DEF ASeq
<1>2. SubSeq(s, 1, n) \in Seq(S) /\ Len(SubSeq(s, 1, n)) = n
  BY <1>1, SMT
<1>3. \A i \in 1..n : SubSeq(s, 1, n)[i] = s[i]
  BY <1>1, SMT
<1> QED
  BY <1>2, <1>3, Zenon DEF ASeq

LEMMA FunctionSeq ==
    ASSUME NEW f, NEW n \in Nat, f = [i \in 1..n |-> f[i]]
    PROVE  ASeq(f) /\ Len(f) = n
<1>1. PICK S : S = {f[i] : i \in 1..n}
  BY Zenon
<1>2. \A i \in 1..n : f[i] \in S
  BY <1>1, Zenon
<1>3. f \in [1..n -> S]
  BY <1>2, Zenon
<1>4. f \in Seq(S) /\ Len(f) = n
  BY <1>3, SMT
<1> QED
  BY <1>4, Zenon DEF ASeq

LEMMA ConcatSeq ==
    ASSUME NEW s, NEW t, ASeq(s), ASeq(t)
    PROVE  ASeq(s \o t) /\ Joined(s \o t, s, t)
<1>1. PICK S : s \in Seq(S)
  BY Zenon DEF ASeq
<1>2. PICK T : t \in Seq(T)
  BY Zenon DEF ASeq
<1>3. s \in Seq(S \cup T) /\ t \in Seq(S \cup T)
  BY <1>1, <1>2, SMT
<1>4. s \o t \in Seq(S \cup T) /\ Len(s \o t) = Len(s) + Len(t) /\ Len(s) \in Nat /\ Len(t) \in Nat
  BY <1>3, SMT
<1>5. \A i \in 1..Len(s) : (s \o t)[i] = s[i]
  BY <1>3, <1>4, SMT
<1>6. \A i \in 1..Len(t) : (s \o t)[Len(s) + i] = t[i]
  BY <1>3, <1>4, SMT
<1> QED
  BY <1>4, <1>5, <1>6, Zenon DEF ASeq, Joined

\* The packets of a stream: each value at its place, then the ACK.
LEMMA StreamSeq ==
    ASSUME NEW s, ASeq(s)
    PROVE  /\ ASeq(Stream(s)) /\ Stream(s) # <<>>
           /\ \A i \in 1..Len(Stream(s)) :
                \/ Stream(s)[i] = Ack /\ i = Len(Stream(s))
                \/ i < Len(Stream(s)) /\ i \in 1..Len(s) /\ Stream(s)[i] = DataPacket(i - 1, s[i])
<1> DEFINE f == [i \in 1..Len(s) |-> DataPacket(i - 1, s[i])]
<1>1. Len(s) \in Nat
  BY LenNat, Zenon
<1>2. \A i \in 1..Len(s) : f[i] = DataPacket(i - 1, s[i])
  BY Zenon
<1>3. f = [i \in 1..Len(s) |-> f[i]]
  BY Zenon
<1> DEFINE a == <<Ack>>
<1>4. Stream(s) = f \o a
  BY Zenon DEF Stream
<1>5. ASeq(f) /\ Len(f) = Len(s)
  <2> HIDE DEF f
  <2> QED
    BY <1>1, <1>3, FunctionSeq, Zenon
<1>6. ASeq(a) /\ Len(a) = 1 /\ a[1] = Ack
  BY SingleSeq, Zenon
<1> HIDE DEF f, a
<1> DEFINE g == f \o a
<1>7. /\ ASeq(g) /\ Len(g) = Len(s) + 1
      /\ \A i \in 1..Len(s) : g[i] = f[i]
      /\ \A i \in 1..1 : g[Len(s) + i] = a[i]
  <2>1. ASeq(f) /\ ASeq(a)
    BY <1>5, <1>6, Zenon
  <2>2. ASeq(g) /\ Joined(g, f, a)
    BY <2>1, ConcatSeq, Zenon
  <2> HIDE DEF g
  <2> QED
    BY <1>5, <1>6, <2>2, Zenon DEF Joined
<1> HIDE DEF g
<1>8. g[Len(s) + 1] = Ack
  <2>1. 1 \in 1..1
    BY SMT
  <2> QED
    BY <1>6, <1>7, <2>1, Zenon
<1>9. \A i \in 1..Len(g) : (i = Len(s) + 1 /\ i = Len(g)) \/ (i < Len(g) /\ i \in 1..Len(s))
  BY <1>1, <1>7, SMT
<1>10. \A i \in 1..Len(g) : \/ g[i] = Ack /\ i = Len(g)
                            \/ i < Len(g) /\ i \in 1..Len(s) /\ g[i] = DataPacket(i - 1, s[i])
  BY <1>2, <1>7, <1>8, <1>9, Zenon
<1>11. g # <<>>
  <2>1. Len(g) # 0
    BY <1>1, <1>7, SMT
  <2> QED
    BY <1>7, <2>1, LenNat, Zenon
<1> QED
  BY <1>4, <1>7, <1>10, <1>11, Zenon DEF g

(***************************************************************************)
(* The phases.                                                             *)
(***************************************************************************)
LEMMA OpTable ==
    /\ NandOp["info"] = "INFO" /\ NandOp["protect"] = "FEATURE_GET"
    /\ NandOp["config"] = "FEATURE_GET" /\ NandOp["status"] = "FEATURE_GET"
    /\ NandOp["eccoff"] = "FEATURE_SET" /\ NandOp["eccon"] = "FEATURE_SET"
    /\ NandOp["pages"] = "READ_PAGES" /\ NandOp["sync"] = "INFO"
    /\ NandOp["program"] = "PROGRAM_PAGE" /\ NandOp["erase"] = "ERASE_BLOCK"
    /\ NandOp["stat"] = "READ_STAT" /\ NandOp["data"] = "READ_DMA"
    /\ NandOp["flash"] = "READ_FLASH" /\ NandOp["crc"] = "CRC32"
    /\ DOMAIN NandOp = Synced \cup {"eccon", "sync"}
    /\ Calls = Before \cup {"eccoff", "eccon", "pages", "sync", "program", "erase"}
  BY DEF NandOp, Synced, Before, Calls, Streams

\* Which phases read the agent's buffers, or flash.
LEMMA ReadOps ==
    /\ \A p \in Streams : NandOp[p] \in {"READ_STAT", "READ_DMA", "READ_FLASH"}
    /\ \A p \in DOMAIN NandOp : NandOp[p] \in {"READ_STAT", "READ_DMA"} => p \in {"stat", "data"}
  BY DEF NandOp, Streams

\* What a request asks for.
LEMMA RequestIs ==
    /\ Request.op = NandOp[npc]
    /\ Request.start = (IF npc = "pages" THEN page ELSE nreq.start)
    /\ npc = "pages" => Request.count = BatchSize
    /\ npc \in {"stat", "data"} => Request.count = Len(recs)
    /\ Request.store = (nreq.cmd = "dump")
    /\ Request.value = (npc \in {"config", "eccon"}) /\ Request.value \in BOOLEAN
  BY DEF Request

\* A set of numbers has a least one.
(***************************************************************************)
(* What a step leaves alone.                                               *)
(***************************************************************************)
\* The state FileInv and NandSuccess are about.
work == <<npc, nreq, page, recs, records, b0, saved, sidecar, agent>>

LEMMA FileSame ==
    ASSUME FileInv, NandSuccess, UNCHANGED work
    PROVE  FileInv' /\ NandSuccess'
<1> USE DEF work, agent
<1>1. FileInv'
  BY SMT DEF FileInv, Loaded, Raw, toggled, Reads, BatchSize, Least, NandEnded
<1>2. NandSuccess'
  BY DEF NandSuccess, FlashContent
<1> QED
  BY <1>1, <1>2, Zenon

LEMMA QuietQueue ==
    ASSUME ~sent', toAgent' = <<>>, toHost' = <<>>
    PROVE  QueueInv'
<1>1. 1..Len(toAgent') = {} /\ 1..Len(toHost') = {}
  BY EmptySeq, Zenon
<1> QED
  BY <1>1, Zenon DEF QueueInv

LEMMA SyncedQueue ==
    ASSUME npc' \in Synced, sent', toAgent' = <<>>, Answer'
    PROVE  QueueInv'
<1>1. 1..Len(toAgent') = {}
  BY EmptySeq, Zenon
<1>2. npc' \notin Resync \cup {"drain", "sync", "done"} /\ npc' \in DOMAIN NandOp
  BY OpTable, SMT DEF Synced, Before, Resync
<1> QED
  BY <1>1, <1>2, Zenon DEF QueueInv

LEMMA TypeSame ==
    ASSUME NandTypeOK, ASeq(toAgent'), ASeq(toHost'), ASeq(rcv'), sent' \in BOOLEAN,
           UNCHANGED work
    PROVE  NandTypeOK'
  BY Zenon DEF NandTypeOK, work, agent

(***************************************************************************)
(* The agent answers the phase's own request.                              *)
(***************************************************************************)
LEMMA AppendEmpty == \A x : Append(<<>>, x) = <<x>>
  BY SMT

LEMMA ConcatEmpty == ASSUME NEW s, ASeq(s) PROVE <<>> \o s = s
<1>1. PICK S : s \in Seq(S)
  BY Zenon DEF ASeq
<1> QED
  BY <1>1, SMT

LEMMA AgentAlone ==
    ASSUME NandTypeOK, QueueInv, AgentStep, npc \in Synced
    PROVE  /\ sent /\ toHost = <<>> /\ rcv = <<>> /\ toAgent' = <<>> /\ sent'
           /\ npc' = npc /\ rcv' = rcv /\ UNCHANGED command
           /\ handle_nand(Request) \/ handle_read(Request)
<1>1. toAgent # <<>> /\ toAgent' = Tail(toAgent)
      /\ npc' = npc /\ sent' = sent /\ rcv' = rcv /\ UNCHANGED command
      /\ (handle_nand(Head(toAgent)) \/ handle_read(Head(toAgent)))
  BY Zenon DEF AgentStep
<1>2. sent /\ toAgent = <<Request>> /\ toHost = <<>> /\ rcv = <<>>
  BY <1>1, Zenon DEF QueueInv, NandTypeOK
<1>3. Head(toAgent) = Request /\ Tail(toAgent) = <<>>
  BY <1>2, SingleSeq, Zenon
<1> QED
  BY <1>1, <1>2, <1>3, Zenon

\* One answer, and what it says.
LEMMA OneReply ==
    ASSUME NandTypeOK, QueueInv, AgentStep, npc \in Synced, npc \in Calls, NEW v,
           toHost' = <<Reply(NandOp[npc], v)>>, Says(v)'
    PROVE  Answer' /\ QueueInv' /\ ASeq(toHost')
<1>1. npc' = npc /\ toAgent' = <<>> /\ sent'
  BY AgentAlone, Zenon
<1>2. val' = v
  <2>1. Head(toHost') = Reply(NandOp[npc], v)
    BY SingleSeq, Zenon
  <2>2. Reply(NandOp[npc], v).val = v
    BY Zenon DEF Reply
  <2> QED
    BY <2>1, <2>2, Zenon DEF val, Next1
<1>3. Says(val)'
  BY <1>2, Zenon DEF Says, Loaded
<1>4. npc \notin Streams /\ npc # "crc"
  BY SMT DEF Calls, Streams
<1>5. Answer'
  BY <1>1, <1>2, <1>3, <1>4, Zenon DEF Answer
<1> QED
  BY <1>1, <1>5, SyncedQueue, SingleSeq, Zenon

\* Which handler a request gets.
LEMMA Handled ==
    ASSUME NEW r, handle_nand(r) \/ handle_read(r)
    PROVE  /\ r.op = "INFO" => toHost' = Append(toHost, Reply("INFO", Pages)) /\ UNCHANGED agent
           /\ r.op = "FEATURE_GET" =>
                toHost' = Append(toHost, Reply(r.op, r.value /\ ecc)) /\ UNCHANGED agent
           /\ r.op = "FEATURE_SET" => SetFeature(r)
           /\ r.op = "READ_PAGES" => ReadPages(r)
           /\ r.op = "PROGRAM_PAGE" => Change(r, dma[1][2])
           /\ r.op = "ERASE_BLOCK" => Change(r, "erased")
           /\ r.op \in {"READ_STAT", "READ_DMA", "READ_FLASH", "CRC32"} => handle_read(r)
<1> HIDE DEF Reply, SetFeature, ReadPages, Change, agent
<1>1. CASE handle_nand(r)
  BY <1>1, Zenon DEF handle_nand
<1>2. CASE handle_read(r)
  BY <1>2, Zenon DEF handle_read
<1> QED
  BY <1>1, <1>2, Zenon

\* The agent answers INFO and FEATURE_GET.
LEMMA AgentTells ==
    ASSUME NandTypeOK, QueueInv, FileInv, NandSuccess, AgentStep, npc \in Before
    PROVE  NandTypeOK' /\ QueueInv' /\ FileInv' /\ NandSuccess'
<1>1. npc \in Synced /\ npc \in Calls
  BY OpTable, Zenon DEF Synced
<1>2. /\ sent /\ toHost = <<>> /\ rcv = <<>> /\ toAgent' = <<>> /\ sent'
      /\ npc' = npc /\ rcv' = rcv /\ UNCHANGED command
      /\ handle_nand(Request) \/ handle_read(Request)
  BY <1>1, AgentAlone, Zenon
<1>3. PICK v : /\ toHost' = <<Reply(NandOp[npc], v)>> /\ UNCHANGED agent
               /\ npc = "config" => v = nreq.ecc
  <2>1. CASE npc = "info"
    <3>1. Request.op = "INFO" /\ NandOp[npc] = "INFO"
      BY <2>1, RequestIs, OpTable, Zenon
    <3>2. toHost' = Append(toHost, Reply("INFO", Pages)) /\ UNCHANGED agent
      BY <1>2, <3>1, Handled, Zenon
    <3> QED
      BY <1>2, <2>1, <3>1, <3>2, AppendEmpty, Zenon
  <2>2. CASE npc # "info"
    <3>1. Request.op = "FEATURE_GET" /\ NandOp[npc] = "FEATURE_GET"
      BY <2>2, RequestIs, OpTable, Zenon DEF Before
    <3>2. toHost' = Append(toHost, Reply(NandOp[npc], Request.value /\ ecc)) /\ UNCHANGED agent
      BY <1>2, <3>1, Handled, Zenon
    <3>3. npc = "config" => (Request.value /\ ecc) = nreq.ecc
      <4>1. npc = "config" => Request.value
        BY RequestIs, Zenon
      <4>2. ecc = nreq.ecc /\ ecc \in BOOLEAN
        BY Zenon DEF FileInv, NandTypeOK
      <4>3. npc = "config" => (Request.value /\ ecc) = ecc
        BY <4>1, <4>2, Zenon
      <4> QED
        BY <4>2, <4>3, Zenon
    <3>4. PICK w : w = (Request.value /\ ecc)
      OBVIOUS
    <3>5. toHost' = <<Reply(NandOp[npc], w)>> /\ UNCHANGED agent
      BY <1>2, <3>2, <3>4, AppendEmpty, Zenon
    <3>6. npc = "config" => w = nreq.ecc
      BY <3>3, <3>4, Zenon
    <3> QED
      BY <3>5, <3>6, Zenon
  <2> QED
    BY <2>1, <2>2, Zenon
<1>4. UNCHANGED work
  BY <1>2, <1>3, Zenon DEF work, command, agent
<1>5. Says(v)'
  <2>1. npc' \in Before /\ nreq' = nreq
    BY <1>2, Zenon DEF command
  <2>2. npc' \notin {"eccoff", "pages", "program", "erase"}
    BY <2>1, Zenon DEF Before
  <2> QED
    BY <1>2, <1>3, <2>1, <2>2, Zenon DEF Says
<1>6. QueueInv' /\ ASeq(toHost')
  BY <1>1, <1>3, <1>5, OneReply, Zenon
<1>7. NandTypeOK'
  BY <1>2, <1>4, <1>6, EmptySeq, TypeSame, Zenon
<1> QED
  BY <1>4, <1>6, <1>7, FileSame, Zenon

\* The command and where it is.
steady == <<npc, nreq, page, recs, records, b0, saved, sidecar>>

LEMMA Limits ==
    ASSUME NandTypeOK, FileInv
    PROVE  /\ nreq.start \in 0..Pages - 1 /\ nreq.count \in Nat /\ nreq.start \in Nat
           /\ Batch \in Nat \ {0} /\ BatchSize <= Batch /\ BatchSize \in Nat
           /\ npc \in Loop => BatchSize \in Nat \ {0} /\ page + BatchSize <= nreq.start + nreq.count
<1>1. nreq \in NandRequests /\ page \in Nat
  BY Zenon DEF NandTypeOK
<1>2. /\ nreq.start \in Nat /\ nreq.count \in Nat \ {0} /\ nreq.start + nreq.count <= Pages
      /\ Batch \in Nat \ {0} /\ Pages \in Nat
  BY <1>1, NandAssumption, Zenon
<1>3. /\ page <= nreq.start + nreq.count
      /\ npc \in Loop => page < nreq.start + nreq.count
  BY Zenon DEF FileInv
<1> QED
  BY <1>1, <1>2, <1>3, SMT DEF BatchSize, Least

\* The agent switches the ECC off, or the chip does not let it.
LEMMA AgentSwitches ==
    ASSUME NandTypeOK, QueueInv, FileInv, NandSuccess, AgentStep, npc = "eccoff"
    PROVE  NandTypeOK' /\ QueueInv' /\ FileInv' /\ NandSuccess'
<1>1. npc \in Synced /\ npc \in Calls
  BY OpTable, Zenon DEF Synced
<1>2. /\ sent /\ toHost = <<>> /\ rcv = <<>> /\ toAgent' = <<>> /\ sent'
      /\ npc' = npc /\ rcv' = rcv /\ UNCHANGED command
      /\ handle_nand(Request) \/ handle_read(Request)
  BY <1>1, AgentAlone, Zenon
<1>3. Request.op = "FEATURE_SET" /\ NandOp[npc] = "FEATURE_SET" /\ Request.value \in BOOLEAN
  BY RequestIs, OpTable, Zenon
<1>4. SetFeature(Request)
  BY <1>2, <1>3, Handled, Zenon
<1>5. UNCHANGED <<mem, dma, stat>> /\ UNCHANGED steady /\ ecc' \in BOOLEAN
  <2>1. ecc \in BOOLEAN
    BY Zenon DEF NandTypeOK
  <2> QED
    BY <1>2, <1>3, <1>4, <2>1, Zenon DEF SetFeature, steady, command
<1>6. PICK v : v = ecc'
  OBVIOUS
<1>7. toHost' = <<Reply(NandOp[npc], v)>>
  BY <1>2, <1>3, <1>4, <1>6, AppendEmpty, Zenon DEF SetFeature
<1>8. Says(v)'
  BY <1>2, <1>6, Zenon DEF Says
<1>9. QueueInv' /\ ASeq(toHost')
  BY <1>1, <1>7, <1>8, OneReply, Zenon
<1>10. NandTypeOK'
  <2>1. ASeq(toAgent') /\ ASeq(rcv') /\ sent' \in BOOLEAN
    BY <1>2, EmptySeq, Zenon
  <2> QED
    BY <1>5, <1>9, <2>1, Zenon DEF NandTypeOK, steady
<1>11. FileInv' /\ NandSuccess'
  <2>1. npc' \notin Loop \cup Before \cup {"stat", "data", "program", "done", "failed"}
    BY <1>2, Zenon DEF Loop, Before, Resync
  <2>2. FileInv'
    <3>1. Raw' = Raw /\ (toggled <=> toggled') /\ \A p, e : Reads(p, e)' = Reads(p, e)
      BY <1>5, Zenon DEF Raw, toggled, Reads, steady
    <3>2. (NandEnded <=> NandEnded')
      BY <1>2, Zenon DEF NandEnded
    <3> HIDE DEF Raw, toggled, Reads, NandEnded, Before, Loop
    <3> QED
      BY <1>5, <2>1, <3>1, <3>2, SMT DEF FileInv, steady
  <2> QED
    BY <2>1, <2>2, Zenon DEF NandSuccess
<1> QED
  BY <1>9, <1>10, <1>11, Zenon

\* The agent reads a batch of pages into its buffers.
LEMMA AgentLoads ==
    ASSUME NandTypeOK, QueueInv, FileInv, NandSuccess, AgentStep, npc = "pages"
    PROVE  NandTypeOK' /\ QueueInv' /\ FileInv' /\ NandSuccess'
<1>1. npc \in Synced /\ npc \in Calls /\ npc \in Loop
  BY OpTable, Zenon DEF Synced, Loop
<1>2. /\ sent /\ toHost = <<>> /\ rcv = <<>> /\ toAgent' = <<>> /\ sent'
      /\ npc' = npc /\ rcv' = rcv /\ UNCHANGED command
      /\ handle_nand(Request) \/ handle_read(Request)
  BY <1>1, AgentAlone, Zenon
<1>3. /\ Request.op = "READ_PAGES" /\ NandOp[npc] = "READ_PAGES" /\ Request.start = page
      /\ Request.count = BatchSize /\ Request.store = (nreq.cmd = "dump")
  BY RequestIs, OpTable, Zenon
<1>4. ReadPages(Request)
  BY <1>2, <1>3, Handled, Zenon
<1>5. PICK n \in Done(Request.start, Request.count) :
        /\ stat' = [i \in 1..Batch |->
                      IF i <= n THEN Request.start + i - 1 \in nreq.bad ELSE stat[i]]
        /\ dma' = [i \in 1..Batch |->
                     IF Request.store /\ i <= n /\ Request.start + i - 1 \notin nreq.bad
                     THEN Reads(Request.start + i - 1, ecc) ELSE dma[i]]
        /\ toHost' = Append(toHost, Reply(Request.op, n))
        /\ UNCHANGED <<ecc, mem>>
  BY <1>4, Zenon DEF ReadPages
<1>6. /\ stat' = [i \in 1..Batch |-> IF i <= n THEN page + i - 1 \in nreq.bad ELSE stat[i]]
      /\ dma' = [i \in 1..Batch |->
                   IF nreq.cmd = "dump" /\ i <= n /\ page + i - 1 \notin nreq.bad
                   THEN Reads(page + i - 1, ecc) ELSE dma[i]]
      /\ toHost' = <<Reply(NandOp[npc], n)>>
      /\ UNCHANGED <<ecc, mem>>
  BY <1>2, <1>3, <1>5, AppendEmpty, Zenon
<1>7. UNCHANGED steady
  BY <1>2, Zenon DEF steady, command
<1>8. page \in Nat /\ BatchSize \in Nat \ {0} /\ BatchSize <= Batch /\ Batch \in Nat
  BY <1>1, Limits, Zenon DEF NandTypeOK
<1>9. n \in 1..BatchSize /\ \A i \in 1..n - 1 : page + i - 1 \notin nreq.bad
  BY <1>3, <1>5, Zenon DEF Done
<1>10. \A i \in 1..n : i \in 1..Batch /\ i <= n
  BY <1>8, <1>9, SMT
<1>11. Loaded(n)'
  <2>1. n \in (1..BatchSize)'
    BY <1>7, <1>9, Zenon DEF BatchSize, steady
  <2>2. \A i \in 1..n : stat'[i] = (page + i - 1 \in nreq.bad)
    BY <1>6, <1>10, Zenon
  <2>3. nreq.cmd = "dump" => ecc = Raw
    BY <1>1, Zenon DEF FileInv
  <2>4. nreq.cmd = "dump" =>
          \A i \in 1..n : page + i - 1 \notin nreq.bad => dma'[i] = Reads(page + i - 1, ecc)
    BY <1>6, <1>10, Zenon
  <2>5. Raw' = Raw /\ \A p, e : Reads(p, e)' = Reads(p, e)
    BY <1>6, <1>7, Zenon DEF Raw, toggled, Reads, steady
  <2>6. page' = page /\ nreq' = nreq
    BY <1>7, Zenon DEF steady
  <2> QED
    BY <1>9, <2>1, <2>2, <2>3, <2>4, <2>5, <2>6, Zenon DEF Loaded
<1>12. Says(n)'
  BY <1>2, <1>11, Zenon DEF Says
<1>13. QueueInv' /\ ASeq(toHost')
  BY <1>1, <1>6, <1>12, OneReply, Zenon
<1>14. NandTypeOK'
  <2>1. ASeq(toAgent') /\ ASeq(rcv') /\ sent' \in BOOLEAN
    BY <1>2, EmptySeq, Zenon
  <2>2. stat' = [i \in 1..Batch |-> stat'[i]] /\ dma' = [i \in 1..Batch |-> dma'[i]]
    BY <1>6, Zenon
  <2>3. ASeq(stat') /\ Len(stat') = Batch /\ ASeq(dma') /\ Len(dma') = Batch
    BY <1>8, <2>2, FunctionSeq, Zenon
  <2> QED
    BY <1>6, <1>7, <1>13, <2>1, <2>3, Zenon DEF NandTypeOK, steady
<1>15. FileInv' /\ NandSuccess'
  <2>1. npc' \notin Before \cup {"eccoff", "stat", "data", "program", "done", "failed"}
    BY <1>2, Zenon DEF Before
  <2>2. FileInv'
    BY <1>6, <1>7, <2>1, SMT DEF FileInv, steady, Raw, toggled, Reads, NandEnded
  <2> QED
    BY <2>1, <2>2, Zenon DEF NandSuccess
<1> QED
  BY <1>13, <1>14, <1>15, Zenon

\* The agent programs or erases the page, unless that fails.
LEMMA AgentChanges ==
    ASSUME NandTypeOK, QueueInv, FileInv, NandSuccess, AgentStep, npc \in {"program", "erase"}
    PROVE  NandTypeOK' /\ QueueInv' /\ FileInv' /\ NandSuccess'
<1>1. npc \in Synced /\ npc \in Calls
  BY OpTable, Zenon DEF Synced
<1>2. /\ sent /\ toHost = <<>> /\ rcv = <<>> /\ toAgent' = <<>> /\ sent'
      /\ npc' = npc /\ rcv' = rcv /\ UNCHANGED command
      /\ handle_nand(Request) \/ handle_read(Request)
  BY <1>1, AgentAlone, Zenon
<1>3. Request.op = NandOp[npc] /\ Request.start = nreq.start
  BY RequestIs, Zenon
<1>4. PICK c : /\ Change(Request, c)
               /\ npc = "program" => c = "new"
               /\ npc = "erase" => c = "erased"
  <2>1. CASE npc = "program"
    <3>1. Request.op = "PROGRAM_PAGE"
      BY <1>3, <2>1, OpTable, Zenon
    <3>2. Change(Request, dma[1][2]) /\ dma[1][2] = "new"
      BY <1>2, <2>1, <3>1, Handled, Zenon DEF FileInv
    <3> QED
      BY <2>1, <3>2, Zenon
  <2>2. CASE npc = "erase"
    <3>1. Request.op = "ERASE_BLOCK"
      BY <1>3, <2>2, OpTable, Zenon
    <3>2. Change(Request, "erased")
      BY <1>2, <3>1, Handled, Zenon
    <3> QED
      BY <2>2, <3>2, Zenon
  <2> QED
    BY <2>1, <2>2, Zenon
<1>5. PICK v : v = IF nreq.start \in nreq.bad THEN 1 ELSE 0
  OBVIOUS
<1>6. /\ mem' = IF nreq.start \in nreq.bad THEN mem ELSE [mem EXCEPT ![nreq.start] = c]
      /\ toHost' = <<Reply(NandOp[npc], v)>>
      /\ UNCHANGED <<ecc, dma, stat>>
  BY <1>2, <1>3, <1>4, <1>5, AppendEmpty, Zenon DEF Change
<1>7. UNCHANGED steady
  BY <1>2, Zenon DEF steady, command
<1>8. nreq.start \in DOMAIN mem
  BY Limits, Zenon DEF NandTypeOK
<1>9. v = 0 => mem'[nreq.start] = c
  BY <1>5, <1>6, <1>8, SMT
<1>10. Says(v)'
  <2>1. npc' \notin {"config", "eccoff", "pages"} /\ nreq' = nreq
    BY <1>2, <1>7, Zenon DEF steady
  <2> QED
    BY <1>2, <1>4, <1>9, <2>1, Zenon DEF Says
<1>11. QueueInv' /\ ASeq(toHost')
  BY <1>1, <1>6, <1>10, OneReply, Zenon
<1>12. NandTypeOK'
  <2>1. ASeq(toAgent') /\ ASeq(rcv') /\ sent' \in BOOLEAN
    BY <1>2, EmptySeq, Zenon
  <2>2. DOMAIN mem' = DOMAIN mem
    BY <1>6, Zenon
  <2> QED
    BY <1>6, <1>7, <1>11, <2>1, <2>2, Zenon DEF NandTypeOK, steady
<1>13. FileInv' /\ NandSuccess'
  <2>1. npc' \notin Before \cup Loop \cup {"eccoff", "done", "failed"}
    BY <1>2, Zenon DEF Before, Loop, Resync
  <2>2. nreq.cmd \notin {"dump", "scan"} /\ nreq' = nreq
    BY <1>7, Zenon DEF NandTypeOK, Phases, Before, Loop, Resync, steady
  <2>3. FileInv'
    BY <1>6, <1>7, <2>1, <2>2, Zenon DEF FileInv, steady, Loop
  <2> QED
    BY <2>1, <2>3, Zenon DEF NandSuccess
<1> QED
  BY <1>11, <1>12, <1>13, Zenon

\* A whole stream is on its way to a host that has received nothing of it.
LEMMA StreamAnswer ==
    ASSUME NEW s, ASeq(s), toHost' = Stream(s), Len(s) = Expected',
           \A i \in 1..Len(s) : s[i] = Sent(i)', rcv' = <<>>, toAgent' = <<>>, sent',
           npc' \in Streams
    PROVE  QueueInv' /\ ASeq(toHost')
<1>1. Len(rcv') = 0 /\ 1..0 = {}
  BY EmptySeq, Zenon
<1>2. Len(s) \in Nat
  BY LenNat, Zenon
<1>3. Len(rcv') <= Expected' /\ \A i \in 1..Len(rcv') : rcv'[i] = Sent(i)'
  <2>1. Len(rcv') <= Expected'
    BY <1>1, <1>2, SMT
  <2> QED
    BY <1>1, <2>1, Zenon
<1>4. \A i \in 1..Len(toHost') :
        \/ toHost'[i] = Ack /\ i = Len(toHost')
        \/ i < Len(toHost') /\ \E k \in 1..Expected' : toHost'[i] = DataPacket(k - 1, Sent(k)')
  BY StreamSeq, Zenon
<1>5. StreamPart'
  BY <1>3, <1>4, Zenon DEF StreamPart, DataPacket, Ack
<1>6. npc' \in Synced /\ npc' # "crc" /\ npc' \notin Calls
  BY SMT DEF Streams, Synced, Calls
<1>7. Answer'
  BY <1>5, <1>6, Zenon DEF Answer
<1> QED
  BY <1>6, <1>7, StreamSeq, SyncedQueue, Zenon

\* The agent streams one of its buffers, or flash.
LEMMA AgentStreams ==
    ASSUME NandTypeOK, QueueInv, FileInv, NandSuccess, AgentStep, npc \in Streams
    PROVE  NandTypeOK' /\ QueueInv' /\ FileInv' /\ NandSuccess'
<1>1. npc \in Synced
  BY Zenon DEF Synced, Streams
<1>2. /\ sent /\ toHost = <<>> /\ rcv = <<>> /\ toAgent' = <<>> /\ sent'
      /\ npc' = npc /\ rcv' = rcv /\ UNCHANGED command
      /\ handle_nand(Request) \/ handle_read(Request)
  BY <1>1, AgentAlone, Zenon
<1>3. Request.op = NandOp[npc] /\ Request.op \in {"READ_STAT", "READ_DMA", "READ_FLASH"}
  BY RequestIs, ReadOps, Zenon
<1>4. handle_read(Request)
  BY <1>2, <1>3, Handled, Zenon
<1>5. UNCHANGED work
  BY <1>2, <1>4, Zenon DEF handle_read, work, command
<1>6. npc \in {"stat", "data"} =>
        Len(recs) \in 0..Len(stat) /\ Len(recs) \in 0..Len(dma) /\ Request.count = Len(recs)
  <2>1. ASSUME npc \in {"stat", "data"} PROVE Len(recs) \in 1..BatchSize
    BY <2>1, Zenon DEF FileInv, Loaded
  <2>2. BatchSize \in Nat /\ BatchSize <= Batch /\ Batch \in Nat
    BY Limits, Zenon
  <2>3. Len(dma) = Batch /\ Len(stat) = Batch
    BY Zenon DEF NandTypeOK
  <2>4. ASSUME npc \in {"stat", "data"} PROVE Len(recs) \in 0..Batch
    BY <2>1, <2>2, <2>4, SMT
  <2> QED
    BY <2>3, <2>4, RequestIs, Zenon
<1>7. PICK s : /\ ASeq(s) /\ toHost' = <<>> \o Stream(s) /\ Len(s) = Expected
               /\ \A i \in 1..Len(s) : s[i] = Sent(i)
  <2>1. CASE npc = "stat"
    <3>1. Request.op = "READ_STAT"
      BY <1>3, <2>1, OpTable, Zenon
    <3>2. toHost' = toHost \o Stream(SubSeq(stat, 1, Len(recs)))
      BY <1>4, <1>6, <2>1, <3>1, Zenon DEF handle_read
    <3>3. ASeq(stat) /\ Len(recs) \in 0..Len(stat)
      BY <1>6, <2>1, Zenon DEF NandTypeOK
    <3>4. PICK s : s = SubSeq(stat, 1, Len(recs))
      OBVIOUS
    <3>5. ASeq(s) /\ Len(s) = Len(recs) /\ \A i \in 1..Len(recs) : s[i] = stat[i]
      BY <3>3, <3>4, PrefixSeq, Zenon
    <3>6. Expected = Len(recs) /\ \A i : Sent(i) = stat[i]
      BY <2>1, Zenon DEF Expected, Sent
    <3> QED
      BY <1>2, <3>2, <3>4, <3>5, <3>6, Zenon
  <2>2. CASE npc = "data"
    <3>1. Request.op = "READ_DMA"
      BY <1>3, <2>2, OpTable, Zenon
    <3>2. toHost' = toHost \o Stream(SubSeq(dma, 1, Len(recs)))
      BY <1>4, <1>6, <2>2, <3>1, Zenon DEF handle_read
    <3>3. ASeq(dma) /\ Len(recs) \in 0..Len(dma)
      BY <1>6, <2>2, Zenon DEF NandTypeOK
    <3>4. PICK s : s = SubSeq(dma, 1, Len(recs))
      OBVIOUS
    <3>5. ASeq(s) /\ Len(s) = Len(recs) /\ \A i \in 1..Len(recs) : s[i] = dma[i]
      BY <3>3, <3>4, PrefixSeq, Zenon
    <3>6. Expected = Len(recs) /\ \A i : Sent(i) = dma[i]
      BY <2>2, Zenon DEF Expected, Sent
    <3> QED
      BY <1>2, <3>2, <3>4, <3>5, <3>6, Zenon
  <2>3. CASE npc = "flash"
    <3>1. Request.op = "READ_FLASH"
      BY <1>3, <2>3, OpTable, Zenon
    <3>2. toHost' = toHost \o Stream(FlashContent)
      BY <1>4, <3>1, Zenon DEF handle_read
    <3>3. FlashContent = [i \in 1..nreq.count |-> FlashContent[i]] /\ nreq.count \in Nat
      BY Limits, Zenon DEF FlashContent
    <3>4. PICK s : s = FlashContent
      OBVIOUS
    <3>5. ASeq(s) /\ Len(s) = nreq.count
      BY <3>3, <3>4, FunctionSeq, Zenon
    <3>6. Expected = nreq.count /\ \A i : Sent(i) = s[i]
      BY <2>3, <3>4, Zenon DEF Expected, Sent
    <3> QED
      BY <1>2, <3>2, <3>4, <3>5, <3>6, Zenon
  <2> QED
    BY <2>1, <2>2, <2>3, Zenon DEF Streams
<1>8. toHost' = Stream(s)
  BY <1>7, StreamSeq, ConcatEmpty, Zenon
<1>9. Expected' = Expected /\ \A i : Sent(i)' = Sent(i)
  BY <1>5, Zenon DEF work, agent, Expected, Sent, FlashContent
<1>10. QueueInv' /\ ASeq(toHost')
  <2>1. Len(s) = Expected' /\ \A i \in 1..Len(s) : s[i] = Sent(i)'
    BY <1>7, <1>9, Zenon
  <2>2. rcv' = <<>> /\ npc' \in Streams
    BY <1>2, Zenon
  <2> QED
    BY <1>2, <1>7, <1>8, <2>1, <2>2, StreamAnswer, Zenon
<1>11. NandTypeOK'
  BY <1>2, <1>5, <1>10, EmptySeq, TypeSame, Zenon
<1> QED
  BY <1>5, <1>10, <1>11, FileSame, Zenon

\* The agent sums flash.
LEMMA AgentSums ==
    ASSUME NandTypeOK, QueueInv, FileInv, NandSuccess, AgentStep, npc = "crc"
    PROVE  NandTypeOK' /\ QueueInv' /\ FileInv' /\ NandSuccess'
<1>1. npc \in Synced /\ npc \notin Streams /\ npc \notin Calls
  BY SMT DEF Synced, Streams, Calls
<1>2. /\ sent /\ toHost = <<>> /\ rcv = <<>> /\ toAgent' = <<>> /\ sent'
      /\ npc' = npc /\ rcv' = rcv /\ UNCHANGED command
      /\ handle_nand(Request) \/ handle_read(Request)
  BY <1>1, AgentAlone, Zenon
<1>3. Request.op = "CRC32"
  BY RequestIs, OpTable, Zenon
<1>4. handle_read(Request)
  BY <1>2, <1>3, Handled, Zenon
<1>5. UNCHANGED work
  BY <1>2, <1>4, Zenon DEF handle_read, work, command
<1>6. PICK x : x = [Reply("CRC32", FlashContent) EXCEPT !.kind = "crc"]
  OBVIOUS
<1>7. toHost' = <<x>>
  <2>1. toHost' = <<>> \o <<x>>
    BY <1>2, <1>3, <1>4, <1>6, SMT DEF handle_read
  <2> QED
    BY <2>1, SingleSeq, ConcatEmpty, Zenon
<1>8. x = [Reply("CRC32", FlashContent) EXCEPT !.kind = "crc"]'
  BY <1>5, <1>6, Zenon DEF work, agent, FlashContent, Reply
<1>9. Answer'
  BY <1>1, <1>2, <1>7, <1>8, Zenon DEF Answer
<1>10. QueueInv' /\ ASeq(toHost')
  BY <1>1, <1>2, <1>7, <1>9, SingleSeq, SyncedQueue, Zenon
<1>11. NandTypeOK'
  BY <1>2, <1>5, <1>10, EmptySeq, TypeSame, Zenon
<1> QED
  BY <1>5, <1>10, <1>11, FileSame, Zenon

(***************************************************************************)
(* The agent answers what a host that has given it up left behind.         *)
(***************************************************************************)
\* t is s with packets after it, of which only the last may be an answer,
\* and to o.
Answered(t, s, o) ==
    \A i \in 1..Len(t) :
        \/ i \in 1..Len(s) /\ i # Len(t) /\ t[i] = s[i]
        \/ t[i].kind = "nand" => t[i].op = o /\ i = Len(t)

LEMMA AnsweredByReply ==
    ASSUME NEW s, ASeq(s), NEW x, NEW o, x.kind = "nand" => x.op = o
    PROVE  ASeq(Append(s, x)) /\ Answered(Append(s, x), s, o)
<1>1. ASeq(Append(s, x)) /\ Grown(Append(s, x), s, x)
  BY AppendSeq, Zenon
<1>2. PICK t : t = Append(s, x)
  OBVIOUS
<1>3. Answered(t, s, o)
  BY <1>1, <1>2, Zenon DEF Grown, Answered
<1> QED
  BY <1>1, <1>2, <1>3, Zenon

LEMMA AnsweredByPackets ==
    ASSUME NEW s, ASeq(s), NEW p, ASeq(p), p # <<>>, \A i \in 1..Len(p) : p[i].kind # "nand",
           NEW o
    PROVE  ASeq(s \o p) /\ Answered(s \o p, s, o)
<1>1. PICK t : t = s \o p
  OBVIOUS
<1>2. ASeq(t) /\ Joined(t, s, p)
  BY <1>1, ConcatSeq, Zenon
<1>3. Len(s) \in Nat /\ Len(p) \in Nat /\ Len(p) # 0 /\ Len(t) = Len(s) + Len(p)
  BY <1>2, LenNat, Zenon DEF Joined
<1>4. ASSUME NEW i \in 1..Len(t)
      PROVE  \/ i \in 1..Len(s) /\ i # Len(t)
             \/ i - Len(s) \in 1..Len(p) /\ i = Len(s) + (i - Len(s))
  BY <1>3, SMT
<1>5. \A i \in 1..Len(s) : t[i] = s[i]
  BY <1>2, Zenon DEF Joined
<1>6. \A j \in 1..Len(p) : t[Len(s) + j].kind # "nand"
  BY <1>2, Zenon DEF Joined
<1>7. Answered(t, s, o)
  BY <1>4, <1>5, <1>6, Zenon DEF Answered
<1> QED
  BY <1>1, <1>2, <1>7, Zenon

LEMMA StreamIsNoAnswer ==
    ASSUME NEW s, ASeq(s)
    PROVE  /\ ASeq(Stream(s)) /\ Stream(s) # <<>>
           /\ \A i \in 1..Len(Stream(s)) : Stream(s)[i].kind # "nand"
<1>1. Ack.kind # "nand" /\ \A i, v : DataPacket(i, v).kind # "nand"
  BY SMT DEF Ack, DataPacket
<1>2. PICK t : t = Stream(s)
  OBVIOUS
<1>3. /\ ASeq(t) /\ t # <<>>
      /\ \A i \in 1..Len(t) : t[i] = Ack \/ t[i] = DataPacket(i - 1, s[i])
  BY <1>2, StreamSeq, Zenon
<1> HIDE DEF Ack, DataPacket
<1>4. \A i \in 1..Len(t) : t[i].kind # "nand"
  BY <1>1, <1>3, Zenon
<1> QED
  BY <1>2, <1>3, <1>4, Zenon

\* What any request does to the agent and the line.
LEMMA AgentOut ==
    ASSUME NandTypeOK, FileInv, NEW r, Good(r), handle_nand(r) \/ handle_read(r)
    PROVE  /\ ASeq(toHost') /\ Answered(toHost', toHost, r.op)
           /\ ecc' \in BOOLEAN /\ (r.op # "FEATURE_SET" => ecc' = ecc)
           /\ DOMAIN mem' = DOMAIN mem
           /\ r.op \notin {"PROGRAM_PAGE", "ERASE_BLOCK"} => mem' = mem
           /\ ASeq(dma') /\ Len(dma') = Batch /\ ASeq(stat') /\ Len(stat') = Batch
<1>1. /\ ASeq(toHost) /\ ecc \in BOOLEAN /\ Batch \in Nat
      /\ ASeq(dma) /\ Len(dma) = Batch /\ ASeq(stat) /\ Len(stat) = Batch
  BY Limits, Zenon DEF NandTypeOK
<1>2. \A o, v : Reply(o, v).kind = "nand" => Reply(o, v).op = o
  BY Zenon DEF Reply
<1>3. \A o, v : ASeq(Append(toHost, Reply(o, v))) /\ Answered(Append(toHost, Reply(o, v)), toHost, o)
  <2> TAKE o, v
  <2>1. PICK x : x = Reply(o, v)
    OBVIOUS
  <2>2. x.kind = "nand" => x.op = o
    BY <1>2, <2>1, Zenon
  <2>3. ASeq(Append(toHost, x)) /\ Answered(Append(toHost, x), toHost, o)
    BY <1>1, <2>2, AnsweredByReply, Zenon
  <2> QED
    BY <2>1, <2>3, Zenon
<1>4. CASE handle_nand(r)
  <2>1. CASE /\ r.op \in {"INFO", "FEATURE_GET"} /\ UNCHANGED agent
             /\ \E v : toHost' = Append(toHost, Reply(r.op, v))
    BY <1>1, <1>3, <2>1, Zenon DEF agent
  <2>2. CASE r.op = "FEATURE_SET" /\ SetFeature(r)
    <3>1. toHost' = Append(toHost, Reply(r.op, ecc')) /\ UNCHANGED <<mem, dma, stat>>
      BY <2>2, Zenon DEF SetFeature
    <3>2. ecc' \in BOOLEAN
      BY <1>1, <2>2, Zenon DEF SetFeature, Good
    <3> QED
      BY <1>1, <1>3, <2>2, <3>1, <3>2, Zenon
  <2>3. CASE r.op = "READ_PAGES" /\ ReadPages(r)
    <3>1. /\ stat' = [i \in 1..Batch |-> stat'[i]] /\ dma' = [i \in 1..Batch |-> dma'[i]]
          /\ \E v : toHost' = Append(toHost, Reply(r.op, v))
          /\ ecc' = ecc /\ mem' = mem
      BY <2>3, Zenon DEF ReadPages
    <3>2. ASeq(stat') /\ Len(stat') = Batch /\ ASeq(dma') /\ Len(dma') = Batch
      BY <1>1, <3>1, FunctionSeq, Zenon
    <3> QED
      BY <1>1, <1>3, <3>1, <3>2, Zenon
  <2>4. CASE r.op \in {"PROGRAM_PAGE", "ERASE_BLOCK"} /\ \E c : Change(r, c)
    <3>1. /\ DOMAIN mem' = DOMAIN mem /\ ecc' = ecc /\ dma' = dma /\ stat' = stat
          /\ \E v : toHost' = Append(toHost, Reply(r.op, v))
      BY <2>4, Zenon DEF Change
    <3> QED
      BY <1>1, <1>3, <2>4, <3>1, Zenon
  <2>5. \/ /\ r.op \in {"INFO", "FEATURE_GET"} /\ UNCHANGED agent
           /\ \E v : toHost' = Append(toHost, Reply(r.op, v))
        \/ r.op = "FEATURE_SET" /\ SetFeature(r)
        \/ r.op = "READ_PAGES" /\ ReadPages(r)
        \/ r.op \in {"PROGRAM_PAGE", "ERASE_BLOCK"} /\ \E c : Change(r, c)
    <3>1. PICK w : w = (r.value /\ ecc)
      OBVIOUS
    <3>2. r.op = "FEATURE_GET" /\ toHost' = Append(toHost, Reply(r.op, r.value /\ ecc)) =>
            \E v : toHost' = Append(toHost, Reply(r.op, v))
      BY <3>1, Zenon
    <3> QED
      BY <1>4, <3>2, Zenon DEF handle_nand
  <2> QED
    BY <2>1, <2>2, <2>3, <2>4, <2>5, Zenon
<1>5. CASE handle_read(r)
  <2>1. ecc' = ecc /\ mem' = mem /\ dma' = dma /\ stat' = stat
    BY <1>5, Zenon DEF handle_read, agent
  <2>2. PICK p : /\ toHost' = toHost \o p /\ ASeq(p) /\ p # <<>>
                 /\ \A i \in 1..Len(p) : p[i].kind # "nand"
    <3>1. CASE r.op = "READ_STAT"
      <4>1. toHost' = toHost \o Stream(SubSeq(stat, 1, r.count))
        BY <1>5, <3>1, SMT DEF handle_read
      <4>2. r.count \in 0..Len(stat)
        BY <1>1, <3>1, Zenon DEF Good
      <4> QED
        BY <1>1, <4>1, <4>2, PrefixSeq, StreamIsNoAnswer, Zenon
    <3>2. CASE r.op = "READ_DMA"
      <4>1. toHost' = toHost \o Stream(SubSeq(dma, 1, r.count))
        BY <1>5, <3>2, SMT DEF handle_read
      <4>2. r.count \in 0..Len(dma)
        BY <1>1, <3>2, Zenon DEF Good
      <4> QED
        BY <1>1, <4>1, <4>2, PrefixSeq, StreamIsNoAnswer, Zenon
    <3>3. CASE r.op = "READ_FLASH"
      <4>1. toHost' = toHost \o Stream(FlashContent)
        BY <1>5, <3>3, SMT DEF handle_read
      <4>2. FlashContent = [i \in 1..nreq.count |-> FlashContent[i]] /\ nreq.count \in Nat
        BY Limits, Zenon DEF FlashContent
      <4>3. PICK f : f = FlashContent
        OBVIOUS
      <4>4. ASeq(f)
        BY <4>2, <4>3, FunctionSeq, Zenon
      <4> QED
        BY <4>1, <4>3, <4>4, StreamIsNoAnswer, Zenon
    <3>4. CASE r.op = "CRC32"
      <4>1. PICK x : x = [Reply("CRC32", FlashContent) EXCEPT !.kind = "crc"]
        OBVIOUS
      <4>2. toHost' = toHost \o <<x>>
        BY <1>5, <3>4, <4>1, SMT DEF handle_read
      <4>3. x.kind # "nand"
        BY <4>1, SMT DEF Reply
      <4>4. \A i \in 1..Len(<<x>>) : <<x>>[i].kind # "nand"
        <5>1. 1..1 = {1}
          BY SMT
        <5> QED
          BY <4>3, <5>1, SingleSeq, Zenon
      <4> QED
        BY <4>2, <4>4, SingleSeq, Zenon
    <3> QED
      BY <1>5, <3>1, <3>2, <3>3, <3>4, Zenon DEF handle_read
  <2>3. ASeq(toHost') /\ Answered(toHost', toHost, r.op)
    BY <1>1, <2>2, AnsweredByPackets, Zenon
  <2> QED
    BY <1>1, <2>1, <2>3, Zenon
<1> QED
  BY <1>4, <1>5, Zenon

\* The agent answers outside the exchanges of a command that is in step.
LEMMA AgentLate ==
    ASSUME NandTypeOK, QueueInv, FileInv, NandSuccess, AgentStep, npc \notin Synced
    PROVE  NandTypeOK' /\ QueueInv' /\ FileInv' /\ NandSuccess'
<1>1. /\ toAgent # <<>> /\ toAgent' = Tail(toAgent)
      /\ npc' = npc /\ sent' = sent /\ rcv' = rcv /\ UNCHANGED command
      /\ handle_nand(Head(toAgent)) \/ handle_read(Head(toAgent))
  BY Zenon DEF AgentStep
<1>2. UNCHANGED steady
  BY <1>1, Zenon DEF steady, command
<1>3. /\ ASeq(toAgent') /\ Part(toAgent', toAgent) /\ Head(toAgent) = toAgent[1]
      /\ 1 \in 1..Len(toAgent) /\ (Len(toAgent) = 1 => toAgent' = <<>>)
  BY <1>1, TailSeq, Zenon DEF NandTypeOK
<1>4. PICK r : r = toAgent[1]
  OBVIOUS
<1>5. Good(r)
  BY <1>3, <1>4, Zenon DEF QueueInv
<1>6. /\ ASeq(toHost') /\ Answered(toHost', toHost, r.op)
      /\ ecc' \in BOOLEAN /\ (r.op # "FEATURE_SET" => ecc' = ecc)
      /\ DOMAIN mem' = DOMAIN mem
      /\ r.op \notin {"PROGRAM_PAGE", "ERASE_BLOCK"} => mem' = mem
      /\ ASeq(dma') /\ Len(dma') = Batch /\ ASeq(stat') /\ Len(stat') = Batch
  BY <1>1, <1>3, <1>4, <1>5, AgentOut, Zenon
<1>7. NandTypeOK'
  BY <1>1, <1>2, <1>3, <1>6, Zenon DEF NandTypeOK, steady
<1>8. npc \notin {"stage", "program"} /\ (npc = "done" => nreq.cmd = "dump")
  <2>1. npc # "stage"
    BY <1>1, OpTable, Zenon DEF QueueInv, Synced, Before
  <2>2. npc # "program" /\ (npc = "done" => nreq.cmd = "dump")
    BY <1>1, Zenon DEF QueueInv, Synced
  <2> QED
    BY <2>1, <2>2, Zenon
<1>9. FileInv' /\ NandSuccess'
  <2>1. npc \notin Before \cup {"eccoff", "pages", "stat", "data", "program"}
    BY Zenon DEF Synced
  <2>2. nreq.cmd = "dump" => mem' = mem
    BY <1>3, <1>4, <1>6, Zenon DEF QueueInv
  <2>3. npc \in Loop => ecc' = ecc
    <3>1. npc \in Loop => npc \in Resync
      BY <2>1, Zenon DEF Loop
    <3>2. npc \in Resync => r.op \in PageOps \cup {"INFO"}
      BY <1>3, <1>4, Zenon DEF QueueInv
    <3>3. r.op \in PageOps \cup {"INFO"} => r.op # "FEATURE_SET"
      BY Zenon DEF PageOps
    <3> QED
      BY <1>6, <3>1, <3>2, <3>3, Zenon
  <2>4. nreq.cmd = "dump" => \A p, e : Reads(p, e)' = Reads(p, e)
    BY <2>2, Zenon DEF Reads
  <2>5. Raw' = Raw
    BY <1>2, Zenon DEF Raw, toggled, steady
  <2>6. FileInv'
    BY <1>2, <2>1, <2>3, <2>4, <2>5, ZenonT(40) DEF FileInv, steady, NandEnded
  <2>7. NandSuccess'
    BY <1>2, <1>8, Zenon DEF NandSuccess, steady
  <2> QED
    BY <2>6, <2>7, Zenon
<1>10. QueueInv'
  <2>1. sent' => npc' \in DOMAIN NandOp
    BY <1>1, Zenon DEF QueueInv
  <2>2. \A i \in 1..Len(toAgent') : Good(toAgent'[i])
    BY <1>3, Zenon DEF QueueInv, Part
  <2>3. npc' \notin Synced \cup {"stage"}
    BY <1>1, <1>8, Zenon
  <2>4. npc' \in Resync =>
          /\ \A i \in 1..Len(toAgent') : toAgent'[i].op \in PageOps \cup {"INFO"}
          /\ \A i \in 1..Len(toHost') : ~IsReply(toHost'[i], "FEATURE_SET")
    <3> SUFFICES ASSUME npc \in Resync
                 PROVE  /\ \A i \in 1..Len(toAgent') : toAgent'[i].op \in PageOps \cup {"INFO"}
                        /\ \A i \in 1..Len(toHost') : ~IsReply(toHost'[i], "FEATURE_SET")
      BY <1>1, Zenon
    <3>1. /\ \A i \in 1..Len(toAgent) : toAgent[i].op \in PageOps \cup {"INFO"}
          /\ \A i \in 1..Len(toHost) : ~IsReply(toHost[i], "FEATURE_SET")
      BY Zenon DEF QueueInv
    <3>2. r.op # "FEATURE_SET"
      BY <1>3, <1>4, <3>1, Zenon DEF PageOps
    <3>3. \A i \in 1..Len(toAgent') : toAgent'[i].op \in PageOps \cup {"INFO"}
      BY <1>3, <3>1, Zenon DEF Part
    <3>4. \A i \in 1..Len(toHost') : ~IsReply(toHost'[i], "FEATURE_SET")
      BY <1>6, <3>1, <3>2, Zenon DEF Answered, IsReply
    <3> QED
      BY <3>3, <3>4, Zenon
  <2>5. npc' = "drain" \/ (npc' = "sync" /\ ~sent') =>
          /\ \A i \in 1..Len(toAgent') : toAgent'[i].op # "INFO"
          /\ \A i \in 1..Len(toHost') : ~IsReply(toHost'[i], "INFO")
    <3> SUFFICES ASSUME npc = "drain" \/ (npc = "sync" /\ ~sent)
                 PROVE  /\ \A i \in 1..Len(toAgent') : toAgent'[i].op # "INFO"
                        /\ \A i \in 1..Len(toHost') : ~IsReply(toHost'[i], "INFO")
      BY <1>1, Zenon
    <3>1. /\ \A i \in 1..Len(toAgent) : toAgent[i].op # "INFO"
          /\ \A i \in 1..Len(toHost) : ~IsReply(toHost[i], "INFO")
      BY Zenon DEF QueueInv
    <3>2. r.op # "INFO"
      BY <1>3, <1>4, <3>1, Zenon
    <3>3. \A i \in 1..Len(toAgent') : toAgent'[i].op # "INFO"
      BY <1>3, <3>1, Zenon DEF Part
    <3>4. \A i \in 1..Len(toHost') : ~IsReply(toHost'[i], "INFO")
      BY <1>6, <3>1, <3>2, Zenon DEF Answered, IsReply
    <3> QED
      BY <3>3, <3>4, Zenon
  <2>6. npc' = "sync" /\ sent' =>
          /\ \A i \in 1..Len(toAgent') : toAgent'[i].op = "INFO" => i = Len(toAgent')
          /\ \A i \in 1..Len(toHost') :
               IsReply(toHost'[i], "INFO") => i = Len(toHost') /\ toAgent' = <<>>
    <3> SUFFICES ASSUME npc = "sync", sent
                 PROVE  /\ \A i \in 1..Len(toAgent') : toAgent'[i].op = "INFO" => i = Len(toAgent')
                        /\ \A i \in 1..Len(toHost') :
                             IsReply(toHost'[i], "INFO") => i = Len(toHost') /\ toAgent' = <<>>
      BY <1>1, Zenon
    <3>1. /\ \A i \in 1..Len(toAgent) : toAgent[i].op = "INFO" => i = Len(toAgent)
          /\ \A i \in 1..Len(toHost) : ~IsReply(toHost[i], "INFO")
      BY <1>1, Zenon DEF QueueInv
    <3>2. \A i \in 1..Len(toAgent') : toAgent'[i].op = "INFO" => i = Len(toAgent')
      BY <1>3, <3>1, Zenon DEF Part
    <3>3. r.op = "INFO" => toAgent' = <<>>
      BY <1>3, <1>4, <3>1, Zenon
    <3>4. \A i \in 1..Len(toHost') : IsReply(toHost'[i], "INFO") => r.op = "INFO" /\ i = Len(toHost')
      BY <1>6, <3>1, Zenon DEF Answered, IsReply
    <3> QED
      BY <3>2, <3>3, <3>4, Zenon
  <2>7. nreq'.cmd = "dump" =>
          \A i \in 1..Len(toAgent') : toAgent'[i].op \notin {"PROGRAM_PAGE", "ERASE_BLOCK"}
    BY <1>2, <1>3, Zenon DEF QueueInv, Part, steady
  <2>8. npc' = "done" /\ nreq'.cmd # "dump" => toAgent' = <<>>
    BY <1>2, <1>8, Zenon DEF steady
  <2> QED
    BY <2>1, <2>2, <2>3, <2>4, <2>5, <2>6, <2>7, <2>8, Zenon DEF QueueInv
<1> QED
  BY <1>7, <1>9, <1>10, Zenon

\* Every step of the agent.
LEMMA AgentKeeps ==
    ASSUME NandTypeOK, QueueInv, FileInv, NandSuccess, AgentStep
    PROVE  NandTypeOK' /\ QueueInv' /\ FileInv' /\ NandSuccess'
  BY AgentTells, AgentSwitches, AgentLoads, AgentChanges, AgentStreams, AgentSums, AgentLate, Zenon
  DEF Synced, Streams

(***************************************************************************)
(* The host, within a phase.                                               *)
(***************************************************************************)
\* A packet goes: lost on the way, or skipped by the host.
LEMMA PacketGoes ==
    ASSUME NandTypeOK, QueueInv, toHost # <<>>, toHost' = Tail(toHost), sent' = sent, rcv' = rcv,
           toAgent' = toAgent, UNCHANGED work
    PROVE  QueueInv' /\ NandTypeOK'
<1>1. /\ ASeq(toHost') /\ Part(toHost', toHost) /\ (Len(toHost) = 1 => toHost' = <<>>)
      /\ Len(toHost') \in Nat /\ Len(toHost) \in Nat
  BY TailSeq, LenNat, Zenon DEF NandTypeOK
<1>2. npc' = npc /\ nreq' = nreq /\ Request' = Request
  BY Zenon DEF work, Request, BatchSize, Least
<1>3. NandTypeOK'
  BY <1>1, TypeSame, Zenon DEF NandTypeOK
<1>4. ASSUME npc \in Synced
      PROVE  sent /\ toAgent = <<>> /\ Answer /\ Answer'
  <2>1. sent /\ toAgent = <<>> /\ Answer
    BY <1>4, Zenon DEF QueueInv, NandTypeOK
  <2>2. npc \in Streams => StreamPart'
    <3> SUFFICES ASSUME npc \in Streams PROVE StreamPart'
      OBVIOUS
    <3>1. StreamPart
      BY <2>1, Zenon DEF Answer
    <3>2. Expected' = Expected /\ \A k : Sent(k)' = Sent(k)
      BY Zenon DEF work, agent, Expected, Sent, FlashContent
    <3>3. \A i \in 1..Len(toHost') :
            \/ toHost'[i] = Ack /\ i = Len(toHost')
            \/ i < Len(toHost') /\ \E k \in 1..Expected : toHost'[i] = DataPacket(k - 1, Sent(k))
      <4> TAKE i \in 1..Len(toHost')
      <4>1. PICK j \in 1..Len(toHost) : toHost'[i] = toHost[j] /\ (j = Len(toHost) <=> i = Len(toHost'))
        BY <1>1, Zenon DEF Part
      <4>2. \/ toHost[j] = Ack /\ j = Len(toHost)
            \/ j < Len(toHost) /\ \E k \in 1..Expected : toHost[j] = DataPacket(k - 1, Sent(k))
        BY <3>1, Zenon DEF StreamPart
      <4>3. j < Len(toHost) => i < Len(toHost')
        BY <1>1, <4>1, SMT
      <4> QED
        BY <4>1, <4>2, <4>3, Zenon
    <3>4. Len(rcv) <= Expected /\ \A i \in 1..Len(rcv) : rcv[i] = Sent(i)
      BY <3>1, Zenon DEF StreamPart
    <3> QED
      BY <3>2, <3>3, <3>4, Zenon DEF StreamPart, Ack, DataPacket
  <2>3. npc = "crc" \/ npc \in Calls => toHost' = <<>>
    <3>1. npc = "crc" \/ npc \in Calls => \E x : toHost = <<x>>
      BY <2>1, Zenon DEF Answer
    <3> QED
      BY <1>1, <3>1, SingleSeq, Zenon
  <2> QED
    BY <1>2, <2>1, <2>2, <2>3, Zenon DEF Answer
<1>5. QueueInv'
  <2>1. npc \in Synced \cup {"stage"} /\ ~sent => FALSE
    BY Zenon DEF QueueInv
  <2>2. npc \in Synced => toAgent' = <<>> /\ Answer'
    BY <1>4, Zenon
  <2>3. npc \in Resync => \A i \in 1..Len(toHost') : ~IsReply(toHost'[i], "FEATURE_SET")
    BY <1>1, Zenon DEF QueueInv, Part
  <2>4. npc = "drain" \/ (npc = "sync" /\ ~sent) =>
          \A i \in 1..Len(toHost') : ~IsReply(toHost'[i], "INFO")
    BY <1>1, Zenon DEF QueueInv, Part
  <2>5. npc = "sync" /\ sent =>
          \A i \in 1..Len(toHost') :
              IsReply(toHost'[i], "INFO") => i = Len(toHost') /\ toAgent = <<>>
    BY <1>1, Zenon DEF QueueInv, Part
  <2> QED
    BY <1>2, <2>1, <2>2, <2>3, <2>4, <2>5, Zenon DEF QueueInv
<1> QED
  BY <1>3, <1>5, Zenon

LEMMA PacketGoesKeeps ==
    ASSUME NandTypeOK, QueueInv, FileInv, NandSuccess, LosePacket \/ SkipStale
    PROVE  NandTypeOK' /\ QueueInv' /\ FileInv' /\ NandSuccess'
<1>1. /\ toHost # <<>> /\ toHost' = Tail(toHost) /\ sent' = sent /\ rcv' = rcv
      /\ toAgent' = toAgent /\ UNCHANGED work
  <2>1. CASE LosePacket
    BY <2>1, Zenon DEF LosePacket, work, command
  <2>2. CASE SkipStale
    BY <2>2, Zenon DEF SkipStale, Take, work, command
  <2> QED
    BY <2>1, <2>2, Zenon
<1> QED
  BY <1>1, PacketGoes, FileSame, Zenon

\* read_memory takes a packet in sequence.
LEMMA DataReceivedKeeps ==
    ASSUME NandTypeOK, QueueInv, FileInv, NandSuccess, DataReceived
    PROVE  NandTypeOK' /\ QueueInv' /\ FileInv' /\ NandSuccess'
<1>1. /\ npc \in Streams /\ sent /\ toHost # <<>> /\ toHost' = Tail(toHost) /\ sent'
      /\ toAgent' = toAgent /\ UNCHANGED work /\ npc' = npc
      /\ Next1.kind = "data" /\ Next1.seq = Len(rcv) /\ rcv' = Append(rcv, Next1.val)
  BY Zenon DEF DataReceived, Take, InSequence, work, command
<1>2. /\ ASeq(toHost') /\ Part(toHost', toHost) /\ Next1 = toHost[1] /\ 1 \in 1..Len(toHost)
      /\ Len(toHost') \in Nat /\ Len(toHost) \in Nat
  BY <1>1, TailSeq, LenNat, Zenon DEF NandTypeOK, Next1
<1>3. toAgent = <<>> /\ StreamPart
  BY <1>1, Zenon DEF QueueInv, Answer, Synced, Streams
<1>4. Expected' = Expected /\ \A k : Sent(k)' = Sent(k)
  BY <1>1, Zenon DEF work, agent, Expected, Sent, FlashContent
<1>5. PICK k \in 1..Expected : Next1.seq = k - 1 /\ Next1.val = Sent(k)
  <2>1. Ack.kind # "data"
    BY SMT DEF Ack
  <2>2. PICK k \in 1..Expected : toHost[1] = DataPacket(k - 1, Sent(k))
    BY <1>1, <1>2, <1>3, <2>1, Zenon DEF StreamPart
  <2>3. DataPacket(k - 1, Sent(k)).seq = k - 1 /\ DataPacket(k - 1, Sent(k)).val = Sent(k)
    BY Zenon DEF DataPacket
  <2> QED
    BY <1>2, <2>2, <2>3, Zenon
<1>6. /\ ASeq(rcv') /\ Grown(rcv', rcv, Next1.val) /\ Len(rcv') = Len(rcv) + 1 /\ Len(rcv) \in Nat
  BY <1>1, AppendSeq, LenNat, Zenon DEF NandTypeOK
<1>7. Expected \in Nat
  BY LenNat, Limits, Zenon DEF Expected, NandTypeOK
<1>8. Len(rcv') = k /\ Len(rcv') <= Expected
  BY <1>1, <1>5, <1>6, <1>7, SMT
<1>9. \A i \in 1..Len(rcv') : rcv'[i] = Sent(i)
  BY <1>3, <1>5, <1>6, <1>8, Zenon DEF Grown, StreamPart
<1>10. \A i \in 1..Len(toHost') :
            \/ toHost'[i] = Ack /\ i = Len(toHost')
            \/ i < Len(toHost') /\ \E m \in 1..Expected : toHost'[i] = DataPacket(m - 1, Sent(m))
  <2> TAKE i \in 1..Len(toHost')
  <2>1. PICK j \in 1..Len(toHost) : toHost'[i] = toHost[j] /\ (j = Len(toHost) <=> i = Len(toHost'))
    BY <1>2, Zenon DEF Part
  <2>2. \/ toHost[j] = Ack /\ j = Len(toHost)
        \/ j < Len(toHost) /\ \E m \in 1..Expected : toHost[j] = DataPacket(m - 1, Sent(m))
    BY <1>3, Zenon DEF StreamPart
  <2>3. j < Len(toHost) => i < Len(toHost')
    BY <1>2, <2>1, SMT
  <2> QED
    BY <2>1, <2>2, <2>3, Zenon
<1>11. StreamPart'
  BY <1>4, <1>8, <1>9, <1>10, Zenon DEF StreamPart, Ack, DataPacket
<1>12. Answer' /\ npc' \in Synced
  <2>1. npc' \in Streams /\ npc' # "crc" /\ npc' \notin Calls /\ npc' \in Synced
    BY <1>1, SMT DEF Streams, Calls, Synced
  <2> QED
    BY <1>11, <2>1, Zenon DEF Answer
<1>13. QueueInv'
  BY <1>1, <1>3, <1>12, SyncedQueue, Zenon
<1>14. NandTypeOK'
  BY <1>1, <1>2, <1>6, TypeSame, Zenon DEF NandTypeOK
<1> QED
  BY <1>1, <1>13, <1>14, FileSame, Zenon

\* What is left of a queue that was cleared.
LEMMA ClearedIs ==
    ASSUME NandTypeOK, NEW t, t \in Cleared
    PROVE  ASeq(t) /\ Part(t, toHost) /\ (toHost = <<>> => t = <<>>)
<1>1. PICK n \in 1..Len(toHost) + 1 : t = SubSeq(toHost, n, Len(toHost))
  BY Zenon DEF Cleared
<1>2. ASeq(toHost)
  BY Zenon DEF NandTypeOK
<1>3. ASeq(t) /\ Part(t, toHost)
  BY <1>1, <1>2, SuffixSeq, Zenon
<1>4. ASSUME toHost = <<>> PROVE t = <<>>
  <2>1. Len(toHost) = 0
    BY <1>4, EmptySeq, Zenon
  <2>2. \A i \in 1..Len(t) : FALSE
    BY <1>3, <2>1, EmptySeq, Zenon DEF Part
  <2>3. Len(t) \in Nat
    BY <1>3, LenNat, Zenon
  <2>4. Len(t) = 0
    BY <2>2, <2>3, SMT
  <2> QED
    BY <1>3, <2>4, LenNat, Zenon
<1> QED
  BY <1>3, <1>4, Zenon

LEMMA RequestGood ==
    ASSUME NandTypeOK, FileInv, npc \in DOMAIN NandOp
    PROVE  Good(Request)
<1>1. Request.value \in BOOLEAN
  BY RequestIs, Zenon
<1>2. ASSUME Request.op \in {"READ_STAT", "READ_DMA"}
      PROVE  Request.count \in 0..Batch
  <2>1. npc \in {"stat", "data"}
    BY <1>2, RequestIs, ReadOps, Zenon
  <2>2. Request.count \in 1..BatchSize
    BY <2>1, RequestIs, Zenon DEF FileInv, Loaded
  <2>3. BatchSize \in Nat /\ BatchSize <= Batch /\ Batch \in Nat
    BY Limits, Zenon
  <2> QED
    BY <2>2, <2>3, SMT
<1> QED
  BY <1>1, <1>2, Zenon DEF Good

\* A request goes out, or is lost.
LEMMA CallKeeps ==
    ASSUME NandTypeOK, QueueInv, FileInv, NandSuccess, Call
    PROVE  NandTypeOK' /\ QueueInv' /\ FileInv' /\ NandSuccess'
<1>1. /\ npc \in DOMAIN NandOp /\ ~sent /\ toHost' \in Cleared /\ sent' /\ rcv' = <<>>
      /\ toAgent' = Append(toAgent, Request) \/ toAgent' = toAgent
      /\ UNCHANGED work /\ npc' = npc /\ sent' \in BOOLEAN
  BY Zenon DEF Call, work, command
<1>2. ASeq(toHost') /\ Part(toHost', toHost) /\ (toHost = <<>> => toHost' = <<>>)
  BY <1>1, ClearedIs, Zenon
<1>3. /\ ASeq(toAgent')
      /\ \A i \in 1..Len(toAgent') :
           \/ i \in 1..Len(toAgent) /\ toAgent'[i] = toAgent[i]
           \/ toAgent'[i] = Request /\ i = Len(toAgent')
  <2>1. ASeq(toAgent)
    BY Zenon DEF NandTypeOK
  <2>2. PICK q : q = Request
    OBVIOUS
  <2>3. CASE toAgent' = Append(toAgent, q)
    <3>1. ASeq(toAgent') /\ Grown(toAgent', toAgent, q)
      BY <2>1, <2>3, AppendSeq, Zenon
    <3> QED
      BY <2>2, <3>1, Zenon DEF Grown
  <2>4. CASE toAgent' = toAgent
    BY <2>1, <2>4, Zenon
  <2> QED
    BY <1>1, <2>2, <2>3, <2>4, Zenon
<1>4. NandTypeOK'
  BY <1>1, <1>2, <1>3, EmptySeq, TypeSame, Zenon
<1>5. nreq' = nreq /\ Request' = Request
  BY <1>1, Zenon DEF work, Request, BatchSize, Least
<1>6. Request.op = NandOp[npc]
  BY RequestIs, Zenon
<1>7. ASSUME npc \in Synced
      PROVE  \/ toAgent' = <<Request'>> /\ toHost' = <<>>
             \/ toAgent' = <<>> /\ Answer'
  <2>1. toAgent = <<>> /\ toHost' = <<>>
    BY <1>1, <1>2, <1>7, Zenon DEF QueueInv
  <2>2. toAgent' = <<Request>> \/ toAgent' = <<>>
    BY <1>1, <2>1, AppendEmpty, Zenon
  <2>3. StreamPart'
    <3>1. Len(rcv') = 0 /\ Len(toHost') = 0 /\ 1..0 = {}
      BY <1>1, <2>1, EmptySeq, Zenon
    <3>2. Expected' \in Nat
      <4>1. Expected \in Nat
        BY LenNat, Limits, Zenon DEF Expected, NandTypeOK
      <4>2. Expected' = Expected
        BY <1>1, Zenon DEF Expected, work
      <4> QED
        BY <4>1, <4>2, Zenon
    <3>3. Len(rcv') <= Expected'
      BY <3>1, <3>2, SMT
    <3> QED
      BY <3>1, <3>3, Zenon DEF StreamPart
  <2>4. Answer'
    BY <2>1, <2>3, Zenon DEF Answer
  <2> QED
    BY <1>5, <2>1, <2>2, <2>4, Zenon
<1>8. npc \notin {"drain", "ready", "done", "stage"} /\ npc \in Synced \cup {"eccon", "sync"}
  BY <1>1, OpTable, Zenon DEF Synced, Before
<1>9. \A i \in 1..Len(toAgent') : Good(toAgent'[i])
  BY <1>1, <1>3, RequestGood, Zenon DEF QueueInv
<1>10. ASSUME nreq.cmd = "dump"
       PROVE  \A i \in 1..Len(toAgent') : toAgent'[i].op \notin {"PROGRAM_PAGE", "ERASE_BLOCK"}
  <2>1. npc \notin {"program", "erase"}
    BY <1>10, Zenon DEF NandTypeOK, Phases, Before, Loop, Resync
  <2>2. Request.op \notin {"PROGRAM_PAGE", "ERASE_BLOCK"}
    BY <1>6, <1>8, <2>1, OpTable, ZenonT(40) DEF Synced, Before
  <2> QED
    BY <1>3, <1>10, <2>2, Zenon DEF QueueInv
<1>11. ASSUME npc = "sync"
       PROVE  /\ \A i \in 1..Len(toAgent') : toAgent'[i].op \in PageOps \cup {"INFO"}
              /\ \A i \in 1..Len(toHost') : ~IsReply(toHost'[i], "FEATURE_SET")
              /\ \A i \in 1..Len(toAgent') : toAgent'[i].op = "INFO" => i = Len(toAgent')
              /\ \A i \in 1..Len(toHost') : ~IsReply(toHost'[i], "INFO")
  <2>1. /\ \A i \in 1..Len(toAgent) : toAgent[i].op \in PageOps \cup {"INFO"}
        /\ \A i \in 1..Len(toHost) : ~IsReply(toHost[i], "FEATURE_SET")
        /\ \A i \in 1..Len(toAgent) : toAgent[i].op # "INFO"
        /\ \A i \in 1..Len(toHost) : ~IsReply(toHost[i], "INFO")
    BY <1>1, <1>11, Zenon DEF QueueInv, Resync
  <2>2. Request.op = "INFO"
    BY <1>6, <1>11, OpTable, Zenon
  <2>3. \A i \in 1..Len(toHost') : ~IsReply(toHost'[i], "FEATURE_SET") /\ ~IsReply(toHost'[i], "INFO")
    BY <1>2, <2>1, Zenon DEF Part
  <2> QED
    BY <1>3, <2>1, <2>2, <2>3, Zenon
<1>12. QueueInv'
  BY <1>1, <1>5, <1>7, <1>8, <1>9, <1>10, <1>11, Zenon DEF QueueInv, Resync
<1> QED
  BY <1>1, <1>4, <1>12, FileSame, Zenon

(***************************************************************************)
(* The host gives a request up.                                            *)
(***************************************************************************)
LEMMA PhaseOf ==
    ASSUME NandTypeOK
    PROVE  /\ npc \in (Before \ {"info"}) \cup Resync \cup {"eccoff", "data", "eccon", "sidecar"} =>
                nreq.cmd = "dump"
           /\ npc \in {"pages", "stat"} => nreq.cmd \in {"dump", "scan"}
           /\ npc = "info" => nreq.cmd \in {"dump", "scan", "program", "erase"}
           /\ npc \in {"stage", "program"} => nreq.cmd = "program"
           /\ npc = "erase" => nreq.cmd = "erase"
           /\ npc \in {"flash", "crc"} => nreq.cmd = "read"
           /\ nreq.cmd \in {"dump", "scan", "program", "erase", "read"}
<1>1. npc \in Phases(nreq.cmd) /\ nreq \in NandRequests
  BY Zenon DEF NandTypeOK
<1>2. nreq.cmd \in {"dump", "scan", "program", "erase", "read"}
  BY <1>1, NandAssumption, Zenon
<1> QED
  BY <1>1, <1>2, SMT DEF Phases, Before, Loop, Resync

LEMMA PhaseIn ==
    /\ \A c : "failed" \in Phases(c) /\ "done" \in Phases(c)
    /\ Before \cup Loop \cup {"eccoff", "eccon", "sidecar"} \subseteq Phases("dump")
    /\ {"pages", "stat"} \subseteq Phases("scan")
    /\ {"stage", "program"} \subseteq Phases("program")
    /\ "erase" \in Phases("erase") /\ "crc" \in Phases("read")
<1>1. \A c : "failed" \in Phases(c) /\ "done" \in Phases(c)
  BY SMT DEF Phases
<1>2. Phases("dump") = Before \cup Loop \cup {"eccoff", "eccon", "sidecar", "done", "failed"}
  BY SMT DEF Phases
<1>3. {"pages", "stat"} \subseteq Phases("scan")
  BY SMT DEF Phases
<1>4. {"stage", "program"} \subseteq Phases("program")
  BY SMT DEF Phases
<1>5. "erase" \in Phases("erase") /\ "crc" \in Phases("read")
  BY SMT DEF Phases
<1> QED
  BY <1>1, <1>2, <1>3, <1>4, <1>5, Zenon

\* In a batch, nothing but the batch is on the line.
LEMMA BatchOnly ==
    ASSUME NandTypeOK, QueueInv, sent, npc \in {"pages", "stat", "data"}
    PROVE  /\ \A i \in 1..Len(toAgent) : toAgent[i].op \in PageOps
           /\ \A i \in 1..Len(toHost) :
                ~IsReply(toHost[i], "FEATURE_SET") /\ ~IsReply(toHost[i], "INFO")
<1>1. npc \in Synced
  BY Zenon DEF Synced
<1>2. CASE toAgent = <<Request>> /\ toHost = <<>>
  <2>1. Request.op \in PageOps
    BY RequestIs, OpTable, ZenonT(40) DEF PageOps
  <2>2. \A i \in 1..Len(<<Request>>) : <<Request>>[i].op \in PageOps
    <3>1. PICK q : q = Request
      OBVIOUS
    <3>2. Len(<<q>>) = 1 /\ <<q>>[1] = q /\ 1..1 = {1}
      BY SMT
    <3>3. \A i \in 1..Len(<<q>>) : <<q>>[i].op \in PageOps
      BY <2>1, <3>1, <3>2, Zenon
    <3> QED
      BY <3>1, <3>3, Zenon
  <2> QED
    BY <1>2, <2>2, EmptySeq, Zenon
<1>3. CASE toAgent = <<>> /\ Answer
  <2>1. CASE npc = "pages"
    <3>1. npc \in Calls /\ NandOp[npc] = "READ_PAGES"
      BY <2>1, OpTable, Zenon
    <3>2. PICK x : (toHost = <<>> \/ toHost = <<x>>) /\ x = Reply("READ_PAGES", val)
      BY <1>3, <3>1, Zenon DEF Answer
    <3>3. ~IsReply(x, "FEATURE_SET") /\ ~IsReply(x, "INFO")
      BY <3>2, SMT DEF IsReply, Reply
    <3>4. Len(<<x>>) = 1 /\ <<x>>[1] = x /\ 1..1 = {1}
      BY SMT
    <3> QED
      BY <1>3, <3>2, <3>3, <3>4, EmptySeq, Zenon
  <2>2. CASE npc # "pages"
    <3>1. StreamPart
      BY <1>3, <2>2, Zenon DEF Answer, Streams
    <3>2. ~IsReply(Ack, "FEATURE_SET") /\ ~IsReply(Ack, "INFO")
      BY SMT DEF IsReply, Ack
    <3>3. \A k, v : ~IsReply(DataPacket(k, v), "FEATURE_SET") /\ ~IsReply(DataPacket(k, v), "INFO")
      BY SMT DEF IsReply, DataPacket
    <3>4. \A i \in 1..Len(toHost) :
            ~IsReply(toHost[i], "FEATURE_SET") /\ ~IsReply(toHost[i], "INFO")
      <4> TAKE i \in 1..Len(toHost)
      <4>1. toHost[i] = Ack \/ \E k \in 1..Expected : toHost[i] = DataPacket(k - 1, Sent(k))
        BY <3>1, Zenon DEF StreamPart
      <4> QED
        BY <3>2, <3>3, <4>1, Zenon
    <3> QED
      BY <1>3, <3>4, EmptySeq, Zenon
  <2> QED
    BY <2>1, <2>2, Zenon
<1> QED
  BY <1>1, <1>2, <1>3, Zenon DEF QueueInv

\* Where a failure leads.
LEMMA FailTo ==
    ASSUME NandTypeOK, Fail, npc \in DOMAIN NandOp
    PROVE  /\ ~sent'
           /\ \/ npc \in {"pages", "stat", "data"} /\ nreq.cmd = "dump" /\ npc' = "drain"
              \/ npc = "sync" /\ npc' = "ready"
              \/ npc = "eccon" /\ npc' = "sidecar"
              \/ toggled /\ npc \in Guarded /\ npc' = "eccon"
              \/ npc' = "failed"
<1>1. CASE Leave
  BY <1>1, Zenon DEF Leave, Turn
<1>2. CASE ~Leave
  BY <1>2, Zenon DEF Fail, Turn
<1> QED
  BY <1>1, <1>2, Zenon

\* Nothing of what a dump or a scan has depends on where it goes next.
LEMMA FileMoves ==
    ASSUME FileInv, UNCHANGED <<nreq, page, recs, records, b0, saved, sidecar, rcv>>, UNCHANGED agent,
           ~sidecar.there,
           npc' \notin Synced \cup Before \cup {"stage", "sync", "done", "program", "eccoff", "stat", "data"},
           npc' \in Loop => npc \in Loop
    PROVE  FileInv'
<1>1. Raw' = Raw /\ \A p, e : Reads(p, e)' = Reads(p, e)
  BY Zenon DEF Raw, toggled, Reads, agent
<1>2. npc' \notin Before /\ npc' \notin {"status", "eccoff", "stat", "data", "program"}
      /\ npc' \notin Before \cup {"eccoff"}
  BY Zenon DEF Before
<1> HIDE DEF Before, Loop, Raw, Reads
<1> QED
  BY <1>1, <1>2, SMTT(30) DEF FileInv, agent

\* The phases without an exchange allow anything on the line but, in resync,
\* what is not of a batch.
LEMMA QueueMoves ==
    ASSUME QueueInv, nreq' = nreq, ~sent', toAgent' = toAgent, npc' \notin Synced,
           npc' \notin {"stage", "sync", "done"},
           npc' \in Resync =>
              /\ \A i \in 1..Len(toAgent) : toAgent[i].op \in PageOps \cup {"INFO"}
              /\ \A i \in 1..Len(toHost') : ~IsReply(toHost'[i], "FEATURE_SET")
              /\ npc' = "drain" =>
                   /\ \A i \in 1..Len(toAgent) : toAgent[i].op # "INFO"
                   /\ \A i \in 1..Len(toHost') : ~IsReply(toHost'[i], "INFO")
    PROVE  QueueInv'
<1>1. \A i \in 1..Len(toAgent') : Good(toAgent'[i])
  BY Zenon DEF QueueInv
<1>2. nreq'.cmd = "dump" =>
        \A i \in 1..Len(toAgent') : toAgent'[i].op \notin {"PROGRAM_PAGE", "ERASE_BLOCK"}
  BY Zenon DEF QueueInv
<1>3. npc' \notin Synced \cup {"stage"} /\ npc' # "sync" /\ npc' # "done"
  BY Zenon
<1>4. npc' \in Resync =>
        /\ \A i \in 1..Len(toAgent') : toAgent'[i].op \in PageOps \cup {"INFO"}
        /\ \A i \in 1..Len(toHost') : ~IsReply(toHost'[i], "FEATURE_SET")
  BY Zenon
<1>5. npc' = "drain" =>
        /\ \A i \in 1..Len(toAgent') : toAgent'[i].op # "INFO"
        /\ \A i \in 1..Len(toHost') : ~IsReply(toHost'[i], "INFO")
  BY Zenon DEF Resync
<1> HIDE DEF Good, IsReply, Resync, Synced
<1> QED
  BY <1>1, <1>2, <1>3, <1>4, <1>5, Zenon DEF QueueInv

\* A request that failed, with the packet that made it fail, if any, taken.
LEMMA FailKeeps ==
    ASSUME NandTypeOK, QueueInv, FileInv, NandSuccess, sent, Fail, toAgent' = toAgent,
           toHost' = toHost \/ (toHost # <<>> /\ toHost' = Tail(toHost)), UNCHANGED agent
    PROVE  NandTypeOK' /\ QueueInv' /\ FileInv' /\ NandSuccess'
<1>1. npc \in DOMAIN NandOp
  BY Zenon DEF QueueInv
<1>2. UNCHANGED <<nreq, page, recs, records, b0, saved, sidecar, rcv>>
  BY Zenon DEF Fail
<1>3. /\ ~sent'
      /\ \/ npc \in {"pages", "stat", "data"} /\ nreq.cmd = "dump" /\ npc' = "drain"
         \/ npc = "sync" /\ npc' = "ready"
         \/ npc = "eccon" /\ npc' = "sidecar"
         \/ toggled /\ npc \in Guarded /\ npc' = "eccon"
         \/ npc' = "failed"
  BY <1>1, FailTo, Zenon
<1>4. sent' = FALSE
  BY Zenon DEF Fail, Turn, Leave
<1>5. ASeq(toHost') /\ Part(toHost', toHost)
  <2>1. ASeq(toHost)
    BY Zenon DEF NandTypeOK
  <2>2. Part(toHost, toHost)
    BY Zenon DEF Part
  <2> QED
    BY <2>1, <2>2, TailSeq, Zenon
<1>6. npc' \in Phases(nreq.cmd)
  <2>1. npc \in {"sync", "eccon"} => nreq.cmd = "dump"
    BY PhaseOf, Zenon DEF Resync
  <2>2. toggled => nreq.cmd = "dump"
    BY Zenon DEF toggled
  <2> QED
    BY <1>3, <2>1, <2>2, PhaseIn, Zenon DEF Loop, Resync
<1>7. NandTypeOK'
  BY <1>2, <1>4, <1>5, <1>6, Zenon DEF NandTypeOK, agent
<1>8. npc' \notin Synced \cup Before \cup {"stage", "sync", "done", "program", "eccoff", "stat", "data"}
  BY <1>3, Zenon DEF Synced, Before
<1>9. npc' \in Loop => npc \in Loop
  BY <1>3, <1>8, Zenon DEF Loop, Resync
<1>10. FileInv' /\ NandSuccess'
  <2>1. ~sidecar.there
    BY <1>1, OpTable, Zenon DEF FileInv, NandEnded, Synced, Before
  <2>2. FileInv'
    BY <1>2, <1>8, <1>9, <2>1, FileMoves, Zenon
  <2>3. NandSuccess'
    BY <1>8, Zenon DEF NandSuccess
  <2> QED
    BY <2>2, <2>3, Zenon
<1>11. ASSUME npc' \in Resync
       PROVE  /\ \A i \in 1..Len(toAgent) : toAgent[i].op \in PageOps \cup {"INFO"}
              /\ \A i \in 1..Len(toHost') : ~IsReply(toHost'[i], "FEATURE_SET")
              /\ npc' = "drain" =>
                   /\ \A i \in 1..Len(toAgent) : toAgent[i].op # "INFO"
                   /\ \A i \in 1..Len(toHost') : ~IsReply(toHost'[i], "INFO")
  <2>1. CASE npc' = "drain"
    <3>1. npc \in {"pages", "stat", "data"}
      BY <1>3, <2>1, Zenon
    <3>2. /\ \A i \in 1..Len(toAgent) : toAgent[i].op \in PageOps
          /\ \A i \in 1..Len(toHost) :
               ~IsReply(toHost[i], "FEATURE_SET") /\ ~IsReply(toHost[i], "INFO")
      BY <3>1, BatchOnly, Zenon
    <3>3. \A i \in 1..Len(toHost') :
            ~IsReply(toHost'[i], "FEATURE_SET") /\ ~IsReply(toHost'[i], "INFO")
      BY <1>5, <3>2, Zenon DEF Part
    <3>4. "INFO" \notin PageOps
      BY Zenon DEF PageOps
    <3> QED
      BY <3>2, <3>3, <3>4, Zenon
  <2>2. CASE npc' = "ready"
    <3>1. npc \in Resync
      BY <1>3, <2>2, Zenon DEF Resync
    <3>2. /\ \A i \in 1..Len(toAgent) : toAgent[i].op \in PageOps \cup {"INFO"}
          /\ \A i \in 1..Len(toHost) : ~IsReply(toHost[i], "FEATURE_SET")
      BY <3>1, Zenon DEF QueueInv
    <3>3. \A i \in 1..Len(toHost') : ~IsReply(toHost'[i], "FEATURE_SET")
      BY <1>5, <3>2, Zenon DEF Part
    <3> QED
      BY <2>2, <3>2, <3>3, Zenon
  <2> QED
    BY <1>8, <1>11, <2>1, <2>2, Zenon DEF Resync
<1>12. QueueInv'
  <2>1. npc' \notin Synced /\ npc' \notin {"stage", "sync", "done"} /\ nreq' = nreq
    BY <1>2, <1>8, Zenon
  <2> QED
    BY <1>3, <1>11, <2>1, QueueMoves, Zenon
<1> QED
  BY <1>7, <1>10, <1>12, Zenon

LEMMA GiveUpKeeps ==
    ASSUME NandTypeOK, QueueInv, FileInv, NandSuccess, Timeout \/ CallRefused \/ ReadFails
    PROVE  NandTypeOK' /\ QueueInv' /\ FileInv' /\ NandSuccess'
<1>1. /\ sent /\ Fail /\ toAgent' = toAgent /\ UNCHANGED agent
      /\ toHost' = toHost \/ (toHost # <<>> /\ toHost' = Tail(toHost))
  <2>1. CASE Timeout
    BY <2>1, Zenon DEF Timeout, wires
  <2>2. CASE CallRefused
    BY <2>2, Zenon DEF CallRefused, Take
  <2>3. CASE ReadFails
    BY <2>3, Zenon DEF ReadFails, Take
  <2> QED
    BY <2>1, <2>2, <2>3, Zenon
<1> QED
  BY <1>1, FailKeeps, Zenon

(***************************************************************************)
(* The host takes an answer.                                               *)
(***************************************************************************)
\* In a phase in step, the answer is to the phase's request and is the last
\* thing on the line.
LEMMA AnswerIs ==
    ASSUME NandTypeOK, QueueInv, NEW p, AnswerTo(p), p \in Synced, p \in Calls
    PROVE  /\ npc = p /\ Says(val) /\ toAgent' = <<>> /\ toHost' = <<>>
           /\ UNCHANGED agent /\ UNCHANGED <<rcv, nreq>>
<1>1. /\ npc = p /\ sent /\ toHost # <<>> /\ toHost' = Tail(toHost) /\ toAgent' = toAgent
      /\ UNCHANGED agent /\ UNCHANGED <<rcv, nreq>>
  BY Zenon DEF AnswerTo, Take
<1>2. toAgent = <<>> /\ Answer
  BY <1>1, Zenon DEF QueueInv
<1>3. toHost = <<Reply(NandOp[npc], val)>> /\ Says(val)
  BY <1>1, <1>2, Zenon DEF Answer
<1>4. PICK x : toHost = <<x>>
  BY <1>3, Zenon
<1>5. Tail(toHost) = <<>>
  BY <1>4, SingleSeq, Zenon
<1> QED
  BY <1>1, <1>2, <1>3, <1>5, Zenon

\* A phase in step begins.
LEMMA QuietStep ==
    ASSUME NandTypeOK, sent' = FALSE, toAgent' = <<>>, toHost' = <<>>, rcv' = rcv, nreq' = nreq,
           npc' \in Phases(nreq.cmd), b0' \in BOOLEAN, page' \in Nat,
           ASeq(recs'), ASeq(records'), ASeq(saved'), UNCHANGED agent
    PROVE  QueueInv' /\ NandTypeOK'
<1>1. QueueInv'
  BY QuietQueue, Zenon
<1>2. NandTypeOK'
  BY EmptySeq, Zenon DEF NandTypeOK, agent
<1> QED
  BY <1>1, <1>2, Zenon

LEMMA ChipAnsweredKeeps ==
    ASSUME NandTypeOK, QueueInv, FileInv, NandSuccess, ChipAnswered
    PROVE  NandTypeOK' /\ QueueInv' /\ FileInv' /\ NandSuccess'
<1>1. AnswerTo("info") /\ "info" \in Synced /\ "info" \in Calls
  BY OpTable, Zenon DEF ChipAnswered, Synced, Before
<1>2. /\ npc = "info" /\ toAgent' = <<>> /\ toHost' = <<>> /\ UNCHANGED agent
      /\ UNCHANGED <<rcv, nreq>>
  BY <1>1, AnswerIs, Zenon
<1>3. UNCHANGED <<page, trial, recs, records, b0, saved, sidecar, error>> /\ sent' = FALSE
  BY Zenon DEF ChipAnswered, Turn
<1>4. \/ nreq.cmd = "dump" /\ npc' = "protect"
      \/ nreq.cmd = "scan" /\ npc' = "pages"
      \/ nreq.cmd = "program" /\ npc' = "stage"
      \/ nreq.cmd = "erase" /\ npc' = "erase"
  <2>1. nreq.cmd \in {"dump", "scan", "program", "erase"}
    BY <1>2, PhaseOf, Zenon
  <2>2. npc' = [dump |-> "protect", scan |-> "pages", program |-> "stage", erase |-> "erase"][nreq.cmd]
    BY Zenon DEF ChipAnswered, Turn
  <2> QED
    BY <2>1, <2>2, SMT
<1>5. npc' \in Phases(nreq.cmd)
  BY <1>4, PhaseIn, Zenon DEF Before
<1>6. NandTypeOK' /\ QueueInv'
  <2>1. /\ b0' \in BOOLEAN /\ page' \in Nat
        /\ ASeq(recs') /\ ASeq(records') /\ ASeq(saved')
    BY <1>3, Zenon DEF NandTypeOK
  <2> QED
    BY <1>2, <1>3, <1>5, <2>1, QuietStep, Zenon
<1>7. FileInv' /\ NandSuccess'
  <2>1. Raw' = Raw /\ \A p, e : Reads(p, e)' = Reads(p, e)
    BY <1>2, <1>3, Zenon DEF Raw, toggled, Reads, agent
  <2>2. page = nreq.start /\ ecc = nreq.ecc
    BY <1>2, Zenon DEF FileInv, Before
  <2>3. page < nreq.start + nreq.count
    <3>1. nreq.start \in Nat /\ nreq.count \in Nat \ {0}
      BY NandAssumption, Zenon DEF NandTypeOK
    <3> QED
      BY <2>2, <3>1, SMT
  <2>4. npc' \notin {"status", "eccoff", "stat", "data", "program", "done", "failed"}
    BY <1>4, Zenon
  <2>5. npc' \in Loop => nreq.cmd = "scan"
    BY <1>4, Zenon DEF Loop, Resync
  <2>6. ~sidecar.there
    BY <1>2, Zenon DEF FileInv, NandEnded
  <2> HIDE DEF Raw, Reads, Before, Loop
  <2>7. FileInv'
    BY <1>2, <1>3, <2>1, <2>2, <2>3, <2>4, <2>5, <2>6, SMT DEF FileInv, agent
  <2> QED
    BY <2>4, <2>7, Zenon DEF NandSuccess
<1> QED
  BY <1>6, <1>7, Zenon

LEMMA FeatureAnsweredKeeps ==
    ASSUME NandTypeOK, QueueInv, FileInv, NandSuccess, FeatureAnswered
    PROVE  NandTypeOK' /\ QueueInv' /\ FileInv' /\ NandSuccess'
<1>1. PICK p \in {"protect", "config", "status"} : AnswerTo(p)
  BY Zenon DEF FeatureAnswered
<1>2. p \in Synced /\ p \in Calls
  BY OpTable, Zenon DEF Synced, Before
<1>3. /\ npc = p /\ toAgent' = <<>> /\ toHost' = <<>> /\ UNCHANGED agent
      /\ UNCHANGED <<rcv, nreq>> /\ Says(val)
  BY <1>1, <1>2, AnswerIs, Zenon
<1>4. UNCHANGED <<page, trial, recs, records, saved, sidecar, error>> /\ sent' = FALSE
  BY Zenon DEF FeatureAnswered, Turn
<1>5. \/ npc = "protect" /\ npc' = "config" /\ b0' = b0
      \/ npc = "config" /\ npc' = "status" /\ b0' = nreq.ecc
      \/ npc = "status" /\ toggled /\ npc' = "eccoff" /\ b0' = b0
      \/ npc = "status" /\ ~toggled /\ npc' = "pages" /\ b0' = b0
  <2>1. npc = "config" => val = nreq.ecc
    BY <1>3, Zenon DEF Says
  <2> HIDE DEF val, toggled
  <2> QED
    BY <2>1, Zenon DEF FeatureAnswered, AnswerTo, Turn
<1>6. nreq.cmd = "dump"
  BY <1>1, <1>3, PhaseOf, Zenon DEF Before
<1>7. nreq.start \in Nat /\ nreq.count \in Nat \ {0} /\ nreq.ecc \in BOOLEAN
  BY NandAssumption, Zenon DEF NandTypeOK
<1>8. b0 \in BOOLEAN /\ b0' \in BOOLEAN
  BY <1>5, <1>7, Zenon DEF NandTypeOK
<1>9. NandTypeOK' /\ QueueInv'
  <2>1. /\ page' \in Nat /\ ASeq(recs') /\ ASeq(records') /\ ASeq(saved')
    BY <1>4, Zenon DEF NandTypeOK
  <2>2. npc' \in Phases(nreq.cmd)
    BY <1>5, <1>6, PhaseIn, Zenon DEF Before, Loop
  <2> QED
    BY <1>3, <1>4, <1>8, <2>1, <2>2, QuietStep, Zenon
<1>10. FileInv' /\ NandSuccess'
  <2>1. page = nreq.start /\ ecc = nreq.ecc /\ page = nreq.start + Len(saved) /\ Len(records) = Len(saved)
    BY <1>1, <1>3, <1>6, Zenon DEF FileInv, Before
  <2>2. page < nreq.start + nreq.count
    BY <1>7, <2>1, SMT
  <2>3. Len(saved) = 0 /\ Len(saved') = 0 /\ 1..0 = {}
    <3>1. Len(saved) \in Nat
      BY LenNat, Zenon DEF NandTypeOK
    <3>2. Len(saved) = 0
      BY <1>7, <2>1, <3>1, SMT
    <3> QED
      BY <1>4, <3>2, EmptySeq, Zenon
  <2>4. npc = "status" => b0 = nreq.ecc
    BY <1>6, Zenon DEF FileInv
  <2>5. npc' \notin {"stat", "data", "program", "done", "failed"}
    BY <1>5, Zenon
  <2>6. npc' = "eccoff" => toggled'
    <3>1. npc' = "eccoff" => toggled /\ b0' = b0 /\ nreq' = nreq
      BY <1>3, <1>5, Zenon
    <3>2. ASSUME b0' = b0, nreq' = nreq PROVE toggled <=> toggled'
      BY <3>2, Zenon DEF toggled
    <3> QED
      BY <3>1, <3>2, Zenon
  <2>7. npc' \in Loop => ecc = Raw'
    <3>1. npc' \in Loop => npc = "status" /\ ~toggled /\ b0' = b0
      BY <1>5, Zenon DEF Loop, Resync
    <3>2. ~toggled /\ b0' = b0 => Raw' = b0
      BY <1>3, <1>8, Zenon DEF Raw, toggled
    <3> QED
      BY <2>1, <2>4, <3>1, <3>2, Zenon
  <2>8. ~sidecar.there
    BY <1>1, <1>3, Zenon DEF FileInv, NandEnded
  <2>9. npc' \in {"status", "eccoff"} => b0' = nreq.ecc
    BY <1>5, <2>4, Zenon
  <2> HIDE DEF Raw, Reads, Before, Loop, toggled
  <2>10. FileInv'
    BY <1>3, <1>4, <1>6, <2>1, <2>2, <2>3, <2>5, <2>6, <2>7, <2>8, <2>9, SMT DEF FileInv, agent
  <2> QED
    BY <2>5, <2>10, Zenon DEF NandSuccess
<1> QED
  BY <1>9, <1>10, Zenon

LEMMA EccOffAnsweredKeeps ==
    ASSUME NandTypeOK, QueueInv, FileInv, NandSuccess, EccOffAnswered
    PROVE  NandTypeOK' /\ QueueInv' /\ FileInv' /\ NandSuccess'
<1>1. AnswerTo("eccoff") /\ "eccoff" \in Synced /\ "eccoff" \in Calls
  BY OpTable, Zenon DEF EccOffAnswered, Synced
<1>2. /\ npc = "eccoff" /\ toAgent' = <<>> /\ toHost' = <<>> /\ UNCHANGED agent
      /\ UNCHANGED <<rcv, nreq>> /\ Says(val)
  BY <1>1, AnswerIs, Zenon
<1>3. UNCHANGED <<page, trial, recs, records, b0, saved, sidecar>> /\ sent' = FALSE
  BY Zenon DEF EccOffAnswered, Turn
<1>4. npc' = "eccon" \/ (npc' = "pages" /\ ~val)
  BY Zenon DEF EccOffAnswered, Turn
<1>5. nreq.cmd = "dump"
  BY <1>2, PhaseOf, Zenon
<1>6. NandTypeOK' /\ QueueInv'
  <2>1. /\ b0' \in BOOLEAN /\ page' \in Nat /\ ASeq(recs') /\ ASeq(records') /\ ASeq(saved')
    BY <1>3, Zenon DEF NandTypeOK
  <2>2. npc' \in Phases(nreq.cmd)
    BY <1>4, <1>5, PhaseIn, Zenon DEF Loop
  <2> QED
    BY <1>2, <1>3, <2>1, <2>2, QuietStep, Zenon
<1>7. FileInv' /\ NandSuccess'
  <2>1. Raw' = Raw /\ \A p, e : Reads(p, e)' = Reads(p, e)
    BY <1>2, <1>3, Zenon DEF Raw, toggled, Reads, agent
  <2>2. page = nreq.start
    BY <1>2, Zenon DEF FileInv
  <2>3. page < nreq.start + nreq.count
    <3>1. nreq.start \in Nat /\ nreq.count \in Nat \ {0}
      BY NandAssumption, Zenon DEF NandTypeOK
    <3> QED
      BY <2>2, <3>1, SMT
  <2>4. npc' \notin Before \cup {"status", "eccoff", "stat", "data", "program", "done", "failed"}
    BY <1>4, Zenon DEF Before
  <2>5. npc' \in Loop => ecc = Raw
    <3>1. npc' \in Loop => ~val
      BY <1>4, Zenon DEF Loop, Resync
    <3>2. ecc \in BOOLEAN /\ val = ecc /\ toggled
      BY <1>2, Zenon DEF NandTypeOK, Says, FileInv
    <3>3. Raw = FALSE
      BY <3>2, Zenon DEF Raw
    <3>4. npc' \in Loop => ecc = FALSE
      BY <3>1, <3>2, Zenon
    <3> QED
      BY <3>3, <3>4, Zenon
  <2>6. ~sidecar.there
    BY <1>2, Zenon DEF FileInv, NandEnded
  <2> HIDE DEF Raw, Reads, Before, Loop, toggled
  <2>7. FileInv'
    BY <1>2, <1>3, <1>5, <2>1, <2>3, <2>4, <2>5, <2>6, SMT DEF FileInv, agent
  <2> QED
    BY <2>4, <2>7, Zenon DEF NandSuccess
<1> QED
  BY <1>6, <1>7, Zenon

LEMMA EccOnAnsweredKeeps ==
    ASSUME NandTypeOK, QueueInv, FileInv, NandSuccess, EccOnAnswered
    PROVE  NandTypeOK' /\ QueueInv' /\ FileInv' /\ NandSuccess'
<1>1. /\ npc = "eccon" /\ toHost # <<>> /\ toHost' = Tail(toHost) /\ toAgent' = toAgent
      /\ UNCHANGED agent /\ UNCHANGED <<rcv, nreq>>
      /\ UNCHANGED <<page, recs, records, b0, saved, sidecar>> /\ sent' = FALSE
      /\ npc' \in {"failed", "sidecar"}
  BY Zenon DEF EccOnAnswered, AnswerTo, Take, Turn
<1>2. nreq.cmd = "dump"
  BY <1>1, PhaseOf, Zenon
<1>3. npc' \notin Synced /\ npc' \notin Resync /\ npc' \notin Before /\ npc' \notin Loop
  BY <1>1, Zenon DEF Synced, Resync, Before, Loop
<1>4. NandTypeOK'
  <2>1. ASeq(toHost')
    BY <1>1, TailSeq, Zenon DEF NandTypeOK
  <2>2. npc' \in Phases(nreq.cmd)
    BY <1>1, <1>2, PhaseIn, Zenon
  <2> QED
    BY <1>1, <2>1, <2>2, Zenon DEF NandTypeOK, agent
<1>5. QueueInv'
  BY <1>1, <1>3, QueueMoves, Zenon
<1>6. ~sidecar.there
  BY <1>1, Zenon DEF FileInv, NandEnded
<1>7. FileInv'
  <2>1. npc' \notin Synced \cup Before \cup {"stage", "sync", "done", "program", "eccoff", "stat", "data"}
    BY <1>1, <1>3, Zenon
  <2>2. UNCHANGED <<nreq, page, recs, records, b0, saved, sidecar, rcv>>
    BY <1>1, Zenon
  <2> QED
    BY <1>1, <1>3, <1>6, <2>1, <2>2, FileMoves, Zenon
<1>8. NandSuccess'
  BY <1>1, Zenon DEF NandSuccess
<1> QED
  BY <1>4, <1>5, <1>7, <1>8, Zenon

LEMMA PagesAnsweredKeeps ==
    ASSUME NandTypeOK, QueueInv, FileInv, NandSuccess, PagesAnswered
    PROVE  NandTypeOK' /\ QueueInv' /\ FileInv' /\ NandSuccess'
<1>1. AnswerTo("pages") /\ "pages" \in Synced /\ "pages" \in Calls
  BY OpTable, Zenon DEF PagesAnswered, Synced
<1>2. /\ npc = "pages" /\ toAgent' = <<>> /\ toHost' = <<>> /\ UNCHANGED agent
      /\ UNCHANGED <<rcv, nreq>> /\ Says(val)
  BY <1>1, AnswerIs, Zenon
<1>3. UNCHANGED <<page, trial, records, b0, saved, sidecar>> /\ sent' = FALSE /\ npc' = "stat"
  BY Zenon DEF PagesAnswered, Turn
<1>4. PICK n : n = val
  OBVIOUS
<1>5. Loaded(n) /\ recs' = [i \in 1..n |-> FALSE]
  BY <1>2, <1>4, Zenon DEF Says, PagesAnswered
<1>6. n \in Nat
  <2>1. n \in 1..BatchSize /\ BatchSize \in Nat
    BY <1>5, Limits, Zenon DEF Loaded
  <2> QED
    BY <2>1, SMT
<1>7. ASeq(recs') /\ Len(recs') = n
  <2>1. recs' = [i \in 1..n |-> recs'[i]]
    BY <1>5, Zenon
  <2> QED
    BY <1>6, <2>1, FunctionSeq, Zenon
<1>8. nreq.cmd \in {"dump", "scan"}
  BY <1>2, PhaseOf, Zenon
<1>9. NandTypeOK' /\ QueueInv'
  <2>1. /\ b0' \in BOOLEAN /\ page' \in Nat /\ ASeq(records') /\ ASeq(saved')
    BY <1>3, Zenon DEF NandTypeOK
  <2>2. npc' \in Phases(nreq.cmd)
    BY <1>3, <1>8, PhaseIn, Zenon DEF Loop
  <2> QED
    BY <1>2, <1>3, <1>7, <2>1, <2>2, QuietStep, Zenon
<1>10. Loaded(n)'
  BY <1>2, <1>3, <1>5, SMT DEF Loaded, BatchSize, Least, Raw, toggled, Reads, agent
<1>11. FileInv' /\ NandSuccess'
  <2>1. Raw' = Raw /\ \A p, e : Reads(p, e)' = Reads(p, e)
    BY <1>2, <1>3, Zenon DEF Raw, toggled, Reads, agent
  <2>2. npc \in Loop /\ npc' \in Loop /\ npc' \notin Before
    BY <1>2, <1>3, Zenon DEF Loop, Before
  <2>3. ~sidecar.there
    BY <1>2, Zenon DEF FileInv, NandEnded
  <2>4. Loaded(Len(recs))'
    BY <1>7, <1>10, Zenon DEF Loaded
  <2> HIDE DEF Raw, Reads, Before, Loop, toggled, Loaded
  <2>5. FileInv'
    BY <1>2, <1>3, <2>1, <2>2, <2>3, <2>4, SMT DEF FileInv, agent
  <2> QED
    BY <1>3, <2>5, Zenon DEF NandSuccess
<1> QED
  BY <1>9, <1>11, Zenon

LEMMA ChangeAnsweredKeeps ==
    ASSUME NandTypeOK, QueueInv, FileInv, NandSuccess, ChangeAnswered
    PROVE  NandTypeOK' /\ QueueInv' /\ FileInv' /\ NandSuccess'
<1>1. PICK p \in {"program", "erase"} : AnswerTo(p)
  BY Zenon DEF ChangeAnswered
<1>2. p \in Synced /\ p \in Calls
  BY OpTable, Zenon DEF Synced
<1>3. /\ npc = p /\ toAgent' = <<>> /\ toHost' = <<>> /\ UNCHANGED agent
      /\ UNCHANGED <<rcv, nreq>> /\ Says(val)
  BY <1>1, <1>2, AnswerIs, Zenon
<1>4. /\ UNCHANGED <<page, recs, records, b0, saved, sidecar>> /\ sent' = FALSE
      /\ (npc' = "done" /\ val = 0) \/ npc' = "failed"
  BY Zenon DEF ChangeAnswered, Turn
<1>5. NandTypeOK' /\ QueueInv'
  <2>1. /\ b0' \in BOOLEAN /\ page' \in Nat /\ ASeq(recs') /\ ASeq(records') /\ ASeq(saved')
    BY <1>4, Zenon DEF NandTypeOK
  <2>2. npc' \in Phases(nreq.cmd)
    BY <1>4, PhaseIn, Zenon
  <2> QED
    BY <1>3, <1>4, <2>1, <2>2, QuietStep, Zenon
<1>6. /\ npc = "program" => nreq.cmd = "program"
      /\ npc = "erase" => nreq.cmd = "erase"
  BY PhaseOf, Zenon
<1>7. NandSuccess'
  <2>1. npc' = "done" => /\ npc = "program" => mem[nreq.start] = "new"
                         /\ npc = "erase" => mem[nreq.start] = "erased"
    <3>1. npc' = "done" => val = 0
      BY <1>4, Zenon
    <3> QED
      BY <1>3, <3>1, Zenon DEF Says
  <2>2. nreq' = nreq /\ mem' = mem
    BY <1>3, Zenon DEF agent
  <2>3. nreq.cmd \notin {"read", "scan"} /\ (nreq.cmd = "program" => npc = "program")
        /\ (nreq.cmd = "erase" => npc = "erase")
    BY <1>1, <1>3, <1>6, Zenon
  <2> QED
    BY <2>1, <2>2, <2>3, Zenon DEF NandSuccess
<1>8. FileInv'
  <2>1. npc' \notin Before \cup Loop \cup {"eccoff", "stat", "data", "program"}
    BY <1>4, Zenon DEF Before, Loop, Resync
  <2>2. nreq.cmd \notin {"dump", "scan"} /\ ~sidecar.there
    BY <1>1, <1>3, <1>6, Zenon DEF FileInv, NandEnded
  <2> HIDE DEF Before, Loop
  <2> QED
    BY <1>3, <1>4, <2>1, <2>2, SMT DEF FileInv
<1> QED
  BY <1>5, <1>7, <1>8, Zenon

\* write_memory puts the page in the agent's buffer.
LEMMA StageKeeps ==
    ASSUME NandTypeOK, QueueInv, FileInv, NandSuccess, Stage
    PROVE  NandTypeOK' /\ QueueInv' /\ FileInv' /\ NandSuccess'
<1>1. /\ npc = "stage" /\ sent' = FALSE /\ UNCHANGED <<rcv, nreq, page, recs, records, b0, saved, sidecar>>
      /\ UNCHANGED <<ecc, mem, stat, toAgent, toHost>>
      /\ \/ npc' = "program" /\ dma' = [dma EXCEPT ![1] = <<nreq.start, "new", FALSE>>]
         \/ npc' = "failed" /\ dma' = dma
  BY Zenon DEF Stage, Turn, command, wires
<1>2. nreq.cmd = "program"
  BY <1>1, PhaseOf, Zenon
<1>3. toAgent = <<>> /\ toHost = <<>>
  <2>1. ~sent
    BY <1>1, OpTable, Zenon DEF QueueInv, Synced, Before
  <2> QED
    BY <1>1, <2>1, Zenon DEF QueueInv
<1>4. QueueInv'
  BY <1>1, <1>3, QuietQueue, Zenon
<1>5. /\ ASeq(dma') /\ Len(dma') = Batch /\ (npc' = "program" => dma'[1][2] = "new")
  <2>1. PICK S : dma \in Seq(S)
    BY Zenon DEF NandTypeOK, ASeq
  <2>2. Len(dma) = Batch /\ Batch \in Nat \ {0}
    BY Limits, Zenon DEF NandTypeOK
  <2>3. CASE npc' = "failed" /\ dma' = dma
    BY <2>1, <2>2, <2>3, Zenon DEF ASeq
  <2>4. CASE npc' = "program" /\ dma' = [dma EXCEPT ![1] = <<nreq.start, "new", FALSE>>]
    <3>1. PICK x : x = <<nreq.start, "new", FALSE>>
      OBVIOUS
    <3>2. dma \in Seq(S \cup {x}) /\ 1 \in 1..Len(dma)
      BY <2>1, <2>2, SMT
    <3>3. dma \in [1..Batch -> S \cup {x}] /\ 1 \in 1..Batch
      BY <2>2, <3>2, SMT
    <3>4. dma' = [dma EXCEPT ![1] = x]
      BY <2>4, <3>1, Zenon
    <3>5. dma' \in [1..Batch -> S \cup {x}] /\ dma'[1] = x
      BY <3>3, <3>4, SMT
    <3>6. dma' \in Seq(S \cup {x}) /\ Len(dma') = Batch
      BY <2>2, <3>5, SMT
    <3>7. x[2] = "new"
      BY <3>1, SMT
    <3> QED
      BY <3>5, <3>6, <3>7, Zenon DEF ASeq
  <2> QED
    BY <1>1, <2>3, <2>4, Zenon
<1>6. NandTypeOK'
  <2>1. npc' \in Phases(nreq.cmd)
    BY <1>1, <1>2, PhaseIn, Zenon
  <2> QED
    BY <1>1, <1>5, <2>1, Zenon DEF NandTypeOK
<1>7. FileInv' /\ NandSuccess'
  <2>1. npc' \notin Before \cup Loop \cup {"eccoff", "stat", "data", "done"}
    BY <1>1, Zenon DEF Before, Loop, Resync
  <2>2. ~sidecar.there
    BY <1>1, Zenon DEF FileInv, NandEnded
  <2> HIDE DEF Before, Loop
  <2>3. FileInv'
    BY <1>1, <1>2, <1>5, <2>1, <2>2, SMT DEF FileInv
  <2> QED
    BY <2>1, <2>3, Zenon DEF NandSuccess
<1> QED
  BY <1>4, <1>6, <1>7, Zenon

(***************************************************************************)
(* The host has a whole stream.                                            *)
(***************************************************************************)
\* It is the stream of the phase, and the last thing on the line.
LEMMA StreamIs ==
    ASSUME NandTypeOK, QueueInv, NEW p \in Streams, ReadEnds(p)
    PROVE  /\ npc = p /\ toAgent' = <<>> /\ toHost' = <<>> /\ UNCHANGED agent
           /\ UNCHANGED <<rcv, nreq, b0, sidecar>>
           /\ Len(rcv) = Expected /\ \A i \in 1..Len(rcv) : rcv[i] = Sent(i)
<1>1. /\ npc = p /\ sent /\ toHost # <<>> /\ toHost' = Tail(toHost) /\ toAgent' = toAgent
      /\ UNCHANGED agent /\ UNCHANGED <<rcv, nreq, b0, sidecar>>
      /\ Next1.kind = "ack" /\ Len(rcv) = Expected
  BY Zenon DEF ReadEnds, Take, AllReceived
<1>2. toAgent = <<>> /\ StreamPart
  BY <1>1, Zenon DEF QueueInv, Answer, Synced, Streams
<1>3. Head(toHost) = toHost[1] /\ 1 \in 1..Len(toHost) /\ (Len(toHost) = 1 => Tail(toHost) = <<>>)
  BY <1>1, TailSeq, Zenon DEF NandTypeOK
<1>4. \A k, v : DataPacket(k, v).kind # "ack"
  BY SMT DEF DataPacket
<1>5. toHost[1].kind = "ack"
  BY <1>1, <1>3, Zenon DEF Next1
<1>6. Len(toHost) = 1
  <2>1. \/ toHost[1] = Ack /\ 1 = Len(toHost)
        \/ \E k \in 1..Expected : toHost[1] = DataPacket(k - 1, Sent(k))
    BY <1>2, <1>3, Zenon DEF StreamPart
  <2> QED
    BY <1>4, <1>5, <2>1, Zenon
<1>7. \A i \in 1..Len(rcv) : rcv[i] = Sent(i)
  BY <1>2, Zenon DEF StreamPart
<1> QED
  BY <1>1, <1>2, <1>3, <1>6, <1>7, Zenon

\* With r pages before page p and k after it, of the c from s on: where the
\* next page is, and which page each element of the two sequences is for.
Counted(p, s, c, r, k) ==
    /\ k \in Nat /\ p + k \in Nat /\ p + k <= s + c /\ p + k = s + (r + k)
    /\ \A i \in 1..(r + k) : i \in 1..r \/ \E j \in 1..k : i = r + j /\ p + j - 1 = s + i - 1

LEMMA CountedIs ==
    ASSUME NEW p \in Nat, NEW s \in Nat, NEW c \in Nat, NEW b \in Nat, NEW r \in Nat,
           NEW k \in 0..b, p = s + r, p + b <= s + c
    PROVE  Counted(p, s, c, r, k)
<1>1. k \in Nat /\ p + k \in Nat /\ p + k <= s + c /\ p + k = s + (r + k) /\ r + k \in Nat
  BY SMT
<1>2. ASSUME NEW i \in 1..(r + k), i \notin 1..r
      PROVE  i - r \in 1..k /\ i = r + (i - r) /\ p + (i - r) - 1 = s + i - 1
  BY <1>1, <1>2, SMT
<1> QED
  BY <1>1, <1>2, Zenon DEF Counted

\* Each element of the joined sequence is one of the two, for the same page.
Paged(v, t, u, p, s) ==
    /\ Len(v) = Len(t) + Len(u)
    /\ \A i \in 1..Len(v) :
         \/ i \in 1..Len(t) /\ v[i] = t[i]
         \/ \E j \in 1..Len(u) : v[i] = u[j] /\ p + j - 1 = s + i - 1

LEMMA PagedIs ==
    ASSUME NEW p, NEW s, NEW c, NEW t, NEW u, NEW v,
           Counted(p, s, c, Len(t), Len(u)), Joined(v, t, u)
    PROVE  Paged(v, t, u, p, s)
<1>1. /\ Len(v) = Len(t) + Len(u)
      /\ \A j \in 1..Len(t) : v[j] = t[j]
      /\ \A j \in 1..Len(u) : v[Len(t) + j] = u[j]
  BY Zenon DEF Joined
<1>2. ASSUME NEW i \in 1..Len(v)
      PROVE  \/ i \in 1..Len(t) /\ v[i] = t[i]
             \/ \E j \in 1..Len(u) : v[i] = u[j] /\ p + j - 1 = s + i - 1
  <2>1. i \in 1..Len(t) \/ \E j \in 1..Len(u) : i = Len(t) + j /\ p + j - 1 = s + i - 1
    BY <1>1, Zenon DEF Counted
  <2> QED
    BY <1>1, <2>1, Zenon
<1> QED
  BY <1>1, <1>2, Zenon DEF Paged

LEMMA StatReadKeeps ==
    ASSUME NandTypeOK, QueueInv, FileInv, NandSuccess, StatRead
    PROVE  NandTypeOK' /\ QueueInv' /\ FileInv' /\ NandSuccess'
<1>1. ReadEnds("stat") /\ "stat" \in Streams
  BY Zenon DEF StatRead, Streams
<1>2. /\ npc = "stat" /\ toAgent' = <<>> /\ toHost' = <<>> /\ UNCHANGED agent
      /\ UNCHANGED <<rcv, nreq, b0, sidecar>>
      /\ Len(rcv) = Expected /\ \A i \in 1..Len(rcv) : rcv[i] = Sent(i)
  BY <1>1, StreamIs, Zenon
<1>3. /\ nreq.cmd = "dump" /\ recs' = rcv /\ npc' = "data" /\ sent' = FALSE
      /\ UNCHANGED <<page, trial, records, saved, error>>
  BY Zenon DEF StatRead, Turn
<1>4. Len(recs') = Len(recs) /\ \A i \in 1..Len(recs') : recs'[i] = stat[i]
  BY <1>2, <1>3, Zenon DEF Expected, Sent
<1>5. NandTypeOK' /\ QueueInv'
  <2>1. /\ b0' \in BOOLEAN /\ page' \in Nat
        /\ ASeq(recs') /\ ASeq(records') /\ ASeq(saved')
    BY <1>2, <1>3, Zenon DEF NandTypeOK
  <2>2. npc' \in Phases(nreq.cmd)
    BY <1>3, PhaseIn, Zenon DEF Loop
  <2> QED
    BY <1>2, <1>3, <2>1, <2>2, QuietStep, Zenon
<1>6. FileInv' /\ NandSuccess'
  <2>1. Raw' = Raw /\ \A p, e : Reads(p, e)' = Reads(p, e)
    BY <1>2, <1>3, Zenon DEF Raw, toggled, Reads, agent
  <2>2. npc \in Loop /\ npc' \in Loop /\ npc' \notin Before
    BY <1>2, <1>3, Zenon DEF Loop, Before
  <2>3. ~sidecar.there
    BY <1>2, Zenon DEF FileInv, NandEnded
  <2>4. Loaded(Len(recs))
    BY <1>2, Zenon DEF FileInv
  <2>5. Loaded(Len(recs))'
    BY <1>2, <1>3, <1>4, <2>1, <2>4, Zenon DEF Loaded, BatchSize, Least, agent
  <2>6. \A i \in 1..Len(recs') : recs'[i] = (page' + i - 1 \in nreq'.bad)
    BY <1>2, <1>3, <1>4, <2>4, Zenon DEF Loaded
  <2> HIDE DEF Raw, Reads, Before, Loop, toggled, Loaded
  <2>7. FileInv'
    BY <1>2, <1>3, <2>1, <2>2, <2>3, <2>5, <2>6, SMT DEF FileInv, agent
  <2> QED
    BY <1>3, <2>7, Zenon DEF NandSuccess
<1> QED
  BY <1>5, <1>6, Zenon

\* ecc-scan has the records of a batch.
LEMMA ScanReadKeeps ==
    ASSUME NandTypeOK, QueueInv, FileInv, NandSuccess, ScanRead
    PROVE  NandTypeOK' /\ QueueInv' /\ FileInv' /\ NandSuccess'
<1>1. ReadEnds("stat") /\ "stat" \in Streams
  BY Zenon DEF ScanRead, Streams
<1>2. /\ npc = "stat" /\ toAgent' = <<>> /\ toHost' = <<>> /\ UNCHANGED agent
      /\ UNCHANGED <<rcv, nreq, b0, sidecar>>
      /\ Len(rcv) = Expected /\ \A i \in 1..Len(rcv) : rcv[i] = Sent(i)
  BY <1>1, StreamIs, Zenon
<1>3. /\ nreq.cmd = "scan" /\ records' = records \o rcv /\ page' = page + Len(rcv) /\ sent' = FALSE
      /\ UNCHANGED <<trial, recs, saved, error>>
      /\ \/ npc' = "pages" /\ page + Len(rcv) < nreq.start + nreq.count
         \/ npc' = "done"
  BY Zenon DEF ScanRead, Turn
<1>4. npc \in Loop
  BY <1>2, Zenon DEF Loop
<1>5. /\ Len(rcv) = Len(recs) /\ Len(recs) \in 1..BatchSize
      /\ \A i \in 1..Len(rcv) : rcv[i] = (page + i - 1 \in nreq.bad)
  <2>1. Loaded(Len(recs))
    BY <1>2, Zenon DEF FileInv
  <2> QED
    BY <1>2, <2>1, Zenon DEF Expected, Sent, Loaded
<1>6. /\ page \in Nat /\ nreq.start \in Nat /\ nreq.count \in Nat /\ BatchSize \in Nat
      /\ page + BatchSize <= nreq.start + nreq.count
      /\ ASeq(records) /\ ASeq(rcv) /\ Len(records) \in Nat
  BY <1>4, Limits, LenNat, Zenon DEF NandTypeOK
<1>7. ASeq(records') /\ Joined(records', records, rcv)
  BY <1>3, <1>6, ConcatSeq, Zenon
<1>8. /\ page = nreq.start + Len(records)
      /\ \A i \in 1..Len(records) : records[i] = (nreq.start + i - 1 \in nreq.bad)
  BY <1>3, Zenon DEF FileInv
<1>9. Counted(page, nreq.start, nreq.count, Len(records), Len(rcv))
  <2>1. Len(rcv) \in 0..BatchSize
    BY <1>5, <1>6, SMT
  <2> QED
    BY <1>6, <1>8, <2>1, CountedIs, Zenon
<1>20. Paged(records', records, rcv, page, nreq.start)
  BY <1>7, <1>9, PagedIs, Zenon
<1>10. /\ page' \in Nat /\ page' <= nreq.start + nreq.count /\ page' = nreq.start + Len(records')
  BY <1>3, <1>9, <1>20, Zenon DEF Counted, Paged
<1>21. \A i \in 1..Len(records') : records'[i] = (nreq.start + i - 1 \in nreq.bad)
  <2> TAKE i \in 1..Len(records')
  <2>1. CASE i \in 1..Len(records) /\ records'[i] = records[i]
    BY <1>8, <2>1, Zenon
  <2>2. ASSUME NEW j \in 1..Len(rcv), records'[i] = rcv[j], page + j - 1 = nreq.start + i - 1
        PROVE  records'[i] = (nreq.start + i - 1 \in nreq.bad)
    <3>1. rcv[j] = (page + j - 1 \in nreq.bad)
      BY <1>5, Zenon
    <3> QED
      BY <2>2, <3>1, Zenon
  <2> QED
    BY <1>20, <2>1, <2>2, Zenon DEF Paged
<1>11. NandTypeOK' /\ QueueInv'
  <2>1. b0' \in BOOLEAN /\ ASeq(recs') /\ ASeq(saved')
    BY <1>2, <1>3, Zenon DEF NandTypeOK
  <2>2. npc' \in Phases(nreq.cmd)
    BY <1>3, PhaseIn, Zenon
  <2> QED
    BY <1>2, <1>3, <1>7, <1>9, <1>10, <2>1, <2>2, QuietStep, Zenon
<1>12. FileInv'
  <2>1. npc' \notin Before \cup {"eccoff", "stat", "data", "program"}
    BY <1>3, Zenon DEF Before
  <2>2. npc' \in Loop => page' < nreq'.start + nreq'.count
    BY <1>2, <1>3, Zenon DEF Loop, Resync
  <2>3. ~sidecar.there /\ nreq.cmd # "dump" /\ nreq' = nreq /\ sidecar' = sidecar
    BY <1>2, <1>3, Zenon DEF FileInv, NandEnded
  <2> HIDE DEF Before, Loop
  <2> QED
    BY <1>3, <1>9, <1>10, <1>20, <1>21, <2>1, <2>2, <2>3, Zenon DEF FileInv
<1>13. NandSuccess'
  <2>1. nreq' = nreq
    BY <1>2, Zenon
  <2>2. \A i \in 1..Len(records') : records'[i] <=> nreq.start + i - 1 \in nreq.bad
    BY <1>21, Zenon
  <2> QED
    BY <1>3, <2>1, <2>2, Zenon DEF NandSuccess
<1> QED
  BY <1>11, <1>12, <1>13, Zenon

\* A batch of a dump is in.
LEMMA DataReadKeeps ==
    ASSUME NandTypeOK, QueueInv, FileInv, NandSuccess, DataRead
    PROVE  NandTypeOK' /\ QueueInv' /\ FileInv' /\ NandSuccess'
<1>1. ReadEnds("data") /\ "data" \in Streams
  BY Zenon DEF DataRead, Streams
<1>2. /\ npc = "data" /\ toAgent' = <<>> /\ toHost' = <<>> /\ UNCHANGED agent
      /\ UNCHANGED <<rcv, nreq, b0, sidecar>>
      /\ Len(rcv) = Expected /\ \A i \in 1..Len(rcv) : rcv[i] = Sent(i)
  BY <1>1, StreamIs, Zenon
<1>3. PICK k : k = Kept
  OBVIOUS
<1>4. /\ saved' = saved \o SubSeq(rcv, 1, k) /\ records' = records \o SubSeq(recs, 1, k)
      /\ page' = page + k /\ sent' = FALSE /\ recs' = recs
      /\ \/ npc' = "pages" /\ page' < nreq.start + nreq.count
         \/ npc' \in {"eccon", "sidecar"}
  BY <1>3, Zenon DEF DataRead, Turn
<1>5. nreq.cmd = "dump" /\ npc \in Loop
  BY <1>2, PhaseOf, Zenon DEF Loop, Resync
<1>6. PICK n : n = Len(recs)
  OBVIOUS
<1>7. Loaded(n) /\ Len(rcv) = n /\ \A i \in 1..n : rcv[i] = dma[i]
  BY <1>2, <1>6, Zenon DEF FileInv, Expected, Sent
<1>8. /\ n \in 1..BatchSize /\ BatchSize \in Nat /\ n \in Nat \ {0}
      /\ page \in Nat /\ nreq.start \in Nat /\ nreq.count \in Nat
      /\ page + BatchSize <= nreq.start + nreq.count
  <2>1. /\ n \in 1..BatchSize /\ BatchSize \in Nat
        /\ page \in Nat /\ nreq.start \in Nat /\ nreq.count \in Nat
        /\ page + BatchSize <= nreq.start + nreq.count
    BY <1>5, <1>7, Limits, Zenon DEF NandTypeOK, Loaded
  <2> QED
    BY <2>1, SMT
<1>9. /\ k \in 0..n /\ k \in 0..BatchSize
      /\ \A i \in 1..k : i \in 1..n /\ page + i - 1 \notin nreq.bad
  <2>1. \A i \in 1..n - 1 : i \in 1..n /\ page + i - 1 \notin nreq.bad
    <3>1. \A i \in 1..n - 1 : i \in 1..n
      BY <1>8, SMT
    <3> QED
      BY <1>7, <3>1, Zenon DEF Loaded
  <2>2. n \in 1..n /\ recs[n] = (page + n - 1 \in nreq.bad)
    <3>1. n \in 1..n
      BY <1>8, SMT
    <3> QED
      BY <1>2, <1>6, <3>1, Zenon DEF FileInv
  <2>3. CASE recs[n]
    <3>1. k = n - 1
      BY <1>3, <1>6, <2>3, Zenon DEF Kept
    <3>2. k \in 0..n /\ k \in 0..BatchSize
      BY <1>8, <3>1, SMT
    <3> QED
      BY <2>1, <3>1, <3>2, Zenon
  <2>4. CASE ~recs[n]
    <3>1. k = n
      BY <1>3, <1>6, <2>4, Zenon DEF Kept
    <3>2. k \in 0..n /\ k \in 0..BatchSize
      BY <1>8, <3>1, SMT
    <3>3. \A i \in 1..n : i = n \/ i \in 1..n - 1
      BY <1>8, SMT
    <3> QED
      BY <2>1, <2>2, <2>4, <3>1, <3>2, <3>3, Zenon
  <2> QED
    BY <2>3, <2>4, Zenon
<1>10. PICK u : u = SubSeq(rcv, 1, k)
  OBVIOUS
<1>11. PICK w : w = SubSeq(recs, 1, k)
  OBVIOUS
<1>12. /\ ASeq(u) /\ Len(u) = k /\ ASeq(w) /\ Len(w) = k
       /\ \A i \in 1..k : u[i] = rcv[i]
  <2>1. ASeq(rcv) /\ ASeq(recs) /\ k \in 0..Len(rcv) /\ k \in 0..Len(recs)
    BY <1>6, <1>7, <1>9, Zenon DEF NandTypeOK
  <2> QED
    BY <1>10, <1>11, <2>1, PrefixSeq, Zenon
<1>13. \A i \in 1..Len(u) : u[i] = Reads(page + i - 1, Raw)
  <2> TAKE i \in 1..Len(u)
  <2>1. i \in 1..n /\ page + i - 1 \notin nreq.bad /\ u[i] = rcv[i]
    BY <1>9, <1>12, Zenon
  <2>2. dma[i] = Reads(page + i - 1, Raw)
    BY <1>5, <1>7, <2>1, Zenon DEF Loaded
  <2> QED
    BY <1>7, <2>1, <2>2, Zenon
<1>14. /\ ASeq(saved) /\ ASeq(records) /\ Len(saved) \in Nat
       /\ page = nreq.start + Len(saved) /\ Len(records) = Len(saved)
       /\ \A i \in 1..Len(saved) : saved[i] = Reads(nreq.start + i - 1, Raw)
  BY <1>5, LenNat, Zenon DEF NandTypeOK, FileInv
<1>15. ASeq(saved') /\ Joined(saved', saved, u) /\ ASeq(records') /\ Joined(records', records, w)
  BY <1>4, <1>10, <1>11, <1>12, <1>14, ConcatSeq, Zenon
<1>16. Counted(page, nreq.start, nreq.count, Len(saved), Len(u))
  BY <1>8, <1>9, <1>12, <1>14, CountedIs, Zenon
<1>17. Paged(saved', saved, u, page, nreq.start)
  BY <1>15, <1>16, PagedIs, Zenon
<1>18. /\ page' \in Nat /\ page' <= nreq.start + nreq.count /\ page' = nreq.start + Len(saved')
       /\ Len(records') = Len(saved')
  BY <1>4, <1>12, <1>14, <1>15, <1>16, <1>17, Zenon DEF Counted, Paged, Joined
<1>19. \A i \in 1..Len(saved') : saved'[i] = Reads(nreq.start + i - 1, Raw)
  <2> TAKE i \in 1..Len(saved')
  <2>1. CASE i \in 1..Len(saved) /\ saved'[i] = saved[i]
    BY <1>14, <2>1, Zenon
  <2>2. ASSUME NEW j \in 1..Len(u), saved'[i] = u[j], page + j - 1 = nreq.start + i - 1
        PROVE  saved'[i] = Reads(nreq.start + i - 1, Raw)
    <3>1. u[j] = Reads(page + j - 1, Raw)
      BY <1>13, Zenon
    <3> HIDE DEF Reads
    <3> QED
      BY <2>2, <3>1, Zenon
  <2> QED
    BY <1>17, <2>1, <2>2, Zenon DEF Paged
<1>20. NandTypeOK' /\ QueueInv'
  <2>1. b0' \in BOOLEAN /\ ASeq(recs')
    BY <1>2, <1>4, Zenon DEF NandTypeOK
  <2>2. npc' \in Phases(nreq.cmd)
    BY <1>4, <1>5, PhaseIn, Zenon DEF Loop
  <2> QED
    BY <1>2, <1>4, <1>15, <1>18, <2>1, <2>2, QuietStep, Zenon
<1>21. FileInv' /\ NandSuccess'
  <2>1. Raw' = Raw /\ \A p, e : Reads(p, e)' = Reads(p, e)
    BY <1>2, Zenon DEF Raw, toggled, Reads, agent
  <2>2. npc' \notin Before \cup {"eccoff", "stat", "data", "program", "done", "status"} /\ npc' \notin Before
    BY <1>4, Zenon DEF Before
  <2>3. npc' \in Loop => page' < nreq'.start + nreq'.count
    BY <1>2, <1>4, Zenon DEF Loop, Resync
  <2>4. ~sidecar.there /\ nreq' = nreq /\ sidecar' = sidecar /\ ecc' = ecc /\ ecc = Raw
    BY <1>2, <1>5, Zenon DEF FileInv, NandEnded, agent
  <2> HIDE DEF Raw, Reads, Before, Loop
  <2>5. FileInv'
    BY <1>5, <1>18, <1>19, <2>1, <2>2, <2>3, <2>4, Zenon DEF FileInv
  <2> QED
    BY <2>2, <2>5, Zenon DEF NandSuccess
<1> QED
  BY <1>20, <1>21, Zenon

\* "agent read" has the whole range.
LEMMA FlashReadKeeps ==
    ASSUME NandTypeOK, QueueInv, FileInv, NandSuccess, FlashRead
    PROVE  NandTypeOK' /\ QueueInv' /\ FileInv' /\ NandSuccess'
<1>1. ReadEnds("flash") /\ "flash" \in Streams
  BY Zenon DEF FlashRead, Streams
<1>2. /\ npc = "flash" /\ toAgent' = <<>> /\ toHost' = <<>> /\ UNCHANGED agent
      /\ UNCHANGED <<rcv, nreq, b0, sidecar>>
  BY <1>1, StreamIs, Zenon
<1>3. saved' = rcv /\ npc' = "crc" /\ sent' = FALSE /\ UNCHANGED <<page, recs, records>>
  BY Zenon DEF FlashRead, Turn
<1>4. nreq.cmd = "read"
  BY <1>2, PhaseOf, Zenon
<1>5. NandTypeOK' /\ QueueInv'
  <2>1. /\ b0' \in BOOLEAN /\ page' \in Nat /\ ASeq(recs') /\ ASeq(records') /\ ASeq(saved')
    BY <1>2, <1>3, Zenon DEF NandTypeOK
  <2>2. npc' \in Phases(nreq.cmd)
    BY <1>3, <1>4, PhaseIn, Zenon
  <2> QED
    BY <1>2, <1>3, <2>1, <2>2, QuietStep, Zenon
<1>6. FileInv' /\ NandSuccess'
  <2>1. npc' \notin Before \cup {"eccoff", "stat", "data", "program"} /\ npc' \notin Loop
    BY <1>3, Zenon DEF Before, Loop, Resync
  <2>2. ~sidecar.there /\ nreq.cmd \notin {"dump", "scan"}
    BY <1>2, <1>4, Zenon DEF FileInv, NandEnded
  <2> HIDE DEF Before, Loop
  <2>3. FileInv'
    BY <1>2, <1>3, <2>1, <2>2, Zenon DEF FileInv
  <2> QED
    BY <1>3, <2>3, Zenon DEF NandSuccess
<1> QED
  BY <1>5, <1>6, Zenon

\* "agent read" compares the sum of its file with the sum of flash.
LEMMA CrcAnsweredKeeps ==
    ASSUME NandTypeOK, QueueInv, FileInv, NandSuccess, CrcAnswered
    PROVE  NandTypeOK' /\ QueueInv' /\ FileInv' /\ NandSuccess'
<1>1. /\ npc = "crc" /\ sent /\ toHost # <<>> /\ toHost' = Tail(toHost) /\ toAgent' = toAgent
      /\ UNCHANGED agent /\ UNCHANGED <<rcv, nreq, page, recs, records, b0, saved, sidecar>>
      /\ (npc' = "done" /\ Next1.val = saved) \/ npc' = "failed"
      /\ sent' = FALSE
  BY Zenon DEF CrcAnswered, Take, Turn, command
<1>2. toAgent = <<>> /\ toHost = <<[Reply("CRC32", FlashContent) EXCEPT !.kind = "crc"]>>
  BY <1>1, Zenon DEF QueueInv, Answer, Synced
<1>3. toHost' = <<>> /\ Next1.val = FlashContent
  <2>1. PICK x : x = [Reply("CRC32", FlashContent) EXCEPT !.kind = "crc"]
    OBVIOUS
  <2>2. x.val = FlashContent
    BY <2>1, SMT DEF Reply
  <2>3. toHost = <<x>>
    BY <1>2, <2>1, Zenon
  <2> QED
    BY <1>1, <2>2, <2>3, SingleSeq, Zenon DEF Next1
<1>4. nreq.cmd = "read"
  BY <1>1, PhaseOf, Zenon
<1>5. NandTypeOK' /\ QueueInv'
  <2>1. /\ b0' \in BOOLEAN /\ page' \in Nat /\ ASeq(recs') /\ ASeq(records') /\ ASeq(saved')
    BY <1>1, Zenon DEF NandTypeOK
  <2>2. npc' \in Phases(nreq.cmd)
    BY <1>1, PhaseIn, Zenon
  <2> QED
    BY <1>1, <1>2, <1>3, <2>1, <2>2, QuietStep, Zenon
<1>6. FileInv' /\ NandSuccess'
  <2>1. npc' \notin Before \cup {"eccoff", "stat", "data", "program"} /\ npc' \notin Loop
    BY <1>1, Zenon DEF Before, Loop, Resync
  <2>2. ~sidecar.there /\ nreq.cmd \notin {"dump", "scan"}
    BY <1>1, <1>4, Zenon DEF FileInv, NandEnded
  <2>3. FlashContent' = FlashContent
    BY <1>1, Zenon DEF FlashContent, agent
  <2> HIDE DEF Before, Loop
  <2>4. FileInv'
    BY <1>1, <2>1, <2>2, Zenon DEF FileInv
  <2>5. npc' = "done" => saved' = FlashContent'
    BY <1>1, <1>3, <2>3, Zenon
  <2>6. nreq'.cmd = "read"
    BY <1>1, <1>4, Zenon
  <2> HIDE DEF FlashContent
  <2> QED
    BY <2>4, <2>5, <2>6, Zenon DEF NandSuccess
<1> QED
  BY <1>5, <1>6, Zenon

(***************************************************************************)
(* The host resynchronises, and ends.                                      *)
(***************************************************************************)
\* resync reads what is waiting.
LEMMA DrainKeeps ==
    ASSUME NandTypeOK, QueueInv, FileInv, NandSuccess, Drain
    PROVE  NandTypeOK' /\ QueueInv' /\ FileInv' /\ NandSuccess'
<1>1. /\ npc = "drain" /\ npc' = "sync" /\ sent' = FALSE /\ toHost' \in Cleared /\ toAgent' = toAgent
      /\ UNCHANGED <<rcv, nreq, page, recs, records, b0, saved, sidecar>> /\ UNCHANGED agent
  BY Zenon DEF Drain, Turn, command
<1>2. ASeq(toHost') /\ Part(toHost', toHost)
  BY <1>1, ClearedIs, Zenon
<1>3. nreq.cmd = "dump" /\ npc \in Resync /\ npc' \in Resync /\ npc \in Loop /\ npc' \in Loop
  BY <1>1, PhaseOf, Zenon DEF Resync, Loop
<1>4. NandTypeOK'
  <2>1. npc' \in Phases(nreq.cmd)
    BY <1>3, PhaseIn, Zenon
  <2> QED
    BY <1>1, <1>2, <2>1, Zenon DEF NandTypeOK, agent
<1>5. QueueInv'
  <2>1. /\ \A i \in 1..Len(toAgent) : Good(toAgent[i])
        /\ \A i \in 1..Len(toAgent) : toAgent[i].op \in PageOps \cup {"INFO"}
        /\ \A i \in 1..Len(toAgent) : toAgent[i].op # "INFO"
        /\ \A i \in 1..Len(toHost) : ~IsReply(toHost[i], "FEATURE_SET")
        /\ \A i \in 1..Len(toHost) : ~IsReply(toHost[i], "INFO")
        /\ \A i \in 1..Len(toAgent) : toAgent[i].op \notin {"PROGRAM_PAGE", "ERASE_BLOCK"}
    BY <1>1, <1>3, Zenon DEF QueueInv
  <2>2. /\ \A i \in 1..Len(toHost') : ~IsReply(toHost'[i], "FEATURE_SET")
        /\ \A i \in 1..Len(toHost') : ~IsReply(toHost'[i], "INFO")
    BY <1>2, <2>1, Zenon DEF Part
  <2>3. npc' \notin Synced \cup {"stage"}
    BY <1>1, Zenon DEF Synced, Before
  <2> HIDE DEF Good, IsReply, Synced, Resync
  <2> QED
    BY <1>1, <2>1, <2>2, <2>3, Zenon DEF QueueInv
<1>6. FileInv' /\ NandSuccess'
  <2>1. Raw' = Raw /\ \A p, e : Reads(p, e)' = Reads(p, e)
    BY <1>1, Zenon DEF Raw, toggled, Reads, agent
  <2>2. npc' \notin Before \cup {"eccoff", "stat", "data", "program", "status", "done"} /\ npc' \notin Before
    BY <1>1, Zenon DEF Before
  <2>3. ~sidecar.there
    BY <1>1, Zenon DEF FileInv, NandEnded
  <2> HIDE DEF Raw, Reads, Before, Loop
  <2>4. FileInv'
    BY <1>1, <1>3, <2>1, <2>2, <2>3, Zenon DEF FileInv, agent
  <2> QED
    BY <2>2, <2>4, Zenon DEF NandSuccess
<1> QED
  BY <1>4, <1>5, <1>6, Zenon

\* resync is over, and the batch is read again: nothing is left on the line.
LEMMA ResyncDone ==
    ASSUME NandTypeOK, FileInv, npc \in Resync, npc' = "pages", sent' = FALSE,
           toAgent' = <<>>, toHost' = <<>>, UNCHANGED agent,
           UNCHANGED <<rcv, nreq, page, recs, records, b0, saved, sidecar>>
    PROVE  NandTypeOK' /\ QueueInv' /\ FileInv' /\ NandSuccess'
<1>1. nreq.cmd = "dump" /\ npc \in Loop /\ npc' \in Loop
  BY PhaseOf, Zenon DEF Resync, Loop
<1>2. NandTypeOK' /\ QueueInv'
  <2>1. /\ b0' \in BOOLEAN /\ page' \in Nat /\ ASeq(recs') /\ ASeq(records') /\ ASeq(saved')
    BY Zenon DEF NandTypeOK
  <2>2. npc' \in Phases(nreq.cmd)
    BY <1>1, PhaseIn, Zenon
  <2> QED
    BY <2>1, <2>2, QuietStep, Zenon
<1>3. FileInv' /\ NandSuccess'
  <2>1. Raw' = Raw /\ \A p, e : Reads(p, e)' = Reads(p, e)
    BY Zenon DEF Raw, toggled, Reads, agent
  <2>2. npc' \notin Before \cup {"eccoff", "stat", "data", "program", "status", "done"} /\ npc' \notin Before
    BY Zenon DEF Before
  <2>3. ~sidecar.there
    BY Zenon DEF FileInv, NandEnded, Resync
  <2> HIDE DEF Raw, Reads, Before, Loop
  <2>4. FileInv'
    BY <1>1, <2>1, <2>2, <2>3, Zenon DEF FileInv, agent
  <2> QED
    BY <2>2, <2>4, Zenon DEF NandSuccess
<1> QED
  BY <1>2, <1>3, Zenon

\* The answer to resync's INFO is the last thing on the line.
LEMMA SyncAnsweredKeeps ==
    ASSUME NandTypeOK, QueueInv, FileInv, NandSuccess, SyncAnswered
    PROVE  NandTypeOK' /\ QueueInv' /\ FileInv' /\ NandSuccess'
<1>1. /\ npc = "sync" /\ sent /\ toHost # <<>> /\ toHost' = Tail(toHost) /\ toAgent' = toAgent
      /\ UNCHANGED agent /\ UNCHANGED <<rcv, nreq, page, recs, records, b0, saved, sidecar>>
      /\ npc' = "pages" /\ sent' = FALSE /\ IsReply(Head(toHost), NandOp[npc])
  BY Zenon DEF SyncAnswered, AnswerTo, Take, Turn, Mine, Next1, IsReply
<1>2. /\ Head(toHost) = toHost[1] /\ 1 \in 1..Len(toHost)
      /\ Len(toHost) = 1 => Tail(toHost) = <<>>
  BY <1>1, TailSeq, Zenon DEF NandTypeOK
<1>3. IsReply(toHost[1], "INFO")
  BY <1>1, <1>2, OpTable, Zenon
<1>4. 1 = Len(toHost) /\ toAgent = <<>>
  BY <1>1, <1>2, <1>3, Zenon DEF QueueInv
<1>5. npc \in Resync /\ toHost' = <<>> /\ toAgent' = <<>>
  BY <1>1, <1>2, <1>4, Zenon DEF Resync
<1> QED
  BY <1>1, <1>5, ResyncDone, Zenon

\* READY comes, or the host gives up.
LEMMA AwaitReadyKeeps ==
    ASSUME NandTypeOK, QueueInv, FileInv, NandSuccess, AwaitReady
    PROVE  NandTypeOK' /\ QueueInv' /\ FileInv' /\ NandSuccess'
<1>1. /\ npc = "ready" /\ npc \in Resync /\ npc \in Loop /\ UNCHANGED agent /\ toAgent' = toAgent
      /\ UNCHANGED <<rcv, nreq, page, recs, records, b0, saved, sidecar>>
  BY Zenon DEF AwaitReady, Resync, Loop
<1>2. CASE toAgent = <<>> /\ toHost' = <<>> /\ Turn("pages")
  BY <1>1, <1>2, ResyncDone, Zenon DEF Turn
<1>3. CASE toHost' \in Cleared /\ Leave
  <2>1. (npc' = "failed" \/ (npc' = "eccon" /\ toggled)) /\ sent' = FALSE
    BY <1>3, Zenon DEF Leave, Turn
  <2>2. nreq.cmd = "dump"
    BY <1>1, PhaseOf, Zenon
  <2>3. NandTypeOK'
    <3>1. ASeq(toHost')
      BY <1>3, ClearedIs, Zenon
    <3>2. npc' \in Phases(nreq.cmd)
      BY <2>1, <2>2, PhaseIn, Zenon
    <3> QED
      BY <1>1, <2>1, <3>1, <3>2, Zenon DEF NandTypeOK, agent
  <2>4. npc' \notin Synced /\ npc' \notin Resync /\ npc' \notin Before /\ npc' \notin Loop
    BY <2>1, Zenon DEF Synced, Resync, Before, Loop
  <2>5. QueueInv'
    BY <1>1, <2>1, <2>4, QueueMoves, Zenon
  <2>6. FileInv'
    <3>1. ~sidecar.there
      BY <1>1, Zenon DEF FileInv, NandEnded
    <3>2. npc' \notin Synced \cup Before \cup {"stage", "sync", "done", "program", "eccoff", "stat", "data"}
      BY <2>1, <2>4, Zenon
    <3> QED
      BY <1>1, <2>4, <3>1, <3>2, FileMoves, Zenon
  <2>7. NandSuccess'
    BY <2>1, Zenon DEF NandSuccess
  <2> QED
    BY <2>3, <2>5, <2>6, <2>7, Zenon
<1> QED
  BY <1>2, <1>3, Zenon DEF AwaitReady

\* The sidecar is written.
LEMMA SidecarKeeps ==
    ASSUME NandTypeOK, QueueInv, FileInv, NandSuccess, Sidecar
    PROVE  NandTypeOK' /\ QueueInv' /\ FileInv' /\ NandSuccess'
<1>1. /\ npc = "sidecar" /\ sent' = FALSE /\ UNCHANGED agent /\ toAgent' = toAgent /\ toHost' = toHost
      /\ UNCHANGED <<rcv, nreq, page, recs, records, b0, saved>>
      /\ npc' \in {"done", "failed"}
  BY Zenon DEF Sidecar, Turn, wires
<1>2. /\ sidecar'.ondie = Raw /\ sidecar'.pages = Len(records)
      /\ sidecar'.complete = (page = nreq.start + nreq.count)
  <2>1. sidecar' = [there |-> TRUE, complete |-> (page = nreq.start + nreq.count),
                    ondie |-> Raw, pages |-> Len(records)]
    BY Zenon DEF Sidecar, Raw
  <2> HIDE DEF Raw
  <2> QED
    BY <2>1, Zenon
<1>3. nreq.cmd = "dump"
  BY <1>1, PhaseOf, Zenon
<1>4. NandTypeOK'
  <2>1. npc' \in Phases(nreq.cmd)
    BY <1>1, PhaseIn, Zenon
  <2> QED
    BY <1>1, <2>1, Zenon DEF NandTypeOK, agent
<1>5. npc' \notin Synced \cup {"stage"} /\ npc' \notin Resync /\ npc' \notin Before /\ npc' \notin Loop
      /\ npc' \notin {"eccoff", "stat", "data", "program", "status", "drain", "sync"}
      /\ npc' \notin Before \cup {"eccoff"}
  BY <1>1, Zenon DEF Synced, Resync, Before, Loop
<1>6. QueueInv'
  <2> HIDE DEF Good, IsReply, Synced, Resync
  <2> QED
    BY <1>1, <1>3, <1>5, Zenon DEF QueueInv
<1>7. FileInv'
  <2>1. Raw' = Raw /\ \A p, e : Reads(p, e)' = Reads(p, e)
    BY <1>1, Zenon DEF Raw, toggled, Reads, agent
  <2>2. NandEnded'
    BY <1>1, Zenon DEF NandEnded
  <2> HIDE DEF Raw, Reads, Before, Loop, NandEnded
  <2> QED
    BY <1>1, <1>2, <1>3, <1>5, <2>1, <2>2, Zenon DEF FileInv, agent
<1>8. NandSuccess'
  BY <1>1, <1>3, Zenon DEF NandSuccess
<1> QED
  BY <1>4, <1>6, <1>7, <1>8, Zenon

(***************************************************************************)
(* The invariant.                                                          *)
(***************************************************************************)
NandInv == NandTypeOK /\ QueueInv /\ FileInv /\ NandSuccess

LEMMA NandStarts == NandInit => NandInv
<1> SUFFICES ASSUME NandInit PROVE NandInv
  OBVIOUS
<1>1. /\ nreq \in NandRequests /\ sent = FALSE /\ rcv = <<>> /\ page = nreq.start
      /\ recs = <<>> /\ records = <<>> /\ b0 = FALSE /\ saved = <<>> /\ sidecar = NoSidecar
      /\ toAgent = <<>> /\ toHost = <<>> /\ ecc = nreq.ecc
      /\ npc = (IF nreq.cmd = "read" THEN "flash" ELSE "info")
      /\ mem = [p \in 0..Pages - 1 |-> "old"]
      /\ dma = [i \in 1..Batch |-> Junk] /\ stat = [i \in 1..Batch |-> FALSE]
  BY Zenon DEF NandInit
<1>2. /\ nreq.cmd \in {"dump", "scan", "program", "erase", "read"}
      /\ nreq.start \in Nat /\ nreq.count \in Nat \ {0} /\ nreq.ecc \in BOOLEAN /\ Batch \in Nat
  BY <1>1, NandAssumption, Zenon
<1>3. npc \in Phases(nreq.cmd) /\ npc \in {"flash", "info"}
  BY <1>1, <1>2, SMT DEF Phases, Before
<1>4. ASeq(dma) /\ Len(dma) = Batch /\ ASeq(stat) /\ Len(stat) = Batch
  <2>1. dma = [i \in 1..Batch |-> dma[i]] /\ stat = [i \in 1..Batch |-> stat[i]]
    BY <1>1, Zenon
  <2> QED
    BY <1>2, <2>1, FunctionSeq, Zenon
<1>5. NandTypeOK
  <2>1. DOMAIN mem = 0..Pages - 1
    BY <1>1, Zenon
  <2> QED
    BY <1>1, <1>2, <1>3, <1>4, <2>1, EmptySeq, Zenon DEF NandTypeOK
<1>6. QueueInv
  <2>1. 1..Len(toAgent) = {} /\ 1..Len(toHost) = {}
    BY <1>1, EmptySeq, Zenon
  <2> QED
    BY <1>1, <2>1, Zenon DEF QueueInv
<1>7. FileInv
  <2>1. Len(saved) = 0 /\ Len(records) = 0 /\ 1..0 = {}
    BY <1>1, EmptySeq, Zenon
  <2>2. page < nreq.start + nreq.count /\ page <= nreq.start + nreq.count /\ page = nreq.start + 0
    BY <1>1, <1>2, SMT
  <2>3. npc \notin {"status", "eccoff", "stat", "data", "program"} /\ npc \notin Loop
    BY <1>3, Zenon DEF Loop, Resync
  <2>4. ~sidecar.there
    BY <1>1, Zenon DEF NoSidecar
  <2> HIDE DEF Before, Loop
  <2> QED
    BY <1>1, <2>1, <2>2, <2>3, <2>4, Zenon DEF FileInv
<1>8. NandSuccess
  BY <1>3, Zenon DEF NandSuccess
<1> QED
  BY <1>5, <1>6, <1>7, <1>8, Zenon DEF NandInv

LEMMA NandStep == NandInv /\ [NandNext]_nandVars => NandInv'
<1> SUFFICES ASSUME NandTypeOK, QueueInv, FileInv, NandSuccess, [NandNext]_nandVars
             PROVE  NandTypeOK' /\ QueueInv' /\ FileInv' /\ NandSuccess'
  BY Zenon DEF NandInv
<1>1. CASE NandHost
  <2>1. CASE \/ Call \/ Timeout \/ SkipStale \/ CallRefused
             \/ ChipAnswered \/ FeatureAnswered \/ EccOffAnswered \/ EccOnAnswered
    BY <2>1, CallKeeps, GiveUpKeeps, PacketGoesKeeps, ChipAnsweredKeeps, FeatureAnsweredKeeps,
       EccOffAnsweredKeeps, EccOnAnsweredKeeps, Zenon
  <2>2. CASE PagesAnswered \/ ChangeAnswered \/ Stage \/ DataReceived \/ ReadFails \/ StatRead
    BY <2>2, PagesAnsweredKeeps, ChangeAnsweredKeeps, StageKeeps, DataReceivedKeeps, GiveUpKeeps,
       StatReadKeeps, Zenon
  <2>3. CASE \/ DataRead \/ ScanRead \/ FlashRead \/ CrcAnswered \/ Drain \/ SyncAnswered
             \/ AwaitReady \/ Sidecar
    BY <2>3, DataReadKeeps, ScanReadKeeps, FlashReadKeeps, CrcAnsweredKeeps, DrainKeeps,
       SyncAnsweredKeeps, AwaitReadyKeeps, SidecarKeeps, Zenon
  <2> QED
    BY <1>1, <2>1, <2>2, <2>3, Zenon DEF NandHost
<1>2. CASE AgentStep
  BY <1>2, AgentKeeps, Zenon
<1>3. CASE LosePacket
  BY <1>3, PacketGoesKeeps, Zenon
<1>4. CASE UNCHANGED nandVars
  <2>1. UNCHANGED <<npc, sent, rcv, toAgent, toHost>> /\ UNCHANGED work
    BY <1>4, Zenon DEF nandVars, command, wires, work
  <2>2. NandTypeOK'
    <3>1. ASeq(toAgent') /\ ASeq(toHost') /\ ASeq(rcv') /\ sent' \in BOOLEAN
      BY <2>1, Zenon DEF NandTypeOK
    <3> QED
      BY <2>1, <3>1, TypeSame, Zenon
  <2>3. QueueInv'
    <3>1. Request' = Request /\ nreq' = nreq /\ npc' = npc
      BY <2>1, Zenon DEF Request, BatchSize, Least, work
    <3>2. ASSUME Answer PROVE Answer'
      <4>1. Expected' = Expected /\ FlashContent' = FlashContent /\ val' = val
        BY <2>1, Zenon DEF Expected, FlashContent, val, Next1, work, agent
      <4>2. \A k : Sent(k)' = Sent(k)
        BY <2>1, Zenon DEF Sent, FlashContent, work, agent
      <4>3. StreamPart => StreamPart'
        BY <2>1, <4>1, <4>2, Zenon DEF StreamPart, DataPacket, Ack
      <4>4. \A v : Loaded(v) => Loaded(v)'
        BY <2>1, Zenon DEF Loaded, BatchSize, Least, Raw, toggled, Reads, work, agent
      <4>5. Says(val) => Says(val)'
        BY <2>1, <3>1, <4>1, <4>4, Zenon DEF Says, work, agent
      <4> HIDE DEF StreamPart, Says, val, FlashContent
      <4> QED
        BY <2>1, <3>1, <3>2, <4>1, <4>3, <4>5, Zenon DEF Answer, Reply
    <3> HIDE DEF Answer
    <3> QED
      BY <2>1, <3>1, <3>2, Zenon DEF QueueInv
  <2> QED
    BY <2>1, <2>2, <2>3, FileSame, Zenon
<1> QED
  BY <1>1, <1>2, <1>3, <1>4, Zenon DEF NandNext

\* The invariant behind the three theorems below: which exchange is on the
\* line (_call, read_memory, resync), and what the file, the buffers and the
\* sidecar hold, in every reachable state.
THEOREM NandInvariant == NandSpec => []NandInv
  BY NandStarts, NandStep, PTL DEF NandSpec

\* The sidecar of a dump describes its file (nand_dump, _read_batch, resync),
\* for every chip, range, buffer, number of tries, losses and delays.
THEOREM SidecarIsTrue == NandSpec => []SidecarTrue
<1>1. NandInv => SidecarTrue
  <2> SUFFICES ASSUME NandTypeOK, FileInv, sidecar.there
               PROVE  /\ Len(saved) = sidecar.pages /\ Len(records) = sidecar.pages
                      /\ \A i \in 1..Len(saved) : saved[i] = Reads(nreq.start + i - 1, sidecar.ondie)
                      /\ sidecar.complete => sidecar.pages = nreq.count
                      /\ nreq.keep \/ ~sidecar.ondie
    BY Zenon DEF NandInv, SidecarTrue
  <2>1. /\ nreq.cmd = "dump" /\ sidecar.ondie = Raw /\ sidecar.pages = Len(records)
        /\ sidecar.complete => page = nreq.start + nreq.count
        /\ page = nreq.start + Len(saved) /\ Len(records) = Len(saved)
        /\ \A i \in 1..Len(saved) : saved[i] = Reads(nreq.start + i - 1, Raw)
    BY Zenon DEF FileInv
  <2>2. nreq.start \in Nat /\ nreq.count \in Nat /\ Len(saved) \in Nat
    BY NandAssumption, LenNat, Zenon DEF NandTypeOK
  <2>3. sidecar.complete => Len(saved) = nreq.count
    BY <2>1, <2>2, SMT
  <2>4. nreq.keep \/ ~Raw
    BY <2>1, Zenon DEF Raw, toggled
  <2> HIDE DEF Raw, Reads
  <2> QED
    BY <2>1, <2>3, <2>4, Zenon
<1> QED
  BY <1>1, NandInvariant, PTL

\* A command that reports success did what it says (_call, read_memory,
\* crc32, program_page, erase_block), whatever was lost or came late.
THEOREM NandSuccessIsReal == NandSpec => []NandSuccess
<1>1. NandInv => NandSuccess
  BY Zenon DEF NandInv
<1> QED
  BY <1>1, NandInvariant, PTL
(***************************************************************************)
(* The on-die ECC.                                                         *)
(***************************************************************************)
Ends == {"sidecar", "done", "failed"}

\* A step that switches nothing keeps EccInv if it sends no FEATURE_SET and
\* what the phase it leads to needs is there.
LEMMA EccHolds ==
    ASSUME EccInv, UNCHANGED <<nreq, b0, ecc>>, late => late',
           ~toggled /\ NoSwitch => NoSwitch',
           npc' = "eccon" => toggled,
           ~late' /\ npc' = "eccon" => Restoring' /\ (ecc = nreq.ecc \/ NoReply')
                                       /\ (~sent' => NoSwitch' /\ NoReply'),
           ~late' /\ npc' \in Ends /\ ~warned' => ecc = nreq.ecc /\ Restoring'
    PROVE  EccInv'
<1>1. toggled' <=> toggled
  BY Zenon DEF toggled
<1> HIDE DEF toggled, NoSwitch, NoReply, Restoring
<1> QED
  BY <1>1, Zenon DEF EccInv, Ends

\* Without FEATURE_SET on its way, nothing there switches the wrong way.
LEMMA NoneIsRestoring == NoSwitch => Restoring
  BY Zenon DEF NoSwitch, Restoring

\* Nothing on the line says nothing of the ECC.
LEMMA QuietIsSilent ==
    /\ toAgent = <<>> => NoSwitch /\ Restoring
    /\ toHost = <<>> => NoReply
  BY EmptySeq, Zenon DEF NoSwitch, Restoring, NoReply

LEMMA QuietWillBeSilent ==
    /\ toAgent' = <<>> => NoSwitch' /\ Restoring'
    /\ toHost' = <<>> => NoReply'
  BY EmptySeq, Zenon DEF NoSwitch, Restoring, NoReply

\* A packet goes, or is taken, within a phase.
LEMMA EccPart ==
    ASSUME EccInv, UNCHANGED <<nreq, b0, ecc, npc, sent, warned, late, toAgent>>,
           Part(toHost', toHost)
    PROVE  EccInv'
<1>1. NoReply => NoReply'
  BY Zenon DEF NoReply, Part
<1>2. (NoSwitch <=> NoSwitch') /\ (Restoring <=> Restoring')
  BY Zenon DEF NoSwitch, Restoring
<1> HIDE DEF NoSwitch, NoReply, Restoring, toggled
<1>3. /\ npc' = "eccon" => toggled
      /\ ~late' /\ npc' = "eccon" => Restoring' /\ (ecc = nreq.ecc \/ NoReply')
                                       /\ (~sent' => NoSwitch' /\ NoReply')
      /\ ~late' /\ npc' \in Ends /\ ~warned' => ecc = nreq.ecc /\ Restoring'
  BY <1>1, <1>2, Zenon DEF EccInv, Ends
<1> QED
  BY <1>2, <1>3, EccHolds, Zenon

LEMMA EccPacket ==
    ASSUME NandTypeOK, EccInv, LosePacket \/ SkipStale \/ DataReceived
    PROVE  EccInv'
<1>1. /\ toHost # <<>> /\ toHost' = Tail(toHost)
      /\ UNCHANGED <<nreq, b0, ecc, npc, sent, warned, late, toAgent>>
  <2>1. CASE LosePacket
    BY <2>1, Zenon DEF LosePacket, command, agent, Lose
  <2>2. CASE SkipStale
    BY <2>2, Zenon DEF SkipStale, Take, command, agent, nandFaults
  <2>3. CASE DataReceived
    BY <2>3, Zenon DEF DataReceived, Take, command, agent, nandFaults
  <2> QED
    BY <2>1, <2>2, <2>3, Zenon
<1>2. Part(toHost', toHost)
  BY <1>1, TailSeq, Zenon DEF NandTypeOK
<1> QED
  BY <1>1, <1>2, EccPart, Zenon

\* A step that leaves the line quiet.
LEMMA EccQuiet ==
    ASSUME EccInv, nreq' = nreq, ecc' = ecc, toAgent' = <<>>, toHost' = <<>>,
           b0' = b0 \/ (b0' = nreq.ecc /\ ecc = nreq.ecc),
           npc' = "eccon" => toggled', npc' \in Ends => ~toggled'
    PROVE  EccInv'
<1>1. NoSwitch' /\ Restoring' /\ NoReply'
  BY QuietWillBeSilent, Zenon
<1>2. ~toggled' => ecc = nreq.ecc
  BY Zenon DEF EccInv, toggled
<1>3. b0' => nreq.ecc
  BY Zenon DEF EccInv
<1> HIDE DEF NoSwitch, NoReply, Restoring, toggled
<1> QED
  BY <1>1, <1>2, <1>3, Zenon DEF EccInv, Ends

\* A request for a batch, or about the chip, switches nothing.
LEMMA BeforeNoSwitch ==
    ASSUME QueueInv, npc \in Before
    PROVE  NoSwitch
<1>1. npc \in Synced
  BY Zenon DEF Synced
<1>2. toAgent = <<Request>> \/ toAgent = <<>>
  BY <1>1, Zenon DEF QueueInv
<1>3. Request.op # "FEATURE_SET"
  BY RequestIs, OpTable, Zenon DEF Before
<1>4. PICK q : q = Request
  OBVIOUS
<1>5. Len(<<q>>) = 1 /\ <<q>>[1] = q /\ 1..1 = {1}
  BY SMT
<1> QED
  BY <1>2, <1>3, <1>4, <1>5, QuietIsSilent, Zenon DEF NoSwitch

\* Where a failure leads, and whether the user is told.
LEMMA FailWarns ==
    ASSUME Fail
    PROVE  \/ npc' \in {"drain", "ready"}
           \/ warned' /\ npc' \in {"failed", "sidecar"}
           \/ toggled /\ npc \in Guarded \ {"sync"} /\ npc' = "eccon" /\ sent' = FALSE
           \/ npc' = "failed" /\ ~(npc \in Guarded /\ toggled) /\ npc \notin {"sync", "eccon"}
<1> HIDE DEF Guarded, toggled
<1>1. CASE Leave /\ npc \notin {"sync", "eccon"}
  BY <1>1, Zenon DEF Leave, Turn
<1>2. CASE ~(Leave /\ npc \notin {"sync", "eccon"})
  BY <1>2, Zenon DEF Fail, Turn
<1> QED
  BY <1>1, <1>2, Zenon


\* A request that fails.
LEMMA EccFails ==
    ASSUME NandTypeOK, QueueInv, FileInv, EccInv, npc \in DOMAIN NandOp, Fail, toAgent' = toAgent,
           ecc' = ecc, late => late',
           ~late' /\ npc \in Guarded \ {"sync"} => NoSwitch' /\ NoReply'
    PROVE  EccInv'
<1>1. UNCHANGED <<nreq, b0>>
  BY Zenon DEF Fail
<1>2. \/ npc' \in {"drain", "ready"}
      \/ warned' /\ npc' \in {"failed", "sidecar"}
      \/ toggled /\ npc \in Guarded \ {"sync"} /\ npc' = "eccon" /\ sent' = FALSE
      \/ npc' = "failed" /\ ~(npc \in Guarded /\ toggled) /\ npc \notin {"sync", "eccon"}
  BY FailWarns, Zenon
<1>3. (NoSwitch <=> NoSwitch') /\ (Restoring <=> Restoring')
  BY <1>1, Zenon DEF NoSwitch, Restoring
<1>4. ASSUME ~(npc \in Guarded /\ toggled), npc \notin {"sync", "eccon"}
      PROVE  ecc = nreq.ecc /\ NoSwitch
  <2>1. CASE ~toggled
    BY <2>1, Zenon DEF EccInv
  <2>2. CASE toggled
    <3>1. nreq.cmd = "dump" /\ npc \in Phases("dump")
      BY <2>2, Zenon DEF toggled, NandTypeOK
    <3>2. npc \in Before
      <4>1. Phases("dump") = Before \cup Loop \cup {"eccoff", "eccon", "sidecar", "done", "failed"}
        BY SMT DEF Phases
      <4>2. npc \in Synced
        BY <1>4, OpTable, Zenon
      <4> QED
        BY <1>4, <2>2, <3>1, <4>1, <4>2, Zenon DEF Guarded, Loop, Resync, Synced, Before
    <3> QED
      BY <3>2, BeforeNoSwitch, Zenon DEF FileInv
  <2> QED
    BY <2>1, <2>2, Zenon
<1>5. NoSwitch' => Restoring'
  BY <1>3, NoneIsRestoring, Zenon
<1> HIDE DEF NoSwitch, NoReply, Restoring, toggled, Guarded
<1>6. npc' = "eccon" => toggled /\ npc \in Guarded \ {"sync"}
  BY <1>2, Zenon
<1>7. npc' \in Ends /\ ~warned' => ecc = nreq.ecc /\ Restoring'
  BY <1>2, <1>3, <1>4, <1>5, Zenon DEF Ends
<1> QED
  BY <1>1, <1>3, <1>5, <1>6, <1>7, EccHolds, Zenon

\* _call has no answer in time, or one that refuses it, or read_memory a
\* packet out of place.
LEMMA EccGivesUp ==
    ASSUME NandTypeOK, QueueInv, FileInv, EccInv, Timeout \/ CallRefused \/ ReadFails
    PROVE  EccInv'
<1>1. CASE Timeout
  <2>1. sent /\ Fail /\ toAgent' = toAgent /\ toHost' = toHost /\ ecc' = ecc /\ npc \in DOMAIN NandOp
    BY <1>1, Zenon DEF Timeout, agent, wires, QueueInv
  <2>2. (late => late') /\ (~late' => toAgent' = <<>> /\ toHost' = <<>>)
    <3>1. IF toHost = <<>> /\ toAgent = <<>> THEN UNCHANGED nandFaults ELSE Delay
      BY <1>1, Zenon DEF Timeout
    <3> QED
      BY <2>1, <3>1, Zenon DEF nandFaults, Delay
  <2>3. ~late' => NoSwitch' /\ NoReply'
    BY <2>2, QuietWillBeSilent, Zenon
  <2> QED
    BY <2>1, <2>2, <2>3, EccFails, Zenon
<1>2. CASE CallRefused
  <2>1. /\ sent /\ Fail /\ toAgent' = toAgent /\ ecc' = ecc /\ npc \in DOMAIN NandOp
        /\ late' = late /\ npc \in Calls /\ toHost # <<>> /\ Head(toHost).kind = "ack"
    BY <1>2, Zenon DEF CallRefused, Take, Next1, agent, nandFaults, QueueInv
  <2>2. npc \notin Guarded \ {"sync"}
    <3> SUFFICES ASSUME npc \in Guarded \ {"sync"} PROVE FALSE
      OBVIOUS
    <3>1. npc \in Synced
      BY <2>1, OpTable, Zenon DEF Guarded, Synced, Before
    <3>2. toHost = <<Reply(NandOp[npc], val)>>
      BY <2>1, <3>1, Zenon DEF QueueInv, Answer
    <3>3. PICK x : x = Reply(NandOp[npc], val)
      OBVIOUS
    <3>4. x.kind = "nand"
      BY <3>3, Zenon DEF Reply
    <3>5. Head(toHost) = x
      BY <3>2, <3>3, SingleSeq, Zenon
    <3>6. "nand" # "ack"
      OBVIOUS
    <3> QED
      BY <2>1, <3>4, <3>5, <3>6, Zenon
  <2> QED
    BY <2>1, <2>2, EccFails, Zenon
<1>3. CASE ReadFails
  <2>1. /\ sent /\ Fail /\ toAgent' = toAgent /\ ecc' = ecc /\ npc \in DOMAIN NandOp
        /\ late' = late /\ npc \in Streams /\ toHost # <<>> /\ toHost' = Tail(toHost)
    BY <1>3, Zenon DEF ReadFails, Take, agent, nandFaults, QueueInv
  <2>2. ASSUME npc \in Guarded PROVE NoSwitch' /\ NoReply'
    <3>1. npc \in {"pages", "stat", "data"}
      BY <2>1, <2>2, Zenon DEF Guarded, Streams
    <3>2. /\ \A i \in 1..Len(toAgent) : toAgent[i].op \in PageOps
          /\ \A i \in 1..Len(toHost) : ~IsReply(toHost[i], "FEATURE_SET")
      BY <2>1, <3>1, BatchOnly, Zenon
    <3>3. Part(toHost', toHost)
      BY <2>1, TailSeq, Zenon DEF NandTypeOK
    <3>4. "FEATURE_SET" \notin PageOps
      BY DEF PageOps
    <3> QED
      BY <2>1, <3>2, <3>3, <3>4, Zenon DEF NoSwitch, NoReply, Part
  <2> QED
    BY <2>1, <2>2, EccFails, Zenon
<1> QED
  BY <1>1, <1>2, <1>3, Zenon

\* A request goes out: FEATURE_SET only after a switch, and at the end only
\* to restore.
LEMMA EccCall ==
    ASSUME NandTypeOK, QueueInv, FileInv, EccInv, Call
    PROVE  EccInv'
<1>1. /\ npc \in DOMAIN NandOp /\ ~sent /\ toHost' \in Cleared /\ sent' = TRUE
      /\ toAgent' = Append(toAgent, Request) \/ toAgent' = toAgent
      /\ npc' = npc /\ late' = late /\ UNCHANGED <<nreq, b0, ecc, warned>>
  BY Zenon DEF Call, command, agent, nandFaults, Lose
<1>2. Part(toHost', toHost)
  BY <1>1, ClearedIs, Zenon
<1>3. toAgent' = toAgent \/ Grown(toAgent', toAgent, Request)
  <2>1. PICK q : q = Request
    OBVIOUS
  <2>2. ASeq(toAgent)
    BY Zenon DEF NandTypeOK
  <2>3. Grown(Append(toAgent, q), toAgent, q)
    BY <2>2, AppendSeq, Zenon
  <2> QED
    BY <1>1, <2>1, <2>3, Zenon
<1>4. npc \notin Ends
  BY <1>1, OpTable, SMT DEF Ends, Synced, Before
<1>5. ASSUME ~toggled, NoSwitch PROVE NoSwitch'
  <2>1. npc # "eccoff" /\ npc # "eccon"
    BY <1>5, Zenon DEF FileInv, EccInv
  <2>2. Request.op # "FEATURE_SET"
    BY <1>1, <2>1, RequestIs, OpTable, ZenonT(40) DEF Synced, Before
  <2> QED
    BY <1>3, <1>5, <2>2, Zenon DEF NoSwitch, Grown
<1>6. ASSUME ~late, npc = "eccon" PROVE Restoring' /\ NoReply'
  <2>1. NoSwitch /\ NoReply /\ Restoring /\ nreq.ecc
    <3>1. toggled
      BY <1>6, Zenon DEF EccInv
    <3>2. b0
      BY <3>1, Zenon DEF toggled
    <3> QED
      BY <1>1, <1>6, <3>2, Zenon DEF EccInv
  <2>2. Request.value
    BY <1>6, RequestIs, Zenon
  <2>3. Restoring'
    BY <1>1, <1>3, <2>1, <2>2, Zenon DEF Restoring, Grown
  <2> QED
    BY <1>2, <2>1, <2>3, Zenon DEF NoReply, Part
<1>7. npc' = "eccon" => toggled
  BY <1>1, Zenon DEF EccInv
<1> HIDE DEF NoSwitch, NoReply, Restoring, toggled, Ends
<1> QED
  BY <1>1, <1>4, <1>5, <1>6, <1>7, EccHolds, Zenon

\* The agent takes a request.
LEMMA EccAgent ==
    ASSUME NandTypeOK, QueueInv, FileInv, EccInv, AgentStep
    PROVE  EccInv'
<1>1. PICK r : r = Head(toAgent)
  OBVIOUS
<1>2. /\ toAgent # <<>> /\ toAgent' = Tail(toAgent) /\ (handle_nand(r) \/ handle_read(r))
      /\ UNCHANGED <<npc, sent, late, nreq, b0, warned>>
  BY <1>1, Zenon DEF AgentStep, command, nandFaults
<1>3. Part(toAgent', toAgent) /\ r = toAgent[1] /\ 1 \in 1..Len(toAgent)
  BY <1>1, <1>2, TailSeq, Zenon DEF NandTypeOK
<1>4. Good(r)
  BY <1>3, Zenon DEF QueueInv
<1>5. /\ Answered(toHost', toHost, r.op) /\ ecc' \in BOOLEAN
      /\ r.op # "FEATURE_SET" => ecc' = ecc
  BY <1>2, <1>4, AgentOut, Zenon
<1>6. r.op = "FEATURE_SET" => ecc' = IF nreq.sticky THEN ecc ELSE r.value
  BY <1>2, Handled, Zenon DEF SetFeature
<1>7. (NoSwitch => NoSwitch') /\ (Restoring => Restoring')
  BY <1>2, <1>3, Zenon DEF NoSwitch, Restoring, Part
<1>8. NoSwitch => ecc' = ecc
  BY <1>3, <1>5, Zenon DEF NoSwitch
<1>9. ASSUME Restoring, ecc = nreq.ecc \/ r.op = "FEATURE_SET" PROVE ecc' = nreq.ecc
  <2>1. CASE r.op # "FEATURE_SET"
    BY <1>5, <1>9, <2>1, Zenon
  <2>2. CASE r.op = "FEATURE_SET" /\ nreq.sticky
    BY <1>6, <2>2, Zenon DEF EccInv
  <2>3. CASE r.op = "FEATURE_SET" /\ ~nreq.sticky
    <3>1. ecc' = r.value /\ r.value /\ nreq.ecc
      BY <1>3, <1>6, <1>9, <2>3, Zenon DEF Restoring
    <3>2. nreq.ecc \in BOOLEAN
      BY NandAssumption, Zenon DEF NandTypeOK
    <3> QED
      BY <1>5, <3>1, <3>2, Zenon
  <2> QED
    BY <2>1, <2>2, <2>3, Zenon
<1>10. r.op # "FEATURE_SET" /\ NoReply => NoReply'
  <2> SUFFICES ASSUME r.op # "FEATURE_SET", NoReply PROVE NoReply'
    OBVIOUS
  <2>1. \A i \in 1..Len(toHost') : ~IsReply(toHost'[i], "FEATURE_SET")
    BY <1>5, Zenon DEF Answered, NoReply, IsReply
  <2> QED
    BY <2>1, Zenon DEF NoReply
<1>11. nreq.sticky => ecc' = nreq.ecc
  BY <1>5, <1>6, Zenon DEF EccInv
<1>12. toggled' <=> toggled
  BY <1>2, Zenon DEF toggled
<1>13. NoSwitch => r.op # "FEATURE_SET"
  BY <1>3, Zenon DEF NoSwitch
<1>14. ~toggled => ecc' = nreq.ecc /\ NoSwitch'
  BY <1>7, <1>8, Zenon DEF EccInv
<1>15. ASSUME ~late, npc = "eccon"
       PROVE  Restoring' /\ (ecc' = nreq.ecc \/ NoReply') /\ (~sent => NoSwitch' /\ NoReply')
  <2>1. Restoring /\ (ecc = nreq.ecc \/ NoReply) /\ (~sent => NoSwitch /\ NoReply)
    BY <1>15, Zenon DEF EccInv
  <2> HIDE DEF NoSwitch, NoReply, Restoring
  <2> QED
    BY <1>7, <1>9, <1>10, <1>13, <2>1, Zenon
<1>16. ASSUME ~late, npc \in Ends, ~warned
       PROVE  ecc' = nreq.ecc /\ Restoring'
  BY <1>7, <1>9, <1>16, Zenon DEF EccInv, Ends
<1>17. (b0 => nreq.ecc) /\ (npc = "eccon" => toggled)
  BY Zenon DEF EccInv
<1> HIDE DEF NoSwitch, NoReply, Restoring, toggled
<1> QED
  BY <1>2, <1>11, <1>12, <1>14, <1>15, <1>16, <1>17, Zenon DEF EccInv, Ends

\* Answers to a phase's own request.
LEMMA EccAnswered ==
    ASSUME NandTypeOK, QueueInv, FileInv, EccInv,
           ChipAnswered \/ FeatureAnswered \/ EccOffAnswered \/ PagesAnswered \/ ChangeAnswered
    PROVE  EccInv'
<1>1. {"info", "protect", "config", "status", "eccoff", "pages", "program", "erase"} \subseteq Synced
      /\ {"info", "protect", "config", "status", "eccoff", "pages", "program", "erase"} \subseteq Calls
  BY OpTable, Zenon DEF Synced, Before
<1>2. ASSUME NEW p \in {"info", "protect", "config", "status", "eccoff", "pages", "program", "erase"},
             AnswerTo(p)
      PROVE  /\ npc = p /\ Says(val) /\ toAgent' = <<>> /\ toHost' = <<>> /\ ecc' = ecc /\ nreq' = nreq
  BY <1>1, <1>2, AnswerIs, Zenon DEF agent
<1>3. CASE ChipAnswered
  <2>1. AnswerTo("info") /\ b0' = b0
    BY <1>3, Zenon DEF ChipAnswered
  <2>2. nreq.cmd \in {"dump", "scan", "program", "erase"}
    BY <1>2, <2>1, PhaseOf, Zenon
  <2>3. npc' = [dump |-> "protect", scan |-> "pages", program |-> "stage", erase |-> "erase"][nreq.cmd]
    BY <1>3, Zenon DEF ChipAnswered, Turn
  <2>4. npc' # "eccon" /\ npc' \notin Ends
    BY <2>2, <2>3, SMT DEF Ends
  <2> QED
    BY <1>2, <2>1, <2>4, EccQuiet, Zenon
<1>4. CASE FeatureAnswered
  <2>1. CASE AnswerTo("config") /\ Turn("status") /\ b0' = val
    <3>1. b0' = nreq.ecc /\ ecc = nreq.ecc
      BY <1>2, <2>1, Zenon DEF Says, FileInv, Before
    <3>2. npc' # "eccon" /\ npc' \notin Ends
      BY <2>1, Zenon DEF Turn, Ends
    <3> QED
      BY <1>2, <2>1, <3>1, <3>2, EccQuiet, Zenon
  <2>2. CASE (AnswerTo("protect") \/ AnswerTo("status")) /\ b0' = b0 /\ npc' \in {"config", "eccoff", "pages"}
    <3>1. npc' # "eccon" /\ npc' \notin Ends
      BY <2>2, Zenon DEF Ends
    <3> QED
      BY <1>2, <2>2, <3>1, EccQuiet, Zenon
  <2> QED
    BY <1>4, <2>1, <2>2, Zenon DEF FeatureAnswered, Turn
<1>5. CASE EccOffAnswered
  <2>1. AnswerTo("eccoff") /\ b0' = b0 /\ npc' \in {"eccon", "pages"}
    BY <1>5, Zenon DEF EccOffAnswered, Turn
  <2>2. toggled' /\ npc' \notin Ends
    BY <1>2, <2>1, Zenon DEF FileInv, toggled, Ends
  <2> QED
    BY <1>2, <2>1, <2>2, EccQuiet, Zenon
<1>6. CASE PagesAnswered
  <2>1. AnswerTo("pages") /\ b0' = b0 /\ npc' # "eccon" /\ npc' \notin Ends
    BY <1>6, Zenon DEF PagesAnswered, Turn, Ends
  <2> QED
    BY <1>2, <2>1, EccQuiet, Zenon
<1>7. CASE ChangeAnswered
  <2>1. (AnswerTo("program") \/ AnswerTo("erase")) /\ b0' = b0 /\ npc' # "eccon"
    BY <1>7, Zenon DEF ChangeAnswered, Turn
  <2>2. nreq.cmd # "dump"
    BY <1>2, <2>1, PhaseOf, Zenon
  <2>3. ~toggled'
    BY <1>2, <2>1, <2>2, Zenon DEF toggled
  <2> QED
    BY <1>2, <2>1, <2>3, EccQuiet, Zenon
<1> QED
  BY <1>3, <1>4, <1>5, <1>6, <1>7, Zenon

\* The answer to the restoring FEATURE_SET: with none late, it is that one's.
LEMMA EccOn ==
    ASSUME NandTypeOK, QueueInv, EccInv, EccOnAnswered
    PROVE  EccInv'
<1>1. /\ npc = "eccon" /\ toHost # <<>> /\ IsReply(Head(toHost), NandOp[npc])
      /\ npc' \in {"failed", "sidecar"} /\ toAgent' = toAgent /\ UNCHANGED <<nreq, b0, ecc, late>>
  BY Zenon DEF EccOnAnswered, AnswerTo, Take, Mine, Next1, IsReply, Turn, agent, nandFaults
<1>2. Head(toHost) = toHost[1] /\ 1 \in 1..Len(toHost)
  BY <1>1, TailSeq, Zenon DEF NandTypeOK
<1>3. ~NoReply
  BY <1>1, <1>2, OpTable, Zenon DEF NoReply
<1>4. ~late => ecc = nreq.ecc /\ Restoring
  BY <1>1, <1>3, Zenon DEF EccInv
<1>5. (NoSwitch <=> NoSwitch') /\ (Restoring <=> Restoring')
  BY <1>1, Zenon DEF NoSwitch, Restoring
<1>6. npc' # "eccon"
  BY <1>1, Zenon
<1> HIDE DEF NoSwitch, NoReply, Restoring, toggled, Ends
<1> QED
  BY <1>1, <1>4, <1>5, <1>6, EccHolds, Zenon

\* The ends of streams, the check of a read and the staging of a page.
LEMMA EccStreams ==
    ASSUME NandTypeOK, QueueInv, EccInv,
           StatRead \/ DataRead \/ ScanRead \/ FlashRead \/ CrcAnswered \/ Stage
    PROVE  EccInv'
<1>1. ASSUME NEW p \in Streams, ReadEnds(p)
      PROVE  npc = p /\ toAgent' = <<>> /\ toHost' = <<>> /\ ecc' = ecc /\ nreq' = nreq /\ b0' = b0
  BY <1>1, StreamIs, Zenon DEF agent
<1>2. {"stat", "data", "flash"} \subseteq Streams
  BY Zenon DEF Streams
<1>3. CASE StatRead \/ FlashRead
  <2>1. (ReadEnds("stat") \/ ReadEnds("flash")) /\ npc' \in {"data", "crc"}
    BY <1>3, Zenon DEF StatRead, FlashRead, Turn
  <2>2. npc' # "eccon" /\ npc' \notin Ends
    BY <2>1, Zenon DEF Ends
  <2> QED
    BY <1>1, <1>2, <2>1, <2>2, EccQuiet, Zenon
<1>4. CASE DataRead
  <2>1. ReadEnds("data") /\ (npc' = "pages" \/ npc' = IF toggled THEN "eccon" ELSE "sidecar")
    BY <1>4, Zenon DEF DataRead, Turn
  <2>2. toggled' <=> toggled
    BY <1>1, <1>2, <2>1, Zenon DEF toggled
  <2> HIDE DEF toggled
  <2>3. (npc' = "eccon" => toggled') /\ (npc' \in Ends => ~toggled')
    BY <2>1, <2>2, Zenon DEF Ends
  <2> QED
    BY <1>1, <1>2, <2>1, <2>3, EccQuiet, Zenon
<1>5. CASE ScanRead
  <2>1. ReadEnds("stat") /\ nreq.cmd = "scan" /\ npc' \in {"pages", "done"}
    BY <1>5, Zenon DEF ScanRead, Turn
  <2>2. ~toggled' /\ npc' # "eccon"
    BY <1>1, <1>2, <2>1, Zenon DEF toggled
  <2> QED
    BY <1>1, <1>2, <2>1, <2>2, EccQuiet, Zenon
<1>6. CASE CrcAnswered \/ Stage
  <2>1. /\ npc \in {"crc", "stage"} /\ toAgent' = toAgent /\ UNCHANGED <<nreq, b0, ecc, late>>
        /\ npc' \in {"done", "failed", "program"}
    BY <1>6, Zenon DEF CrcAnswered, Stage, Take, Turn, command, agent, wires, nandFaults, Lose
  <2>2. ~toggled /\ npc' # "eccon"
    BY <2>1, PhaseOf, Zenon DEF toggled
  <2>3. (NoSwitch <=> NoSwitch') /\ (Restoring <=> Restoring')
    BY <2>1, Zenon DEF NoSwitch, Restoring
  <2>4. ecc = nreq.ecc /\ NoSwitch /\ Restoring
    BY <2>2, NoneIsRestoring, Zenon DEF EccInv
  <2> HIDE DEF NoSwitch, NoReply, Restoring, toggled, Ends
  <2> QED
    BY <2>1, <2>2, <2>3, <2>4, EccHolds, Zenon
<1> QED
  BY <1>3, <1>4, <1>5, <1>6, Zenon

\* resync, which may end in leaving, and the sidecar.
LEMMA EccResync ==
    ASSUME NandTypeOK, QueueInv, EccInv, Drain \/ SyncAnswered \/ AwaitReady \/ Sidecar
    PROVE  EccInv'
<1>1. /\ npc \in {"drain", "sync", "ready", "sidecar"} /\ toAgent' = toAgent
      /\ UNCHANGED <<nreq, b0, ecc, late>>
  <2>1. CASE Drain
    BY <2>1, Zenon DEF Drain, command, agent, nandFaults
  <2>2. CASE SyncAnswered
    BY <2>2, Zenon DEF SyncAnswered, AnswerTo, Take, agent, nandFaults
  <2>3. CASE AwaitReady
    BY <2>3, Zenon DEF AwaitReady, agent, nandFaults, Lose
  <2>4. CASE Sidecar
    BY <2>4, Zenon DEF Sidecar, agent, wires, nandFaults
  <2> QED
    BY <2>1, <2>2, <2>3, <2>4, Zenon
<1>2. (NoSwitch <=> NoSwitch') /\ (Restoring <=> Restoring')
  BY <1>1, Zenon DEF NoSwitch, Restoring
<1>3. CASE npc' \in {"sync", "pages"}
  <2>1. npc' # "eccon" /\ npc' \notin Ends
    BY <1>3, Zenon DEF Ends
  <2> HIDE DEF NoSwitch, NoReply, Restoring, toggled, Ends
  <2> QED
    BY <1>1, <1>2, <2>1, EccHolds, Zenon
<1>4. CASE AwaitReady /\ toHost' \in Cleared /\ Leave
  <2>1. /\ npc = "ready" /\ npc \in Guarded /\ npc \in Resync
        /\ IF toggled THEN npc' = "eccon" ELSE npc' = "failed"
    BY <1>4, Zenon DEF AwaitReady, Leave, Turn, Guarded, Resync
  <2>2. /\ \A i \in 1..Len(toAgent) : toAgent[i].op \in PageOps \cup {"INFO"}
        /\ NoReply
    BY <2>1, Zenon DEF QueueInv, NoReply
  <2>3. "FEATURE_SET" \notin PageOps \cup {"INFO"}
    BY DEF PageOps
  <2>4. NoSwitch /\ Restoring
    BY <2>2, <2>3, NoneIsRestoring, Zenon DEF NoSwitch
  <2>5. Part(toHost', toHost)
    BY <1>4, ClearedIs, Zenon
  <2>6. NoReply'
    BY <2>2, <2>5, Zenon DEF NoReply, Part
  <2>7. ~toggled => ecc = nreq.ecc
    BY Zenon DEF EccInv
  <2>8. npc' = "eccon" => toggled
    BY <2>1, Zenon
  <2>9. npc' \in Ends => ~toggled
    BY <2>1, Zenon DEF Ends
  <2> HIDE DEF NoSwitch, NoReply, Restoring, toggled, Ends
  <2> QED
    BY <1>1, <1>2, <2>4, <2>6, <2>7, <2>8, <2>9, EccHolds, Zenon
<1>5. CASE Sidecar
  <2>1. npc = "sidecar" /\ npc' \in {"done", "failed"} /\ warned' = warned
    BY <1>5, Zenon DEF Sidecar, Turn
  <2>2. ~late /\ ~warned => ecc = nreq.ecc /\ Restoring
    BY <2>1, Zenon DEF EccInv
  <2>3. npc' # "eccon"
    BY <2>1, Zenon
  <2> HIDE DEF NoSwitch, NoReply, Restoring, toggled, Ends
  <2> QED
    BY <1>1, <1>2, <2>1, <2>2, <2>3, EccHolds, Zenon
<1>6. (Drain => npc' = "sync") /\ (SyncAnswered => npc' = "pages")
      /\ (AwaitReady => npc' = "pages" \/ (toHost' \in Cleared /\ Leave))
  BY Zenon DEF Drain, SyncAnswered, AwaitReady, Turn
<1> HIDE DEF Leave, Cleared
<1> QED
  BY <1>3, <1>4, <1>5, <1>6, Zenon

LEMMA EccStep == NandInv /\ EccInv /\ [NandNext]_nandVars => EccInv'
<1> SUFFICES ASSUME NandTypeOK, QueueInv, FileInv, EccInv, [NandNext]_nandVars
             PROVE  EccInv'
  BY Zenon DEF NandInv
<1>1. CASE NandHost
  <2>1. CASE Call \/ Timeout \/ CallRefused \/ ReadFails
    BY <2>1, EccCall, EccGivesUp, Zenon
  <2>2. CASE SkipStale \/ DataReceived
    BY <2>2, EccPacket, Zenon
  <2>3. CASE \/ ChipAnswered \/ FeatureAnswered \/ EccOffAnswered \/ EccOnAnswered
             \/ PagesAnswered \/ ChangeAnswered
    BY <2>3, EccAnswered, EccOn, Zenon
  <2>4. CASE \/ Stage \/ StatRead \/ DataRead \/ ScanRead \/ FlashRead \/ CrcAnswered
    BY <2>4, EccStreams, Zenon
  <2>5. CASE Drain \/ SyncAnswered \/ AwaitReady \/ Sidecar
    BY <2>5, EccResync, Zenon
  <2> QED
    BY <1>1, <2>1, <2>2, <2>3, <2>4, <2>5, Zenon DEF NandHost
<1>2. CASE AgentStep
  BY <1>2, EccAgent, Zenon
<1>3. CASE LosePacket
  BY <1>3, EccPacket, Zenon
<1>4. CASE UNCHANGED nandVars
  BY <1>4, Zenon DEF nandVars, command, agent, wires, nandFaults, EccInv, NoSwitch, Restoring,
     NoReply, toggled
<1> QED
  BY <1>1, <1>2, <1>3, <1>4, Zenon DEF NandNext

\* A dump leaves the on-die ECC as it found it, or says that it could not (the
\* "finally" of nand_dump), on every path out of it, unless an answer came
\* after its timeout, for every chip, range, buffer, number of tries, losses
\* and delays.
THEOREM EccIsRestored == NandSpec => []EccRestored
<1>1. NandInit => EccInv
  <2> SUFFICES ASSUME NandInit PROVE EccInv
    OBVIOUS
  <2>1. /\ npc = (IF nreq.cmd = "read" THEN "flash" ELSE "info") /\ b0 = FALSE
        /\ toAgent = <<>> /\ ecc = nreq.ecc
    BY Zenon DEF NandInit
  <2>2. npc # "eccon" /\ npc \notin {"sidecar", "done", "failed"} /\ ~b0
    BY <2>1, Zenon
  <2>3. NoSwitch
    BY <2>1, QuietIsSilent, Zenon
  <2> HIDE DEF NoSwitch
  <2> QED
    BY <2>1, <2>2, <2>3, Zenon DEF EccInv
<1>2. EccInv => EccRestored
  BY Zenon DEF EccInv, EccRestored, NandEnded
<1> QED
  BY <1>1, <1>2, EccStep, NandInvariant, PTL DEF NandSpec
=============================================================================
