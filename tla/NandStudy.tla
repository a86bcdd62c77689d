----------------------------- MODULE NandStudy -----------------------------
(***************************************************************************)
(* The commands that ask the agent for one thing at a time: "agent nand"   *)
(* (defib/cli/nand.py, defib/agent/nand.py) and "agent read"               *)
(* (defib/cli/app.py, read_memory and crc32 of defib/agent/client.py),     *)
(* against handle_nand, handle_read and handle_crc32 of agent/main.c.      *)
(*                                                                         *)
(* An answer names the operation it is for but not the request: after the  *)
(* host has given a request up, its answer may still come and be taken for *)
(* the next one.  Requests and packets are lost, answers are late, and     *)
(* pages fail.  The link is a queue in each direction.                     *)
(***************************************************************************)
EXTENDS Naturals, Sequences, FiniteSets

CONSTANTS
    NandRequests,   \* the commands given to defib, with the chip they meet
    Pages,          \* pages of the chip
    Batch,          \* pages that fit in the agent's buffer
    Tries,          \* tries of _read_batch
    MaxLosses,      \* bound on lost requests and packets
    MaxDelays       \* bound on answers that come after their timeout

\* A command is for at least one page, of the chip.
ASSUME NandAssumption ==
    /\ Pages \in Nat /\ Batch \in Nat \ {0}
    /\ \A r \in NandRequests :
         /\ r.cmd \in {"dump", "scan", "program", "erase", "read"}
         /\ r.start \in Nat /\ r.count \in Nat \ {0} /\ r.start + r.count <= Pages
         /\ {r.ecc, r.keep, r.sticky} \subseteq BOOLEAN

VARIABLES
    nreq,      \* the command
    npc,       \* where it is
    sent,      \* its current request is out
    stale,     \* _call is inside an abandoned stream
    rcv,       \* what read_memory has received
    page,      \* next page to read
    trial,     \* attempt of _read_batch
    recs,      \* records of the batch: did the page fail
    records,   \* records kept
    b0,        \* what FEATURE_GET said of the on-die ECC
    saved,     \* content of the output file
    sidecar,   \* content of the JSON beside it
    error,     \* an exception is on its way through "finally"
    warned,    \* the ECC could not be restored, and the user is told
    toAgent,   \* requests on their way
    toHost,    \* packets on their way
    ecc,       \* the chip's on-die ECC is on
    mem,       \* what each page holds
    dma, stat, \* the agent's page and record buffers
    losses, delays,
    late       \* some answer came after its timeout

command == <<nreq, page, trial, recs, records, b0, saved, sidecar, error, warned>>
agent == <<ecc, mem, dma, stat>>
wires == <<toAgent, toHost>>
nandFaults == <<losses, delays, late>>
nandVars == <<npc, sent, stale, rcv, command, agent, wires, nandFaults>>

NoSidecar == [there |-> FALSE, complete |-> FALSE, ondie |-> FALSE, pages |-> 0]

Junk == <<Pages, "junk", FALSE>>

NandInit ==
    /\ nreq \in NandRequests
    /\ npc = (IF nreq.cmd = "read" THEN "flash" ELSE "info")
    /\ sent = FALSE /\ stale = FALSE /\ rcv = <<>>
    /\ page = nreq.start /\ trial = 1
    /\ recs = <<>> /\ records = <<>> /\ b0 = FALSE
    /\ saved = <<>> /\ sidecar = NoSidecar /\ error = FALSE /\ warned = FALSE
    /\ toAgent = <<>> /\ toHost = <<>>
    /\ ecc = nreq.ecc
    /\ mem = [p \in 0..Pages - 1 |-> "old"]
    /\ dma = [i \in 1..Batch |-> Junk] /\ stat = [i \in 1..Batch |-> FALSE]
    /\ losses = MaxLosses /\ delays = MaxDelays /\ late = FALSE

Lose == losses > 0 /\ losses' = losses - 1 /\ UNCHANGED <<delays, late>>
Delay == delays > 0 /\ delays' = delays - 1 /\ late' = TRUE /\ UNCHANGED losses

(***************************************************************************)
(* The agent.                                                              *)
(***************************************************************************)
Reply(op, v) == [kind |-> "nand", op |-> op, seq |-> 0, val |-> v]
DataPacket(i, v) == [kind |-> "data", op |-> "data", seq |-> i, val |-> v]
Ack == [kind |-> "ack", op |-> "ack", seq |-> 0, val |-> TRUE]
Stream(s) == [i \in 1..Len(s) |-> DataPacket(i - 1, s[i])] \o <<Ack>>

\* What a page reads as: its bits, or with on-die ECC the corrected ones.
Reads(p, e) == <<p, mem[p], e>>

\* READ_PAGES goes through the first page that fails, and counts it.
Done(start, count) ==
    {n \in 1..count :
        /\ \A i \in 1..n - 1 : start + i - 1 \notin nreq.bad
        /\ n = count \/ start + n - 1 \in nreq.bad}

ReadPages(r) == \E done \in Done(r.start, r.count) :
    /\ stat' = [i \in 1..Batch |-> IF i <= done THEN r.start + i - 1 \in nreq.bad ELSE stat[i]]
    /\ dma' = [i \in 1..Batch |->
                 IF r.store /\ i <= done /\ r.start + i - 1 \notin nreq.bad
                 THEN Reads(r.start + i - 1, ecc) ELSE dma[i]]
    /\ toHost' = Append(toHost, Reply(r.op, done))
    /\ UNCHANGED <<ecc, mem>>

\* A chip may not let its on-die ECC be switched.
SetFeature(r) ==
    /\ ecc' = IF nreq.sticky THEN ecc ELSE r.value
    /\ toHost' = Append(toHost, Reply(r.op, ecc'))
    /\ UNCHANGED <<mem, dma, stat>>

\* PROGRAM_PAGE and ERASE_BLOCK (of one page here) answer with a record.
Change(r, content) ==
    /\ mem' = IF r.start \in nreq.bad THEN mem ELSE [mem EXCEPT ![r.start] = content]
    /\ toHost' = Append(toHost, Reply(r.op, IF r.start \in nreq.bad THEN 1 ELSE 0))
    /\ UNCHANGED <<ecc, dma, stat>>

handle_nand(r) ==
    \/ r.op = "INFO" /\ toHost' = Append(toHost, Reply("INFO", Pages)) /\ UNCHANGED agent
    \/ /\ r.op = "FEATURE_GET"
       /\ toHost' = Append(toHost, Reply(r.op, r.value /\ ecc)) /\ UNCHANGED agent
    \/ r.op = "FEATURE_SET" /\ SetFeature(r)
    \/ r.op = "READ_PAGES" /\ ReadPages(r)
    \/ r.op = "PROGRAM_PAGE" /\ Change(r, dma[1][2])
    \/ r.op = "ERASE_BLOCK" /\ Change(r, "erased")

FlashContent == [i \in 1..nreq.count |-> mem[nreq.start + i - 1]]

\* handle_read streams one of the buffers, or flash; handle_crc32 sums it.
handle_read(r) ==
    /\ r.op \in {"READ_STAT", "READ_DMA", "READ_FLASH", "CRC32"}
    /\ toHost' = toHost \o
         (CASE r.op = "READ_STAT" -> Stream(SubSeq(stat, 1, r.count))
            [] r.op = "READ_DMA" -> Stream(SubSeq(dma, 1, r.count))
            [] r.op = "READ_FLASH" -> Stream(FlashContent)
            [] OTHER -> <<[Reply("CRC32", FlashContent) EXCEPT !.kind = "crc"]>>)
    /\ UNCHANGED agent

AgentStep ==
    /\ toAgent # <<>>
    /\ toAgent' = Tail(toAgent)
    /\ handle_nand(Head(toAgent)) \/ handle_read(Head(toAgent))
    /\ UNCHANGED <<npc, sent, stale, rcv, command, nandFaults>>

\* A packet fails its CRC and is dropped by recv_packet.
LosePacket ==
    /\ toHost # <<>> /\ Lose
    /\ toHost' = Tail(toHost)
    /\ UNCHANGED <<npc, sent, stale, rcv, command, agent, toAgent>>

(***************************************************************************)
(* The host: a request per phase.                                          *)
(***************************************************************************)
NandOp == [info |-> "INFO", protect |-> "FEATURE_GET", config |-> "FEATURE_GET",
           status |-> "FEATURE_GET", eccoff |-> "FEATURE_SET", eccon |-> "FEATURE_SET",
           pages |-> "READ_PAGES", sync |-> "INFO", program |-> "PROGRAM_PAGE",
           erase |-> "ERASE_BLOCK", stat |-> "READ_STAT", data |-> "READ_DMA",
           flash |-> "READ_FLASH", crc |-> "CRC32"]

Streams == {"stat", "data", "flash"}
Calls == DOMAIN NandOp \ (Streams \cup {"crc"})

Least(a, b) == IF a < b THEN a ELSE b

\* The pages still wanted, at most a buffer of them.
BatchSize == Least(Batch, nreq.start + nreq.count - page)

Request ==
    [op |-> NandOp[npc], start |-> IF npc = "pages" THEN page ELSE nreq.start,
     count |-> CASE npc = "pages" -> BatchSize [] npc = "flash" -> nreq.count
                 [] OTHER -> Len(recs),
     store |-> nreq.cmd = "dump", value |-> npc \in {"config", "eccon"}]

\* What is left after _clear_rx_buffers, which drops what was received.
Cleared == {SubSeq(toHost, i, Len(toHost)) : i \in 1..Len(toHost) + 1}

Call ==
    /\ npc \in DOMAIN NandOp /\ ~sent
    /\ toHost' \in Cleared
    /\ sent' = TRUE /\ stale' = FALSE /\ rcv' = <<>>
    /\ \/ toAgent' = Append(toAgent, Request) /\ UNCHANGED nandFaults
       \/ Lose /\ UNCHANGED toAgent
    /\ UNCHANGED <<npc, command, agent>>

Turn(p) == npc' = p /\ sent' = FALSE

\* Leaving for good: through the "finally" of dump if the ECC was switched.
toggled == nreq.cmd = "dump" /\ ~nreq.keep /\ b0
Guarded == {"eccoff", "pages", "stat", "data", "sync", "ready"}

Leave ==
    /\ error' = TRUE
    /\ IF npc \in Guarded /\ toggled THEN Turn("eccon") ELSE Turn("failed")
    /\ UNCHANGED <<trial, warned>>

\* As Fail below, but the ECC is restored only after a dump that went well.
FailUnrestored ==
    /\ \/ npc \in {"pages", "stat", "data"} /\ nreq.cmd = "dump" /\ trial < Tries
          /\ Turn("drain") /\ UNCHANGED <<trial, error, warned>>
       \/ ~(npc \in {"pages", "stat", "data"} /\ nreq.cmd = "dump" /\ trial < Tries)
          /\ error' = TRUE /\ Turn("failed") /\ UNCHANGED <<trial, warned>>
    /\ UNCHANGED <<nreq, page, recs, records, b0, saved, sidecar, rcv, stale>>

\* A request fails.  _read_batch resynchronises and tries again; resync
\* waits for READY; a failure to restore the ECC is only reported.
Fail ==
    /\ \/ npc \in {"pages", "stat", "data"} /\ nreq.cmd = "dump" /\ trial < Tries
          /\ Turn("drain") /\ UNCHANGED <<trial, error, warned>>
       \/ npc = "sync" /\ Turn("ready") /\ UNCHANGED <<trial, error, warned>>
       \/ npc = "eccon" /\ warned' = TRUE
          /\ Turn(IF error THEN "failed" ELSE "sidecar") /\ UNCHANGED <<trial, error>>
       \/ npc \notin {"sync", "eccon"}
          /\ ~(npc \in {"pages", "stat", "data"} /\ nreq.cmd = "dump" /\ trial < Tries)
          /\ Leave
    /\ UNCHANGED <<nreq, page, recs, records, b0, saved, sidecar, rcv, stale>>

\* No answer in time: none will come, or it is late.
Timeout ==
    /\ sent
    /\ IF toHost = <<>> /\ toAgent = <<>> THEN UNCHANGED nandFaults ELSE Delay
    /\ Fail
    /\ UNCHANGED <<agent, wires>>

Next1 == Head(toHost)
Take == sent /\ toHost # <<>> /\ toHost' = Tail(toHost) /\ UNCHANGED <<toAgent, agent, nandFaults>>

\* The answer _call waits for.
Mine == Next1.kind = "nand" /\ Next1.op = NandOp[npc]

\* Left over from an exchange the host gave up: _call skips it.  An ACK with
\* no data before it comes from an agent that has no CMD_NAND.
SkipStale ==
    /\ npc \in Calls /\ Take /\ ~Mine
    /\ Next1.kind = "ack" => stale
    /\ stale' = (Next1.kind = "data")
    /\ UNCHANGED <<npc, sent, rcv, command>>

CallRefused ==
    /\ npc \in Calls /\ Take /\ Next1.kind = "ack" /\ ~stale
    /\ Fail

\* The answer to the request of phase p; val is what it says.
AnswerTo(p) == npc = p /\ Take /\ Mine /\ UNCHANGED <<stale, rcv, nreq, warned>>
val == Next1.val

ChipAnswered ==
    /\ AnswerTo("info")
    /\ Turn([dump |-> "protect", scan |-> "pages", program |-> "stage",
             erase |-> "erase"][nreq.cmd])
    /\ UNCHANGED <<page, trial, recs, records, b0, saved, sidecar, error>>

\* _features: the three registers, of which the second has the ECC bit.
FeatureAnswered ==
    /\ \/ AnswerTo("protect") /\ Turn("config") /\ UNCHANGED b0
       \/ AnswerTo("config") /\ Turn("status") /\ b0' = val
       \/ AnswerTo("status") /\ Turn(IF toggled THEN "eccoff" ELSE "pages") /\ UNCHANGED b0
    /\ UNCHANGED <<page, trial, recs, records, saved, sidecar, error>>

\* The chip says whether it switched; if it did not, the dump is refused.
EccOffAnswered ==
    /\ AnswerTo("eccoff")
    /\ IF val THEN Turn("eccon") /\ error' = TRUE ELSE Turn("pages") /\ UNCHANGED error
    /\ UNCHANGED <<page, trial, recs, records, b0, saved, sidecar>>

EccOnAnswered ==
    /\ AnswerTo("eccon")
    /\ Turn(IF error THEN "failed" ELSE "sidecar")
    /\ UNCHANGED <<page, trial, recs, records, b0, saved, sidecar, error>>

\* The pages are in the agent's buffer: their records are read next.
PagesAnswered ==
    /\ AnswerTo("pages")
    /\ recs' = [i \in 1..val |-> FALSE]
    /\ Turn("stat")
    /\ UNCHANGED <<page, trial, records, b0, saved, sidecar, error>>

\* As ChangeAnswered below, but without looking at the record.
ChangeAnsweredBlindly ==
    /\ AnswerTo("program") \/ AnswerTo("erase")
    /\ Turn("done")
    /\ UNCHANGED <<page, trial, recs, records, b0, saved, sidecar, error>>

\* program_page and erase_block: the record says whether it worked.
ChangeAnswered ==
    /\ AnswerTo("program") \/ AnswerTo("erase")
    /\ Turn(IF val = 0 THEN "done" ELSE "failed")
    /\ UNCHANGED <<page, trial, recs, records, b0, saved, sidecar, error>>

\* write_memory stages the page, or reports that it could not.
Stage ==
    /\ npc = "stage"
    /\ \/ /\ dma' = [dma EXCEPT ![1] = <<nreq.start, "new", FALSE>>]
          /\ Turn("program") /\ UNCHANGED nandFaults
       \/ Lose /\ Turn("failed") /\ UNCHANGED dma
    /\ UNCHANGED <<stale, rcv, command, ecc, mem, stat, wires>>

(***************************************************************************)
(* read_memory: packets in sequence, then an ACK for all of them.          *)
(***************************************************************************)
Expected == IF npc = "flash" THEN nreq.count ELSE Len(recs)

InSequence == Next1.kind = "data" /\ Next1.seq = Len(rcv)
AllReceived == Next1.kind = "ack" /\ Len(rcv) = Expected

DataReceived ==
    /\ npc \in Streams /\ Take /\ InSequence
    /\ rcv' = Append(rcv, Next1.val)
    /\ UNCHANGED <<npc, sent, stale, command>>

ReadFails ==
    /\ npc \in Streams /\ Take /\ ~InSequence /\ ~AllReceived
    /\ Fail

ReadEnds(p) == npc = p /\ Take /\ AllReceived /\ UNCHANGED <<stale, rcv, nreq, warned, b0, sidecar>>

\* As Kept below, but with the page that failed.
KeptAll == Len(recs)

\* The pages of the batch to keep: not the one that failed.
Kept == IF recs[Len(recs)] THEN Len(recs) - 1 ELSE Len(recs)

\* A batch of dump has its records; its data is read next.
StatRead ==
    /\ nreq.cmd = "dump" /\ ReadEnds("stat")
    /\ recs' = rcv
    /\ Turn("data")
    /\ UNCHANGED <<page, trial, records, saved, error>>

\* A batch of dump is in: the file grows, and the dump goes on unless a page
\* failed.
DataRead ==
    /\ ReadEnds("data")
    /\ saved' = saved \o SubSeq(rcv, 1, Kept)
    /\ records' = records \o SubSeq(recs, 1, Kept)
    /\ page' = page + Kept /\ trial' = 1
    /\ IF Kept = BatchSize /\ page + Kept < nreq.start + nreq.count THEN Turn("pages")
       ELSE Turn(IF toggled THEN "eccon" ELSE "sidecar")
    /\ UNCHANGED <<recs, error>>

\* A batch of ecc-scan: only the records are kept; it stops early when the
\* agent did.
ScanRead ==
    /\ nreq.cmd = "scan" /\ ReadEnds("stat")
    /\ records' = records \o rcv
    /\ page' = page + Len(rcv)
    /\ Turn(IF Len(rcv) = BatchSize /\ page + Len(rcv) < nreq.start + nreq.count
            THEN "pages" ELSE "done")
    /\ UNCHANGED <<trial, recs, saved, error>>

\* "agent read": the file is written before it is verified.
FlashRead ==
    /\ ReadEnds("flash")
    /\ saved' = rcv
    /\ Turn("crc")
    /\ UNCHANGED <<page, trial, recs, records, error>>

CrcAnswered ==
    /\ npc = "crc" /\ Take /\ Next1.kind = "crc"
    /\ Turn(IF Next1.val = saved THEN "done" ELSE "failed")
    /\ UNCHANGED <<stale, rcv, command>>

(***************************************************************************)
(* resync.                                                                 *)
(***************************************************************************)
\* Read until the line is quiet, or for a minute.
Drain ==
    /\ npc = "drain"
    /\ toHost' \in Cleared
    /\ Turn("sync")
    /\ UNCHANGED <<stale, rcv, command, agent, toAgent, nandFaults>>

SyncAnswered ==
    /\ AnswerTo("sync")
    /\ trial' = trial + 1
    /\ Turn("pages")
    /\ UNCHANGED <<page, recs, records, b0, saved, sidecar, error>>

\* wait_for_ready at the fallback rate.  The agent says READY only after seconds
\* without a request, when it has answered all that reached it, and the host
\* drops what came before READY and what is waiting after it.
AwaitReady ==
    /\ npc = "ready"
    /\ \/ /\ toAgent = <<>> /\ toHost' = <<>>
          /\ trial' = trial + 1 /\ Turn("pages") /\ UNCHANGED <<error, warned, nandFaults>>
       \/ toHost' \in Cleared /\ Lose /\ Leave
    /\ UNCHANGED <<stale, rcv, nreq, page, recs, records, b0, saved, sidecar, agent, toAgent>>

\* The sidecar says what the file holds; a dump that stopped early fails.
Sidecar ==
    /\ npc = "sidecar"
    /\ LET complete == page = nreq.start + nreq.count IN
       /\ sidecar' = [there |-> TRUE, complete |-> complete,
                      ondie |-> b0 /\ ~toggled, pages |-> Len(records)]
       /\ Turn(IF complete THEN "done" ELSE "failed")
    /\ UNCHANGED <<stale, rcv, nreq, page, trial, recs, records, b0, saved, error, warned,
                   agent, wires, nandFaults>>

NandHost ==
    \/ Call \/ Timeout \/ SkipStale \/ CallRefused
    \/ ChipAnswered \/ FeatureAnswered \/ EccOffAnswered \/ EccOnAnswered
    \/ PagesAnswered \/ ChangeAnswered \/ Stage
    \/ DataReceived \/ ReadFails \/ StatRead \/ DataRead \/ ScanRead \/ FlashRead
    \/ CrcAnswered \/ Drain \/ SyncAnswered \/ AwaitReady \/ Sidecar

NandNext == NandHost \/ AgentStep \/ LosePacket

NandSpec == NandInit /\ [][NandNext]_nandVars

NandEnded == npc \in {"done", "failed"}

(***************************************************************************)
(* Properties.                                                             *)
(***************************************************************************)
\* The sidecar of "nand dump" describes the file: page after page from the
\* first, raw or corrected as it says, no failed page among them, and all
\* that were asked for if it says complete, whatever was lost, late or taken
\* for another request's answer on the way (nand_dump, _read_batch, _call).
SidecarTrue ==
    sidecar.there =>
        /\ Len(saved) = sidecar.pages /\ Len(records) = sidecar.pages
        /\ \A i \in 1..Len(saved) : saved[i] = Reads(nreq.start + i - 1, sidecar.ondie)
        /\ sidecar.complete => sidecar.pages = nreq.count
        /\ nreq.keep \/ ~sidecar.ondie

\* A command that reports success did what it says: the file of "agent read"
\* is flash, the page of write-page and erase-block holds what it should, and
\* ecc-scan has each page's own record (_call, read_memory, crc32).
NandSuccess ==
    npc = "done" =>
        /\ nreq.cmd = "read" => saved = FlashContent
        /\ nreq.cmd = "program" => mem[nreq.start] = "new"
        /\ nreq.cmd = "erase" => mem[nreq.start] = "erased"
        /\ nreq.cmd = "scan" =>
             \A i \in 1..Len(records) : records[i] <=> nreq.start + i - 1 \in nreq.bad

\* dump leaves the chip's on-die ECC as it found it, or says that it could
\* not, on every path out of it; only an answer that comes after its timeout
\* can be taken for the restore's (the "finally" of nand_dump).
EccRestored ==
    NandEnded /\ toAgent = <<>> /\ ~warned /\ ~late => ecc = nreq.ecc
=============================================================================
