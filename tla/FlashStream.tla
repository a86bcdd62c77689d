---------------------------- MODULE FlashStream ----------------------------
(***************************************************************************)
(* `defib agent flash`: the host streams a firmware image to the flash     *)
(* agent over a UART, the agent erases and programs sector by sector from  *)
(* a double buffer, the host then compares a CRC32 and reboots the camera. *)
(*                                                                         *)
(* The host is write_flash/crc32/reboot of agent/client.py as called by    *)
(* the CLI, the agent is handle_flash_stream and the main loop of          *)
(* agent/main.c.  A DATA packet carries one page.  CRC32 is a perfect      *)
(* fingerprint: a corrupted packet is recognised as such, and two contents *)
(* with the same CRC are equal.  The READY packets of the idle loop are    *)
(* left out: recv_response discards them without extending its deadline.   *)
(***************************************************************************)
EXTENDS Integers, Sequences

CONSTANTS
    FlashSectors,   \* number of erase sectors of the chip
    SecPages,       \* pages per sector
    ImgSectors,     \* sectors the image occupies (the last one maybe partly)
    LastPages,      \* pages of the image in its last sector
    Image,          \* Image[s][p]: content of page p of sector s of the image
    Data,           \* possible contents of a page
    FF,             \* the content of an erased page
    Junk,           \* any content that is no page of the image
    Verify,         \* the CLI's --verify (on by default)
    MaxFaults,      \* bound on link, flash and timing faults of one run
    MaxRuns         \* bound on runs of the command

ASSUME FlashAssumption ==
    /\ FlashSectors \in Nat /\ ImgSectors \in Nat \ {0} /\ ImgSectors <= FlashSectors
    /\ SecPages \in Nat /\ LastPages \in 1..SecPages
    /\ FF \in Data /\ Junk \notin Data
    /\ Image \in [0..ImgSectors-1 -> [0..SecPages-1 -> Data]]
    /\ MaxFaults \in Nat /\ MaxRuns \in Nat

ASSUME VerifyAssumption == Verify \in BOOLEAN

VARIABLES
    hpc,      \* where the host is in the command
    hs,       \* host: sector being sent
    sent,     \* host: pages of it already sent
    apc,      \* where the agent is
    asec,     \* agent: sector of the loop in handle_flash_stream
    got,      \* agent: pages of it received so far (buf_received)
    buf,      \* agent: the two sector buffers
    rx,       \* agent: index of the buffer being filled (rx_buf)
    pending,  \* agent: index of the buffer still to be programmed, or -1
    psec,     \* agent: the sector that buffer belongs to (pending_addr)
    flash,    \* content of the flash chip
    chip,     \* agent: sectors of the chip flash_init found, 0 if it found none
    h2d, d2h, \* packets on the wire, each way
    spoiled,  \* history: sectors where a page program failed unnoticed in this run
    faults, runs

host == <<hpc, hs, sent>>
stream == <<asec, got, buf, rx, pending, psec>>
vars == <<hpc, hs, sent, apc, asec, got, buf, rx, pending, psec,
          flash, chip, h2d, d2h, spoiled, faults, runs>>

Sector == 0..FlashSectors-1
ImgSector == 0..ImgSectors-1
Page == 0..SecPages-1
Val == Data \cup {Junk}

SectorPages(s) == IF s = ImgSectors - 1 THEN LastPages ELSE SecPages

(* Bit s of the bitmap of write_flash: the sector holds something to program. *)
Dirty(s) == \E p \in 0..SectorPages(s)-1 : Image[s][p] # FF

(* What a CRC32 over the image's range of content f tells apart. *)
View(f) ==
    [s \in ImgSector |-> [p \in Page |-> IF p < SectorPages(s) THEN f[s][p] ELSE FF]]

Matches == View(flash) = View(Image)

-----------------------------------------------------------------------------
(* Packets *)

Cmd(t) == [type |-> t]
DataPkt(s, p) == [type |-> "DATA", sec |-> s, page |-> p]
Bad == [type |-> "bad"]        \* anything whose COBS decoding or CRC fails
ToDevice == [type : {"STREAM", "CRC", "REBOOT", "bad"}]
            \cup [type : {"DATA"}, sec : ImgSector, page : Page]

Ack(st) == [type |-> "ACK", st |-> st]
Progress(n) == [type |-> "DATA", done |-> n]
CrcReply(v) == [type |-> "CRC32", crc |-> v]
ToHost == [type : {"ACK"}, st : {"ok", "crc", "flash"}]
          \cup [type : {"DATA"}, done : 1..ImgSectors]
          \cup [type : {"CRC32"}, crc : [ImgSector -> [Page -> Val]]]

Fault == faults < MaxFaults /\ faults' = faults + 1

Without(q, i) == [j \in 1..Len(q)-1 |-> IF j < i THEN q[j] ELSE q[j+1]]

-----------------------------------------------------------------------------
(* The host *)

(* write_flash: send CMD_FLASH_STREAM with address, size, CRC and bitmap. *)
SendStream ==
    /\ hpc = "start"
    /\ hpc' = "ack"
    /\ h2d' = Append(h2d, Cmd("STREAM"))
    /\ UNCHANGED <<hs, sent, apc, stream, flash, chip, d2h, spoiled, faults, runs>>

(* The first answer must be ACK_OK. *)
RecvFirstAck ==
    /\ hpc = "ack" /\ d2h # <<>>
    /\ hpc' = IF Head(d2h) = Ack("ok") THEN "stream" ELSE "fail"
    /\ hs' = 0 /\ sent' = 0
    /\ d2h' = Tail(d2h)
    /\ UNCHANGED <<apc, stream, flash, chip, h2d, spoiled, faults, runs>>

(* One DATA packet of the current sector, when its bitmap bit is set. *)
SendPage ==
    /\ hpc = "stream" /\ Dirty(hs) /\ sent < SectorPages(hs)
    /\ h2d' = Append(h2d, DataPkt(hs, sent))
    /\ sent' = sent + 1
    /\ UNCHANGED <<hpc, hs, apc, stream, flash, chip, d2h, spoiled, faults, runs>>

(* The sector is out, or is all 0xFF and not sent: wait for its progress. *)
SectorSent ==
    /\ hpc = "stream" /\ (Dirty(hs) => sent = SectorPages(hs))
    /\ hpc' = "prog"
    /\ UNCHANGED <<hs, sent, apc, stream, flash, chip, h2d, d2h, spoiled, faults, runs>>

(* write_flash returned True: the CLI asks for the CRC32, or reboots. *)
WriteDone ==
    /\ hpc' = IF Verify THEN "crc" ELSE "done"
    /\ h2d' = Append(h2d, IF Verify THEN Cmd("CRC") ELSE Cmd("REBOOT"))
    /\ UNCHANGED <<hs, sent>>

(* An ACK ends write_flash wherever it arrives: True for ACK_OK. *)
AckEndsWrite(m) ==
    \/ m.st = "ok" /\ WriteDone
    \/ m.st # "ok" /\ hpc' = "fail" /\ UNCHANGED <<hs, sent, h2d>>

(* The wait for progress takes any RSP_DATA for the sector's progress. *)
RecvProgress ==
    /\ hpc = "prog" /\ d2h # <<>>
    /\ d2h' = Tail(d2h)
    /\ \/ /\ Head(d2h).type = "DATA"
          /\ hs' = hs + 1 /\ sent' = 0
          /\ hpc' = IF hs + 1 < ImgSectors THEN "stream" ELSE "final"
          /\ UNCHANGED h2d
       \/ Head(d2h).type = "ACK" /\ AckEndsWrite(Head(d2h))
    /\ UNCHANGED <<apc, stream, flash, chip, spoiled, faults, runs>>

(* After the last sector: late progress is skipped, an ACK is final. *)
RecvFinal ==
    /\ hpc = "final" /\ d2h # <<>>
    /\ d2h' = Tail(d2h)
    /\ IF Head(d2h).type = "ACK" THEN AckEndsWrite(Head(d2h))
                                 ELSE UNCHANGED <<hpc, hs, sent, h2d>>
    /\ UNCHANGED <<apc, stream, flash, chip, spoiled, faults, runs>>

(* As RecvCrc below, but the value is not compared. *)
RecvCrcAny ==
    /\ hpc = "crc" /\ d2h # <<>>
    /\ d2h' = Tail(d2h)
    /\ IF Head(d2h).type = "CRC32"
         THEN hpc' = "done" /\ h2d' = Append(h2d, Cmd("REBOOT"))
         ELSE hpc' = "fail" /\ UNCHANGED h2d
    /\ UNCHANGED <<hs, sent, apc, stream, flash, chip, spoiled, faults, runs>>

(* crc32 and the comparison in the CLI: reboot only on a match. *)
RecvCrc ==
    /\ hpc = "crc" /\ d2h # <<>>
    /\ d2h' = Tail(d2h)
    /\ IF Head(d2h).type = "CRC32" /\ Head(d2h).crc = View(Image)
         THEN hpc' = "done" /\ h2d' = Append(h2d, Cmd("REBOOT"))
         ELSE hpc' = "fail" /\ UNCHANGED h2d
    /\ UNCHANGED <<hs, sent, apc, stream, flash, chip, spoiled, faults, runs>>

(* Nothing is on its way to the host and nothing will be. *)
AgentSilent == apc \in {"main", "off"} /\ h2d = <<>>

(* recv_response raises TransportTimeout, which ends the command.  The host *)
(* waits far longer than any flash operation or the agent's own deadline    *)
(* takes, so a timeout while an answer is still due is a fault.             *)
HostTimeout ==
    /\ hpc \in {"ack", "prog", "final", "crc"} /\ d2h = <<>>
    /\ hpc' = "fail"
    /\ IF AgentSilent THEN UNCHANGED faults ELSE Fault
    /\ UNCHANGED <<hs, sent, apc, stream, flash, chip, h2d, d2h, spoiled, runs>>

(* The command is run again, after a failure or an interrupt: it needs a    *)
(* power cycle and uploads the agent afresh; only the flash survives.       *)
Rerun ==
    /\ hpc # "done" /\ runs < MaxRuns
    /\ runs' = runs + 1
    /\ hpc' = "start" /\ hs' = 0 /\ sent' = 0
    /\ apc' = "main"
    /\ h2d' = <<>> /\ d2h' = <<>>
    /\ chip' \in {0, FlashSectors}
    /\ spoiled' = {} /\ faults' = 0
    /\ UNCHANGED <<stream, flash>>

-----------------------------------------------------------------------------
(* The agent *)

(* The main loop takes a packet and calls its handler. *)
Receive(type) ==
    /\ apc = "main" /\ h2d # <<>> /\ Head(h2d).type = type
    /\ h2d' = Tail(h2d)
    /\ UNCHANGED <<host, flash, chip, spoiled, faults, runs>>

(* handle_flash_stream begins: ACK_OK, first sector, first buffer. *)
AgentStart ==
    /\ Receive("STREAM") /\ chip > 0
    /\ d2h' = Append(d2h, Ack("ok")) /\ apc' = "sector"
    /\ asec' = 0 /\ got' = 0 /\ rx' = 0 /\ pending' = -1
    /\ UNCHANGED <<buf, psec>>

AgentReject ==
    /\ Receive("STREAM") /\ chip = 0
    /\ d2h' = Append(d2h, Ack("flash"))
    /\ UNCHANGED <<apc, stream>>

AgentCrc ==
    /\ Receive("CRC")
    /\ d2h' = Append(d2h, CrcReply(View(flash)))
    /\ UNCHANGED <<apc, stream>>

AgentReboot ==
    /\ Receive("REBOOT")
    /\ d2h' = Append(d2h, Ack("ok")) /\ apc' = "off"
    /\ UNCHANGED stream

(* A DATA packet outside a transfer is an unknown command. *)
AgentUnknown ==
    /\ Receive("DATA")
    /\ d2h' = Append(d2h, Ack("crc"))
    /\ UNCHANGED <<apc, stream>>

(* A packet that fails its check looks like an idle line. *)
AgentIdle ==
    /\ Receive("bad")
    /\ UNCHANGED <<d2h, apc, stream>>

Erased(f, s) == [f EXCEPT ![s] = [p \in Page |-> FF]]

Programmed(f, s, b) ==
    [f EXCEPT ![s] = [p \in Page |-> IF p < SectorPages(s) THEN b[p] ELSE FF]]

(* erase_and_program when the erase is verified: the pages that are not all *)
(* 0xFF are written, and the result of flash_write_page is not looked at.   *)
EraseAndProgram(s, b) ==
    \/ /\ flash' = Programmed(flash, s, b)
       /\ UNCHANGED <<spoiled, faults>>
    \/ /\ Fault
       /\ spoiled' = spoiled \cup {s}
       /\ \E p \in 0..SectorPages(s)-1 :
            b[p] # FF /\ flash' = [Programmed(flash, s, b) EXCEPT ![s][p] = Junk]

AbortTransfer == d2h' = Append(d2h, Ack("flash")) /\ apc' = "main"

(* As AgentRecv below, but the sector is erased while it is received. *)
AgentRecvErasing ==
    /\ apc = "sector" /\ asec < ImgSectors /\ Dirty(asec) /\ got < SectorPages(asec)
    /\ h2d # <<>> /\ h2d' = Tail(h2d)
    /\ LET m == Head(h2d) IN
       /\ IF m.type = "DATA"
            THEN buf' = [buf EXCEPT ![rx][got] = Image[m.sec][m.page]] /\ got' = got + 1
            ELSE UNCHANGED <<buf, got>>
       /\ IF m = Bad THEN AbortTransfer ELSE UNCHANGED <<apc, d2h>>
    /\ flash' = Erased(flash, asec)
    /\ UNCHANGED <<host, asec, rx, pending, psec, chip, spoiled, faults, runs>>

(* Filling buf[rx]: DATA is appended in order of arrival, a failed receive  *)
(* aborts the transfer, any other command is swallowed.                     *)
AgentRecv ==
    /\ apc = "sector" /\ asec < ImgSectors /\ Dirty(asec) /\ got < SectorPages(asec)
    /\ h2d # <<>> /\ h2d' = Tail(h2d)
    /\ LET m == Head(h2d) IN
       /\ IF m.type = "DATA"
            THEN buf' = [buf EXCEPT ![rx][got] = Image[m.sec][m.page]] /\ got' = got + 1
            ELSE UNCHANGED <<buf, got>>
       /\ IF m = Bad THEN AbortTransfer ELSE UNCHANGED <<apc, d2h>>
    /\ UNCHANGED <<host, asec, rx, pending, psec, flash, chip, spoiled, faults, runs>>

HostSending == hpc = "stream" \/ (hpc \in {"ack", "prog"} /\ d2h # <<>>)

(* As AgentRecvTimeout below, but the agent goes on waiting. *)
AgentRecvWaits ==
    /\ apc = "sector" /\ asec < ImgSectors /\ Dirty(asec) /\ got < SectorPages(asec)
    /\ h2d = <<>> /\ UNCHANGED vars

(* proto_recv times out after 10 s without a byte: a fault (of the host's   *)
(* scheduling or of the link) as long as the host is still sending.         *)
AgentRecvTimeout ==
    /\ apc = "sector" /\ asec < ImgSectors /\ Dirty(asec) /\ got < SectorPages(asec)
    /\ h2d = <<>> /\ AbortTransfer
    /\ IF HostSending THEN Fault ELSE UNCHANGED faults
    /\ UNCHANGED <<host, stream, flash, chip, h2d, spoiled, runs>>

(* The sector is in: "send next now!", before the previous one is programmed. *)
AgentProgress ==
    /\ apc = "sector" /\ asec < ImgSectors /\ Dirty(asec) /\ got = SectorPages(asec)
    /\ d2h' = Append(d2h, Progress(asec + 1)) /\ apc' = "program"
    /\ UNCHANGED <<host, stream, flash, chip, h2d, spoiled, faults, runs>>

(* As AgentProgram below, but the buffers are not swapped. *)
AgentProgramUnswapped ==
    /\ apc = "program"
    /\ IF pending # -1 THEN EraseAndProgram(psec, buf[pending])
                       ELSE UNCHANGED <<flash, spoiled, faults>>
    /\ pending' = rx /\ psec' = asec /\ rx' = rx
    /\ asec' = asec + 1 /\ got' = 0 /\ apc' = "sector"
    /\ UNCHANGED <<host, buf, chip, h2d, d2h, runs>>

(* Program the previous sector, make this one pending, swap the buffers. *)
AgentProgram ==
    /\ apc = "program"
    /\ IF pending # -1 THEN EraseAndProgram(psec, buf[pending])
                       ELSE UNCHANGED <<flash, spoiled, faults>>
    /\ pending' = rx /\ psec' = asec /\ rx' = 1 - rx
    /\ asec' = asec + 1 /\ got' = 0 /\ apc' = "sector"
    /\ UNCHANGED <<host, buf, chip, h2d, d2h, runs>>

(* Before a sector the bitmap skips, and after the last one: program what   *)
(* is still pending.                                                        *)
AgentFlush ==
    /\ apc = "sector" /\ (asec < ImgSectors => ~Dirty(asec)) /\ pending # -1
    /\ EraseAndProgram(psec, buf[pending])
    /\ pending' = -1
    /\ UNCHANGED <<host, apc, asec, got, buf, rx, psec, chip, h2d, d2h, runs>>

(* As AgentSkip below, but the sector is not reported. *)
AgentSkipSilently ==
    /\ apc = "sector" /\ asec < ImgSectors /\ ~Dirty(asec) /\ pending = -1
    /\ flash' = Erased(flash, asec)
    /\ asec' = asec + 1
    /\ UNCHANGED <<host, apc, got, buf, rx, pending, psec, chip, h2d, d2h, spoiled, faults, runs>>

(* A sector the bitmap skips is erased and reported. *)
AgentSkip ==
    /\ apc = "sector" /\ asec < ImgSectors /\ ~Dirty(asec) /\ pending = -1
    /\ flash' = Erased(flash, asec)
    /\ d2h' = Append(d2h, Progress(asec + 1))
    /\ asec' = asec + 1
    /\ UNCHANGED <<host, apc, got, buf, rx, pending, psec, chip, h2d, spoiled, faults, runs>>

(* As AgentFinish below, but the last sector is still pending. *)
AgentFinishEarly ==
    /\ apc = "sector" /\ asec = ImgSectors
    /\ d2h' = Append(d2h, Ack("ok")) /\ apc' = "main"
    /\ UNCHANGED <<host, stream, flash, chip, h2d, spoiled, faults, runs>>

(* The final answer; the CRC in the header is never compared. *)
AgentFinish ==
    /\ apc = "sector" /\ asec = ImgSectors /\ pending = -1
    /\ d2h' = Append(d2h, Ack("ok")) /\ apc' = "main"
    /\ UNCHANGED <<host, stream, flash, chip, h2d, spoiled, faults, runs>>

(* flash_erase_sector finds that the erase did nothing: the transfer stops. *)
AgentEraseFails ==
    /\ \/ apc = "program" /\ pending # -1
       \/ apc = "sector" /\ asec < ImgSectors /\ ~Dirty(asec)
       \/ apc = "sector" /\ asec = ImgSectors /\ pending # -1
    /\ Fault /\ AbortTransfer
    /\ UNCHANGED <<host, stream, flash, chip, h2d, spoiled, runs>>

-----------------------------------------------------------------------------
(* The wire: a packet is damaged (to the agent a failed receive) or vanishes. *)

CorruptToDevice ==
    /\ Fault
    /\ \E i \in 1..Len(h2d) : h2d' = [h2d EXCEPT ![i] = Bad]
    /\ UNCHANGED <<host, apc, stream, flash, chip, d2h, spoiled, runs>>

LoseToDevice ==
    /\ Fault
    /\ \E i \in 1..Len(h2d) : h2d' = Without(h2d, i)
    /\ UNCHANGED <<host, apc, stream, flash, chip, d2h, spoiled, runs>>

LoseToHost ==
    /\ Fault
    /\ \E i \in 1..Len(d2h) : d2h' = Without(d2h, i)
    /\ UNCHANGED <<host, apc, stream, flash, chip, h2d, spoiled, runs>>

-----------------------------------------------------------------------------
Init ==
    /\ hpc = "start" /\ hs = 0 /\ sent = 0
    /\ apc = "main" /\ asec = 0 /\ got = 0
    /\ buf = [b \in 0..1 |-> [p \in Page |-> Junk]]
    /\ rx = 0 /\ pending = -1 /\ psec = 0
    /\ flash = [s \in Sector |-> [p \in Page |-> Junk]]
    /\ chip \in {0, FlashSectors}
    /\ h2d = <<>> /\ d2h = <<>>
    /\ spoiled = {} /\ faults = 0 /\ runs = 1

HostNext == \/ SendStream \/ RecvFirstAck \/ SendPage \/ SectorSent
            \/ RecvProgress \/ RecvFinal \/ RecvCrc \/ HostTimeout

AgentNext == \/ AgentStart \/ AgentReject \/ AgentCrc \/ AgentReboot
             \/ AgentUnknown \/ AgentIdle
             \/ AgentRecv \/ AgentRecvTimeout \/ AgentProgress
             \/ AgentProgram \/ AgentFlush \/ AgentSkip \/ AgentFinish
             \/ AgentEraseFails

LinkNext == CorruptToDevice \/ LoseToDevice \/ LoseToHost

(* The command has ended and the agent has nothing left to do. *)
Quiet ==
    /\ hpc \in {"done", "fail"} /\ apc \in {"main", "off"}
    /\ (apc = "main" => h2d = <<>>)
    /\ UNCHANGED vars

Next == HostNext \/ AgentNext \/ LinkNext \/ Rerun \/ Quiet

(* Both ends run a loop that never stops by itself, and every wait in it    *)
(* has a deadline.                                                          *)
Fairness == WF_vars(HostNext) /\ WF_vars(AgentNext)

Spec == Init /\ [][Next]_vars /\ Fairness

-----------------------------------------------------------------------------
(* Properties *)

(* Every variable has its type; the host sends and the agent stores no page *)
(* beyond a sector, and neither goes beyond the image's last sector.        *)
TypeOK ==
    /\ hpc \in {"start", "ack", "stream", "prog", "final", "crc", "done", "fail"}
    /\ hs \in 0..ImgSectors /\ sent \in 0..SecPages
    /\ hpc \in {"stream", "prog"} => hs < ImgSectors
    /\ apc = "program" => asec < ImgSectors
    /\ apc \in {"main", "sector", "program", "off"}
    /\ asec \in 0..ImgSectors /\ got \in 0..SecPages
    /\ buf \in [0..1 -> [Page -> Val]]
    /\ rx \in 0..1 /\ pending \in -1..1 /\ psec \in ImgSector
    /\ flash \in [Sector -> [Page -> Val]]
    /\ chip \in {0, FlashSectors} /\ spoiled \in SUBSET ImgSector
    /\ h2d \in Seq(ToDevice) /\ d2h \in Seq(ToHost)
    /\ faults \in 0..MaxFaults /\ runs \in Nat

(* When write_flash has returned True, the flash holds the image, whatever  *)
(* packets were lost or damaged, unless a page program failed unnoticed     *)
(* (erase_and_program ignores the result of flash_write_page).              *)
WrittenMeansFlashed == hpc \in {"crc", "done"} /\ spoiled = {} => Matches

(* With --verify the camera is only told to reboot when its flash holds the *)
(* image, page programs that failed unnoticed included.                     *)
RebootOnlyVerified == Verify /\ (hpc = "done" \/ apc = "off") => Matches

(* The buffer waiting to be programmed holds exactly its sector of the      *)
(* image while the next sector is received into the other one.              *)
PendingIntact ==
    apc \in {"sector", "program"} /\ hpc # "fail" /\ pending # -1 =>
        /\ pending # rx
        /\ \A p \in 0..SectorPages(psec)-1 : buf[pending][p] = Image[psec][p]

(* A run of the command fails only for a cause: a fault of the link, of the *)
(* flash or of timing, or a flash chip the agent could not identify.  Host  *)
(* and agent never end up each waiting for the other.                       *)
FailsOnlyWithCause == hpc = "fail" => faults > 0 \/ chip = 0

(* No sector is erased before the data that replaces it is complete in RAM, *)
(* and none outside the image is ever touched: an interrupted run leaves    *)
(* every sector it did not yet reach as it was.                             *)
EraseOnlyWithData ==
    [][\A s \in Sector : flash'[s] # flash[s] =>
          /\ s \in ImgSector
          /\ IF Dirty(s) THEN pending # -1 /\ s = psec ELSE s = asec]_vars

(* Every run ends: no wait of host or agent is without a deadline. *)
CommandEnds == <>[](hpc \in {"done", "fail"})

(* "Final: ACK_OK or ACK_CRC_ERROR" (agent/main.c, CMD_FLASH_STREAM): the   *)
(* transfer that carries the image's CRC ends with ACK_OK only if the flash *)
(* content has that CRC.                                                    *)
FinalAckChecksCrc ==
    [][AgentFinish => Matches]_vars

=============================================================================
