----------------------------- MODULE FlashDump -----------------------------
(***************************************************************************)
(* Reading a flash through the U-Boot console: dump_flash and              *)
(* verify_and_repair of src/src/defib/flashdump.py, called by defib dump   *)
(* (src/src/defib/cli/app.py) and from the terminal screen of the TUI      *)
(* (src/src/defib/tui/screens/progress.py).                                *)
(*                                                                         *)
(* The flash has Size units of one md.b line each; unit n holds n, and 0   *)
(* is any wrong content.  Each command is one step of the host: U-Boot's   *)
(* answer may be damaged or cut short by a timeout.  The answer to a       *)
(* command that timed out comes during a later one, whose own answer is    *)
(* then cut off at the prompt and comes later still.                       *)
(***************************************************************************)
EXTENDS Integers, Sequences, FiniteSets, FiniteSetsExt

CONSTANTS Size,         \* units of the flash
          Chunk,        \* units read at a time; verify_and_repair's chunk too
          Block,        \* units verify_and_repair narrows down to first
          MaxRetries,   \* max_retries
          MaxFaults     \* bound: answers damaged, lost or late, transport errors

ASSUME FlashDumpAssumption ==
    /\ Size \in Nat \ {0} /\ Chunk \in 1..Size /\ Block \in Chunk..Size
    /\ MaxRetries \in Nat /\ MaxFaults \in Nat

VARIABLES
    caller,    \* "cli" or "tui"; never changes
    crc32,     \* whether this U-Boot has the command; never changes
    phase,     \* the step of dump_flash: "idle" ... "done", "failed"
    hasCrc,    \* has_crc32
    offset, attempt,
    chunk,     \* chunk_data, between md.b and crc32
    file,      \* the output file
    at,        \* verify_and_repair: the position it is at
    want,      \* verify_and_repair: crc32 of the chunk to read again
    owed,      \* the answer still to come, or <<>>
    link,      \* "open" or "closed": the transport
    screen,    \* TUI: "console", "overlay", "left"
    running,   \* TUI: _dump_worker_running
    pressed,   \* TUI: "yes" when the button is disabled after Cancel
    reader,    \* TUI: "on" while _console_read_loop runs
    clash,     \* TUI: "yes" once a second dump was started beside the first
    faults

dump == <<phase, hasCrc, offset, attempt, chunk, file, at, want>>
tui == <<link, screen, running, pressed, reader, clash>>
dumpVars == <<caller, crc32, dump, owed, tui, faults>>

Fault == faults < MaxFaults /\ faults' = faults + 1

-----------------------------------------------------------------------------
(* Answers.  A crc32 is represented by the content it is computed over.    *)

Line(n, v) == [addr |-> n, val |-> v]
MdAnswer(from, n) == [kind |-> "md", lines |-> {Line(u, u) : u \in from..(from + n - 1)}]
CrcAnswer(from, n) == [kind |-> "crc", crc |-> [k \in 1..n |-> from + k - 1]]
Fine == [kind |-> "fine"]
Nothing == [kind |-> "nothing"]

\* What one damaged character does to an answer: a line that no longer
\* parses, a wrong byte, a wrong address.
Damaged(ans) ==
    IF ans.kind # "md" THEN {Nothing}
    ELSE UNION {{[ans EXCEPT !.lines = @ \ {l}],
                 [ans EXCEPT !.lines = (@ \ {l}) \cup {Line(l.addr, 0)}],
                 [ans EXCEPT !.lines = (@ \ {l}) \cup {Line(l.addr + Size, l.val)}]}
                : l \in ans.lines}

Starts(S) == {l.addr : l \in S}

\* parse_md_output: from the lowest address to the highest, zero where no
\* line came.
parse_md_output(ans) ==
    IF ans.kind # "md" \/ ans.lines = {} THEN <<>>
    ELSE LET base == Min(Starts(ans.lines)) IN
         [k \in 1..(Max(Starts(ans.lines)) - base + 1) |->
            IF \E l \in ans.lines : l.addr = base + k - 1
            THEN (CHOOSE l \in ans.lines : l.addr = base + k - 1).val ELSE 0]

\* send_command: input that has come is dropped; an answer still owed to
\* an earlier command, and its prompt, come first.
Ask(ans, resp) ==
    /\ link = "open"
    /\ \/ resp = ans /\ owed' = <<>> /\ UNCHANGED faults
       \/ owed # <<>> /\ resp = owed[1] /\ owed' = <<ans>> /\ UNCHANGED faults
       \/ owed = <<>> /\ resp \in Damaged(ans) /\ owed' = <<>> /\ Fault
       \/ owed = <<>> /\ resp = Nothing /\ owed' = <<ans>> /\ Fault

\* What send_command may return for a command answered by ans.
Responses(ans) ==
    {ans, Nothing} \cup Damaged(ans) \cup {owed[k] : k \in 1..Len(owed)}

\* The transport raises instead.
Raises ==
    /\ UNCHANGED owed
    /\ \/ link = "closed" /\ UNCHANGED faults
       \/ link = "open" /\ Fault

-----------------------------------------------------------------------------
(* dump_flash *)

Goto(p) == phase' = p /\ UNCHANGED <<hasCrc, offset, attempt, chunk, file, at, want>>

\* A step before the copying: one command.  Without its answer dump_flash
\* raises where it must have one, and goes on otherwise.
Command(p, next, must) ==
    /\ phase = p
    /\ \/ \E resp \in Responses(Fine) :
          /\ Ask(Fine, resp)
          /\ Goto(IF resp = Fine \/ ~must THEN next ELSE "failed")
       \/ Raises /\ Goto("failed")
    /\ UNCHANGED <<caller, crc32, tui>>

\* detect_ram_staging_addr: bdinfo, printenv soc.
FindRam == Command("ram", "size", TRUE)

\* detect_flash: sf probe, printenv.
FindSize == Command("size", "probe", TRUE)

ProbeFlash == Command("probe", "read", FALSE)

\* sf read of the whole flash, sf_read_ok.
ReadFlash == Command("read", "look", TRUE)

\* The first 16 bytes are looked at.
SanityCheck == Command("look", "detect", FALSE)

\* _detect_crc32: silence counts as "not there".
Detect ==
    /\ phase = "detect"
    /\ LET ans == IF crc32 THEN CrcAnswer(0, 0) ELSE Nothing IN
       \/ \E resp \in Responses(ans) :
            /\ Ask(ans, resp)
            /\ hasCrc' = (resp.kind = "crc")
            /\ phase' = "open"
       \/ Raises /\ phase' = "failed" /\ hasCrc' = hasCrc
    /\ UNCHANGED <<offset, attempt, chunk, file, at, want, caller, crc32, tui>>

\* Where an earlier run left off: at a chunk boundary of a shorter file, or
\* at the end of a complete one when it can be verified.
ResumeAt ==
    LET down == (Len(file) \div Chunk) * Chunk IN
    IF 0 < down /\ down < Size THEN down
    ELSE IF Len(file) = Size /\ hasCrc THEN Size
    ELSE 0

Open ==
    /\ phase = "open"
    /\ offset' = ResumeAt /\ attempt' = 0
    /\ file' = IF ResumeAt = 0 THEN <<>> ELSE file
    /\ phase' = IF ResumeAt = Size THEN "whole" ELSE "md"
    /\ UNCHANGED <<hasCrc, chunk, at, want, caller, crc32, owed, tui, faults>>

Remaining == Min({Chunk, Size - offset})
Zeros == [k \in 1..Remaining |-> 0]

Overwrite(f, pos, data) ==
    [k \in 1..Max({Len(f), pos + Len(data)}) |->
        IF k \in (pos + 1)..(pos + Len(data)) THEN data[k - pos] ELSE f[k]]

\* As Store below, but the chunks' own checks are trusted.
StoreUnverified(data) ==
    LET end == offset + Len(data) IN
    /\ file' = Overwrite(file, offset, data)
    /\ offset' = end /\ attempt' = 0 /\ chunk' = <<>>
    /\ phase' = IF end < Size /\ (caller = "tui" => running) THEN "md" ELSE "done"
    /\ UNCHANGED <<hasCrc, at, want>>

\* The chunk goes to the file; then cancellation, the next chunk, or the end
\* of the loop, where only a dump of the exact size is verified.
Store(data) ==
    LET end == offset + Len(data) IN
    /\ file' = Overwrite(file, offset, data)
    /\ offset' = end /\ attempt' = 0 /\ chunk' = <<>>
    /\ phase' = IF end < Size /\ (caller = "tui" => running) THEN "md"
                ELSE IF hasCrc /\ end = Size THEN "whole" ELSE "done"
    /\ UNCHANGED <<hasCrc, at, want>>

\* As Retry below, but the attempts are not counted.
RetryForever(data) == UNCHANGED dump

\* One attempt has failed: the next one, or what is written after the last.
Retry(data) ==
    IF attempt < MaxRetries
    THEN /\ attempt' = attempt + 1 /\ phase' = "md" /\ chunk' = <<>>
         /\ UNCHANGED <<hasCrc, offset, file, at, want>>
    ELSE Store(data)

\* md.b of a chunk.  Only a chunk of the right length is checked; a shorter
\* or a longer one is stored as it is.
ReadChunk ==
    /\ phase = "md"
    /\ LET ans == MdAnswer(offset + 1, Remaining) IN
       \/ \E resp \in Responses(ans) :
            /\ Ask(ans, resp)
            /\ LET data == parse_md_output(resp) IN
               IF data = <<>> THEN Retry(Zeros)
               ELSE IF hasCrc /\ Len(data) = Remaining
               THEN /\ phase' = "crc" /\ chunk' = data
                    /\ UNCHANGED <<hasCrc, offset, attempt, file, at, want>>
               ELSE Store(data)
       \/ Raises /\ Retry(Zeros)
    /\ UNCHANGED <<caller, crc32, tui>>

\* crc32 of the chunk; when it cannot be asked, the data is used.
CheckChunk ==
    /\ phase = "crc"
    /\ LET ans == CrcAnswer(offset + 1, Remaining) IN
       \/ \E resp \in Responses(ans) :
            /\ Ask(ans, resp)
            /\ IF resp.kind = "crc" /\ resp.crc = chunk THEN Store(chunk) ELSE Retry(chunk)
       \/ Raises /\ Store(chunk)
    /\ UNCHANGED <<caller, crc32, tui>>
-----------------------------------------------------------------------------
(* verify_and_repair *)

\* device_crc: three tries at an answer; Use what it says.
DeviceCrc(from, n, Use(_)) ==
    /\ \/ \E resp \in Responses(CrcAnswer(from, n)) :
            /\ Ask(CrcAnswer(from, n), resp)
            /\ IF resp.kind = "crc" THEN attempt' = 0 /\ Use(resp.crc)
               ELSE IF attempt < 2
               THEN attempt' = attempt + 1 /\ UNCHANGED <<phase, at, want>>
               ELSE attempt' = 0 /\ phase' = "failed" /\ UNCHANGED <<at, want>>
       \/ Raises /\ attempt' = 0 /\ phase' = "failed" /\ UNCHANGED <<at, want>>
    /\ UNCHANGED <<hasCrc, offset, chunk, file, caller, crc32, tui>>

Part(from, n) == SubSeq(file, from + 1, from + n)

Go(p, pos) == phase' = p /\ at' = pos /\ want' = <<>>

\* The whole file against the copy in RAM.
VerifyWhole ==
    phase = "whole" /\
    DeviceCrc(1, Size, LAMBDA crc : IF crc = Part(0, Size) THEN Go("done", 0)
                                    ELSE Go("block", 0))

NextBlock(pos) ==
    LET next == (pos \div Block + 1) * Block IN
    IF next < Size THEN Go("block", next) ELSE Go("final", 0)

BlockLen == Min({Block, Size - at})

VerifyBlock ==
    phase = "block" /\
    DeviceCrc(at + 1, BlockLen, LAMBDA crc : IF crc = Part(at, BlockLen) THEN NextBlock(at)
                                             ELSE Go("part", at))

BlockEnd == Min({Size, (at \div Block + 1) * Block})
PartLen == Min({Chunk, BlockEnd - at})
NextPart == IF at + Chunk < BlockEnd THEN Go("part", at + Chunk) ELSE NextBlock(at)

VerifyPart ==
    phase = "part" /\
    DeviceCrc(at + 1, PartLen, LAMBDA crc : IF crc = Part(at, PartLen) THEN NextPart
                                            ELSE phase' = "again" /\ at' = at /\ want' = crc)

\* As Matches below, but only the length is looked at.
MatchesLength(data) == Len(data) = PartLen

\* A chunk read again is taken when it is as long as asked and has the crc32.
Matches(data) == Len(data) = PartLen /\ data = want

\* A chunk is read again until it matches, and written to the file at once.
ReadAgain ==
    /\ phase = "again"
    /\ LET ans == MdAnswer(at + 1, PartLen) IN
       \/ \E resp \in Responses(ans) :
            /\ Ask(ans, resp)
            /\ LET data == parse_md_output(resp) IN
               IF Matches(data)
               THEN file' = Overwrite(file, at, data) /\ attempt' = 0 /\ NextPart
               ELSE IF attempt < MaxRetries
               THEN attempt' = attempt + 1 /\ UNCHANGED <<phase, at, want, file>>
               ELSE attempt' = 0 /\ phase' = "failed" /\ UNCHANGED <<at, want, file>>
       \/ Raises /\ attempt' = 0 /\ phase' = "failed" /\ UNCHANGED <<at, want, file>>
    /\ UNCHANGED <<hasCrc, offset, chunk, caller, crc32, tui>>

VerifyFinal ==
    phase = "final" /\
    DeviceCrc(1, Size, LAMBDA crc : Go(IF crc = Part(0, Size) THEN "done" ELSE "failed", 0))

DumpStep ==
    \/ FindRam \/ FindSize \/ ProbeFlash \/ ReadFlash \/ SanityCheck
    \/ Detect \/ Open \/ ReadChunk \/ CheckChunk
    \/ VerifyWhole \/ VerifyBlock \/ VerifyPart \/ ReadAgain \/ VerifyFinal

-----------------------------------------------------------------------------
(* The terminal screen of the TUI: its console reader and the dump worker   *)
(* share the transport.                                                     *)

Dumping == phase \notin {"idle", "done", "failed"}

\* As StopReader below, but the reader is left alone.
KeepReader == reader' = reader

\* _start_flash_dump stops the console reader first.
StopReader == reader' = "off"

\* Ctrl-D.  Nothing stops it while a cancelled worker finishes its block.
StartDump ==
    /\ caller = "tui" /\ link = "open" /\ ~running /\ screen # "left" /\ clash = "no"
    /\ phase \notin {"done", "failed"}
    /\ running' = TRUE /\ screen' = "overlay" /\ StopReader
    /\ IF Dumping THEN clash' = "yes" /\ UNCHANGED phase
       ELSE clash' = clash /\ phase' = "ram"
    /\ UNCHANGED <<hasCrc, offset, attempt, chunk, file, at, want, caller, crc32, owed,
                   link, pressed, faults>>

\* The button: Cancel while the worker runs, afterwards Return to Terminal.
PressButton ==
    /\ screen = "overlay" /\ pressed = "no" /\ clash = "no"
    /\ IF running THEN running' = FALSE /\ pressed' = "yes" /\ UNCHANGED <<screen, reader>>
       ELSE screen' = "console" /\ reader' = "on" /\ UNCHANGED <<running, pressed>>
    /\ UNCHANGED <<dump, caller, crc32, owed, link, clash, faults>>

\* _run_flash_dump's finally: the worker's flag falls, Ctrl-C and a drain
\* clear the line, and the button works again.
WorkerEnds ==
    /\ caller = "tui" /\ screen = "overlay" /\ clash = "no"
    /\ phase \in {"done", "failed"} /\ (running \/ pressed = "yes")
    /\ running' = FALSE /\ pressed' = "no" /\ owed' = <<>>
    /\ UNCHANGED <<dump, caller, crc32, link, screen, reader, clash, faults>>

\* Back: _stop_console closes the transport under whoever uses it.
Back ==
    /\ caller = "tui" /\ screen # "left" /\ clash = "no"
    /\ link' = "closed" /\ screen' = "left" /\ reader' = "off"
    /\ UNCHANGED <<dump, caller, crc32, owed, running, pressed, clash, faults>>

-----------------------------------------------------------------------------
\* The output file before the run: none, part of an earlier dump with a
\* wrong unit, one cut off inside a chunk, a complete one with a wrong unit.
EarlierFiles ==
    {<<>>} \cup
    {[k \in 1..n |-> IF k = 1 /\ bad THEN 0 ELSE k] :
        n \in {Chunk, Chunk + 1, Size}, bad \in BOOLEAN}

DumpInit ==
    /\ caller \in {"cli", "tui"} /\ crc32 \in BOOLEAN
    /\ phase = (IF caller = "cli" THEN "ram" ELSE "idle")
    /\ hasCrc = FALSE /\ offset = 0 /\ attempt = 0 /\ chunk = <<>>
    /\ file \in (IF caller = "cli" THEN EarlierFiles ELSE {<<>>})
    /\ at = 0 /\ want = <<>> /\ owed = <<>> /\ link = "open"
    /\ screen = (IF caller = "tui" THEN "console" ELSE "none")
    /\ running = FALSE /\ pressed = "no"
    /\ reader = (IF caller = "tui" THEN "on" ELSE "off") /\ clash = "no" /\ faults = 0

DumpNext == DumpStep \/ StartDump \/ PressButton \/ WorkerEnds \/ Back

DumpSpec == DumpInit /\ [][DumpNext]_dumpVars

-----------------------------------------------------------------------------
Whole == [k \in 1..Size |-> k]

\* A dump that U-Boot's crc32 can check, and that read exactly the flash,
\* ends well only with a file equal to the copy in RAM: whatever an earlier
\* run left in it, whatever lines were lost or damaged, and whichever
\* command a late answer was taken for.
DumpFaithful == phase = "done" /\ hasCrc /\ offset = Size => SubSeq(file, 1, Size) = Whole

Verifying == phase \in {"whole", "block", "part", "again", "final"}

\* While verify_and_repair is at work, what is right in the file stays right.
RepairKeeps ==
    [][Verifying => \A k \in 1..Size : (file[k] = k => file'[k] = k)]_dumpVars

\* The console reader never takes bytes that a running dump waits for.
SerialExclusive == Dumping => reader = "off"
=============================================================================
