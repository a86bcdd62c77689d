------------------------------ MODULE Rockusb ------------------------------
(***************************************************************************)
(* Recovery of Rockchip boards over USB: defib/rockusb and the burn and    *)
(* dump-flash commands of defib/cli/app.py that use it.                    *)
(*                                                                         *)
(* Boards are named by the port they are plugged into.  A board in MaskROM *)
(* takes a DDR initialisation and a loader (the usbplug) as control        *)
(* transfers, leaves the bus and comes back as a loader, which answers     *)
(* commands: a command wrapper out, data, a status wrapper in.  Other      *)
(* boards come and go meanwhile, transfers fail or fall short, and a       *)
(* loader left by an earlier process still has unread packets queued.      *)
(***************************************************************************)
EXTENDS MaskromFraming, Integers, FiniteSets

CONSTANTS
    Ports,          \* the USB ports boards are plugged into
    AnyPort,        \* no --usb-path given
    NoPort,
    OldFile,        \* what the output file held before the command
    NoFile,         \* there is no such file
    UsbRequests,    \* the commands given to defib, with the board they meet
    MaxSectors,     \* MAX_SECTORS_PER_TRANSFER
    DrainMax,       \* packets read by _drain_stale_input
    FlashSectors,   \* sectors of a board's flash
    MaxUsbFaults,   \* bound on failing transfers
    MaxPlugs        \* bound on boards plugged in during the command

\* A request says which ports show a board, at which port the command is to
\* look, and what it is to read or write; a write fits the flash, which
\* write_image leaves to its caller.  Only what has been read is a sequence.
ASSUME UsbAssumption ==
    /\ NoPort \notin Ports /\ AnyPort \notin Ports
    /\ MaxSectors \in Nat \ {0} /\ DrainMax \in Nat /\ FlashSectors \in Nat \ {0}
    /\ \A r \in UsbRequests :
          /\ r.cmd \in {"burn", "dump", "write"} /\ r.path \in Ports \cup {AnyPort}
          /\ r.start \in Nat /\ r.sectors \in Nat /\ r.board \in Ports
          /\ r.bus \in [Ports -> {"maskrom", "loader", "linux", "absent"}]
          /\ r.cmd = "write" => r.sectors > 0 /\ r.start + r.sectors <= FlashSectors
    /\ \A n \in 0..FlashSectors : OldFile \notin [1..n -> Ports \X (0..FlashSectors - 1)]

VARIABLES
    ureq,      \* the command
    upc,       \* where the command is
    found,     \* port of the board the command found first
    held,      \* port of the opened device
    claimed,   \* ports whose interface is claimed, the kernel driver detached
    todo,      \* the transfers still to make
    cmd,       \* the command whose status has not been read
    tag,       \* tag of the latest command wrapper
    part,      \* content of the ".partial" file
    outfile,   \* content of the output file
    why,       \* why the command failed
    bus,       \* what each port shows
    rom,       \* receive state of each boot ROM
    pipe,      \* packets each loader has queued for the host
    flash,     \* flash content of each board
    ufaults,   \* failing transfers left
    plugs      \* boards left to plug in

host == <<ureq, found, held, claimed, todo, cmd, tag, part, outfile, why>>
device == <<bus, rom, pipe, flash>>
budget == <<ufaults, plugs>>
usbVars == <<upc, host, device, budget>>

NoCommand == [op |-> "none", lba |-> 0, count |-> 0]

MaskromIdle == [got |-> 0, ddr |-> FALSE]
BlankFlash(p) == [l \in 0..FlashSectors - 1 |-> <<p, l>>]
ImageSector(l) == <<"image", l>>

\* A queued packet: sectors or values, or a status wrapper.
Data(v) == [kind |-> "data", val |-> v, tag |-> 0, ok |-> TRUE, residue |-> FALSE]
Csw(t, ok, residue) ==
    [kind |-> "csw", val |-> <<>>, tag |-> t, ok |-> ok, residue |-> residue]

UsbInit ==
    /\ ureq \in UsbRequests
    /\ upc = "resolve"
    /\ found = NoPort /\ held = NoPort /\ claimed = {}
    /\ todo = <<>> /\ cmd = NoCommand /\ tag = 0
    /\ part = NoFile /\ outfile = OldFile /\ why = "none"
    /\ bus = ureq.bus
    /\ rom = [p \in Ports |-> MaskromIdle]
    /\ pipe = [p \in Ports |-> IF ureq.bus[p] = "loader"
                               THEN [i \in 1..ureq.stale |-> Csw(0, TRUE, FALSE)]
                               ELSE <<>>]
    /\ flash = [p \in Ports |-> BlankFlash(p)]
    /\ ufaults = MaxUsbFaults /\ plugs = MaxPlugs

UsbFault == ufaults > 0 /\ ufaults' = ufaults - 1 /\ UNCHANGED plugs

(***************************************************************************)
(* Leaving the command with an error.  The partial file is removed; the    *)
(* device is closed only if the code that fails knows it.                  *)
(***************************************************************************)
Knows == {"reset", "backrom", "id", "info", "dump", "write", "restart"}

_usb_fail(reason, closes) ==
    /\ upc' = "failed" /\ why' = reason
    /\ part' = NoFile
    /\ claimed' = IF closes THEN claimed \ {held} ELSE claimed
    /\ cmd' = NoCommand
    /\ UNCHANGED <<ureq, found, held, todo, tag, outfile, device>>

Raise(reason) == _usb_fail(reason, upc \in Knows)

\* The file arguments: a bad or missing loader stops the command.
_resolve_usb_loader ==
    /\ upc = "resolve"
    /\ UNCHANGED budget
    /\ \/ /\ ureq.loader = "bad"
          /\ Raise("loader")
       \/ /\ ureq.loader = "good"
          /\ upc' = IF ureq.power THEN "power" ELSE "find"
          /\ UNCHANGED <<host, device>>

\* The power controller cuts the rack's board: an erased one comes back in
\* MaskROM.
PowerCycle ==
    /\ upc = "power"
    /\ \/ /\ UsbFault /\ Raise("fault")
       \/ /\ bus' = [bus EXCEPT ![ureq.board] = "to_maskrom"]
          /\ upc' = "find"
          /\ UNCHANGED <<host, rom, pipe, flash, budget>>

(***************************************************************************)
(* The bus.                                                                *)
(***************************************************************************)
\* A board that reset itself or was powered shows up again, with nothing
\* received and nothing queued.
Enumerate(p) ==
    /\ bus[p] \in {"to_maskrom", "to_loader"}
    /\ bus' = [bus EXCEPT ![p] = IF @ = "to_maskrom" THEN "maskrom" ELSE "loader"]
    /\ rom' = [rom EXCEPT ![p] = MaskromIdle]
    /\ pipe' = [pipe EXCEPT ![p] = <<>>]
    /\ UNCHANGED <<upc, host, flash, budget>>

\* Somebody plugs another board in: one to recover, or one that runs Linux.
PlugIn(p) ==
    /\ plugs > 0 /\ bus[p] = "absent" /\ upc \notin {"done", "failed"}
    /\ plugs' = plugs - 1
    /\ \E m \in {"maskrom", "loader", "linux"} : bus' = [bus EXCEPT ![p] = m]
    /\ UNCHANGED <<upc, host, rom, pipe, flash, ufaults>>

\* The board at a port is pulled, or loses its power.
Unplug(p) ==
    /\ bus[p] # "absent" /\ upc \notin {"done", "failed"}
    /\ UsbFault
    /\ bus' = [bus EXCEPT ![p] = "absent"]
    /\ pipe' = [pipe EXCEPT ![p] = <<>>]
    /\ UNCHANGED <<upc, host, rom, flash>>

\* find_devices: boards with a recovery product id, at the wanted port.
find_devices(path) ==
    {p \in Ports : bus[p] \in {"maskrom", "loader"} /\ path \in {AnyPort, p}}

OnlyMatch(path, modes, p) == find_devices(path) = {p} /\ bus[p] \in modes

Ambiguous(path) == Cardinality(find_devices(path)) > 1

\* The deadline of wait_for_device, at once or with a board that is slow.
Expires(path, modes) ==
    /\ ~Ambiguous(path)
    /\ \A p \in Ports : ~OnlyMatch(path, modes, p)
    /\ IF \E p \in Ports : path \in {AnyPort, p} /\ bus[p] \in {"to_maskrom", "to_loader"}
       THEN UsbFault ELSE UNCHANGED budget

wait_for_device(path, modes, absent) ==
    \/ Ambiguous(path) /\ Raise("ambiguous") /\ UNCHANGED budget
    \/ Expires(path, modes) /\ Raise(absent)

\* The transfers of the two uploads, DDR initialisation first.
Upload(code, size) ==
    [i \in 1..Len(build_maskrom_chunks(size)) |->
        [code |-> code, size |-> size, len |-> build_maskrom_chunks(size)[i]]]
Uploads(code, sizes) ==
    LET upto[n \in 0..Len(sizes)] == IF n = 0 THEN <<>> ELSE upto[n - 1] \o Upload(code, sizes[n])
    IN  upto[Len(sizes)]
UploadPlan(r) == Uploads(471, r.ddr) \o Uploads(472, r.usbplug)

\* The (lba, count) pairs of a range of sectors.
split_lba_transfers(start, sectors) ==
    [i \in 1..(sectors + MaxSectors - 1) \div MaxSectors |->
        [lba |-> start + (i - 1) * MaxSectors,
         count |-> IF i * MaxSectors <= sectors THEN MaxSectors
                   ELSE sectors - (i - 1) * MaxSectors]]

\* What follows once the loader answers: burn reads the flash id, dump-flash
\* the geometry, and a client of write_image writes.
FlashPhase == CASE ureq.cmd = "burn" -> "id" [] ureq.cmd = "dump" -> "info"
                [] OTHER -> "write"

\* RockusbDevice.open: claim the bulk interface, which MaskROM lacks, and
\* discard what is still queued.
open(p, next, plan) ==
    /\ held' = p
    /\ claimed' = IF bus[p] = "loader" THEN claimed \cup {p} ELSE claimed
    /\ pipe' = [pipe EXCEPT ![p] = SubSeq(@, DrainMax + 1, Len(@))]
    /\ todo' = plan /\ upc' = next
    /\ UNCHANGED <<ureq, cmd, tag, part, outfile, why, bus, rom, flash, budget>>

\* The first board found; a loader left running is sent back to MaskROM.
FindBoard ==
    /\ upc = "find"
    /\ \/ \E p \in Ports :
            /\ OnlyMatch(ureq.path, {"maskrom", "loader"}, p)
            /\ \/ /\ found' = p
                  /\ IF bus[p] = "loader" THEN open(p, "reset", <<>>)
                     ELSE open(p, "upload", UploadPlan(ureq))
               \/ UsbFault /\ Raise("fault")
       \/ wait_for_device(ureq.path, {"maskrom", "loader"}, "absent")

\* As Reacquire below, but taking any board that is in the wanted mode.
ReacquireAny(phase, mode, next, plan) ==
    /\ upc = phase
    /\ \/ \E p \in Ports : OnlyMatch(ureq.path, {mode}, p) /\ found' = found /\ open(p, next, plan)
       \/ wait_for_device(ureq.path, {mode}, "lost")

\* The board comes back at the port it was found at, in the wanted mode; at
\* one port there are never two.
Reacquire(phase, mode, next, plan) ==
    /\ upc = phase
    /\ \/ /\ OnlyMatch(found, {mode}, found)
          /\ \/ UNCHANGED found /\ open(found, next, plan)
             \/ UsbFault /\ Raise("fault")
       \/ Expires(found, {mode}) /\ Raise("lost")

return_to_maskrom == Reacquire("backrom", "maskrom", "upload", UploadPlan(ureq))

AwaitLoader ==
    Reacquire("reload", "loader", FlashPhase,
              IF ureq.cmd = "write" THEN split_lba_transfers(ureq.start, ureq.sectors)
              ELSE <<>>)

(***************************************************************************)
(* The boot ROM (external) and the upload.                                 *)
(***************************************************************************)
\* A short transfer ends the image: it runs if all of it arrived and the CRC
\* lies in one transfer.
Accepts(got, size) ==
    /\ got \in {FramedSize(size), FramedSize(size) + 1}
    /\ (PaddedSize(size) % ChunkSize) + CrcSize <= ChunkSize

RomTakes(r, c) ==
    IF c.len = ChunkSize THEN [r EXCEPT !.got = @ + c.len]
    ELSE [got |-> 0, ddr |-> r.ddr \/ (c.code = 471 /\ Accepts(r.got + c.len, c.size))]

LoaderStarts(r, c) ==
    c.code = 472 /\ c.len < ChunkSize /\ r.ddr /\ Accepts(r.got + c.len, c.size)

\* One control transfer of the upload.
control_write ==
    /\ upc = "upload" /\ todo # <<>>
    /\ \/ /\ bus[held] = "maskrom"
          /\ rom' = [rom EXCEPT ![held] = RomTakes(@, Head(todo))]
          /\ bus' = [bus EXCEPT ![held] = IF LoaderStarts(rom[held], Head(todo))
                                          THEN "to_loader" ELSE @]
          /\ todo' = Tail(todo)
          /\ UNCHANGED <<upc, ureq, found, held, claimed, cmd, tag, part, outfile, why,
                         pipe, flash, budget>>
       \/ /\ bus[held] # "maskrom"
          /\ Raise("lost") /\ UNCHANGED budget
       \/ UsbFault /\ Raise("fault")

\* The upload is over: the handle is closed before the board comes back.
download_boot ==
    /\ upc = "upload" /\ todo = <<>>
    /\ claimed' = claimed \ {held}
    /\ upc' = "reload"
    /\ UNCHANGED <<ureq, found, held, todo, cmd, tag, part, outfile, why, device, budget>>

(***************************************************************************)
(* The loader (external): its answer to a command, whole or, for a fault,  *)
(* without its data, without its status, with less than was asked, or      *)
(* refused.                                                                *)
(***************************************************************************)
Content(p, c) == [i \in 1..c.count |-> flash[p][c.lba + i - 1]]

AnswerData(p, c, faulty) ==
    CASE c.op = "READ_LBA" ->
            IF faulty THEN SubSeq(Content(p, c), 1, c.count - 1) ELSE Content(p, c)
      [] c.op = "READ_FLASH_INFO" -> IF faulty THEN <<0>> ELSE <<FlashSectors>>
      [] OTHER -> <<p>>

DirectionIn(op) == op \in {"READ_LBA", "READ_FLASH_INFO", "READ_FLASH_ID"}
residue_is_meaningful(op) == op \in {"READ_LBA", "WRITE_LBA"}

Replies(p, c, faulty) ==
    LET data == IF DirectionIn(c.op) THEN <<Data(AnswerData(p, c, faulty))>> ELSE <<>>
    IN  IF ~faulty THEN {data \o <<Csw(c.tag, TRUE, ~residue_is_meaningful(c.op))>>}
        ELSE {data, data \o <<Csw(c.tag, FALSE, TRUE)>>, data \o <<Csw(c.tag, TRUE, TRUE)>>}
             \cup (IF DirectionIn(c.op) THEN {data \o <<Csw(c.tag, TRUE, FALSE)>>} ELSE {})

\* What the command does to the board: sectors written, fewer for a fault.
Written(p, c, faulty) ==
    IF c.op # "WRITE_LBA" THEN flash
    ELSE [flash EXCEPT ![p] = [l \in DOMAIN @ |->
            IF l >= c.lba /\ l < c.lba + c.count - (IF faulty THEN 1 ELSE 0)
            THEN ImageSector(l) ELSE @[l]]]

\* A board told to reset leaves the bus, and its queue goes with it.
ResetTo(op) == IF op = "RESET_MASKROM" THEN "to_maskrom" ELSE "linux"

\* RockusbDevice.command up to the status wrapper.
Send(phase, op, lba, count) ==
    LET c == [op |-> op, lba |-> lba, count |-> count, tag |-> tag + 1]
        resets == op \in {"RESET_MASKROM", "RESET_NORMAL"}
    IN  /\ upc = phase /\ cmd = NoCommand
        /\ \/ /\ bus[held] = "loader"
              /\ cmd' = [op |-> op, lba |-> lba, count |-> count]
              /\ tag' = tag + 1
              /\ \E faulty \in BOOLEAN :
                    /\ IF faulty THEN UsbFault ELSE UNCHANGED budget
                    /\ \E r \in Replies(held, c, faulty) :
                          pipe' = [pipe EXCEPT ![held] = @ \o r]
                    /\ flash' = Written(held, c, faulty)
                    /\ bus' = [bus EXCEPT ![held] = IF resets /\ ~faulty THEN ResetTo(op) ELSE @]
              /\ UNCHANGED <<upc, ureq, found, held, claimed, todo, part, outfile, why, rom>>
           \/ /\ bus[held] # "loader"
              /\ Raise("lost") /\ UNCHANGED budget
           \/ UsbFault /\ Raise("fault")

SendCommand ==
    \/ Send("reset", "RESET_MASKROM", 0, 0)
    \/ Send("id", "READ_FLASH_ID", 0, 0)
    \/ Send("info", "READ_FLASH_INFO", 0, 0)
    \/ todo # <<>> /\ Send("dump", "READ_LBA", Head(todo).lba, Head(todo).count)
    \/ todo # <<>> /\ Send("write", "WRITE_LBA", Head(todo).lba, Head(todo).count)
    \/ Send("restart", "RESET_NORMAL", 0, 0)

\* The data and the status wrapper of the command, where they have arrived.
Tolerant == cmd.op \in {"RESET_MASKROM", "RESET_NORMAL"}
StatusAt == IF DirectionIn(cmd.op) THEN 2 ELSE 1
HasStatus == Len(pipe[held]) >= StatusAt
Status == pipe[held][StatusAt]
Payload == IF DirectionIn(cmd.op) THEN pipe[held][1].val ELSE <<>>
Wanted == IF cmd.op = "READ_LBA" THEN cmd.count ELSE 1

\* parse_csw: the wrapper is one, and answers this command.
Framed == Status.kind = "csw" /\ Status.tag = tag

\* As Complete below, but without looking at the residue or the length.
CompleteByStatus == Status.ok

Complete ==
    /\ Status.ok
    /\ ~(Status.residue /\ residue_is_meaningful(cmd.op))
    /\ DirectionIn(cmd.op) => Len(Payload) = Wanted

Answered == IF HasStatus THEN Framed /\ Complete ELSE Tolerant

\* command raises; an ill-framed status while resetting an old loader is
\* not the kind of error the caller closes the device for.
CommandFails ==
    /\ cmd # NoCommand /\ ~Answered
    /\ UNCHANGED budget
    /\ IF upc = "reset" /\ HasStatus /\ ~Framed THEN _usb_fail("wedged", FALSE)
       ELSE Raise("fault")

Consume ==
    /\ cmd # NoCommand /\ Answered
    /\ pipe' = [pipe EXCEPT ![held] = SubSeq(@, StatusAt + 1, Len(@))]
    /\ cmd' = NoCommand
    /\ UNCHANGED <<ureq, found, held, tag, bus, rom, flash, budget>>

\* The old loader resets: close it and wait for MaskROM.
ResetAnswered ==
    /\ upc = "reset" /\ Consume
    /\ claimed' = claimed \ {held}
    /\ upc' = "backrom"
    /\ UNCHANGED <<todo, part, outfile, why>>

\* burn has its flash id; the board has restarted after a write: the command
\* is done and closes the device.
LastAnswered ==
    /\ upc \in {"id", "restart"} /\ Consume
    /\ claimed' = claimed \ {held}
    /\ upc' = "done"
    /\ UNCHANGED <<todo, part, outfile, why>>

\* The extent to dump: a partition of the profile or the whole flash.
Extent(sectors) == IF ureq.sectors = 0 THEN <<0, sectors>> ELSE <<ureq.start, ureq.sectors>>

\* The geometry: nothing is read past what the flash says it holds.
InfoAnswered ==
    /\ upc = "info" /\ cmd # NoCommand /\ Answered
    /\ LET sectors == Payload[1]
           e == Extent(sectors)
       IN  \/ /\ sectors = 0 /\ Raise("fault") /\ UNCHANGED budget
           \/ /\ sectors > 0 /\ e[1] + e[2] > sectors /\ Raise("extent") /\ UNCHANGED budget
           \/ /\ sectors > 0 /\ e[1] + e[2] <= sectors
              /\ Consume
              /\ part' = <<>>
              /\ todo' = split_lba_transfers(e[1], e[2])
              /\ upc' = "dump"
              /\ UNCHANGED <<claimed, outfile, why>>

\* dump_image: one chunk goes to the partial file.
SectorsRead ==
    /\ upc = "dump" /\ Consume
    /\ part' = part \o Payload
    /\ todo' = Tail(todo)
    /\ UNCHANGED <<upc, claimed, outfile, why>>

\* The whole range is read: the partial file takes the output file's place.
UsbDumpEnds ==
    /\ upc = "dump" /\ todo = <<>>
    /\ outfile' = part /\ part' = NoFile
    /\ claimed' = claimed \ {held}
    /\ upc' = "done"
    /\ UNCHANGED <<ureq, found, held, todo, cmd, tag, why, device, budget>>

\* write_image: one chunk is in flash; after the last the board is reset.
SectorsWritten ==
    /\ upc = "write" /\ Consume
    /\ todo' = Tail(todo)
    /\ upc' = IF Len(todo) = 1 THEN "restart" ELSE "write"
    /\ UNCHANGED <<claimed, part, outfile, why>>

UsbHost ==
    \/ _resolve_usb_loader \/ PowerCycle \/ FindBoard
    \/ return_to_maskrom \/ control_write \/ download_boot \/ AwaitLoader
    \/ SendCommand \/ CommandFails
    \/ ResetAnswered \/ LastAnswered \/ InfoAnswered
    \/ SectorsRead \/ UsbDumpEnds \/ SectorsWritten

UsbNext == UsbHost \/ \E p \in Ports : Enumerate(p) \/ PlugIn(p) \/ Unplug(p)

UsbSpec == UsbInit /\ [][UsbNext]_usbVars

UsbEnded == upc \in {"done", "failed"}

(***************************************************************************)
(* Properties.                                                             *)
(***************************************************************************)
\* Only the board found first, and at the port the user named if they named
\* one, is uploaded to or written: the pin on usb_path that
\* _open_usb_target hands to return_to_maskrom and download_boot.
OneBoardTouched ==
    /\ ureq.path # AnyPort => found \in {NoPort, ureq.path}
    /\ held \in {NoPort, found}
    /\ \A p \in Ports \ {found} : flash[p] = BlankFlash(p) /\ rom[p] = MaskromIdle

\* The output file is the earlier backup or the whole extent of the board
\* found, and a write reported as done is in flash, although transfers fall
\* short and statuses are lost (command, dump_image, write_image and the
\* replace of the partial file in _dump_flash_usb_async).
UsbResultWhole ==
    /\ outfile # OldFile =>
         outfile = Content(found, [lba |-> Extent(FlashSectors)[1],
                                count |-> Extent(FlashSectors)[2]])
    /\ upc = "done" /\ ureq.cmd = "dump" => outfile # OldFile
    /\ upc = "done" /\ ureq.cmd = "write" =>
         \A l \in ureq.start..ureq.start + ureq.sectors - 1 :
            flash[found][l] = ImageSector(l)
    /\ UsbEnded => part = NoFile

\* With no transfer failing and no board slow, a command fails only for its
\* arguments, for several boards or none, or for a loader with more queued
\* than one drain discards: image framing, uploads, re-enumeration and
\* every command otherwise work out whatever the sizes of the images.
UsbFailsOnlyWithCause ==
    upc = "failed" /\ ufaults = MaxUsbFaults =>
        \/ why = "loader" /\ ureq.loader = "bad"
        \/ why \in {"ambiguous", "absent"} /\ found = NoPort
        \/ why = "extent" /\ ureq.start + ureq.sectors > FlashSectors
        \/ why = "wedged" /\ ureq.stale > DrainMax
=============================================================================
