------------------------------ MODULE Reflash ------------------------------
(***************************************************************************)
(* The two commands that rewrite a flash through U-Boot: `defib install`   *)
(* (module Installer) and `defib restore` (src/src/defib/cli/app.py,       *)
(* _restore_async), which writes back the partitions of a dump.  Restore   *)
(* takes what was read when a timeout expires for the answer, and goes on. *)
(***************************************************************************)
EXTENDS Installer
LOCAL INSTANCE SequencesExt

CONSTANT Pings      \* ping attempts before the network is given up

VARIABLES kind,     \* the flash type restore detected
          skipped   \* partitions restore passed over

allVars == <<vars, kind, skipped>>
restoreVars == <<kind, skipped>>
hostRest == <<macs, size, blk, crcAvail>>

Restoring == pc = "console" /\ q.command = "restore"

PartFile(p) ==
    [boot |-> "u", env |-> "e", kernel |-> "k", rootfs |-> "r", data |-> "d"][p]

\* Boot goes last: setenv and the network commands write into its area.
WriteOrder == Tail(q.parts) \o <<Head(q.parts)>>

\* One partition: fetched first, then erased and written; a UBIFS image goes
\* through UBI, for which the partition layout must be known.
PartOps(p) ==
    IF kind = "nand" /\ p = "rootfs" /\ q.ubifs
    THEN If(~q.mtdparts, <<Cmd("layout", p, "")>>)
         \o <<Cmd("setenv", "mtd", "std"), Cmd("fetch", p, PartFile(p)),
              Cmd("erase", p, kind), Cmd("ubi", p, ""), Cmd("write", p, kind)>>
    ELSE <<Cmd("fetch", p, PartFile(p)), Cmd("erase", p, kind), Cmd("write", p, kind)>>

PartsOps(order) == FlattenSeq([i \in DOMAIN order |-> PartOps(order[i])])

DetectFlash ==
    IF q.auto THEN <<Cmd("info", "", ""), Cmd("probe", "", ""), Cmd("mmc", "", "")>>
    ELSE <<>>

\* The network, the files, then the partitions.
Serving(via) ==
    <<Cmd("setenv", "net", "restore"), Cmd("ping", "", "")>>
    \o (IF via = "pod" THEN <<Cmd("stage", "", ""), Cmd("podready", "", "")>>
        ELSE <<Cmd("serve", "", "")>>)
    \o <<Cmd("plan", "", "")>>

InitRestore ==
    /\ Init
    /\ kind = IF q.command = "restore" /\ ~q.auto THEN board.media ELSE "none"
    /\ skipped = {}

---------------------------------------------------------------------------

restoreFrame == <<waiting, again, tries, hostRest, backend>>
restoreDevice == <<board, dq, aq, ram, flash, env, stored, q, restoreVars>>

\* The partitions of the dump and the U-Boot image, or neither is there.
ReadDump ==
    /\ pc = "preflight" /\ q.command = "restore"
    /\ IF q.parts = <<>> \/ ~q.uboot THEN Fail
       ELSE pc' = "boot" /\ UNCHANGED <<ops, restoreFrame>>
    /\ UNCHANGED <<faults, restoreDevice>>

\* The controller must be able to hold the power off, and its port be found.
RestorePower ==
    /\ pc = "boot" /\ q.command = "restore"
    /\ \/ pc' = "burn" /\ UNCHANGED <<faults, ops, restoreFrame>>
       \/ Fault /\ Fail
    /\ UNCHANGED restoreDevice

\* The pod's fastboot, or RecoverySession while the power comes back.
RestoreBurn ==
    /\ pc = "burn" /\ q.command = "restore"
    /\ \/ pc' = "detect" /\ UNCHANGED <<faults, ops, restoreFrame>>
       \/ Fault /\ Fail
    /\ UNCHANGED restoreDevice

RestoreDetect ==
    /\ pc = "detect" /\ q.command = "restore"
    /\ pc' = "console" /\ ops' = DetectFlash \o <<Cmd("backend", "", "")>>
    /\ UNCHANGED <<faults, restoreFrame, restoreDevice>>

\* A pod whose memory cannot hold the dump leaves the files to the host.
RestoreBackend ==
    /\ Restoring /\ ops # <<>> /\ Op.c = "backend"
    /\ \E via \in {"host", q.via} : ops' = Serving(via)
    /\ UNCHANGED <<pc, faults, restoreFrame, restoreDevice>>

RestoreLocal == {"backend", "stage", "podready", "serve", "plan"}

RestoreLine ==
    CASE Op.c = "layout" -> Cmd("printenv", "mtd", "")
      [] OTHER -> Op

RestoreSend ==
    /\ Restoring /\ ~waiting /\ ops # <<>> /\ Op.c \notin RestoreLocal
    /\ SendLine(RestoreLine)
    /\ IF Op.c = "reset" THEN Advance(1)
       ELSE waiting' = TRUE /\ UNCHANGED <<pc, ops, again, tries>>
    /\ UNCHANGED <<deviceVars, faults, q, hostRest, backend, restoreVars>>

\* The rest of a partition's operations are dropped with it.
SkipPart(p) ==
    /\ ops' = SelectSeq(Tail(ops), LAMBDA o : o.p # p)
    /\ skipped' = skipped \cup {p}
    /\ waiting' = FALSE /\ again' = FALSE /\ tries' = 0
    /\ UNCHANGED <<pc, kind>>

Detected(k, drop) == kind' = k /\ Advance(drop) /\ UNCHANGED skipped

\* nand, then nor, then emmc: the first whose text holds no error.
HearDetect(resp) ==
    /\ Op.c \in {"info", "probe", "mmc"}
    /\ CASE Op.c = "info" ->
                IF "ok" \in Texts(resp) /\ "err" \notin Texts(resp) THEN Detected("nand", 3)
                ELSE Advance(1) /\ UNCHANGED restoreVars
         [] Op.c = "probe" ->
                IF "err" \notin Texts(resp) THEN Detected("nor", 2)
                ELSE Advance(1) /\ UNCHANGED restoreVars
         [] OTHER -> "err" \notin Texts(resp) /\ Detected("emmc", 1)
    /\ UNCHANGED <<hostRest, backend>>

HearNoFlash(resp) ==
    /\ Op.c = "mmc" /\ "err" \in Texts(resp)
    /\ Fail /\ UNCHANGED restoreVars

HearPing(resp) ==
    /\ Op.c = "ping"
    /\ IF "ok" \in Texts(resp) THEN Advance(1) /\ UNCHANGED <<hostRest, backend>>
       ELSE IF tries + 1 < Pings THEN Redo(<<>>) /\ UNCHANGED <<hostRest, backend>>
       ELSE Fail
    /\ UNCHANGED restoreVars

\* tftpboot, or tftp where that is unknown; without its text the partition is
\* passed over.
HearRestoreFetch(resp) ==
    /\ Op.c = "fetch"
    /\ IF "unk" \in Texts(resp) /\ ~again
       THEN /\ waiting' = FALSE /\ again' = TRUE
            /\ UNCHANGED <<pc, ops, tries, restoreVars>>
       ELSE IF TransferSeen(resp) THEN Advance(1) /\ UNCHANGED restoreVars
       ELSE SkipPart(Op.p)
    /\ UNCHANGED <<hostRest, backend>>

HearLayout(resp) ==
    /\ Op.c = "layout"
    /\ IF parse_printenv_value(resp) = "none" THEN SkipPart(Op.p)
       ELSE Advance(1) /\ UNCHANGED restoreVars
    /\ UNCHANGED <<hostRest, backend>>

\* Erase, write and setenv: whatever they answer.
HearAny(resp) ==
    /\ Op.c \in {"setenv", "erase", "ubi", "write"}
    /\ Advance(1)
    /\ UNCHANGED <<hostRest, backend, restoreVars>>

\* A response, or what had come when the timeout expired: nothing.
RestoreHear ==
    /\ Restoring /\ waiting
    /\ \E n \in 0..Len(aq) :
        /\ IF n = 0 THEN aq = <<>> /\ Fault ELSE UNCHANGED faults
        /\ Consume(n)
        /\ LET resp == Response(n)
           IN  \/ HearDetect(resp) \/ HearNoFlash(resp) \/ HearPing(resp)
               \/ HearRestoreFetch(resp) \/ HearLayout(resp) \/ HearAny(resp)
    /\ UNCHANGED <<deviceVars, dq, q>>

\* The download-mode client cannot send while the device is busy: an empty answer.
RestoreBusy ==
    /\ Restoring /\ ~waiting /\ ops # <<>> /\ Op.c \notin RestoreLocal
    /\ board.mode = "download" /\ dq # <<>>
    /\ \/ HearDetect(<<>>) \/ HearPing(<<>>) \/ HearRestoreFetch(<<>>)
       \/ HearLayout(<<>>) \/ HearAny(<<>>)
       \/ Op.c = "reset" /\ Advance(1) /\ UNCHANGED <<hostRest, backend, restoreVars>>
    /\ UNCHANGED <<consoleVars, q>>

\* Clear the pod, stage every partition; nothing is cleaned up if one fails.
RestoreStage ==
    /\ Restoring /\ ops # <<>> /\ Op.c = "stage"
    /\ LET files == {PartFile(q.parts[i]) : i \in DOMAIN q.parts}
       IN  \/ /\ pod # files /\ \E f \in files \ pod : pod' = pod \cup {f}
              /\ UNCHANGED <<faults, pc, ops, waiting, again, tries, served>>
           \/ /\ pod = files /\ Advance(1) /\ UNCHANGED <<faults, backend>>
           \/ /\ Fault /\ pc' = "failed" /\ ops' = <<>>
              /\ UNCHANGED <<waiting, again, tries, backend>>
    /\ UNCHANGED <<board, dq, aq, ram, flash, env, stored, q, hostRest, restoreVars>>

RestoreServe ==
    /\ Restoring /\ ops # <<>> /\ Op.c \in {"podready", "serve"}
    /\ served' = (IF Op.c = "serve" THEN "host" ELSE "pod")
    /\ Advance(1)
    /\ UNCHANGED <<consoleVars, q, hostRest, pod, restoreVars>>

PlanParts ==
    /\ Restoring /\ ops # <<>> /\ Op.c = "plan"
    /\ ops' = PartsOps(WriteOrder) \o <<Cmd("reset", "", "")>>
    /\ UNCHANGED <<consoleVars, q, pc, waiting, again, tries, hostRest, backend, restoreVars>>

RestoreFinish ==
    /\ Restoring /\ ops = <<>>
    /\ Exit("done")
    /\ UNCHANGED <<consoleVars, q, restoreVars>>

Restore ==
    \/ ReadDump \/ RestorePower \/ RestoreBurn \/ RestoreDetect \/ RestoreBackend
    \/ RestoreSend \/ RestoreHear \/ RestoreBusy \/ RestoreStage
    \/ RestoreServe \/ PlanParts \/ RestoreFinish

InstallStep == Host /\ UNCHANGED restoreVars
Executes == DeviceStep /\ UNCHANGED restoreVars

Ended == pc \in {"done", "failed"} /\ dq = <<>> /\ UNCHANGED allVars

Next == InstallStep \/ Restore \/ Executes \/ Ended

\* Every wait of the host has a timeout, and U-Boot runs what it is sent.
Spec == InitRestore /\ [][Next]_allVars /\ WF_allVars(InstallStep \/ Restore)
        /\ WF_allVars(Executes)

---------------------------------------------------------------------------
(* Properties. *)

\* The image a partition is to hold: in a split or a UBI layout the rootfs
\* image covers the kernel too.
Image(p) ==
    IF p = "kernel" /\ board.media \in {"split", "ubi"} THEN "r" ELSE FileOf(p)

\* An install changes the boot, kernel or rootfs partition only while the whole
\* verified image for it is in RAM: a failed, late or damaged transfer never
\* costs what was installed.  This rests on there being one retry: with two, the
\* late answers of the first lines could be taken while a fetch is still queued
\* before the erase.  (Once a NAND U-Boot has denied knowing crc32, sizes are all
\* that is checked.)
FlashOnlyWithImage ==
    [][q.command = "install" /\ (~Nand \/ crcAvail # "no") =>
          \A p \in {"boot", "kernel", "rootfs"} :
              flash'[p] # flash[p] => ram = Image(p)]_allVars

ImageStages == [uboot |-> "boot", kernel |-> "kernel", rootfs |-> "rootfs"]

\* The partitions an install reads back after it has written them.  NOR is read
\* and summed by one line; the UBI image by two, and the CRC is then of the image
\* still in RAM if the erase was answered late, the write was damaged in silence
\* and the late answer hid that the read failed: three faults.
ReadBack ==
    CASE ~Nand -> {"boot", "kernel", "rootfs"}
      [] board.media = "ubi" /\ crcAvail = "yes" /\ faults < 3 -> {"rootfs"}
      [] OTHER -> {}

\* "Install complete!" on NOR: every selected image is in flash byte for byte and
\* the data asked to be erased is erased, whatever answers were lost, late or
\* false on the way.  The UBI image is, on a device known to have crc32, after any
\* two such faults (see ReadBack).  A restore that met no fault has every partition
\* in place, if boot's erase stays within boot, but for a UBIFS partition whose
\* place no mtdparts tell.
DoneMeansInstalled ==
    pc = "done" =>
        /\ q.command = "install" =>
              /\ \A s \in DOMAIN ImageStages :
                    s \in Stages /\ ImageStages[s] \in ReadBack
                      /\ ~(s = "kernel" /\ Image("kernel") = "r")
                        => flash[ImageStages[s]] = Image(ImageStages[s])
              /\ board.media = "nor" /\ q.wipeData => flash["data"] = "erased"
        /\ q.command = "restore" /\ faults = 0 /\ ~board.spills =>
              \A i \in DOMAIN q.parts :
                  IF q.parts[i] \in skipped THEN q.ubifs /\ board.mtd = "none"
                  ELSE flash[q.parts[i]] = PartFile(q.parts[i])

\* A stock board's factory MAC is never lost: while its environment is not in
\* flash the host holds the address, and a finished env stage has stored it.
\* On other boards it survives when the console answered truly and in time.
FactoryMacKept ==
    q.command = "install" /\ board.mac = "factory" =>
        /\ board.stock /\ ~Nand /\ flash["env"] \in {"erased", "torn"} => pres = "factory"
        /\ pc = "done" /\ "env" \in Stages /\ (board.stock \/ faults = 0)
              => stored.mac = "factory" /\ flash["env"] = "saved"

\* The capacity the layout is chosen by is never more than the chip has, even
\* when a size read is answered late: the candidates descend.
NorSizeFits == size # "none" => size \in board.sizes

\* The smaller blocks of a retry end with it: each file is first fetched in the
\* largest blocks the host's server offers.
FullBlocksFirst == pc = "console" /\ waiting /\ Op.c = "fetch" /\ tries = 0 => blk = "max"

\* An install or a restore ends, whatever the device answers.
ReflashEnds == <>(pc \in {"done", "failed"})
=============================================================================
