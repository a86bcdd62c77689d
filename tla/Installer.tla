----------------------------- MODULE Installer -----------------------------
(***************************************************************************)
(* `defib install` (src/src/defib/install/orchestrator.py, run_install):   *)
(* bring OpenIPC U-Boot up, then drive its console through the operations  *)
(* of InstallPlan.  U-Boot reaches RAM through the boot ROM or the rack    *)
(* pod, or by a chainload from Hikvision's stock U-Boot                    *)
(* (src/src/defib/vendors/hikvision.py).                                   *)
(***************************************************************************)
EXTENDS InstallPlan

CONSTANTS Requests,      \* pairs of a board and a request
          RamVerifyRetries,  \* TFTP_RAM_VERIFY_RETRIES
          EnvAttempts    \* attempts of set_uboot_env_verified

VARIABLES pc,       \* "preflight", "boot", "burn", "stock", "stockmac", "chain",
                    \* "detect", "console", "done", "failed"
          ops,      \* the operations still to do
          waiting,  \* the first of them has been sent
          again,    \* ... for the second time, after "Unknown command"
          tries,    \* attempts of the RAM or environment check under way
          pres,     \* ethaddr read from stock U-Boot
          keep,     \* ethaddr read before the defaults were loaded
          cur,      \* ethaddr read last
          size,     \* the NOR capacity chosen
          blk,      \* block size limit of the host's TFTP server
          crcAvail, \* whether the device's U-Boot has crc32, once known
          served,   \* who serves the files: "none", "host", "pod"
          pod       \* files staged in the rack pod's memory

hostVars == <<pc, ops, waiting, again, tries, pres, keep, cur, size, blk, crcAvail,
              served, pod>>
vars == <<consoleVars, q, hostVars>>

\* `served` and `pod` change in the backend's own steps only, the MACs in the
\* handlers of printenv only.
macs == <<pres, keep, cur>>
backend == <<served, pod>>

InitBoard ==
    \E r \in Requests :
        /\ board = r.board /\ q = r.req
        /\ stored = [mac |-> board.mac, mtd |-> board.mtd, net |-> "unset", mem |-> "unset"]
        /\ env = IF board.readable THEN stored ELSE Defaults

Init ==
    /\ InitBoard
    /\ dq = <<>> /\ aq = <<>> /\ ram = "junk" /\ faults = 0
    /\ flash = [p \in Parts |-> "old"]
    /\ pc = "preflight" /\ ops = <<>> /\ waiting = FALSE /\ again = FALSE /\ tries = 0
    /\ pres = "none" /\ keep = "none" /\ cur = "none" /\ size = "none"
    /\ blk = "max" /\ crcAvail = "unknown" /\ served = "none" /\ pod = {}

\* An exit closes the UART, the power controller and, where they were entered,
\* the address, the TFTP server and the pod's store.
Exit(how) ==
    /\ pc' = how
    /\ served' = "none"
    /\ pod' = IF served = "pod" THEN {} ELSE pod
    /\ ops' = <<>> /\ waiting' = FALSE /\ again' = FALSE /\ tries' = 0
    /\ UNCHANGED <<pres, keep, cur, size, blk, crcAvail>>

Fail == Exit("failed")

---------------------------------------------------------------------------
(* Before the console. *)

Preflight ==
    /\ pc = "preflight" /\ q.command = "install"
    /\ IF Refused \/ ~BundleAccepted \/ ~q.uboot
       THEN Fail
       ELSE pc' = "boot" /\ UNCHANGED <<ops, waiting, again, tries, macs, size, blk,
                                        crcAvail, backend>>
    /\ UNCHANGED <<consoleVars, q>>

bootFrame == <<ops, waiting, again, tries, keep, cur, size, blk, crcAvail, backend>>
bootDevice == <<board, dq, aq, ram, flash, env, stored, q>>

\* The power controller and its port are found and the serial port is opened; a
\* stock board is power cycled here.
SetUpPower ==
    /\ pc = "boot" /\ q.command = "install"
    /\ \/ /\ pc' = (IF board.stock THEN "stock" ELSE "burn")
          /\ UNCHANGED <<faults, pres, bootFrame>>
       \/ Fault /\ Fail
    /\ UNCHANGED bootDevice

\* RecoverySession.run or run_rack_fastboot: U-Boot runs from RAM, or it failed.
BurnUboot ==
    /\ pc = "burn" /\ q.command = "install"
    /\ \/ pc' = "detect" /\ UNCHANGED <<faults, pres, bootFrame>>
       \/ Fault /\ Fail
    /\ UNCHANGED bootDevice

\* _detect_console: an OpenIPC prompt needs no chainload; with neither prompt in
\* time the install ends.
DetectConsole ==
    /\ pc = "stock"
    /\ \/ /\ pc' = (IF board.warm THEN "detect" ELSE "stockmac")
          /\ UNCHANGED <<faults, pres, bootFrame>>
       \/ Fault /\ Fail
    /\ UNCHANGED bootDevice

\* bootstrap reads the factory MAC from the stock U-Boot; a lost line leaves none.
ReadStockMac ==
    /\ pc = "stockmac"
    /\ \/ /\ pc' = "chain"
          /\ pres' = (IF is_unset_or_default_ethaddr(board.mac) THEN "none" ELSE board.mac)
          /\ UNCHANGED <<faults, bootFrame>>
       \/ Fault /\ pc' = "chain" /\ UNCHANGED <<pres, bootFrame>>
       \/ Fault /\ Fail
    /\ UNCHANGED bootDevice

\* _chainload: loady, YMODEM, go, until the OpenIPC prompt shows.
Chainload ==
    /\ pc = "chain"
    /\ \/ ~PartialRefused /\ pc' = "detect" /\ UNCHANGED <<faults, pres, bootFrame>>
       \/ PartialRefused /\ Fail /\ UNCHANGED faults
       \/ Fault /\ Fail
    /\ UNCHANGED bootDevice

\* Ctrl-C until a prompt or the download banner shows.
DetectMode ==
    /\ pc = "detect" /\ q.command = "install"
    /\ IF board.stock /\ board.mode = "download"
       THEN Fail
       ELSE /\ pc' = "console" /\ ops' = Program(pres)
            /\ UNCHANGED <<waiting, again, tries, macs, size, blk, crcAvail, backend>>
    /\ UNCHANGED <<consoleVars, q>>

---------------------------------------------------------------------------
(* Driving the console. *)

Console == pc = "console" /\ q.command = "install"
Op == Head(ops)
AtOp(cs) == Console /\ ops # <<>> /\ Op.c \in cs

\* Steps the host does without the device.
LocalOps == {"fit", "aligned", "stage", "podready", "ip", "serve", "replace", "macpre",
             "macpick", "waitshell"}

\* The line an operation puts on the wire.
Line ==
    CASE Op.c \in {"ramcrc", "flashcrc", "crcseen"} -> Cmd("crc", Op.p, "")
      [] Op.c \in {"checkenv", "sameenv", "printenv"} -> Cmd("printenv", Op.p, "")
      [] Op.c = "setv" -> Cmd("setenv", Op.p, Op.v)
      [] Op.c \in {"erasepart", "erasequiet"} -> Cmd("erase", Op.p, Op.v)
      [] Op.c = "readif" -> Cmd("read", Op.p, Op.v)
      [] OTHER -> Op

Send ==
    /\ Console /\ ~waiting /\ ops # <<>> /\ Op.c \notin LocalOps \cup {"reset"}
    /\ SendLine(Line)
    /\ waiting' = TRUE
    /\ UNCHANGED <<deviceVars, faults, q, pc, ops, again, tries, macs, size, blk,
                   crcAvail, backend>>

\* The next operation, after k of them are done or dropped.
Advance(k) ==
    /\ ops' = SubSeq(ops, k + 1, Len(ops))
    /\ waiting' = FALSE /\ again' = FALSE /\ tries' = 0
    /\ UNCHANGED pc

Redo(more) ==
    /\ ops' = more \o ops
    /\ waiting' = FALSE /\ again' = FALSE /\ tries' = tries + 1
    /\ UNCHANGED pc

\* Operations run through _cmd, which stops the install without an answer.
Strict == {"setv", "checkenv", "setenv", "info", "probe", "erase", "erasequiet", "write",
           "read", "readif", "flashcrc", "readcrc", "ubi", "default", "saveenv",
           "crcseen", "cmp"}

\* download_process reports the command's status itself.
StatusFailed(resp) == board.mode = "download" /\ (CommandError(resp) \/ "tfail" \in Texts(resp))

\* The response to the operation under way: read up to a prompt.
Hear(cs, n) == AtOp(cs) /\ waiting /\ n \in 1..Len(aq) /\ Consume(n)

hearFrame == <<deviceVars, dq, faults, q>>

\* _cmd_result in a shell: once more after "Unknown command".
Resend(n) ==
    /\ Hear(Strict, n) /\ board.mode = "shell" /\ ~again
    /\ "unk" \in Texts(Response(n))
    /\ waiting' = FALSE /\ again' = TRUE
    /\ UNCHANGED <<pc, ops, tries, macs, size, blk, crcAvail, backend, hearFrame>>

Settled(n) == ~("unk" \in Texts(Response(n)) /\ board.mode = "shell" /\ ~again)

\* Operations judged by uboot_flash_command_error; `nand info` and the legacy
\* `ubi write`, where only the word error is looked for; and the UBI layout's,
\* which must also say OK.
OpFailed(resp) ==
    \/ IF Op.c = "info" \/ (board.media = "nand" /\ q.ubifs /\ Op.p = "rootfs")
       THEN "err" \in Texts(resp) ELSE CommandError(resp)
    \/ board.media = "ubi" /\ Op.p = "rootfs" /\ "ok" \notin Texts(resp)

\* ... and those whose text is not looked at (a shell's setenv, the legacy UBI steps).
HearChecked(n) ==
    /\ Hear({"info", "erase", "write", "read", "readif", "saveenv", "default", "ubi",
             "erasequiet", "setenv"}, n)
    /\ Settled(n)
    /\ LET resp == Response(n)
           blind == Op.c \in {"setenv", "erasequiet", "ubi"}
       IN  IF StatusFailed(resp) \/ (~blind /\ OpFailed(resp))
           THEN Fail
           ELSE Advance(1) /\ UNCHANGED <<macs, size, blk, crcAvail, backend>>
    /\ UNCHANGED hearFrame

\* sf probe: its text may carry the capacity, and the size reads are skipped.
HearProbe(n) ==
    /\ Hear({"probe"}, n) /\ Settled(n)
    /\ LET resp == Response(n)
           known == Op.v = "size" /\ "sized" \in Texts(resp)
       IN  IF CommandError(resp) THEN Fail
           ELSE /\ size' = IF known THEN board.size ELSE size
                /\ Advance(IF known THEN 4 ELSE 1)
                /\ UNCHANGED <<macs, blk, crcAvail, backend>>
    /\ UNCHANGED hearFrame

\* A size read: the first candidate accepted is the capacity.
HearSize(n) ==
    /\ Hear({"size"}, n)
    /\ LET resp == Response(n)
           left == Cardinality({i \in DOMAIN ops : ops[i].c = "size"})
           ok == ReadSucceeded(resp) /\ ~StatusFailed(resp)
       IN  /\ size' = IF ok THEN Op.v ELSE size
           /\ Advance(IF ok THEN left ELSE 1)
    /\ UNCHANGED <<macs, blk, crcAvail, backend, hearFrame>>

\* _unlock_nor_or_fail: no lock command is no failure, an error is.
HearUnlock(n) ==
    /\ Hear({"lock"}, n)
    /\ IF "err" \in Texts(Response(n)) THEN Fail
       ELSE Advance(1) /\ UNCHANGED <<macs, size, blk, crcAvail, backend>>
    /\ UNCHANGED hearFrame

\* set_uboot_env_verified: set, read back, at most EnvAttempts times.
RetryEnv(more) ==
    IF tries + 1 < EnvAttempts
    THEN Redo(more) /\ UNCHANGED <<macs, size, blk, crcAvail, backend>>
    ELSE Fail

HearSetVerified(n) ==
    /\ Hear({"setv"}, n) /\ Settled(n)
    /\ IF CommandError(Response(n)) THEN RetryEnv(<<>>)
       ELSE /\ ops' = Tail(ops) /\ waiting' = FALSE /\ again' = FALSE
            /\ UNCHANGED <<pc, tries, macs, size, blk, crcAvail, backend>>
    /\ UNCHANGED hearFrame

HearReadBack(n) ==
    /\ Hear({"checkenv"}, n) /\ Settled(n)
    /\ IF parse_printenv_value(Response(n)) = Op.v
       THEN Advance(1) /\ UNCHANGED <<macs, size, blk, crcAvail, backend>>
       ELSE RetryEnv(<<Cmd("setv", Op.p, Op.v)>>)
    /\ UNCHANGED hearFrame

\* As RetryRam below, but the attempts are not counted.
RetryRamForever(more) ==
    /\ ops' = more \o ops /\ waiting' = FALSE /\ again' = FALSE
    /\ blk' = IF served = "host" THEN "default" ELSE blk
    /\ UNCHANGED <<pc, tries, macs, size, crcAvail, backend>>

\* One more fetch, in the smallest blocks when the host serves them.
RetryRam(more) ==
    IF tries < RamVerifyRetries
    THEN /\ Redo(more)
         /\ blk' = IF served = "host" THEN "default" ELSE blk
         /\ UNCHANGED <<macs, size, crcAvail, backend>>
    ELSE Fail

\* As RamVerified below, but the block size limit stays lowered.
RamVerifiedSmall(k, avail) ==
    /\ Advance(k) /\ crcAvail' = avail
    /\ UNCHANGED <<macs, size, blk, backend>>

\* The file is in RAM: full blocks again for the next one.
RamVerified(k, avail) ==
    /\ Advance(k) /\ crcAvail' = avail /\ blk' = "max"
    /\ UNCHANGED <<macs, size, backend>>

HearFetch(n) ==
    /\ Hear({"fetch"}, n)
    /\ LET resp == Response(n)
       IN  IF ~TransferSeen(resp) \/ StatusFailed(resp) \/ "short" \in Texts(resp)
           THEN RetryRam(<<>>)
           ELSE IF Nand /\ crcAvail = "no" THEN RamVerified(2, "no")
           ELSE /\ ops' = Tail(ops) /\ waiting' = FALSE /\ again' = FALSE
                /\ UNCHANGED <<pc, tries, macs, size, blk, crcAvail, backend>>
    /\ UNCHANGED hearFrame

\* On NAND "Unknown command" with crc32 in it means there is none; a name
\* damaged on the wire may still hold it.
HearRamCrc(n) ==
    /\ Hear({"ramcrc"}, n)
    /\ LET resp == Response(n)
       IN  \/ Nand /\ "unk" \in Texts(resp) /\ RamVerified(1, "no")
          \/ /\ ~(Nand /\ "unk" \in Texts(resp) /\ ~board.crc)
             /\ IF parse_uboot_crc32(resp) = Op.v /\ ~StatusFailed(resp)
                THEN RamVerified(1, "yes")
                ELSE RetryRam(<<Cmd("fetch", Op.p, Op.v)>>)
    /\ UNCHANGED hearFrame

\* A CRC that must be there and be the expected one ("crcseen": be there).
HearCrc(n) ==
    /\ Hear({"flashcrc", "readcrc", "crcseen"}, n) /\ Settled(n)
    /\ LET crc == parse_uboot_crc32(Response(n))
       IN  IF \/ StatusFailed(Response(n))
              \/ Op.c = "readcrc" /\ CommandError(Response(n))
              \/ crc # Op.v /\ ~(Op.c = "crcseen" /\ crc # "none")
           THEN Fail
           ELSE Advance(1) /\ UNCHANGED <<macs, size, blk, crcAvail, backend>>
    /\ UNCHANGED hearFrame

HearCompare(n) ==
    /\ Hear({"cmp"}, n) /\ Settled(n)
    /\ IF CommandError(Response(n)) \/ "same" \notin Texts(Response(n)) THEN Fail
       ELSE Advance(1) /\ UNCHANGED <<macs, size, blk, crcAvail, backend>>
    /\ UNCHANGED hearFrame

\* _optional_printenv, and what is done with the value.
HearPrintenv(n) ==
    /\ Hear({"printenv"}, n)
    /\ LET value == parse_printenv_value(Response(n))
       IN  IF Op.v = "ubi" /\ value \notin {"builtin", "none"}
           THEN Fail
           ELSE /\ Advance(IF Op.v = "ubi" /\ value = "none" THEN 2 ELSE 1)
                /\ cur' = IF Op.v = "cur" THEN value ELSE cur
                /\ keep' = IF Op.v = "keep" THEN value ELSE keep
                /\ UNCHANGED <<pres, size, blk, crcAvail, backend>>
    /\ UNCHANGED hearFrame

\* The saved value, read back after saveenv, must be the one set.
HearSameEnv(n) ==
    /\ Hear({"sameenv"}, n)
    /\ IF parse_printenv_value(Response(n)) # Op.v THEN Fail
       ELSE Advance(1) /\ UNCHANGED <<macs, size, blk, crcAvail, backend>>
    /\ UNCHANGED hearFrame

\* nand erase.part ubi: done, failed, or not known to this U-Boot, in which
\* case the erase to the end of the chip follows.
HearErasePart(n) ==
    /\ Hear({"erasepart"}, n)
    /\ \/ "err" \in Texts(Response(n)) /\ Fail
       \/ /\ Advance(IF "ok" \in Texts(Response(n)) THEN 2 ELSE 1)
          /\ "ok" \in Texts(Response(n)) => "err" \notin Texts(Response(n))
          /\ UNCHANGED <<macs, size, blk, crcAvail, backend>>
    /\ UNCHANGED hearFrame

\* No readback of a UBI image when the device has no crc32.
SkipReadback ==
    /\ AtOp({"readif"}) /\ ~waiting /\ crcAvail # "yes"
    /\ Advance(2)
    /\ UNCHANGED <<consoleVars, q, macs, size, blk, crcAvail, backend>>

\* No prompt in time, a download header that is not acknowledged, or a line
\* whose echo never matched and that was therefore never entered.
NoAnswer ==
    /\ AtOp({ops[i].c : i \in DOMAIN ops} \ (LocalOps \cup {"reset"}))
    /\ \/ waiting /\ aq = <<>> /\ Fault
       \/ ~waiting /\ board.mode = "download" /\ dq # <<>> /\ UNCHANGED faults
       \/ ~waiting /\ board.stock /\ Fault
    /\ CASE Op.c = "size" -> Advance(1) /\ UNCHANGED <<macs, size, blk, crcAvail, backend>>
         [] Op.c = "fetch" -> RetryRam(<<>>)
         [] Op.c = "ramcrc" -> RetryRam(<<Cmd("fetch", Op.p, Op.v)>>)
         [] Op.c = "erasepart" ->
                \/ Advance(1) /\ UNCHANGED <<macs, size, blk, crcAvail, backend>>
                \/ Fail
         [] OTHER -> Fail
    /\ UNCHANGED <<board, dq, aq, ram, flash, env, stored, q>>

\* _reset_command: the prompt is not waited for; on a stock console the echo of
\* the line may not match.
SendReset ==
    /\ AtOp({"reset"}) /\ ~waiting
    /\ \/ /\ SendLine(Op) /\ Advance(1)
          /\ UNCHANGED <<faults, macs, size, blk, crcAvail, backend>>
       \/ /\ board.stock /\ Fault /\ Fail
          /\ UNCHANGED <<dq, aq>>
    /\ UNCHANGED <<deviceVars, q>>

\* _wait_for_openipc_shell_after_reset: any prompt on the line ends the wait.
WaitShell ==
    /\ AtOp({"waitshell"})
    /\ \/ aq # <<>> /\ aq' = <<>> /\ Advance(1)
          /\ UNCHANGED <<faults, macs, size, blk, crcAvail, backend>>
       \/ aq = <<>> /\ Fault /\ Fail /\ UNCHANGED aq
    /\ UNCHANGED <<deviceVars, dq, q>>

---------------------------------------------------------------------------
(* The host's own steps. *)

\* select_nor_size_mb, then the images against the layout.
FitImages ==
    /\ AtOp({"fit"})
    /\ IF (size = "none" /\ board.stock) \/ ~q.fits THEN Fail /\ UNCHANGED <<consoleVars, q>>
       ELSE /\ size' = IF size = "none" THEN "8" ELSE size
            /\ Advance(1)
            /\ UNCHANGED <<consoleVars, q, macs, blk, crcAvail, backend>>

CheckAligned ==
    /\ AtOp({"aligned"})
    /\ IF board.aligned THEN Advance(1) /\ UNCHANGED <<macs, size, blk, crcAvail, backend>>
       ELSE Fail
    /\ UNCHANGED <<consoleVars, q>>

\* tftp_put of each file in turn; one that fails ends the install.
StageInPod ==
    /\ AtOp({"stage"})
    /\ \/ /\ pod # TftpFiles
          /\ \E f \in TftpFiles \ pod : pod' = pod \cup {f}
          /\ UNCHANGED <<faults, pc, ops, waiting, again, tries, macs, size, blk, crcAvail,
                         served>>
       \/ /\ pod = TftpFiles /\ Advance(1)
          /\ UNCHANGED <<faults, macs, size, blk, crcAvail, backend>>
       \/ Fault /\ Fail
    /\ UNCHANGED <<board, dq, aq, ram, flash, env, stored, q>>

\* The clean-up of the pod's store is registered once every file is staged.
PodReady ==
    /\ AtOp({"podready"})
    /\ served' = "pod" /\ Advance(1)
    /\ UNCHANGED <<consoleVars, q, macs, size, blk, crcAvail, pod>>

\* temporary_ip, then the TFTP server; replace_in_tftp for a UBI volume.
HostServer ==
    /\ AtOp({"ip", "serve", "replace"})
    /\ \/ /\ served' = (IF Op.c = "serve" THEN "host" ELSE served)
          /\ Advance(1) /\ UNCHANGED <<faults, macs, size, blk, crcAvail, pod>>
       \/ Fault /\ Fail
    /\ UNCHANGED <<board, dq, aq, ram, flash, env, stored, q>>

\* The MAC to keep is settled before a stock environment is erased.
KeepStockMac ==
    /\ AtOp({"macpre"})
    /\ LET mac == select_install_ethaddr(cur, pres, FALSE)
       IN  IF mac = "none" THEN Fail
           ELSE pres' = mac /\ Advance(1) /\ UNCHANGED <<keep, cur, size, blk, crcAvail, backend>>
    /\ UNCHANGED <<consoleVars, q>>

\* The MAC that is saved.
PickMac ==
    /\ AtOp({"macpick"})
    /\ LET kept == IF pres # "none" THEN pres ELSE keep
           mac == select_install_ethaddr(cur, kept, ~board.stock)
       IN  IF mac = "none" THEN Fail
           ELSE /\ ops' = If(cur # mac, SetMac(mac)) \o SaveEnv(mac) \o Tail(ops)
                /\ UNCHANGED <<pc, waiting, again, tries, macs, size, blk, crcAvail, backend>>
    /\ UNCHANGED <<consoleVars, q>>

Finish ==
    /\ Console /\ ops = <<>>
    /\ Exit("done")
    /\ UNCHANGED <<consoleVars, q>>

---------------------------------------------------------------------------

Heard ==
    \E n \in 1..Len(aq) :
        \/ Resend(n) \/ HearChecked(n) \/ HearProbe(n) \/ HearSize(n) \/ HearUnlock(n)
        \/ HearSetVerified(n) \/ HearReadBack(n) \/ HearFetch(n) \/ HearRamCrc(n)
        \/ HearCrc(n) \/ HearCompare(n) \/ HearPrintenv(n) \/ HearSameEnv(n)
        \/ HearErasePart(n)

Host ==
    \/ Preflight \/ SetUpPower \/ BurnUboot \/ DetectConsole \/ ReadStockMac
    \/ Chainload \/ DetectMode
    \/ Send \/ SendReset \/ Heard \/ SkipReadback \/ NoAnswer \/ WaitShell
    \/ FitImages \/ CheckAligned \/ StageInPod \/ PodReady \/ HostServer
    \/ KeepStockMac \/ PickMac \/ Finish

DeviceStep == Device /\ UNCHANGED <<q, hostVars>>
=============================================================================
