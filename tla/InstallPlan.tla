---------------------------- MODULE InstallPlan ----------------------------
(***************************************************************************)
(* What an install does, in order: the checks made before the device is    *)
(* touched and the console operations of each stage, for a request q and a *)
(* board (src/src/defib/install/{orchestrator,model,layout,firmware}.py,   *)
(* src/src/defib/uboot_env.py).  An operation is a record of UBootConsole; *)
(* the host's own steps between commands are operations too.               *)
(***************************************************************************)
EXTENDS UBootConsole

VARIABLE q       \* the request; chosen at the start, never changed

AllStages == {"uboot", "kernel", "rootfs", "rootfs-data", "env", "reset"}

\* resolve_install_stages
Stages ==
    IF q.selected # {} THEN q.selected
    ELSE (AllStages \ q.skipped) \ (IF q.finalReset THEN {} ELSE {"reset"})

NeedsTftp ==
    Stages \cap (IF board.media \in {"ubi", "split"} THEN {"uboot", "rootfs"}
                 ELSE {"uboot", "kernel", "rootfs"}) # {}

\* The plans resolve_install_stages refuses.
BadStages ==
    \/ q.selected # {} /\ q.skipped # {}
    \/ "reset" \in q.selected /\ ~q.finalReset
    \/ Stages = {}

\* Everything run_install refuses before it opens a port.
Refused ==
    \/ BadStages
    \/ q.wipeData /\ q.selected # {} /\ "rootfs-data" \notin q.selected
    \/ q.wipeData /\ "rootfs-data" \in q.skipped
    \/ q.wipeData /\ Nand
    \/ board.stock /\ ~Nand /\ "env" \in Stages /\ ~q.wipeEnv
    \/ board.media = "split" /\ (board.stock \/ (q.wipeData /\ "rootfs" \notin Stages))
    \/ board.media = "nand" /\ ~q.fits

\* load_firmware_bundle: the package's kind must be the layout's, its board one
\* of the chip's, and every checksum it carries must match.
BundleAccepted ==
    /\ q.package = (IF board.media = "split" THEN "split"
                    ELSE IF board.media = "ubi" THEN "ubi" ELSE "slots")
    /\ q.package # "slots" => q.packageBoard = "this"
    /\ q.md5

\* A chainloaded device still boots stock U-Boot: nothing else may be written
\* without U-Boot.
PartialRefused ==
    /\ (Stages \cap {"kernel", "rootfs", "rootfs-data", "env"} # {} \/ q.wipeData)
    /\ "uboot" \notin Stages

---------------------------------------------------------------------------
(* uboot_env.py *)

is_unset_or_default_ethaddr(mac) == mac \in {"none", "default"}

\* As select_install_ethaddr below, but a generated address is always allowed.
SelectGenerates(current, preserved, allowGenerate) ==
    IF ~is_unset_or_default_ethaddr(preserved) THEN preserved ELSE "rescue"

select_install_ethaddr(current, preserved, allowGenerate) ==
    IF ~is_unset_or_default_ethaddr(preserved) THEN preserved
    ELSE IF ~is_unset_or_default_ethaddr(current) THEN current
    ELSE IF allowGenerate THEN "rescue" ELSE "none"

---------------------------------------------------------------------------
(* The operations. *)

If(cond, seq) == IF cond THEN seq ELSE <<>>

set_uboot_env_verified(k, v) == <<Cmd("setv", k, v), Cmd("checkenv", k, v)>>

\* setenv, read back on a stock board only.
SetEnv(k, v) ==
    IF board.stock THEN set_uboot_env_verified(k, v) ELSE <<Cmd("setenv", k, v)>>

\* As SizeCandidates below, but smallest first.
SizeCandidatesUp == <<"8", "16", "32">>

\* NOR_SIZE_CANDIDATES_MB: reads that only a big enough chip accepts, largest
\* first; the first one accepted is the size.
SizeCandidates == <<"32", "16", "8">>

SizeReads == [i \in 1..3 |-> Cmd("size", "", SizeCandidates[i])]

PersistentStages == {"uboot", "kernel", "rootfs", "rootfs-data", "env"}

ProbeFlash ==
    IF Nand THEN <<Cmd("info", "", "")>>
    ELSE <<Cmd("probe", "", "size")>> \o SizeReads \o <<Cmd("fit", "", "")>>
         \o If(Stages \cap PersistentStages # {} \/ q.wipeData, <<Cmd("lock", "", "")>>)

FileOf(p) ==
    CASE p \in {"boot", "bootenv"} -> "u"
      [] p = "kernel" -> "k"
      [] OTHER -> IF q.ubifs THEN "fs" ELSE "r"

\* The partition U-Boot's image is written to, with env when both are wiped.
BootPart ==
    IF q.wipeEnv /\ "env" \in Stages /\ ~board.stock THEN "bootenv" ELSE "boot"

TftpFiles ==
    {f \in {"u", "k", "r"} :
        \/ f = "u" /\ "uboot" \in Stages
        \/ f = "k" /\ "kernel" \in Stages /\ board.media \in {"nor", "nand"}
        \/ f = "r" /\ "rootfs" \in Stages}

Backend ==
    (IF q.via = "pod" THEN <<Cmd("stage", "", ""), Cmd("podready", "", "")>>
     ELSE <<Cmd("ip", "", ""), Cmd("serve", "", "")>>)
    \o SetEnv("net", "install")

\* As tftp_and_flash below, but the partition is erased before the file is fetched.
FlashEraseFirst(p) ==
    <<Cmd("erase", p, board.media), Cmd("fetch", p, FileOf(p)),
      Cmd("ramcrc", p, FileOf(p)), Cmd("write", p, board.media)>>
    \o If(~Nand, <<Cmd("read", p, ""), Cmd("flashcrc", p, FileOf(p))>>)

\* As tftp_and_flash below, but what was written is not read back.
FlashNoReadback(p) ==
    <<Cmd("fetch", p, FileOf(p)), Cmd("ramcrc", p, FileOf(p)),
      Cmd("erase", p, board.media), Cmd("write", p, board.media)>>

\* _verify_tftp_ram, then erase, write, and a readback on NOR.
tftp_and_flash(p) ==
    <<Cmd("fetch", p, FileOf(p)), Cmd("ramcrc", p, FileOf(p)),
      Cmd("erase", p, board.media), Cmd("write", p, board.media)>>
    \o If(~Nand, <<Cmd("read", p, ""), Cmd("flashcrc", p, FileOf(p))>>)

\* flash_ubi_image: erase.part where mtdparts says ubi is in its place, else
\* erase to the end of the chip; readback when the device has crc32.
flash_ubi_image ==
    <<Cmd("fetch", "rootfs", "r"), Cmd("ramcrc", "rootfs", "r"),
      Cmd("printenv", "mtd", "ubi"), Cmd("erasepart", "rootfs", board.media),
      Cmd("erase", "rootfs", board.media), Cmd("write", "rootfs", board.media),
      Cmd("readif", "rootfs", ""), Cmd("flashcrc", "rootfs", "r")>>

\* The legacy layout's UBI image: only the volume's contents go through UBI.
LegacyUbi ==
    <<Cmd("replace", "", ""),
      Cmd("fetch", "rootfs", "fs"), Cmd("ramcrc", "rootfs", "fs"),
      Cmd("erasequiet", "rootfs", board.media), Cmd("setenv", "mtd", "std"),
      Cmd("ubi", "", ""), Cmd("write", "rootfs", board.media)>>

Rootfs ==
    CASE board.media = "ubi" -> flash_ubi_image
      [] board.media = "nand" /\ q.ubifs -> LegacyUbi
      [] OTHER -> tftp_and_flash("rootfs")

EraseRootfsData ==
    If(board.media = "nor" /\ (q.wipeData \/ (board.stock /\ "rootfs-data" \in Stages)),
       <<Cmd("aligned", "", ""), Cmd("erase", "data", board.media),
         Cmd("readcrc", "data", "erased")>>)

\* A stock environment would shadow the new U-Boot's defaults: keep the MAC,
\* erase it, check that it is erased, and restart U-Boot.
ClearStockEnv ==
    If("env" \in Stages /\ board.stock /\ ~Nand,
       <<Cmd("printenv", "mac", "cur"), Cmd("macpre", "", ""), Cmd("aligned", "", ""),
         Cmd("erase", "env", board.media), Cmd("readcrc", "env", "erased"),
         Cmd("reset", "", ""), Cmd("waitshell", "", ""),
         Cmd("probe", "", ""), Cmd("lock", "", "")>>)

\* U-Boot's own defaults describe the UBI layout and the scanned NOR layout:
\* they are loaded and only the MAC (and the measured memory) carried across.
LoadDefaults ==
    If("uboot" \in Stages,
       <<Cmd("printenv", "mac", "keep")>>
       \o If(~Nand, <<Cmd("printenv", "mem", "drop")>>)
       \o <<Cmd("default", "", "")>>
       \o If(~Nand, <<Cmd("setenv", "mem", "measured")>>))

BootEnvironment ==
    IF board.media = "ubi" \/ (board.scans /\ ~board.stock) THEN LoadDefaults
    ELSE SetEnv("mtd", "std")

SetMac(mac) == SetEnv("mac", mac)

\* saveenv; on a stock board the flash is then checked (verify_spi_environment_crc)
\* and the two values that must survive are read back.
SaveEnv(mac) ==
    <<Cmd("saveenv", "", "")>>
    \o If(board.stock, <<Cmd("probe", "", ""), Cmd("read", "env", ""),
                         Cmd("crcseen", "", ""), Cmd("cmp", "", ""),
                         Cmd("sameenv", "mac", mac), Cmd("sameenv", "mtd", "std")>>)

EnvStage ==
    If("env" \in Stages,
       BootEnvironment \o <<Cmd("printenv", "mac", "cur"), Cmd("macpick", "", "")>>)

\* Everything from the detected console on; pres is the MAC read from stock U-Boot.
Program(pres) ==
    If(pres # "none", set_uboot_env_verified("mac", pres))
    \o If(NeedsTftp /\ board.stock, set_uboot_env_verified("net", "transient"))
    \o ProbeFlash
    \o If(NeedsTftp, Backend)
    \o If("uboot" \in Stages, tftp_and_flash(BootPart))
    \o If("kernel" \in Stages /\ board.media \in {"nor", "nand"}, tftp_and_flash("kernel"))
    \o If("rootfs" \in Stages, Rootfs)
    \o EraseRootfsData
    \o ClearStockEnv
    \o EnvStage
    \o If("reset" \in Stages, <<Cmd("reset", "", "")>>)
=============================================================================
