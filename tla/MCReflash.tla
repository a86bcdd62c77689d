----------------------------- MODULE MCReflash -----------------------------
(***************************************************************************)
(* The boards and requests of the Reflash runs: one per path of            *)
(* run_install and _restore_async, with the choices of that path.          *)
(***************************************************************************)
EXTENDS Reflash

\* A NOR board with a U-Boot shell, and the default install of a NOR package.
NorBoard ==
    [media |-> "nor", mode |-> "shell", stock |-> FALSE, warm |-> FALSE,
     crc |-> TRUE, sized |-> TRUE, sizes |-> {"8", "16"}, size |-> "16",
     lock |-> TRUE, scans |-> FALSE, aligned |-> TRUE, spills |-> FALSE,
     mac |-> "factory", readable |-> TRUE, mtd |-> "old"]

Install ==
    [command |-> "install", selected |-> {}, skipped |-> {}, finalReset |-> TRUE,
     wipeEnv |-> FALSE, wipeData |-> FALSE, fits |-> TRUE, package |-> "slots",
     packageBoard |-> "this", md5 |-> TRUE, uboot |-> TRUE, via |-> "host",
     ubifs |-> FALSE, auto |-> FALSE, mtdparts |-> FALSE, parts |-> <<>>]

Restoring1 ==
    [Install EXCEPT !.command = "restore", !.parts = <<"boot", "env", "kernel">>]

NorInstalls ==
    {[board |-> [NorBoard EXCEPT !.crc = c, !.mode = m],
      req |-> [Install EXCEPT !.wipeEnv = w]] :
        c \in BOOLEAN, m \in {"shell", "download"}, w \in BOOLEAN}

PartialInstalls ==
    {[board |-> [NorBoard EXCEPT !.sized = FALSE, !.sizes = z, !.lock = FALSE, !.mac = a],
      req |-> [Install EXCEPT !.selected = s, !.wipeData = ("rootfs-data" \in s)]] :
        z \in {{"8"}, {"8", "16"}}, a \in {"factory", "none"},
        s \in {{"env"}, {"kernel", "rootfs-data"}, {"reset"}}}

StockInstalls ==
    {[board |-> [NorBoard EXCEPT !.stock = TRUE, !.warm = w, !.mac = a, !.readable = r],
      req |-> [Install EXCEPT !.wipeEnv = TRUE, !.skipped = s]] :
        w \in BOOLEAN, a \in {"factory", "none"}, r \in BOOLEAN,
        s \in {{"kernel", "rootfs"}, {"uboot", "rootfs"}}}

SplitInstalls ==
    {[board |-> [NorBoard EXCEPT !.media = "split", !.scans = TRUE],
      req |-> [Install EXCEPT !.package = p, !.via = "pod"]] : p \in {"split", "slots"}}

NandInstalls ==
    {[board |-> [NorBoard EXCEPT !.media = "nand", !.crc = c],
      req |-> [Install EXCEPT !.ubifs = u, !.skipped = {"uboot"}]] :
        c \in BOOLEAN, u \in BOOLEAN}

UbiInstalls ==
    {[board |-> [NorBoard EXCEPT !.media = "ubi", !.crc = c, !.mtd = m],
      req |-> [Install EXCEPT !.package = "ubi"]] :
        c \in BOOLEAN, m \in {"builtin", "old", "none"}}

\* Requests refused before or after the console: the port, the pod or the
\* layout does not allow them.
RefusedInstalls ==
    {[board |-> [NorBoard EXCEPT !.stock = TRUE, !.mode = "download"],
      req |-> [Install EXCEPT !.wipeEnv = TRUE]],
     [board |-> [NorBoard EXCEPT !.stock = TRUE, !.aligned = FALSE],
      req |-> [Install EXCEPT !.wipeEnv = TRUE, !.skipped = {"kernel", "rootfs"}]],
     [board |-> NorBoard, req |-> [Install EXCEPT !.fits = FALSE]],
     [board |-> [NorBoard EXCEPT !.stock = TRUE],
      req |-> [Install EXCEPT !.selected = {"env"}, !.wipeEnv = TRUE]]}

Restores ==
    {[board |-> [NorBoard EXCEPT !.spills = s, !.mode = m],
      req |-> [Restoring1 EXCEPT !.auto = TRUE]] :
        s \in BOOLEAN, m \in {"shell", "download"}}
    \cup
    {[board |-> [NorBoard EXCEPT !.media = "nand", !.mtd = m],
      req |-> [Restoring1 EXCEPT !.parts = <<"boot", "rootfs">>, !.ubifs = u, !.via = "pod"]] :
        m \in {"old", "none"}, u \in BOOLEAN}
    \cup {[board |-> NorBoard, req |-> [Restoring1 EXCEPT !.uboot = FALSE]]}

AllRequests ==
    NorInstalls \cup PartialInstalls \cup StockInstalls \cup SplitInstalls
    \cup NandInstalls \cup UbiInstalls \cup RefusedInstalls \cup Restores
=============================================================================
