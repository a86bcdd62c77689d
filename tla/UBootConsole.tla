---------------------------- MODULE UBootConsole ----------------------------
(***************************************************************************)
(* The U-Boot console that the installer and the restore command drive     *)
(* over the UART: src/src/defib/flashdump.py (send_command),               *)
(* src/src/defib/protocol/download_cmd.py, and, as an external part, what  *)
(* U-Boot does with each command.                                          *)
(*                                                                         *)
(* U-Boot runs the command lines it has received one at a time, in order,  *)
(* and answers each.  The host stops waiting at a timeout, but the line it *)
(* sent is still there: U-Boot runs it later and its answer can then be    *)
(* read as the answer to the next line.  Contents are abstract: a file is  *)
(* its name, "junk" is anything else, and a CRC identifies the contents.   *)
(***************************************************************************)
EXTENDS Integers, Sequences, FiniteSets

CONSTANTS MaxFaults,   \* corrupted, failed, garbled or late answers in one run
          MaxQueue     \* lines the device has not run yet (the UART's buffer)

VARIABLES board,   \* what the device is; chosen at the start, never changed
          dq,      \* command lines sent and not yet run
          aq,      \* answers printed and not yet read
          ram,     \* what the staging address holds
          flash,   \* what each partition holds
          env,     \* U-Boot's environment in RAM
          stored,  \* the environment the env partition holds while it is valid
          faults

deviceVars == <<board, ram, flash, env, stored>>
consoleVars == <<board, dq, aq, ram, flash, env, stored, faults>>

Parts == {"boot", "env", "kernel", "rootfs", "data"}

\* ethaddr of the environment compiled into U-Boot counts as unset.
Defaults == [mac |-> "default", mtd |-> "builtin", net |-> "unset", mem |-> "unset"]

Nand == board.media \in {"nand", "ubi"}

\* Partitions an erase of p reaches: the split image runs to the chip's end,
\* a UBI image holds the kernel and the data, and an erase of boot takes env
\* with it when a dump's boot does not end on an erase block.
Span(p) ==
    CASE p = "rootfs" /\ board.media \in {"split", "ubi"} -> {"kernel", "rootfs", "data"}
      [] p = "rootfs" /\ board.media = "nand"  -> {"rootfs", "data"}
      [] p = "bootenv" -> {"boot", "env"}
      [] p = "boot" /\ board.spills -> {"boot", "env"}
      [] OTHER -> {p}

Base(p) == IF p = "bootenv" THEN "boot" ELSE p

Fault == faults < MaxFaults /\ faults' = faults + 1

Cmd(c, p, v) == [c |-> c, p |-> p, v |-> v]
Ans(t, v) == [t |-> t, v |-> v]

---------------------------------------------------------------------------
(* What the host reads out of a response, a nonempty run of answers. *)

Texts(resp) == {resp[i].t : i \in DOMAIN resp}

\* uboot_flash_command_error
CommandError(resp) == Texts(resp) \cap {"err", "unk"} # {}

\* The first answer of kind t, the way re.search finds the first match.
First(resp, t) ==
    LET at == {i \in DOMAIN resp : resp[i].t = t}
    IN  IF at = {} THEN "none"
        ELSE resp[CHOOSE i \in at : \A j \in at : i <= j].v

parse_uboot_crc32(resp) == First(resp, "crc")
parse_printenv_value(resp) == First(resp, "env")

\* run_uboot_tftp: the text of a finished transfer is there.
TransferSeen(resp) == Texts(resp) \cap {"done", "short"} # {}

\* sf_read_succeeded
ReadSucceeded(resp) == "ok" \in Texts(resp) /\ "refused" \notin Texts(resp)

---------------------------------------------------------------------------
(* The host's side of one exchange. *)

\* send_command clears what is waiting and writes the line; in download mode
\* the header is acknowledged only by a device that has finished the last one.
SendLine(cmd) ==
    /\ Len(dq) < MaxQueue
    /\ board.mode = "download" => dq = <<>>
    /\ aq' = <<>>
    /\ dq' = Append(dq, cmd)

\* The prompt (or [EOT]) has come: everything read up to one is the response.
Response(n) == SubSeq(aq, 1, n)
Consume(n) == aq' = SubSeq(aq, n + 1, Len(aq))

---------------------------------------------------------------------------
(* The device (external): it runs the first line it holds. *)

Running(cs) == dq # <<>> /\ Head(dq).c \in cs
Answer(a) == dq' = Tail(dq) /\ aq' = Append(aq, a)

ExecFetch ==
    /\ Running({"fetch"})
    /\ \/ /\ ram' = Head(dq).v /\ Answer(Ans("done", "")) /\ UNCHANGED faults
       \/ /\ Fault /\ ram' = "junk"
          /\ \E t \in {"done", "short"} : Answer(Ans(t, ""))
       \/ /\ Fault /\ Answer(Ans("tfail", "")) /\ UNCHANGED ram
    /\ UNCHANGED <<board, flash, env, stored>>

ExecCrc ==
    /\ Running({"crc"})
    /\ Answer(IF board.crc THEN Ans("crc", ram) ELSE Ans("unk", ""))
    /\ UNCHANGED <<deviceVars, faults>>

\* Erase and write: done, refused with an error, or damaged without one.
ExecFlash ==
    /\ Running({"erase", "write"})
    /\ LET cmd == Head(dq)
           hit == IF cmd.c = "erase" THEN Span(cmd.p) ELSE {Base(cmd.p)}
           new == IF cmd.c = "erase" THEN "erased" ELSE ram
           put(x) == flash' = [p \in Parts |-> IF p \in hit THEN x ELSE flash[p]]
       IN  IF cmd.v = board.media
           THEN \/ put(new) /\ Answer(Ans("ok", "")) /\ UNCHANGED faults
                \/ Fault /\ put("torn") /\ \E t \in {"ok", "err"} : Answer(Ans(t, ""))
           ELSE Answer(Ans("err", "")) /\ UNCHANGED <<flash, faults>>
    /\ UNCHANGED <<board, ram, env, stored>>

\* A read into RAM; "readcrc" is the line "sf read ...; crc32 ...".
ExecRead ==
    /\ Running({"read", "readcrc"})
    /\ \/ /\ ram' = flash[Base(Head(dq).p)]
          /\ Answer(IF Head(dq).c = "read" THEN Ans("ok", "") ELSE Ans("crc", ram'))
          /\ UNCHANGED faults
       \/ Fault /\ Answer(Ans("err", "")) /\ UNCHANGED ram
    /\ UNCHANGED <<board, flash, env, stored>>

ExecEnv ==
    /\ Running({"setenv", "printenv", "default"})
    /\ LET cmd == Head(dq)
       IN  /\ env' = CASE cmd.c = "setenv"  -> [env EXCEPT ![cmd.p] = cmd.v]
                       [] cmd.c = "default" -> Defaults
                       [] OTHER -> env
           /\ Answer(IF cmd.c = "printenv" THEN Ans("env", env[cmd.p])
                     ELSE Ans("ok", ""))
    /\ UNCHANGED <<board, ram, flash, stored, faults>>

ExecSaveEnv ==
    /\ Running({"saveenv"})
    /\ \/ /\ flash' = [flash EXCEPT !["env"] = "saved"] /\ stored' = env
          /\ Answer(Ans("ok", "")) /\ UNCHANGED faults
       \/ /\ Fault /\ flash' = [flash EXCEPT !["env"] = "torn"] /\ UNCHANGED stored
          /\ \E t \in {"ok", "err"} : Answer(Ans(t, ""))
    /\ UNCHANGED <<board, ram, env>>

\* cmp.l of the header CRC with the one just computed over what was read.
ExecCompare ==
    /\ Running({"cmp"})
    /\ Answer(Ans(IF ram \in {"saved", "old"} THEN "same" ELSE "differ", ""))
    /\ UNCHANGED <<deviceVars, faults>>

\* A 16-byte read below the candidate size: refused past the end of the chip.
ExecSizeRead ==
    /\ Running({"size"})
    /\ Answer(Ans(IF Head(dq).v \in board.sizes THEN "ok" ELSE "refused", ""))
    /\ UNCHANGED <<deviceVars, faults>>

ExecProbe ==
    /\ Running({"probe", "info", "mmc", "lock", "ubi", "ping"})
    /\ \/ /\ LET c == Head(dq).c
                 t == CASE c = "info"  -> IF Nand THEN "ok" ELSE "err"
                        [] c = "probe" -> IF Nand THEN "err"
                                          ELSE IF board.sized THEN "sized" ELSE "ok"
                        [] c = "mmc"   -> "err"
                        [] c = "lock"  -> IF board.lock THEN "ok" ELSE "nolock"
                        [] OTHER -> "ok"
             IN Answer(Ans(t, ""))
          /\ UNCHANGED faults
       \/ Fault /\ Answer(Ans("err", ""))
    /\ UNCHANGED deviceVars

\* U-Boot restarts: an environment with a bad CRC is replaced by the defaults.
ExecReset ==
    /\ Running({"reset"})
    /\ ram' = "junk"
    /\ env' = IF flash["env"] \in {"old", "saved"} THEN stored ELSE Defaults
    /\ Answer(Ans("prompt", ""))
    /\ UNCHANGED <<board, flash, stored, faults>>

\* A line damaged on the wire is no command, where echoes are not checked.
ExecGarbled ==
    /\ dq # <<>> /\ board.mode = "shell" /\ ~board.stock
    /\ Fault
    /\ Answer(Ans("unk", ""))
    /\ UNCHANGED deviceVars

Device ==
    \/ ExecFetch \/ ExecCrc \/ ExecFlash \/ ExecRead \/ ExecEnv \/ ExecSaveEnv
    \/ ExecCompare \/ ExecSizeRead \/ ExecProbe \/ ExecReset \/ ExecGarbled
=============================================================================
