---------------------------- MODULE NetRecovery ----------------------------
(***************************************************************************)
(* Recovery over Ethernet: "network" and the Novatek burn --nic of         *)
(* defib/cli/app.py, defib/recovery/novatek_eth.py, the DHCP server and    *)
(* the temporary address of defib/network.                                 *)
(*                                                                         *)
(* Two processes of one host may want the same address.  The Novatek boot  *)
(* ROM asks by DHCP, where another server may be quicker, fetches the      *)
(* Ethernet loader by TFTP, which asks again and fetches the pack.         *)
(***************************************************************************)
EXTENDS Naturals

CONSTANTS
    Novatek,       \* the process that recovers a Novatek board
    Other,         \* a process that serves a file with "network", or none
    NetRequests,   \* the commands, with the board and the host they meet
    MaxEthFaults   \* bound on failing commands and sockets, and cancellations

Hosts == {Novatek, Other}

ASSUME NetAssumption ==
    /\ Novatek # Other /\ MaxEthFaults \in Nat
    /\ NetRequests \subseteq
         [had: BOOLEAN, second: BOOLEAN, rival: BOOLEAN, valid: BOOLEAN, console: BOOLEAN]

VARIABLES
    eq,        \* the commands and their surroundings; never changes
    epc,       \* where each process is
    added,     \* processes whose add_ip returned True
    addr,      \* the address: "none", "plumbing" (assigned, not usable), "up"
    dhcp,      \* processes that listen for DHCP
    tftp,      \* the process that has the TFTP port
    board,     \* the Novatek board
    shown,     \* the server of the latest offer its console showed
    failing,   \* processes on their way out with an error
    stuck,     \* "yes": the address could not be removed, or add_ip was cut off
    efaults

servers == <<dhcp, tftp>>
netVars == <<eq, epc, added, addr, servers, board, shown, failing, stuck, efaults>>

EthFault == efaults > 0 /\ efaults' = efaults - 1
To(h, p) == epc' = [epc EXCEPT ![h] = p]
Out(h, p) == To(h, p) /\ failing' = failing \cup {h}

\* _burn_novatek_eth takes an address only when the NIC has none.
Start(h) ==
    IF h = Other /\ ~eq.second THEN "done"
    ELSE IF h = Novatek /\ eq.had THEN "dhcp" ELSE "check"

NetInit ==
    /\ eq \in NetRequests
    /\ epc = [h \in Hosts |-> Start(h)] /\ added = {} /\ failing = {}
    /\ addr = (IF eq.had THEN "up" ELSE "none")
    /\ dhcp = {} /\ tftp = {} /\ board = "off" /\ shown = "none"
    /\ stuck = "no" /\ efaults = MaxEthFaults

(***************************************************************************)
(* temporary_ip.                                                           *)
(***************************************************************************)
_bindable == addr = "up"

\* The process has an address it can use: what follows.
Ready(h) == To(h, IF h = Novatek THEN "dhcp" ELSE "tftp")

\* As AddCheck below, but a usable address is taken for the process's own.
AddCheckOwns(h) ==
    /\ epc[h] = "check"
    /\ IF _bindable THEN Ready(h) /\ added' = added \cup {h}
       ELSE To(h, "add") /\ UNCHANGED added
    /\ UNCHANGED <<eq, addr, servers, board, shown, failing, stuck, efaults>>

\* add_ip: an address that can be bound is left alone.
AddCheck(h) ==
    /\ epc[h] = "check"
    /\ IF _bindable THEN Ready(h) ELSE To(h, "add")
    /\ UNCHANGED <<eq, added, addr, servers, board, shown, failing, stuck, efaults>>

\* The command that assigns it.  It fails when the address is there already,
\* which is well if it can be bound, and for causes of its own.
AddCommand(h) ==
    /\ epc[h] = "add"
    /\ \/ addr = "none" /\ addr' = "plumbing" /\ To(h, "plumb") /\ UNCHANGED <<failing, efaults>>
       \/ _bindable /\ Ready(h) /\ UNCHANGED <<addr, failing, efaults>>
       \/ addr = "plumbing" /\ Out(h, "end") /\ UNCHANGED <<addr, efaults>>
       \/ addr = "none" /\ EthFault /\ Out(h, "end") /\ UNCHANGED addr
    /\ UNCHANGED <<eq, added, servers, board, shown, stuck>>

\* The host makes an assigned address usable, at once or later.
Plumb ==
    /\ addr = "plumbing" /\ addr' = "up"
    /\ UNCHANGED <<eq, epc, added, servers, board, shown, failing, stuck, efaults>>

\* _wait_until_bindable; on a timeout or a cancellation the address goes.
AwaitPlumbed(h) ==
    /\ epc[h] = "plumb"
    /\ \/ _bindable /\ Ready(h) /\ added' = added \cup {h} /\ UNCHANGED <<failing, efaults>>
       \/ EthFault /\ Out(h, "undo") /\ UNCHANGED added
    /\ UNCHANGED <<eq, addr, servers, board, shown, stuck>>

\* The command that removes it; that it failed is only logged.
remove_ip ==
    \/ addr' = "none" /\ UNCHANGED <<stuck, efaults>>
    \/ EthFault /\ stuck' = "yes" /\ UNCHANGED addr

\* _undo_add, and the "finally" of temporary_ip.
RemoveAddress(h) ==
    /\ \/ epc[h] = "undo" /\ remove_ip
       \/ epc[h] = "remove" /\ h \in added /\ remove_ip
       \/ epc[h] = "remove" /\ h \notin added /\ UNCHANGED <<addr, stuck, efaults>>
    /\ To(h, "end")
    /\ UNCHANGED <<eq, added, servers, board, shown, failing>>

\* The process ends with its result.
Finish(h) ==
    /\ epc[h] = "end"
    /\ To(h, IF h \in failing THEN "failed" ELSE "done")
    /\ UNCHANGED <<eq, added, addr, servers, board, shown, failing, stuck, efaults>>

(***************************************************************************)
(* The servers.                                                            *)
(***************************************************************************)
\* DHCP sockets share the port.
start_dhcp_server(h) ==
    /\ epc[h] = "dhcp"
    /\ \/ dhcp' = dhcp \cup {h} /\ To(h, "tftp") /\ UNCHANGED <<failing, efaults>>
       \/ EthFault /\ Out(h, "remove") /\ UNCHANGED dhcp
    /\ UNCHANGED <<eq, added, addr, tftp, board, shown, stuck>>

\* The TFTP port of an address belongs to one process; the address may have
\* been removed meanwhile.
start_tftp_server(h) ==
    /\ epc[h] = "tftp"
    /\ \/ _bindable /\ tftp = {} /\ tftp' = {h} /\ To(h, IF h = Novatek THEN "power" ELSE "serve")
          /\ UNCHANGED <<failing, efaults>>
       \/ ~(_bindable /\ tftp = {}) /\ Out(h, "close") /\ UNCHANGED <<tftp, efaults>>
       \/ EthFault /\ Out(h, "close") /\ UNCHANGED tftp
    /\ UNCHANGED <<eq, added, addr, dhcp, board, shown, stuck>>

Close(h) ==
    /\ epc[h] = "close"
    /\ dhcp' = dhcp \ {h} /\ tftp' = tftp \ {h}
    /\ To(h, "remove")
    /\ UNCHANGED <<eq, added, addr, board, shown, failing, stuck, efaults>>

\* Ctrl-C.  While the command that assigns the address runs it leaves
\* whatever the command does; from there on everything is taken down.
Cancel(h) ==
    /\ EthFault
    /\ \/ /\ epc[h] = "add" /\ Out(h, "end") /\ stuck' = "yes"
          /\ addr' \in IF addr = "none" THEN {"none", "plumbing"} ELSE {addr}
       \/ epc[h] \in {"power", "fetch", "serve", "prompt"} /\ Out(h, "close")
          /\ UNCHANGED <<addr, stuck>>
    /\ UNCHANGED <<eq, added, servers, board, shown>>

\* "network": some device fetches the file, or none does in time.
Serve ==
    /\ epc[Other] = "serve"
    /\ \/ _bindable /\ To(Other, "close") /\ UNCHANGED failing
       \/ Out(Other, "close")
    /\ UNCHANGED <<eq, added, addr, servers, board, shown, stuck, efaults>>

(***************************************************************************)
(* The Novatek board (external).  One with a valid loader starts from      *)
(* flash.  The ROM keeps to the offer it took and waits for ever.          *)
(***************************************************************************)
Answers == (IF Novatek \in dhcp THEN {"us"} ELSE {}) \cup (IF eq.rival THEN {"rival"} ELSE {})
Serving == Novatek \in tftp /\ _bindable

Board(b, s) ==
    /\ board' = b /\ shown' = s
    /\ UNCHANGED <<eq, epc, added, addr, servers, failing, stuck, efaults>>

BoardStep ==
    \/ /\ board = "on" /\ eq.valid /\ Board("flash", shown)
    \/ /\ board = "on" /\ ~eq.valid
       /\ \E s \in Answers : Board(IF s = "us" THEN "rom" ELSE "astray", s)
    \/ board = "rom" /\ Serving /\ Board("loader", shown)
    \/ /\ board = "loader" /\ Serving
       /\ \E s \in Answers : Board(IF s = "us" THEN "leased" ELSE "astray", shown)
    \/ board = "leased" /\ Serving /\ Board("pack", shown)
    \/ board \in {"pack", "flash"} /\ Board("linux", shown)

\* As Completed below, but taking the loader's transfer for the last.
CompletedEarly == board \in {"loader", "leased", "pack", "linux"} /\ ~eq.valid

\* wait_for_completion: the pack was fetched from this server.
Completed == board \in {"pack", "prompt", "linux"} /\ ~eq.valid

\* What the console showed of an earlier boot is dropped, and the board is
\* switched on, by the controller or by the user.
PowerOn ==
    /\ epc[Novatek] = "power"
    /\ \/ To(Novatek, "fetch") /\ board' = "on" /\ UNCHANGED <<failing, efaults>>
       \/ EthFault /\ Out(Novatek, "close") /\ UNCHANGED board
    /\ UNCHANGED <<eq, added, addr, servers, shown, stuck>>

\* The wait for the pack, which ends early when the console shows that the
\* ROM took another server's offer.
AwaitFetch ==
    /\ epc[Novatek] = "fetch"
    /\ \/ Completed /\ To(Novatek, IF eq.console THEN "prompt" ELSE "close") /\ UNCHANGED failing
       \/ ~Completed /\ eq.console /\ shown = "rival" /\ Out(Novatek, "close")
       \/ ~Completed /\ Out(Novatek, "close")
    /\ UNCHANGED <<eq, added, addr, servers, board, shown, stuck, efaults>>

\* Ctrl-C on the console until the prompt shows, unless U-Boot is past it.
_catch_prompt ==
    /\ epc[Novatek] = "prompt"
    /\ \/ board = "pack" /\ board' = "prompt" /\ To(Novatek, "close") /\ UNCHANGED failing
       \/ board = "linux" /\ Out(Novatek, "close") /\ UNCHANGED board
    /\ UNCHANGED <<eq, added, addr, servers, shown, stuck, efaults>>

NetHost ==
    \/ \E h \in Hosts :
         \/ AddCheck(h) \/ AddCommand(h) \/ AwaitPlumbed(h) \/ RemoveAddress(h)
         \/ Finish(h)
         \/ start_dhcp_server(h) \/ start_tftp_server(h) \/ Close(h)
    \/ Serve \/ PowerOn \/ AwaitFetch \/ _catch_prompt

NetNext == NetHost \/ Plumb \/ BoardStep \/ \E h \in Hosts : Cancel(h)

NetSpec == NetInit /\ [][NetNext]_netVars

NetEnded == \A h \in Hosts : epc[h] \in {"done", "failed"}

(***************************************************************************)
(* Properties.                                                             *)
(***************************************************************************)
\* An address that was there is never taken away, by either of two processes
\* in any order; and when both have ended, whatever failed or was cancelled,
\* an address they added is gone and their servers are closed, unless the
\* removal failed or the assigning command was cut off (add_ip, temporary_ip,
\* the "finally" of recover_over_ethernet).
HostAsFound ==
    /\ eq.had => addr = "up"
    /\ NetEnded => dhcp = {} /\ tftp = {}
    /\ NetEnded /\ stuck = "no" /\ ~eq.had => addr = "none"

\* A Novatek recovery that succeeds has its pack running on the board, at the
\* prompt if there is a console, whoever else answers its DHCP requests
\* (recover_over_ethernet, done_file of the TFTP server).
NetBooted ==
    epc[Novatek] = "done" =>
        /\ ~eq.valid /\ board \in {"pack", "prompt", "linux"}
        /\ eq.console => board = "prompt"
=============================================================================
