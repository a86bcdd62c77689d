----------------------------- MODULE MCCommands -----------------------------
(***************************************************************************)
(* The commands, devices and surroundings Commands is checked with.        *)
(***************************************************************************)
EXTENDS Commands

CONSTANTS p1, p2

\* Boards in MaskROM, as a loader with packets queued, on two ports or none;
\* image lengths with and without padding and terminating transfer.
Usb(cmd0, path) ==
    [cmd |-> cmd0, path |-> path, loader |-> "good", ddr |-> <<3>>, usbplug |-> <<2>>,
     power |-> FALSE, board |-> p1, start |-> 0, sectors |-> 0, stale |-> 0,
     bus |-> [p \in Ports |-> IF p = p1 THEN "maskrom" ELSE "absent"]]

Loader(r, n) == [r EXCEPT !.stale = n, !.bus = [@ EXCEPT ![p1] = "loader"]]

AllUsb ==
    {Usb("burn", AnyPort),
     [Usb("burn", p1) EXCEPT !.loader = "bad"],
     [Usb("burn", p1) EXCEPT !.power = TRUE, !.bus = [p \in Ports |-> "absent"]],
     [Usb("burn", AnyPort) EXCEPT !.bus = [p \in Ports |-> "maskrom"]],
     [Usb("dump", AnyPort) EXCEPT !.ddr = <<6, 5>>, !.usbplug = <<7>>],
     [Usb("dump", p1) EXCEPT !.start = 2, !.sectors = 3],
     Loader([Usb("dump", p1) EXCEPT !.sectors = 3], 1),
     Loader(Usb("burn", AnyPort), 3),
     Loader(Usb("dump", AnyPort), 2),
     [Usb("write", p1) EXCEPT !.start = 1, !.sectors = 3]}

\* Chips with failing pages, and one whose ECC cannot be switched.
Nand(c) ==
    [cmd |-> c, start |-> 0, count |-> 2, ecc |-> TRUE, keep |-> FALSE,
     sticky |-> FALSE, bad |-> {}]

AllNand ==
    {[Nand("dump") EXCEPT !.count = 3],
     [Nand("dump") EXCEPT !.start = 1, !.bad = {2}],
     [Nand("dump") EXCEPT !.sticky = TRUE],
     [Nand("dump") EXCEPT !.keep = TRUE],
     [Nand("scan") EXCEPT !.count = 3, !.bad = {1}],
     [Nand("scan") EXCEPT !.count = 3],
     Nand("read"), Nand("program"), [Nand("program") EXCEPT !.bad = {0}], Nand("erase")}

\* Address there or not, one process or two, another DHCP server or none, a
\* blank board or one with a valid loader, with and without its console.
AllNet ==
    [had: BOOLEAN, second: BOOLEAN, rival: BOOLEAN, valid: BOOLEAN, console: BOOLEAN]
=============================================================================
