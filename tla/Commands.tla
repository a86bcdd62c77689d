------------------------------ MODULE Commands ------------------------------
(***************************************************************************)
(* The commands of defib that talk to one device each and share nothing    *)
(* but the host: recovery over USB, NAND study, flash dumps, the firmware  *)
(* cache and recovery over Ethernet.  A behaviour is one use of one of     *)
(* them: tool says which, and the state of the others does not change.     *)
(***************************************************************************)
EXTENDS Rockusb, NandStudy, FlashDump, FirmwareCache, NetRecovery

VARIABLE tool     \* the component at work; never changes

allVars == <<tool, usbVars, nandVars, dumpVars, cacheVars, netVars>>

Tools == {"usb", "nand", "dump", "cache", "net"}

\* One initial state for a component that is not at work.
UsbAway == ureq = CHOOSE r \in UsbRequests : TRUE
NandAway == nreq = CHOOSE r \in NandRequests : TRUE
DumpAway == caller = "cli" /\ crc32 /\ file = <<>>
CacheAway == cached = NoCopy /\ meta = 0 /\ ~legacy
NetAway == eq = CHOOSE r \in NetRequests : TRUE

Init ==
    /\ tool \in Tools
    /\ UsbInit /\ (tool # "usb" => UsbAway)
    /\ NandInit /\ (tool # "nand" => NandAway)
    /\ DumpInit /\ (tool # "dump" => DumpAway)
    /\ CacheInit /\ (tool # "cache" => CacheAway)
    /\ NetInit /\ (tool # "net" => NetAway)

UsbWorks == tool = "usb" /\ UNCHANGED <<tool, nandVars, dumpVars, cacheVars, netVars>>
NandWorks == tool = "nand" /\ UNCHANGED <<tool, usbVars, dumpVars, cacheVars, netVars>>
DumpWorks == tool = "dump" /\ UNCHANGED <<tool, usbVars, nandVars, cacheVars, netVars>>
CacheWorks == tool = "cache" /\ UNCHANGED <<tool, usbVars, nandVars, dumpVars, netVars>>
NetWorks == tool = "net" /\ UNCHANGED <<tool, usbVars, nandVars, dumpVars, cacheVars>>

Next ==
    \/ UsbWorks /\ UsbNext
    \/ NandWorks /\ NandNext
    \/ DumpWorks /\ DumpNext
    \/ CacheWorks /\ CacheNext
    \/ NetWorks /\ NetNext

\* What goes on by itself: the command, whose waits all have deadlines, the
\* agent's main loop, a board that re-enumerates, an address that was
\* assigned.  Nobody has to plug in, publish, press or switch on anything.
CommandGoesOn ==
    \/ UsbWorks /\ UsbHost
    \/ NandWorks /\ NandHost
    \/ DumpWorks /\ DumpStep
    \/ CacheWorks /\ CacheHost
    \/ NetWorks /\ NetHost

FairSpec ==
    /\ Init /\ [][Next]_allVars
    /\ WF_allVars(CommandGoesOn)
    /\ WF_allVars(UsbWorks /\ \E p \in Ports : Enumerate(p))
    /\ WF_allVars(NandWorks /\ AgentStep)
    /\ WF_allVars(NetWorks /\ Plumb)

Started == tool = "dump" => Dumping
Ended ==
    \/ tool = "usb" /\ UsbEnded
    \/ tool = "nand" /\ NandEnded
    \/ tool = "dump" /\ ~Dumping
    \/ tool = "cache" /\ CacheEnded
    \/ tool = "net" /\ NetEnded

\* Every command that was started ends, with success or with an error,
\* whatever is lost, late, unplugged, cancelled or refused: no retry,
\* re-enumeration or wait of it goes on for ever.
EveryCommandEnds == Started ~> Ended
=============================================================================
