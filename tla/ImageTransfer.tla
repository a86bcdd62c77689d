--------------------------- MODULE ImageTransfer ---------------------------
(***************************************************************************)
(* What every image upload of defib promises: it ends in success only when *)
(* the device has all the pieces of the image.  The boot ROM protocols     *)
(* (module Recovery) implement it.  Where an acknowledgement carries no    *)
(* number, one that outlives its wait can be taken for the next piece's:   *)
(* then, and only then, may loose pieces be missing, the ones that nobody  *)
(* asks for again.                                                         *)
(***************************************************************************)

VARIABLES have,     \* the pieces that the device has stored
          pieces,   \* the pieces of the image
          sure,     \* every acknowledgement came within its wait
          loose,    \* the pieces that a stale acknowledgement may cost
          outcome   \* "running", "success", "failed"

vars == <<have, pieces, sure, loose, outcome>>

Init ==
    /\ have = {} /\ sure = TRUE /\ outcome = "running"
    /\ loose \subseteq pieces

Receive ==
    /\ \E p \in pieces \ have : have' = have \cup {p}
    /\ UNCHANGED <<pieces, sure, loose, outcome>>

\* The device is reset.
Restart ==
    /\ outcome # "success" /\ have' \subseteq have
    /\ UNCHANGED <<pieces, sure, loose, outcome>>

\* A wait is over before its answer comes; it may have been the last one.
Doubt == sure' \in {sure, FALSE} /\ UNCHANGED <<have, pieces, loose>>

Wait == Doubt /\ outcome' = outcome

Succeed ==
    /\ outcome = "running" /\ outcome' = "success" /\ Doubt
    /\ pieces \ have \subseteq IF sure' THEN {} ELSE loose

GiveUp == outcome = "running" /\ outcome' = "failed" /\ Doubt

Next == Receive \/ Restart \/ Wait \/ Succeed \/ GiveUp

Spec == Init /\ [][Next]_vars
=============================================================================
