----------------------------- MODULE MCRecovery -----------------------------
(***************************************************************************)
(* Instance of Recovery for TLC: boards of each protocol, with and without *)
(* power control, recovered by the session and by the agent upload.        *)
(***************************************************************************)
EXTENDS Recovery

\* The image has more frames than the areas that come before it.
TwoImageFrames == [a \in AllAreas |-> IF a = "image" THEN 2 ELSE 1]

Board(proto, caller, pow) ==
    [proto |-> proto, caller |-> caller, power |-> pow, prestep |-> FALSE,
     prestep1 |-> FALSE, remarks |-> FALSE, detaches |-> FALSE, table |-> "trained",
     die |-> TRUE, poe |-> "auto-on"]

StandardBoards ==
    {Board("standard", "session", "pulse"), Board("standard", "upload", "none"),
     Board("standard", "upload", "pulse")}
    \cup {[Board("standard", "session", "none") EXCEPT !.remarks = r] : r \in BOOLEAN}
    \cup {[Board("standard", "session", pow) EXCEPT !.prestep = TRUE, !.prestep1 = TRUE,
             !.remarks = TRUE, !.detaches = TRUE] : pow \in {"none", "plug"}}
    \cup {[Board("standard", "upload", "poe") EXCEPT !.poe = p] :
             p \in {"auto-on", "off"}}

V500Boards ==
    {Board("v500", "session", pow) : pow \in {"none", "poe"}}
    \cup {Board("v500", "upload", pow) : pow \in {"none", "plug", "pulse"}}
    \cup {[Board("v500", "upload", "plug") EXCEPT !.die = FALSE]}

Cv6xxBoards ==
    {[Board("cv6xx", "session", "pulse") EXCEPT !.table = t] :
        t \in {"trained", "rejected", "stuck", "silent"}}
    \cup {Board("cv6xx", "upload", pow) : pow \in {"none", "poe", "plug"}}

NovatekBoards ==
    {[Board("novatek", "session", "plug") EXCEPT !.die = d] : d \in BOOLEAN}

AllBoards == StandardBoards \cup V500Boards \cup Cv6xxBoards \cup NovatekBoards
=============================================================================
