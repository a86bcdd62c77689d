--------------------------- MODULE MCFlashStream ---------------------------
(* FlashStream with an image of four sectors of two pages on a chip of five: *)
(* sectors 0, 1 and 3 hold data, sector 2 is all 0xFF, page 0 of sector 1    *)
(* too, and the last sector is half used.                                    *)
EXTENDS FlashStream

MCData == {FF} \cup ((0..3) \X (0..1))

MCImage ==
    [s \in 0..3 |-> [p \in 0..1 |->
        IF s = 2 \/ (s = 1 /\ p = 0) \/ (s = 3 /\ p = 1) THEN FF ELSE <<s, p>>]]
=============================================================================
