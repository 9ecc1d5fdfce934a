---------------------------- MODULE PairResults ----------------------------
(***************************************************************************)
(* What a batch promises about its solver-problem pairs: a pair is attempted *)
(* any number of times, every attempt may save a result, and a completed   *)
(* result is final.                                                        *)
(***************************************************************************)
CONSTANT Pair

VARIABLES saved,      \* pairs with a saved result
          completed   \* pairs whose saved result is complete

Init == saved = {} /\ completed = {}

Save(t, complete) ==
    /\ t \notin completed
    /\ saved' = saved \cup {t}
    /\ completed' = IF complete THEN completed \cup {t} ELSE completed

Next == \E t \in Pair, complete \in BOOLEAN : Save(t, complete)

Spec == Init /\ [][Next]_<<saved, completed>>
=============================================================================
