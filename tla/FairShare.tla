----------------------------- MODULE FairShare -----------------------------
(***************************************************************************)
(* fair_targets of submit_coordinator.py: the max-min fair division of a   *)
(* number of submission slots among jobs.  A job's name is a number; names *)
(* sort as numbers do.                                                     *)
(***************************************************************************)
EXTENDS Integers, FiniteSets, FiniteSetsExt

\* The sum of f over the jobs of W.
SumOver(f, W) == MapThenSumSet(LAMBDA j : f[j], W)

\* The job that sorts first by demand, then by name.
Smallest(W, demands) ==
    CHOOSE j \in W : \A k \in W : \/ demands[j] < demands[k]
                                  \/ demands[j] = demands[k] /\ j <= k

\* Mutant: the loop breaks at once, and unused shares are not redistributed.
WaitingAll(demands, capacity) == DOMAIN demands

\* The jobs still waiting when the loop breaks.  Every pass in which the smallest
\* demand fits an equal share of what remains grants it and pops its job.
Waiting(demands, capacity) ==
    LET pass[W \in SUBSET DOMAIN demands] ==
          IF W = {} THEN W
          ELSE LET j == Smallest(W, demands)
                   remaining == capacity - SumOver(demands, DOMAIN demands \ W)
               IN  IF demands[j] > remaining \div Cardinality(W) THEN W ELSE pass[W \ {j}]
    IN  pass[DOMAIN demands]

\* Position of j in the name order of W rotated by turn.
Position(j, W, turn) == (Cardinality({k \in W : k < j}) - turn) % Cardinality(W)

\* Mutant: one extra slot more than the division leaves.
FairTargetsOneMore(demands, capacity, turn) ==
    LET slots == Max({0, capacity})
        W == Waiting(demands, slots)
        level == (slots - SumOver(demands, DOMAIN demands \ W)) \div Cardinality(W)
        extra == (slots - SumOver(demands, DOMAIN demands \ W)) % Cardinality(W)
    IN  [j \in DOMAIN demands |->
            IF j \notin W THEN demands[j]
            ELSE Min({demands[j],
                      level + IF Position(j, W, turn) <= extra THEN 1 ELSE 0})]

FairTargets(demands, capacity, turn) ==
    LET slots == Max({0, capacity})
        W == Waiting(demands, slots)
        remaining == slots - SumOver(demands, DOMAIN demands \ W)
        level == remaining \div Cardinality(W)
        extra == remaining % Cardinality(W)
    IN  [j \in DOMAIN demands |->
            IF j \notin W THEN demands[j]
            ELSE Min({demands[j],
                      level + IF Position(j, W, turn) < extra THEN 1 ELSE 0})]

-----------------------------------------------------------------------------
(* The reference definition of a fair share: pour the capacity over the jobs *)
(* to the highest level, at most top, that they all can have up to their      *)
(* demand.  What then is left of it gives some of them one slot more.         *)
Poured(demands, level) ==
    SumOver([k \in DOMAIN demands |-> Min({demands[k], level})], DOMAIN demands)
WaterLevel(demands, capacity, top) ==
    Max({l \in 0 .. top : l = 0 \/ Poured(demands, l) <= capacity})
WithinFairShare(demands, capacity, top, count) ==
    LET level == WaterLevel(demands, capacity, top)
    IN  \/ count <= level
        \/ count = level + 1 /\ Poured(demands, level) < capacity
=============================================================================
