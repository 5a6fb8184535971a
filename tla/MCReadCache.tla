---------------------------- MODULE MCReadCache ----------------------------
(* Instances of ReadCache for TLC: the TTLs of the code in order, scaled down. *)
EXTENDS ReadCache, TLC

MCTtl == [k \in Keys |->
    CASE k = "briefing" -> 1
      [] k \in {"daily:activity", "actions", "actions:ranked"} -> 2
      [] k = "engagement" -> 2
      [] k \in {"perf:metrics", "perf:peer"} -> 2
      [] k = "briefing:ranked" -> 3]
TwoAtOnce == [s \in DOMAIN Paths |-> IF s = "strengths" THEN 1 ELSE 2]
OneOther == [r \in {"RM2"} |-> 1]
CSym == Permutations(Readers)
=============================================================================
