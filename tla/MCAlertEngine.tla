--------------------------- MODULE MCAlertEngine ---------------------------
(* Instances of AlertEngine for TLC. *)
EXTENDS AlertEngine, TLC

CONSTANTS r1, r2, c1, c2, m1

OneRm        == [c \in Clients |-> m1]
Cooldown2    == [r \in Rules |-> 2]
HighSeverity == [r \in Rules |-> "high"]
PocR1        == <<r1>>
PocR1R2      == <<r1, r2>>
Sym          == Permutations(AlertIds) \cup Permutations(Evals)
=============================================================================
