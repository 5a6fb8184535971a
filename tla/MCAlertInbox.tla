---------------------------- MODULE MCAlertInbox ----------------------------
(* Instances of AlertInbox for TLC. *)
EXTENDS AlertInbox, TLC

CONSTANTS r1, c1, m1, m2

AllToM1      == [c \in Clients |-> m1]
Cooldown1    == [r \in Rules |-> 1]
HighSeverity == [r \in Rules |-> "high"]
PocR1        == <<r1>>
Sym          == Permutations(AlertIds) \cup Permutations(Requests)
=============================================================================
