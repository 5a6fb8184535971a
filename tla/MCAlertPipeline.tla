-------------------------- MODULE MCAlertPipeline --------------------------
(* Instances of AlertPipeline for TLC. *)
EXTENDS AlertPipeline, TLC

CONSTANTS r1, c1, c2, m1, m2

TwoRms       == (c1 :> m1) @@ (c2 :> m2)
OneRm        == [c \in Clients |-> m1]
Cooldown1    == [r \in Rules |-> 1]
HighSeverity == [r \in Rules |-> "high"]
PocR1        == <<r1>>
AskBoth      == [r \in Rules |-> <<"IN_APP", "VOICE">>]
=============================================================================
