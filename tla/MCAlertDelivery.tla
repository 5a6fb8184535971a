-------------------------- MODULE MCAlertDelivery --------------------------
(* Instances of AlertDelivery for TLC. *)
EXTENDS AlertDelivery, TLC

Pay(sev, ch, name) == [severity |-> sev, channels |-> ch, rm_name |-> name]

\* A complete high alert, and a medium one that asks for a call all the same.
MixedPayloads == {Pay("high", <<"IN_APP", "VOICE">>, "name"),
                  Pay("medium", <<"VOICE", "IN_APP">>, "name")}
=============================================================================
