---------------------------- MODULE AlertPromise ----------------------------
(***************************************************************************)
(* What the alert engine promises about cooldowns, with no Redis, no       *)
(* evaluations and no program counters: a client's alert of a rule is      *)
(* repeated only after cooldown_hours, except for a key on which the       *)
(* check-then-set of the cooldown was disturbed (it has lapsed).           *)
(***************************************************************************)
EXTENDS Integers

CONSTANTS Rules, Clients, AlertIds, Cooldown

VARIABLES now, ledger, lapsed

pvars == <<now, ledger, lapsed>>

Cool(r, c) == \A a \in ledger : a.rule = r /\ a.client = c => a.at + Cooldown[r] <= now

PromiseInit == now = 0 /\ ledger = {} /\ lapsed = {}

RaiseAlert(id, r, c) ==
    /\ id \notin {a.id : a \in ledger}
    /\ <<r, c>> \in lapsed \/ Cool(r, c)
    /\ ledger' = ledger \cup {[id |-> id, rule |-> r, client |-> c, at |-> now]}
    /\ lapsed \subseteq lapsed'
    /\ UNCHANGED now

Lapse ==
    /\ lapsed \subseteq lapsed'
    /\ UNCHANGED <<now, ledger>>

Elapse ==
    /\ now' > now
    /\ UNCHANGED <<ledger, lapsed>>

PromiseNext ==
    \/ \E id \in AlertIds, r \in Rules, c \in Clients : RaiseAlert(id, r, c)
    \/ Lapse
    \/ Elapse

PromiseSpec == PromiseInit /\ [][PromiseNext]_pvars
=============================================================================
