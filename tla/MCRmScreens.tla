----------------------------- MODULE MCRmScreens -----------------------------
(* Instances of RmScreens and RmQuestions for TLC: each situation varies one group of data. *)
EXTENDS RmQuestions, TLC

None == [x \in {} |-> 0]
Nothing == [alerts |-> None, meetings |-> None, deals |-> None, clients |-> None,
            peers |-> [r \in {1} |-> <<0, 0>>], visits |-> None, now |-> 1000]

Imported(p, t) == [status |-> "pending", severity |-> "medium", priority |-> p, at |-> t]
Engine(s, t)   == [status |-> "NEW", severity |-> s, priority |-> "none", at |-> t]
Meeting(k, t, tier) == [kind |-> k, status |-> "scheduled", at |-> t, tier |-> tier, timed |-> TRUE]
Client(tier, l, x)  == [tier |-> tier, last |-> l, pct |-> 16, cash |-> 2, change |-> x, aum |-> 7, since |-> l - 8,
                        sale |-> [type |-> "BUY", status |-> IF x < 0 THEN "PENDING" ELSE "SETTLED", at |-> l + 8, amount |-> 3]]

AlertMixes == {[Nothing EXCEPT !.alerts = f] :
    f \in [1 .. 3 -> {Imported(p, 990) : p \in {"high", "medium", "low", "none"}}
                     \cup {Engine("high", 991), Imported("high", 980)}]}

\* A critical alert among everything else a briefing can show.
Mornings == {[Nothing EXCEPT !.now = n,
                !.alerts = (1 :> Engine("critical", 900)) @@ (2 :> Engine(s, 901)),
                !.meetings = (1 :> Meeting("VISIT", 1000, "PLATINUM")) @@ (2 :> [Meeting("CALL", 1003, t) EXCEPT !.timed = u]),
                !.clients = IF u THEN 1 :> Client("GOLD", 0, -5)
                            ELSE (1 :> Client("GOLD", 0, 4)) @@ (2 :> Client("SILVER", 100, -3))] :
    n \in {986, 1000}, s \in {"critical", "low"}, t \in {"DIAMOND", "GOLD", "SILVER"}, u \in BOOLEAN}

DueDates == {[Nothing EXCEPT !.meetings = (1 :> Meeting("follow_up", 984 + x, "GOLD")) @@ (2 :> Meeting("follow_up", 984 + y, "SILVER"))] :
    x \in {-168, -167, -145, -120, -49, -48, -24, -14}, y \in {-1, 0, 10, 24, 47, 48}}

Deals == {[Nothing EXCEPT !.deals = [d \in 1 .. 2 |-> [status |-> s, amount |-> 10 * a, updated |-> 1000 - 24 * u, tier |-> t]],
                          !.clients = (1 :> Client(t, 1000 - 24 * u, 0))] :
    s \in {"LEAD", "PROPOSAL_SENT", "LOST"}, a \in {1, 11}, u \in {5, 6, 7, 29, 30}, t \in {"GOLD", "Platinum"}}

Books == {[Nothing EXCEPT !.clients = [c \in 1 .. 3 |-> Client(f[c], 990, 0)]] :
    f \in [1 .. 3 -> {"DIAMOND", "GOLD", "Gold", "BLACK"}]}

Branches == {[Nothing EXCEPT !.peers = f] : f \in UNION {[1 .. n -> (0 .. 2) \X (0 .. 2)] : n \in 1 .. 4}}

\* A year of three months; day 41, a Saturday, is today.
MCMonths == <<36, 39, 42, 45>>

Logins == {[Nothing EXCEPT !.visits = [d \in 36 .. 44 |->
                [sessions |-> IF d \in on THEN 2 ELSE 0, minutes |-> 40, actions |-> IF d % 3 = 0 THEN 0 ELSE d - 30]]] : on \in SUBSET (37 .. 41)}

MCSituations == AlertMixes \cup Mornings \cup DueDates \cup Deals \cup Books \cup Branches \cup Logins
=============================================================================
