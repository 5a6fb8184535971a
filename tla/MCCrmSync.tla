----------------------------- MODULE MCCrmSync -----------------------------
(* Instances of CrmSync for TLC: two RMs who share the client c2, and one   *)
(* of whom has two leads.                                                   *)
EXTENDS CrmSync, TLC

CONSTANTS rm1, rm2, c1, c2, l1, l2

MCRecords == {c1, c2, l1, l2}
MCOrder   == <<c1, c2, l1, l2>>
MCEntity  == (c1 :> "clients") @@ (c2 :> "clients") @@ (l1 :> "leads") @@ (l2 :> "leads")
MCListing == (rm1 :> MCRecords) @@ (rm2 :> {c2})
MCHeld    == (c1 :> rm1) @@ (c2 :> "none") @@ (l1 :> rm1) @@ (l2 :> "none")
MCChanges == {[rec |-> c1, to |-> {}], [rec |-> c2, to |-> {rm2}]}
=============================================================================
