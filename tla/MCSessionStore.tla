--------------------------- MODULE MCSessionStore ---------------------------
(* Instances of SessionStore for TLC. *)
EXTENDS SessionStore, TLC

SSym == Permutations(Calls) \cup Permutations(Sessions)
=============================================================================
