---------------------------- MODULE MCClientLookup ----------------------------
(* Instances of ClientLookup for TLC: "ps k" and "k ps" have the same words, which are
   two of those of "k ps j" and of his mail address; "(a" is nothing but a stop word and
   no regular expression, and his PAN is a word of the other names. *)
EXTENDS ClientLookup, TLC

MCPersons ==
    {[name |-> <<"p", "s", "_", "k">>, mail |-> {}, pan |-> {}],
     [name |-> <<"k", "_", "p", "s">>, mail |-> {}, pan |-> {}],
     [name |-> <<"k", "_", "p", "s", "_", "j">>, mail |-> {<<"p", "s">>, <<"k">>}, pan |-> {}],
     [name |-> <<"(", "a">>, mail |-> {}, pan |-> {<<"p", "s">>}]}
MCAsks      == {<<"p", "s", "_", "k">>, <<"(", "a">>}
MCStopWords == {<<"a">>}
MCSpecial   == {"("}

Symmetric == Permutations(Clients) \cup Permutations(RMs) \cup Permutations(Calls)
=============================================================================
