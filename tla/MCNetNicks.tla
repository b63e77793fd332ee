----------------------------- MODULE MCNetNicks -----------------------------
(* Small instances of NetNicks.                                             *)
EXTENDS NetNicks, TLC

CONSTANTS A, B, C, a1, b1, c1, x, y

Pair == {{A, B}}
Hub  == {{A, B}, {B, C}}

HomePair  == a1 :> A @@ b1 :> B
HomeEnds  == a1 :> A @@ c1 :> C

Strangers == [u \in User |-> u]     \* nobody shares an ident and an ip
Twins     == [u \in User |-> "me"]  \* one person behind every client

NamesAlike == Permutations(Name)    \* no action tells two names apart
=============================================================================
