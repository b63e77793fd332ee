--------------------------- MODULE MCChannelSync ---------------------------
(* Small instances of ChannelSync: a client a1 on A and b1 on B.            *)
EXTENDS ChannelSync, TLC

CONSTANTS A, B, a1, b1, n, mod, m1, hi

Pair   == {{A, B}}
HomeOf == a1 :> A @@ b1 :> B

SetFlag(f, on)   == [kind |-> "flag", flag |-> f, on |-> on]
SetBan(mask, on) == [kind |-> "ban", mask |-> mask, on |-> on]
SetOp(u, on)     == [kind |-> "op", u |-> u, on |-> on]

NoChanges == {}
Additions == {SetFlag(mod, TRUE), SetBan(m1, TRUE)}
Anything  == {SetFlag(mod, TRUE), SetFlag(mod, FALSE), SetOp(a1, TRUE)}
=============================================================================
