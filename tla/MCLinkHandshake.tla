-------------------------- MODULE MCLinkHandshake --------------------------
(* Small instances of LinkHandshake.                                        *)
EXTENDS LinkHandshake, TLC

CONSTANTS A, B, C, ipA, ipB, red, blue

block(t, ip, pw, auto) ==
    [name |-> t, ip |-> ip, password |-> pw, autoconnect |-> auto]

Addresses == A :> ipA @@ B :> ipB

ToB == block(B, ipB, red, TRUE)
ToA == block(A, ipA, red, TRUE)

\* Both dial each other at boot.  A's file may also list C, at B's address and
\* with another secret, before B; or B by a host name.  B's may have a wrong
\* secret for A.
Files ==
    A :> {<<ToB>>, <<block(C, ipB, blue, FALSE), ToB>>, <<block(B, ipA, red, TRUE)>>}
    @@ B :> {<<ToA>>, <<block(A, ipA, blue, FALSE)>>}

\* A dials B at boot, and nothing is wrong with the files.
RightFiles == A :> {<<ToB>>} @@ B :> {<<block(A, ipA, red, FALSE)>>}
=============================================================================
