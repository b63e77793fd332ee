----------------------------- MODULE MCStorage -----------------------------
(* Instances of Storage for TLC. *)
EXTENDS Storage

CONSTANTS k1, sess, w1, w2, q1, q2

MCKeys == {k1, sess}
TwoRules == {[score |-> 1, age |-> 1], [score |-> -1, age |-> 2]}

\* Every store, through the back ends it has, and queries to both pools and to
\* a server without a database.
AllSetups ==
    [store : {"markread", "permchannels"}, backend : {"file", "pgsql"}, asks : {{}}]
    \cup [store : {"reputation"}, backend : {"file"}, asks : {{}}]
    \cup [store : {"xlines"}, backend : {"pgsql"}, asks : {{}}]
    \cup [store : {"webpush"}, backend : {"pgsql"}, asks : {{q1}}]
    \cup [store : {"metadata"}, backend : {"file"}, asks : {{}}]
    \cup [store : {"none"}, backend : {"file", "redis", "pgsql"}, asks : {{q1, q2}}]

PermSetups == [store : {"permchannels"}, backend : {"file"}, asks : {{}}]
PoolSetups == [store : {"markread"}, backend : {"pgsql"}, asks : {{}}]
============================================================================
