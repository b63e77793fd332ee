----------------------------- MODULE MCNetState -----------------------------
(***************************************************************************)
(* A services server s next to a, and the servers a - b - c in a line.     *)
(***************************************************************************)
EXTENDS NetState

CONSTANTS s, a, b, c, u1, u2, k1, r1, e1, h1, f1

MCLink == {{s, a}, {a, b}, {b, c}}
MCHome == (u1 :> a) @@ (u2 :> b)
MCMatches == (k1 :> {u1, u2} \X {"i0", "i1"} \cup {<<u2, "id">>}) @@ (r1 :> {u1, u2} \X Ident)
             @@ (e1 :> {u1, u2} \X {"id", "i1"})

Cut == {<<a, b>>, <<b, a>>}
Far == {<<b, c>>, <<c, b>>}
Plays(moves, users, rs, sv, cut) ==
    [moves |-> moves, users |-> users, rules |-> rs, servers |-> sv, cut |-> cut]

MCSetups ==
    { \* logins by SASL, by services and by the services' metadata, across a relink
      Plays({"sasl", "SVSLOGOUT", "link"}, {u1}, {}, {}, Cut \cup Far),
      Plays({"SVSLOGIN", "METADATA", "split", "link"}, {u1}, {}, {}, Far),
      Plays({"SVSLOGIN", "METADATA", "quit"}, {u2}, {}, {}, {}),
      \* what a client says of itself
      Plays({"away", "name", "split", "link"}, {u2}, {}, {}, Far),
      Plays({"oper", "mode", "link", "split"}, {u2}, {}, {}, Cut \cup Far),
      Plays({"mode", "SVSMODE", "SVSOPER"}, {u1}, {}, {}, Far),
      \* displayed hosts
      Plays({"host", "CHGHOST", "link"}, {u1}, {}, {}, Cut \cup Far),
      Plays({"host", "quit", "link", "split"}, {u2}, {}, {}, Far),
      Plays({"CHGHOST", "link", "split"}, {u2}, {}, {}, Cut),
      \* rules
      Plays({"xline", "time", "link", "split"}, {u2}, {k1}, {a}, Far),
      Plays({"xline", "unxline", "rpc", "ADDLINE"}, {u1, u2}, {k1}, {a, b, c}, {}),
      Plays({"xline", "xcopy", "time"}, {u2}, {k1, r1}, {b}, Far),
      \* a ban against clients on their way in, renamed or exempt
      Plays({"xline", "ident", "slow"}, {u1, u2}, {k1}, {a}, Far),
      Plays({"xline", "unxline", "ident", "slow", "host"}, {u1}, {k1, e1}, {a}, Cut \cup Far),
      Plays({"filter", "SVSHOLD", "link"}, {}, {f1, h1}, {a, b}, Cut) }
=============================================================================
