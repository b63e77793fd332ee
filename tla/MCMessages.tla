----------------------------- MODULE MCMessages -----------------------------
(***************************************************************************)
(* Three users, three nicks and two channels.  Each setup plays a part of  *)
(* the commands with the modes and hooks that they meet.                   *)
(***************************************************************************)
EXTENDS Messages, TLC

CONSTANTS u1, u2, u3, n1, n2, n3, c1, c2

Base == [moves |-> {}, targets |-> {}, texts |-> {{}}, hooks |-> {}, modes |-> {},
         umodes |-> [u \in User |-> {}], banned |-> {}, muted |-> {}, exempt |-> {},
         online |-> (u1 :> n1) @@ (u2 :> n2) @@ (u3 :> None),
         inside |-> [x \in Chan \X User |-> None]]

AllOn == (u1 :> n1) @@ (u2 :> n2) @@ (u3 :> n3)
InRoom(r1, r2, r3) == [x \in Chan \X User |-> IF x[1] # c1 THEN None
                         ELSE IF x[2] = u1 THEN r1 ELSE IF x[2] = u2 THEN r2 ELSE r3]
Caller(u) == [v \in User |-> IF v = u THEN {"g"} ELSE {}]

\* Presence: nicks that change hands while they are accepted and watched.
Accepts == [Base EXCEPT !.moves = ({"connect", "nick"} \X {u2, u3}) \cup ({"quit"} \X User)
                                     \cup {<<"accept", u1>>}]
AutoAccepts == [Base EXCEPT !.moves = ({"connect", "nick"} \X {u2, u3}) \cup ({"quit"} \X User)
                                         \cup {<<"say", u1>>},
                            !.targets = {n2, n3}, !.umodes = Caller(u1)]
Watching == [Base EXCEPT !.moves = ({"connect", "nick", "quit"} \X {u2, u3})
                                      \cup {<<"watch", u1>>, <<"quit", u1>>}]
Monitoring == [Base EXCEPT !.moves = ({"connect", "nick"} \X {u2, u3}) \cup {<<"monitor", u1>>}]

\* What is withheld or redacted, and who reads the history.
OpsRoom == [Base EXCEPT !.moves = ({"join", "part", "history"} \X {u3}) \cup ({"say"} \X {u1, u2})
                                     \cup {<<"mode", u3>>},
                        !.modes = {"U", "H"}, !.targets = {c1}, !.online = AllOn,
                        !.inside = InRoom(3, 0, None)]
\* The same room when the message comes from another server.
FarOps == [OpsRoom EXCEPT !.moves = {<<"join", u3>>, <<"history", u3>>, <<"remote", None>>}]
Redactions == [Base EXCEPT !.moves = {<<"say", u2>>, <<"redact", u2>>, <<"remote", None>>,
                                      <<"tick", None>>, <<"join", u3>>},
                           !.modes = {"H"}, !.targets = {c1}, !.online = AllOn,
                           !.inside = InRoom(3, 0, None), !.hooks = {"events"}]
Readers == [Redactions EXCEPT !.moves = {<<"say", u2>>, <<"redact", u1>>, <<"tick", None>>,
                                         <<"history", u3>>, <<"join", u3>>},
                              !.modes = {}, !.hooks = {}]

\* Private messages: the recipient's modes and lists.
Private == [Base EXCEPT !.moves = ({"say", "tag"} \X {u1, u2})
                                     \cup {<<"silence", u1>>, <<"signore", u2>>},
                        !.texts = {{}, {"ctcp"}}, !.targets = {n1, n2},
                        !.umodes = (u1 :> {"c", "T"}) @@ (u2 :> {"R"}) @@ (u3 :> {})]

\* A flooder; a batch that floods a channel.
Flooders == [Base EXCEPT !.moves = ({"say", "join"} \X {u2}) \cup {<<"tick", None>>},
                         !.targets = {n1}, !.hooks = {"flood"}]
Batches == [Base EXCEPT !.moves = {"batch", "quit"} \X {u2}, !.modes = {"f", "n"},
                        !.targets = {c1}, !.texts = {{}, {"word"}}, !.inside = InRoom(3, 0, None)]

\* The channel modes that refuse a message.
Quiet == [Base EXCEPT !.moves = ({"say", "mode", "tag"} \X {u2}) \cup {<<"tick", None>>},
                      !.modes = {"m", "M", "W", "d"}, !.targets = {c1}, !.muted = {u2},
                      !.exempt = {<<"moderated", 0>>}, !.inside = InRoom(3, 0, None)]
Texts == [Base EXCEPT !.moves = {<<"say", u2>>, <<"relay", u1>>, <<"mode", u2>>}, !.targets = {c1},
                      !.modes = {"T", "C", "c", "g", "B", "S", "G", "K"},
                      !.texts = {{}, {"ctcp"}, {"colour"}, {"word"}, {"caps"}},
                      !.exempt = {<<"filter", 0>>, <<"blockcolor", 1>>},
                      !.inside = InRoom(3, 0, None)]
Sealed == [Base EXCEPT !.moves = {"say", "quit"} \X {u2, u3}, !.modes = {"E"}, !.online = AllOn,
                       !.targets = {c1}, !.texts = {{}, {"e2e"}}, !.banned = {u3},
                       !.inside = InRoom(3, 0, None)]

\* The modules' hooks.
Hooks == [Base EXCEPT !.moves = {<<"say", u2>>, <<"dcc", u3>>}, !.online = AllOn,
                      !.targets = {n3, c1},
                      !.hooks = {"dccallow", "solvemsg", "masshighlight", "antimixedutf8"},
                      !.texts = {{}, {"dcc"}, {"answer"}, {"names"}, {"spam"}},
                      !.inside = InRoom(None, 0, None)]
Throttles == [Base EXCEPT !.moves = {<<"say", u2>>, <<"tick", None>>}, !.online = AllOn,
                          !.targets = Nick \cup {c1}, !.inside = InRoom(0, 0, 0),
                          !.hooks = {"targetlimit", "restrictmsg"}]
Blockers == [Base EXCEPT !.moves = {"say"} \X {u2}, !.targets = Chan,
                         !.hooks = {"blockamsg", "filter"}, !.texts = {{}, {"spam"}},
                         !.inside = [x \in Chan \X User |-> IF x[2] = u3 THEN None ELSE 0]]

MCSetups == {Accepts, AutoAccepts, Watching, Monitoring, OpsRoom, FarOps, Redactions, Readers,
             Private, Flooders, Batches, Quiet, Texts, Sealed, Hooks, Throttles, Blockers}
=============================================================================
