----------------------------- MODULE MCChannels -----------------------------
(***************************************************************************)
(* Three users and three channels, one of them forbidden.  Each setup      *)
(* plays a part of the commands,                                           *)
(* so that each meets the ones it interferes with.                         *)
(***************************************************************************)
EXTENDS Channels

CONSTANTS u1, u2, u3, c1, c2, c3

On(l, a)  == [on |-> TRUE, letter |-> l, arg |-> a]
Off(l, a) == [on |-> FALSE, letter |-> l, arg |-> a]
Entry(u, c) == [who |-> u, to |-> c, caps |-> FALSE]
Caps(b)   == [b EXCEPT !.caps = TRUE]
Both(l, a) == {<<On(l, a)>>, <<Off(l, a)>>}

MCBadTo == c3 :> c1
MCFullTo == (c1 :> c2) @@ (c2 :> c3) @@ (c3 :> c1)
MCRanks == [p \in {"q", "a", "o", "h", "v"} |-> RankOf[p]]

\* Ranks: op, half-op and the entries of +w against kicks and cycles.
Ranks == [moves |-> {"kick", "cycle", "svs"}, users |-> User, chans |-> {c1},
          lines |-> {<<On("o", u1)>>, <<Off("o", u1)>>, <<On("o", u2)>>, <<On("h", u3)>>,
                     <<Off("o", u1), On("m", None)>>, <<On("w", Entry(u3, "o"))>>}]

\* Delayed joins: who sees whom come, speak, go.
Delayed == [moves |-> {"part", "speak", "cycle", "kick", "quit"}, users |-> User, chans |-> {c1},
            lines |-> Both("D", None) \cup {<<On("o", u2)>>}]

Renamed == [moves |-> {"speak", "rename"}, users |-> User, chans |-> {c1, c2},
            lines |-> {<<On("D", None)>>}]

\* Operators: forced joins and parts, overrides, the operator prefix.
Opers == [moves |-> {"oper", "sa", "svs"}, users |-> User, chans |-> {c1},
          lines |-> {<<On("D", None), On("O", None)>>, <<On("P", None)>>, <<Off("P", None)>>}]

\* Redirects between channels with +z and +l, one of them a forbidden name.
Doors == [moves |-> {"part", "cycle"}, users |-> User, chans |-> Chan,
          lines |-> {<<On("l", "good"), On("L", "good")>>, <<On("z", None)>>}]

\* Bans that expire, redirect, are removed.
Bans == [moves |-> {"tban", "part"}, users |-> {u1, u3}, chans |-> {c1, c2},
         lines |-> {<<On("b", Entry(u3, c2))>>, <<Off("b", Entry(u3, c2))>>, <<On("z", None)>>}]

\* Bans removed in another spelling than they were set in.
Spelled == [moves |-> {"tban", "part"}, users |-> {u1, u3}, chans |-> {c1},
            lines |-> {<<On("b", Entry(u3, None))>>, <<Off("b", Caps(Entry(u3, None)))>>}]

\* Invitations to a closed channel.
Invites == [moves |-> {"invite", "quit", "rename"}, users |-> {u1, u2}, chans |-> {c1, c2},
            lines |-> Both("i", None)]

\* End-to-end rooms: the capability comes and goes.
Sealed == [moves |-> {"cap", "part", "oper", "sa"}, users |-> User, chans |-> {c1},
           lines |-> Both("E", None)]

\* Empty channels: kept by +P, destroyed by a MODE here, found again.
Emptied == [moves |-> {"oper", "part", "svs", "sweep"}, users |-> {u1, u3},
            chans |-> {c1, c2}, lines |-> Both("P", None)]
Refound == [Emptied EXCEPT !.moves = (@ \ {"svs"}) \cup {"rename"}, !.users = {u3}]

\* Floods: +f kicks and bans, +j locks, +J keeps kicked users out for a while.
Floods == [moves |-> {"speak", "kick", "part"}, users |-> User, chans |-> {c1},
           lines |-> {<<On("f", "good")>>, <<On("j", "good"), On("J", "good")>>}]

MCSetups == {Ranks, Delayed, Renamed, Opers, Doors, Bans, Spelled, Invites, Sealed,
             Emptied, Refound, Floods}
=============================================================================
