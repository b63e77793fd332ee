---------------------------- MODULE LineService ----------------------------
(***************************************************************************)
(* What the socket engine promises the core about each connection, however *)
(* it is served: it is announced once, then its lines come in the order in *)
(* which the client sent them, each once, none left out and none cut, and  *)
(* its end is told once and is the last word.  Only a line longer than the *)
(* limit may be missing or lose its head, and only the last line of a      *)
(* server link may lose its tail.                                          *)
(***************************************************************************)
EXTENDS Integers, Sequences, FiniteSets, SequencesExt, FiniteSetsExt

CONSTANT Conn

VARIABLES
    log,       \* log[c]: the events of c that the core was sent
    sentlines, \* sentlines[c]: the lengths of the lines of c's client, in order
    limit,     \* limit[c]: the longest line that must be delivered
    cuttail    \* cuttail[c]: c is a server link

Told(c, what) == \E i \in DOMAIN log[c] : log[c][i].e = what
Heard(c)      == {log[c][i].id : i \in {j \in DOMAIN log[c] : log[c][j].e = "Line"}}

\* Lines that nothing excuses from being delivered.
Due(c) == {k \in DOMAIN sentlines[c] : sentlines[c][k] \in 1 .. limit[c]}

\* A line that arrived short although it was due: the stream ended within it.
Cut(c) == \E i \in DOMAIN log[c] : /\ log[c][i].e = "Line" /\ log[c][i].id \in Due(c)
                                  /\ log[c][i].len < sentlines[c][log[c][i].id]

MayTell(c, ev) ==
    /\ ~Told(c, "Disconnect")
    /\ ev.e = "Connect"    => ~Told(c, "Connect")
    /\ ev.e = "Disconnect" => Told(c, "Connect")
    /\ ev.e = "Line" =>
         /\ Told(c, "Connect") /\ ~Cut(c)
         /\ \A k \in Heard(c) : k < ev.id
         /\ \A k \in Due(c) : k < ev.id => k \in Heard(c)
         /\ \/ ev.len = sentlines[c][ev.id]
            \/ ev.id \notin Due(c)
            \/ cuttail[c]

Tell(c, ev) == MayTell(c, ev) /\ log' = [log EXCEPT ![c] = Append(@, ev)]

Init == log = [c \in Conn |-> <<>>]

Next == /\ UNCHANGED <<sentlines, cuttail>>
        /\ \A c \in Conn : limit'[c] <= limit[c]
        /\ \/ UNCHANGED log
           \/ \E c \in Conn : /\ Len(log'[c]) = Len(log[c]) + 1
                              /\ Tell(c, Last(log'[c]))

Spec == Init /\ [][Next]_<<log, sentlines, limit, cuttail>>
=============================================================================
