-------------------------- MODULE MCSocketEngine --------------------------
(* One connection of every kind, with scripts that reach each early end.   *)
EXTENDS SocketEngine, TLC

CONSTANT c1

A(t, k)          == [t |-> t, id |-> k]
Line(k, n)       == [i \in 1 .. n |-> A("b", k)] \o <<A("n", k)>>
Frame(op, f, p)  == [t |-> "frame", id |-> 0, op |-> op, fin |-> f, pay |-> p]
Hs               == <<A("hs", 0)>>
Header           == <<A("h", 0), A("H", 0)>>

Of(kind, scripts) == {[kind |-> kind, script |-> s] : s \in scripts}

\* A line that fits, one that is too long and another that fits.
Lines == Line(1, 1) \o Line(2, 4) \o Line(3, 1)

WebShort == Hs \o <<Frame("text", FALSE, <<A("b", 1)>>), Frame("ping", TRUE, <<>>),
                    Frame("cont", TRUE, Line(1, 1) \o <<A("b", 2)>>), Frame("close", TRUE, <<>>)>>
WebLong  == Hs \o <<Frame("text", TRUE, Line(1, 3) \o Line(2, 1)),
                    Frame("text", FALSE, Line(3, 1)), Frame("cont", FALSE, Line(4, 2)),
                    Frame("bad", TRUE, <<>>)>>

ReactorScripts ==
    Of("plain", {Lines})
      \cup Of("proxy", {Header \o Lines, <<A("h", 0), A("b", 1)>>,
                        <<A("h", 0), A("h", 0), A("h", 0)>>})
      \cup Of("tls", {Hs \o Lines, <<A("bad", 0)>>})
ThreadScripts ==
    Of("link", {Lines})
      \cup Of("stls", {Header \o Hs \o Lines, Header \o <<A("bad", 0)>>,
                       <<A("h", 0), A("b", 1)>>})
      \cup Of("ws", {WebShort, WebLong})

TlsScripts == Of("tls", {Hs \o Lines})
AllScripts == ReactorScripts \cup ThreadScripts

Small == [recvq |-> 3, hardsendq |-> 1, softsendq |-> 1]
Tight == [recvq |-> 2, hardsendq |-> 2, softsendq |-> 0]

\* Back pressure for everyone, or for all but TLS clients.
AllTight   == [k \in ReactorKinds |-> Tight]
PlainTight == [k \in ReactorKinds |-> IF k = "tls" THEN [Tight EXCEPT !.softsendq = 2] ELSE Tight]
=============================================================================
