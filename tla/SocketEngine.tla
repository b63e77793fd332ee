---------------------------- MODULE SocketEngine ----------------------------
(***************************************************************************)
(* The I/O edge between the sockets and the core.  Clients, plain or TLS,  *)
(* are served by a reactor thread with edge-triggered readiness; server    *)
(* links by a reader and a writer thread; TLS clients behind a proxy and   *)
(* web clients by one thread that reads and writes in turn.  All of them   *)
(* feed one bounded queue of events and block when it is full; the core    *)
(* answers through unbounded queues and never waits for them.              *)
(* (socketengine.rs, websocket.rs, proxy.rs, tls.rs, tls_rustls.rs,        *)
(* modules/wsguard.rs)                                                     *)
(*                                                                         *)
(* A client's bytes are atoms: "b" (bytes of line id), "n" (its newline),  *)
(* "hs" (a TLS handshake, or the HTTP upgrade of a web client), "bad" (a   *)
(* broken one), "h" (part of a PROXY header) and "H" (its end); a web      *)
(* client sends frames that carry atoms.  Output is counted in lines.      *)
(***************************************************************************)
EXTENDS Integers, Sequences, FiniteSets, SequencesExt, FiniteSetsExt

CONSTANTS
    Conn,          \* connections, by Uid and by reactor token (never reused)
    Reactor,       \* the reactor thread
    Scripts,       \* [kind, script]: the ways in which a client is served, what it sends
    Chunk,         \* the size of a read
    MaxReadPerTurn,\* MAX_READ_PER_TURN
    ProxyMax,      \* PROXY_MAX
    WsMax,         \* the longest line and message of a web client
    Defaults,      \* max_line and max_sendq: [recvq, hardsendq, softsendq]
    ClassLimits,   \* the limits of the connection class of each kind of client
    SessionMax,    \* output that a TLS session buffers
    CoreQueue,     \* core_queue_max
    Rustls,        \* the TLS back end: rustls or OpenSSL
    NetMax,        \* bound: bytes on the way to the server
    WireMax,       \* bound: lines that the kernel holds for a client
    MaxOut         \* bound: lines that the core sends to one connection

ReactorKinds == {"plain", "proxy", "tls"}
ThreadKinds  == {"link", "stls", "ws"}

Limits == [recvq : Nat, hardsendq : Nat, softsendq : Nat]

ASSUME SocketAssumption ==
    /\ \A x \in Scripts : x.kind \in ReactorKinds \cup ThreadKinds
    /\ Defaults \in Limits /\ ClassLimits \in [ReactorKinds -> Limits]
    /\ \A k \in {Chunk, MaxReadPerTurn, CoreQueue, WireMax, NetMax} : k \in Nat \ {0}
    /\ \A k \in {ProxyMax, WsMax, SessionMax, MaxOut} : k \in Nat
    /\ Rustls \in BOOLEAN /\ Reactor \notin Conn
    /\ \A x \in Scripts :
          /\ x.script \in Seq(Range(x.script))
          /\ \A a \in Range(x.script) : a.t = "frame" => a.pay \in Seq(Range(a.pay))

VARIABLES
    st,      \* st[c]: the connection, its socket and its client
    pending_reads, \* connections whose last read was cut short
    box,     \* box[t]: events that thread t is sending to the core, in order
    evq,     \* the core's queue
    sink,    \* sink[c]: the core's OutSink: "none", "held" or "dropped"
    got      \* got[c]: the events of c that reached the queue (history)

vars == <<st, pending_reads, box, evq, sink, got>>

-----------------------------------------------------------------------------
(* Lines out of bytes. *)

Ev(what, c) == [e |-> what, c |-> c, id |-> 0, len |-> 0]

IsNl(a)      == a.t = "n"
Bytes(buf, k) == Cardinality({i \in DOMAIN buf : buf[i].t = "b" /\ buf[i].id = k})

\* The complete lines of a buffer; an empty one is skipped.
AtByte(c, buf, ls, a) ==
    IF IsNl(a) /\ Bytes(buf, a.id) > 0
    THEN Append(ls, [e |-> "Line", c |-> c, id |-> a.id, len |-> Bytes(buf, a.id)])
    ELSE ls
Framed(c, buf) == FoldLeft(LAMBDA ls, a : AtByte(c, buf, ls, a), <<>>, buf)

\* What follows the last newline.
Rest(buf) == LET e == Max({0} \cup {i \in DOMAIN buf : IsNl(buf[i])})
             IN  SubSeq(buf, e + 1, Len(buf))

Chunks(buf, n) == [i \in 1 .. ((n + Chunk - 1) \div Chunk) |->
                     SubSeq(buf, (i - 1) * Chunk + 1, Min({i * Chunk, Len(buf)}))]

\* proxy::parse: the answer and the bytes of the header.
parse(buf) ==
    LET p == Min({Len(buf) + 1} \cup {i \in DOMAIN buf : buf[i].t # "h"})
    IN  IF p > Len(buf) THEN [r |-> "Need", used |-> 0]
        ELSE IF buf[p].t = "H" THEN [r |-> "Header", used |-> p]
        ELSE [r |-> "Invalid", used |-> 0]

-----------------------------------------------------------------------------
(* The reactor's handlers.  A handler works on x = [s, ev, capped]: the    *)
(* connection, the events it sends and whether its read was cut short.     *)

Idle(s) == [s |-> s, ev |-> <<>>, capped |-> FALSE]

\* Mutant: what a TLS session holds back is forgotten.
wants_write_never(s) == FALSE

wants_write(s) == s.sout # <<>>
Readable(s)    == s.net # <<>> \/ s.eof \/ s.rst
Writable(s)    == Len(s.wire) < WireMax \/ s.rst

\* set_interest: registering anew for what is ready raises the edge again.
set_interest(s) ==
    LET wr == ~s.paused
        ww == s.handshaking \/ s.wbuf # <<>> \/ s.paused \/ wants_write(s)
    IN  IF wr = s.want_read /\ ww = s.want_write THEN s
        ELSE [s EXCEPT !.want_read = wr, !.want_write = ww,
                       !.edge = (IF wr /\ Readable(s) THEN {"r"} ELSE {})
                                \cup (IF ww /\ Writable(s) THEN {"w"} ELSE {})]

\* Mutant: the end is told whether or not the beginning was.
close_conn_always(c, x) ==
    [x EXCEPT !.s = [@ EXCEPT !.phase = "gone", !.edge = {}, !.sess = <<>>, !.net = <<>>,
                              !.rbuf = <<>>],
              !.capped = FALSE, !.ev = Append(@, Ev("Disconnect", c))]

\* close_conn: the core hears of the end only if it heard of the beginning.
close_conn(c, x) ==
    LET s == x.s IN
    [x EXCEPT !.s = [s EXCEPT !.phase = "gone", !.edge = {}, !.sess = <<>>, !.net = <<>>,
                              !.rbuf = <<>>],
              !.capped = FALSE,
              !.ev = IF s.proxy_pending \/ s.handshaking THEN @
                     ELSE Append(@, Ev("Disconnect", c))]

\* The session's accept: rustls takes the end of the stream for a slow peer.
accept(s) == IF s.net # <<>> /\ s.net[1].t = "hs" THEN "established"
             ELSE IF s.net = <<>> /\ ~s.rst /\ (s.eof => Rustls) THEN "negotiating"
             ELSE "failed"

\* try_handshake, on a connection that still negotiates.
try_handshake(c, x) ==
    LET s == x.s IN
    CASE accept(s) = "established" ->
           [x EXCEPT !.s = set_interest([s EXCEPT !.handshaking = FALSE, !.net = Tail(s.net)]),
                     !.ev = Append(@, Ev("Connect", c))]
      [] accept(s) = "negotiating" -> x
      [] OTHER -> close_conn(c, x)

\* One read of read_conn; f is what the loop has gathered so far.
ReadChunk(c, s, f, ch) ==
    LET buf == f.rbuf \o ch
        p   == IF f.pending THEN parse(buf) ELSE [r |-> "Header", used |-> 0]
        b   == SubSeq(buf, p.used + 1, Len(buf))
        cut == Len(Rest(b)) > s.recvq
    IN  IF f.close THEN f
        ELSE CASE p.r = "Need" -> [f EXCEPT !.rbuf = buf, !.close = Len(buf) > ProxyMax]
          [] p.r = "Invalid" -> [f EXCEPT !.rbuf = buf, !.close = TRUE]
          [] OTHER -> [f EXCEPT !.pending = FALSE, !.lines = @ \o Framed(c, b),
                                !.rbuf = IF cut THEN <<>> ELSE Rest(b),
                                !.early = IF cut THEN Append(@, Ev("TooLong", c)) ELSE @]

\* The rest of read_conn, once the handshake is over.  What is too long is told
\* during the loop, the connection and its lines after it.
Drain(c, x) ==
    LET s     == x.s
        avail == s.sess \o s.net
        turns == (MaxReadPerTurn + Chunk - 1) \div Chunk
        n     == Min({Len(avail), turns * Chunk})
        f0    == [rbuf |-> s.rbuf, pending |-> s.proxy_pending, close |-> FALSE,
                  lines |-> <<>>, early |-> <<>>]
        f     == FoldLeft(LAMBDA g, ch : ReadChunk(c, s, g, ch), f0, Chunks(avail, n))
        left  == SubSeq(avail, n + 1, Len(avail))
        full  == n >= MaxReadPerTurn
        s1    == [s EXCEPT !.rbuf = f.rbuf, !.proxy_pending = f.pending,
                           !.sess = IF s.kind = "tls" THEN left ELSE <<>>,
                           !.net  = IF s.kind = "tls" THEN <<>> ELSE left]
        x1    == [x EXCEPT !.s = s1, !.capped = full,
                           !.ev = @ \o f.early
                                  \o (IF s.proxy_pending /\ ~f.pending
                                      THEN <<Ev("Connect", c)>> ELSE <<>>)
                                  \o f.lines]
    IN  IF f.close \/ s.rst \/ (~full /\ s.eof) THEN close_conn(c, x1) ELSE x1

read_conn(c, x) ==
    LET h == IF x.s.handshaking THEN try_handshake(c, x) ELSE x
    IN  IF h.s.handshaking \/ h.s.phase = "gone" THEN h ELSE Drain(c, h)

\* flush_conn once the handshake is over.  A read that ends a pause is not asked
\* whether it was cut short.
Flush(c, x) ==
    LET s    == x.s
        q    == s.sout \o s.wbuf
        k    == Min({Len(q), WireMax - Len(s.wire)})
        left == SubSeq(q, k + 1, Len(q))
        held == IF s.kind = "tls" THEN Min({Len(left), SessionMax}) ELSE 0
        s1   == [s EXCEPT !.wire = @ \o SubSeq(q, 1, k),
                          !.sout = SubSeq(left, 1, held),
                          !.wbuf = SubSeq(left, held + 1, Len(left))]
        free == s1.paused /\ Len(s1.wbuf) <= s1.softsendq
        s2   == set_interest([s1 EXCEPT !.paused = @ /\ ~free])
        x2   == [x EXCEPT !.s = s2]
    IN  IF (s.rst /\ q # <<>>) \/ (s2.closing /\ s2.wbuf = <<>> /\ ~wants_write(s2))
        THEN close_conn(c, x2)
        ELSE IF free THEN [read_conn(c, x2) EXCEPT !.capped = x.capped] ELSE x2

flush_conn(c, x) ==
    LET h == IF x.s.handshaking THEN try_handshake(c, x) ELSE x
    IN  IF h.s.handshaking \/ h.s.phase = "gone" THEN h ELSE Flush(c, h)

\* What the core queued: a line that would exceed hardsendq ends the connection
\* and drops what is queued; more than softsendq pauses its reads.
Apply(s, m) ==
    CASE m.o = "close"  -> [s EXCEPT !.closing = TRUE]
      [] m.o = "limits" -> [s EXCEPT !.recvq = ClassLimits[s.kind].recvq,
                                     !.hardsendq = ClassLimits[s.kind].hardsendq,
                                     !.softsendq = ClassLimits[s.kind].softsendq]
      [] m.o = "line" /\ Len(s.wbuf) + 1 > s.hardsendq ->
           [s EXCEPT !.wbuf = <<>>, !.closing = TRUE, !.over = TRUE]
      [] OTHER -> [s EXCEPT !.wbuf = Append(@, m.n),
                            !.paused = @ \/ Len(s.wbuf) + 1 > s.softsendq]

-----------------------------------------------------------------------------
(* Accepting, and the reactor's loop.  A handler runs when the events of   *)
(* the one before it are sent.                                             *)

\* The bytes of a client, those in its frames included, and its lines' lengths.
Flat(script) == FoldLeft(LAMBDA b, a : IF a.t = "frame" THEN b \o a.pay ELSE Append(b, a),
                         <<>>, script)
LineIds(b)   == {b[i].id : i \in {j \in DOMAIN b : b[j].t = "b"}}
Lengths(b)   == [k \in 1 .. Max({0} \cup LineIds(b)) |-> Bytes(b, k)]

NewConn(kind, script) ==
    [kind |-> kind, lines |-> Lengths(Flat(script)), todo |-> script, eof |-> FALSE, rst |-> FALSE,
     net |-> <<>>, wire |-> <<>>, edge |-> {}, phase |-> "dialing", rbuf |-> <<>>,
     wbuf |-> <<>>, sess |-> <<>>, sout |-> <<>>, closing |-> FALSE, over |-> FALSE,
     paused |-> FALSE, want_read |-> TRUE, want_write |-> FALSE, handshaking |-> FALSE,
     proxy_pending |-> FALSE, recvq |-> Defaults.recvq, hardsendq |-> Defaults.hardsendq,
     softsendq |-> Defaults.softsendq, outq |-> <<>>, nout |-> 0,
     classed |-> FALSE, draining |-> FALSE, wdone |-> FALSE]

Init == /\ \E f \in [Conn -> Scripts] : st = [c \in Conn |-> NewConn(f[c].kind, f[c].script)]
        /\ pending_reads = {}
        /\ box = [t \in Conn \cup {Reactor} |-> <<>>]
        /\ evq = <<>> /\ sink = [c \in Conn |-> "none"] /\ got = [c \in Conn |-> <<>>]

Tell(t, ev) == box' = [box EXCEPT ![t] = @ \o ev]

\* The client acceptors hand over to the reactor; a direct client over its address's
\* rate is dropped before anything is kept of it.
Accept(c) ==
    /\ st[c].phase = "dialing" /\ st[c].kind \in ReactorKinds
    /\ \E to \in IF st[c].kind = "proxy" THEN {"handoff"} ELSE {"handoff", "refused"} :
         st' = [st EXCEPT ![c].phase = to]
    /\ UNCHANGED <<pending_reads, box, evq, sink, got>>

\* accept_loop, accept_ws: a thread for each server link, which is announced at once,
\* each TLS client of a proxy and each web client.
AcceptThread(c) ==
    /\ st[c].phase = "dialing" /\ st[c].kind \in ThreadKinds
    /\ \/ /\ st[c].kind = "link"
          /\ st' = [st EXCEPT ![c].phase = "live"] /\ Tell(c, <<Ev("Connect", c)>>)
       \/ /\ st[c].kind # "link"
          /\ st' = [st EXCEPT ![c].phase = "opening"] /\ UNCHANGED box
    /\ UNCHANGED <<pending_reads, evq, sink, got>>

\* The reactor adopts what the acceptors handed over.
Adopt(c) ==
    LET s == st[c]
        hs == s.kind = "tls"
        pr == s.kind = "proxy"
    IN
    /\ box[Reactor] = <<>> /\ s.phase = "handoff"
    /\ st' = [st EXCEPT ![c] = [s EXCEPT !.phase = "live", !.handshaking = hs,
                 !.proxy_pending = pr, !.want_write = hs,
                 !.edge = (IF Readable(s) THEN {"r"} ELSE {}) \cup (IF hs THEN {"w"} ELSE {})]]
    /\ Tell(Reactor, IF hs \/ pr THEN <<>> ELSE <<Ev("Connect", c)>>)
    /\ UNCHANGED <<pending_reads, evq, sink, got>>

\* What a handler leaves behind.
Handled(c, x, again) ==
    /\ st' = [st EXCEPT ![c] = x.s]
    /\ pending_reads' = again
    /\ Tell(Reactor, x.ev)
    /\ UNCHANGED <<evq, sink, got>>

\* Mutant: a read that was cut short is not taken up again.
OnReadable_once(c) ==
    /\ box[Reactor] = <<>> /\ "r" \in st[c].edge
    /\ Handled(c, read_conn(c, Idle([st[c] EXCEPT !.edge = @ \ {"r"}])), pending_reads)

OnReadable(c) ==
    LET x == read_conn(c, Idle([st[c] EXCEPT !.edge = @ \ {"r"}])) IN
    /\ box[Reactor] = <<>> /\ "r" \in st[c].edge
    /\ Handled(c, x, IF x.capped THEN pending_reads \cup {c} ELSE pending_reads)

OnWritable(c) ==
    /\ box[Reactor] = <<>> /\ "w" \in st[c].edge
    /\ Handled(c, flush_conn(c, Idle([st[c] EXCEPT !.edge = @ \ {"w"}])), pending_reads)

\* A read that was cut short is taken up again.
Redrain(c) ==
    LET x == IF st[c].phase = "live" THEN read_conn(c, Idle(st[c])) ELSE Idle(st[c]) IN
    /\ box[Reactor] = <<>> /\ c \in pending_reads
    /\ Handled(c, x, IF x.capped THEN pending_reads ELSE pending_reads \ {c})

\* The wake-up: everything queued is applied, then what it touched is flushed.
OnWake(c) ==
    LET s == FoldLeft(Apply, [st[c] EXCEPT !.outq = <<>>], st[c].outq)
        touched == \E i \in DOMAIN st[c].outq : st[c].outq[i].o # "limits"
    IN
    /\ box[Reactor] = <<>> /\ st[c].kind \in ReactorKinds /\ st[c].outq # <<>>
    /\ IF st[c].phase = "live"
       THEN Handled(c, IF touched THEN flush_conn(c, Idle(s)) ELSE Idle(s), pending_reads)
       ELSE Handled(c, Idle([st[c] EXCEPT !.outq = <<>>]), pending_reads)

\* The deadline of a handshake or of a PROXY header.
HandshakeDeadline(c) ==
    /\ box[Reactor] = <<>> /\ st[c].phase = "live"
    /\ st[c].handshaking \/ st[c].proxy_pending
    /\ Handled(c, close_conn(c, Idle(st[c])), pending_reads)

\* core.send: a full queue blocks the sender.
Send(t) ==
    LET e == Head(box[t]) IN
    /\ box[t] # <<>> /\ Len(evq) < CoreQueue
    /\ box' = [box EXCEPT ![t] = Tail(@)] /\ evq' = Append(evq, e)
    /\ got' = [got EXCEPT ![e.c] = Append(@, e)]
    /\ UNCHANGED <<st, pending_reads, sink>>

-----------------------------------------------------------------------------
(* A server link: a blocking reader and a blocking writer. *)

\* reader_loop: a line, or as much of one as max_line allows.  At the end of the
\* stream what is left of a line counts as a line.
ReaderLoop(c) ==
    LET s    == st[c]
        nl   == {i \in DOMAIN s.net : IsNl(s.net[i])}
        most == Defaults.recvq + 1
        take == Min({most} \cup nl \cup (IF s.eof THEN {Len(s.net)} ELSE {}))
        part == SubSeq(s.net, 1, take)
        line == [e |-> "Line", c |-> c, id |-> part[1].id, len |-> Bytes(part, part[1].id)]
    IN
    /\ s.kind = "link" /\ s.phase = "live" /\ box[c] = <<>>
    /\ \/ /\ s.rst \/ (s.eof /\ s.net = <<>>)
          /\ st' = [st EXCEPT ![c].phase = "gone"] /\ Tell(c, <<Ev("Disconnect", c)>>)
       \/ /\ ~s.rst /\ take \in 1 .. Len(s.net)
          /\ st' = [st EXCEPT ![c].net = SubSeq(@, take + 1, Len(@))]
          /\ Tell(c, IF take = most THEN <<Ev("TooLong", c)>>
                     ELSE IF line.len > 0 THEN <<line>> ELSE <<>>)
    /\ UNCHANGED <<pending_reads, evq, sink, got>>

\* Mutant: the writer ends and leaves the socket open.
WriterLoop_open(c) ==
    LET s == st[c]
        m == Head(s.outq)
    IN
    /\ s.kind = "link" /\ s.outq # <<>> /\ ~s.wdone
    /\ IF s.rst \/ m.o = "close"
       THEN st' = [st EXCEPT ![c].wdone = TRUE, ![c].closing = (m.o = "close")]
       ELSE /\ Len(s.wire) < WireMax
            /\ st' = [st EXCEPT ![c].outq = Tail(@), ![c].wire = Append(@, m.n)]
    /\ UNCHANGED <<pending_reads, box, evq, sink, got>>

\* writer_loop: ends, and shuts the socket, when the core lets go of it.
WriterLoop(c) ==
    LET s == st[c]
        m == Head(s.outq)
    IN
    /\ s.kind = "link" /\ s.outq # <<>> /\ ~s.wdone
    /\ IF s.rst \/ m.o = "close"
       THEN st' = [st EXCEPT ![c].wdone = TRUE, ![c].eof = TRUE,
                             ![c].closing = (m.o = "close")]
       ELSE /\ Len(s.wire) < WireMax
            /\ st' = [st EXCEPT ![c].outq = Tail(@), ![c].wire = Append(@, m.n)]
    /\ UNCHANGED <<pending_reads, box, evq, sink, got>>

-----------------------------------------------------------------------------
(* One thread per connection: TLS behind a proxy, and web clients. *)

\* The HTTP upgrade.  One that is refused, for its headers, its origin, its protocol
\* or because it looks like no browser's, is a broken one.
do_handshake(n) == IF n = <<>> THEN "Need" ELSE IF n[1].t = "hs" THEN "Ok" ELSE "Refused"

\* A thread's connection opens with result r, n being what follows the header.
Open(c, r, n) ==
    /\ \/ /\ r = "Ok"
          /\ st' = [st EXCEPT ![c].phase = "live", ![c].net = Tail(n)]
          /\ Tell(c, <<Ev("Connect", c)>>)
       \/ /\ r = "Refused" \/ st[c].eof \/ st[c].rst
          /\ st' = [st EXCEPT ![c].phase = "gone"] /\ UNCHANGED box
    /\ UNCHANGED <<pending_reads, evq, sink, got>>

WsOpen(c) ==
    /\ st[c].phase = "opening" /\ st[c].kind = "ws"
    /\ Open(c, do_handshake(st[c].net), st[c].net)

\* The PROXY header, read byte by byte, then the TLS handshake.
TlsOpen(c) ==
    LET p == parse(st[c].net)
        n == SubSeq(st[c].net, p.used + 1, Len(st[c].net))
    IN
    /\ st[c].phase = "opening" /\ st[c].kind = "stls"
    /\ Open(c, CASE p.r = "Need" -> IF Len(n) > ProxyMax THEN "Refused" ELSE "Need"
                 [] p.r = "Header" -> do_handshake(n)
                 [] OTHER -> "Refused", n)

\* The read timeouts of the header and of the handshake.
OpenTimeout(c) ==
    /\ st[c].phase = "opening"
    /\ st' = [st EXCEPT ![c].phase = "gone"]
    /\ UNCHANGED <<pending_reads, box, evq, sink, got>>

\* deliver: every piece of a message is a line, the last one too; one that is too
\* long is passed over.
IfFits(ls, l) == IF l.len <= WsMax THEN Append(ls, l) ELSE ls
deliver(c, msg) ==
    LET r  == Rest(msg)
        ls == Framed(c, msg)
        l  == [e |-> "Line", c |-> c, id |-> r[1].id, len |-> Len(r)]
    IN  FoldLeft(IfFits, <<>>, IF r = <<>> THEN ls ELSE Append(ls, l))

\* Whether it is a frame, and one that a client may send: masked, not too large.
parse_frame(fr) == fr.t = "frame" /\ fr.op # "bad"

\* io_loop: one frame; f.rbuf is the message that its fragments are put into.
OnFrame(c, f, fr) ==
    LET msg == IF fr.op = "cont" THEN f.rbuf \o fr.pay ELSE fr.pay IN
    CASE f.stop \/ ~parse_frame(fr) \/ fr.op = "close" -> [f EXCEPT !.stop = TRUE]
      [] fr.op = "ping" -> f
      [] fr.op = "cont" /\ Len(msg) > WsMax -> [f EXCEPT !.stop = TRUE]
      [] OTHER -> [f EXCEPT !.rbuf = IF fr.fin THEN <<>> ELSE msg,
                            !.ev = IF fr.fin THEN @ \o deliver(c, msg) ELSE @]

\* tls_conn: one read.
OnBytes(c, f, ch) ==
    LET buf == f.rbuf \o ch
        cut == Len(Rest(buf)) > Defaults.recvq
    IN  [f EXCEPT !.rbuf = IF cut THEN <<>> ELSE Rest(buf),
                  !.ev = @ \o Framed(c, buf) \o (IF cut THEN <<Ev("TooLong", c)>> ELSE <<>>)]

\* The reading half of tls_conn and of io_loop.
ThreadRead(c) ==
    LET s  == st[c]
        n  == Min({Chunk, Len(s.net)})
        f0 == [rbuf |-> s.rbuf, ev |-> <<>>, stop |-> FALSE]
        f  == IF s.kind = "ws"
              THEN FoldLeft(LAMBDA g, fr : OnFrame(c, g, fr), f0, SubSeq(s.net, 1, n))
              ELSE OnBytes(c, f0, SubSeq(s.net, 1, n))
        end == f.stop \/ s.rst \/ s.net = <<>>
    IN
    /\ s.kind \in {"stls", "ws"} /\ s.phase = "live" /\ box[c] = <<>> /\ ~s.draining
    /\ s.net # <<>> \/ s.eof \/ s.rst
    /\ st' = [st EXCEPT ![c] = [s EXCEPT !.net = SubSeq(s.net, n + 1, Len(s.net)),
                                         !.rbuf = f.rbuf, !.draining = ~end,
                                         !.phase = IF end THEN "gone" ELSE s.phase]]
    /\ Tell(c, f.ev \o (IF end THEN <<Ev("Disconnect", c)>> ELSE <<>>))
    /\ UNCHANGED <<pending_reads, evq, sink, got>>

\* The writing half: everything queued is written before the next read.  A TLS
\* thread that the core let go of ends without a word.
ThreadWrite(c) ==
    LET s == st[c]
        m == Head(s.outq)
        bye == IF s.kind = "ws" \/ m.o # "close" THEN <<Ev("Disconnect", c)>> ELSE <<>>
    IN
    /\ s.kind \in {"stls", "ws"} /\ s.phase = "live" /\ box[c] = <<>>
    /\ \/ /\ s.draining /\ s.outq = <<>>
          /\ st' = [st EXCEPT ![c].draining = FALSE] /\ UNCHANGED box
       \/ /\ s.outq # <<>> /\ (s.rst \/ m.o = "close")
          /\ st' = [st EXCEPT ![c].phase = "gone", ![c].closing = (m.o = "close")]
          /\ Tell(c, bye)
       \/ /\ s.outq # <<>> /\ ~s.rst /\ m.o = "line" /\ Len(s.wire) < WireMax
          /\ st' = [st EXCEPT ![c].outq = Tail(@), ![c].wire = Append(@, m.n),
                              ![c].draining = TRUE]
          /\ UNCHANGED box
    /\ UNCHANGED <<pending_reads, evq, sink, got>>

\* A web client that was silent for too long.
WsIdle(c) ==
    /\ st[c].kind = "ws" /\ st[c].phase = "live" /\ box[c] = <<>> /\ ~st[c].draining
    /\ st[c].net = <<>>
    /\ st' = [st EXCEPT ![c].phase = "gone"]
    /\ Tell(c, <<Ev("Disconnect", c)>>)
    /\ UNCHANGED <<pending_reads, evq, sink, got>>

-----------------------------------------------------------------------------
(* The core and the clients. *)

\* An OutSink's line, or its end; a thread that is gone listens no more.
Deaf(s)     == s.wdone \/ (s.kind \in {"stls", "ws"} /\ s.phase = "gone")
Queue(s, m) == IF Deaf(s) THEN s ELSE [s EXCEPT !.outq = Append(@, m)]

CoreTake ==
    LET e == Head(evq)
        ends == e.e = "Disconnect" /\ sink[e.c] = "held"
    IN
    /\ evq # <<>> /\ evq' = Tail(evq)
    /\ sink' = [sink EXCEPT ![e.c] = IF e.e = "Connect" THEN "held"
                                     ELSE IF ends THEN "dropped" ELSE @]
    /\ st' = IF ends THEN [st EXCEPT ![e.c] = Queue(st[e.c], [o |-> "close", n |-> 0])] ELSE st
    /\ UNCHANGED <<pending_reads, box, got>>

CoreLine(c) ==
    LET n == st[c].nout + 1 IN
    /\ sink[c] = "held" /\ n <= MaxOut
    /\ st' = [st EXCEPT ![c] = [Queue(st[c], [o |-> "line", n |-> n]) EXCEPT !.nout = n]]
    /\ UNCHANGED <<pending_reads, box, evq, sink, got>>

\* set_limits, when the connection gets its class; threads pay no heed.
CoreLimits(c) ==
    /\ sink[c] = "held" /\ st[c].kind \in ReactorKinds /\ ~st[c].classed
    /\ st' = [st EXCEPT ![c] = [Queue(st[c], [o |-> "limits", n |-> 0]) EXCEPT !.classed = TRUE]]
    /\ UNCHANGED <<pending_reads, box, evq, sink, got>>

\* The core removes the user: its OutSink is dropped.
CoreDrop(c) ==
    /\ sink[c] = "held"
    /\ sink' = [sink EXCEPT ![c] = "dropped"]
    /\ st' = [st EXCEPT ![c] = Queue(st[c], [o |-> "close", n |-> 0])]
    /\ UNCHANGED <<pending_reads, box, evq, got>>

\* An edge is raised only for what the reactor waits for.
Raise(s, what) == IF s.kind \in ReactorKinds /\ s.phase = "live"
                  THEN [s EXCEPT !.edge = @ \cup what] ELSE s
OpenFor(s)     == s.phase \notin {"gone", "refused"} /\ ~s.eof /\ ~s.rst
ReadEdge(s)    == IF s.want_read THEN {"r"} ELSE {}

PeerSend(c) ==
    LET s == st[c] IN
    /\ OpenFor(s) /\ s.todo # <<>> /\ Len(s.net) < NetMax
    /\ st' = [st EXCEPT ![c] = Raise([s EXCEPT !.todo = Tail(s.todo),
                                               !.net = Append(s.net, Head(s.todo))],
                                     ReadEdge(s))]
    /\ UNCHANGED <<pending_reads, box, evq, sink, got>>

\* The client closes its side, or its connection breaks with what was in flight.
PeerClose(c) ==
    LET s == st[c] IN
    /\ OpenFor(s)
    /\ \/ st' = [st EXCEPT ![c] = Raise([s EXCEPT !.eof = TRUE], ReadEdge(s))]
       \/ st' = [st EXCEPT ![c] = Raise([s EXCEPT !.rst = TRUE, !.net = <<>>, !.wire = <<>>],
                                        ReadEdge(s) \cup (IF s.want_write THEN {"w"} ELSE {}))]
    /\ UNCHANGED <<pending_reads, box, evq, sink, got>>

PeerRead(c) ==
    LET s == st[c] IN
    /\ s.wire # <<>>
    /\ st' = [st EXCEPT ![c] = Raise([s EXCEPT !.wire = Tail(s.wire)],
                     IF s.want_write /\ Len(s.wire) = WireMax THEN {"w"} ELSE {})]
    /\ UNCHANGED <<pending_reads, box, evq, sink, got>>

\* The steps of each thread.
ReactorStep ==
    \/ Send(Reactor)
    \/ \E c \in Conn : \/ Adopt(c) \/ OnReadable(c) \/ OnWritable(c) \/ Redrain(c)
                        \/ OnWake(c) \/ HandshakeDeadline(c)
ThreadStep(c) ==
    \/ Accept(c) \/ AcceptThread(c) \/ Send(c) \/ ReaderLoop(c) \/ TlsOpen(c) \/ WsOpen(c)
    \/ OpenTimeout(c) \/ ThreadRead(c) \/ ThreadWrite(c)
CoreStep(c) == CoreLine(c) \/ CoreLimits(c) \/ CoreDrop(c)
PeerStep(c) == PeerSend(c) \/ PeerClose(c)

Next ==
    \/ ReactorStep
    \/ CoreTake
    \/ \E c \in Conn : \/ ThreadStep(c) \/ WriterLoop(c) \/ WsIdle(c)
                        \/ CoreStep(c) \/ PeerStep(c) \/ PeerRead(c)

\* A thread that can run does run, a deadline passes, and clients read what they
\* are sent.  For the reactor, weak fairness is written out with its enabling
\* condition: it has an event to send, or one of its handlers has work.
ReactorReady ==
    IF box[Reactor] # <<>> THEN Len(evq) < CoreQueue
    ELSE \E c \in Conn : \/ st[c].phase = "handoff" \/ st[c].edge # {}
                         \/ c \in pending_reads
                         \/ st[c].phase = "live" /\ (st[c].handshaking \/ st[c].proxy_pending)
                         \/ st[c].kind \in ReactorKinds /\ st[c].outq # <<>>

Fairness ==
    /\ ([]<>~ReactorReady) \/ ([]<><<ReactorStep>>_vars)
    /\ WF_vars(CoreTake)
    /\ \A c \in Conn : /\ WF_vars(ThreadStep(c)) /\ WF_vars(WriterLoop(c))
                       /\ WF_vars(PeerRead(c))

Spec == Init /\ [][Next]_vars /\ Fairness

-----------------------------------------------------------------------------
(* Properties. *)

LimitOf(s) == CASE s.kind = "ws" -> WsMax
                [] s.kind = "link" -> Defaults.recvq - 1
                [] s.kind = "stls" -> Defaults.recvq
                [] OTHER -> Min({Defaults.recvq, ClassLimits[s.kind].recvq})

Service == INSTANCE LineService WITH
    log       <- got,
    sentlines <- [c \in Conn |-> st[c].lines],
    limit     <- [c \in Conn |-> LimitOf(st[c])],
    cuttail   <- [c \in Conn |-> st[c].kind = "link"]

\* The engine implements the line service: whatever the reads, the pauses, the
\* handshakes and the ends do to one another (read_conn, flush_conn, try_handshake,
\* close_conn, reader_loop, tls_conn, io_loop), the core is told of a connection
\* once, gets each of its lines once, whole and in order, and hears of its end last.
ServesLines == Service!Spec

\* The core's last lines are not lost with the connection: one that the core let go
\* of is closed only when all its output is out of the process (flush_conn's wait
\* for wbuf and for the TLS session, the writers' drain before they end), unless it
\* exceeded hardsendq or the client went first.
Unsent(s) == \/ s.wbuf # <<>> \/ s.sout # <<>>
             \/ \E i \in DOMAIN s.outq : s.outq[i].o = "line"

GoodbyeDelivered ==
    \A c \in Conn : LET s == st[c] IN
        (s.phase = "gone" /\ s.closing /\ ~s.over /\ ~s.rst /\ (s.kind = "link" \/ ~s.eof))
            => ~Unsent(s)

\* No line stalls: a line that has arrived in full does not wait for ever in the
\* kernel or in the TLS session, through back pressure and reads cut short, while
\* its client reads what it is sent (pending_reads, the catch-up read of flush_conn).
Live(c)    == st[c].phase = "live"
Done(c)    == st[c].phase \in {"gone", "refused"}
Waiting(c) == \E b \in {Flat(st[c].sess), Flat(st[c].net)} : \E i \in DOMAIN b : IsNl(b[i])

NoLineStalls == \A c \in Conn : []<>(~(Live(c) /\ Waiting(c)))

\* Nothing lingers: an accepted connection is announced or closed, although nobody
\* but the deadline watches one that has no user yet (pending_hs, the read timeouts),
\* and one that the core let go of is closed, its writer's end included.
Lingering(c) ==
    \/ ~Done(c) /\ got[c] = <<>>
    \/ sink[c] = "dropped" /\ (~Done(c) \/ (st[c].kind = "link" /\ ~st[c].wdone))

NothingLingers == \A c \in Conn : []<>(~Lingering(c))
=============================================================================
