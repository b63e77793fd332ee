------------------------ MODULE SocketEngine_proofs ------------------------
(***************************************************************************)
(* Proofs about SocketEngine, for any connections, scripts, sizes and      *)
(* limits: the core's last lines leave the process before the connection.  *)
(*                                                                         *)
(* What the core has let go of is told nothing more, so a close is the     *)
(* last thing in an output queue; a connection that the core has not heard *)
(* of is told nothing; and the core hears of each connection once.         *)
(***************************************************************************)
EXTENDS SocketEngine, FoldFacts

-----------------------------------------------------------------------------
(* The inductive invariant                                                 *)

ConnField == {"kind", "lines", "todo", "eof", "rst", "net", "wire", "edge", "phase", "rbuf",
              "wbuf", "sess", "sout", "closing", "over", "paused", "want_read", "want_write",
              "handshaking", "proxy_pending", "recvq", "hardsendq", "softsendq", "outq",
              "nout", "classed", "draining", "wdone"}

\* What clients send, and what the frames among it carry.
Atoms == UNION {Range(x.script) : x \in Scripts}
Bits  == Atoms \cup UNION {Range(a.pay) : a \in {b \in Atoms : b.t = "frame"}}

Msg == [o : {"close", "limits", "line"}, n : Nat]

Typed(s) ==
    /\ DOMAIN s = ConnField /\ s.kind \in ReactorKinds \cup ThreadKinds
    /\ s.todo \in Seq(Atoms) /\ s.net \in Seq(Atoms) /\ s.sess \in Seq(Atoms)
    /\ s.rbuf \in Seq(Bits) /\ s.outq \in Seq(Msg) /\ s.nout \in Nat
    /\ \A f \in {"closing", "over", "rst", "eof", "handshaking", "proxy_pending", "wdone"} :
          s[f] \in BOOLEAN

\* The core has not been told of the connection.
Fresh(s) == \/ s.phase \in {"dialing", "handoff", "opening", "refused"}
            \/ s.handshaking \/ s.proxy_pending

\* Only the reactor's connections have edges and are handed over, and one opening is
\* enough.
Served(s) == /\ s.edge # {} => s.phase = "live"
             /\ s.edge # {} \/ s.phase = "handoff" \/ s.handshaking \/ s.proxy_pending
                   => s.kind \in ReactorKinds
             /\ ~(s.handshaking /\ s.proxy_pending)

\* k is what the core's OutSink is.  The core tells a connection something only
\* between its beginning and its end, and the end is the last thing it tells.
Ordered(s, k) ==
    /\ k \in {"none", "held", "dropped"}
    /\ Fresh(s) => k = "none"
    /\ k = "none" => s.outq = <<>> /\ ~s.closing
    /\ \A i \in DOMAIN s.outq : s.outq[i].o = "close" => k = "dropped" /\ i = Len(s.outq)

\* What the reactor closes at the core's wish has nothing left to send.
ReactorEnds(s, k) ==
    s.kind \in ReactorKinds /\ s.closing /\ ~s.over =>
        /\ k = "dropped" /\ s.outq = <<>>
        /\ s.phase = "gone" /\ ~s.rst /\ ~s.eof => s.wbuf = <<>> /\ s.sout = <<>>

\* A thread hears of the end after it has written everything before it.
ThreadEnds(s) ==
    s.kind \in ThreadKinds =>
        /\ s.wbuf = <<>> /\ s.sout = <<>>
        /\ s.closing => Deaf(s) /\ \A i \in DOMAIN s.outq : s.outq[i].o # "line"

Sound(s, k) == Typed(s) /\ Served(s) /\ Ordered(s, k) /\ ReactorEnds(s, k) /\ ThreadEnds(s)

\* e announces c.
Greets(e, c) == e.e = "Connect" /\ e.c = c

\* A queue of events about connections.
Events(q) == \E E : q \in Seq(E) /\ \A e \in E : e.c \in Conn

\* The core's queue q and the threads' b announce a connection at most once.
Once(q, b) ==
    /\ DOMAIN b = Conn \cup {Reactor} /\ Events(q) /\ \A t \in DOMAIN b : Events(b[t])
    /\ \A c \in Conn : \A i, j \in DOMAIN q : Greets(q[i], c) /\ Greets(q[j], c) => i = j
    /\ \A c \in Conn : \A t, u \in DOMAIN b : \A i \in DOMAIN b[t], j \in DOMAIN b[u] :
          Greets(b[t][i], c) /\ Greets(b[u][j], c) => t = u /\ i = j
    /\ \A c \in Conn : \A i \in DOMAIN q : \A t \in DOMAIN b : \A j \in DOMAIN b[t] :
          ~(Greets(q[i], c) /\ Greets(b[t][j], c))

\* Nothing under way announces c.
Unheard(q, b, c) == /\ \A i \in DOMAIN q : ~Greets(q[i], c)
                    /\ \A t \in DOMAIN b : \A i \in DOMAIN b[t] : ~Greets(b[t][i], c)

\* The state: connections S, reads cut short R, threads' events B, the core's queue Q
\* and its sinks K.
Whole(S, R, B, Q, K) ==
    /\ DOMAIN S = Conn /\ DOMAIN K = Conn
    /\ \A c \in Conn : Sound(S[c], K[c])
    /\ \A c \in R : c \in Conn /\ S[c].kind \in ReactorKinds
    /\ Once(Q, B)
    /\ \A c \in Conn : Unheard(Q, B, c) \/ (K[c] = "none" /\ ~Fresh(S[c]))

IInv == Whole(st, pending_reads, box, evq, sink)

-----------------------------------------------------------------------------
(* Parts of sequences                                                      *)

\* The greatest of some numbers up to n.
LEMMA MaxUpTo ==
  ASSUME NEW n \in Nat, NEW s \in SUBSET (0 .. n), s # {}
  PROVE  Max(s) \in s
<1> DEFINE T == {n - x : x \in s}
<1>0. \A x \in s : n - x \in Nat
  OBVIOUS
<1>1. T \in SUBSET Nat /\ T # {}
  BY <1>0, Zenon
<1>2. PICK t \in T : \A m \in T : t <= m
  BY <1>1, LeastNat
<1>3. PICK x \in s : t = n - x
  OBVIOUS
<1>4. \A y \in s : x >= y
  <2> SUFFICES ASSUME NEW y \in s PROVE x >= y
    OBVIOUS
  <2>1. n - y \in T
    OBVIOUS
  <2>2. n - x <= n - y
    BY <1>2, <1>3, <2>1
  <2>3. x \in Int /\ y \in Int
    OBVIOUS
  <2> QED BY <2>2, <2>3
<1>5. \E z \in s : \A y \in s : z >= y
  BY <1>4
<1> HIDE DEF T
<1> QED BY <1>5 DEF Max

\* A part of a sequence is a sequence of the same things.
LEMMA PartTyped ==
  ASSUME NEW E, NEW s \in Seq(E), NEW a \in Nat, a >= 1, NEW b \in Int, b <= Len(s)
  PROVE  SubSeq(s, a, b) \in Seq(E)
<1>1. Len(s) \in Nat
  OBVIOUS
<1>2. CASE a <= b
  BY <1>1, <1>2
<1>3. CASE a > b
  <2>1. SubSeq(s, a, b) = <<>>
    BY <1>1, <1>3
  <2> QED BY <2>1
<1> QED BY <1>2, <1>3

\* What follows the last newline.
LEMMA RestTyped ==
  ASSUME NEW E, NEW buf \in Seq(E)
  PROVE  Rest(buf) \in Seq(E)
<1> DEFINE P == {0} \cup {i \in DOMAIN buf : IsNl(buf[i])}
           e == Max(P)
           n == Len(buf)
<1>1. n \in Nat /\ P \in SUBSET (0 .. n) /\ P # {}
  OBVIOUS
<1>2. e \in P
  <2> HIDE DEF P, n
  <2> QED BY <1>1, MaxUpTo
<1>3. e \in Nat /\ e + 1 \in Nat /\ e + 1 >= 1
  <2> HIDE DEF P, e
  <2> QED BY <1>1, <1>2
<1>4. Rest(buf) = SubSeq(buf, e + 1, n)
  BY DEF Rest
<1>5. n \in Int /\ n <= Len(buf)
  BY <1>1
<1> HIDE DEF e, n
<1> QED BY <1>3, <1>4, <1>5, PartTyped

\* A header uses some bytes.
LEMMA ParseUses ==
  ASSUME NEW E, NEW buf \in Seq(E)
  PROVE  parse(buf).used \in Nat
<1> DEFINE P == {Len(buf) + 1} \cup {i \in DOMAIN buf : buf[i].t # "h"}
           p == Min(P)
<1>1. P \in SUBSET Nat /\ P # {}
  OBVIOUS
<1>2. p \in P
  <2> HIDE DEF P
  <2> QED BY <1>1, MinIn
<1>3. p \in Nat
  <2> HIDE DEF P, p
  <2> QED BY <1>1, <1>2
<1> HIDE DEF P
<1>4. parse(buf).used \in {0, p}
  BY Zenon DEF parse, P
<1> QED BY <1>3, <1>4

\* What follows the header.
LEMMA AfterHeader ==
  ASSUME NEW E, NEW buf \in Seq(E), NEW u \in Nat
  PROVE  SubSeq(buf, u + 1, Len(buf)) \in Seq(E)
<1>1. u + 1 \in Nat /\ u + 1 >= 1 /\ Len(buf) \in Int /\ Len(buf) <= Len(buf)
  OBVIOUS
<1> QED BY <1>1, PartTyped

-----------------------------------------------------------------------------
(* Events that announce nobody                                             *)

\* Events of c, none of which is its beginning.
Quiet(q, c) == \E E : q \in Seq(E) /\ \A e \in E : e.c = c /\ e.e # "Connect"

\* No event at all.
LEMMA QuietNone ==
  ASSUME NEW c
  PROVE  Quiet(<<>>, c)
<1> DEFINE E == {}
<1>1. <<>> \in Seq(E) /\ \A e \in E : e.c = c /\ e.e # "Connect"
  OBVIOUS
<1> HIDE DEF E
<1> QED BY <1>1 DEF Quiet

\* One event more.
LEMMA QuietOne ==
  ASSUME NEW q, NEW c, Quiet(q, c), NEW e, e.c = c, e.e # "Connect"
  PROVE  Quiet(Append(q, e), c)
<1>1. PICK E : q \in Seq(E) /\ \A d \in E : d.c = c /\ d.e # "Connect"
  BY DEF Quiet
<1> DEFINE F == E \cup {e}
<1>2. q \in Seq(F)
  BY <1>1
<1>3. Append(q, e) \in Seq(F)
  BY <1>2
<1>4. \A d \in F : d.c = c /\ d.e # "Connect"
  BY <1>1
<1> HIDE DEF F
<1> QED BY <1>3, <1>4 DEF Quiet

\* Events after events.
LEMMA QuietMore ==
  ASSUME NEW q, NEW r, NEW c, Quiet(q, c), Quiet(r, c)
  PROVE  Quiet(q \o r, c)
<1>1. PICK E : q \in Seq(E) /\ \A d \in E : d.c = c /\ d.e # "Connect"
  BY DEF Quiet
<1>2. PICK F : r \in Seq(F) /\ \A d \in F : d.c = c /\ d.e # "Connect"
  BY DEF Quiet
<1> DEFINE G == E \cup F
<1>3. q \in Seq(G) /\ r \in Seq(G)
  BY <1>1, <1>2
<1>4. q \o r \in Seq(G)
  BY <1>3
<1>5. \A d \in G : d.c = c /\ d.e # "Connect"
  BY <1>1, <1>2
<1> HIDE DEF G
<1> QED BY <1>4, <1>5 DEF Quiet

-----------------------------------------------------------------------------
(* The folds of the handlers.  Their values form no set, so the fold's     *)
(* function is built here, size by size.                                   *)

SockStep(a, T, x) ==
    IF a.kind = "bytes" THEN AtByte(a.c, a.buf, T, a.buf[x])
    ELSE IF a.kind = "fits" THEN IfFits(T, a.buf[x])
    ELSE IF a.kind = "read" THEN ReadChunk(a.c, a.s, T, a.buf[x])
    ELSE IF a.kind = "frames" THEN OnFrame(a.c, T, a.buf[x])
    ELSE Apply(T, a.buf[x])

StepEquation(n, base, a, it) == it = [s \in SUBSET (1 .. n) |->
    IF s = {} THEN base ELSE SockStep(a, it[s \ {Max(s)}], Max(s))]

\* The equation of such a fold has a solution.
LEMMA StepFoldExists ==
  ASSUME NEW n \in Nat, NEW base, NEW a
  PROVE  \E it : StepEquation(n, base, a, it)
<1> DEFINE D == 1 .. n
           Grown(it) == [s \in SUBSET D |->
               IF s = {} THEN base ELSE SockStep(a, it[s \ {Max(s)}], Max(s))]
           Sol(it, k) == \A s \in SUBSET D : Cardinality(s) <= k =>
               it[s] = IF s = {} THEN base ELSE SockStep(a, it[s \ {Max(s)}], Max(s))
           N == {k \in Nat : \E it : Sol(it, k)}
<1>f. IsFiniteSet(D)
  BY FS_Interval
<1>m. \A s \in SUBSET D : s # {} => Max(s) \in s
  BY MaxIn
<1> HIDE DEF D
<1>0. \A s \in SUBSET D : IsFiniteSet(s) /\ Cardinality(s) \in Nat
  BY <1>f, FS_Subset, FS_CardinalityType
<1>1. 0 \in N
  <2> DEFINE it == [s \in SUBSET D |-> base]
  <2>1. \A s \in SUBSET D : Cardinality(s) <= 0 => s = {}
    BY <1>0, FS_EmptySet
  <2>2. Sol(it, 0)
    BY <2>1
  <2> QED BY <2>2
<1>2. ASSUME NEW k \in N PROVE k + 1 \in N
  <2>0. k \in Nat
    OBVIOUS
  <2>1. PICK it : Sol(it, k)
    OBVIOUS
  <2> DEFINE jt == Grown(it)
  <2>3. \A s \in SUBSET D : Cardinality(s) <= k => jt[s] = it[s]
    BY <2>1
  <2>4. ASSUME NEW s \in SUBSET D, Cardinality(s) <= k + 1, s # {}
        PROVE  jt[s \ {Max(s)}] = it[s \ {Max(s)}]
    <3>1. Max(s) \in s
      BY <1>m, <2>4
    <3>2. Cardinality(s \ {Max(s)}) = Cardinality(s) - 1
      BY <1>0, <3>1, FS_RemoveElement
    <3>3. Cardinality(s \ {Max(s)}) <= k
      BY <1>0, <2>0, <2>4, <3>2
    <3> QED BY <2>3, <3>3
  <2>5. Sol(jt, k + 1)
    <3> SUFFICES ASSUME NEW s \in SUBSET D, Cardinality(s) <= k + 1
                 PROVE  jt[s] = IF s = {} THEN base ELSE SockStep(a, jt[s \ {Max(s)}], Max(s))
      OBVIOUS
    <3>1. jt[s] = IF s = {} THEN base ELSE SockStep(a, it[s \ {Max(s)}], Max(s))
      OBVIOUS
    <3> HIDE DEF jt
    <3> QED BY <2>4, <3>1
  <2> HIDE DEF jt, Sol
  <2> QED BY <2>0, <2>5
<1>3. Cardinality(D) \in N
  <2> HIDE DEF N
  <2>1. N \in SUBSET Nat
    BY DEF N
  <2>2. Cardinality(D) \in Nat
    BY <1>f, FS_CardinalityType
  <2> QED BY <1>1, <1>2, <2>1, <2>2, NatInd
<1>4. PICK it : Sol(it, Cardinality(D))
  BY <1>3
<1>5. \A s \in SUBSET D : Cardinality(s) <= Cardinality(D)
  BY <1>f, FS_Subset
<1>6. \A s \in SUBSET D : it[s] = Grown(it)[s]
  BY <1>4, <1>5
<1>7. \E jt : StepEquation(n, base, a, jt)
  <2> DEFINE jt == Grown(it)
  <2>1. \A s \in SUBSET D : s \ {Max(s)} \in SUBSET D
    OBVIOUS
  <2>2. jt = [s \in SUBSET D |-> IF s = {} THEN base ELSE SockStep(a, jt[s \ {Max(s)}], Max(s))]
    <3>1. \A s \in SUBSET D : jt[s \ {Max(s)}] = it[s \ {Max(s)}]
      BY <1>6, <2>1
    <3>2. jt = [s \in SUBSET D |-> IF s = {} THEN base ELSE SockStep(a, it[s \ {Max(s)}], Max(s))]
      OBVIOUS
    <3> HIDE DEF jt
    <3> QED BY <3>1, <3>2
  <2> HIDE DEF jt
  <2>3. StepEquation(n, base, a, jt)
    BY <2>2 DEF StepEquation, D
  <2> QED BY <2>3
<1> QED BY <1>7

\* The value of a fold: base at the start, one step for every position.
Steps(n, base, a, it) ==
    /\ it[{}] = base
    /\ \A d \in SUBSET (1 .. n) : d # {} => it[d] = SockStep(a, it[d \ {Max(d)}], Max(d))

BytesEquation(c, buf, it) == it = [d \in SUBSET DOMAIN buf |->
    IF d = {} THEN <<>> ELSE AtByte(c, buf, it[d \ {Max(d)}], buf[Max(d)])]

\* The lines of a buffer are such a fold.
LEMMA FramedSteps ==
  ASSUME NEW c, NEW E, NEW buf \in Seq(E), NEW a, a = [kind |-> "bytes", c |-> c, buf |-> buf]
  PROVE  \E it : Steps(Len(buf), <<>>, a, it) /\ Framed(c, buf) = it[1 .. Len(buf)]
<1> DEFINE n == Len(buf)
<1>0. n \in Nat /\ DOMAIN buf = 1 .. n
  OBVIOUS
<1>1. \A T, x : SockStep(a, T, x) = AtByte(c, buf, T, buf[x])
  BY DEF SockStep
<1> HIDE DEF n
<1>2. PICK it : StepEquation(n, <<>>, a, it)
  BY <1>0, StepFoldExists
<1>3. BytesEquation(c, buf, it)
  BY <1>0, <1>1, <1>2 DEF StepEquation, BytesEquation
<1>4. PICK jt : jt = CHOOSE k : BytesEquation(c, buf, k)
  OBVIOUS
<1>5. BytesEquation(c, buf, jt)
  BY <1>3, <1>4
<1>6. Framed(c, buf) = jt[DOMAIN buf]
  BY <1>4, Zenon DEF Framed, FoldLeft, MapThenFoldSet, BytesEquation
<1>7. Steps(n, <<>>, a, jt)
  BY <1>0, <1>1, <1>5 DEF Steps, BytesEquation
<1> QED BY <1>0, <1>6, <1>7 DEF n

FitsEquation(buf, it) == it = [d \in SUBSET DOMAIN buf |->
    IF d = {} THEN <<>> ELSE IfFits(it[d \ {Max(d)}], buf[Max(d)])]

\* So are the lines of a message that fit.
LEMMA FitsSteps ==
  ASSUME NEW E, NEW buf \in Seq(E), NEW a, a = [kind |-> "fits", buf |-> buf]
  PROVE  \E it : Steps(Len(buf), <<>>, a, it) /\ FoldLeft(IfFits, <<>>, buf) = it[1 .. Len(buf)]
<1> DEFINE n == Len(buf)
<1>0. n \in Nat /\ DOMAIN buf = 1 .. n
  OBVIOUS
<1>1. \A T, x : SockStep(a, T, x) = IfFits(T, buf[x])
  BY DEF SockStep
<1> HIDE DEF n
<1>2. PICK it : StepEquation(n, <<>>, a, it)
  BY <1>0, StepFoldExists
<1>3. FitsEquation(buf, it)
  BY <1>0, <1>1, <1>2 DEF StepEquation, FitsEquation
<1>4. PICK jt : jt = CHOOSE k : FitsEquation(buf, k)
  OBVIOUS
<1>5. FitsEquation(buf, jt)
  BY <1>3, <1>4
<1>6. FoldLeft(IfFits, <<>>, buf) = jt[DOMAIN buf]
  BY <1>4, Zenon DEF FoldLeft, MapThenFoldSet, FitsEquation
<1>7. Steps(n, <<>>, a, jt)
  BY <1>0, <1>1, <1>5 DEF Steps, FitsEquation
<1> QED BY <1>0, <1>6, <1>7 DEF n

\* The lines of a buffer announce nobody.
LEMMA FramedQuiet ==
  ASSUME NEW c, NEW E, NEW buf \in Seq(E)
  PROVE  Quiet(Framed(c, buf), c)
<1> DEFINE a == [kind |-> "bytes", c |-> c, buf |-> buf]
           n == Len(buf)
<1>0. n \in Nat
  OBVIOUS
<1>1. PICK it : Steps(n, <<>>, a, it) /\ Framed(c, buf) = it[1 .. n]
  BY FramedSteps
<1>2. \A T, x : SockStep(a, T, x) = AtByte(c, buf, T, buf[x])
  BY DEF SockStep
<1> HIDE DEF a, n
<1> DEFINE W == [d \in SUBSET (1 .. n) |-> {q \in {it[d]} : Quiet(q, c)}]
<1>3. it[{}] \in W[{}]
  BY <1>1, QuietNone DEF Steps
<1>4. ASSUME NEW d \in SUBSET (1 .. n), d # {}, it[d \ {Max(d)}] \in W[d \ {Max(d)}]
      PROVE  it[d] \in W[d]
  <2> DEFINE q == it[d \ {Max(d)}]
             y == buf[Max(d)]
             l == [e |-> "Line", c |-> c, id |-> y.id, len |-> Bytes(buf, y.id)]
  <2>1. Quiet(q, c)
    BY <1>4
  <2>2. it[d] = AtByte(c, buf, q, y)
    BY <1>1, <1>2, <1>4 DEF Steps
  <2>3. AtByte(c, buf, q, y) \in {q, Append(q, l)}
    BY Zenon DEF AtByte
  <2>4. l.c = c /\ l.e # "Connect"
    OBVIOUS
  <2> HIDE DEF q, y, l
  <2>5. Quiet(it[d], c)
    BY <2>1, <2>2, <2>3, <2>4, QuietOne
  <2> QED BY <2>5
<1>5. it[1 .. n] \in W[1 .. n]
  <2> HIDE DEF W
  <2> QED BY <1>0, <1>3, <1>4, SeqFoldStays
<1> QED BY <1>1, <1>5

\* Those that fit are among them.
LEMMA FitsQuiet ==
  ASSUME NEW c, NEW buf, Quiet(buf, c)
  PROVE  Quiet(FoldLeft(IfFits, <<>>, buf), c)
<1> DEFINE a == [kind |-> "fits", buf |-> buf]
           n == Len(buf)
<1>e. PICK E : buf \in Seq(E) /\ \A e \in E : e.c = c /\ e.e # "Connect"
  BY DEF Quiet
<1>0. n \in Nat /\ \A i \in 1 .. n : buf[i] \in E
  BY <1>e
<1>1. PICK it : Steps(n, <<>>, a, it) /\ FoldLeft(IfFits, <<>>, buf) = it[1 .. n]
  BY <1>e, FitsSteps
<1>2. \A T, x : SockStep(a, T, x) = IfFits(T, buf[x])
  BY DEF SockStep
<1> HIDE DEF a, n
<1> DEFINE W == [d \in SUBSET (1 .. n) |-> {q \in {it[d]} : Quiet(q, c)}]
<1>3. it[{}] \in W[{}]
  BY <1>1, QuietNone DEF Steps
<1>4. ASSUME NEW d \in SUBSET (1 .. n), d # {}, it[d \ {Max(d)}] \in W[d \ {Max(d)}]
      PROVE  it[d] \in W[d]
  <2> DEFINE q == it[d \ {Max(d)}]
             y == buf[Max(d)]
  <2>1. Quiet(q, c)
    BY <1>4
  <2>2. it[d] = IfFits(q, y)
    BY <1>1, <1>2, <1>4 DEF Steps
  <2>3. IfFits(q, y) \in {q, Append(q, y)}
    BY DEF IfFits
  <2>4. Max(d) \in 1 .. n
    BY <1>0, <1>4, MaxIn
  <2>5. y.c = c /\ y.e # "Connect"
    BY <1>e, <1>0, <2>4
  <2> HIDE DEF q, y
  <2>6. Quiet(it[d], c)
    BY <2>1, <2>2, <2>3, <2>5, QuietOne
  <2> QED BY <2>6
<1>5. it[1 .. n] \in W[1 .. n]
  <2> HIDE DEF W
  <2> QED BY <1>0, <1>3, <1>4, SeqFoldStays
<1> QED BY <1>1, <1>5

\* websocket.rs: the lines of a message announce nobody.
LEMMA DeliverQuiet ==
  ASSUME NEW c, NEW E, NEW msg \in Seq(E)
  PROVE  Quiet(deliver(c, msg), c)
<1> DEFINE r == Rest(msg)
           ls == Framed(c, msg)
           l == [e |-> "Line", c |-> c, id |-> r[1].id, len |-> Len(r)]
           q == IF r = <<>> THEN ls ELSE Append(ls, l)
<1>1. Quiet(ls, c) /\ l.c = c /\ l.e # "Connect"
  BY FramedQuiet
<1>2. q \in {ls, Append(ls, l)}
  OBVIOUS
<1>3. deliver(c, msg) = FoldLeft(IfFits, <<>>, q)
  BY Zenon DEF deliver
<1> HIDE DEF r, ls, l, q
<1>4. Quiet(q, c)
  BY <1>1, <1>2, QuietOne
<1>5. Quiet(FoldLeft(IfFits, <<>>, q), c)
  BY <1>4, FitsQuiet
<1> QED BY <1>3, <1>5

-----------------------------------------------------------------------------
(* The reading half of the handlers                                        *)

\* What read_conn has gathered: it closes only what still waits for its header (p).
Gathered(f, c, p) ==
    /\ DOMAIN f = {"rbuf", "pending", "close", "lines", "early"}
    /\ f.rbuf \in Seq(Bits) /\ f.pending \in BOOLEAN /\ f.close \in BOOLEAN
    /\ f.pending => p
    /\ f.close => p
    /\ Quiet(f.lines, c) /\ Quiet(f.early, c)

\* socketengine.rs: one read of read_conn.
LEMMA ReadChunkKeeps ==
  ASSUME NEW f, NEW c, NEW p, Gathered(f, c, p), NEW s, NEW ch \in Seq(Bits)
  PROVE  Gathered(ReadChunk(c, s, f, ch), c, p)
<1> DEFINE buf == f.rbuf \o ch
           h == IF f.pending THEN parse(buf) ELSE [r |-> "Header", used |-> 0]
           b == SubSeq(buf, h.used + 1, Len(buf))
           cut == Len(Rest(b)) > s.recvq
           fl == Framed(c, b)
           e == Ev("TooLong", c)
           N == [f EXCEPT !.rbuf = buf, !.close = Len(buf) > ProxyMax]
           I == [f EXCEPT !.rbuf = buf, !.close = TRUE]
           rb == IF cut THEN <<>> ELSE Rest(b)
           ea == IF cut THEN Append(f.early, e) ELSE f.early
           O == [f EXCEPT !.pending = FALSE, !.lines = f.lines \o fl, !.rbuf = rb, !.early = ea]
<1>0. /\ DOMAIN f = {"rbuf", "pending", "close", "lines", "early"}
      /\ f.rbuf \in Seq(Bits) /\ f.pending \in BOOLEAN /\ f.close \in BOOLEAN
      /\ (f.pending => p) /\ (f.close => p)
      /\ Quiet(f.lines, c) /\ Quiet(f.early, c)
  BY DEF Gathered
<1>1. buf \in Seq(Bits)
  BY <1>0
<1>2. h.used \in Nat
  <2> HIDE DEF buf
  <2>1. parse(buf).used \in Nat
    BY <1>1, ParseUses
  <2> QED BY <2>1
<1>3. b \in Seq(Bits)
  <2> HIDE DEF buf, h
  <2> QED BY <1>1, <1>2, AfterHeader
<1>4. Quiet(fl, c) /\ Rest(b) \in Seq(Bits)
  <2> HIDE DEF b
  <2> QED BY <1>3, FramedQuiet, RestTyped
<1>5. ReadChunk(c, s, f, ch) = IF f.close THEN f
        ELSE CASE h.r = "Need" -> N [] h.r = "Invalid" -> I [] OTHER -> O
  BY Zenon DEF ReadChunk
<1>6. ~f.pending => h.r = "Header"
  BY Zenon
<1>7. rb \in Seq(Bits) /\ Quiet(ea, c) /\ Quiet(f.lines \o fl, c)
  <2>1. e.c = c /\ e.e # "Connect"
    BY DEF Ev
  <2>2. rb \in {<<>>, Rest(b)} /\ ea \in {Append(f.early, e), f.early}
    BY Zenon
  <2> HIDE DEF e, fl, b, rb, ea
  <2>3. <<>> \in Seq(Bits)
    OBVIOUS
  <2>4. Quiet(Append(f.early, e), c)
    BY <1>0, <2>1, QuietOne
  <2>5. Quiet(f.lines \o fl, c)
    BY <1>0, <1>4, QuietMore
  <2>6. Quiet(ea, c)
    BY <1>0, <2>2, <2>4
  <2> QED BY <1>4, <2>2, <2>3, <2>5, <2>6
<1> HIDE DEF buf, h, b, cut, fl, e, rb, ea
<1>8. CASE f.close
  BY <1>5, <1>8
<1>9. CASE ~f.close /\ h.r = "Need"
  <2>1. f.pending
    BY <1>6, <1>9
  <2>2. ReadChunk(c, s, f, ch) = N
    BY <1>5, <1>9
  <2>3. /\ DOMAIN N = DOMAIN f /\ N.rbuf = buf /\ N.close \in BOOLEAN /\ N.pending = f.pending
        /\ N.lines = f.lines /\ N.early = f.early
    BY <1>0
  <2> HIDE DEF N
  <2>4. Gathered(N, c, p)
    BY <1>0, <1>1, <2>1, <2>3 DEF Gathered
  <2> QED BY <2>2, <2>4
<1>10. CASE ~f.close /\ h.r = "Invalid"
  <2>1. f.pending
    BY <1>6, <1>10
  <2>2. ReadChunk(c, s, f, ch) = I
    BY <1>5, <1>10
  <2>3. /\ DOMAIN I = DOMAIN f /\ I.rbuf = buf /\ I.close \in BOOLEAN /\ I.pending = f.pending
        /\ I.lines = f.lines /\ I.early = f.early
    BY <1>0
  <2> HIDE DEF I
  <2>4. Gathered(I, c, p)
    BY <1>0, <1>1, <2>1, <2>3 DEF Gathered
  <2> QED BY <2>2, <2>4
<1>11. CASE ~f.close /\ h.r \notin {"Need", "Invalid"}
  <2>2. ReadChunk(c, s, f, ch) = O
    BY <1>5, <1>11
  <2>3. /\ DOMAIN O = DOMAIN f /\ O.rbuf = rb /\ O.close = f.close /\ O.pending = FALSE
        /\ O.lines = f.lines \o fl /\ O.early = ea
    BY <1>0
  <2> HIDE DEF O
  <2>4. Gathered(O, c, p)
    BY <1>0, <1>7, <2>3 DEF Gathered
  <2> QED BY <2>2, <2>4
<1> QED BY <1>8, <1>9, <1>10, <1>11

ReadEquation(c, s, base, buf, it) == it = [d \in SUBSET DOMAIN buf |->
    IF d = {} THEN base ELSE ReadChunk(c, s, it[d \ {Max(d)}], buf[Max(d)])]

Reads(c, s, f0, buf) == FoldLeft(LAMBDA g, ch : ReadChunk(c, s, g, ch), f0, buf)

\* All the reads of read_conn.
LEMMA ReadFold ==
  ASSUME NEW c, NEW s, NEW p, NEW f0, Gathered(f0, c, p), NEW buf \in Seq(Seq(Bits))
  PROVE  Gathered(Reads(c, s, f0, buf), c, p)
<1> DEFINE n == Len(buf)
           a == [kind |-> "read", c |-> c, s |-> s, buf |-> buf]
           R == Reads(c, s, f0, buf)
<1>0. n \in Nat /\ DOMAIN buf = 1 .. n /\ \A i \in 1 .. n : buf[i] \in Seq(Bits)
  OBVIOUS
<1>1. \A T, x : SockStep(a, T, x) = ReadChunk(c, s, T, buf[x])
  BY DEF SockStep
<1> HIDE DEF n, a
<1>2. PICK it : StepEquation(n, f0, a, it)
  BY <1>0, StepFoldExists
<1>3. ReadEquation(c, s, f0, buf, it)
  BY <1>0, <1>1, <1>2 DEF StepEquation, ReadEquation
<1>4. PICK jt : jt = CHOOSE k : ReadEquation(c, s, f0, buf, k)
  OBVIOUS
<1>5. ReadEquation(c, s, f0, buf, jt)
  BY <1>3, <1>4
<1>6. R = jt[DOMAIN buf]
  BY <1>4, Zenon DEF Reads, FoldLeft, MapThenFoldSet, ReadEquation
<1>7. /\ jt[{}] = f0
      /\ \A d \in SUBSET (1 .. n) : d # {} =>
            jt[d] = ReadChunk(c, s, jt[d \ {Max(d)}], buf[Max(d)])
  BY <1>0, <1>5 DEF ReadEquation
<1> HIDE DEF R
<1> DEFINE W == [d \in SUBSET (1 .. n) |-> {f \in {jt[d]} : Gathered(f, c, p)}]
<1>8. jt[{}] \in W[{}]
  BY <1>7
<1>9. ASSUME NEW d \in SUBSET (1 .. n), d # {}, jt[d \ {Max(d)}] \in W[d \ {Max(d)}]
      PROVE  jt[d] \in W[d]
  <2> DEFINE f == jt[d \ {Max(d)}]
             ch == buf[Max(d)]
  <2>1. Gathered(f, c, p)
    BY <1>9
  <2>2. Max(d) \in 1 .. n
    BY <1>0, <1>9, MaxIn
  <2>3. ch \in Seq(Bits) /\ jt[d] = ReadChunk(c, s, f, ch)
    BY <1>0, <1>7, <1>9, <2>2
  <2> HIDE DEF f, ch
  <2>4. Gathered(jt[d], c, p)
    BY <2>1, <2>3, ReadChunkKeeps
  <2> QED BY <2>4
<1>10. jt[1 .. n] \in W[1 .. n]
  <2> HIDE DEF W
  <2> QED BY <1>0, <1>8, <1>9, SeqFoldStays
<1>11. Gathered(R, c, p)
  BY <1>0, <1>6, <1>10
<1> QED BY <1>11 DEF R

\* The reads of a turn are parts of what there is to read.
LEMMA ChunksTyped ==
  ASSUME NEW buf \in Seq(Bits), NEW n \in Nat
  PROVE  Chunks(buf, n) \in Seq(Seq(Bits))
<1> DEFINE k == (n + Chunk - 1) \div Chunk
           At(i) == SubSeq(buf, (i - 1) * Chunk + 1, Min({i * Chunk, Len(buf)}))
<1>0. Chunk \in Nat /\ Chunk >= 1
  BY SocketAssumption
<1>1. k \in Nat
  BY <1>0
<1>2. ASSUME NEW i \in 1 .. k PROVE At(i) \in Seq(Bits)
  <2> DEFINE a == (i - 1) * Chunk
             b == i * Chunk
             m == Min({b, Len(buf)})
  <2>0. i \in Nat /\ i - 1 \in Nat /\ Len(buf) \in Nat
    BY <1>1
  <2>1. a \in Nat /\ b \in Nat
    BY <1>0, <2>0
  <2>2. m \in Nat /\ m <= Len(buf)
    <3>1. {b, Len(buf)} \in SUBSET Nat /\ {b, Len(buf)} # {}
      BY <2>0, <2>1
    <3>2. m \in {b, Len(buf)} /\ \A y \in {b, Len(buf)} : m <= y
      BY <3>1, MinIn
    <3> HIDE DEF m, b
    <3> QED BY <2>0, <2>1, <3>2
  <2>3. a + 1 \in Nat /\ a + 1 >= 1 /\ m \in Int
    BY <2>1, <2>2
  <2> HIDE DEF a, m
  <2>4. SubSeq(buf, a + 1, m) \in Seq(Bits)
    BY <2>2, <2>3, PartTyped
  <2> QED BY <2>4 DEF a, m
<1>3. Chunks(buf, n) = [i \in 1 .. k |-> At(i)]
  BY DEF Chunks
<1> HIDE DEF k, At
<1> QED BY <1>1, <1>2, <1>3

\* What a thread has read.
Heard(f, c) ==
    /\ DOMAIN f = {"rbuf", "ev", "stop"} /\ f.rbuf \in Seq(Bits) /\ f.stop \in BOOLEAN
    /\ Quiet(f.ev, c)

\* websocket.rs: one frame of io_loop.
LEMMA OnFrameKeeps ==
  ASSUME NEW f, NEW c, Heard(f, c), NEW fr \in Atoms
  PROVE  Heard(OnFrame(c, f, fr), c)
<1> DEFINE msg == IF fr.op = "cont" THEN f.rbuf \o fr.pay ELSE fr.pay
           X == [f EXCEPT !.stop = TRUE]
           rb == IF fr.fin THEN <<>> ELSE msg
           ev == IF fr.fin THEN f.ev \o deliver(c, msg) ELSE f.ev
           O == [f EXCEPT !.rbuf = rb, !.ev = ev]
<1>0. /\ DOMAIN f = {"rbuf", "ev", "stop"} /\ f.rbuf \in Seq(Bits) /\ f.stop \in BOOLEAN
      /\ Quiet(f.ev, c)
  BY DEF Heard
<1>1. OnFrame(c, f, fr) \in {X, f} \/ (parse_frame(fr) /\ OnFrame(c, f, fr) = O)
  BY Zenon DEF OnFrame
<1>2. Heard(X, c)
  <2>1. DOMAIN X = DOMAIN f /\ X.rbuf = f.rbuf /\ X.ev = f.ev /\ X.stop = TRUE
    BY <1>0
  <2> HIDE DEF X
  <2> QED BY <1>0, <2>1 DEF Heard
<1>3. ASSUME parse_frame(fr) PROVE Heard(O, c)
  <2>1. fr.t = "frame"
    BY <1>3 DEF parse_frame
  <2>2. fr.pay \in Seq(Bits)
    <3>1. fr.pay \in Seq(Range(fr.pay))
      <4>1. PICK x \in Scripts : fr \in Range(x.script)
        BY DEF Atoms
      <4> QED BY <2>1, <4>1, SocketAssumption
    <3>2. Range(fr.pay) \subseteq Bits
      BY <2>1 DEF Bits
    <3> HIDE DEF Bits
    <3> QED BY <3>1, <3>2
  <2>3. msg \in Seq(Bits)
    <3>1. f.rbuf \o fr.pay \in Seq(Bits)
      BY <1>0, <2>2
    <3> QED BY <2>2, <3>1
  <2> HIDE DEF msg
  <2>4. Quiet(f.ev \o deliver(c, msg), c)
    BY <1>0, <2>3, DeliverQuiet, QuietMore
  <2>5. rb \in Seq(Bits)
    BY <2>3
  <2>6. ev \in {f.ev \o deliver(c, msg), f.ev}
    OBVIOUS
  <2>7. Quiet(ev, c)
    <3> HIDE DEF ev
    <3> QED BY <1>0, <2>4, <2>6
  <2> HIDE DEF rb, ev
  <2>8. DOMAIN O = DOMAIN f /\ O.rbuf = rb /\ O.ev = ev /\ O.stop = f.stop
    BY <1>0
  <2> HIDE DEF O
  <2> QED BY <1>0, <2>5, <2>7, <2>8 DEF Heard
<1> HIDE DEF X, O
<1> QED BY <1>1, <1>2, <1>3

FramesEquation(c, base, buf, it) == it = [d \in SUBSET DOMAIN buf |->
    IF d = {} THEN base ELSE OnFrame(c, it[d \ {Max(d)}], buf[Max(d)])]

FramesOf(c, f0, buf) == FoldLeft(LAMBDA g, fr : OnFrame(c, g, fr), f0, buf)

\* The frames of one read.
LEMMA FramesFold ==
  ASSUME NEW c, NEW f0, Heard(f0, c), NEW buf \in Seq(Atoms)
  PROVE  Heard(FramesOf(c, f0, buf), c)
<1> DEFINE n == Len(buf)
           a == [kind |-> "frames", c |-> c, buf |-> buf]
           R == FramesOf(c, f0, buf)
<1>0. n \in Nat /\ DOMAIN buf = 1 .. n /\ \A i \in 1 .. n : buf[i] \in Atoms
  OBVIOUS
<1>1. \A T, x : SockStep(a, T, x) = OnFrame(c, T, buf[x])
  BY DEF SockStep
<1> HIDE DEF n, a
<1>2. PICK it : StepEquation(n, f0, a, it)
  BY <1>0, StepFoldExists
<1>3. FramesEquation(c, f0, buf, it)
  BY <1>0, <1>1, <1>2 DEF StepEquation, FramesEquation
<1>4. PICK jt : jt = CHOOSE k : FramesEquation(c, f0, buf, k)
  OBVIOUS
<1>5. FramesEquation(c, f0, buf, jt)
  BY <1>3, <1>4
<1>6. R = jt[DOMAIN buf]
  BY <1>4, Zenon DEF FramesOf, FoldLeft, MapThenFoldSet, FramesEquation
<1>7. /\ jt[{}] = f0
      /\ \A d \in SUBSET (1 .. n) : d # {} =>
            jt[d] = OnFrame(c, jt[d \ {Max(d)}], buf[Max(d)])
  BY <1>0, <1>5 DEF FramesEquation
<1> HIDE DEF R
<1> DEFINE W == [d \in SUBSET (1 .. n) |-> {f \in {jt[d]} : Heard(f, c)}]
<1>8. jt[{}] \in W[{}]
  BY <1>7
<1>9. ASSUME NEW d \in SUBSET (1 .. n), d # {}, jt[d \ {Max(d)}] \in W[d \ {Max(d)}]
      PROVE  jt[d] \in W[d]
  <2> DEFINE f == jt[d \ {Max(d)}]
             fr == buf[Max(d)]
  <2>1. Heard(f, c)
    BY <1>9
  <2>2. Max(d) \in 1 .. n
    BY <1>0, <1>9, MaxIn
  <2>3. fr \in Atoms /\ jt[d] = OnFrame(c, f, fr)
    BY <1>0, <1>7, <1>9, <2>2
  <2> HIDE DEF f, fr
  <2>4. Heard(jt[d], c)
    BY <2>1, <2>3, OnFrameKeeps
  <2> QED BY <2>4
<1>10. jt[1 .. n] \in W[1 .. n]
  <2> HIDE DEF W
  <2> QED BY <1>0, <1>8, <1>9, SeqFoldStays
<1>11. Heard(R, c)
  BY <1>0, <1>6, <1>10
<1> QED BY <1>11 DEF R

\* socketengine.rs: one read of tls_conn.
LEMMA OnBytesKeeps ==
  ASSUME NEW f, NEW c, Heard(f, c), NEW ch \in Seq(Bits)
  PROVE  Heard(OnBytes(c, f, ch), c)
<1> DEFINE buf == f.rbuf \o ch
           cut == Len(Rest(buf)) > Defaults.recvq
           rb == IF cut THEN <<>> ELSE Rest(buf)
           tl == IF cut THEN <<Ev("TooLong", c)>> ELSE <<>>
           ev == f.ev \o Framed(c, buf) \o tl
           O == [f EXCEPT !.rbuf = rb, !.ev = ev]
<1>0. /\ DOMAIN f = {"rbuf", "ev", "stop"} /\ f.rbuf \in Seq(Bits) /\ f.stop \in BOOLEAN
      /\ Quiet(f.ev, c)
  BY DEF Heard
<1>1. buf \in Seq(Bits)
  BY <1>0
<1>2. OnBytes(c, f, ch) = O
  BY Zenon DEF OnBytes
<1>3. rb \in Seq(Bits)
  <2> HIDE DEF buf, cut
  <2>1. Rest(buf) \in Seq(Bits)
    BY <1>1, RestTyped
  <2> QED BY <2>1
<1>4. Quiet(tl, c)
  <2> DEFINE e == Ev("TooLong", c)
  <2>1. e.c = c /\ e.e # "Connect" /\ Append(<<>>, e) = <<e>>
    BY DEF Ev
  <2> HIDE DEF e
  <2>2. Quiet(<<>>, c)
    BY QuietNone
  <2>3. Quiet(Append(<<>>, e), c)
    BY <2>1, <2>2, QuietOne
  <2>4. tl \in {<<>>, <<e>>}
    BY DEF e
  <2> HIDE DEF tl
  <2> QED BY <2>1, <2>2, <2>3, <2>4
<1>5. Quiet(ev, c)
  <2> HIDE DEF buf, tl
  <2>1. Quiet(f.ev \o Framed(c, buf), c)
    BY <1>0, <1>1, FramedQuiet, QuietMore
  <2> QED BY <1>4, <2>1, QuietMore
<1> HIDE DEF rb, ev
<1>6. DOMAIN O = DOMAIN f /\ O.rbuf = rb /\ O.ev = ev /\ O.stop = f.stop
  BY <1>0
<1> HIDE DEF O
<1>7. Heard(O, c)
  BY <1>0, <1>3, <1>5, <1>6 DEF Heard
<1> QED BY <1>2, <1>7

-----------------------------------------------------------------------------
(* The reactor's handlers                                                  *)

\* T differs from s at most in the fields fs.
Moves(s, T, fs) == DOMAIN T = ConnField /\ \A f \in ConnField \ fs : T[f] = s[f]

\* Events of c that announce it at most once.
Said(q, c) == \E E : /\ q \in Seq(E) /\ \A e \in E : e.c = c
                     /\ \A i, j \in DOMAIN q : q[i].e = "Connect" /\ q[j].e = "Connect" => i = j
Greeted(q) == \E i \in DOMAIN q : q[i].e = "Connect"

\* No event at all.
LEMMA SaidNone ==
  ASSUME NEW c
  PROVE  Said(<<>>, c) /\ ~Greeted(<<>>)
<1> DEFINE E == {}
           q == <<>>
<1>1. /\ q \in Seq(E) /\ \A e \in E : e.c = c
      /\ \A i, j \in DOMAIN q : q[i].e = "Connect" /\ q[j].e = "Connect" => i = j
  OBVIOUS
<1>2. ~Greeted(q)
  BY DEF Greeted
<1> HIDE DEF E, q
<1>3. Said(q, c)
  BY <1>1 DEF Said
<1> QED BY <1>2, <1>3 DEF q

\* Events that announce nobody follow.
LEMMA SaidMore ==
  ASSUME NEW q, NEW c, Said(q, c), NEW r, Quiet(r, c)
  PROVE  Said(q \o r, c) /\ (Greeted(q \o r) => Greeted(q))
<1>1. PICK E : /\ q \in Seq(E) /\ \A e \in E : e.c = c
               /\ \A i, j \in DOMAIN q : q[i].e = "Connect" /\ q[j].e = "Connect" => i = j
  BY DEF Said
<1>2. PICK F : r \in Seq(F) /\ \A e \in F : e.c = c /\ e.e # "Connect"
  BY DEF Quiet
<1> DEFINE G == E \cup F
           t == q \o r
<1>3. q \in Seq(G) /\ r \in Seq(G)
  BY <1>1, <1>2
<1>4. /\ t \in Seq(G) /\ DOMAIN t = 1 .. Len(q) + Len(r) /\ DOMAIN q = 1 .. Len(q)
      /\ Len(q) \in Nat /\ Len(r) \in Nat
      /\ \A i \in 1 .. Len(q) : t[i] = q[i]
      /\ \A i \in Len(q) + 1 .. Len(q) + Len(r) : t[i] = r[i - Len(q)]
  BY <1>3
<1>5. \A e \in G : e.c = c
  BY <1>1, <1>2
<1>6. ASSUME NEW i \in DOMAIN t, t[i].e = "Connect" PROVE i \in DOMAIN q /\ q[i].e = "Connect"
  <2>1. CASE i \in 1 .. Len(q)
    BY <1>4, <1>6, <2>1
  <2>2. CASE i \notin 1 .. Len(q)
    <3>1. i \in Len(q) + 1 .. Len(q) + Len(r) /\ i - Len(q) \in 1 .. Len(r)
      BY <1>4, <2>2
    <3>2. r[i - Len(q)] \in F
      BY <1>2, <3>1
    <3> QED BY <1>2, <1>4, <1>6, <3>1, <3>2
  <2> QED BY <2>1, <2>2
<1> HIDE DEF t, G
<1>7. \A i, j \in DOMAIN t : t[i].e = "Connect" /\ t[j].e = "Connect" => i = j
  BY <1>1, <1>6
<1>8. Said(t, c)
  BY <1>4, <1>5, <1>7 DEF Said
<1>9. Greeted(t) => Greeted(q)
  BY <1>6 DEF Greeted
<1> QED BY <1>8, <1>9 DEF t

\* One event more, c's first announcement perhaps.
LEMMA SaidOne ==
  ASSUME NEW q, NEW c, Said(q, c), NEW e, e.c = c, e.e # "Connect" \/ ~Greeted(q)
  PROVE  Said(Append(q, e), c) /\ (Greeted(Append(q, e)) => e.e = "Connect" \/ Greeted(q))
<1>1. PICK E : /\ q \in Seq(E) /\ \A d \in E : d.c = c
               /\ \A i, j \in DOMAIN q : q[i].e = "Connect" /\ q[j].e = "Connect" => i = j
  BY DEF Said
<1> DEFINE G == E \cup {e}
           t == Append(q, e)
<1>2. q \in Seq(G)
  BY <1>1
<1>3. /\ t \in Seq(G) /\ DOMAIN t = 1 .. Len(q) + 1 /\ DOMAIN q = 1 .. Len(q) /\ Len(q) \in Nat
      /\ t[Len(q) + 1] = e /\ \A i \in 1 .. Len(q) : t[i] = q[i]
  BY <1>2
<1>4. \A d \in G : d.c = c
  BY <1>1
<1> HIDE DEF t, G
<1>5. \A i \in DOMAIN t : i = Len(q) + 1 \/ (i \in DOMAIN q /\ t[i] = q[i])
  BY <1>3
<1>6. \A i, j \in DOMAIN t : t[i].e = "Connect" /\ t[j].e = "Connect" => i = j
  BY <1>1, <1>3, <1>5 DEF Greeted
<1>7. Said(t, c)
  BY <1>3, <1>4, <1>6 DEF Said
<1>8. Greeted(t) => e.e = "Connect" \/ Greeted(q)
  BY <1>3, <1>5 DEF Greeted
<1> QED BY <1>7, <1>8 DEF t

HandlerField == {"s", "ev", "capped"}

\* What a handler never touches.
SteadyField == {"kind", "todo", "eof", "rst", "closing", "over", "outq", "nout", "wdone"}

\* Why s may be closed: nobody knows it, its client is gone, or s has become T and
\* the core let go of it and all is sent.
MayEnd(s, T) == Fresh(s) \/ s.rst \/ s.eof \/ (s.closing /\ T.wbuf = <<>> /\ T.sout = <<>>)

\* x is what a handler about c may have made of s, so far or in the end.
Mid(c, s, x) ==
    /\ DOMAIN x = HandlerField /\ Typed(x.s) /\ Served(x.s) /\ x.s.kind \in ReactorKinds
    /\ \A f \in SteadyField : x.s[f] = s[f]
    /\ Fresh(x.s) => Fresh(s)
    /\ Said(x.ev, c)
    /\ Greeted(x.ev) => Fresh(s) /\ ~Fresh(x.s)
    /\ \/ x.s.phase = "live"
       \/ x.s.phase = "gone" /\ MayEnd(s, x.s)

\* A handler starts.
LEMMA MidStart ==
  ASSUME NEW c, NEW s, Typed(s), Served(s), s.kind \in ReactorKinds, s.phase = "live"
  PROVE  Mid(c, s, Idle(s))
<1> DEFINE x == Idle(s)
<1>1. DOMAIN x = HandlerField /\ x.s = s /\ x.ev = <<>>
  BY DEF Idle, HandlerField
<1> HIDE DEF x
<1>2. Said(x.ev, c) /\ ~Greeted(x.ev)
  BY <1>1, SaidNone
<1>3. Mid(c, s, x)
  BY <1>1, <1>2 DEF Mid
<1> QED BY <1>3 DEF x

\* socketengine.rs: close_conn.
LEMMA CloseKeeps ==
  ASSUME NEW c, NEW s, NEW x, Mid(c, s, x), x.s.phase = "live", MayEnd(s, x.s)
  PROVE  Mid(c, s, close_conn(c, x)) /\ close_conn(c, x).s.phase = "gone"
<1> DEFINE t == x.s
           T == [t EXCEPT !.phase = "gone", !.edge = {}, !.sess = <<>>, !.net = <<>>, !.rbuf = <<>>]
           e == Ev("Disconnect", c)
           ev == IF t.proxy_pending \/ t.handshaking THEN x.ev ELSE Append(x.ev, e)
           y == [x EXCEPT !.s = T, !.capped = FALSE, !.ev = ev]
<1>1. close_conn(c, x) = y
  BY Zenon DEF close_conn
<1>2. Typed(t) /\ DOMAIN t = ConnField /\ DOMAIN x = HandlerField
  BY DEF Mid, Typed
<1>3. /\ Moves(t, T, {"phase", "edge", "sess", "net", "rbuf"}) /\ T.phase = "gone" /\ T.edge = {}
      /\ T.sess = <<>> /\ T.net = <<>> /\ T.rbuf = <<>>
  BY <1>2 DEF Moves, ConnField
<1>4. e.c = c /\ e.e # "Connect" /\ ev \in {x.ev, Append(x.ev, e)}
  BY DEF Ev
<1> HIDE DEF T, e, ev
<1>5. DOMAIN y = HandlerField /\ y.s = T /\ y.ev = ev
  BY <1>2 DEF HandlerField
<1> HIDE DEF y
<1>6. Said(ev, c) /\ (Greeted(ev) => Greeted(x.ev))
  <2>1. Said(x.ev, c)
    BY DEF Mid
  <2>2. Said(Append(x.ev, e), c) /\ (Greeted(Append(x.ev, e)) => Greeted(x.ev))
    BY <1>4, <2>1, SaidOne
  <2> QED BY <1>4, <2>1, <2>2
<1>7. Typed(T)
  BY <1>2, <1>3 DEF Typed, Moves, ConnField
<1>8. /\ \A f \in SteadyField : T[f] = t[f]
      /\ T.kind = t.kind /\ T.handshaking = t.handshaking /\ T.proxy_pending = t.proxy_pending
      /\ T.wbuf = t.wbuf /\ T.sout = t.sout
  BY <1>3 DEF Moves, ConnField, SteadyField
<1>9. Served(T) /\ (Fresh(T) => Fresh(t))
  BY <1>3, <1>8 DEF Mid, Served, Fresh
<1>10. MayEnd(s, T)
  BY <1>8 DEF MayEnd
<1>11. Mid(c, s, y)
  BY <1>3, <1>5, <1>6, <1>7, <1>8, <1>9, <1>10 DEF Mid
<1> QED BY <1>1, <1>3, <1>5, <1>11

\* Two steps of a record.
LEMMA MovesMid ==
  ASSUME NEW t, Typed(t), NEW T, NEW fs, Moves(t, T, fs),
         fs \cap (SteadyField \cup {"phase", "handshaking", "proxy_pending", "net", "sess", "rbuf"}) = {}
  PROVE  /\ Typed(T) /\ T.phase = t.phase /\ (Fresh(T) <=> Fresh(t))
         /\ \A f \in SteadyField : T[f] = t[f]
         /\ T.handshaking = t.handshaking /\ T.proxy_pending = t.proxy_pending
<1>1. \A f \in SteadyField \cup {"phase", "handshaking", "proxy_pending", "net", "sess", "rbuf"} :
         T[f] = t[f]
  BY DEF Moves, ConnField, SteadyField
<1>2. /\ T.kind = t.kind /\ T.todo = t.todo /\ T.eof = t.eof /\ T.rst = t.rst
      /\ T.closing = t.closing /\ T.over = t.over /\ T.outq = t.outq /\ T.nout = t.nout
      /\ T.wdone = t.wdone /\ T.phase = t.phase /\ T.handshaking = t.handshaking
      /\ T.proxy_pending = t.proxy_pending /\ T.net = t.net /\ T.sess = t.sess /\ T.rbuf = t.rbuf
  BY <1>1 DEF SteadyField
<1>3. Typed(T)
  BY <1>2 DEF Typed, Moves
<1> QED BY <1>1, <1>2, <1>3 DEF Fresh

\* socketengine.rs: set_interest.
LEMMA InterestMoves ==
  ASSUME NEW t, DOMAIN t = ConnField
  PROVE  Moves(t, set_interest(t), {"want_read", "want_write", "edge"})
<1> DEFINE wr == ~t.paused
           ww == t.handshaking \/ t.wbuf # <<>> \/ t.paused \/ wants_write(t)
           ed == (IF wr /\ Readable(t) THEN {"r"} ELSE {}) \cup (IF ww /\ Writable(t) THEN {"w"} ELSE {})
           T == [t EXCEPT !.want_read = wr, !.want_write = ww, !.edge = ed]
<1>1. set_interest(t) \in {t, T}
  BY Zenon DEF set_interest
<1> HIDE DEF wr, ww, ed
<1>2. Moves(t, T, {"want_read", "want_write", "edge"})
  BY DEF Moves, ConnField
<1>3. Moves(t, t, {"want_read", "want_write", "edge"})
  BY DEF Moves
<1> HIDE DEF T
<1> QED BY <1>1, <1>2, <1>3

\* socketengine.rs: try_handshake.
LEMMA HandshakeKeeps ==
  ASSUME NEW c, NEW s, NEW x, Mid(c, s, x), x.s.phase = "live", x.s.handshaking
  PROVE  Mid(c, s, try_handshake(c, x))
<1> DEFINE t == x.s
           A == [t EXCEPT !.handshaking = FALSE, !.net = Tail(t.net)]
           T == set_interest(A)
           e == Ev("Connect", c)
           y == [x EXCEPT !.s = T, !.ev = Append(x.ev, e)]
<1>1. \/ try_handshake(c, x) = y /\ t.net # <<>>
      \/ try_handshake(c, x) = x
      \/ try_handshake(c, x) = close_conn(c, x)
  BY DEF try_handshake, accept
<1>0. Fresh(t) /\ Fresh(s)
  BY DEF Mid, Fresh
<1>2. MayEnd(s, t)
  BY <1>0 DEF MayEnd
<1>3. ASSUME t.net # <<>> PROVE Mid(c, s, y)
  <2>0. Typed(t) /\ DOMAIN t = ConnField /\ DOMAIN x = HandlerField /\ t.net \in Seq(Atoms)
    BY DEF Mid, Typed
  <2>1. Moves(t, A, {"handshaking", "net"}) /\ A.handshaking = FALSE /\ A.net = Tail(t.net)
    BY <2>0 DEF Moves, ConnField
  <2>2. A.net \in Seq(Atoms)
    BY <1>3, <2>0, <2>1
  <2> HIDE DEF A
  <2>3. /\ \A f \in SteadyField : A[f] = t[f]
        /\ A.kind = t.kind /\ A.phase = t.phase /\ A.proxy_pending = t.proxy_pending
    BY <2>1 DEF Moves, ConnField, SteadyField
  <2>4. Typed(A)
    <3>1. /\ A.kind = t.kind /\ A.todo = t.todo /\ A.sess = t.sess /\ A.rbuf = t.rbuf
          /\ A.outq = t.outq /\ A.nout = t.nout /\ A.closing = t.closing /\ A.over = t.over
          /\ A.rst = t.rst /\ A.eof = t.eof /\ A.proxy_pending = t.proxy_pending
          /\ A.wdone = t.wdone /\ DOMAIN A = ConnField
      BY <2>1 DEF Moves, ConnField
    <3> QED BY <2>0, <2>1, <2>2, <3>1 DEF Typed
  <2>5. DOMAIN A = ConnField
    BY <2>4 DEF Typed
  <2>6. Moves(A, T, {"want_read", "want_write", "edge"})
    BY <2>5, InterestMoves
  <2> HIDE DEF T
  <2>7. /\ Typed(T) /\ T.phase = A.phase /\ (Fresh(T) <=> Fresh(A))
        /\ \A f \in SteadyField : T[f] = A[f]
        /\ T.handshaking = A.handshaking /\ T.proxy_pending = A.proxy_pending
    BY <2>4, <2>6, MovesMid DEF SteadyField
  <2>8. ~t.proxy_pending
    BY DEF Mid, Served
  <2>9. ~Fresh(T)
    BY <2>1, <2>3, <2>7, <2>8 DEF Fresh
  <2>10. Served(T) /\ T.kind \in ReactorKinds
    <3>1. T.kind = A.kind
      BY <2>7 DEF SteadyField
    <3> QED BY <2>1, <2>3, <2>7, <2>8, <3>1 DEF Served, Mid
  <2>11. e.c = c /\ e.e = "Connect"
    BY DEF Ev
  <2> HIDE DEF e
  <2>12. Said(Append(x.ev, e), c)
    <3>1. Said(x.ev, c) /\ ~Greeted(x.ev)
      BY <1>0 DEF Mid
    <3> QED BY <2>11, <3>1, SaidOne
  <2>13. DOMAIN y = HandlerField /\ y.s = T /\ y.ev = Append(x.ev, e)
    BY <2>0 DEF HandlerField
  <2> HIDE DEF y
  <2>14. \A f \in SteadyField : T[f] = s[f]
    BY <2>3, <2>7 DEF Mid
  <2>15. T.phase = "live"
    BY <2>3, <2>7
  <2> QED BY <1>0, <2>7, <2>9, <2>10, <2>12, <2>13, <2>14, <2>15 DEF Mid
<1> HIDE DEF y
<1>4. Mid(c, s, close_conn(c, x))
  BY <1>2, CloseKeeps
<1> QED BY <1>1, <1>3, <1>4

\* socketengine.rs: the rest of read_conn.
LEMMA DrainKeeps ==
  ASSUME NEW c, NEW s, NEW x, Mid(c, s, x), x.s.phase = "live", ~x.s.handshaking
  PROVE  Mid(c, s, Drain(c, x))
<1> DEFINE t == x.s
           avail == t.sess \o t.net
           turns == (MaxReadPerTurn + Chunk - 1) \div Chunk
           n == Min({Len(avail), turns * Chunk})
           f0 == [rbuf |-> t.rbuf, pending |-> t.proxy_pending, close |-> FALSE,
                  lines |-> <<>>, early |-> <<>>]
           f == Reads(c, t, f0, Chunks(avail, n))
           left == SubSeq(avail, n + 1, Len(avail))
           full == n >= MaxReadPerTurn
           se == IF t.kind = "tls" THEN left ELSE <<>>
           ne == IF t.kind = "tls" THEN <<>> ELSE left
           T == [t EXCEPT !.rbuf = f.rbuf, !.proxy_pending = f.pending, !.sess = se, !.net = ne]
           hi == IF t.proxy_pending /\ ~f.pending THEN <<Ev("Connect", c)>> ELSE <<>>
           ev == x.ev \o f.early \o hi \o f.lines
           y == [x EXCEPT !.s = T, !.capped = full, !.ev = ev]
<1>1. Drain(c, x) = IF f.close \/ t.rst \/ (~full /\ t.eof) THEN close_conn(c, y) ELSE y
  BY Zenon DEF Drain, Reads
<1>2. /\ Typed(t) /\ DOMAIN t = ConnField /\ DOMAIN x = HandlerField
      /\ t.sess \in Seq(Atoms) /\ t.net \in Seq(Atoms) /\ t.rbuf \in Seq(Bits)
      /\ t.proxy_pending \in BOOLEAN
  BY DEF Mid, Typed
<1>3. avail \in Seq(Atoms) /\ avail \in Seq(Bits)
  <2>1. avail \in Seq(Atoms)
    BY <1>2
  <2> HIDE DEF avail
  <2>2. Atoms \subseteq Bits
    BY DEF Bits
  <2> QED BY <2>1, <2>2
<1>4. n \in Nat
  <2>0. Chunk \in Nat /\ Chunk >= 1 /\ MaxReadPerTurn \in Nat
    BY SocketAssumption
  <2>1. turns \in Nat
    BY <2>0
  <2> HIDE DEF turns, avail
  <2>2. turns * Chunk \in Nat /\ Len(avail) \in Nat
    BY <1>3, <2>0, <2>1
  <2> DEFINE P == {Len(avail), turns * Chunk}
  <2>3. P \in SUBSET Nat /\ P # {}
    BY <2>2
  <2>4. Min(P) \in P
    <3> HIDE DEF P
    <3> QED BY <2>3, MinIn
  <2>5. Min(P) \in Nat
    <3> HIDE DEF P
    <3> QED BY <2>3, <2>4
  <2> QED BY <2>5
<1> HIDE DEF n
<1>5. left \in Seq(Atoms)
  <2> HIDE DEF avail
  <2> QED BY <1>3, <1>4, AfterHeader
<1>6. Gathered(f, c, t.proxy_pending)
  <2> DEFINE cs == Chunks(avail, n)
  <2>1. cs \in Seq(Seq(Bits))
    <3> HIDE DEF avail
    <3> QED BY <1>3, <1>4, ChunksTyped
  <2>2. /\ DOMAIN f0 = {"rbuf", "pending", "close", "lines", "early"}
        /\ f0.rbuf = t.rbuf /\ f0.pending = t.proxy_pending /\ f0.close = FALSE
        /\ f0.lines = <<>> /\ f0.early = <<>>
    OBVIOUS
  <2> HIDE DEF f0
  <2>3. Gathered(f0, c, t.proxy_pending)
    BY <1>2, <2>2, QuietNone DEF Gathered
  <2> HIDE DEF cs, t
  <2>4. Gathered(Reads(c, t, f0, cs), c, t.proxy_pending)
    BY <2>1, <2>3, ReadFold
  <2> QED BY <2>4 DEF cs, t
<1> HIDE DEF f, left
<1>7. /\ f.rbuf \in Seq(Bits) /\ f.pending \in BOOLEAN /\ (f.pending => t.proxy_pending)
      /\ (f.close => t.proxy_pending) /\ Quiet(f.lines, c) /\ Quiet(f.early, c)
  BY <1>6 DEF Gathered
<1>8. se \in Seq(Atoms) /\ ne \in Seq(Atoms)
  BY <1>5
<1> HIDE DEF se, ne, full
<1>9. /\ Moves(t, T, {"rbuf", "proxy_pending", "sess", "net"})
      /\ T.rbuf = f.rbuf /\ T.proxy_pending = f.pending /\ T.sess = se /\ T.net = ne
  BY <1>2 DEF Moves, ConnField
<1> HIDE DEF T
<1>10. /\ \A g \in SteadyField : T[g] = t[g]
       /\ T.kind = t.kind /\ T.phase = t.phase /\ T.handshaking = t.handshaking /\ T.edge = t.edge
  BY <1>9 DEF Moves, ConnField, SteadyField
<1>11. Typed(T)
  <2>1. /\ T.kind = t.kind /\ T.todo = t.todo /\ T.outq = t.outq /\ T.nout = t.nout
        /\ T.closing = t.closing /\ T.over = t.over /\ T.rst = t.rst /\ T.eof = t.eof
        /\ T.handshaking = t.handshaking /\ T.wdone = t.wdone /\ DOMAIN T = ConnField
    BY <1>9 DEF Moves, ConnField
  <2> QED BY <1>2, <1>7, <1>8, <1>9, <2>1 DEF Typed
<1>12. Said(ev, c) /\ (Greeted(ev) => Greeted(x.ev) \/ (t.proxy_pending /\ ~f.pending))
  <2> DEFINE e == Ev("Connect", c)
             q == x.ev \o f.early
             r == q \o hi
  <2>0. Said(x.ev, c)
    BY DEF Mid
  <2>1. Said(q, c) /\ (Greeted(q) => Greeted(x.ev))
    BY <1>7, <2>0, SaidMore
  <2>2. e.c = c /\ e.e = "Connect"
    BY DEF Ev
  <2>3. ev = r \o f.lines
    OBVIOUS
  <2>4. Said(r, c) /\ (Greeted(r) => Greeted(q) \/ (t.proxy_pending /\ ~f.pending))
    <3>1. CASE t.proxy_pending /\ ~f.pending
      <4>1. ~Greeted(q)
        BY <2>1, <3>1 DEF Mid, Fresh
      <4>2. PICK E : q \in Seq(E)
        BY <2>1 DEF Said
      <4>3. hi = <<e>>
        BY <3>1
      <4> HIDE DEF q, e, hi
      <4>4. r = Append(q, e)
        BY <4>2, <4>3
      <4> HIDE DEF r
      <4> QED BY <2>1, <2>2, <3>1, <4>1, <4>4, SaidOne
    <3>2. CASE ~(t.proxy_pending /\ ~f.pending)
      <4>2. PICK E : q \in Seq(E)
        BY <2>1 DEF Said
      <4>3. hi = <<>>
        BY <3>2
      <4> HIDE DEF q, hi
      <4>4. r = q
        BY <4>2, <4>3
      <4> HIDE DEF r
      <4> QED BY <2>1, <4>4
    <3> QED BY <3>1, <3>2
  <2> HIDE DEF r, q, ev
  <2>5. Said(r \o f.lines, c) /\ (Greeted(r \o f.lines) => Greeted(r))
    BY <1>7, <2>4, SaidMore
  <2> QED BY <2>1, <2>3, <2>4, <2>5
<1> HIDE DEF ev
<1>13. DOMAIN y = HandlerField /\ y.s = T /\ y.ev = ev
  BY <1>2 DEF HandlerField
<1> HIDE DEF y
<1>14. Served(T) /\ (Fresh(T) => Fresh(t)) /\ (t.proxy_pending => Fresh(s))
  BY <1>7, <1>9, <1>10 DEF Served, Mid, Fresh
<1>15. t.proxy_pending /\ ~f.pending => ~Fresh(T)
  BY <1>9, <1>10 DEF Fresh
<1>16. Mid(c, s, y)
  BY <1>10, <1>11, <1>12, <1>13, <1>14, <1>15 DEF Mid
<1>17. ASSUME f.close \/ t.rst \/ t.eof PROVE Mid(c, s, close_conn(c, y))
  <2>1. t.rst = s.rst /\ t.eof = s.eof
    BY DEF Mid, SteadyField
  <2>2. MayEnd(s, y.s)
    BY <1>7, <1>14, <1>17, <2>1 DEF MayEnd
  <2>3. y.s.phase = "live"
    BY <1>10, <1>13
  <2> QED BY <1>16, <2>2, <2>3, CloseKeeps
<1> QED BY <1>1, <1>16, <1>17

\* socketengine.rs: read_conn.
LEMMA ReadKeeps ==
  ASSUME NEW c, NEW s, NEW x, Mid(c, s, x), x.s.phase = "live"
  PROVE  Mid(c, s, read_conn(c, x))
<1> DEFINE h == IF x.s.handshaking THEN try_handshake(c, x) ELSE x
<1>1. Mid(c, s, h)
  BY HandshakeKeeps
<1>2. read_conn(c, x) = IF h.s.handshaking \/ h.s.phase = "gone" THEN h ELSE Drain(c, h)
  BY Zenon DEF read_conn
<1> HIDE DEF h
<1>3. CASE h.s.handshaking \/ h.s.phase = "gone"
  BY <1>1, <1>2, <1>3
<1>4. CASE ~(h.s.handshaking \/ h.s.phase = "gone")
  <2>1. h.s.phase = "live"
    BY <1>1, <1>4 DEF Mid
  <2>2. Mid(c, s, Drain(c, h))
    BY <1>1, <1>4, <2>1, DrainKeeps
  <2> QED BY <1>2, <1>4, <2>2
<1> QED BY <1>3, <1>4

\* socketengine.rs: flush_conn once the handshake is over.
LEMMA FlushKeeps ==
  ASSUME NEW c, NEW s, NEW x, Mid(c, s, x), x.s.phase = "live", ~x.s.handshaking
  PROVE  Mid(c, s, Flush(c, x))
<1> DEFINE t == x.s
           q == t.sout \o t.wbuf
           k == Min({Len(q), WireMax - Len(t.wire)})
           left == SubSeq(q, k + 1, Len(q))
           held == IF t.kind = "tls" THEN Min({Len(left), SessionMax}) ELSE 0
           A == [t EXCEPT !.wire = @ \o SubSeq(q, 1, k), !.sout = SubSeq(left, 1, held),
                          !.wbuf = SubSeq(left, held + 1, Len(left))]
           free == A.paused /\ Len(A.wbuf) <= A.softsendq
           B == [A EXCEPT !.paused = @ /\ ~free]
           T == set_interest(B)
           y == [x EXCEPT !.s = T]
           z == [read_conn(c, y) EXCEPT !.capped = x.capped]
           done == T.closing /\ T.wbuf = <<>> /\ ~wants_write(T)
<1>1. Flush(c, x) = IF (t.rst /\ q # <<>>) \/ done THEN close_conn(c, y) ELSE IF free THEN z ELSE y
  BY Zenon DEF Flush
<1>2. Typed(t) /\ DOMAIN t = ConnField /\ DOMAIN x = HandlerField
  BY DEF Mid, Typed
<1> HIDE DEF q, k, left, held
<1>3. Moves(t, A, {"wire", "sout", "wbuf"})
  BY <1>2 DEF Moves, ConnField
<1> HIDE DEF A, free
<1>4. Moves(A, B, {"paused"})
  BY <1>3 DEF Moves, ConnField
<1>5. DOMAIN B = ConnField
  BY <1>4 DEF Moves
<1> HIDE DEF B
<1>6. Moves(B, T, {"want_read", "want_write", "edge"})
  BY <1>5, InterestMoves
<1> HIDE DEF T
<1>7. Moves(t, T, {"wire", "sout", "wbuf", "paused", "want_read", "want_write", "edge"})
  BY <1>3, <1>4, <1>6 DEF Moves
<1>8. /\ Typed(T) /\ T.phase = t.phase /\ (Fresh(T) <=> Fresh(t))
      /\ \A f \in SteadyField : T[f] = t[f]
      /\ T.handshaking = t.handshaking /\ T.proxy_pending = t.proxy_pending
  BY <1>2, <1>7, MovesMid DEF SteadyField
<1>9. T.kind = t.kind /\ T.closing = t.closing /\ t.closing = s.closing /\ t.rst = s.rst
  BY <1>8 DEF Mid, SteadyField
<1>10. DOMAIN y = HandlerField /\ y.s = T /\ y.ev = x.ev
  BY <1>2 DEF HandlerField
<1> HIDE DEF y
<1>11. Served(T)
  BY <1>8, <1>9 DEF Mid, Served
<1>12. Mid(c, s, y) /\ y.s.phase = "live"
  BY <1>8, <1>9, <1>10, <1>11 DEF Mid
<1>13. ASSUME (t.rst /\ q # <<>>) \/ done PROVE Mid(c, s, close_conn(c, y))
  <2>1. MayEnd(s, y.s)
    BY <1>9, <1>10, <1>13 DEF MayEnd, wants_write
  <2> QED BY <1>12, <2>1, CloseKeeps
<1>14. Mid(c, s, z)
  <2> DEFINE r == read_conn(c, y)
  <2>1. Mid(c, s, r)
    BY <1>12, ReadKeeps
  <2> HIDE DEF r
  <2> DEFINE w == [r EXCEPT !.capped = x.capped]
  <2>2. DOMAIN w = HandlerField /\ w.s = r.s /\ w.ev = r.ev
    BY <2>1 DEF Mid, HandlerField
  <2> HIDE DEF w
  <2>3. Mid(c, s, w)
    BY <2>1, <2>2 DEF Mid
  <2> QED BY <2>3 DEF w, r
<1> HIDE DEF z, done
<1> QED BY <1>1, <1>12, <1>13, <1>14

\* socketengine.rs: flush_conn.
LEMMA FlushConnKeeps ==
  ASSUME NEW c, NEW s, NEW x, Mid(c, s, x), x.s.phase = "live"
  PROVE  Mid(c, s, flush_conn(c, x))
<1> DEFINE h == IF x.s.handshaking THEN try_handshake(c, x) ELSE x
<1>1. Mid(c, s, h)
  BY HandshakeKeeps
<1>2. flush_conn(c, x) = IF h.s.handshaking \/ h.s.phase = "gone" THEN h ELSE Flush(c, h)
  BY Zenon DEF flush_conn
<1> HIDE DEF h
<1>3. CASE h.s.handshaking \/ h.s.phase = "gone"
  BY <1>1, <1>2, <1>3
<1>4. CASE ~(h.s.handshaking \/ h.s.phase = "gone")
  <2>1. h.s.phase = "live"
    BY <1>1, <1>4 DEF Mid
  <2>2. Mid(c, s, Flush(c, h))
    BY <1>1, <1>4, <2>1, FlushKeeps
  <2> QED BY <1>2, <1>4, <2>2
<1> QED BY <1>3, <1>4

-----------------------------------------------------------------------------
(* What the core queued                                                    *)

\* s may have become T by the first messages of ms.
AppliedField == {"closing", "over", "wbuf", "paused", "recvq", "hardsendq", "softsendq"}
Applied(s, T, ms) ==
    /\ Moves(s, T, AppliedField)
    /\ T.closing \in BOOLEAN /\ T.over \in BOOLEAN
    /\ s.over => T.over
    /\ T.closing => s.closing \/ T.over \/ \E i \in DOMAIN ms : ms[i].o = "close"

\* One message.
LEMMA ApplyKeeps ==
  ASSUME NEW s, NEW T, NEW ms, Applied(s, T, ms), NEW i \in DOMAIN ms
  PROVE  Applied(s, Apply(T, ms[i]), ms)
<1> DEFINE m == ms[i]
           A == [T EXCEPT !.closing = TRUE]
           B == [T EXCEPT !.recvq = ClassLimits[T.kind].recvq,
                          !.hardsendq = ClassLimits[T.kind].hardsendq,
                          !.softsendq = ClassLimits[T.kind].softsendq]
           C == [T EXCEPT !.wbuf = <<>>, !.closing = TRUE, !.over = TRUE]
           D == [T EXCEPT !.wbuf = Append(@, m.n),
                          !.paused = @ \/ Len(T.wbuf) + 1 > T.softsendq]
<1>1. \/ m.o = "close" /\ Apply(T, m) = A
      \/ Apply(T, m) = B
      \/ Apply(T, m) = C
      \/ Apply(T, m) = D
  BY DEF Apply
<1>2. DOMAIN T = ConnField
  BY DEF Applied, Moves
<1>3. ASSUME m.o = "close" PROVE Applied(s, A, ms)
  <2>1. Moves(T, A, {"closing"}) /\ A.closing = TRUE /\ A.over = T.over
    BY <1>2 DEF Moves, ConnField
  <2> HIDE DEF A
  <2>2. Moves(s, A, AppliedField)
    BY <2>1 DEF Applied, Moves, AppliedField
  <2> QED BY <1>3, <2>1, <2>2 DEF Applied
<1>4. Applied(s, B, ms)
  <2>1. Moves(T, B, {"recvq", "hardsendq", "softsendq"}) /\ B.closing = T.closing /\ B.over = T.over
    BY <1>2 DEF Moves, ConnField
  <2> HIDE DEF B
  <2>2. Moves(s, B, AppliedField)
    BY <2>1 DEF Applied, Moves, AppliedField
  <2> QED BY <2>1, <2>2 DEF Applied
<1>5. Applied(s, C, ms)
  <2>1. Moves(T, C, {"wbuf", "closing", "over"}) /\ C.closing = TRUE /\ C.over = TRUE
    BY <1>2 DEF Moves, ConnField
  <2> HIDE DEF C
  <2>2. Moves(s, C, AppliedField)
    BY <2>1 DEF Applied, Moves, AppliedField
  <2> QED BY <2>1, <2>2 DEF Applied
<1>6. Applied(s, D, ms)
  <2>1. Moves(T, D, {"wbuf", "paused"}) /\ D.closing = T.closing /\ D.over = T.over
    BY <1>2 DEF Moves, ConnField
  <2> HIDE DEF D
  <2>2. Moves(s, D, AppliedField)
    BY <2>1 DEF Applied, Moves, AppliedField
  <2> QED BY <2>1, <2>2 DEF Applied
<1> HIDE DEF A, B, C, D
<1> QED BY <1>1, <1>3, <1>4, <1>5, <1>6

ApplyEquation(base, buf, it) == it = [d \in SUBSET DOMAIN buf |->
    IF d = {} THEN base ELSE Apply(it[d \ {Max(d)}], buf[Max(d)])]

\* All of them.
LEMMA ApplyFold ==
  ASSUME NEW s, NEW ms \in Seq(Msg), Applied(s, s, ms)
  PROVE  Applied(s, FoldLeft(Apply, s, ms), ms)
<1> DEFINE n == Len(ms)
           a == [kind |-> "apply", buf |-> ms]
           R == FoldLeft(Apply, s, ms)
<1>0. n \in Nat /\ DOMAIN ms = 1 .. n
  OBVIOUS
<1>1. \A T, x : SockStep(a, T, x) = Apply(T, ms[x])
  BY DEF SockStep
<1> HIDE DEF n, a
<1>2. PICK it : StepEquation(n, s, a, it)
  BY <1>0, StepFoldExists
<1>3. ApplyEquation(s, ms, it)
  BY <1>0, <1>1, <1>2 DEF StepEquation, ApplyEquation
<1>4. PICK jt : jt = CHOOSE k : ApplyEquation(s, ms, k)
  OBVIOUS
<1>5. ApplyEquation(s, ms, jt)
  BY <1>3, <1>4
<1>6. R = jt[DOMAIN ms]
  BY <1>4, Zenon DEF FoldLeft, MapThenFoldSet, ApplyEquation
<1>7. /\ jt[{}] = s
      /\ \A d \in SUBSET (1 .. n) : d # {} => jt[d] = Apply(jt[d \ {Max(d)}], ms[Max(d)])
  BY <1>0, <1>5 DEF ApplyEquation
<1> HIDE DEF R
<1> DEFINE W == [d \in SUBSET (1 .. n) |-> {T \in {jt[d]} : Applied(s, T, ms)}]
<1>8. jt[{}] \in W[{}]
  BY <1>7
<1>9. ASSUME NEW d \in SUBSET (1 .. n), d # {}, jt[d \ {Max(d)}] \in W[d \ {Max(d)}]
      PROVE  jt[d] \in W[d]
  <2> DEFINE T == jt[d \ {Max(d)}]
             i == Max(d)
  <2>1. Applied(s, T, ms)
    BY <1>9
  <2>2. i \in DOMAIN ms
    BY <1>0, <1>9, MaxIn
  <2>3. jt[d] = Apply(T, ms[i])
    BY <1>7, <1>9
  <2> HIDE DEF T, i
  <2>4. Applied(s, jt[d], ms)
    BY <2>1, <2>2, <2>3, ApplyKeeps
  <2> QED BY <2>4
<1>10. jt[1 .. n] \in W[1 .. n]
  <2> HIDE DEF W
  <2> QED BY <1>0, <1>8, <1>9, SeqFoldStays
<1>11. Applied(s, R, ms)
  BY <1>0, <1>6, <1>10
<1> QED BY <1>11 DEF R

-----------------------------------------------------------------------------
(* The queues of events                                                    *)

\* The places of a sequence that others follow.
LEMMA Places ==
  ASSUME NEW E, NEW p \in Seq(E), NEW F, NEW r \in Seq(F)
  PROVE  \A i \in DOMAIN (p \o r) :
            \/ i \in DOMAIN p /\ (p \o r)[i] = p[i]
            \/ /\ i \notin DOMAIN p /\ i - Len(p) \in DOMAIN r /\ (p \o r)[i] = r[i - Len(p)]
<1> DEFINE G == E \cup F
           t == p \o r
<1>1. p \in Seq(G) /\ r \in Seq(G)
  OBVIOUS
<1>2. /\ DOMAIN t = 1 .. Len(p) + Len(r) /\ DOMAIN p = 1 .. Len(p) /\ DOMAIN r = 1 .. Len(r)
      /\ Len(p) \in Nat /\ Len(r) \in Nat
      /\ \A i \in 1 .. Len(p) : t[i] = p[i]
      /\ \A i \in Len(p) + 1 .. Len(p) + Len(r) : t[i] = r[i - Len(p)]
  BY <1>1
<1> HIDE DEF t
<1>3. ASSUME NEW i \in DOMAIN t
      PROVE  \/ i \in DOMAIN p /\ t[i] = p[i]
             \/ i \notin DOMAIN p /\ i - Len(p) \in DOMAIN r /\ t[i] = r[i - Len(p)]
  <2>1. CASE i \in 1 .. Len(p)
    BY <1>2, <2>1
  <2>2. CASE i \notin 1 .. Len(p)
    <3>1. i \in Len(p) + 1 .. Len(p) + Len(r) /\ i - Len(p) \in 1 .. Len(r)
      BY <1>2, <2>2
    <3> QED BY <1>2, <2>2, <3>1
  <2> QED BY <2>1, <2>2
<1> QED BY <1>3 DEF t

\* Events after events.
LEMMA EventsMore ==
  ASSUME NEW p, Events(p), NEW c \in Conn, NEW r, Said(r, c)
  PROVE  Events(p \o r)
<1>1. PICK E : p \in Seq(E) /\ \A e \in E : e.c \in Conn
  BY DEF Events
<1>2. PICK F : r \in Seq(F) /\ \A e \in F : e.c = c
  BY DEF Said
<1> DEFINE G == E \cup F
<1>3. p \in Seq(G) /\ r \in Seq(G)
  BY <1>1, <1>2
<1>4. p \o r \in Seq(G)
  BY <1>3
<1>5. \A e \in G : e.c \in Conn
  BY <1>1, <1>2
<1> HIDE DEF G
<1> QED BY <1>4, <1>5 DEF Events

\* A thread has something to tell about c.
LEMMA TellKeeps ==
  ASSUME NEW q, NEW b, Once(q, b), NEW t \in DOMAIN b, NEW c \in Conn, NEW ev, Said(ev, c),
         Greeted(ev) => Unheard(q, b, c)
  PROVE  /\ Once(q, [b EXCEPT ![t] = @ \o ev])
         /\ \A d \in Conn : Unheard(q, b, d) /\ ~(d = c /\ Greeted(ev)) =>
               Unheard(q, [b EXCEPT ![t] = @ \o ev], d)
<1> DEFINE p == b[t]
           r == p \o ev
           B == [b EXCEPT ![t] = r]
<1>1. DOMAIN B = DOMAIN b /\ B[t] = r /\ \A u \in DOMAIN b : u # t => B[u] = b[u]
  OBVIOUS
<1>2. PICK E : p \in Seq(E)
  BY DEF Once, Events
<1>3. PICK F : /\ ev \in Seq(F) /\ \A e \in F : e.c = c
               /\ \A i, j \in DOMAIN ev : ev[i].e = "Connect" /\ ev[j].e = "Connect" => i = j
  BY DEF Said
<1>4. \A i \in DOMAIN r : \/ i \in DOMAIN p /\ r[i] = p[i]
                          \/ i \notin DOMAIN p /\ i - Len(p) \in DOMAIN ev /\ r[i] = ev[i - Len(p)]
  BY <1>2, <1>3, Places
<1>5. \A i \in DOMAIN ev : ev[i].c = c
  BY <1>3
<1>6. Events(r)
  BY EventsMore DEF Once
<1>7. \A i \in DOMAIN r : i \in Int /\ Len(p) \in Int
  <2>1. Len(p) \in Nat
    BY <1>2
  <2>2. r \in Seq(E \cup F)
    <3>1. p \in Seq(E \cup F) /\ ev \in Seq(E \cup F)
      BY <1>2, <1>3
    <3> QED BY <3>1
  <2> HIDE DEF r, p
  <2> QED BY <2>1, <2>2
<1> HIDE DEF r, B
\* What is new in the queues greets c and is the one such event.
<1>8. ASSUME NEW u \in DOMAIN B, NEW i \in DOMAIN B[u], NEW d \in Conn, Greets(B[u][i], d)
      PROVE  \/ i \in DOMAIN b[u] /\ Greets(b[u][i], d)
             \/ /\ d = c /\ u = t /\ Greeted(ev) /\ i - Len(p) \in DOMAIN ev
                /\ ev[i - Len(p)].e = "Connect"
  <2>1. CASE u # t
    BY <1>1, <1>8, <2>1
  <2>2. CASE u = t
    <3>1. i \in DOMAIN r /\ Greets(r[i], d)
      BY <1>1, <1>8, <2>2
    <3>2. CASE i \in DOMAIN p /\ r[i] = p[i]
      BY <2>2, <3>1, <3>2
    <3>3. CASE i - Len(p) \in DOMAIN ev /\ r[i] = ev[i - Len(p)]
      BY <1>5, <2>2, <3>1, <3>3 DEF Greets, Greeted
    <3> QED BY <1>4, <3>1, <3>2, <3>3
  <2> QED BY <2>1, <2>2
<1>9. ASSUME NEW d \in Conn, NEW u \in DOMAIN B, NEW v \in DOMAIN B, NEW i \in DOMAIN B[u],
             NEW j \in DOMAIN B[v], Greets(B[u][i], d), Greets(B[v][j], d)
      PROVE  u = v /\ i = j
  <2>1. CASE d = c /\ Greeted(ev)
    <3>1. /\ u = t /\ i - Len(p) \in DOMAIN ev /\ ev[i - Len(p)].e = "Connect"
          /\ v = t /\ j - Len(p) \in DOMAIN ev /\ ev[j - Len(p)].e = "Connect"
      BY <1>1, <1>8, <1>9, <2>1 DEF Unheard
    <3>2. i - Len(p) = j - Len(p)
      BY <1>3, <3>1
    <3>3. i \in DOMAIN r /\ j \in DOMAIN r
      BY <1>1, <3>1
    <3>4. i \in Int /\ j \in Int /\ Len(p) \in Int
      BY <1>7, <3>3
    <3> HIDE DEF p
    <3> QED BY <3>1, <3>2, <3>4
  <2>2. CASE ~(d = c /\ Greeted(ev))
    <3>1. /\ u \in DOMAIN b /\ i \in DOMAIN b[u] /\ Greets(b[u][i], d)
          /\ v \in DOMAIN b /\ j \in DOMAIN b[v] /\ Greets(b[v][j], d)
      BY <1>1, <1>8, <1>9, <2>2
    <3> QED BY <3>1 DEF Once
  <2> QED BY <2>1, <2>2
<1>10. ASSUME NEW d \in Conn, NEW i \in DOMAIN q, NEW u \in DOMAIN B, NEW j \in DOMAIN B[u],
              Greets(q[i], d), Greets(B[u][j], d)
       PROVE  FALSE
  <2>1. CASE d = c /\ Greeted(ev)
    BY <1>10, <2>1 DEF Unheard
  <2>2. CASE ~(d = c /\ Greeted(ev))
    <3>1. u \in DOMAIN b /\ j \in DOMAIN b[u] /\ Greets(b[u][j], d)
      BY <1>1, <1>8, <1>10, <2>2
    <3> QED BY <1>10, <3>1 DEF Once
  <2> QED BY <2>1, <2>2
<1>11. \A u \in DOMAIN B : Events(B[u])
  BY <1>1, <1>6 DEF Once
<1>12. Once(q, B)
  BY <1>1, <1>9, <1>10, <1>11 DEF Once
<1>13. ASSUME NEW d \in Conn, Unheard(q, b, d), ~(d = c /\ Greeted(ev)) PROVE Unheard(q, B, d)
  BY <1>1, <1>8, <1>13 DEF Unheard
<1> QED BY <1>12, <1>13 DEF B, r

\* What is left of a queue.
LEMMA TailEvents ==
  ASSUME NEW p, Events(p), p # <<>>
  PROVE  /\ Events(Tail(p)) /\ Head(p) = p[1] /\ 1 \in DOMAIN p /\ Head(p).c \in Conn
         /\ \A i \in DOMAIN Tail(p) : i + 1 \in DOMAIN p /\ i + 1 # 1 /\ Tail(p)[i] = p[i + 1] /\ i \in Nat
<1>1. PICK E : p \in Seq(E) /\ \A e \in E : e.c \in Conn
  BY DEF Events
<1> DEFINE r == Tail(p)
<1>2. /\ r \in Seq(E) /\ Len(p) \in Nat /\ Len(p) >= 1 /\ Len(r) = Len(p) - 1
      /\ DOMAIN r = 1 .. Len(p) - 1 /\ DOMAIN p = 1 .. Len(p) /\ Head(p) = p[1]
      /\ \A i \in 1 .. Len(p) - 1 : r[i] = p[i + 1]
  BY <1>1
<1> HIDE DEF r
<1>3. Events(r)
  BY <1>1, <1>2 DEF Events
<1>4. 1 \in DOMAIN p /\ p[1] \in E
  BY <1>1, <1>2
<1>5. \A i \in DOMAIN r : i + 1 \in DOMAIN p /\ i + 1 # 1 /\ r[i] = p[i + 1] /\ i \in Nat
  BY <1>2
<1> QED BY <1>1, <1>2, <1>3, <1>4, <1>5 DEF r

\* The core's queue takes the first event of a thread.
LEMMA SendKeeps ==
  ASSUME NEW q, NEW b, Once(q, b), NEW t \in DOMAIN b, b[t] # <<>>
  PROVE  /\ Once(Append(q, Head(b[t])), [b EXCEPT ![t] = Tail(@)])
         /\ \A d \in Conn : Unheard(q, b, d) =>
               Unheard(Append(q, Head(b[t])), [b EXCEPT ![t] = Tail(@)], d)
<1> DEFINE p == b[t]
           h == Head(p)
           r == Tail(p)
           B == [b EXCEPT ![t] = r]
           Q == Append(q, h)
<1>0. Events(p) /\ Events(q)
  BY DEF Once
<1>1. DOMAIN B = DOMAIN b /\ B[t] = r /\ \A u \in DOMAIN b : u # t => B[u] = b[u]
  OBVIOUS
<1>2. /\ Events(r) /\ h = p[1] /\ 1 \in DOMAIN p /\ h.c \in Conn
      /\ \A i \in DOMAIN r : i + 1 \in DOMAIN p /\ i + 1 # 1 /\ r[i] = p[i + 1] /\ i \in Nat
  BY <1>0, TailEvents
<1>3. PICK E : q \in Seq(E) /\ \A e \in E : e.c \in Conn
  BY <1>0 DEF Events
<1> HIDE DEF h, r, B
<1>4. /\ Events(Q)
      /\ \A i \in DOMAIN Q : \/ i \in DOMAIN q /\ Q[i] = q[i]
                             \/ i \notin DOMAIN q /\ i = Len(q) + 1 /\ Q[i] = h
  <2> DEFINE G == E \cup {h}
  <2>1. q \in Seq(G) /\ h \in G /\ \A e \in G : e.c \in Conn
    BY <1>2, <1>3
  <2> HIDE DEF G
  <2>2. /\ Q \in Seq(G) /\ DOMAIN Q = 1 .. Len(q) + 1 /\ DOMAIN q = 1 .. Len(q) /\ Len(q) \in Nat
        /\ Q[Len(q) + 1] = h /\ \A i \in 1 .. Len(q) : Q[i] = q[i]
    BY <2>1
  <2> HIDE DEF Q
  <2>3. \A i \in DOMAIN Q : i \in 1 .. Len(q) \/ (i \notin 1 .. Len(q) /\ i = Len(q) + 1)
    BY <2>2
  <2> QED BY <2>1, <2>2, <2>3 DEF Events
<1> HIDE DEF Q
\* Every event is where it was, or one place ahead, or at the end of the queue.
<1>5. ASSUME NEW u \in DOMAIN B, NEW i \in DOMAIN B[u], NEW d \in Conn, Greets(B[u][i], d)
      PROVE  \/ u # t /\ i \in DOMAIN b[u] /\ Greets(b[u][i], d)
             \/ /\ u = t /\ i + 1 \in DOMAIN b[t] /\ i + 1 # 1 /\ Greets(b[t][i + 1], d) /\ i \in Nat
  <2>1. CASE u # t
    BY <1>1, <1>5, <2>1
  <2>2. CASE u = t
    BY <1>1, <1>2, <1>5, <2>2
  <2> QED BY <2>1, <2>2
<1>6. ASSUME NEW d \in Conn, NEW u \in DOMAIN B, NEW v \in DOMAIN B, NEW i \in DOMAIN B[u],
             NEW j \in DOMAIN B[v], Greets(B[u][i], d), Greets(B[v][j], d)
      PROVE  u = v /\ i = j
  <2>1. CASE u # t /\ v # t
    BY <1>1, <1>5, <1>6, <2>1 DEF Once
  <2>2. CASE u # t /\ v = t
    BY <1>1, <1>5, <1>6, <2>2 DEF Once
  <2>3. CASE u = t /\ v # t
    BY <1>1, <1>5, <1>6, <2>3 DEF Once
  <2>4. CASE u = t /\ v = t
    <3>1. /\ i + 1 \in DOMAIN b[t] /\ Greets(b[t][i + 1], d) /\ i \in Nat
          /\ j + 1 \in DOMAIN b[t] /\ Greets(b[t][j + 1], d) /\ j \in Nat
      BY <1>5, <1>6, <2>4
    <3>2. i + 1 = j + 1
      BY <3>1 DEF Once
    <3> QED BY <2>4, <3>1, <3>2
  <2> QED BY <2>1, <2>2, <2>3, <2>4
<1>7. ASSUME NEW d \in Conn, Greets(h, d)
      PROVE  /\ \A i \in DOMAIN q : ~Greets(q[i], d)
             /\ \A u \in DOMAIN B : \A i \in DOMAIN B[u] : ~Greets(B[u][i], d)
  <2>1. Greets(b[t][1], d) /\ 1 \in DOMAIN b[t]
    BY <1>2, <1>7
  <2>2. \A i \in DOMAIN q : ~Greets(q[i], d)
    BY <2>1 DEF Once
  <2>3. ASSUME NEW u \in DOMAIN B, NEW i \in DOMAIN B[u], Greets(B[u][i], d) PROVE FALSE
    <3>1. CASE u # t
      BY <1>1, <1>5, <2>1, <2>3, <3>1 DEF Once
    <3>2. CASE u = t
      <4>1. i + 1 \in DOMAIN b[t] /\ i + 1 # 1 /\ Greets(b[t][i + 1], d)
        BY <1>5, <2>3, <3>2
      <4> QED BY <2>1, <4>1 DEF Once
    <3> QED BY <3>1, <3>2
  <2> QED BY <2>2, <2>3
<1>8. ASSUME NEW d \in Conn, NEW i \in DOMAIN Q, NEW j \in DOMAIN Q, Greets(Q[i], d), Greets(Q[j], d)
      PROVE  i = j
  BY <1>4, <1>7, <1>8 DEF Once
<1>9. ASSUME NEW d \in Conn, NEW i \in DOMAIN Q, NEW u \in DOMAIN B, NEW j \in DOMAIN B[u],
             Greets(Q[i], d), Greets(B[u][j], d)
      PROVE  FALSE
  <2>1. CASE i \in DOMAIN q /\ Q[i] = q[i]
    BY <1>1, <1>5, <1>9, <2>1 DEF Once
  <2>2. CASE Q[i] = h
    BY <1>7, <1>9, <2>2
  <2> QED BY <1>4, <2>1, <2>2
<1>10. \A u \in DOMAIN B : Events(B[u])
  BY <1>1, <1>2 DEF Once
<1>11. Once(Q, B)
  BY <1>1, <1>4, <1>6, <1>8, <1>9, <1>10 DEF Once
<1>12. ASSUME NEW d \in Conn, Unheard(q, b, d) PROVE Unheard(Q, B, d)
  <2>1. ~Greets(h, d)
    BY <1>2, <1>12 DEF Unheard
  <2>2. \A i \in DOMAIN Q : ~Greets(Q[i], d)
    BY <1>4, <1>12, <2>1 DEF Unheard
  <2>3. \A u \in DOMAIN B : \A i \in DOMAIN B[u] : ~Greets(B[u][i], d)
    BY <1>1, <1>5, <1>12 DEF Unheard
  <2> QED BY <2>2, <2>3 DEF Unheard
<1> QED BY <1>11, <1>12 DEF B, Q, h, r

\* The core takes the first event of its queue.
LEMMA TakeKeeps ==
  ASSUME NEW q, NEW b, Once(q, b), q # <<>>
  PROVE  /\ Once(Tail(q), b) /\ Head(q).c \in Conn
         /\ \A d \in Conn : Unheard(q, b, d) \/ Greets(Head(q), d) => Unheard(Tail(q), b, d)
<1> DEFINE h == Head(q)
           r == Tail(q)
<1>1. /\ Events(r) /\ h = q[1] /\ 1 \in DOMAIN q /\ h.c \in Conn
      /\ \A i \in DOMAIN r : i + 1 \in DOMAIN q /\ i + 1 # 1 /\ r[i] = q[i + 1] /\ i \in Nat
  BY TailEvents DEF Once
<1> HIDE DEF h, r
<1>2. ASSUME NEW d \in Conn, NEW i \in DOMAIN r, NEW j \in DOMAIN r, Greets(r[i], d), Greets(r[j], d)
      PROVE  i = j
  <2>1. /\ i + 1 \in DOMAIN q /\ Greets(q[i + 1], d) /\ i \in Nat
        /\ j + 1 \in DOMAIN q /\ Greets(q[j + 1], d) /\ j \in Nat
    BY <1>1, <1>2
  <2>2. i + 1 = j + 1
    BY <2>1 DEF Once
  <2> QED BY <2>1, <2>2
<1>3. \A d \in Conn : \A i \in DOMAIN r : \A t \in DOMAIN b : \A j \in DOMAIN b[t] :
         ~(Greets(r[i], d) /\ Greets(b[t][j], d))
  BY <1>1 DEF Once
<1>4. Once(r, b)
  BY <1>1, <1>2, <1>3 DEF Once
<1>5. ASSUME NEW d \in Conn, Unheard(q, b, d) PROVE Unheard(r, b, d)
  BY <1>1, <1>5 DEF Unheard
<1>6. ASSUME NEW d \in Conn, Greets(h, d) PROVE Unheard(r, b, d)
  <2>1. 1 \in DOMAIN q /\ Greets(q[1], d)
    BY <1>1, <1>6
  <2>2. \A i \in DOMAIN r : ~Greets(r[i], d)
    BY <1>1, <2>1 DEF Once
  <2>3. \A t \in DOMAIN b : \A i \in DOMAIN b[t] : ~Greets(b[t][i], d)
    BY <2>1 DEF Once
  <2> QED BY <2>2, <2>3 DEF Unheard
<1> QED BY <1>1, <1>4, <1>5, <1>6 DEF h, r

-----------------------------------------------------------------------------
(* Steps of one connection                                                 *)

\* A connection changes, and nothing is told.
LEMMA ConnSilent ==
  ASSUME NEW S, NEW R, NEW B, NEW Q, NEW K, Whole(S, R, B, Q, K), NEW c \in Conn,
         NEW T, Sound(T, K[c]), T.kind = S[c].kind, Fresh(T) => Fresh(S[c])
  PROVE  Whole([S EXCEPT ![c] = T], R, B, Q, K)
<1> DEFINE V == [S EXCEPT ![c] = T]
<1>1. DOMAIN V = Conn /\ V[c] = T /\ \A d \in Conn : d # c => V[d] = S[d]
  BY DEF Whole
<1> HIDE DEF V
<1>2. \A d \in Conn : Sound(V[d], K[d])
  BY <1>1 DEF Whole
<1>3. \A d \in R : d \in Conn /\ V[d].kind \in ReactorKinds
  BY <1>1 DEF Whole
<1>4. \A d \in Conn : Unheard(Q, B, d) \/ (K[d] = "none" /\ ~Fresh(V[d]))
  BY <1>1 DEF Whole
<1>5. Whole(V, R, B, Q, K)
  BY <1>1, <1>2, <1>3, <1>4 DEF Whole
<1> QED BY <1>5 DEF V

\* A connection changes, and thread t tells of it.
LEMMA ConnTold ==
  ASSUME NEW S, NEW R, NEW B, NEW Q, NEW K, Whole(S, R, B, Q, K), NEW c \in Conn,
         NEW T, Sound(T, K[c]), T.kind = S[c].kind, Fresh(T) => Fresh(S[c]),
         NEW t \in Conn \cup {Reactor}, NEW ev, Said(ev, c),
         Greeted(ev) => Fresh(S[c]) /\ ~Fresh(T)
  PROVE  Whole([S EXCEPT ![c] = T], R, [B EXCEPT ![t] = @ \o ev], Q, K)
<1> DEFINE V == [S EXCEPT ![c] = T]
           C == [B EXCEPT ![t] = @ \o ev]
<1>1. Whole(V, R, B, Q, K)
  BY ConnSilent
<1>2. V[c] = T
  BY DEF Whole
<1>3. Once(Q, B) /\ t \in DOMAIN B
  BY DEF Whole, Once
<1>4. Greeted(ev) => Unheard(Q, B, c) /\ K[c] = "none"
  BY DEF Whole, Sound, Ordered
<1>5. Once(Q, C) /\ \A d \in Conn : Unheard(Q, B, d) /\ ~(d = c /\ Greeted(ev)) => Unheard(Q, C, d)
  BY <1>3, <1>4, TellKeeps
<1> HIDE DEF V, C
<1>6. \A d \in Conn : Unheard(Q, C, d) \/ (K[d] = "none" /\ ~Fresh(V[d]))
  BY <1>1, <1>2, <1>4, <1>5 DEF Whole
<1>7. Whole(V, R, C, Q, K)
  BY <1>1, <1>5, <1>6 DEF Whole
<1> QED BY <1>7 DEF V, C

\* The core lets go of a connection.
LEMMA ConnDropped ==
  ASSUME NEW S, NEW R, NEW B, NEW Q, NEW K, Whole(S, R, B, Q, K), NEW c \in Conn,
         NEW T, Sound(T, "dropped"), T.kind = S[c].kind, K[c] = "held"
  PROVE  Whole([S EXCEPT ![c] = T], R, B, Q, [K EXCEPT ![c] = "dropped"])
<1> DEFINE V == [S EXCEPT ![c] = T]
           L == [K EXCEPT ![c] = "dropped"]
<1>1. DOMAIN V = Conn /\ V[c] = T /\ \A d \in Conn : d # c => V[d] = S[d]
  BY DEF Whole
<1>2. DOMAIN L = Conn /\ L[c] = "dropped" /\ \A d \in Conn : d # c => L[d] = K[d]
  BY DEF Whole
<1> HIDE DEF V, L
<1>3. \A d \in Conn : Sound(V[d], L[d])
  BY <1>1, <1>2 DEF Whole
<1>4. \A d \in R : d \in Conn /\ V[d].kind \in ReactorKinds
  BY <1>1 DEF Whole
<1>5. \A d \in Conn : Unheard(Q, B, d) \/ (L[d] = "none" /\ ~Fresh(V[d]))
  BY <1>1, <1>2 DEF Whole
<1>6. Whole(V, R, B, Q, L)
  BY <1>1, <1>2, <1>3, <1>4, <1>5 DEF Whole
<1> QED BY <1>6 DEF V, L

\* Reads cut short, of the reactor's connections.
LEMMA ReadsKept ==
  ASSUME NEW S, NEW R, NEW B, NEW Q, NEW K, Whole(S, R, B, Q, K), NEW P,
         \A c \in P : c \in R \/ (c \in Conn /\ S[c].kind \in ReactorKinds)
  PROVE  Whole(S, P, B, Q, K)
BY DEF Whole

\* s at the reactor, in a handler: what the core knows of it is k.
Ready(s, k) ==
    /\ Typed(s) /\ Served(s) /\ Ordered(s, k) /\ s.kind \in ReactorKinds /\ s.phase = "live"
    /\ s.closing /\ ~s.over => k = "dropped" /\ s.outq = <<>>

\* What a handler makes of it is sound.
LEMMA HandlerSound ==
  ASSUME NEW c, NEW s, NEW k, Ready(s, k), NEW x, Mid(c, s, x)
  PROVE  Sound(x.s, k)
<1> DEFINE T == x.s
<1>1. /\ T.kind = s.kind /\ T.closing = s.closing /\ T.over = s.over /\ T.outq = s.outq
      /\ T.rst = s.rst /\ T.eof = s.eof
  BY DEF Mid, SteadyField
<1>2. Typed(T) /\ Served(T) /\ T.kind \in ReactorKinds /\ (Fresh(T) => Fresh(s))
  BY DEF Mid
<1>3. T.phase = "gone" => MayEnd(s, T)
  BY DEF Mid
<1> HIDE DEF T
<1>4. Ordered(T, k)
  BY <1>1, <1>2 DEF Ready, Ordered
<1>5. ReactorEnds(T, k)
  <2> SUFFICES ASSUME T.closing, ~T.over
               PROVE  /\ k = "dropped" /\ T.outq = <<>>
                      /\ T.phase = "gone" /\ ~T.rst /\ ~T.eof => T.wbuf = <<>> /\ T.sout = <<>>
    BY DEF ReactorEnds
  <2>1. k = "dropped" /\ T.outq = <<>>
    BY <1>1 DEF Ready
  <2>2. ~Fresh(s)
    BY <2>1 DEF Ready, Ordered
  <2> QED BY <1>1, <1>3, <2>1, <2>2 DEF MayEnd
<1>6. ThreadEnds(T)
  BY <1>2 DEF ThreadEnds, ReactorKinds, ThreadKinds
<1> QED BY <1>2, <1>4, <1>5, <1>6 DEF Sound, T

\* The reactor's connections, before a handler.
LEMMA SoundReady ==
  ASSUME NEW s, NEW k, Sound(s, k), s.kind \in ReactorKinds, s.phase = "live"
  PROVE  Ready(s, k)
BY DEF Sound, Ready, ReactorEnds

\* A record with fewer edges.
LEMMA EdgeReady ==
  ASSUME NEW s, NEW k, Ready(s, k), NEW E, E \subseteq s.edge
  PROVE  Ready([s EXCEPT !.edge = E], k)
<1> DEFINE T == [s EXCEPT !.edge = E]
<1>1. Moves(s, T, {"edge"}) /\ T.edge = E
  BY DEF Ready, Typed, Moves, ConnField
<1> HIDE DEF T
<1>2. /\ Typed(T) /\ T.phase = s.phase /\ (Fresh(T) <=> Fresh(s))
      /\ \A f \in SteadyField : T[f] = s[f]
      /\ T.handshaking = s.handshaking /\ T.proxy_pending = s.proxy_pending
  BY <1>1, MovesMid DEF Ready, SteadyField
<1>3. T.kind = s.kind /\ T.closing = s.closing /\ T.over = s.over /\ T.outq = s.outq
  BY <1>2 DEF SteadyField
<1>4. Ready(T, k)
  BY <1>1, <1>2, <1>3 DEF Ready, Served, Ordered
<1> QED BY <1>4 DEF T

\* What a handler leaves behind; s is what it found, or made of what it found.
LEMMA HandledKeeps ==
  ASSUME IInv, NEW c \in Conn, NEW s, Ready(s, sink[c]), s.kind = st[c].kind,
         Fresh(s) => Fresh(st[c]), NEW x, Mid(c, s, x), NEW again,
         again \subseteq pending_reads \cup {c}, Handled(c, x, again)
  PROVE  IInv'
<1>1. Sound(x.s, sink[c])
  BY HandlerSound
<1>2. /\ x.s.kind = s.kind /\ (Fresh(x.s) => Fresh(s)) /\ Said(x.ev, c)
      /\ (Greeted(x.ev) => Fresh(s) /\ ~Fresh(x.s)) /\ x.s.kind \in ReactorKinds
  BY DEF Mid, SteadyField
<1> DEFINE V == [st EXCEPT ![c] = x.s]
           B == [box EXCEPT ![Reactor] = @ \o x.ev]
<1>3. Whole(V, pending_reads, B, evq, sink)
  BY <1>1, <1>2, ConnTold DEF IInv
<1>4. V[c] = x.s /\ V[c].kind \in ReactorKinds
  BY <1>2 DEF IInv, Whole
<1>5. st' = V /\ box' = B /\ pending_reads' = again /\ evq' = evq /\ sink' = sink
  BY DEF Handled, Tell
<1> HIDE DEF V, B
<1>6. Whole(V, again, B, evq, sink)
  BY <1>3, <1>4, ReadsKept
<1> QED BY <1>5, <1>6 DEF IInv

\* socketengine.rs: a read is ready.
LEMMA OnReadableKeeps ==
  ASSUME IInv, NEW c \in Conn, OnReadable(c)
  PROVE  IInv'
<1> DEFINE s == [st[c] EXCEPT !.edge = @ \ {"r"}]
           x == read_conn(c, Idle(s))
           again == IF x.capped THEN pending_reads \cup {c} ELSE pending_reads
<1>1. Handled(c, x, again) /\ "r" \in st[c].edge
  BY Zenon DEF OnReadable
<1>2. Sound(st[c], sink[c]) /\ st[c].kind \in ReactorKinds /\ st[c].phase = "live"
  BY <1>1 DEF IInv, Whole, Sound, Served
<1>3. Ready(s, sink[c])
  BY <1>2, SoundReady, EdgeReady
<1>4. s.kind = st[c].kind /\ (Fresh(s) => Fresh(st[c]))
  BY <1>2 DEF Sound, Typed, Fresh, ConnField
<1> HIDE DEF s
<1>5. Mid(c, s, Idle(s)) /\ Idle(s).s = s /\ s.phase = "live"
  BY <1>3, MidStart DEF Ready, Idle
<1>6. Mid(c, s, x)
  BY <1>5, ReadKeeps
<1> HIDE DEF x
<1>7. again \subseteq pending_reads \cup {c}
  OBVIOUS
<1> HIDE DEF again
<1> QED BY <1>1, <1>3, <1>4, <1>6, <1>7, HandledKeeps

\* socketengine.rs: a write is ready.
LEMMA OnWritableKeeps ==
  ASSUME IInv, NEW c \in Conn, OnWritable(c)
  PROVE  IInv'
<1> DEFINE s == [st[c] EXCEPT !.edge = @ \ {"w"}]
           x == flush_conn(c, Idle(s))
<1>1. Handled(c, x, pending_reads) /\ "w" \in st[c].edge
  BY Zenon DEF OnWritable
<1>2. Sound(st[c], sink[c]) /\ st[c].kind \in ReactorKinds /\ st[c].phase = "live"
  BY <1>1 DEF IInv, Whole, Sound, Served
<1>3. Ready(s, sink[c])
  BY <1>2, SoundReady, EdgeReady
<1>4. s.kind = st[c].kind /\ (Fresh(s) => Fresh(st[c]))
  BY <1>2 DEF Sound, Typed, Fresh, ConnField
<1> HIDE DEF s
<1>5. Mid(c, s, Idle(s)) /\ Idle(s).s = s /\ s.phase = "live"
  BY <1>3, MidStart DEF Ready, Idle
<1>6. Mid(c, s, x)
  BY <1>5, FlushConnKeeps
<1> HIDE DEF x
<1> QED BY <1>1, <1>3, <1>4, <1>6, HandledKeeps

\* socketengine.rs: the deadline of a handshake or of a PROXY header.
LEMMA DeadlineKeeps ==
  ASSUME IInv, NEW c \in Conn, HandshakeDeadline(c)
  PROVE  IInv'
<1> DEFINE s == st[c]
           x == close_conn(c, Idle(s))
<1>1. Handled(c, x, pending_reads) /\ s.phase = "live" /\ (s.handshaking \/ s.proxy_pending)
  BY Zenon DEF HandshakeDeadline
<1>2. Sound(s, sink[c]) /\ s.kind \in ReactorKinds
  BY <1>1 DEF IInv, Whole, Sound, Served
<1>3. Ready(s, sink[c])
  BY <1>1, <1>2, SoundReady
<1>4. Mid(c, s, Idle(s)) /\ Idle(s).s = s
  BY <1>3, MidStart DEF Ready, Idle
<1>5. MayEnd(s, s)
  BY <1>1 DEF MayEnd, Fresh
<1>6. Mid(c, s, x)
  BY <1>1, <1>4, <1>5, CloseKeeps
<1> HIDE DEF x
<1> QED BY <1>1, <1>3, <1>6, HandledKeeps

\* A handler that has nothing to do with a connection, or only with its record.
LEMMA IdleKeeps ==
  ASSUME IInv, NEW c \in Conn, NEW T, Sound(T, sink[c]), T.kind = st[c].kind,
         Fresh(T) => Fresh(st[c]), NEW again, again \subseteq pending_reads,
         Handled(c, Idle(T), again)
  PROVE  IInv'
<1> DEFINE x == Idle(T)
           V == [st EXCEPT ![c] = T]
           B == [box EXCEPT ![Reactor] = @ \o x.ev]
<1>1. x.s = T /\ x.ev = <<>>
  BY DEF Idle
<1>2. st' = V /\ box' = B /\ pending_reads' = again /\ evq' = evq /\ sink' = sink
  BY <1>1 DEF Handled, Tell
<1> HIDE DEF x
<1>3. Said(x.ev, c) /\ ~Greeted(x.ev)
  BY <1>1, SaidNone
<1>4. Whole(V, pending_reads, B, evq, sink)
  BY <1>3, ConnTold DEF IInv
<1> HIDE DEF V, B
<1>5. Whole(V, again, B, evq, sink)
  BY <1>4, ReadsKept
<1> QED BY <1>2, <1>5 DEF IInv

\* socketengine.rs: a read that was cut short is taken up again.
LEMMA RedrainKeeps ==
  ASSUME IInv, NEW c \in Conn, Redrain(c)
  PROVE  IInv'
<1> DEFINE s == st[c]
           x == IF s.phase = "live" THEN read_conn(c, Idle(s)) ELSE Idle(s)
           again == IF x.capped THEN pending_reads ELSE pending_reads \ {c}
<1>1. Handled(c, x, again) /\ c \in pending_reads
  BY Zenon DEF Redrain
<1>2. again \subseteq pending_reads
  OBVIOUS
<1> HIDE DEF again
<1>3. Sound(s, sink[c]) /\ s.kind \in ReactorKinds
  BY <1>1 DEF IInv, Whole
<1>4. CASE s.phase = "live"
  <2>1. Ready(s, sink[c])
    BY <1>3, <1>4, SoundReady
  <2>2. Mid(c, s, Idle(s)) /\ Idle(s).s = s
    BY <2>1, MidStart DEF Ready, Idle
  <2>3. Mid(c, s, read_conn(c, Idle(s)))
    BY <1>4, <2>2, ReadKeeps
  <2>4. Mid(c, s, x)
    BY <1>4, <2>3
  <2> HIDE DEF x
  <2> QED BY <1>1, <1>2, <2>1, <2>4, HandledKeeps
<1>5. CASE s.phase # "live"
  <2>1. x = Idle(s)
    BY <1>5
  <2> HIDE DEF x
  <2> QED BY <1>1, <1>2, <1>3, <2>1, IdleKeeps
<1> QED BY <1>4, <1>5

\* What a wake-up leaves of a connection that the reactor serves.
LEMMA WokenReady ==
  ASSUME NEW s, NEW k, Ready(s, k), s.outq # <<>>, NEW a, a = [s EXCEPT !.outq = <<>>],
         NEW T, T = FoldLeft(Apply, a, s.outq)
  PROVE  Ready(T, k) /\ T.kind = s.kind /\ (Fresh(T) => Fresh(s))
<1>1. Typed(s) /\ DOMAIN s = ConnField /\ s.outq \in Seq(Msg)
  BY DEF Ready, Typed
<1>2. Moves(s, a, {"outq"}) /\ a.outq = <<>>
  BY <1>1 DEF Moves, ConnField
<1>3. a.closing = s.closing /\ a.over = s.over /\ DOMAIN a = ConnField
  BY <1>2 DEF Moves, ConnField
<1>4. Applied(a, a, s.outq)
  BY <1>1, <1>3 DEF Applied, Moves, Typed
<1>5. Applied(a, T, s.outq)
  BY <1>1, <1>4, ApplyFold
<1>6. Moves(s, T, AppliedField \cup {"outq"}) /\ T.outq = <<>>
  BY <1>2, <1>5 DEF Applied, Moves, ConnField, AppliedField
<1>7. /\ T.kind = s.kind /\ T.todo = s.todo /\ T.eof = s.eof /\ T.rst = s.rst
      /\ T.nout = s.nout /\ T.edge = s.edge
      /\ T.wdone = s.wdone /\ T.phase = s.phase /\ T.handshaking = s.handshaking
      /\ T.proxy_pending = s.proxy_pending /\ T.net = s.net /\ T.sess = s.sess /\ T.rbuf = s.rbuf
  BY <1>6 DEF Moves, ConnField, AppliedField
<1>8. T.closing \in BOOLEAN /\ T.over \in BOOLEAN
  BY <1>5 DEF Applied
<1>9. Typed(T)
  <2>1. <<>> \in Seq(Msg)
    OBVIOUS
  <2> QED BY <1>1, <1>6, <1>7, <1>8, <2>1 DEF Typed, Moves
<1>10. Served(T) /\ (Fresh(T) <=> Fresh(s))
  BY <1>7 DEF Ready, Served, Fresh
<1>11. k # "none"
  BY DEF Ready, Ordered
<1>12. Ordered(T, k)
  BY <1>6, <1>10, <1>11 DEF Ready, Ordered
<1>13. T.closing /\ ~T.over => k = "dropped"
  <2> SUFFICES ASSUME T.closing, ~T.over PROVE k = "dropped"
    OBVIOUS
  <2>1. a.closing \/ \E i \in DOMAIN s.outq : s.outq[i].o = "close"
    BY <1>5 DEF Applied
  <2>2. ~s.over
    BY <1>3, <1>5 DEF Applied
  <2>3. CASE a.closing
    BY <1>3, <2>2, <2>3 DEF Ready
  <2>4. CASE \E i \in DOMAIN s.outq : s.outq[i].o = "close"
    BY <2>4 DEF Ready, Ordered
  <2> QED BY <2>1, <2>3, <2>4
<1> QED BY <1>6, <1>7, <1>9, <1>10, <1>12, <1>13 DEF Ready

\* One that is gone.
LEMMA WokenGone ==
  ASSUME NEW s, NEW k, Sound(s, k), s.kind \in ReactorKinds, s.outq # <<>>, NEW T,
         T = [s EXCEPT !.outq = <<>>]
  PROVE  Sound(T, k) /\ T.kind = s.kind /\ (Fresh(T) => Fresh(s))
<1>1. Typed(s) /\ DOMAIN s = ConnField
  BY DEF Sound, Typed
<1>2. Moves(s, T, {"outq"}) /\ T.outq = <<>>
  BY <1>1 DEF Moves, ConnField
<1>3. /\ T.kind = s.kind /\ T.todo = s.todo /\ T.eof = s.eof /\ T.rst = s.rst
      /\ T.nout = s.nout /\ T.edge = s.edge /\ T.closing = s.closing /\ T.over = s.over
      /\ T.wdone = s.wdone /\ T.phase = s.phase /\ T.handshaking = s.handshaking
      /\ T.proxy_pending = s.proxy_pending /\ T.net = s.net /\ T.sess = s.sess /\ T.rbuf = s.rbuf
  BY <1>2 DEF Moves, ConnField
<1>4. Typed(T)
  <2>1. <<>> \in Seq(Msg)
    OBVIOUS
  <2> QED BY <1>1, <1>2, <1>3, <2>1 DEF Typed, Moves
<1>5. Served(T) /\ (Fresh(T) <=> Fresh(s))
  BY <1>3 DEF Sound, Served, Fresh
<1>6. Ordered(T, k)
  BY <1>2, <1>3, <1>5 DEF Sound, Ordered
<1>7. ReactorEnds(T, k)
  BY <1>3 DEF Sound, ReactorEnds
<1>8. ThreadEnds(T)
  BY <1>3 DEF ThreadEnds, ReactorKinds, ThreadKinds
<1> QED BY <1>3, <1>4, <1>5, <1>6, <1>7, <1>8 DEF Sound

\* socketengine.rs: the wake-up.
LEMMA OnWakeKeeps ==
  ASSUME IInv, NEW c \in Conn, OnWake(c)
  PROVE  IInv'
<1> DEFINE a == [st[c] EXCEPT !.outq = <<>>]
           s == FoldLeft(Apply, a, st[c].outq)
           touched == \E i \in DOMAIN st[c].outq : st[c].outq[i].o # "limits"
           x == IF touched THEN flush_conn(c, Idle(s)) ELSE Idle(s)
<1>1. /\ st[c].kind \in ReactorKinds /\ st[c].outq # <<>>
      /\ IF st[c].phase = "live" THEN Handled(c, x, pending_reads)
         ELSE Handled(c, Idle(a), pending_reads)
  BY Zenon DEF OnWake
<1>2. Sound(st[c], sink[c])
  BY DEF IInv, Whole
<1>3. CASE st[c].phase = "live"
  <2>1. Ready(st[c], sink[c])
    BY <1>1, <1>2, <1>3, SoundReady
  <2>2. Ready(s, sink[c]) /\ s.kind = st[c].kind /\ (Fresh(s) => Fresh(st[c]))
    BY <1>1, <2>1, WokenReady
  <2> HIDE DEF s, touched
  <2>3. Mid(c, s, Idle(s)) /\ Idle(s).s = s /\ s.phase = "live"
    BY <2>2, MidStart DEF Ready, Idle
  <2>4. Mid(c, s, flush_conn(c, Idle(s)))
    BY <2>3, FlushConnKeeps
  <2>5. Mid(c, s, x) /\ Handled(c, x, pending_reads)
    BY <1>1, <1>3, <2>3, <2>4
  <2> HIDE DEF x
  <2> QED BY <2>2, <2>5, HandledKeeps
<1>4. CASE st[c].phase # "live"
  <2>1. Sound(a, sink[c]) /\ a.kind = st[c].kind /\ (Fresh(a) => Fresh(st[c]))
    BY <1>1, <1>2, WokenGone
  <2> HIDE DEF a
  <2> QED BY <1>1, <1>4, <2>1, IdleKeeps
<1> QED BY <1>3, <1>4

-----------------------------------------------------------------------------
(* Accepting and opening                                                   *)

\* The fields that matter to the invariant.
SoundField == {"kind", "todo", "net", "sess", "rbuf", "outq", "nout", "closing", "over", "rst",
               "eof", "handshaking", "proxy_pending", "wdone", "phase", "edge", "wbuf", "sout"}

\* A connection changes, and says nothing.
LEMMA Silent ==
  ASSUME IInv, NEW c \in Conn, NEW T, Sound(T, sink[c]), T.kind = st[c].kind,
         Fresh(T) => Fresh(st[c]), st' = [st EXCEPT ![c] = T],
         UNCHANGED <<pending_reads, box, evq, sink>>
  PROVE  IInv'
<1> DEFINE V == [st EXCEPT ![c] = T]
<1>1. Whole(V, pending_reads, box, evq, sink)
  BY ConnSilent DEF IInv
<1> HIDE DEF V
<1>2. st' = V
  BY DEF V
<1> QED BY <1>1, <1>2 DEF IInv

\* A connection changes, and thread t tells of it.
LEMMA Told ==
  ASSUME IInv, NEW c \in Conn, NEW T, Sound(T, sink[c]), T.kind = st[c].kind,
         Fresh(T) => Fresh(st[c]), NEW t \in Conn \cup {Reactor}, NEW ev, Said(ev, c),
         Greeted(ev) => Fresh(st[c]) /\ ~Fresh(T),
         st' = [st EXCEPT ![c] = T], Tell(t, ev), UNCHANGED <<pending_reads, evq, sink>>
  PROVE  IInv'
<1> DEFINE V == [st EXCEPT ![c] = T]
           B == [box EXCEPT ![t] = @ \o ev]
<1>1. Whole(V, pending_reads, B, evq, sink)
  BY ConnTold DEF IInv
<1>2. st' = V /\ box' = B
  BY DEF Tell
<1> HIDE DEF V, B
<1> QED BY <1>1, <1>2 DEF IInv

\* One event.
LEMMA OneEvent ==
  ASSUME NEW c, NEW e, e.c = c
  PROVE  Said(<<e>>, c) /\ (Greeted(<<e>>) => e.e = "Connect")
<1> DEFINE q == <<>>
<1>1. Said(q, c) /\ ~Greeted(q)
  BY SaidNone
<1>2. Append(q, e) = <<e>>
  OBVIOUS
<1> HIDE DEF q
<1>3. Said(Append(q, e), c) /\ (Greeted(Append(q, e)) => e.e = "Connect" \/ Greeted(q))
  BY <1>1, SaidOne
<1> QED BY <1>1, <1>2, <1>3

\* The beginning and the end of a connection.
LEMMA BeginEnd ==
  ASSUME NEW c
  PROVE  /\ Said(<<Ev("Connect", c)>>, c)
         /\ Said(<<Ev("Disconnect", c)>>, c) /\ ~Greeted(<<Ev("Disconnect", c)>>)
         /\ Said(<<Ev("TooLong", c)>>, c) /\ ~Greeted(<<Ev("TooLong", c)>>)
<1> DEFINE d == Ev("Connect", c)
           e == Ev("Disconnect", c)
           f == Ev("TooLong", c)
<1>1. d.c = c /\ e.c = c /\ f.c = c /\ e.e # "Connect" /\ f.e # "Connect"
  BY DEF Ev
<1> HIDE DEF d, e, f
<1>2. /\ Said(<<d>>, c) /\ Said(<<e>>, c) /\ ~Greeted(<<e>>)
      /\ Said(<<f>>, c) /\ ~Greeted(<<f>>)
  BY <1>1, OneEvent
<1> QED BY <1>2 DEF d, e, f

\* A connection that is not yet served goes on.
LEMMA PhaseSound ==
  ASSUME NEW s, NEW k, Sound(s, k), s.phase \in {"dialing", "opening"},
         NEW T, Moves(s, T, {"phase", "net"}), T.net \in Seq(Atoms),
         T.phase = "handoff" => s.kind \in ReactorKinds
  PROVE  /\ Sound(T, k) /\ T.kind = s.kind /\ (Fresh(T) => Fresh(s)) /\ Fresh(s)
         /\ (s.kind \in ThreadKinds /\ T.phase \in {"live", "gone"} => ~Fresh(T))
<1>1. /\ T.kind = s.kind /\ T.todo = s.todo /\ T.eof = s.eof /\ T.rst = s.rst /\ T.outq = s.outq
      /\ T.nout = s.nout /\ T.edge = s.edge /\ T.closing = s.closing /\ T.over = s.over
      /\ T.wdone = s.wdone /\ T.handshaking = s.handshaking
      /\ T.proxy_pending = s.proxy_pending /\ T.sess = s.sess /\ T.rbuf = s.rbuf
      /\ T.wbuf = s.wbuf /\ T.sout = s.sout
  BY DEF Moves, ConnField
<1>2. Fresh(s) /\ s.edge = {} /\ k = "none" /\ ~s.closing /\ s.outq = <<>>
  BY DEF Sound, Fresh, Served, Ordered
<1>3. Typed(T)
  BY <1>1 DEF Sound, Typed, Moves
<1>4. Served(T)
  BY <1>1, <1>2 DEF Sound, Served
<1>5. Ordered(T, k)
  BY <1>1, <1>2 DEF Sound, Ordered
<1>6. ReactorEnds(T, k)
  BY <1>1, <1>2 DEF ReactorEnds
<1>7. ThreadEnds(T)
  BY <1>1, <1>2 DEF Sound, ThreadEnds
<1>8. s.kind \in ThreadKinds /\ T.phase \in {"live", "gone"} => ~Fresh(T)
  BY <1>1 DEF Sound, Served, Fresh, ReactorKinds, ThreadKinds
<1> QED BY <1>1, <1>2, <1>3, <1>4, <1>5, <1>6, <1>7, <1>8 DEF Sound

\* socketengine.rs: accept_loop hands a client over to the reactor.
LEMMA AcceptKeeps ==
  ASSUME IInv, NEW c \in Conn, Accept(c)
  PROVE  IInv'
<1> DEFINE s == st[c]
<1>0. Sound(s, sink[c]) /\ DOMAIN s = ConnField /\ s.net \in Seq(Atoms)
  BY DEF IInv, Whole, Sound, Typed
<1>1. /\ s.phase = "dialing" /\ s.kind \in ReactorKinds
      /\ UNCHANGED <<pending_reads, box, evq, sink>>
  BY DEF Accept
<1>2. PICK to : st' = [st EXCEPT ![c].phase = to]
  BY DEF Accept
<1> DEFINE T == [s EXCEPT !.phase = to]
<1>3. st' = [st EXCEPT ![c] = T]
  BY <1>2
<1>4. Moves(s, T, {"phase", "net"}) /\ T.net = s.net
  BY <1>0 DEF Moves, ConnField
<1> HIDE DEF T
<1>5. Sound(T, sink[c]) /\ T.kind = s.kind /\ (Fresh(T) => Fresh(s))
  BY <1>0, <1>1, <1>4, PhaseSound
<1> QED BY <1>1, <1>3, <1>5, Silent

\* socketengine.rs: accept_loop and accept_ws start a thread.
LEMMA AcceptThreadKeeps ==
  ASSUME IInv, NEW c \in Conn, AcceptThread(c)
  PROVE  IInv'
<1> DEFINE s == st[c]
<1>0. Sound(s, sink[c]) /\ DOMAIN s = ConnField /\ s.net \in Seq(Atoms)
  BY DEF IInv, Whole, Sound, Typed
<1>1. /\ s.phase = "dialing" /\ s.kind \in ThreadKinds /\ s.kind \notin ReactorKinds
      /\ UNCHANGED <<pending_reads, evq, sink>>
  BY DEF AcceptThread, ReactorKinds, ThreadKinds
<1>2. CASE st' = [st EXCEPT ![c].phase = "live"] /\ Tell(c, <<Ev("Connect", c)>>)
  <2> DEFINE T == [s EXCEPT !.phase = "live"]
             ev == <<Ev("Connect", c)>>
  <2>1. st' = [st EXCEPT ![c] = T]
    BY <1>2
  <2>2. Moves(s, T, {"phase", "net"}) /\ T.net = s.net /\ T.phase = "live"
    BY <1>0 DEF Moves, ConnField
  <2> HIDE DEF T
  <2>3. Sound(T, sink[c]) /\ T.kind = s.kind /\ (Fresh(T) => Fresh(s)) /\ Fresh(s) /\ ~Fresh(T)
    BY <1>0, <1>1, <2>2, PhaseSound
  <2>4. Said(ev, c) /\ Tell(c, ev)
    BY <1>2, BeginEnd
  <2> HIDE DEF ev
  <2> QED BY <1>1, <2>1, <2>3, <2>4, Told
<1>3. CASE st' = [st EXCEPT ![c].phase = "opening"] /\ UNCHANGED box
  <2> DEFINE T == [s EXCEPT !.phase = "opening"]
  <2>1. st' = [st EXCEPT ![c] = T]
    BY <1>3
  <2>2. Moves(s, T, {"phase", "net"}) /\ T.net = s.net /\ T.phase = "opening"
    BY <1>0 DEF Moves, ConnField
  <2> HIDE DEF T
  <2>3. Sound(T, sink[c]) /\ T.kind = s.kind /\ (Fresh(T) => Fresh(s))
    BY <1>0, <1>1, <2>2, PhaseSound
  <2> QED BY <1>1, <1>3, <2>1, <2>3, Silent
<1> QED BY <1>2, <1>3 DEF AcceptThread

\* socketengine.rs: the reactor adopts a connection.
LEMMA AdoptKeeps ==
  ASSUME IInv, NEW c \in Conn, Adopt(c)
  PROVE  IInv'
<1> DEFINE s == st[c]
           hs == s.kind = "tls"
           pr == s.kind = "proxy"
           ed == (IF Readable(s) THEN {"r"} ELSE {}) \cup (IF hs THEN {"w"} ELSE {})
           T == [s EXCEPT !.phase = "live", !.handshaking = hs, !.proxy_pending = pr,
                          !.want_write = hs, !.edge = ed]
           ev == IF hs \/ pr THEN <<>> ELSE <<Ev("Connect", c)>>
<1>0. Sound(s, sink[c]) /\ DOMAIN s = ConnField
  BY DEF IInv, Whole, Sound, Typed
<1>1. /\ s.phase = "handoff" /\ st' = [st EXCEPT ![c] = T] /\ Tell(Reactor, ev)
      /\ UNCHANGED <<pending_reads, evq, sink>>
  BY Zenon DEF Adopt
<1>2. Said(ev, c) /\ (Greeted(ev) => ~hs /\ ~pr)
  BY SaidNone, BeginEnd
<1> HIDE DEF ev, ed
<1>3. /\ Moves(s, T, {"phase", "handshaking", "proxy_pending", "want_write", "edge"})
      /\ T.phase = "live" /\ T.handshaking = hs /\ T.proxy_pending = pr
  BY <1>0 DEF Moves, ConnField
<1> HIDE DEF T
<1>4. /\ T.kind = s.kind /\ T.todo = s.todo /\ T.eof = s.eof /\ T.rst = s.rst /\ T.outq = s.outq
      /\ T.nout = s.nout /\ T.closing = s.closing /\ T.over = s.over
      /\ T.wdone = s.wdone /\ T.net = s.net /\ T.sess = s.sess /\ T.rbuf = s.rbuf
      /\ T.wbuf = s.wbuf /\ T.sout = s.sout
  BY <1>3 DEF Moves, ConnField
<1>5. Fresh(s) /\ sink[c] = "none" /\ ~s.closing /\ s.outq = <<>> /\ s.kind \in ReactorKinds
  BY <1>0, <1>1 DEF Sound, Fresh, Served, Ordered
<1>6. Typed(T)
  BY <1>0, <1>3, <1>4 DEF Sound, Typed, Moves
<1>7. Served(T)
  BY <1>3, <1>4, <1>5 DEF Served
<1>8. Ordered(T, sink[c])
  BY <1>0, <1>4, <1>5 DEF Sound, Ordered
<1>9. ReactorEnds(T, sink[c]) /\ ThreadEnds(T)
  BY <1>4, <1>5 DEF ReactorEnds, ThreadEnds, ReactorKinds, ThreadKinds
<1>10. Greeted(ev) => ~Fresh(T)
  BY <1>2, <1>3 DEF Fresh
<1>11. Sound(T, sink[c]) /\ T.kind = s.kind /\ Fresh(s)
  BY <1>4, <1>5, <1>6, <1>7, <1>8, <1>9 DEF Sound
<1> QED BY <1>1, <1>2, <1>10, <1>11, Told

\* socketengine.rs: the opening of a thread's connection.
LEMMA OpenKeeps ==
  ASSUME IInv, NEW c \in Conn, st[c].phase = "opening", st[c].kind \in ThreadKinds, NEW r, NEW n,
         r = "Ok" => n \in Seq(Atoms) /\ n # <<>>, Open(c, r, n)
  PROVE  IInv'
<1> DEFINE s == st[c]
<1>0. Sound(s, sink[c]) /\ DOMAIN s = ConnField /\ s.net \in Seq(Atoms)
  BY DEF IInv, Whole, Sound, Typed
<1>1. UNCHANGED <<pending_reads, evq, sink>> /\ s.kind \notin ReactorKinds
  BY DEF Open, ReactorKinds, ThreadKinds
<1>2. CASE /\ r = "Ok" /\ st' = [st EXCEPT ![c].phase = "live", ![c].net = Tail(n)]
           /\ Tell(c, <<Ev("Connect", c)>>)
  <2> DEFINE T == [s EXCEPT !.phase = "live", !.net = Tail(n)]
             ev == <<Ev("Connect", c)>>
  <2>1. st' = [st EXCEPT ![c] = T]
    BY <1>2 DEF IInv, Whole
  <2>2. Tail(n) \in Seq(Atoms)
    BY <1>2
  <2>3. Moves(s, T, {"phase", "net"}) /\ T.net = Tail(n) /\ T.phase = "live"
    BY <1>0 DEF Moves, ConnField
  <2> HIDE DEF T
  <2>4. T.net \in Seq(Atoms) /\ T.phase \in {"live", "gone"} /\ T.phase # "handoff"
    BY <2>2, <2>3
  <2>5. Moves(s, T, {"phase", "net"})
    BY <2>3
  <2>6. Sound(T, sink[c]) /\ T.kind = s.kind /\ (Fresh(T) => Fresh(s)) /\ Fresh(s) /\ ~Fresh(T)
    BY <1>0, <2>4, <2>5, PhaseSound
  <2>7. Said(ev, c) /\ Tell(c, ev)
    BY <1>2, BeginEnd
  <2> HIDE DEF ev
  <2> QED BY <1>1, <2>1, <2>6, <2>7, Told
<1>3. CASE st' = [st EXCEPT ![c].phase = "gone"] /\ UNCHANGED box
  <2> DEFINE T == [s EXCEPT !.phase = "gone"]
  <2>1. st' = [st EXCEPT ![c] = T]
    BY <1>3
  <2>2. Moves(s, T, {"phase", "net"}) /\ T.net = s.net /\ T.phase = "gone"
    BY <1>0 DEF Moves, ConnField
  <2> HIDE DEF T
  <2>3. Sound(T, sink[c]) /\ T.kind = s.kind /\ (Fresh(T) => Fresh(s))
    BY <1>0, <1>1, <2>2, PhaseSound
  <2> QED BY <1>1, <1>3, <2>1, <2>3, Silent
<1> QED BY <1>2, <1>3 DEF Open

\* websocket.rs: the upgrade of a web client.
LEMMA WsOpenKeeps ==
  ASSUME IInv, NEW c \in Conn, WsOpen(c)
  PROVE  IInv'
<1> DEFINE n == st[c].net
           r == do_handshake(n)
<1>1. st[c].phase = "opening" /\ st[c].kind \in ThreadKinds /\ Open(c, r, n)
  BY DEF WsOpen, ThreadKinds
<1>2. n \in Seq(Atoms)
  BY DEF IInv, Whole, Sound, Typed
<1>3. r = "Ok" => n # <<>>
  BY DEF do_handshake
<1> HIDE DEF r, n
<1> QED BY <1>1, <1>2, <1>3, OpenKeeps

\* proxy.rs, tls.rs: the header and the handshake of a TLS client of a proxy.
LEMMA TlsOpenKeeps ==
  ASSUME IInv, NEW c \in Conn, TlsOpen(c)
  PROVE  IInv'
<1> DEFINE w == st[c].net
           p == parse(w)
           n == SubSeq(w, p.used + 1, Len(w))
           r == CASE p.r = "Need" -> IF Len(n) > ProxyMax THEN "Refused" ELSE "Need"
                  [] p.r = "Header" -> do_handshake(n)
                  [] OTHER -> "Refused"
<1>1. st[c].phase = "opening" /\ st[c].kind = "stls" /\ Open(c, r, n)
  BY Zenon DEF TlsOpen
<1>2. w \in Seq(Atoms)
  BY DEF IInv, Whole, Sound, Typed
<1>3. n \in Seq(Atoms)
  <2> HIDE DEF w
  <2> QED BY <1>2, ParseUses, AfterHeader
<1> HIDE DEF n, p
<1>4. r = "Ok" => n # <<>>
  BY DEF do_handshake
<1>5. st[c].kind \in ThreadKinds
  BY <1>1 DEF ThreadKinds
<1> HIDE DEF r
<1> QED BY <1>1, <1>3, <1>4, <1>5, OpenKeeps

\* socketengine.rs: the read timeouts of an opening.
LEMMA OpenTimeoutKeeps ==
  ASSUME IInv, NEW c \in Conn, OpenTimeout(c)
  PROVE  IInv'
<1> DEFINE s == st[c]
           T == [s EXCEPT !.phase = "gone"]
<1>0. Sound(s, sink[c]) /\ DOMAIN s = ConnField /\ s.net \in Seq(Atoms)
  BY DEF IInv, Whole, Sound, Typed
<1>1. /\ s.phase = "opening" /\ st' = [st EXCEPT ![c] = T]
      /\ UNCHANGED <<pending_reads, box, evq, sink>>
  BY DEF OpenTimeout
<1>2. Moves(s, T, {"phase", "net"}) /\ T.net = s.net /\ T.phase = "gone"
  BY <1>0 DEF Moves, ConnField
<1> HIDE DEF T
<1>3. Sound(T, sink[c]) /\ T.kind = s.kind /\ (Fresh(T) => Fresh(s))
  BY <1>0, <1>1, <1>2, PhaseSound
<1> QED BY <1>1, <1>3, Silent

-----------------------------------------------------------------------------
(* The threads                                                             *)

\* socketengine.rs: core.send.
LEMMA SendStep ==
  ASSUME IInv, NEW t \in Conn \cup {Reactor}, Send(t)
  PROVE  IInv'
<1> DEFINE Q == Append(evq, Head(box[t]))
           B == [box EXCEPT ![t] = Tail(@)]
<1>1. /\ box[t] # <<>> /\ box' = B /\ evq' = Q
      /\ UNCHANGED <<st, pending_reads, sink>>
  BY DEF Send
<1>2. Once(evq, box) /\ t \in DOMAIN box
  BY DEF IInv, Whole, Once
<1>3. Once(Q, B) /\ \A d \in Conn : Unheard(evq, box, d) => Unheard(Q, B, d)
  BY <1>1, <1>2, SendKeeps
<1> HIDE DEF Q, B
<1>4. Whole(st, pending_reads, B, Q, sink)
  BY <1>3 DEF IInv, Whole
<1> QED BY <1>1, <1>4 DEF IInv

\* Events that announce nobody.
LEMMA QuietSaid ==
  ASSUME NEW q, NEW c, Quiet(q, c)
  PROVE  Said(q, c) /\ ~Greeted(q)
<1>1. PICK E : q \in Seq(E) /\ \A e \in E : e.c = c /\ e.e # "Connect"
  BY DEF Quiet
<1>2. \A i \in DOMAIN q : q[i].e # "Connect"
  BY <1>1
<1> QED BY <1>1, <1>2 DEF Said, Greeted

\* The end of a connection, alone.
LEMMA QuietEnd ==
  ASSUME NEW c
  PROVE  Quiet(<<Ev("Disconnect", c)>>, c)
<1> DEFINE e == Ev("Disconnect", c)
           q == <<>>
<1>1. e.c = c /\ e.e # "Connect" /\ Append(q, e) = <<e>>
  BY DEF Ev
<1>2. Quiet(q, c)
  BY QuietNone
<1> HIDE DEF e, q
<1>3. Quiet(Append(q, e), c)
  BY <1>1, <1>2, QuietOne
<1> QED BY <1>1, <1>3 DEF e

\* A thread reads, or ends.
LEMMA ThreadMoves ==
  ASSUME NEW s, NEW k, Sound(s, k), s.kind \in ThreadKinds, s.phase = "live",
         NEW T, Moves(s, T, {"phase", "net", "rbuf", "draining"}), T.phase \in {"live", "gone"},
         T.net \in Seq(Atoms), T.rbuf \in Seq(Bits)
  PROVE  Sound(T, k) /\ T.kind = s.kind /\ ~Fresh(T)
<1>1. /\ T.kind = s.kind /\ T.todo = s.todo /\ T.eof = s.eof /\ T.rst = s.rst /\ T.outq = s.outq
      /\ T.nout = s.nout /\ T.edge = s.edge /\ T.closing = s.closing /\ T.over = s.over
      /\ T.wdone = s.wdone /\ T.handshaking = s.handshaking
      /\ T.proxy_pending = s.proxy_pending /\ T.sess = s.sess
      /\ T.wbuf = s.wbuf /\ T.sout = s.sout
  BY DEF Moves, ConnField
<1>2. s.edge = {} /\ ~s.handshaking /\ ~s.proxy_pending
  BY DEF Sound, Served, ReactorKinds, ThreadKinds
<1>3. Typed(T)
  BY <1>1 DEF Sound, Typed, Moves
<1>4. Served(T) /\ ~Fresh(T)
  BY <1>1, <1>2 DEF Served, Fresh
<1>5. Ordered(T, k)
  BY <1>1, <1>4 DEF Sound, Ordered
<1>6. ReactorEnds(T, k)
  BY <1>1 DEF ReactorEnds, ReactorKinds, ThreadKinds
<1>7. ThreadEnds(T)
  BY <1>1 DEF Sound, ThreadEnds, Deaf
<1> QED BY <1>1, <1>3, <1>4, <1>5, <1>6, <1>7 DEF Sound

\* socketengine.rs: reader_loop.
LEMMA ReaderKeeps ==
  ASSUME IInv, NEW c \in Conn, ReaderLoop(c)
  PROVE  IInv'
<1> DEFINE s == st[c]
           nl == {i \in DOMAIN s.net : IsNl(s.net[i])}
           most == Defaults.recvq + 1
           take == Min({most} \cup nl \cup (IF s.eof THEN {Len(s.net)} ELSE {}))
           part == SubSeq(s.net, 1, take)
           line == [e |-> "Line", c |-> c, id |-> part[1].id, len |-> Bytes(part, part[1].id)]
           ev == IF take = most THEN <<Ev("TooLong", c)>>
                 ELSE IF line.len > 0 THEN <<line>> ELSE <<>>
<1>0. Sound(s, sink[c]) /\ DOMAIN s = ConnField /\ s.net \in Seq(Atoms) /\ s.rbuf \in Seq(Bits)
  BY DEF IInv, Whole, Sound, Typed
<1>1. /\ s.kind = "link" /\ s.phase = "live" /\ UNCHANGED <<pending_reads, evq, sink>>
      /\ \/ st' = [st EXCEPT ![c].phase = "gone"] /\ Tell(c, <<Ev("Disconnect", c)>>)
         \/ /\ take \in 1 .. Len(s.net)
            /\ st' = [st EXCEPT ![c].net = SubSeq(@, take + 1, Len(@))]
            /\ Tell(c, ev)
  BY Zenon DEF ReaderLoop
<1>2. s.kind \in ThreadKinds
  BY <1>1 DEF ThreadKinds
<1>3. CASE st' = [st EXCEPT ![c].phase = "gone"] /\ Tell(c, <<Ev("Disconnect", c)>>)
  <2> DEFINE T == [s EXCEPT !.phase = "gone"]
             bye == <<Ev("Disconnect", c)>>
  <2>1. st' = [st EXCEPT ![c] = T]
    BY <1>3
  <2>2. /\ Moves(s, T, {"phase", "net", "rbuf", "draining"}) /\ T.net = s.net
        /\ T.rbuf = s.rbuf /\ T.phase = "gone"
    BY <1>0 DEF Moves, ConnField
  <2> HIDE DEF T
  <2>3. Sound(T, sink[c]) /\ T.kind = s.kind /\ ~Fresh(T)
    BY <1>0, <1>1, <1>2, <2>2, ThreadMoves
  <2>4. Said(bye, c) /\ ~Greeted(bye) /\ Tell(c, bye)
    BY <1>3, BeginEnd
  <2> HIDE DEF bye
  <2> QED BY <1>1, <2>1, <2>3, <2>4, Told
<1>4. CASE /\ take \in 1 .. Len(s.net)
           /\ st' = [st EXCEPT ![c].net = SubSeq(@, take + 1, Len(@))]
           /\ Tell(c, ev)
  <2> DEFINE n == SubSeq(s.net, take + 1, Len(s.net))
             T == [s EXCEPT !.net = n]
  <2>1. Said(ev, c) /\ ~Greeted(ev)
    <3>1. line.c = c /\ line.e # "Connect"
      OBVIOUS
    <3>2. ev \in {<<Ev("TooLong", c)>>, <<line>>, <<>>}
      BY Zenon
    <3> HIDE DEF line, ev
    <3>3. Said(<<line>>, c) /\ ~Greeted(<<line>>)
      BY <3>1, OneEvent
    <3>4. CASE ev = <<Ev("TooLong", c)>>
      BY <3>4, BeginEnd
    <3>5. CASE ev = <<line>>
      BY <3>3, <3>5
    <3>6. CASE ev = <<>>
      BY <3>6, SaidNone
    <3> QED BY <3>2, <3>4, <3>5, <3>6
  <2> HIDE DEF ev, take
  <2>2. n \in Seq(Atoms)
    <3>1. take \in Nat
      BY <1>0, <1>4
    <3> QED BY <1>0, <3>1, AfterHeader
  <2>3. st' = [st EXCEPT ![c] = T]
    BY <1>4
  <2> HIDE DEF n
  <2>4. /\ Moves(s, T, {"phase", "net", "rbuf", "draining"}) /\ T.net = n
        /\ T.rbuf = s.rbuf /\ T.phase = s.phase
    BY <1>0 DEF Moves, ConnField
  <2> HIDE DEF T
  <2>5. Sound(T, sink[c]) /\ T.kind = s.kind /\ ~Fresh(T)
    BY <1>0, <1>1, <1>2, <2>2, <2>4, ThreadMoves
  <2>6. Tell(c, ev)
    BY <1>4
  <2> QED BY <1>1, <2>1, <2>3, <2>5, <2>6, Told
<1> QED BY <1>1, <1>3, <1>4

\* The head of an output queue, and what is behind it.
LEMMA OutTail ==
  ASSUME NEW s, NEW k, Sound(s, k), s.outq # <<>>
  PROVE  /\ Tail(s.outq) \in Seq(Msg) /\ k # "none"
         /\ 1 \in DOMAIN s.outq /\ Head(s.outq) = s.outq[1]
         /\ Head(s.outq).o = "close" => \A i \in DOMAIN s.outq : s.outq[i].o # "line"
         /\ \A i \in DOMAIN Tail(s.outq) : Tail(s.outq)[i].o = "close" =>
               k = "dropped" /\ i = Len(Tail(s.outq))
<1> DEFINE q == s.outq
           r == Tail(q)
<1>1. /\ q \in Seq(Msg) /\ k # "none"
      /\ \A i \in DOMAIN q : q[i].o = "close" => k = "dropped" /\ i = Len(q)
  BY DEF Sound, Typed, Ordered
<1> HIDE DEF q
<1>2. q # <<>>
  BY DEF q
<1>3. /\ r \in Seq(Msg) /\ Len(q) \in Nat /\ Len(q) >= 1 /\ Len(r) = Len(q) - 1
      /\ DOMAIN r = 1 .. Len(q) - 1 /\ DOMAIN q = 1 .. Len(q) /\ Head(q) = q[1]
      /\ \A i \in 1 .. Len(q) - 1 : r[i] = q[i + 1]
  BY <1>1, <1>2
<1> HIDE DEF r
<1>4. 1 \in DOMAIN q
  BY <1>3
<1>5. ASSUME Head(q).o = "close", NEW i \in DOMAIN q PROVE q[i].o # "line"
  <2>1. Len(q) = 1
    BY <1>1, <1>3, <1>4, <1>5
  <2>2. i = 1
    BY <1>3, <2>1
  <2> QED BY <1>3, <1>5, <2>2
<1>6. ASSUME NEW i \in DOMAIN r, r[i].o = "close" PROVE k = "dropped" /\ i = Len(r)
  <2>1. i + 1 \in DOMAIN q /\ q[i + 1].o = "close" /\ i \in Nat
    BY <1>3, <1>6
  <2>2. k = "dropped" /\ i + 1 = Len(q)
    BY <1>1, <2>1
  <2> QED BY <1>3, <2>1, <2>2
<1> QED BY <1>1, <1>3, <1>4, <1>5, <1>6 DEF q, r

\* A thread ends because the core let go, or its client is gone.
LEMMA WriteEnds ==
  ASSUME NEW s, NEW k, Sound(s, k), s.kind \in ThreadKinds, s.outq # <<>>,
         NEW T, Moves(s, T, {"phase", "eof", "wdone", "closing"}), T.eof \in BOOLEAN,
         T.wdone \in BOOLEAN, Deaf(T), T.closing = (Head(s.outq).o = "close"),
         T.phase \in {s.phase, "gone"}
  PROVE  Sound(T, k) /\ T.kind = s.kind /\ ~Fresh(T)
<1>1. /\ T.kind = s.kind /\ T.todo = s.todo /\ T.rst = s.rst /\ T.outq = s.outq
      /\ T.nout = s.nout /\ T.edge = s.edge /\ T.over = s.over
      /\ T.handshaking = s.handshaking /\ T.net = s.net /\ T.rbuf = s.rbuf
      /\ T.proxy_pending = s.proxy_pending /\ T.sess = s.sess
      /\ T.wbuf = s.wbuf /\ T.sout = s.sout
  BY DEF Moves, ConnField
<1>2. s.edge = {} /\ ~s.handshaking /\ ~s.proxy_pending /\ s.phase # "handoff"
  BY DEF Sound, Served, ReactorKinds, ThreadKinds
<1>3. /\ k # "none" /\ ~Fresh(s)
      /\ T.closing => \A i \in DOMAIN s.outq : s.outq[i].o # "line"
  BY OutTail DEF Sound, Ordered
<1>4. Typed(T)
  <2>1. T.closing \in BOOLEAN
    OBVIOUS
  <2> QED BY <1>1, <2>1 DEF Sound, Typed, Moves
<1>5. Served(T) /\ ~Fresh(T)
  BY <1>1, <1>2, <1>3 DEF Served, Fresh
<1>6. Ordered(T, k)
  BY <1>1, <1>3, <1>5 DEF Sound, Ordered
<1>7. ReactorEnds(T, k)
  BY <1>1 DEF ReactorEnds, ReactorKinds, ThreadKinds
<1>8. ThreadEnds(T)
  BY <1>1, <1>3 DEF Sound, ThreadEnds
<1> QED BY <1>1, <1>4, <1>5, <1>6, <1>7, <1>8 DEF Sound

\* A thread writes a line.
LEMMA WriteLine ==
  ASSUME NEW s, NEW k, Sound(s, k), s.kind \in ThreadKinds, s.outq # <<>>, ~s.closing,
         NEW T, Moves(s, T, {"outq", "wire", "draining"}), T.outq = Tail(s.outq)
  PROVE  Sound(T, k) /\ T.kind = s.kind /\ ~Fresh(T)
<1>1. /\ T.kind = s.kind /\ T.todo = s.todo /\ T.rst = s.rst /\ T.eof = s.eof
      /\ T.nout = s.nout /\ T.edge = s.edge /\ T.over = s.over /\ T.closing = s.closing
      /\ T.handshaking = s.handshaking /\ T.net = s.net /\ T.rbuf = s.rbuf
      /\ T.proxy_pending = s.proxy_pending /\ T.sess = s.sess /\ T.wdone = s.wdone
      /\ T.wbuf = s.wbuf /\ T.sout = s.sout /\ T.phase = s.phase
  BY DEF Moves, ConnField
<1>2. /\ T.outq \in Seq(Msg) /\ k # "none" /\ ~Fresh(s)
      /\ \A i \in DOMAIN T.outq : T.outq[i].o = "close" => k = "dropped" /\ i = Len(T.outq)
  BY OutTail DEF Sound, Ordered
<1>3. Typed(T)
  BY <1>1, <1>2 DEF Sound, Typed, Moves
<1>4. Served(T) /\ ~Fresh(T)
  BY <1>1, <1>2 DEF Sound, Served, Fresh
<1>5. Ordered(T, k)
  BY <1>1, <1>2, <1>4 DEF Sound, Ordered
<1>6. ReactorEnds(T, k)
  BY <1>1 DEF ReactorEnds, ReactorKinds, ThreadKinds
<1>7. ThreadEnds(T)
  BY <1>1 DEF Sound, ThreadEnds
<1> QED BY <1>1, <1>3, <1>4, <1>5, <1>6, <1>7 DEF Sound

\* socketengine.rs: writer_loop.
LEMMA WriterKeeps ==
  ASSUME IInv, NEW c \in Conn, WriterLoop(c)
  PROVE  IInv'
<1> DEFINE s == st[c]
           m == Head(s.outq)
           A == [s EXCEPT !.wdone = TRUE, !.eof = TRUE, !.closing = (m.o = "close")]
           C == [s EXCEPT !.outq = Tail(@), !.wire = Append(@, m.n)]
<1>0. Sound(s, sink[c]) /\ DOMAIN s = ConnField /\ DOMAIN st = Conn
  BY DEF IInv, Whole, Sound, Typed
<1>1. /\ s.kind = "link" /\ s.outq # <<>> /\ ~s.wdone
      /\ UNCHANGED <<pending_reads, box, evq, sink>>
      /\ \/ st' = [st EXCEPT ![c].wdone = TRUE, ![c].eof = TRUE, ![c].closing = (m.o = "close")]
         \/ st' = [st EXCEPT ![c].outq = Tail(@), ![c].wire = Append(@, m.n)]
  BY DEF WriterLoop
<1>2. st' = [st EXCEPT ![c] = A] \/ st' = [st EXCEPT ![c] = C]
  BY <1>0, <1>1
<1>3. s.kind \in ThreadKinds
  BY <1>1 DEF ThreadKinds
<1>4. CASE st' = [st EXCEPT ![c] = A]
  <2>1. /\ Moves(s, A, {"phase", "eof", "wdone", "closing"}) /\ A.eof = TRUE /\ A.wdone = TRUE
        /\ A.closing = (m.o = "close") /\ A.phase = s.phase
    BY <1>0 DEF Moves, ConnField
  <2> HIDE DEF A
  <2>2. Deaf(A)
    BY <2>1 DEF Deaf
  <2>3. Sound(A, sink[c]) /\ A.kind = s.kind /\ ~Fresh(A)
    BY <1>0, <1>1, <1>3, <2>1, <2>2, WriteEnds
  <2> QED BY <1>1, <1>4, <2>3, Silent
<1>5. CASE st' = [st EXCEPT ![c] = C]
  <2>1. Moves(s, C, {"outq", "wire", "draining"}) /\ C.outq = Tail(s.outq)
    BY <1>0 DEF Moves, ConnField
  <2> HIDE DEF C
  <2>2. ~s.closing
    BY <1>0, <1>1, <1>3 DEF Sound, ThreadEnds, Deaf
  <2>3. Sound(C, sink[c]) /\ C.kind = s.kind /\ ~Fresh(C)
    BY <1>0, <1>1, <1>3, <2>1, <2>2, WriteLine
  <2> QED BY <1>1, <1>5, <2>3, Silent
<1> QED BY <1>2, <1>4, <1>5

\* socketengine.rs, websocket.rs: the reading half of tls_conn and of io_loop.
LEMMA ThreadReadKeeps ==
  ASSUME IInv, NEW c \in Conn, ThreadRead(c)
  PROVE  IInv'
<1> DEFINE s == st[c]
           n == Min({Chunk, Len(s.net)})
           f0 == [rbuf |-> s.rbuf, ev |-> <<>>, stop |-> FALSE]
           ch == SubSeq(s.net, 1, n)
           f == IF s.kind = "ws" THEN FramesOf(c, f0, ch) ELSE OnBytes(c, f0, ch)
           end == f.stop \/ s.rst \/ s.net = <<>>
           left == SubSeq(s.net, n + 1, Len(s.net))
           ph == IF end THEN "gone" ELSE s.phase
           T == [s EXCEPT !.net = left, !.rbuf = f.rbuf, !.draining = ~end, !.phase = ph]
           ev == f.ev \o (IF end THEN <<Ev("Disconnect", c)>> ELSE <<>>)
<1>0. Sound(s, sink[c]) /\ DOMAIN s = ConnField /\ s.net \in Seq(Atoms) /\ s.rbuf \in Seq(Bits)
  BY DEF IInv, Whole, Sound, Typed
<1>1. /\ s.kind \in {"stls", "ws"} /\ s.phase = "live" /\ UNCHANGED <<pending_reads, evq, sink>>
      /\ st' = [st EXCEPT ![c] = T] /\ Tell(c, ev)
  BY Zenon DEF ThreadRead, FramesOf
<1>2. s.kind \in ThreadKinds
  BY <1>1 DEF ThreadKinds
<1>3. n \in Nat /\ n <= Len(s.net)
  <2> DEFINE P == {Chunk, Len(s.net)}
  <2>1. Chunk \in Nat /\ Len(s.net) \in Nat
    BY <1>0, SocketAssumption
  <2>2. P \in SUBSET Nat /\ P # {} /\ Len(s.net) \in P
    BY <2>1
  <2> HIDE DEF P
  <2>3. Min(P) \in P /\ \A y \in P : Min(P) <= y
    BY <2>2, MinIn
  <2>4. Min(P) \in Nat /\ Min(P) <= Len(s.net)
    BY <2>2, <2>3
  <2> QED BY <2>4 DEF P
<1> HIDE DEF n
<1>4. ch \in Seq(Atoms) /\ left \in Seq(Atoms)
  <2>1. ch \in Seq(Atoms)
    <3>1. 1 \in Nat /\ 1 >= 1 /\ n \in Int
      BY <1>3
    <3> QED BY <1>0, <1>3, <3>1, PartTyped
  <2>2. left \in Seq(Atoms)
    BY <1>0, <1>3, AfterHeader
  <2> QED BY <2>1, <2>2
<1> HIDE DEF ch, left
<1>5. Heard(f0, c)
  <2>1. DOMAIN f0 = {"rbuf", "ev", "stop"} /\ f0.rbuf = s.rbuf /\ f0.ev = <<>> /\ f0.stop = FALSE
    OBVIOUS
  <2> HIDE DEF f0
  <2> QED BY <1>0, <2>1, QuietNone DEF Heard
<1> HIDE DEF f0
<1>6. Heard(f, c)
  <2>1. Heard(FramesOf(c, f0, ch), c)
    BY <1>4, <1>5, FramesFold
  <2>2. ch \in Seq(Bits)
    <3>1. Atoms \subseteq Bits
      BY DEF Bits
    <3> QED BY <1>4, <3>1
  <2>3. Heard(OnBytes(c, f0, ch), c)
    BY <1>5, <2>2, OnBytesKeeps
  <2> QED BY <2>1, <2>3
<1> HIDE DEF f
<1>7. Said(ev, c) /\ ~Greeted(ev)
  <2> DEFINE bye == IF end THEN <<Ev("Disconnect", c)>> ELSE <<>>
  <2>1. Quiet(bye, c)
    BY QuietEnd, QuietNone
  <2> HIDE DEF bye
  <2>2. Quiet(f.ev \o bye, c)
    BY <1>6, <2>1, QuietMore DEF Heard
  <2>3. ev = f.ev \o bye
    BY DEF bye
  <2> HIDE DEF ev
  <2> QED BY <2>2, <2>3, QuietSaid
<1>8. ph \in {"live", "gone"}
  BY <1>1
<1> HIDE DEF ev, ph, end
<1>9. /\ Moves(s, T, {"phase", "net", "rbuf", "draining"}) /\ T.net = left
      /\ T.rbuf = f.rbuf /\ T.phase = ph
  BY <1>0 DEF Moves, ConnField
<1>10. f.rbuf \in Seq(Bits)
  BY <1>6 DEF Heard
<1> HIDE DEF T
<1>11. Sound(T, sink[c]) /\ T.kind = s.kind /\ ~Fresh(T)
  BY <1>0, <1>1, <1>2, <1>4, <1>8, <1>9, <1>10, ThreadMoves
<1> QED BY <1>1, <1>7, <1>11, Told

\* socketengine.rs, websocket.rs: the writing half.
LEMMA ThreadWriteKeeps ==
  ASSUME IInv, NEW c \in Conn, ThreadWrite(c)
  PROVE  IInv'
<1> DEFINE s == st[c]
           m == Head(s.outq)
           bye == IF s.kind = "ws" \/ m.o # "close" THEN <<Ev("Disconnect", c)>> ELSE <<>>
           A == [s EXCEPT !.draining = FALSE]
           C == [s EXCEPT !.phase = "gone", !.closing = (m.o = "close")]
           D == [s EXCEPT !.outq = Tail(@), !.wire = Append(@, m.n), !.draining = TRUE]
<1>0. /\ Sound(s, sink[c]) /\ DOMAIN s = ConnField /\ DOMAIN st = Conn
      /\ s.net \in Seq(Atoms) /\ s.rbuf \in Seq(Bits) /\ s.eof \in BOOLEAN /\ s.wdone \in BOOLEAN
  BY DEF IInv, Whole, Sound, Typed
<1>1. /\ s.kind \in {"stls", "ws"} /\ s.phase = "live" /\ UNCHANGED <<pending_reads, evq, sink>>
      /\ \/ st' = [st EXCEPT ![c].draining = FALSE] /\ UNCHANGED box
         \/ /\ s.outq # <<>> /\ Tell(c, bye)
            /\ st' = [st EXCEPT ![c].phase = "gone", ![c].closing = (m.o = "close")]
         \/ /\ s.outq # <<>> /\ m.o = "line" /\ UNCHANGED box
            /\ st' = [st EXCEPT ![c].outq = Tail(@), ![c].wire = Append(@, m.n),
                                ![c].draining = TRUE]
  BY DEF ThreadWrite
<1>2. s.kind \in ThreadKinds
  BY <1>1 DEF ThreadKinds
<1>3. \/ st' = [st EXCEPT ![c] = A] /\ UNCHANGED box
      \/ s.outq # <<>> /\ Tell(c, bye) /\ st' = [st EXCEPT ![c] = C]
      \/ s.outq # <<>> /\ m.o = "line" /\ UNCHANGED box /\ st' = [st EXCEPT ![c] = D]
  BY <1>0, <1>1
<1>4. CASE st' = [st EXCEPT ![c] = A] /\ UNCHANGED box
  <2>1. /\ Moves(s, A, {"phase", "net", "rbuf", "draining"}) /\ A.net = s.net /\ A.rbuf = s.rbuf
        /\ A.phase = s.phase
    BY <1>0 DEF Moves, ConnField
  <2> HIDE DEF A
  <2>2. Sound(A, sink[c]) /\ A.kind = s.kind /\ ~Fresh(A)
    BY <1>0, <1>1, <1>2, <2>1, ThreadMoves
  <2> QED BY <1>1, <1>4, <2>2, Silent
<1>5. CASE s.outq # <<>> /\ Tell(c, bye) /\ st' = [st EXCEPT ![c] = C]
  <2>1. /\ Moves(s, C, {"phase", "eof", "wdone", "closing"}) /\ C.eof = s.eof /\ C.wdone = s.wdone
        /\ C.closing = (m.o = "close") /\ C.phase = "gone" /\ C.kind = s.kind
    BY <1>0 DEF Moves, ConnField
  <2> HIDE DEF C
  <2>2. Deaf(C)
    BY <1>1, <2>1 DEF Deaf
  <2>3. Sound(C, sink[c]) /\ C.kind = s.kind /\ ~Fresh(C)
    BY <1>0, <1>2, <1>5, <2>1, <2>2, WriteEnds
  <2>4. Said(bye, c) /\ ~Greeted(bye)
    BY BeginEnd, SaidNone
  <2> HIDE DEF bye
  <2> QED BY <1>1, <1>5, <2>3, <2>4, Told
<1>6. CASE s.outq # <<>> /\ m.o = "line" /\ UNCHANGED box /\ st' = [st EXCEPT ![c] = D]
  <2>1. Moves(s, D, {"outq", "wire", "draining"}) /\ D.outq = Tail(s.outq)
    BY <1>0 DEF Moves, ConnField
  <2> HIDE DEF D
  <2>2. ~s.closing
    <3>1. 1 \in DOMAIN s.outq /\ s.outq[1].o = "line"
      BY <1>0, <1>6, OutTail
    <3> QED BY <1>0, <1>2, <3>1 DEF Sound, ThreadEnds
  <2>3. Sound(D, sink[c]) /\ D.kind = s.kind /\ ~Fresh(D)
    BY <1>0, <1>2, <1>6, <2>1, <2>2, WriteLine
  <2> QED BY <1>1, <1>6, <2>3, Silent
<1> QED BY <1>3, <1>4, <1>5, <1>6

\* websocket.rs: a web client that was silent for too long.
LEMMA WsIdleKeeps ==
  ASSUME IInv, NEW c \in Conn, WsIdle(c)
  PROVE  IInv'
<1> DEFINE s == st[c]
           T == [s EXCEPT !.phase = "gone"]
           bye == <<Ev("Disconnect", c)>>
<1>0. Sound(s, sink[c]) /\ DOMAIN s = ConnField /\ s.net \in Seq(Atoms) /\ s.rbuf \in Seq(Bits)
  BY DEF IInv, Whole, Sound, Typed
<1>1. /\ s.kind \in ThreadKinds /\ s.phase = "live" /\ UNCHANGED <<pending_reads, evq, sink>>
      /\ st' = [st EXCEPT ![c] = T] /\ Tell(c, bye)
  BY DEF WsIdle, ThreadKinds
<1>2. /\ Moves(s, T, {"phase", "net", "rbuf", "draining"}) /\ T.net = s.net
      /\ T.rbuf = s.rbuf /\ T.phase = "gone"
  BY <1>0 DEF Moves, ConnField
<1> HIDE DEF T
<1>3. Sound(T, sink[c]) /\ T.kind = s.kind /\ ~Fresh(T)
  BY <1>0, <1>1, <1>2, ThreadMoves
<1>4. Said(bye, c) /\ ~Greeted(bye)
  BY BeginEnd
<1> HIDE DEF bye
<1> QED BY <1>1, <1>3, <1>4, Told

-----------------------------------------------------------------------------
(* The core and the clients                                                *)

\* The core queues a message for a connection that it holds.
LEMMA QueueSound ==
  ASSUME NEW s, NEW k, Sound(s, "held"), NEW m \in Msg, k \in {"held", "dropped"},
         m.o = "close" => k = "dropped", NEW T, T = Queue(s, m)
  PROVE  Sound(T, k) /\ T.kind = s.kind /\ (Fresh(T) => Fresh(s))
<1>0. /\ Typed(s) /\ DOMAIN s = ConnField /\ s.outq \in Seq(Msg) /\ ~Fresh(s)
      /\ \A i \in DOMAIN s.outq : s.outq[i].o # "close"
  BY DEF Sound, Typed, Ordered
<1>1. CASE Deaf(s)
  <2>1. T = s
    BY <1>1 DEF Queue
  <2>2. Ordered(s, k) /\ ReactorEnds(s, k)
    BY <1>0 DEF Sound, Ordered, ReactorEnds
  <2> QED BY <2>1, <2>2 DEF Sound
<1>2. CASE ~Deaf(s)
  <2> DEFINE q == s.outq
             r == Append(q, m)
  <2>1. T = [s EXCEPT !.outq = r]
    BY <1>2 DEF Queue
  <2>2. /\ r \in Seq(Msg)
        /\ \A i \in DOMAIN r : r[i].o = "close" => k = "dropped" /\ i = Len(r)
    <3>1. q \in Seq(Msg) /\ \A i \in DOMAIN q : q[i].o # "close"
      BY <1>0
    <3> HIDE DEF q
    <3>2. /\ r \in Seq(Msg) /\ Len(q) \in Nat /\ Len(r) = Len(q) + 1
          /\ DOMAIN r = 1 .. Len(q) + 1 /\ DOMAIN q = 1 .. Len(q) /\ r[Len(q) + 1] = m
          /\ \A i \in 1 .. Len(q) : r[i] = q[i]
      BY <3>1
    <3> HIDE DEF r
    <3>3. \A i \in DOMAIN r : i \in DOMAIN q \/ i = Len(q) + 1
      BY <3>2
    <3> QED BY <3>1, <3>2, <3>3
  <2> HIDE DEF r
  <2>3. Moves(s, T, {"outq"}) /\ T.outq = r
    BY <1>0, <2>1 DEF Moves, ConnField
  <2>4. /\ T.kind = s.kind /\ T.todo = s.todo /\ T.rst = s.rst /\ T.eof = s.eof
        /\ T.nout = s.nout /\ T.edge = s.edge /\ T.over = s.over /\ T.closing = s.closing
        /\ T.handshaking = s.handshaking /\ T.net = s.net /\ T.rbuf = s.rbuf
        /\ T.proxy_pending = s.proxy_pending /\ T.sess = s.sess /\ T.wdone = s.wdone
        /\ T.wbuf = s.wbuf /\ T.sout = s.sout /\ T.phase = s.phase
    BY <2>3 DEF Moves, ConnField
  <2>5. Typed(T)
    BY <1>0, <2>2, <2>3, <2>4 DEF Typed, Moves
  <2>6. Served(T) /\ ~Fresh(T)
    BY <1>0, <2>4 DEF Sound, Served, Fresh
  <2>7. Ordered(T, k)
    BY <2>2, <2>3, <2>6 DEF Ordered
  <2>8. ReactorEnds(T, k)
    BY <2>4 DEF Sound, ReactorEnds
  <2>9. ThreadEnds(T)
    BY <1>2, <2>4 DEF Sound, ThreadEnds
  <2> QED BY <2>4, <2>5, <2>6, <2>7, <2>8, <2>9 DEF Sound
<1> QED BY <1>1, <1>2

\* Counters that the invariant does not look at.
LEMMA CountSound ==
  ASSUME NEW s, NEW k, Sound(s, k), NEW T, Moves(s, T, {"nout", "classed"}), T.nout \in Nat
  PROVE  Sound(T, k) /\ T.kind = s.kind /\ (Fresh(T) => Fresh(s))
<1>1. /\ T.kind = s.kind /\ T.todo = s.todo /\ T.rst = s.rst /\ T.eof = s.eof
      /\ T.outq = s.outq /\ T.edge = s.edge /\ T.over = s.over /\ T.closing = s.closing
      /\ T.handshaking = s.handshaking /\ T.net = s.net /\ T.rbuf = s.rbuf
      /\ T.proxy_pending = s.proxy_pending /\ T.sess = s.sess /\ T.wdone = s.wdone
      /\ T.wbuf = s.wbuf /\ T.sout = s.sout /\ T.phase = s.phase
  BY DEF Moves, ConnField
<1>2. Typed(T)
  BY <1>1 DEF Sound, Typed, Moves
<1>3. Served(T) /\ (Fresh(T) <=> Fresh(s))
  BY <1>1 DEF Sound, Served, Fresh
<1>4. Ordered(T, k)
  BY <1>1, <1>3 DEF Sound, Ordered
<1>5. ReactorEnds(T, k)
  BY <1>1 DEF Sound, ReactorEnds
<1>6. ThreadEnds(T)
  BY <1>1 DEF Sound, ThreadEnds, Deaf
<1> QED BY <1>1, <1>2, <1>3, <1>4, <1>5, <1>6 DEF Sound

\* users.rs: a line for a connection.
LEMMA CoreLineKeeps ==
  ASSUME IInv, NEW c \in Conn, CoreLine(c)
  PROVE  IInv'
<1> DEFINE s == st[c]
           n == s.nout + 1
           m == [o |-> "line", n |-> n]
           A == Queue(s, m)
           T == [A EXCEPT !.nout = n]
<1>0. Sound(s, sink[c]) /\ s.nout \in Nat
  BY DEF IInv, Whole, Sound, Typed
<1>1. /\ sink[c] = "held" /\ UNCHANGED <<pending_reads, box, evq, sink>>
      /\ st' = [st EXCEPT ![c] = T]
  BY Zenon DEF CoreLine
<1>2. n \in Nat /\ m \in Msg /\ m.o # "close"
  BY <1>0 DEF Msg
<1> HIDE DEF m, n
<1>3. Sound(A, sink[c]) /\ A.kind = s.kind /\ (Fresh(A) => Fresh(s))
  BY <1>0, <1>1, <1>2, QueueSound
<1> HIDE DEF A
<1>4. Moves(A, T, {"nout", "classed"}) /\ T.nout = n
  BY <1>3 DEF Sound, Typed, Moves, ConnField
<1> HIDE DEF T
<1>5. Sound(T, sink[c]) /\ T.kind = A.kind /\ (Fresh(T) => Fresh(A))
  BY <1>2, <1>3, <1>4, CountSound
<1> QED BY <1>1, <1>3, <1>5, Silent

\* users.rs: set_limits.
LEMMA CoreLimitsKeeps ==
  ASSUME IInv, NEW c \in Conn, CoreLimits(c)
  PROVE  IInv'
<1> DEFINE s == st[c]
           m == [o |-> "limits", n |-> 0]
           A == Queue(s, m)
           T == [A EXCEPT !.classed = TRUE]
<1>0. Sound(s, sink[c])
  BY DEF IInv, Whole
<1>1. /\ sink[c] = "held" /\ UNCHANGED <<pending_reads, box, evq, sink>>
      /\ st' = [st EXCEPT ![c] = T]
  BY Zenon DEF CoreLimits
<1>2. m \in Msg /\ m.o # "close"
  BY DEF Msg
<1> HIDE DEF m
<1>3. Sound(A, sink[c]) /\ A.kind = s.kind /\ (Fresh(A) => Fresh(s))
  BY <1>0, <1>1, <1>2, QueueSound
<1> HIDE DEF A
<1>4. Moves(A, T, {"nout", "classed"}) /\ T.nout = A.nout /\ A.nout \in Nat
  BY <1>3 DEF Sound, Typed, Moves, ConnField
<1> HIDE DEF T
<1>5. Sound(T, sink[c]) /\ T.kind = A.kind /\ (Fresh(T) => Fresh(A))
  BY <1>3, <1>4, CountSound
<1> QED BY <1>1, <1>3, <1>5, Silent

\* users.rs: the core removes the user.
LEMMA CoreDropKeeps ==
  ASSUME IInv, NEW c \in Conn, CoreDrop(c)
  PROVE  IInv'
<1> DEFINE s == st[c]
           m == [o |-> "close", n |-> 0]
           T == Queue(s, m)
           V == [st EXCEPT ![c] = T]
           L == [sink EXCEPT ![c] = "dropped"]
<1>0. Sound(s, sink[c])
  BY DEF IInv, Whole
<1>1. /\ sink[c] = "held" /\ UNCHANGED <<pending_reads, box, evq>>
      /\ st' = V /\ sink' = L
  BY Zenon DEF CoreDrop
<1>2. m \in Msg
  BY DEF Msg
<1> HIDE DEF m
<1>3. Sound(T, "dropped") /\ T.kind = s.kind
  BY <1>0, <1>1, <1>2, QueueSound
<1> HIDE DEF T
<1>4. Whole(V, pending_reads, box, evq, L)
  BY <1>1, <1>3, ConnDropped DEF IInv
<1> HIDE DEF V, L
<1> QED BY <1>1, <1>4 DEF IInv

\* The core hears of a connection.
LEMMA HeldSound ==
  ASSUME NEW s, Sound(s, "none"), ~Fresh(s)
  PROVE  Sound(s, "held")
<1>1. s.outq = <<>> /\ ~s.closing
  BY DEF Sound, Ordered
<1>2. Ordered(s, "held")
  BY <1>1 DEF Ordered
<1>3. ReactorEnds(s, "held")
  BY <1>1 DEF ReactorEnds
<1> QED BY <1>2, <1>3 DEF Sound

\* main.rs: the core takes an event.
LEMMA CoreTakeKeeps ==
  ASSUME IInv, CoreTake
  PROVE  IInv'
<1> DEFINE e == Head(evq)
           c == e.c
           ends == e.e = "Disconnect" /\ sink[c] = "held"
           m == [o |-> "close", n |-> 0]
           T == Queue(st[c], m)
           V == [st EXCEPT ![c] = T]
           Q == Tail(evq)
           L(k) == [sink EXCEPT ![c] = k]
<1>1. /\ evq # <<>> /\ evq' = Q /\ UNCHANGED <<pending_reads, box>>
      /\ sink' = L(IF e.e = "Connect" THEN "held" ELSE IF ends THEN "dropped" ELSE sink[c])
      /\ st' = IF ends THEN V ELSE st
  BY Zenon DEF CoreTake
<1>2. Once(evq, box) /\ DOMAIN sink = Conn /\ DOMAIN st = Conn
  BY DEF IInv, Whole
<1>3. /\ Once(Q, box) /\ c \in Conn
      /\ \A d \in Conn : Unheard(evq, box, d) \/ Greets(e, d) => Unheard(Q, box, d)
  BY <1>1, <1>2, TakeKeeps
<1>4. e = evq[1] /\ 1 \in DOMAIN evq
  BY <1>1, <1>2, TailEvents DEF Once
<1> HIDE DEF Q, e
<1>5. Whole(st, pending_reads, box, Q, sink)
  BY <1>3 DEF IInv, Whole
<1>6. CASE e.e = "Connect"
  <2> DEFINE K == L("held")
  <2>1. st' = st /\ sink' = K
    BY <1>1, <1>6
  <2>2. Greets(e, c)
    BY <1>6 DEF Greets
  <2>3. sink[c] = "none" /\ ~Fresh(st[c])
    BY <1>3, <1>4, <2>2 DEF IInv, Whole, Unheard
  <2>4. Sound(st[c], "held")
    BY <1>3, <2>3, HeldSound DEF IInv, Whole
  <2>5. DOMAIN K = Conn /\ K[c] = "held" /\ \A d \in Conn : d # c => K[d] = sink[d]
    BY <1>2, <1>3
  <2> HIDE DEF K
  <2>6. \A d \in Conn : Sound(st[d], K[d])
    BY <1>5, <2>4, <2>5 DEF Whole
  <2>7. \A d \in Conn : Unheard(Q, box, d) \/ (K[d] = "none" /\ ~Fresh(st[d]))
    BY <1>3, <1>5, <2>2, <2>5 DEF Whole
  <2>8. Whole(st, pending_reads, box, Q, K)
    BY <1>5, <2>5, <2>6, <2>7 DEF Whole
  <2> QED BY <1>1, <2>1, <2>8 DEF IInv
<1>7. CASE ends
  <2> DEFINE K == L("dropped")
  <2>1. st' = V /\ sink' = K
    BY <1>1, <1>7
  <2>2. m \in Msg
    BY DEF Msg
  <2> HIDE DEF m
  <2>3. Sound(T, "dropped") /\ T.kind = st[c].kind
    BY <1>3, <1>5, <1>7, <2>2, QueueSound DEF Whole
  <2> HIDE DEF T
  <2>4. Whole(V, pending_reads, box, Q, K)
    BY <1>3, <1>5, <1>7, <2>3, ConnDropped
  <2> HIDE DEF V, K
  <2> QED BY <1>1, <2>1, <2>4 DEF IInv
<1>8. CASE ~ends /\ e.e # "Connect"
  <2> DEFINE K == L(sink[c])
  <2>1. st' = st /\ sink' = K
    BY <1>1, <1>8
  <2>2. DOMAIN K = Conn /\ \A d \in Conn : K[d] = sink[d]
    BY <1>2
  <2> HIDE DEF K
  <2>3. Whole(st, pending_reads, box, Q, K)
    BY <1>5, <2>2 DEF Whole
  <2> QED BY <1>1, <2>1, <2>3 DEF IInv
<1> QED BY <1>6, <1>7, <1>8

\* What the client does, and the edge that it raises.
LEMMA PeerSound ==
  ASSUME NEW s, NEW k, Sound(s, k), NEW A, Moves(s, A, {"todo", "net", "eof", "rst", "wire"}),
         A.todo \in Seq(Atoms), A.net \in Seq(Atoms), A.eof \in BOOLEAN, A.rst \in BOOLEAN,
         s.eof => A.eof, s.rst => A.rst, NEW w, NEW T, T = Raise(A, w)
  PROVE  Sound(T, k) /\ T.kind = s.kind /\ (Fresh(T) => Fresh(s))
<1> DEFINE E == [A EXCEPT !.edge = @ \cup w]
<1>1. DOMAIN A = ConnField
  BY DEF Moves
<1>2. T = A \/ (A.kind \in ReactorKinds /\ A.phase = "live" /\ T = E)
  BY DEF Raise
<1>3. Moves(A, E, {"edge"}) /\ Moves(A, A, {"edge"})
  BY <1>1 DEF Moves, ConnField
<1> HIDE DEF E
<1>4. Moves(A, T, {"edge"}) /\ (T.edge = A.edge \/ (A.kind \in ReactorKinds /\ A.phase = "live"))
  BY <1>2, <1>3
<1>5. /\ T.todo = A.todo /\ T.net = A.net /\ T.eof = A.eof /\ T.rst = A.rst /\ T.kind = A.kind
      /\ T.phase = A.phase
  BY <1>4 DEF Moves, ConnField
<1>6. /\ A.kind = s.kind /\ A.edge = s.edge /\ A.phase = s.phase
  BY DEF Moves, ConnField
<1>7. /\ T.nout = s.nout /\ T.outq = s.outq /\ T.over = s.over /\ T.closing = s.closing
      /\ T.handshaking = s.handshaking /\ T.rbuf = s.rbuf /\ T.proxy_pending = s.proxy_pending
      /\ T.sess = s.sess /\ T.wdone = s.wdone /\ T.wbuf = s.wbuf /\ T.sout = s.sout
  BY <1>4 DEF Moves, ConnField
<1>8. Typed(T)
  BY <1>4, <1>5, <1>6, <1>7 DEF Sound, Typed, Moves
<1>9. Served(T) /\ (Fresh(T) <=> Fresh(s))
  BY <1>4, <1>5, <1>6, <1>7 DEF Sound, Served, Fresh
<1>10. Ordered(T, k)
  BY <1>7, <1>9 DEF Sound, Ordered
<1>11. ReactorEnds(T, k)
  BY <1>5, <1>6, <1>7 DEF Sound, ReactorEnds
<1>12. ThreadEnds(T)
  BY <1>5, <1>6, <1>7 DEF Sound, ThreadEnds, Deaf
<1> QED BY <1>5, <1>6, <1>8, <1>9, <1>10, <1>11, <1>12 DEF Sound

\* The client sends.
LEMMA PeerSendKeeps ==
  ASSUME IInv, NEW c \in Conn, PeerSend(c)
  PROVE  IInv'
<1> DEFINE s == st[c]
           to == Tail(s.todo)
           ne == Append(s.net, Head(s.todo))
           A == [s EXCEPT !.todo = to, !.net = ne]
           T == Raise(A, ReadEdge(s))
<1>0. /\ Sound(s, sink[c]) /\ DOMAIN s = ConnField /\ s.net \in Seq(Atoms) /\ s.todo \in Seq(Atoms)
      /\ s.eof \in BOOLEAN /\ s.rst \in BOOLEAN
  BY DEF IInv, Whole, Sound, Typed
<1>1. /\ s.todo # <<>> /\ UNCHANGED <<pending_reads, box, evq, sink>>
      /\ st' = [st EXCEPT ![c] = T]
  BY Zenon DEF PeerSend
<1>2. to \in Seq(Atoms) /\ ne \in Seq(Atoms)
  BY <1>0, <1>1
<1> HIDE DEF to, ne
<1>3. /\ Moves(s, A, {"todo", "net", "eof", "rst", "wire"}) /\ A.todo = to /\ A.net = ne
      /\ A.eof = s.eof /\ A.rst = s.rst
  BY <1>0 DEF Moves, ConnField
<1> HIDE DEF A
<1>4. Sound(T, sink[c]) /\ T.kind = s.kind /\ (Fresh(T) => Fresh(s))
  BY <1>0, <1>2, <1>3, PeerSound
<1> HIDE DEF T
<1> QED BY <1>1, <1>4, Silent

\* The client closes its side, or its connection breaks.
LEMMA PeerCloseKeeps ==
  ASSUME IInv, NEW c \in Conn, PeerClose(c)
  PROVE  IInv'
<1> DEFINE s == st[c]
           A == [s EXCEPT !.eof = TRUE]
           C == [s EXCEPT !.rst = TRUE, !.net = <<>>, !.wire = <<>>]
           w == ReadEdge(s) \cup (IF s.want_write THEN {"w"} ELSE {})
           T == Raise(A, ReadEdge(s))
           U == Raise(C, w)
<1>0. /\ Sound(s, sink[c]) /\ DOMAIN s = ConnField /\ s.net \in Seq(Atoms) /\ s.todo \in Seq(Atoms)
      /\ s.eof \in BOOLEAN /\ s.rst \in BOOLEAN /\ <<>> \in Seq(Atoms)
  BY DEF IInv, Whole, Sound, Typed
<1>1. /\ UNCHANGED <<pending_reads, box, evq, sink>>
      /\ st' = [st EXCEPT ![c] = T] \/ st' = [st EXCEPT ![c] = U]
  BY Zenon DEF PeerClose
<1>2. /\ Moves(s, A, {"todo", "net", "eof", "rst", "wire"}) /\ A.todo = s.todo /\ A.net = s.net
      /\ A.eof /\ A.eof \in BOOLEAN /\ A.rst = s.rst
  BY <1>0 DEF Moves, ConnField
<1>3. /\ Moves(s, C, {"todo", "net", "eof", "rst", "wire"}) /\ C.todo = s.todo /\ C.net = <<>>
      /\ C.eof = s.eof /\ C.rst /\ C.rst \in BOOLEAN
  BY <1>0 DEF Moves, ConnField
<1> HIDE DEF A, C, w
<1>4. /\ A.todo \in Seq(Atoms) /\ A.net \in Seq(Atoms) /\ A.eof \in BOOLEAN /\ A.rst \in BOOLEAN
      /\ (s.eof => A.eof) /\ (s.rst => A.rst)
  BY <1>0, <1>2
<1>5. Moves(s, A, {"todo", "net", "eof", "rst", "wire"})
  BY <1>2
<1>6. Sound(T, sink[c]) /\ T.kind = s.kind /\ (Fresh(T) => Fresh(s))
  BY <1>0, <1>4, <1>5, PeerSound
<1>7. Sound(U, sink[c]) /\ U.kind = s.kind /\ (Fresh(U) => Fresh(s))
  BY <1>0, <1>3, PeerSound
<1> HIDE DEF T, U
<1>8. CASE st' = [st EXCEPT ![c] = T]
  BY <1>1, <1>6, <1>8, Silent
<1>9. CASE st' = [st EXCEPT ![c] = U]
  BY <1>1, <1>7, <1>9, Silent
<1> QED BY <1>1, <1>8, <1>9

\* The client reads.
LEMMA PeerReadKeeps ==
  ASSUME IInv, NEW c \in Conn, PeerRead(c)
  PROVE  IInv'
<1> DEFINE s == st[c]
           A == [s EXCEPT !.wire = Tail(s.wire)]
           w == IF s.want_write /\ Len(s.wire) = WireMax THEN {"w"} ELSE {}
           T == Raise(A, w)
<1>0. /\ Sound(s, sink[c]) /\ DOMAIN s = ConnField /\ s.net \in Seq(Atoms) /\ s.todo \in Seq(Atoms)
      /\ s.eof \in BOOLEAN /\ s.rst \in BOOLEAN
  BY DEF IInv, Whole, Sound, Typed
<1>1. UNCHANGED <<pending_reads, box, evq, sink>> /\ st' = [st EXCEPT ![c] = T]
  BY Zenon DEF PeerRead
<1>2. /\ Moves(s, A, {"todo", "net", "eof", "rst", "wire"}) /\ A.todo = s.todo /\ A.net = s.net
      /\ A.eof = s.eof /\ A.rst = s.rst
  BY <1>0 DEF Moves, ConnField
<1> HIDE DEF A, w
<1>3. Sound(T, sink[c]) /\ T.kind = s.kind /\ (Fresh(T) => Fresh(s))
  BY <1>0, <1>2, PeerSound
<1> HIDE DEF T
<1> QED BY <1>1, <1>3, Silent

-----------------------------------------------------------------------------
(* The theorem                                                             *)

\* A new connection.
LEMMA NewSound ==
  ASSUME NEW x \in Scripts
  PROVE  Sound(NewConn(x.kind, x.script), "none")
<1> DEFINE T == NewConn(x.kind, x.script)
<1>1. /\ DOMAIN T = ConnField /\ T.kind = x.kind /\ T.todo = x.script /\ T.net = <<>>
      /\ T.sess = <<>> /\ T.rbuf = <<>> /\ T.outq = <<>> /\ T.nout = 0 /\ T.closing = FALSE
      /\ T.over = FALSE /\ T.rst = FALSE /\ T.eof = FALSE /\ T.handshaking = FALSE
      /\ T.proxy_pending = FALSE /\ T.wdone = FALSE /\ T.phase = "dialing" /\ T.edge = {}
      /\ T.wbuf = <<>> /\ T.sout = <<>>
  BY DEF NewConn, ConnField
<1> HIDE DEF T
<1>2. x.kind \in ReactorKinds \cup ThreadKinds /\ x.script \in Seq(Range(x.script))
  BY SocketAssumption
<1>3. x.script \in Seq(Atoms)
  <2>1. Range(x.script) \subseteq Atoms
    BY DEF Atoms
  <2> QED BY <1>2, <2>1
<1>4. <<>> \in Seq(Atoms) /\ <<>> \in Seq(Bits) /\ <<>> \in Seq(Msg)
  OBVIOUS
<1>5. Typed(T)
  <2>1. \A f \in {"closing", "over", "rst", "eof", "handshaking", "proxy_pending", "wdone"} :
           T[f] \in BOOLEAN
    BY <1>1
  <2>2. 0 \in Nat
    OBVIOUS
  <2> QED BY <1>1, <1>2, <1>3, <1>4, <2>1, <2>2 DEF Typed
<1>6. Served(T) /\ Ordered(T, "none") /\ ReactorEnds(T, "none") /\ ThreadEnds(T)
  BY <1>1 DEF Served, Ordered, ReactorEnds, ThreadEnds
<1>7. Sound(T, "none")
  BY <1>5, <1>6 DEF Sound
<1> QED BY <1>7 DEF T

\* The invariant holds at the start.
LEMMA InitSound ==
  ASSUME Init
  PROVE  IInv
<1>1. PICK f \in [Conn -> Scripts] : st = [c \in Conn |-> NewConn(f[c].kind, f[c].script)]
  BY DEF Init
<1>2. /\ pending_reads = {} /\ box = [t \in Conn \cup {Reactor} |-> <<>>]
      /\ evq = <<>> /\ sink = [c \in Conn |-> "none"]
  BY DEF Init
<1>3. \A c \in Conn : Sound(st[c], sink[c])
  <2> SUFFICES ASSUME NEW c \in Conn PROVE Sound(st[c], sink[c])
    OBVIOUS
  <2>1. f[c] \in Scripts /\ st[c] = NewConn(f[c].kind, f[c].script) /\ sink[c] = "none"
    BY <1>1, <1>2
  <2> QED BY <2>1, NewSound
<1>4. DOMAIN st = Conn /\ DOMAIN sink = Conn
  BY <1>1, <1>2
<1>5. /\ DOMAIN box = Conn \cup {Reactor} /\ \A t \in DOMAIN box : box[t] = <<>>
  BY <1>2
<1>6. Events(<<>>)
  <2> DEFINE E == {}
             q == <<>>
  <2>1. q \in Seq(E) /\ \A e \in E : e.c \in Conn
    OBVIOUS
  <2> HIDE DEF E, q
  <2>2. Events(q)
    BY <2>1 DEF Events
  <2> QED BY <2>2 DEF q
<1>7. Once(evq, box)
  BY <1>2, <1>5, <1>6 DEF Once
<1>8. \A c \in Conn : Unheard(evq, box, c)
  BY <1>2, <1>5 DEF Unheard
<1> QED BY <1>2, <1>3, <1>4, <1>7, <1>8 DEF IInv, Whole

\* Every step keeps the invariant.
LEMMA StepSound ==
  ASSUME IInv, [Next]_vars
  PROVE  IInv'
<1>1. ASSUME ReactorStep PROVE IInv'
  <2>1. CASE Send(Reactor)
    BY <2>1, SendStep
  <2>2. CASE \E c \in Conn : Adopt(c) \/ OnReadable(c) \/ OnWritable(c)
    BY <2>2, AdoptKeeps, OnReadableKeeps, OnWritableKeeps
  <2>3. CASE \E c \in Conn : Redrain(c) \/ OnWake(c) \/ HandshakeDeadline(c)
    BY <2>3, RedrainKeeps, OnWakeKeeps, DeadlineKeeps
  <2> QED BY <1>1, <2>1, <2>2, <2>3 DEF ReactorStep
<1>2. ASSUME NEW c \in Conn, ThreadStep(c) PROVE IInv'
  <2>1. CASE Accept(c) \/ AcceptThread(c) \/ Send(c)
    BY <2>1, AcceptKeeps, AcceptThreadKeeps, SendStep
  <2>2. CASE ReaderLoop(c) \/ TlsOpen(c) \/ WsOpen(c)
    BY <2>2, ReaderKeeps, TlsOpenKeeps, WsOpenKeeps
  <2>3. CASE OpenTimeout(c) \/ ThreadRead(c) \/ ThreadWrite(c)
    BY <2>3, OpenTimeoutKeeps, ThreadReadKeeps, ThreadWriteKeeps
  <2> QED BY <1>2, <2>1, <2>2, <2>3 DEF ThreadStep
<1>3. ASSUME NEW c \in Conn, WriterLoop(c) \/ WsIdle(c) \/ PeerRead(c) PROVE IInv'
  BY <1>3, WriterKeeps, WsIdleKeeps, PeerReadKeeps
<1>4. ASSUME NEW c \in Conn, CoreStep(c) PROVE IInv'
  BY <1>4, CoreLineKeeps, CoreLimitsKeeps, CoreDropKeeps DEF CoreStep
<1>5. ASSUME NEW c \in Conn, PeerStep(c) PROVE IInv'
  BY <1>5, PeerSendKeeps, PeerCloseKeeps DEF PeerStep
<1>6. ASSUME UNCHANGED vars PROVE IInv'
  BY <1>6 DEF vars, IInv
<1> QED BY <1>1, <1>2, <1>3, <1>4, <1>5, <1>6, CoreTakeKeeps DEF Next

\* The invariant says of each connection what the property asks.
LEMMA EndsClean ==
  ASSUME NEW s, NEW k, Sound(s, k), s.phase = "gone", s.closing, ~s.over, ~s.rst,
         s.kind = "link" \/ ~s.eof
  PROVE  ~Unsent(s)
<1>1. CASE s.kind \in ReactorKinds
  <2>1. s.kind # "link"
    BY <1>1 DEF ReactorKinds
  <2> QED BY <1>1, <2>1 DEF Sound, ReactorEnds, Unsent
<1>2. CASE s.kind \in ThreadKinds
  BY <1>2 DEF Sound, ThreadEnds, Unsent
<1> QED BY <1>1, <1>2 DEF Sound, Typed

\* The core's last lines are not lost with the connection: whatever the clients send, read
\* and break off, and in whatever order the reactor, the threads and the core run, a
\* connection that the core let go of is closed only when all its output has left the
\* process, unless it exceeded hardsendq or the client went first (flush_conn, close_conn,
\* writer_loop, tls_conn, io_loop).
THEOREM GoodbyesDelivered == Spec => []GoodbyeDelivered
<1>1. Init => IInv
  BY InitSound
<1>2. IInv /\ [Next]_vars => IInv'
  BY StepSound
<1>3. IInv => GoodbyeDelivered
  BY EndsClean DEF IInv, Whole, GoodbyeDelivered
<1> QED BY <1>1, <1>2, <1>3, PTL DEF Spec
=============================================================================
