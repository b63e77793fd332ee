-------------------------- MODULE Messages_proofs --------------------------
(***************************************************************************)
(* Acceptance follows the accepted user, watchers know, and nothing is     *)
(* disclosed late: the invariants of Messages for any users, nicks,        *)
(* channels, setups and limits.  A handler is a function of the state      *)
(* record, so the lemmas are about records S and T: Pres says what holds   *)
(* of the connections, their lists and the indexes, Disc what holds of the *)
(* messages, and each is kept by every function a handler calls.  Most     *)
(* functions change neither part (Frame).                                  *)
(***************************************************************************)
EXTENDS Messages, FoldFacts, FunctionTheorems

-----------------------------------------------------------------------------
(* The inductive invariant.                                                *)

UserField  == {"phase", "nick", "quitting", "accept", "watch", "monitor", "silence", "signore",
               "dcc", "solved", "times", "targets", "credit", "last", "floods", "hushed"}
StateField == {"users", "rooms", "index", "history", "batches", "now", "log", "shown", "told"}
IndexField == {"nick", "accepted", "watch", "monitor"}

Acceptee == [nick : Nick, to : User \cup {None}]
LogRec   == [to : SUBSET (Nick \cup Chan \cup {None}), from : User \cup {None}, ops : BOOLEAN,
             see : SUBSET User, reached : SUBSET User, redacted : BOOLEAN]
HistRec  == [id : Nat, from : Nick \cup {None}, event : BOOLEAN, ts : Nat]
PartRec  == [text : Text, concat : BOOLEAN]
Batch    == [target : Nick \cup Chan, notice : BOOLEAN, parts : Seq(PartRec), overflowed : BOOLEAN]

\* A state record has its fields, and the tables are total.
Shaped(S) ==
    /\ DOMAIN S = StateField
    /\ DOMAIN S.users = User
    /\ \A u \in User : DOMAIN S.users[u] = UserField
    /\ DOMAIN S.index = IndexField
    /\ \A t \in IndexField : DOMAIN S.index[t] = Nick
    /\ DOMAIN S.told = Lists \X User \X Nick

\* Who is connected, by which nick, and with which ACCEPT list.
Peopled(S) ==
    /\ \A u \in User :
          /\ S.users[u].phase \in {"out", "new", "in"}
          /\ S.users[u].nick \in Nick \cup {None}
          /\ S.users[u].phase = "out" => S.users[u].nick = None
          /\ S.users[u].phase = "in" => S.users[u].nick # None
          /\ S.users[u].accept \in Seq(Acceptee)
          /\ \A l \in Lists : S.users[u][l] \subseteq Nick
    /\ \A n \in Nick : S.index.accepted[n] \in Nat /\ S.index.nick[n] \in User \cup {None}

\* The nick index and the reverse indexes of the lists are exact.
Indexed(S) ==
    /\ \A n \in Nick, u \in User : S.index.nick[n] = u <=> S.users[u].nick = n
    /\ \A l \in Lists, n \in Nick, u \in User : u \in S.index[l][n] <=> n \in S.users[u][l]

Known(S, l, u, n) ==
    \/ S.told[<<l, u, n>>] = "early"
    \/ S.told[<<l, u, n>>] = StatusOf(S, n)
    \/ S.told[<<l, u, n>>] = "off" /\ StatusOf(S, n) = "early"

Knowing(S) == \A l \in Lists, u \in User : \A n \in S.users[u][l] : Known(S, l, u, n)

Following(S) == \A u \in User : \A i \in DOMAIN S.users[u].accept :
    S.users[u].accept[i].to # None =>
        S.users[S.users[u].accept[i].to].nick = S.users[u].accept[i].nick

Entries(S, n) == UNION {{u} \X Named(S.users[u], n) : u \in User}
Counted(S) == \A n \in Nick : S.index.accepted[n] >= Cardinality(Entries(S, n))

Pres(S) == Shaped(S) /\ Peopled(S) /\ Indexed(S) /\ Knowing(S) /\ Following(S) /\ Counted(S)

\* What a history holds of a conversation is of that conversation, is for
\* everybody in it and was not redacted.
Open_in(S, k, i) ==
    i \in 1 .. Len(S.log) /\ S.log[i].to = k /\ ~S.log[i].ops /\ ~S.log[i].redacted

\* Who may be shown an ops-only message.
Sees(e) == e.see \cup {e.from} \cup e.reached

Disc(S) ==
    /\ S.log \in Seq(LogRec) /\ S.history \in [Key -> Seq(HistRec)] /\ S.now \in Nat
    /\ S.batches \in [User -> Batch \cup {None}]
    /\ \A k \in Key : \A j \in 1 .. Len(S.history[k]) : Open_in(S, k, S.history[k][j].id)
    /\ \A x \in S.shown : /\ x[2] \in 1 .. Len(S.log) /\ ~x[3]
                          /\ S.log[x[2]].ops => x[1] \in Sees(S.log[x[2]])

Good(S) == Pres(S) /\ Disc(S)

-----------------------------------------------------------------------------
(* What most functions leave alone.                                        *)

CoreField == {"phase", "nick", "accept", "watch", "monitor"}

\* T has the connections, lists, indexes and answers of S.
SamePres(S, T) ==
    /\ Shaped(T)
    /\ T.index = S.index
    /\ T.told = S.told
    /\ \A u \in User, f \in CoreField : T.users[u][f] = S.users[u][f]

\* T has the messages of S.
SameDisc(S, T) ==
    /\ T.batches = S.batches
    /\ T.log = S.log
    /\ T.history = S.history
    /\ T.now = S.now
    /\ T.shown = S.shown

Frame(S, T) == SamePres(S, T) /\ SameDisc(S, T)

\* The fields of a user, one by one.
LEMMA SameFields ==
  ASSUME NEW S, NEW T, SamePres(S, T), NEW u \in User
  PROVE  /\ T.users[u].phase = S.users[u].phase
         /\ T.users[u].nick = S.users[u].nick
         /\ T.users[u].accept = S.users[u].accept
         /\ \A l \in Lists : T.users[u][l] = S.users[u][l]
BY DEF SamePres, CoreField, Lists

\* A frame leaves the statuses of the nicks and the entries as they are.
LEMMA SameStatus ==
  ASSUME NEW S, NEW T, Peopled(S), SamePres(S, T), NEW n \in Nick
  PROVE  StatusOf(T, n) = StatusOf(S, n) /\ Entries(T, n) = Entries(S, n)
<1>1. T.index = S.index
  BY DEF SamePres
<1>2. S.index.nick[n] \in User \cup {None}
  BY DEF Peopled
<1>3. StatusOf(T, n) = StatusOf(S, n)
  BY <1>1, <1>2, SameFields DEF StatusOf, find_nick, Registered
<1>4. \A u \in User : Named(T.users[u], n) = Named(S.users[u], n)
  BY SameFields DEF Named
<1>5. Entries(T, n) = Entries(S, n)
  BY <1>4 DEF Entries
<1> QED BY <1>3, <1>5

\* An open message is open wherever the log is the same.
LEMMA OpenFrame ==
  ASSUME NEW S, NEW T, T.log = S.log, NEW k, NEW i, Open_in(S, k, i)
  PROVE  Open_in(T, k, i)
BY DEF Open_in

\* A frame keeps the invariant of the messages.
LEMMA DiscFrame ==
  ASSUME NEW S, NEW T, Disc(S), SameDisc(S, T)
  PROVE  Disc(T)
BY SMTT(30) DEF Disc, SameDisc, Open_in

\* Frames compose.
LEMMA FrameTrans ==
  ASSUME NEW S, NEW T, NEW U, SamePres(S, T), SamePres(T, U)
  PROVE  SamePres(S, U)
BY DEF SamePres

\* A state is its own frame.
LEMMA FrameRefl ==
  ASSUME NEW S, Pres(S)
  PROVE  Frame(S, S)
BY DEF Frame, SamePres, SameDisc, Pres

\* One field of one user is set.
LEMMA PutFacts ==
  ASSUME NEW S, Shaped(S), NEW u \in User, NEW f \in UserField, NEW v
  PROVE  /\ Shaped(Put(S, u, f, v)) /\ SameDisc(S, Put(S, u, f, v))
         /\ Put(S, u, f, v).index = S.index /\ Put(S, u, f, v).told = S.told
         /\ Put(S, u, f, v).rooms = S.rooms
         /\ Put(S, u, f, v).users[u][f] = v
         /\ \A w \in User, g \in UserField :
               w # u \/ g # f => Put(S, u, f, v).users[w][g] = S.users[w][g]
<1> DEFINE T == Put(S, u, f, v)
<1>1. /\ DOMAIN S = StateField /\ DOMAIN S.users = User
      /\ \A w \in User : DOMAIN S.users[w] = UserField
  BY DEF Shaped
<1>2. T = [S EXCEPT !.users = [S.users EXCEPT ![u] = [S.users[u] EXCEPT ![f] = v]]]
  BY DEF Put
<1>3. /\ DOMAIN T = StateField
      /\ T.users = [S.users EXCEPT ![u] = [S.users[u] EXCEPT ![f] = v]]
      /\ T.index = S.index /\ T.told = S.told /\ T.rooms = S.rooms /\ SameDisc(S, T)
  <2> HIDE DEF T
  <2> QED BY <1>1, <1>2 DEF StateField, SameDisc
<1> HIDE DEF T
<1>4. /\ DOMAIN T.users = User
      /\ \A w \in User : w # u => T.users[w] = S.users[w]
      /\ T.users[u] = [S.users[u] EXCEPT ![f] = v]
  BY <1>1, <1>3
<1>5. /\ DOMAIN T.users[u] = UserField /\ T.users[u][f] = v
      /\ \A g \in UserField : g # f => T.users[u][g] = S.users[u][g]
  BY <1>1, <1>4
<1>6. Shaped(T)
  BY <1>1, <1>3, <1>4, <1>5 DEF Shaped
<1> QED BY <1>3, <1>4, <1>5, <1>6 DEF T

\* A field that no invariant speaks of is set.
LEMMA PutFrame ==
  ASSUME NEW S, Shaped(S), NEW u \in User, NEW f \in UserField \ CoreField, NEW v
  PROVE  Frame(S, Put(S, u, f, v))
<1>0. CoreField \subseteq UserField
  BY DEF CoreField, UserField
<1>1. \A w \in User, g \in CoreField : Put(S, u, f, v).users[w][g] = S.users[w][g]
  BY <1>0, PutFacts
<1> QED BY <1>1, PutFacts DEF Frame, SamePres

\* One entry of one index is set.
LEMMA IndexFacts ==
  ASSUME NEW S, Shaped(S), NEW t \in IndexField, NEW x \in Nick, NEW v
  PROVE  /\ Shaped(PutIndex(S, t, x, v)) /\ SameDisc(S, PutIndex(S, t, x, v))
         /\ PutIndex(S, t, x, v).users = S.users /\ PutIndex(S, t, x, v).told = S.told
         /\ PutIndex(S, t, x, v).rooms = S.rooms
         /\ PutIndex(S, t, x, v).index[t][x] = v
         /\ \A r \in IndexField, y \in Nick :
               r # t \/ y # x => PutIndex(S, t, x, v).index[r][y] = S.index[r][y]
<1> DEFINE T == PutIndex(S, t, x, v)
<1>1. /\ DOMAIN S = StateField /\ DOMAIN S.index = IndexField
      /\ \A r \in IndexField : DOMAIN S.index[r] = Nick
  BY DEF Shaped
<1>2. T = [S EXCEPT !.index = [S.index EXCEPT ![t] = [S.index[t] EXCEPT ![x] = v]]]
  BY DEF PutIndex
<1>3. /\ DOMAIN T = StateField
      /\ T.index = [S.index EXCEPT ![t] = [S.index[t] EXCEPT ![x] = v]]
      /\ T.users = S.users /\ T.told = S.told /\ T.rooms = S.rooms /\ SameDisc(S, T)
  <2> HIDE DEF T
  <2> QED BY <1>1, <1>2 DEF StateField, SameDisc
<1> HIDE DEF T
<1>4. /\ DOMAIN T.index = IndexField
      /\ \A r \in IndexField : r # t => T.index[r] = S.index[r]
      /\ T.index[t] = [S.index[t] EXCEPT ![x] = v]
  BY <1>1, <1>3
<1>5. /\ DOMAIN T.index[t] = Nick /\ T.index[t][x] = v
      /\ \A y \in Nick : y # x => T.index[t][y] = S.index[t][y]
  BY <1>1, <1>4
<1>6. Shaped(T)
  BY <1>1, <1>3, <1>4, <1>5 DEF Shaped
<1> QED BY <1>3, <1>4, <1>5, <1>6 DEF T

-----------------------------------------------------------------------------
(* A part of a sequence: the entries that are kept.                        *)

KeptEquation(s, K, it) ==
    it = [d \in SUBSET DOMAIN s |->
            IF d = {} THEN <<>> ELSE KeepIf(it[d \ {Max(d)}], s[Max(d)], K)]

\* The fold over the entries satisfies its equation.
LEMMA KeptFold ==
  ASSUME NEW s, NEW K, NEW it, KeptEquation(s, K, it)
  PROVE  \E jt : KeptEquation(s, K, jt) /\ Kept(s, K) = jt[DOMAIN s]
<1>1. PICK jt : jt = CHOOSE k : KeptEquation(s, K, k)
  OBVIOUS
<1>2. KeptEquation(s, K, jt)
  BY <1>1
<1>3. Kept(s, K) = jt[DOMAIN s]
  BY <1>1, Zenon DEF Kept, FoldLeft, MapThenFoldSet, KeptEquation
<1> QED BY <1>2, <1>3

\* a lists, without repetition, entries of s at the positions d that are in K.
Picks(a, s, K, d, f) ==
    /\ f \in [1 .. Len(a) -> d]
    /\ \A i, j \in 1 .. Len(a) : i # j => f[i] # f[j]
    /\ \A i \in 1 .. Len(a) : a[i] = s[f[i]] /\ a[i] \in K

\* One more position is looked at.
LEMMA PicksOne ==
  ASSUME NEW E, NEW n \in Nat, NEW s \in [1 .. n -> E], NEW K, NEW a \in Seq(E),
         NEW d \in SUBSET (1 .. n), NEW m \in d, NEW f, Picks(a, s, K, d \ {m}, f)
  PROVE  /\ KeepIf(a, s[m], K) \in Seq(E)
         /\ \E h : Picks(KeepIf(a, s[m], K), s, K, d, h)
<1>1. CASE s[m] \notin K
  <2>1. KeepIf(a, s[m], K) = a
    BY <1>1 DEF KeepIf
  <2>2. Picks(a, s, K, d, f)
    BY DEF Picks
  <2> QED BY <2>1, <2>2
<1>2. CASE s[m] \in K
  <2> DEFINE b == Append(a, s[m])
             h == [i \in 1 .. Len(b) |-> IF i = Len(b) THEN m ELSE f[i]]
  <2>1. KeepIf(a, s[m], K) = b
    BY <1>2 DEF KeepIf
  <2>2. /\ b \in Seq(E) /\ Len(a) \in Nat /\ Len(b) = Len(a) + 1 /\ b[Len(b)] = s[m]
        /\ \A i \in 1 .. Len(a) : b[i] = a[i]
    OBVIOUS
  <2> HIDE DEF b
  <2>3. \A i \in 1 .. Len(b) : i # Len(b) => i \in 1 .. Len(a)
    BY <2>2
  <2>4. h \in [1 .. Len(b) -> d]
    BY <2>2, <2>3 DEF Picks
  <2>5. \A i, j \in 1 .. Len(b) : i # j => h[i] # h[j]
    BY <2>2, <2>3 DEF Picks
  <2>6. \A i \in 1 .. Len(b) : b[i] = s[h[i]] /\ b[i] \in K
    BY <1>2, <2>2, <2>3 DEF Picks
  <2>7. Picks(b, s, K, d, h)
    <3> HIDE DEF h
    <3> QED BY <2>4, <2>5, <2>6 DEF Picks
  <2> QED BY <2>1, <2>2, <2>7
<1> QED BY <1>1, <1>2

\* What is kept is a part of the sequence, in K.
LEMMA KeptFacts ==
  ASSUME NEW E, NEW s \in Seq(E), NEW K
  PROVE  /\ Kept(s, K) \in Seq(E)
         /\ \E f : Picks(Kept(s, K), s, K, 1 .. Len(s), f)
<1> DEFINE n == Len(s)
           V == Seq(E)
           g == [p \in V \X (1 .. n) |-> KeepIf(p[1], s[p[2]], K)]
<1>0. n \in Nat /\ s \in [1 .. n -> E] /\ DOMAIN s = 1 .. n /\ <<>> \in V
  OBVIOUS
<1> HIDE DEF n
<1>1. g \in [V \X (1 .. n) -> V]
  BY <1>0 DEF KeepIf
<1>3. PICK it \in [SUBSET (1 .. n) -> V] : SeqFold(n, <<>>, g, it)
  <2> HIDE DEF V, g
  <2> QED BY <1>0, <1>1, SeqFoldExists, Zenon
<1>4. KeptEquation(s, K, it)
  <2>1. ASSUME NEW d \in SUBSET (1 .. n), d # {}
        PROVE  it[d] = KeepIf(it[d \ {Max(d)}], s[Max(d)], K)
    <3>1. Max(d) \in 1 .. n
      BY <1>0, <2>1, MaxIn
    <3>2. it[d \ {Max(d)}] \in V
      OBVIOUS
    <3> HIDE DEF V
    <3> QED BY <1>3, <2>1, <3>1, <3>2 DEF SeqFold
  <2>2. it[{}] = <<>>
    BY <1>3 DEF SeqFold
  <2> HIDE DEF V, g
  <2> QED BY <1>0, <2>1, <2>2 DEF KeptEquation
<1>5. PICK jt : KeptEquation(s, K, jt) /\ Kept(s, K) = jt[1 .. n]
  BY <1>0, <1>4, KeptFold
<1>6. jt[{}] = <<>> /\ \A d \in SUBSET (1 .. n) : d # {} =>
                       jt[d] = KeepIf(jt[d \ {Max(d)}], s[Max(d)], K)
  BY <1>0, <1>5 DEF KeptEquation
<1> DEFINE W == [d \in SUBSET (1 .. n) |-> {a \in V : \E f : Picks(a, s, K, d, f)}]
<1>7. jt[{}] \in W[{}]
  <2>1. Picks(<<>>, s, K, {}, <<>>)
    BY DEF Picks
  <2> HIDE DEF V
  <2> QED BY <1>0, <1>6, <2>1
<1>8. ASSUME NEW d \in SUBSET (1 .. n), d # {}, jt[d \ {Max(d)}] \in W[d \ {Max(d)}]
      PROVE  jt[d] \in W[d]
  <2> DEFINE m == Max(d)
             a == jt[d \ {m}]
             b == jt[d]
  <2>1. m \in d
    BY <1>0, <1>8, MaxIn
  <2>2. a \in Seq(E) /\ \E f : Picks(a, s, K, d \ {m}, f)
    BY <1>8
  <2>3. b = KeepIf(a, s[m], K)
    BY <1>6, <1>8
  <2> HIDE DEF a, b, m
  <2>4. b \in Seq(E) /\ \E f : Picks(b, s, K, d, f)
    <3>1. PICK f : Picks(a, s, K, d \ {m}, f)
      BY <2>2
    <3> QED BY <1>0, <2>1, <2>2, <2>3, <3>1, PicksOne
  <2>5. b \in W[d]
    BY <2>4
  <2> QED BY <2>5 DEF b
<1>9. jt[1 .. n] \in W[1 .. n]
  <2> HIDE DEF V, W
  <2> QED BY <1>0, <1>7, <1>8, SeqFoldStays
<1> QED BY <1>5, <1>9 DEF n

-----------------------------------------------------------------------------
(* How many entries name a nick.                                           *)

Lists_typed(S) == \A u \in User : S.users[u].accept \in Seq(Acceptee)
Others(S, u, n) == UNION {{v} \X Named(S.users[v], n) : v \in User \ {u}}

\* Smaller by an injection.
LEMMA CardInjection ==
  ASSUME NEW A, NEW B, IsFiniteSet(B), NEW f \in [A -> B],
         \A x, y \in A : x # y => f[x] # f[y]
  PROVE  IsFiniteSet(A) /\ Cardinality(A) <= Cardinality(B)
<1>1. f \in Injection(A, B)
  BY DEF Injection, IsInjective
<1> QED BY <1>1, FS_Injection

\* Finitely many finite sets, one for each user.
LEMMA UnionFinite ==
  ASSUME NEW U \in SUBSET User, NEW F, \A u \in U : IsFiniteSet(F[u])
  PROVE  IsFiniteSet(UNION {{u} \X F[u] : u \in U})
<1> DEFINE G == [u \in U |-> {u} \X F[u]]
           T == {{u} \X F[u] : u \in U}
<1>1. IsFiniteSet(U)
  BY MessagesAssumption, FS_Subset
<1>2. G \in Surjection(U, T)
  BY DEF Surjection
<1>3. IsFiniteSet(T)
  <2> HIDE DEF G, T
  <2> QED BY <1>1, <1>2, FS_Surjection
<1>4. ASSUME NEW X \in T PROVE IsFiniteSet(X)
  <2>1. PICK u \in U : X = {u} \X F[u]
    OBVIOUS
  <2>2. IsFiniteSet({u})
    BY FS_Singleton
  <2> QED BY <2>1, <2>2, FS_Product
<1> HIDE DEF T
<1>5. IsFiniteSet(UNION T)
  BY <1>3, <1>4, FS_UNION
<1> QED BY <1>5 DEF T

\* The entries of a user are finitely many.
LEMMA NamedFinite ==
  ASSUME NEW me, me.accept \in Seq(Acceptee), NEW n
  PROVE  /\ IsFiniteSet(Named(me, n)) /\ Cardinality(Named(me, n)) \in Nat
         /\ Named(me, n) \subseteq 1 .. Len(me.accept)
<1>1. Len(me.accept) \in Nat /\ DOMAIN me.accept = 1 .. Len(me.accept)
  OBVIOUS
<1>2. Named(me, n) \subseteq 1 .. Len(me.accept)
  BY <1>1 DEF Named
<1>3. IsFiniteSet(1 .. Len(me.accept))
  BY <1>1, FS_Interval
<1>4. IsFiniteSet(Named(me, n))
  BY <1>2, <1>3, FS_Subset
<1> QED BY <1>2, <1>4, FS_CardinalityType

\* All the entries are finitely many, with or without those of one user.
LEMMA EntriesFinite ==
  ASSUME NEW S, Lists_typed(S), NEW n, NEW u \in User
  PROVE  /\ IsFiniteSet(Entries(S, n)) /\ Cardinality(Entries(S, n)) \in Nat
         /\ IsFiniteSet(Others(S, u, n)) /\ Cardinality(Others(S, u, n)) \in Nat
<1> DEFINE F == [v \in User |-> Named(S.users[v], n)]
<1>1. \A v \in User : IsFiniteSet(F[v])
  BY NamedFinite DEF Lists_typed
<1>2. \A U \in SUBSET User : {{v} \X F[v] : v \in U} = {{v} \X Named(S.users[v], n) : v \in U}
  OBVIOUS
<1> HIDE DEF F
<1>3. IsFiniteSet(Entries(S, n))
  <2>1. IsFiniteSet(UNION {{v} \X F[v] : v \in User})
    BY <1>1, UnionFinite
  <2> QED BY <1>2, <2>1 DEF Entries
<1>4. IsFiniteSet(Others(S, u, n))
  <2>1. User \ {u} \in SUBSET User
    OBVIOUS
  <2>2. IsFiniteSet(UNION {{v} \X F[v] : v \in User \ {u}})
    BY <1>1, <2>1, UnionFinite
  <2> QED BY <1>2, <2>1, <2>2 DEF Others
<1> QED BY <1>3, <1>4, FS_CardinalityType

\* The entries of one user and those of the others.
LEMMA EntriesSplit ==
  ASSUME NEW S, Lists_typed(S), NEW n, NEW u \in User
  PROVE  Cardinality(Entries(S, n)) = Cardinality(Others(S, u, n)) + Cardinality(Named(S.users[u], n))
<1> DEFINE mine == {u} \X Named(S.users[u], n)
<1>1. Entries(S, n) = Others(S, u, n) \cup mine
  BY DEF Entries, Others
<1>2. Others(S, u, n) \cap mine = {}
  BY DEF Others
<1>3. IsFiniteSet(Others(S, u, n)) /\ Cardinality(Others(S, u, n)) \in Nat
  BY EntriesFinite
<1>4. IsFiniteSet(Named(S.users[u], n)) /\ Cardinality(Named(S.users[u], n)) \in Nat
  BY NamedFinite DEF Lists_typed
<1>5. IsFiniteSet({u}) /\ Cardinality({u}) = 1
  BY FS_Singleton
<1>6. IsFiniteSet(mine) /\ Cardinality(mine) = Cardinality(Named(S.users[u], n))
  <2>1. IsFiniteSet(mine) /\ Cardinality(mine) = 1 * Cardinality(Named(S.users[u], n))
    BY <1>4, <1>5, FS_Product
  <2> QED BY <1>4, <2>1
<1> HIDE DEF mine
<1>7. Cardinality(Entries(S, n)) = Cardinality(Others(S, u, n)) + Cardinality(mine) - Cardinality({})
  BY <1>1, <1>2, <1>3, <1>6, FS_Union
<1>8. Cardinality({}) = 0
  BY FS_EmptySet
<1> QED BY <1>3, <1>4, <1>6, <1>7, <1>8

\* Only u's list changed.
LEMMA OneList ==
  ASSUME NEW S, NEW T, Lists_typed(S), Lists_typed(T), NEW u \in User,
         \A v \in User : v # u => T.users[v].accept = S.users[v].accept, NEW n
  PROVE  Cardinality(Entries(T, n)) =
            Cardinality(Entries(S, n)) - Cardinality(Named(S.users[u], n))
                                       + Cardinality(Named(T.users[u], n))
<1>1. \A v \in User \ {u} : Named(T.users[v], n) = Named(S.users[v], n)
  BY DEF Named
<1>2. Others(T, u, n) = Others(S, u, n)
  BY <1>1 DEF Others
<1>3. /\ Cardinality(Others(S, u, n)) \in Nat
      /\ Cardinality(Named(S.users[u], n)) \in Nat /\ Cardinality(Named(T.users[u], n)) \in Nat
  BY EntriesFinite, NamedFinite DEF Lists_typed
<1>4. /\ Cardinality(Entries(S, n)) = Cardinality(Others(S, u, n)) + Cardinality(Named(S.users[u], n))
      /\ Cardinality(Entries(T, n)) = Cardinality(Others(T, u, n)) + Cardinality(Named(T.users[u], n))
  BY EntriesSplit
<1> QED BY <1>2, <1>3, <1>4

\* An injection of the entries of a list into those of another.
Into(you, me, f) ==
    /\ f \in [DOMAIN you.accept -> DOMAIN me.accept]
    /\ \A i, j \in DOMAIN you.accept : i # j => f[i] # f[j]
    /\ \A i \in DOMAIN you.accept : you.accept[i] = me.accept[f[i]]

\* Without a nick, a list has no entry of it and no more of any other.
LEMMA WithoutFacts ==
  ASSUME NEW me, NEW you, me.accept \in Seq(Acceptee), NEW n, you.accept = Without(me.accept, n)
  PROVE  /\ you.accept \in Seq(Acceptee)
         /\ Named(you, n) = {}
         /\ \E f : Into(you, me, f)
         /\ \A m : Cardinality(Named(you, m)) <= Cardinality(Named(me, m))
<1> DEFINE s == me.accept
           a == you.accept
           K == {e \in Range(s) : e.nick # n}
<1>1. a = Kept(s, K)
  BY DEF Without
<1>2. a \in Seq(Acceptee) /\ \E f : Picks(a, s, K, 1 .. Len(s), f)
  <2> HIDE DEF K, a, s
  <2>1. s \in Seq(Acceptee)
    BY DEF s
  <2> QED BY <1>1, <2>1, KeptFacts
<1>3. PICK f : Picks(a, s, K, 1 .. Len(s), f)
  BY <1>2
<1>4. DOMAIN a = 1 .. Len(a) /\ DOMAIN s = 1 .. Len(s)
  BY <1>2
<1>5. \A i \in DOMAIN a : f[i] \in DOMAIN s /\ a[i] = s[f[i]] /\ a[i].nick # n
  BY <1>3, <1>4 DEF Picks
<1>6. Named(you, n) = {}
  BY <1>5 DEF Named
<1>7. ASSUME NEW m PROVE Cardinality(Named(you, m)) <= Cardinality(Named(me, m))
  <2> DEFINE g == [i \in Named(you, m) |-> f[i]]
  <2>1. g \in [Named(you, m) -> Named(me, m)]
    BY <1>5 DEF Named
  <2>2. \A i, j \in Named(you, m) : i # j => g[i] # g[j]
    BY <1>3, <1>4 DEF Picks, Named
  <2>3. IsFiniteSet(Named(me, m))
    BY NamedFinite
  <2> HIDE DEF g
  <2> QED BY <2>1, <2>2, <2>3, CardInjection
<1>8. Into(you, me, f)
  BY <1>3, <1>4, <1>5 DEF Picks, Into
<1> QED BY <1>2, <1>6, <1>7, <1>8

\* Every list has lost its entries of a nick.
LEMMA AllWithout ==
  ASSUME NEW S, NEW T, Lists_typed(S), NEW n,
         \A u \in User : T.users[u].accept = Without(S.users[u].accept, n)
  PROVE  /\ Lists_typed(T)
         /\ Entries(T, n) = {}
         /\ \A m : Cardinality(Entries(T, m)) <= Cardinality(Entries(S, m))
<1>1. ASSUME NEW u \in User
      PROVE  /\ T.users[u].accept \in Seq(Acceptee) /\ Named(T.users[u], n) = {}
             /\ \E f : Into(T.users[u], S.users[u], f)
  BY WithoutFacts DEF Lists_typed
<1>2. Lists_typed(T)
  BY <1>1 DEF Lists_typed
<1>3. Entries(T, n) = {}
  BY <1>1 DEF Entries
<1>4. ASSUME NEW m PROVE Cardinality(Entries(T, m)) <= Cardinality(Entries(S, m))
  <2> DEFINE G == [u \in User |-> CHOOSE f : Into(T.users[u], S.users[u], f)]
             H == [x \in Entries(T, m) |-> <<x[1], G[x[1]][x[2]]>>]
  <2>1. \A u \in User : Into(T.users[u], S.users[u], G[u])
    BY <1>1
  <2> HIDE DEF G
  <2>2. ASSUME NEW x \in Entries(T, m)
        PROVE  /\ x = <<x[1], x[2]>> /\ x[1] \in User /\ x[2] \in Named(T.users[x[1]], m)
               /\ G[x[1]][x[2]] \in Named(S.users[x[1]], m)
    <3>1. PICK u \in User : x \in {u} \X Named(T.users[u], m)
      BY DEF Entries
    <3>2. x = <<x[1], x[2]>> /\ x[1] = u /\ x[2] \in Named(T.users[u], m)
      BY <3>1
    <3>3. G[u][x[2]] \in Named(S.users[u], m)
      BY <2>1, <3>2 DEF Into, Named
    <3> QED BY <3>2, <3>3
  <2>3. H \in [Entries(T, m) -> Entries(S, m)]
    <3> SUFFICES ASSUME NEW x \in Entries(T, m)
                 PROVE  <<x[1], G[x[1]][x[2]]>> \in Entries(S, m)
      OBVIOUS
    <3>1. <<x[1], G[x[1]][x[2]]>> \in {x[1]} \X Named(S.users[x[1]], m)
      BY <2>2
    <3> QED BY <2>2, <3>1 DEF Entries
  <2>4. ASSUME NEW x \in Entries(T, m), NEW y \in Entries(T, m), x # y
        PROVE  H[x] # H[y]
    <3>1. CASE x[1] # y[1]
      BY <3>1
    <3>2. CASE x[1] = y[1]
      <4>1. x[2] # y[2]
        BY <2>2, <2>4, <3>2
      <4>2. x[2] \in DOMAIN T.users[x[1]].accept /\ y[2] \in DOMAIN T.users[x[1]].accept
        BY <2>2, <3>2 DEF Named
      <4>3. G[x[1]][x[2]] # G[x[1]][y[2]]
        BY <2>1, <2>2, <4>1, <4>2 DEF Into
      <4> QED BY <3>2, <4>3
    <3> QED BY <3>1, <3>2
  <2>5. IsFiniteSet(Entries(S, m))
    <3>1. CASE User = {}
      <4>1. Entries(S, m) = {}
        BY <3>1 DEF Entries
      <4> QED BY <4>1, FS_EmptySet
    <3>2. CASE User # {}
      BY <3>2, EntriesFinite
    <3> QED BY <3>1, <3>2
  <2> HIDE DEF H
  <2> QED BY <2>3, <2>4, <2>5, CardInjection
<1> QED BY <1>2, <1>3, <1>4

-----------------------------------------------------------------------------
(* The ACCEPT list.                                                        *)

\* T differs from S in u's ACCEPT list and in the count of one nick only.
AcceptStep(S, T, u, n, acc, k) ==
    /\ Shaped(T) /\ T.told = S.told /\ SameDisc(S, T)
    /\ \A v \in User : /\ T.users[v].phase = S.users[v].phase
                       /\ T.users[v].nick = S.users[v].nick
                       /\ \A l \in Lists : T.users[v][l] = S.users[v][l]
                       /\ v # u => T.users[v].accept = S.users[v].accept
    /\ T.users[u].accept = acc
    /\ \A m \in Nick : /\ T.index.nick[m] = S.index.nick[m]
                       /\ \A l \in Lists : T.index[l][m] = S.index[l][m]
                       /\ m # n => T.index.accepted[m] = S.index.accepted[m]
    /\ T.index.accepted[n] = k

\* Both tables are written one after the other.
LEMMA AcceptStepBy ==
  ASSUME NEW S, Shaped(S), NEW u \in User, NEW n \in Nick, NEW acc, NEW k
  PROVE  AcceptStep(S, PutIndex(Put(S, u, "accept", acc), "accepted", n, k), u, n, acc, k)
<1> DEFINE A == Put(S, u, "accept", acc)
           T == PutIndex(A, "accepted", n, k)
<1>0. "accept" \in UserField /\ "accepted" \in IndexField
  BY DEF UserField, IndexField
<1>1. /\ Shaped(A) /\ SameDisc(S, A) /\ A.index = S.index /\ A.told = S.told
      /\ A.users[u]["accept"] = acc
      /\ \A w \in User, g \in UserField :
               w # u \/ g # "accept" => A.users[w][g] = S.users[w][g]
  BY <1>0, PutFacts
<1> HIDE DEF A
<1>2. /\ Shaped(T) /\ SameDisc(A, T) /\ T.users = A.users /\ T.told = A.told
      /\ T.index["accepted"][n] = k
      /\ \A r \in IndexField, y \in Nick :
               r # "accepted" \/ y # n => T.index[r][y] = A.index[r][y]
  BY <1>0, <1>1, IndexFacts
<1> HIDE DEF T
<1>3. SameDisc(S, T)
  BY <1>1, <1>2 DEF SameDisc
<1>4. \A v \in User : /\ T.users[v].phase = S.users[v].phase
                      /\ T.users[v].nick = S.users[v].nick
                      /\ \A l \in Lists : T.users[v][l] = S.users[v][l]
                      /\ v # u => T.users[v].accept = S.users[v].accept
  BY <1>1, <1>2 DEF UserField, Lists
<1>5. \A m \in Nick : /\ T.index.nick[m] = S.index.nick[m]
                      /\ \A l \in Lists : T.index[l][m] = S.index[l][m]
                      /\ m # n => T.index.accepted[m] = S.index.accepted[m]
  BY <1>1, <1>2 DEF IndexField, Lists
<1>6. AcceptStep(S, T, u, n, acc, k)
  BY <1>1, <1>2, <1>3, <1>4, <1>5 DEF AcceptStep
<1> QED BY <1>6 DEF A, T

\* Such a step keeps the invariant if its entries follow and are counted.
LEMMA AcceptStepKeeps ==
  ASSUME NEW S, Pres(S), NEW T, NEW u \in User, NEW n \in Nick, NEW acc \in Seq(Acceptee),
         NEW k \in Nat, AcceptStep(S, T, u, n, acc, k),
         \A i \in DOMAIN acc : acc[i].to # None => S.users[acc[i].to].nick = acc[i].nick,
         \A m \in Nick : m # n => Cardinality(Named(T.users[u], m))
                                     <= Cardinality(Named(S.users[u], m)),
         k >= Cardinality(Entries(S, n)) - Cardinality(Named(S.users[u], n))
                                         + Cardinality(Named(T.users[u], n))
  PROVE  Pres(T)
<1>1. /\ Peopled(S) /\ Indexed(S) /\ Knowing(S) /\ Following(S) /\ Counted(S)
  BY DEF Pres
<1>2. Shaped(T)
  BY DEF AcceptStep
<1>3. Peopled(T)
  BY <1>1, SMTT(30) DEF AcceptStep, Peopled
<1>4. Indexed(T)
  BY <1>1 DEF AcceptStep, Indexed
<1>5. \A m \in Nick : StatusOf(T, m) = StatusOf(S, m)
  BY <1>1 DEF AcceptStep, StatusOf, find_nick, Registered, Peopled
<1>6. Knowing(T)
  <2> SUFFICES ASSUME NEW l \in Lists, NEW v \in User, NEW m \in T.users[v][l]
               PROVE  Known(T, l, v, m)
    BY DEF Knowing
  <2>1. m \in S.users[v][l] /\ m \in Nick /\ T.told = S.told
    BY <1>1 DEF AcceptStep, Peopled
  <2>2. Known(S, l, v, m)
    BY <1>1, <2>1 DEF Knowing
  <2> QED BY <1>5, <2>1, <2>2 DEF Known
<1>7. Following(T)
  <2> SUFFICES ASSUME NEW v \in User, NEW i \in DOMAIN T.users[v].accept,
                      T.users[v].accept[i].to # None
               PROVE  T.users[T.users[v].accept[i].to].nick = T.users[v].accept[i].nick
    BY DEF Following
  <2>1. T.users[v].accept[i] \in Acceptee
    BY <1>3 DEF Peopled
  <2>2. T.users[v].accept[i].to \in User
    BY <2>1 DEF Acceptee
  <2>3. S.users[T.users[v].accept[i].to].nick = T.users[v].accept[i].nick
    BY <1>1 DEF AcceptStep, Following
  <2> QED BY <2>2, <2>3 DEF AcceptStep
<1>8. Counted(T)
  <2> SUFFICES ASSUME NEW m \in Nick PROVE T.index.accepted[m] >= Cardinality(Entries(T, m))
    BY DEF Counted
  <2>1. Lists_typed(S) /\ Lists_typed(T)
    BY <1>1, <1>3 DEF Lists_typed, Peopled
  <2>2. Cardinality(Entries(T, m)) =
            Cardinality(Entries(S, m)) - Cardinality(Named(S.users[u], m))
                                       + Cardinality(Named(T.users[u], m))
    BY <2>1, OneList DEF AcceptStep
  <2>3. /\ Cardinality(Entries(S, m)) \in Nat /\ Cardinality(Named(S.users[u], m)) \in Nat
        /\ Cardinality(Named(T.users[u], m)) \in Nat
    BY <2>1, EntriesFinite, NamedFinite DEF Lists_typed
  <2>4. S.index.accepted[m] \in Nat /\ S.index.accepted[m] >= Cardinality(Entries(S, m))
    BY <1>1 DEF Peopled, Counted
  <2>5. CASE m = n
    BY <2>2, <2>3, <2>5 DEF AcceptStep
  <2>6. CASE m # n
    <3>1. T.index.accepted[m] = S.index.accepted[m]
      BY <2>6 DEF AcceptStep
    <3>2. Cardinality(Named(T.users[u], m)) <= Cardinality(Named(S.users[u], m))
      BY <2>6
    <3> QED BY <2>2, <2>3, <2>4, <3>1, <3>2
  <2> QED BY <2>5, <2>6
<1> QED BY <1>2, <1>3, <1>4, <1>6, <1>7, <1>8 DEF Pres

\* A sequence with one element more.
LEMMA AppendFacts ==
  ASSUME NEW E, NEW s \in Seq(E), NEW e \in E
  PROVE  /\ Append(s, e) \in Seq(E) /\ Len(s) \in Nat /\ Len(Append(s, e)) = Len(s) + 1
         /\ DOMAIN Append(s, e) = 1 .. Len(s) + 1 /\ DOMAIN s = 1 .. Len(s)
         /\ Append(s, e)[Len(s) + 1] = e
         /\ \A i \in 1 .. Len(s) : Append(s, e)[i] = s[i]
OBVIOUS

\* An entry more for n, at the end of the list.
LEMMA NamedAppend ==
  ASSUME NEW me, NEW you, me.accept \in Seq(Acceptee), NEW e \in Acceptee,
         you.accept = Append(me.accept, e)
  PROVE  /\ \A m : m # e.nick => Named(you, m) = Named(me, m)
         /\ Cardinality(Named(you, e.nick)) = Cardinality(Named(me, e.nick)) + 1
<1> DEFINE k == Len(me.accept) + 1
<1>1. /\ k \in Nat /\ DOMAIN me.accept = 1 .. (k - 1) /\ DOMAIN you.accept = 1 .. k
      /\ you.accept[k] = e /\ \A i \in 1 .. (k - 1) : you.accept[i] = me.accept[i]
  BY AppendFacts
<1> HIDE DEF k
<1>2. \A i \in 1 .. k : i = k \/ i \in 1 .. (k - 1)
  BY <1>1
<1>3. k \in 1 .. k /\ k \notin 1 .. (k - 1) /\ 1 .. (k - 1) \subseteq 1 .. k
  <2>1. k > 0
    BY DEF k
  <2> QED BY <1>1, <2>1
<1>4. \A m : m # e.nick => Named(you, m) = Named(me, m)
  BY <1>1, <1>2, <1>3 DEF Named
<1>5. Named(you, e.nick) = Named(me, e.nick) \cup {k} /\ k \notin Named(me, e.nick)
  BY <1>1, <1>2, <1>3 DEF Named
<1>6. IsFiniteSet(Named(me, e.nick))
  BY NamedFinite
<1> QED BY <1>4, <1>5, <1>6, FS_AddElement

\* accept_add keeps the invariant: the entry names who has the nick, and is counted.
LEMMA AcceptAddKeeps ==
  ASSUME NEW S, Pres(S), NEW u \in User, NEW n \in Nick
  PROVE  Pres(accept_add(S, u, n)) /\ SameDisc(S, accept_add(S, u, n))
<1> DEFINE e == [nick |-> n, to |-> S.index.nick[n]]
           acc == Append(S.users[u].accept, e)
           k == S.index.accepted[n] + 1
           T == accept_add(S, u, n)
<1>1. /\ Shaped(S) /\ Peopled(S) /\ Indexed(S) /\ Following(S) /\ Counted(S)
  BY DEF Pres
<1>2. S.users[u].accept \in Seq(Acceptee) /\ S.index.nick[n] \in User \cup {None}
      /\ S.index.accepted[n] \in Nat
  BY <1>1 DEF Peopled
<1>3. e \in Acceptee
  BY <1>2 DEF Acceptee
<1>4. T = PutIndex(Put(S, u, "accept", acc), "accepted", n, k)
  BY DEF accept_add, find_nick
<1> HIDE DEF T
<1>5. AcceptStep(S, T, u, n, acc, k)
  BY <1>1, <1>4, AcceptStepBy
<1> DEFINE old == S.users[u].accept
<1>6. /\ acc \in Seq(Acceptee) /\ k \in Nat /\ Len(old) \in Nat
      /\ DOMAIN acc = 1 .. Len(old) + 1 /\ DOMAIN old = 1 .. Len(old)
      /\ acc[Len(old) + 1] = e /\ \A i \in 1 .. Len(old) : acc[i] = old[i]
  <2>1. k \in Nat
    BY <1>2
  <2> HIDE DEF e, k
  <2> QED BY <1>2, <1>3, <2>1, AppendFacts
<1>7. \A i \in DOMAIN acc : i = Len(old) + 1 \/ i \in 1 .. Len(old)
  BY <1>6
<1>8. ASSUME NEW i \in DOMAIN acc, acc[i].to # None PROVE S.users[acc[i].to].nick = acc[i].nick
  <2>1. CASE i = Len(old) + 1
    <3>1. acc[i].to = S.index.nick[n] /\ acc[i].nick = n
      BY <1>6, <2>1
    <3> HIDE DEF acc
    <3> QED BY <1>1, <1>2, <1>8, <3>1 DEF Indexed
  <2>2. CASE i \in 1 .. Len(old)
    <3>1. acc[i] = old[i] /\ i \in DOMAIN old
      BY <1>6, <2>2
    <3> HIDE DEF acc
    <3> QED BY <1>1, <1>8, <3>1 DEF Following
  <2> QED BY <1>7, <2>1, <2>2
<1>9. /\ \A m \in Nick : m # n => Named(T.users[u], m) = Named(S.users[u], m)
      /\ Cardinality(Named(T.users[u], n)) = Cardinality(Named(S.users[u], n)) + 1
  <2>1. T.users[u].accept = Append(S.users[u].accept, e)
    BY <1>5 DEF AcceptStep
  <2>2. e.nick = n
    OBVIOUS
  <2> HIDE DEF acc, e
  <2> DEFINE me == S.users[u]
             you == T.users[u]
  <2>3. me.accept \in Seq(Acceptee) /\ you.accept = Append(me.accept, e)
    BY <1>2, <2>1
  <2> HIDE DEF me, you
  <2>4. /\ \A m : m # e.nick => Named(you, m) = Named(me, m)
        /\ Cardinality(Named(you, e.nick)) = Cardinality(Named(me, e.nick)) + 1
    BY <1>3, <2>3, NamedAppend
  <2> QED BY <2>2, <2>4 DEF me, you
<1>10. \A m : Cardinality(Named(S.users[u], m)) \in Nat
  BY <1>2, NamedFinite
<1>12. S.index.accepted[n] >= Cardinality(Entries(S, n)) /\ Cardinality(Entries(S, n)) \in Nat
  <2>1. Lists_typed(S)
    BY <1>1 DEF Peopled, Lists_typed
  <2> QED BY <1>1, <2>1, EntriesFinite DEF Counted
<1>13. k >= Cardinality(Entries(S, n)) - Cardinality(Named(S.users[u], n))
                                         + Cardinality(Named(T.users[u], n))
  BY <1>2, <1>9, <1>10, <1>12
<1>14. \A m \in Nick : m # n => Cardinality(Named(T.users[u], m))
                                     <= Cardinality(Named(S.users[u], m))
  BY <1>9, <1>10
<1>15. Pres(T)
  <2> HIDE DEF acc, k
  <2> QED BY <1>5, <1>6, <1>8, <1>13, <1>14, AcceptStepKeeps
<1> QED BY <1>5, <1>15 DEF AcceptStep, T

\* accept_remove keeps the invariant: several entries may go and the count falls by one.
LEMMA AcceptRemoveKeeps ==
  ASSUME NEW S, Pres(S), NEW u \in User, NEW n \in Nick
  PROVE  Pres(accept_remove(S, u, n)) /\ SameDisc(S, accept_remove(S, u, n))
<1> DEFINE acc == Without(S.users[u].accept, n)
           k == SatSub(S.index.accepted[n], 1)
           T == accept_remove(S, u, n)
<1>1. /\ Shaped(S) /\ Peopled(S) /\ Following(S) /\ Counted(S) /\ Lists_typed(S)
  BY DEF Pres, Lists_typed, Peopled
<1>2. S.users[u].accept \in Seq(Acceptee) /\ S.index.accepted[n] \in Nat
  BY <1>1 DEF Peopled
<1>3. CASE ~is_accepted(S, u, n)
  BY <1>3 DEF accept_remove, SameDisc
<1>4. CASE is_accepted(S, u, n)
  <2>1. T = PutIndex(Put(S, u, "accept", acc), "accepted", n, k)
    BY <1>4 DEF accept_remove
  <2> HIDE DEF T, acc, k
  <2>2. AcceptStep(S, T, u, n, acc, k)
    BY <1>1, <2>1, AcceptStepBy
  <2>3. T.users[u].accept = Without(S.users[u].accept, n)
    BY <2>2 DEF AcceptStep, acc
  <2>4. /\ T.users[u].accept \in Seq(Acceptee) /\ Named(T.users[u], n) = {}
        /\ \E f : Into(T.users[u], S.users[u], f)
        /\ \A m : Cardinality(Named(T.users[u], m)) <= Cardinality(Named(S.users[u], m))
    BY <1>2, <2>3, WithoutFacts
  <2>5. acc = T.users[u].accept
    BY <2>3 DEF acc
  <2>6. \A i \in DOMAIN acc : acc[i].to # None => S.users[acc[i].to].nick = acc[i].nick
    <3>1. PICK f : Into(T.users[u], S.users[u], f)
      BY <2>4
    <3> QED BY <1>1, <2>5, <3>1 DEF Into, Following
  <2>7. Named(S.users[u], n) # {}
    BY <1>4 DEF is_accepted, Named
  <2>8. IsFiniteSet(Named(S.users[u], n)) /\ Cardinality(Named(S.users[u], n)) \in Nat
    BY <1>2, NamedFinite
  <2>9. Cardinality(Named(S.users[u], n)) >= 1 /\ Cardinality(Named(T.users[u], n)) = 0
    BY <2>4, <2>7, <2>8, FS_EmptySet
  <2>10. S.index.accepted[n] >= Cardinality(Entries(S, n)) /\ Cardinality(Entries(S, n)) \in Nat
    BY <1>1, EntriesFinite DEF Counted
  <2>11. k \in Nat /\ k >= S.index.accepted[n] - 1
    BY <1>2 DEF k, SatSub
  <2>12. k >= Cardinality(Entries(S, n)) - Cardinality(Named(S.users[u], n))
                                         + Cardinality(Named(T.users[u], n))
    BY <1>2, <2>8, <2>9, <2>10, <2>11
  <2>13. Pres(T)
    BY <2>2, <2>4, <2>5, <2>6, <2>11, <2>12, AcceptStepKeeps
  <2> QED BY <2>2, <2>13 DEF AcceptStep, T
<1> QED BY <1>3, <1>4

-----------------------------------------------------------------------------
(* WATCH and MONITOR: answers, lists and reverse indexes.                  *)

\* Everything but what the watchers were told.
Base(S) == Shaped(S) /\ Peopled(S) /\ Indexed(S) /\ Following(S) /\ Counted(S)

\* Only answers were given.
ToldOnly(S, T) ==
    /\ Shaped(T) /\ T.users = S.users /\ T.index = S.index /\ T.rooms = S.rooms
    /\ SameDisc(S, T)

\* Notify tells whoever is in the index.
LEMMA NotifyFacts ==
  ASSUME NEW S, Shaped(S), NEW n \in Nick, NEW v
  PROVE  /\ ToldOnly(S, Notify(S, n, v))
         /\ \A l \in Lists, u \in User, m \in Nick :
               Notify(S, n, v).told[<<l, u, m>>] =
                   IF m = n /\ u \in S.index[l][n] THEN v ELSE S.told[<<l, u, m>>]
<1> DEFINE asked == {x \in Lists \X User \X {n} : x[2] \in S.index[x[1]][n]}
           t == [x \in DOMAIN S.told |-> IF x \in asked THEN v ELSE S.told[x]]
           T == Notify(S, n, v)
<1>1. DOMAIN S = StateField /\ DOMAIN S.told = Lists \X User \X Nick
  BY DEF Shaped
<1>2. T = [S EXCEPT !.told = t]
  BY DEF Notify, Tell
<1> HIDE DEF T, t
<1>3. /\ DOMAIN T = StateField /\ T.told = t
      /\ T.users = S.users /\ T.index = S.index /\ T.rooms = S.rooms /\ SameDisc(S, T)
  BY <1>1, <1>2 DEF StateField, SameDisc
<1>4. DOMAIN t = Lists \X User \X Nick
  BY <1>1 DEF t
<1>5. ToldOnly(S, T)
  BY <1>3, <1>4 DEF ToldOnly, Shaped
<1>6. ASSUME NEW l \in Lists, NEW u \in User, NEW m \in Nick
      PROVE  T.told[<<l, u, m>>] = IF m = n /\ u \in S.index[l][n] THEN v ELSE S.told[<<l, u, m>>]
  <2>1. <<l, u, m>> \in Lists \X User \X Nick
    OBVIOUS
  <2>2. <<l, u, m>> \in asked <=> m = n /\ u \in S.index[l][n]
    OBVIOUS
  <2>3. t[<<l, u, m>>] = IF <<l, u, m>> \in asked THEN v ELSE S.told[<<l, u, m>>]
    BY <1>1, <2>1 DEF t
  <2> HIDE DEF asked
  <2> QED BY <1>3, <2>2, <2>3
<1> QED BY <1>5, <1>6 DEF T

\* Answer tells one user of some nicks.
LEMMA AnswerFacts ==
  ASSUME NEW S, Shaped(S), NEW l \in Lists, NEW u \in User, NEW nicks
  PROVE  /\ ToldOnly(S, Answer(S, l, u, nicks))
         /\ \A k \in Lists, w \in User, m \in Nick :
               Answer(S, l, u, nicks).told[<<k, w, m>>] =
                   IF k = l /\ w = u /\ m \in nicks THEN StatusOf(S, m) ELSE S.told[<<k, w, m>>]
<1> DEFINE asked == {l} \X {u} \X nicks
           t == [x \in DOMAIN S.told |-> IF x \in asked THEN StatusOf(S, x[3]) ELSE S.told[x]]
           T == Answer(S, l, u, nicks)
<1>1. DOMAIN S = StateField /\ DOMAIN S.told = Lists \X User \X Nick
  BY DEF Shaped
<1>2. T = [S EXCEPT !.told = t]
  BY DEF Answer, Tell
<1> HIDE DEF T, t
<1>3. /\ DOMAIN T = StateField /\ T.told = t
      /\ T.users = S.users /\ T.index = S.index /\ T.rooms = S.rooms /\ SameDisc(S, T)
  BY <1>1, <1>2 DEF StateField, SameDisc
<1>4. DOMAIN t = Lists \X User \X Nick
  BY <1>1 DEF t
<1>5. ToldOnly(S, T)
  BY <1>3, <1>4 DEF ToldOnly, Shaped
<1>6. ASSUME NEW k \in Lists, NEW w \in User, NEW m \in Nick
      PROVE  T.told[<<k, w, m>>] =
                IF k = l /\ w = u /\ m \in nicks THEN StatusOf(S, m) ELSE S.told[<<k, w, m>>]
  <2>1. <<k, w, m>> \in Lists \X User \X Nick /\ <<k, w, m>>[3] = m
    OBVIOUS
  <2>2. <<k, w, m>> \in asked <=> k = l /\ w = u /\ m \in nicks
    OBVIOUS
  <2>3. t[<<k, w, m>>] =
           IF <<k, w, m>> \in asked THEN StatusOf(S, <<k, w, m>>[3]) ELSE S.told[<<k, w, m>>]
    BY <1>1, <2>1 DEF t
  <2> HIDE DEF asked
  <2> QED BY <1>3, <2>1, <2>2, <2>3
<1> QED BY <1>5, <1>6 DEF T

\* Answers leave the rest of the invariant alone.
LEMMA ToldBase ==
  ASSUME NEW S, Base(S), NEW T, ToldOnly(S, T)
  PROVE  Base(T) /\ \A n : StatusOf(T, n) = StatusOf(S, n)
<1>1. T.users = S.users /\ T.index = S.index /\ Shaped(T)
  BY DEF ToldOnly
<1>2. Peopled(T) /\ Indexed(T) /\ Following(T)
  BY <1>1 DEF Base, Peopled, Indexed, Following
<1>3. \A n : Entries(T, n) = Entries(S, n)
  BY <1>1 DEF Entries
<1>4. Counted(T)
  BY <1>1, <1>3 DEF Base, Counted
<1>5. \A n : StatusOf(T, n) = StatusOf(S, n)
  BY <1>1 DEF StatusOf, find_nick, Registered
<1> QED BY <1>1, <1>2, <1>4, <1>5 DEF Base

\* u's list l becomes ns, and the reverse index of l follows.
ListStep(S, T, l, u, ns) ==
    /\ Shaped(T) /\ T.told = S.told /\ T.rooms = S.rooms /\ SameDisc(S, T)
    /\ \A v \in User : /\ T.users[v].phase = S.users[v].phase
                       /\ T.users[v].nick = S.users[v].nick
                       /\ T.users[v].accept = S.users[v].accept
                       /\ \A k \in Lists : v # u \/ k # l => T.users[v][k] = S.users[v][k]
    /\ T.users[u][l] = ns
    /\ \A m \in Nick : /\ T.index.nick[m] = S.index.nick[m]
                       /\ T.index.accepted[m] = S.index.accepted[m]
    /\ \A k \in Lists, m \in Nick, w \in User :
          w \in T.index[k][m] <=> IF k = l /\ w = u THEN m \in ns ELSE w \in S.index[k][m]

\* Both tables of a list still agree.
LEMMA ListStepIndexed ==
  ASSUME NEW S, Indexed(S), NEW T, NEW l \in Lists, NEW u \in User, NEW ns, ListStep(S, T, l, u, ns)
  PROVE  Indexed(T)
<1>1. \A n \in Nick, v \in User : T.index.nick[n] = v <=> T.users[v].nick = n
  BY DEF ListStep, Indexed
<1>2. ASSUME NEW k \in Lists, NEW n \in Nick, NEW v \in User
      PROVE  v \in T.index[k][n] <=> n \in T.users[v][k]
  <2>1. CASE k = l /\ v = u
    BY <2>1 DEF ListStep
  <2>2. CASE ~(k = l /\ v = u)
    <3>1. T.users[v][k] = S.users[v][k]
      BY <2>2 DEF ListStep
    <3>2. v \in T.index[k][n] <=> v \in S.index[k][n]
      BY <2>2 DEF ListStep
    <3> QED BY <3>1, <3>2 DEF Indexed
  <2> QED BY <2>1, <2>2
<1> QED BY <1>1, <1>2 DEF Indexed

\* A list and its index change together.
LEMMA ListStepKeeps ==
  ASSUME NEW S, Base(S), NEW T, NEW l \in Lists, NEW u \in User, NEW ns \in SUBSET Nick,
         ListStep(S, T, l, u, ns)
  PROVE  /\ Base(T)
         /\ \A m \in Nick : StatusOf(T, m) = StatusOf(S, m)
         /\ \A k \in Lists, w \in User, m \in Nick :
               Known(S, k, w, m) => Known(T, k, w, m)
<1>1. Shaped(S) /\ Peopled(S) /\ Indexed(S) /\ Following(S) /\ Counted(S)
  BY DEF Base
<1>2. Shaped(T)
  BY DEF ListStep
<1>3. Peopled(T)
  BY <1>1 DEF ListStep, Peopled
<1>4. Indexed(T)
  BY <1>1, ListStepIndexed
<1>5. Following(T)
  <2> SUFFICES ASSUME NEW v \in User, NEW i \in DOMAIN T.users[v].accept,
                      T.users[v].accept[i].to # None
               PROVE  T.users[T.users[v].accept[i].to].nick = T.users[v].accept[i].nick
    BY DEF Following
  <2>1. T.users[v].accept[i] \in Acceptee /\ T.users[v].accept = S.users[v].accept
    BY <1>3 DEF Peopled, ListStep
  <2>2. T.users[v].accept[i].to \in User
    BY <2>1 DEF Acceptee
  <2> QED BY <1>1, <2>1, <2>2 DEF ListStep, Following
<1>6. Counted(T)
  <2>1. \A n : \A v \in User : Named(T.users[v], n) = Named(S.users[v], n)
    BY DEF Named, ListStep
  <2>2. \A n : Entries(T, n) = Entries(S, n)
    BY <2>1 DEF Entries
  <2> QED BY <1>1, <2>2 DEF ListStep, Counted
<1>7. \A m \in Nick : StatusOf(T, m) = StatusOf(S, m)
  BY <1>1 DEF ListStep, StatusOf, find_nick, Registered, Peopled
<1>8. \A k \in Lists, w \in User, m \in Nick : Known(S, k, w, m) => Known(T, k, w, m)
  BY <1>7 DEF Known, ListStep
<1> QED BY <1>2, <1>3, <1>4, <1>5, <1>6, <1>7, <1>8 DEF Base

\* Both tables of a list are written one after the other.
LEMMA ListStepBy ==
  ASSUME NEW S, Base(S), NEW l \in Lists, NEW u \in User, NEW n \in Nick, NEW ns, NEW us,
         \A m \in Nick : m # n => (m \in ns <=> m \in S.users[u][l]),
         \A w \in User : w \in us <=> IF w = u THEN n \in ns ELSE w \in S.index[l][n]
  PROVE  ListStep(S, PutIndex(Put(S, u, l, ns), l, n, us), l, u, ns)
<1> DEFINE A == Put(S, u, l, ns)
           T == PutIndex(A, l, n, us)
<1>0. Shaped(S) /\ Indexed(S) /\ l \in UserField /\ l \in IndexField /\ Lists \subseteq IndexField
  BY DEF Base, UserField, IndexField, Lists
<1>1. /\ Shaped(A) /\ SameDisc(S, A) /\ A.index = S.index /\ A.told = S.told /\ A.rooms = S.rooms
      /\ A.users[u][l] = ns
      /\ \A w \in User, g \in UserField :
               w # u \/ g # l => A.users[w][g] = S.users[w][g]
  BY <1>0, PutFacts
<1> HIDE DEF A
<1>2. /\ Shaped(T) /\ SameDisc(A, T) /\ T.users = A.users /\ T.told = A.told /\ T.rooms = A.rooms
      /\ T.index[l][n] = us
      /\ \A r \in IndexField, y \in Nick :
               r # l \/ y # n => T.index[r][y] = A.index[r][y]
  BY <1>0, <1>1, IndexFacts
<1> HIDE DEF T
<1>3. SameDisc(S, T)
  BY <1>1, <1>2 DEF SameDisc
<1>4. \A v \in User : /\ T.users[v].phase = S.users[v].phase
                      /\ T.users[v].nick = S.users[v].nick
                      /\ T.users[v].accept = S.users[v].accept
                      /\ \A k \in Lists : v # u \/ k # l => T.users[v][k] = S.users[v][k]
  BY <1>1, <1>2 DEF UserField, Lists
<1>5. \A m \in Nick : /\ T.index.nick[m] = S.index.nick[m]
                      /\ T.index.accepted[m] = S.index.accepted[m]
  BY <1>1, <1>2 DEF IndexField, Lists
<1>6. ASSUME NEW k \in Lists, NEW m \in Nick, NEW w \in User
      PROVE  w \in T.index[k][m] <=> IF k = l /\ w = u THEN m \in ns ELSE w \in S.index[k][m]
  <2>1. CASE k = l /\ m = n
    <3>1. T.index[k][m] = us
      BY <1>2, <2>1
    <3> QED BY <2>1, <3>1
  <2>2. CASE ~(k = l /\ m = n)
    <3>1. T.index[k][m] = S.index[k][m]
      BY <1>0, <1>1, <1>2, <2>2
    <3>2. CASE k = l /\ w = u
      <4>1. m # n
        BY <2>2, <3>2
      <4> QED BY <1>0, <3>1, <3>2, <4>1 DEF Indexed
    <3>3. CASE ~(k = l /\ w = u)
      BY <3>1, <3>3
    <3> QED BY <3>2, <3>3
  <2> QED BY <2>1, <2>2
<1>7. ListStep(S, T, l, u, ns)
  BY <1>1, <1>2, <1>3, <1>4, <1>5, <1>6 DEF ListStep
<1> QED BY <1>7 DEF A, T

\* An unchanged list is a step too.
LEMMA ListStepNone ==
  ASSUME NEW S, Base(S), NEW l \in Lists, NEW u \in User
  PROVE  ListStep(S, S, l, u, S.users[u][l])
BY DEF ListStep, Base, Indexed, SameDisc

\* index_add, index_remove and index_clear change a list together with its index.
LEMMA IndexSteps ==
  ASSUME NEW S, Base(S), NEW l \in Lists, NEW u \in User, NEW n \in Nick
  PROVE  /\ ListStep(S, index_add(S, l, u, n), l, u, S.users[u][l] \cup {n})
         /\ ListStep(S, index_remove(S, l, u, n), l, u, S.users[u][l] \ {n})
<1>0. Indexed(S) /\ S.users[u][l] \subseteq Nick
  BY DEF Base, Peopled
<1>1. ListStep(S, index_add(S, l, u, n), l, u, S.users[u][l] \cup {n})
  <2>1. CASE n \in S.users[u][l]
    <3>1. S.users[u][l] \cup {n} = S.users[u][l] /\ index_add(S, l, u, n) = S
      BY <2>1 DEF index_add
    <3> QED BY <3>1, ListStepNone
  <2>2. CASE n \notin S.users[u][l]
    <3> DEFINE ns == S.users[u][l] \cup {n}
               us == S.index[l][n] \cup {u}
    <3>1. index_add(S, l, u, n) = PutIndex(Put(S, u, l, ns), l, n, us)
      BY <2>2 DEF index_add
    <3>2. /\ \A m \in Nick : m # n => (m \in ns <=> m \in S.users[u][l])
          /\ \A w \in User : w \in us <=> IF w = u THEN n \in ns ELSE w \in S.index[l][n]
      BY <1>0 DEF Indexed
    <3> HIDE DEF ns, us
    <3>3. ListStep(S, index_add(S, l, u, n), l, u, ns)
      BY <3>1, <3>2, ListStepBy
    <3> QED BY <3>3 DEF ns
  <2> QED BY <2>1, <2>2
<1>2. ListStep(S, index_remove(S, l, u, n), l, u, S.users[u][l] \ {n})
  <2>1. CASE n \notin S.users[u][l]
    <3>1. S.users[u][l] \ {n} = S.users[u][l] /\ index_remove(S, l, u, n) = S
      BY <2>1 DEF index_remove
    <3> QED BY <3>1, ListStepNone
  <2>2. CASE n \in S.users[u][l]
    <3> DEFINE ns == S.users[u][l] \ {n}
               us == S.index[l][n] \ {u}
    <3>1. index_remove(S, l, u, n) = PutIndex(Put(S, u, l, ns), l, n, us)
      BY <2>2 DEF index_remove
    <3>2. /\ \A m \in Nick : m # n => (m \in ns <=> m \in S.users[u][l])
          /\ \A w \in User : w \in us <=> IF w = u THEN n \in ns ELSE w \in S.index[l][n]
      BY <1>0 DEF Indexed
    <3> HIDE DEF ns, us
    <3>3. ListStep(S, index_remove(S, l, u, n), l, u, ns)
      BY <3>1, <3>2, ListStepBy
    <3> QED BY <3>3 DEF ns
  <2> QED BY <2>1, <2>2
<1> QED BY <1>1, <1>2

\* index_clear empties a list and takes its owner out of the index.
LEMMA IndexClears ==
  ASSUME NEW S, Shaped(S), Indexed(S), NEW l \in Lists, NEW u \in User
  PROVE  ListStep(S, index_clear(S, l, u), l, u, {})
<1> DEFINE A == Put(S, u, l, {})
           x == [n \in Nick |-> S.index[l][n] \ (IF n \in S.users[u][l] THEN {u} ELSE {})]
           T == index_clear(S, l, u)
<1>0. Shaped(S) /\ Indexed(S) /\ l \in UserField /\ l \in IndexField /\ Lists \subseteq IndexField
  BY DEF UserField, IndexField, Lists
<1>1. /\ Shaped(A) /\ SameDisc(S, A) /\ A.index = S.index /\ A.told = S.told /\ A.rooms = S.rooms
      /\ A.users[u][l] = {}
      /\ \A w \in User, g \in UserField :
               w # u \/ g # l => A.users[w][g] = S.users[w][g]
  BY <1>0, PutFacts
<1>2. T = [A EXCEPT !.index = [A.index EXCEPT ![l] = x]]
  BY DEF index_clear
<1>3. DOMAIN x = Nick /\ \A n \in Nick : x[n] = S.index[l][n] \ (IF n \in S.users[u][l] THEN {u} ELSE {})
  OBVIOUS
<1> HIDE DEF A, x, T
<1>4. /\ DOMAIN T = StateField /\ T.users = A.users /\ T.told = A.told /\ T.rooms = A.rooms
      /\ SameDisc(A, T) /\ T.index = [A.index EXCEPT ![l] = x]
  BY <1>1, <1>2 DEF Shaped, StateField, SameDisc
<1>5. /\ DOMAIN T.index = IndexField /\ T.index[l] = x
      /\ \A r \in IndexField : r # l => T.index[r] = S.index[r]
  BY <1>0, <1>1, <1>4 DEF Shaped
<1>6. Shaped(T) /\ SameDisc(S, T)
  <2>1. \A r \in IndexField : DOMAIN T.index[r] = Nick
    BY <1>0, <1>3, <1>5 DEF Shaped
  <2>2. Shaped(T)
    BY <1>1, <1>4, <1>5, <2>1 DEF Shaped
  <2> QED BY <1>1, <1>4, <2>2 DEF SameDisc
<1>7. \A v \in User : /\ T.users[v].phase = S.users[v].phase
                      /\ T.users[v].nick = S.users[v].nick
                      /\ T.users[v].accept = S.users[v].accept
                      /\ \A k \in Lists : v # u \/ k # l => T.users[v][k] = S.users[v][k]
  BY <1>1, <1>4 DEF UserField, Lists
<1>8. \A m \in Nick : /\ T.index.nick[m] = S.index.nick[m]
                      /\ T.index.accepted[m] = S.index.accepted[m]
  BY <1>5 DEF IndexField, Lists
<1>9. ASSUME NEW k \in Lists, NEW m \in Nick, NEW w \in User
      PROVE  w \in T.index[k][m] <=> IF k = l /\ w = u THEN m \in {} ELSE w \in S.index[k][m]
  <2>1. CASE k = l
    <3>1. T.index[k][m] = S.index[l][m] \ (IF m \in S.users[u][l] THEN {u} ELSE {})
      BY <1>3, <1>5, <2>1
    <3>2. u \in S.index[l][m] <=> m \in S.users[u][l]
      BY <1>0 DEF Indexed
    <3> QED BY <2>1, <3>1, <3>2
  <2>2. CASE k # l
    BY <1>0, <1>5, <2>2
  <2> QED BY <2>1, <2>2
<1>10. ListStep(S, T, l, u, {})
  BY <1>1, <1>4, <1>6, <1>7, <1>8, <1>9 DEF ListStep
<1> QED BY <1>10 DEF T

\* The watchers know of every nick but those of N.
KnowingBut(S, N) == \A l \in Lists, u \in User : \A n \in S.users[u][l] :
    n \notin N => Known(S, l, u, n)

\* The invariant is what a function with nothing left to tell establishes.
LEMMA PresBase ==
  ASSUME NEW S
  PROVE  /\ Pres(S) <=> Base(S) /\ Knowing(S)
         /\ Knowing(S) <=> KnowingBut(S, {})
BY DEF Pres, Base, Knowing, KnowingBut

\* A frame keeps the tables and what the watchers know.
LEMMA BaseFrame ==
  ASSUME NEW S, NEW T, Base(S), SamePres(S, T), NEW N, KnowingBut(S, N)
  PROVE  Base(T) /\ KnowingBut(T, N) /\ \A n \in Nick : StatusOf(T, n) = StatusOf(S, n)
<1>1. T.index = S.index /\ T.told = S.told /\ Shaped(T)
  BY DEF SamePres
<1>2. Peopled(S) /\ Indexed(S) /\ Following(S) /\ Counted(S)
  BY DEF Base
<1>3. Peopled(T)
  BY <1>1, <1>2, SameFields DEF Peopled
<1>4. Indexed(T)
  BY <1>1, <1>2, SameFields DEF Indexed
<1>5. KnowingBut(T, N)
  <2> SUFFICES ASSUME NEW l \in Lists, NEW u \in User, NEW n \in T.users[u][l], n \notin N
               PROVE  Known(T, l, u, n)
    BY DEF KnowingBut
  <2>1. n \in S.users[u][l] /\ n \in Nick
    BY <1>2, SameFields DEF Peopled
  <2>2. Known(S, l, u, n)
    BY <2>1 DEF KnowingBut
  <2> QED BY <1>1, <1>2, <2>1, <2>2, SameStatus DEF Known
<1>6. Following(T)
  <2> SUFFICES ASSUME NEW u \in User, NEW i \in DOMAIN T.users[u].accept,
                      T.users[u].accept[i].to # None
               PROVE  T.users[T.users[u].accept[i].to].nick = T.users[u].accept[i].nick
    BY DEF Following
  <2>1. T.users[u].accept = S.users[u].accept
    BY SameFields
  <2>2. S.users[u].accept[i] \in Acceptee
    BY <1>2, <2>1 DEF Peopled
  <2>3. T.users[u].accept[i].to \in User
    BY <2>1, <2>2 DEF Acceptee
  <2> QED BY <1>2, <2>1, <2>3, SameFields DEF Following
<1>7. Counted(T)
  BY <1>1, <1>2, SameStatus DEF Counted
<1> QED BY <1>1, <1>2, <1>3, <1>4, <1>5, <1>6, <1>7, SameStatus DEF Base

\* A frame keeps the invariant of the connections.
LEMMA PresFrame ==
  ASSUME NEW S, NEW T, Pres(S), SamePres(S, T)
  PROVE  Pres(T)
<1>1. Base(S) /\ KnowingBut(S, {})
  BY PresBase
<1>2. Base(T) /\ KnowingBut(T, {})
  BY <1>1, BaseFrame
<1> QED BY <1>2, PresBase

\* A list that loses entries, with its index.
LEMMA ListShrinks ==
  ASSUME NEW S, Pres(S), NEW T, NEW l \in Lists, NEW u \in User,
         NEW ns \in SUBSET S.users[u][l], ListStep(S, T, l, u, ns)
  PROVE  Pres(T)
<1>1. Base(S) /\ Knowing(S)
  BY PresBase
<1>2. ns \in SUBSET Nick
  BY <1>1 DEF Base, Peopled
<1>3. /\ Base(T)
      /\ \A k \in Lists, w \in User, m \in Nick : Known(S, k, w, m) => Known(T, k, w, m)
  BY <1>1, <1>2, ListStepKeeps
<1>4. ASSUME NEW k \in Lists, NEW w \in User, NEW m \in T.users[w][k] PROVE Known(T, k, w, m)
  <2>1. m \in S.users[w][k]
    BY DEF ListStep
  <2>2. m \in Nick
    BY <1>1, <2>1 DEF Base, Peopled
  <2> QED BY <1>1, <1>3, <2>1, <2>2 DEF Knowing
<1> QED BY <1>3, <1>4, PresBase DEF Knowing

\* index_remove and index_clear keep the invariant.
LEMMA IndexRemoveKeeps ==
  ASSUME NEW S, Pres(S), NEW l \in Lists, NEW u \in User
  PROVE  /\ \A n \in Nick : /\ Pres(index_remove(S, l, u, n))
                            /\ SameDisc(S, index_remove(S, l, u, n))
         /\ Pres(index_clear(S, l, u)) /\ SameDisc(S, index_clear(S, l, u))
<1>1. Base(S)
  BY PresBase
<1>2. ASSUME NEW n \in Nick
      PROVE  Pres(index_remove(S, l, u, n)) /\ SameDisc(S, index_remove(S, l, u, n))
  <2>1. ListStep(S, index_remove(S, l, u, n), l, u, S.users[u][l] \ {n})
    BY <1>1, IndexSteps
  <2>2. S.users[u][l] \ {n} \in SUBSET S.users[u][l]
    OBVIOUS
  <2> QED BY <2>1, <2>2, ListShrinks DEF ListStep
<1>3. ListStep(S, index_clear(S, l, u), l, u, {})
  BY <1>1, IndexClears DEF Base
<1>4. {} \in SUBSET S.users[u][l]
  OBVIOUS
<1> QED BY <1>2, <1>3, <1>4, ListShrinks DEF ListStep

\* Answers keep what is known, and settle what is asked.
LEMMA AnswerKnown ==
  ASSUME NEW S, Base(S), NEW l \in Lists, NEW u \in User, NEW nicks,
         NEW k \in Lists, NEW w \in User, NEW m \in Nick,
         Known(S, k, w, m) \/ (k = l /\ w = u /\ m \in nicks)
  PROVE  Known(Answer(S, l, u, nicks), k, w, m)
<1> DEFINE T == Answer(S, l, u, nicks)
<1>1. /\ ToldOnly(S, T)
      /\ T.told[<<k, w, m>>] =
            IF k = l /\ w = u /\ m \in nicks THEN StatusOf(S, m) ELSE S.told[<<k, w, m>>]
  BY AnswerFacts DEF Base
<1> HIDE DEF T
<1>2. StatusOf(T, m) = StatusOf(S, m)
  BY <1>1, ToldBase
<1>3. Known(T, k, w, m)
  BY <1>1, <1>2 DEF Known
<1> QED BY <1>3 DEF T

\* A report keeps the invariant.
LEMMA AnswerKeeps ==
  ASSUME NEW S, Base(S), NEW l \in Lists, NEW u \in User, NEW nicks,
         \A k \in Lists, w \in User : \A m \in S.users[w][k] :
             Known(S, k, w, m) \/ (k = l /\ w = u /\ m \in nicks)
  PROVE  Pres(Answer(S, l, u, nicks)) /\ SameDisc(S, Answer(S, l, u, nicks))
<1> DEFINE T == Answer(S, l, u, nicks)
<1>1. ToldOnly(S, T)
  BY AnswerFacts DEF Base
<1>2. Base(T)
  BY <1>1, ToldBase
<1>3. ASSUME NEW k \in Lists, NEW w \in User, NEW m \in T.users[w][k] PROVE Known(T, k, w, m)
  <2>1. m \in S.users[w][k]
    BY <1>1 DEF ToldOnly
  <2>2. m \in Nick
    BY <2>1 DEF Base, Peopled
  <2> QED BY <2>1, <2>2, AnswerKnown
<1> HIDE DEF T
<1>4. Pres(T)
  BY <1>2, <1>3, PresBase DEF Knowing
<1> QED BY <1>1, <1>4 DEF T, ToldOnly

\* watch_add keeps the invariant: the new entry is answered.
LEMMA WatchAddKeeps ==
  ASSUME NEW S, Pres(S), NEW u \in User, NEW n \in Nick
  PROVE  Pres(watch_add(S, u, n)) /\ SameDisc(S, watch_add(S, u, n))
<1> DEFINE A == index_add(S, "watch", u, n)
           T == Answer(A, "watch", u, {n})
<1>0. Base(S) /\ Knowing(S) /\ "watch" \in Lists
  BY PresBase DEF Lists
<1>1. CASE ListFull(S, "watch", u, n)
  BY <1>1 DEF watch_add, SameDisc
<1>2. CASE ~ListFull(S, "watch", u, n)
  <2>1. watch_add(S, u, n) = T
    BY <1>2 DEF watch_add, watch_index_add
  <2>2. ListStep(S, A, "watch", u, S.users[u]["watch"] \cup {n})
    BY <1>0, IndexSteps
  <2>3. S.users[u]["watch"] \cup {n} \in SUBSET Nick
    BY <1>0 DEF Base, Peopled
  <2> HIDE DEF A
  <2>4. /\ Base(A)
        /\ \A k \in Lists, w \in User, m \in Nick : Known(S, k, w, m) => Known(A, k, w, m)
    BY <1>0, <2>2, <2>3, ListStepKeeps
  <2>5. ASSUME NEW k \in Lists, NEW w \in User, NEW m \in A.users[w][k]
        PROVE  Known(A, k, w, m) \/ (k = "watch" /\ w = u /\ m \in {n})
    <3>1. m \in S.users[w][k] \/ (k = "watch" /\ w = u /\ m = n)
      BY <2>2 DEF ListStep
    <3>2. m \in Nick
      BY <2>4 DEF Base, Peopled
    <3> QED BY <1>0, <2>4, <3>1, <3>2 DEF Knowing
  <2>6. Pres(T) /\ SameDisc(A, T)
    BY <1>0, <2>4, <2>5, AnswerKeeps
  <2> HIDE DEF T
  <2> QED BY <2>1, <2>2, <2>6 DEF ListStep, SameDisc
<1> QED BY <1>1, <1>2

\* A notification of the status that a nick has settles it for its watchers.
LEMMA NotifyKnows ==
  ASSUME NEW S, Base(S), NEW N, KnowingBut(S, N), NEW n \in Nick, NEW v, v = StatusOf(S, n)
  PROVE  /\ Base(Notify(S, n, v)) /\ KnowingBut(Notify(S, n, v), N \ {n})
         /\ ToldOnly(S, Notify(S, n, v))
<1> DEFINE T == Notify(S, n, v)
<1>1. /\ ToldOnly(S, T)
      /\ \A l \in Lists, u \in User, m \in Nick :
               T.told[<<l, u, m>>] = IF m = n /\ u \in S.index[l][n] THEN v ELSE S.told[<<l, u, m>>]
  BY NotifyFacts DEF Base
<1> HIDE DEF T
<1>2. Base(T) /\ \A m : StatusOf(T, m) = StatusOf(S, m)
  BY <1>1, ToldBase
<1>3. ASSUME NEW l \in Lists, NEW u \in User, NEW m \in T.users[u][l], m \notin N \ {n}
      PROVE  Known(T, l, u, m)
  <2>1. m \in S.users[u][l] /\ m \in Nick /\ Indexed(S)
    BY <1>1, <1>2 DEF ToldOnly, Base, Peopled
  <2>2. CASE m = n
    <3>1. u \in S.index[l][n]
      BY <2>1, <2>2 DEF Indexed
    <3>2. T.told[<<l, u, m>>] = StatusOf(T, m)
      BY <1>1, <1>2, <2>1, <2>2, <3>1
    <3> QED BY <3>2 DEF Known
  <2>3. CASE m # n
    <3>1. Known(S, l, u, m)
      BY <1>3, <2>1, <2>3 DEF KnowingBut
    <3>2. T.told[<<l, u, m>>] = S.told[<<l, u, m>>]
      BY <1>1, <2>1, <2>3
    <3> QED BY <1>2, <3>1, <3>2 DEF Known
  <2> QED BY <2>2, <2>3
<1>4. KnowingBut(T, N \ {n})
  BY <1>3 DEF KnowingBut
<1> QED BY <1>1, <1>2, <1>4 DEF T

-----------------------------------------------------------------------------
(* A nick is taken or changed.                                             *)

\* An entry of the ACCEPT list after the user called old took the nick new.
Moved(e, old, new) == IF e.nick = old THEN [e EXCEPT !.nick = new] ELSE e

\* u, called old before (None: nothing), is called new.
NickStep(S, T, u, old, new) ==
    /\ Shaped(T) /\ T.told = S.told /\ T.rooms = S.rooms /\ SameDisc(S, T)
    /\ \A v \in User : /\ T.users[v].phase = S.users[v].phase
                       /\ T.users[v].nick = IF v = u THEN new ELSE S.users[v].nick
                       /\ \A l \in Lists : T.users[v][l] = S.users[v][l]
                       /\ T.users[v].accept = [i \in DOMAIN S.users[v].accept |->
                                                 Moved(S.users[v].accept[i], old, new)]
    /\ \A m \in Nick :
          /\ T.index.nick[m] = IF m = new THEN u ELSE IF m = old THEN None ELSE S.index.nick[m]
          /\ T.index.accepted[m] =
                IF m = old THEN 0
                ELSE IF m = new /\ old # None THEN S.index.accepted[new] + S.index.accepted[old]
                ELSE S.index.accepted[m]
          /\ \A l \in Lists : T.index[l][m] = S.index[l][m]

\* Who has had no nick is in no ACCEPT list.
LEMMA MovedNone ==
  ASSUME NEW acc \in Seq(Acceptee), NEW new
  PROVE  acc = [i \in DOMAIN acc |-> Moved(acc[i], None, new)]
<1>1. DOMAIN acc = 1 .. Len(acc) /\ \A i \in 1 .. Len(acc) : acc[i] \in Acceptee
  OBVIOUS
<1>2. \A e \in Acceptee : e.nick # None
  BY MessagesAssumption DEF Acceptee
<1>3. \A i \in DOMAIN acc : Moved(acc[i], None, new) = acc[i]
  BY <1>1, <1>2 DEF Moved
<1> QED BY <1>3

\* The entries of old are entries of new, and the counts follow.
RenameStep(S, T, old, new) ==
    /\ Shaped(T) /\ T.told = S.told /\ T.rooms = S.rooms /\ SameDisc(S, T)
    /\ \A v \in User : /\ \A f \in UserField : f # "accept" => T.users[v][f] = S.users[v][f]
                       /\ T.users[v].accept = [i \in DOMAIN S.users[v].accept |->
                                                 Moved(S.users[v].accept[i], old, new)]
    /\ T.index["accepted"][new] = S.index["accepted"][new] + S.index["accepted"][old]
    /\ old # new => T.index["accepted"][old] = 0
    /\ \A r \in IndexField, m \in Nick :
          r # "accepted" \/ m \notin {old, new} => T.index[r][m] = S.index[r][m]

\* The ACCEPT lists and their counts after a change of nick.
LEMMA RenamedFacts ==
  ASSUME NEW S, Shaped(S), NEW old \in Nick, NEW new \in Nick
  PROVE  RenameStep(S, Renamed(S, old, new), old, new)
<1> DEFINE Acc(v) == [i \in DOMAIN S.users[v].accept |-> Moved(S.users[v].accept[i], old, new)]
           us == [v \in User |-> [S.users[v] EXCEPT !.accept = Acc(v)]]
           A == [S EXCEPT !.users = us]
           B == PutIndex(A, "accepted", old, 0)
           T == PutIndex(B, "accepted", new, A.index.accepted[new] + A.index.accepted[old])
<1>0. "accepted" \in IndexField /\ "accept" \in UserField
  BY DEF IndexField, UserField
<1>1. Renamed(S, old, new) = T
  BY DEF Renamed, Moved
<1> HIDE DEF Acc
<1>2. /\ DOMAIN us = User /\ \A v \in User : us[v] = [S.users[v] EXCEPT !.accept = Acc(v)]
  OBVIOUS
<1> HIDE DEF us
<1>3. \A v \in User : /\ DOMAIN us[v] = UserField /\ us[v].accept = Acc(v)
                      /\ \A f \in UserField : f # "accept" => us[v][f] = S.users[v][f]
  BY <1>0, <1>2 DEF Shaped
<1>4. /\ DOMAIN A = StateField /\ A.users = us /\ A.index = S.index /\ A.told = S.told
      /\ A.rooms = S.rooms /\ SameDisc(S, A)
  BY DEF Shaped, StateField, SameDisc
<1> HIDE DEF A
<1>5. Shaped(A)
  BY <1>2, <1>3, <1>4 DEF Shaped
<1>6. /\ Shaped(B) /\ SameDisc(A, B) /\ B.users = A.users /\ B.told = A.told /\ B.rooms = A.rooms
      /\ B.index["accepted"][old] = 0
      /\ \A r \in IndexField, y \in Nick :
               r # "accepted" \/ y # old => B.index[r][y] = A.index[r][y]
  BY <1>0, <1>5, IndexFacts
<1> HIDE DEF B
<1>7. /\ Shaped(T) /\ SameDisc(B, T) /\ T.users = B.users /\ T.told = B.told /\ T.rooms = B.rooms
      /\ T.index["accepted"][new] = A.index.accepted[new] + A.index.accepted[old]
      /\ \A r \in IndexField, y \in Nick :
               r # "accepted" \/ y # new => T.index[r][y] = B.index[r][y]
  BY <1>0, <1>6, IndexFacts
<1> HIDE DEF T
<1>8. SameDisc(S, T)
  BY <1>4, <1>6, <1>7 DEF SameDisc
<1>9. \A v \in User : /\ \A f \in UserField : f # "accept" => T.users[v][f] = S.users[v][f]
                      /\ T.users[v].accept = Acc(v)
  BY <1>3, <1>4, <1>6, <1>7
<1>10. \A r \in IndexField, m \in Nick :
                  r # "accepted" \/ m \notin {old, new} => T.index[r][m] = S.index[r][m]
  BY <1>4, <1>6, <1>7
<1>11. old # new => T.index["accepted"][old] = 0
  BY <1>0, <1>6, <1>7
<1>12. RenameStep(S, T, old, new)
  BY <1>4, <1>6, <1>7, <1>8, <1>9, <1>10, <1>11 DEF Acc, RenameStep
<1> QED BY <1>1, <1>12

\* The state after set_nick changed the tables, before anybody is told.
Renick(S, u, new) ==
    LET old == NickOf(S, u)
        A == IF old = None THEN S ELSE PutIndex(S, "nick", old, None)
        B == Put(PutIndex(A, "nick", new, u), u, "nick", new)
    IN IF old = None THEN B ELSE Renamed(B, old, new)

\* It is a step of u's nick.
LEMMA RenickStep ==
  ASSUME NEW S, Base(S), NEW u \in User, NEW new \in Nick, S.index.nick[new] = None
  PROVE  NickStep(S, Renick(S, u, new), u, S.users[u].nick, new)
<1> DEFINE old == S.users[u].nick
           A == IF old = None THEN S ELSE PutIndex(S, "nick", old, None)
           X == PutIndex(A, "nick", new, u)
           B == Put(X, u, "nick", new)
           T == Renick(S, u, new)
<1>0. /\ Shaped(S) /\ Peopled(S) /\ Indexed(S) /\ old \in Nick \cup {None}
      /\ "nick" \in IndexField /\ "accepted" \in IndexField /\ "nick" \in UserField
      /\ None \notin Nick /\ None \notin User /\ Lists \subseteq IndexField
  BY MessagesAssumption DEF Base, Peopled, IndexField, UserField, Lists
<1>1. old # new
  <2>1. S.index.nick[new] # u
    BY <1>0
  <2> QED BY <1>0, <2>1 DEF Indexed
<1>2. /\ Shaped(A) /\ SameDisc(S, A) /\ A.users = S.users /\ A.told = S.told /\ A.rooms = S.rooms
      /\ \A m \in Nick : A.index["nick"][m] = IF m = old THEN None ELSE S.index["nick"][m]
      /\ \A r \in IndexField, m \in Nick : r # "nick" => A.index[r][m] = S.index[r][m]
  <2>1. CASE old = None
    <3>1. A = S /\ SameDisc(S, S)
      BY <2>1 DEF SameDisc
    <3> HIDE DEF A
    <3> QED BY <1>0, <2>1, <3>1
  <2>2. CASE old # None
    <3>1. A = PutIndex(S, "nick", old, None)
      BY <2>2
    <3> HIDE DEF A
    <3>2. old \in Nick
      BY <1>0, <2>2
    <3>3. /\ Shaped(A) /\ SameDisc(S, A) /\ A.users = S.users /\ A.told = S.told /\ A.rooms = S.rooms
          /\ A.index["nick"][old] = None
          /\ \A r \in IndexField, y \in Nick :
               r # "nick" \/ y # old => A.index[r][y] = S.index[r][y]
      <4> HIDE DEF old
      <4> QED BY <1>0, <3>1, <3>2, IndexFacts
    <3> QED BY <1>0, <3>3
  <2> QED BY <2>1, <2>2
<1> HIDE DEF A
<1>3. /\ Shaped(X) /\ SameDisc(A, X) /\ X.users = A.users /\ X.told = A.told /\ X.rooms = A.rooms
      /\ X.index["nick"][new] = u
      /\ \A r \in IndexField, y \in Nick :
               r # "nick" \/ y # new => X.index[r][y] = A.index[r][y]
  BY <1>0, <1>2, IndexFacts
<1> HIDE DEF X
<1>4. /\ Shaped(B) /\ SameDisc(X, B) /\ B.index = X.index /\ B.told = X.told /\ B.rooms = X.rooms
      /\ B.users[u]["nick"] = new
      /\ \A w \in User, g \in UserField :
               w # u \/ g # "nick" => B.users[w][g] = X.users[w][g]
  BY <1>0, <1>3, PutFacts
<1> HIDE DEF B
<1>5. /\ Shaped(B) /\ SameDisc(S, B) /\ B.told = S.told /\ B.rooms = S.rooms
      /\ \A v \in User : /\ B.users[v].nick = IF v = u THEN new ELSE S.users[v].nick
                         /\ \A f \in UserField : f # "nick" => B.users[v][f] = S.users[v][f]
      /\ \A m \in Nick : B.index.nick[m] = IF m = new THEN u
                                           ELSE IF m = old THEN None ELSE S.index.nick[m]
      /\ \A r \in IndexField, m \in Nick : r # "nick" => B.index[r][m] = S.index[r][m]
  <2>1. SameDisc(S, B)
    BY <1>2, <1>3, <1>4 DEF SameDisc
  <2>2. \A v \in User : /\ B.users[v].nick = IF v = u THEN new ELSE S.users[v].nick
                        /\ \A f \in UserField : f # "nick" => B.users[v][f] = S.users[v][f]
    BY <1>0, <1>2, <1>3, <1>4
  <2>3. \A m \in Nick : B.index.nick[m] = IF m = new THEN u
                                          ELSE IF m = old THEN None ELSE S.index.nick[m]
    BY <1>0, <1>2, <1>3, <1>4
  <2>4. \A r \in IndexField, m \in Nick : r # "nick" => B.index[r][m] = S.index[r][m]
    BY <1>0, <1>2, <1>3, <1>4
  <2> QED BY <1>2, <1>3, <1>4, <2>1, <2>2, <2>3, <2>4
<1>6. CASE old = None
  <2>1. T = B
    BY <1>6 DEF Renick, NickOf, B, X, A
  <2>2. \A v \in User : T.users[v].accept = [i \in DOMAIN S.users[v].accept |->
                                                 Moved(S.users[v].accept[i], old, new)]
    <3>1. \A v \in User : T.users[v].accept = S.users[v].accept
      BY <1>5, <2>1 DEF UserField
    <3> HIDE DEF T
    <3> QED BY <1>0, <1>6, <3>1, MovedNone DEF Peopled
  <2> HIDE DEF T, old
  <2>3. \A v \in User : /\ T.users[v].phase = S.users[v].phase
                        /\ \A l \in Lists : T.users[v][l] = S.users[v][l]
    BY <1>5, <2>1 DEF UserField, Lists
  <2>4. \A m \in Nick : /\ T.index.accepted[m] = S.index.accepted[m] /\ m # old
                        /\ \A l \in Lists : T.index[l][m] = S.index[l][m]
    BY <1>0, <1>5, <1>6, <2>1 DEF Lists
  <2>5. NickStep(S, T, u, old, new)
    BY <1>5, <1>6, <2>1, <2>2, <2>3, <2>4 DEF NickStep
  <2> QED BY <2>5 DEF T, old
<1>7. CASE old # None
  <2>1. T = Renamed(B, old, new)
    BY <1>7 DEF Renick, NickOf, B, X, A
  <2>2. old \in Nick
    BY <1>0, <1>7
  <2> HIDE DEF T, old
  <2>3. /\ Shaped(T) /\ T.told = B.told /\ T.rooms = B.rooms /\ SameDisc(B, T)
        /\ \A v \in User : /\ \A f \in UserField : f # "accept" => T.users[v][f] = B.users[v][f]
                           /\ T.users[v].accept = [i \in DOMAIN B.users[v].accept |->
                                                         Moved(B.users[v].accept[i], old, new)]
        /\ T.index["accepted"][new] = B.index["accepted"][new] + B.index["accepted"][old]
        /\ old # new => T.index["accepted"][old] = 0
        /\ \A r \in IndexField, m \in Nick :
                  r # "accepted" \/ m \notin {old, new} => T.index[r][m] = B.index[r][m]
    <3>1. RenameStep(B, T, old, new)
      BY <1>5, <2>1, <2>2, RenamedFacts
    <3> QED BY <3>1, Zenon DEF RenameStep
  <2>4. SameDisc(S, T)
    BY <1>5, <2>3 DEF SameDisc
  <2>5. \A v \in User : T.users[v].accept = [i \in DOMAIN S.users[v].accept |->
                                                 Moved(S.users[v].accept[i], old, new)]
    <3>1. \A v \in User : B.users[v].accept = S.users[v].accept
      BY <1>5 DEF UserField
    <3> QED BY <2>3, <3>1
  <2>6. \A v \in User : /\ T.users[v].phase = S.users[v].phase
                        /\ T.users[v].nick = IF v = u THEN new ELSE S.users[v].nick
                        /\ \A l \in Lists : T.users[v][l] = S.users[v][l]
    <3>1. /\ \A l \in Lists : l \in UserField /\ l \notin {"accept", "nick"}
          /\ "phase" \in UserField
      BY DEF UserField, Lists
    <3>2. \A v \in User : T.users[v]["nick"] = B.users[v]["nick"]
      BY <1>0, <2>3
    <3>3. ASSUME NEW v \in User, NEW f \in UserField, f # "accept", f # "nick"
          PROVE  T.users[v][f] = S.users[v][f]
      <4>1. T.users[v][f] = B.users[v][f]
        BY <2>3, <3>3
      <4>2. B.users[v][f] = S.users[v][f]
        BY <1>5, <3>3
      <4> QED BY <4>1, <4>2
    <3> QED BY <1>5, <3>1, <3>2, <3>3
  <2>7. \A m \in Nick :
          /\ T.index.nick[m] = IF m = new THEN u ELSE IF m = old THEN None ELSE S.index.nick[m]
          /\ T.index.accepted[m] =
                IF m = old THEN 0
                ELSE IF m = new /\ old # None THEN S.index.accepted[new] + S.index.accepted[old]
                ELSE S.index.accepted[m]
          /\ \A l \in Lists : T.index[l][m] = S.index[l][m]
    <3>1. /\ B.index.accepted[new] = S.index.accepted[new]
          /\ B.index.accepted[old] = S.index.accepted[old]
          /\ \A m \in Nick : B.index.accepted[m] = S.index.accepted[m]
      BY <1>0, <1>5, <2>2
    <3>2. \A m \in Nick, l \in Lists : T.index[l][m] = S.index[l][m]
      BY <1>0, <1>5, <2>3 DEF Lists
    <3>3. \A m \in Nick : T.index.nick[m] = B.index.nick[m]
      BY <1>0, <2>3
    <3>4. \A m \in Nick : m \notin {old, new} => T.index.accepted[m] = S.index.accepted[m]
      BY <1>0, <2>3, <3>1
    <3> QED BY <1>1, <1>5, <1>7, <2>2, <2>3, <3>1, <3>2, <3>3, <3>4 DEF old
  <2>8. NickStep(S, T, u, old, new)
    BY <1>5, <2>3, <2>4, <2>5, <2>6, <2>7 DEF NickStep
  <2> QED BY <2>8 DEF T, old
<1> QED BY <1>6, <1>7

\* The statuses before and after u changes its nick.
LEMMA NickStatus ==
  ASSUME NEW S, Base(S), NEW T, NEW u \in User, NEW old, old = S.users[u].nick, NEW new \in Nick,
         S.index.nick[new] = None, NickStep(S, T, u, old, new)
  PROVE  /\ old # new
         /\ \A m \in Nick : m \notin {old, new} => StatusOf(T, m) = StatusOf(S, m)
         /\ old # None => /\ StatusOf(T, old) = "off"
                          /\ StatusOf(S, old) = IF S.users[u].phase = "in" THEN "on" ELSE "early"
         /\ StatusOf(S, new) = "off"
         /\ StatusOf(T, new) = IF S.users[u].phase = "in" THEN "on" ELSE "early"
<1>0. /\ Peopled(S) /\ Indexed(S) /\ old \in Nick \cup {None} /\ None \notin User /\ None \notin Nick
  BY MessagesAssumption DEF Base, Peopled
<1>1. old # new
  BY <1>0 DEF Indexed
<1>2. \A v \in User : T.users[v].phase = S.users[v].phase
  BY DEF NickStep
<1>3. \A m \in Nick : T.index.nick[m] = IF m = new THEN u
                                        ELSE IF m = old THEN None ELSE S.index.nick[m]
  BY DEF NickStep
<1>4. \A m \in Nick : m \notin {old, new} => StatusOf(T, m) = StatusOf(S, m)
  BY <1>0, <1>2, <1>3 DEF StatusOf, find_nick, Registered, Peopled
<1>5. ASSUME old # None
      PROVE  /\ StatusOf(T, old) = "off"
             /\ StatusOf(S, old) = IF S.users[u].phase = "in" THEN "on" ELSE "early"
  <2>1. old \in Nick /\ T.index.nick[old] = None
    BY <1>0, <1>1, <1>3, <1>5
  <2>2. S.index.nick[old] = u /\ u # None
    BY <1>0, <2>1 DEF Indexed
  <2> QED BY <2>1, <2>2 DEF StatusOf, find_nick, Registered
<1>6. StatusOf(S, new) = "off"
  BY DEF StatusOf, find_nick
<1>7. StatusOf(T, new) = IF S.users[u].phase = "in" THEN "on" ELSE "early"
  BY <1>0, <1>2, <1>3 DEF StatusOf, find_nick, Registered
<1> QED BY <1>1, <1>4, <1>5, <1>6, <1>7

\* The entries of the ACCEPT lists after u changed its nick.
LEMMA NickEntries ==
  ASSUME NEW S, Base(S), NEW T, NEW u \in User, NEW old, old = S.users[u].nick, NEW new \in Nick,
         old # new, NickStep(S, T, u, old, new)
  PROVE  /\ Lists_typed(T) /\ Following(T) /\ Counted(T)
<1>0. /\ Peopled(S) /\ Indexed(S) /\ Following(S) /\ Counted(S)
      /\ old \in Nick \cup {None} /\ None \notin User /\ None \notin Nick
  BY MessagesAssumption DEF Base, Peopled
<1>1. ASSUME NEW v \in User
      PROVE  /\ T.users[v].accept \in Seq(Acceptee)
             /\ DOMAIN T.users[v].accept = DOMAIN S.users[v].accept
             /\ \A i \in DOMAIN S.users[v].accept :
                   /\ S.users[v].accept[i] \in Acceptee
                   /\ T.users[v].accept[i].to = S.users[v].accept[i].to
                   /\ T.users[v].accept[i].nick = IF S.users[v].accept[i].nick = old
                                                  THEN new ELSE S.users[v].accept[i].nick
  <2> DEFINE s == S.users[v].accept
             t == T.users[v].accept
  <2>1. s \in Seq(Acceptee) /\ t = [i \in DOMAIN s |-> Moved(s[i], old, new)]
    BY <1>0 DEF Peopled, NickStep
  <2> HIDE DEF s, t
  <2>2. Len(s) \in Nat /\ DOMAIN s = 1 .. Len(s) /\ \A i \in DOMAIN s : s[i] \in Acceptee
    BY <2>1
  <2>3. \A e \in Acceptee : /\ Moved(e, old, new) \in Acceptee
                            /\ Moved(e, old, new).to = e.to
                            /\ Moved(e, old, new).nick = IF e.nick = old THEN new ELSE e.nick
    BY DEF Moved, Acceptee
  <2>4. /\ DOMAIN t = DOMAIN s
        /\ \A i \in DOMAIN s : /\ s[i] \in Acceptee /\ t[i].to = s[i].to /\ t[i] \in Acceptee
                               /\ t[i].nick = IF s[i].nick = old THEN new ELSE s[i].nick
    BY <2>1, <2>2, <2>3
  <2>5. t \in [1 .. Len(s) -> Acceptee]
    BY <2>1, <2>2, <2>3
  <2>6. t \in Seq(Acceptee)
    BY <2>2, <2>5
  <2> QED BY <2>4, <2>6 DEF s, t
<1>2. Lists_typed(T) /\ Lists_typed(S)
  BY <1>0, <1>1 DEF Lists_typed, Peopled
<1>3. Following(T)
  <2> SUFFICES ASSUME NEW v \in User, NEW i \in DOMAIN T.users[v].accept,
                      T.users[v].accept[i].to # None
               PROVE  T.users[T.users[v].accept[i].to].nick = T.users[v].accept[i].nick
    BY DEF Following
  <2> DEFINE w == S.users[v].accept[i].to
             n == S.users[v].accept[i].nick
  <2>1. /\ i \in DOMAIN S.users[v].accept /\ S.users[v].accept[i] \in Acceptee
        /\ T.users[v].accept[i].to = w
        /\ T.users[v].accept[i].nick = IF n = old THEN new ELSE n
    BY <1>1
  <2>2. w \in User /\ n \in Nick
    BY <2>1 DEF Acceptee
  <2>3. S.users[w].nick = n
    BY <1>0, <2>1 DEF Following
  <2> HIDE DEF w, n
  <2>4. T.users[w].nick = IF w = u THEN new ELSE S.users[w].nick
    BY <2>2 DEF NickStep
  <2>5. CASE w = u
    BY <2>1, <2>3, <2>4, <2>5
  <2>6. CASE w # u
    <3>1. n # old
      <4>1. S.index.nick[n] = w
        BY <1>0, <2>2, <2>3 DEF Indexed
      <4>2. S.index.nick[n] # u
        BY <2>6, <4>1
      <4>3. S.users[u].nick # n
        BY <1>0, <2>2, <4>2 DEF Indexed
      <4> QED BY <4>3
    <3> QED BY <2>1, <2>3, <2>4, <2>6, <3>1
  <2> QED BY <2>5, <2>6
<1>4. ASSUME NEW v \in User
      PROVE  /\ \A m : m \notin {old, new} => Named(T.users[v], m) = Named(S.users[v], m)
             /\ Named(T.users[v], old) = {}
             /\ Named(T.users[v], new) = Named(S.users[v], new) \cup Named(S.users[v], old)
  BY <1>1 DEF Named
<1>5. /\ \A m : m \notin {old, new} => Entries(T, m) = Entries(S, m)
      /\ Entries(T, old) = {}
      /\ Entries(T, new) = Entries(S, new) \cup Entries(S, old)
  <2>1. \A m : m \notin {old, new} => Entries(T, m) = Entries(S, m)
    BY <1>4 DEF Entries
  <2>2. Entries(T, old) = {}
    BY <1>4 DEF Entries
  <2>3. Entries(T, new) = Entries(S, new) \cup Entries(S, old)
    <3>1. Entries(T, new) = UNION {{v} \X (Named(S.users[v], new) \cup Named(S.users[v], old)) : v \in User}
      BY <1>4 DEF Entries
    <3> QED BY <3>1 DEF Entries
  <2> QED BY <2>1, <2>2, <2>3
<1>6. \A m : IsFiniteSet(Entries(S, m)) /\ Cardinality(Entries(S, m)) \in Nat
  BY <1>2, EntriesFinite
<1>7. ASSUME NEW m \in Nick PROVE T.index.accepted[m] >= Cardinality(Entries(T, m))
  <2>0. /\ S.index.accepted[m] \in Nat /\ S.index.accepted[new] \in Nat
        /\ S.index.accepted[m] >= Cardinality(Entries(S, m))
        /\ S.index.accepted[new] >= Cardinality(Entries(S, new))
    BY <1>0 DEF Peopled, Counted
  <2>1. CASE m = old
    <3>1. T.index.accepted[m] = 0
      BY <2>1 DEF NickStep
    <3>2. Cardinality(Entries(T, m)) = 0
      BY <1>5, <2>1, FS_EmptySet
    <3> QED BY <3>1, <3>2
  <2>2. CASE m = new /\ old # None
    <3>1. T.index.accepted[m] = S.index.accepted[new] + S.index.accepted[old]
      BY <2>2 DEF NickStep
    <3>2. S.index.accepted[old] \in Nat /\ S.index.accepted[old] >= Cardinality(Entries(S, old))
      BY <1>0, <2>2 DEF Peopled, Counted
    <3>3. /\ Cardinality(Entries(T, m)) =
                Cardinality(Entries(S, new)) + Cardinality(Entries(S, old))
                   - Cardinality(Entries(S, new) \cap Entries(S, old))
      BY <1>5, <1>6, <2>2, FS_Union
    <3>4. Cardinality(Entries(S, new) \cap Entries(S, old)) \in Nat
      BY <1>6, FS_Intersection, FS_CardinalityType
    <3> QED BY <1>6, <2>0, <3>1, <3>2, <3>3, <3>4
  <2>3. CASE m = new /\ old = None
    <3>1. T.index.accepted[m] = S.index.accepted[m]
      BY <1>0, <2>3 DEF NickStep
    <3>2. Entries(S, old) = {}
      <4>1. \A v \in User : Named(S.users[v], None) = {}
        BY <1>0, <1>1 DEF Named, Acceptee
      <4> QED BY <2>3, <4>1 DEF Entries
    <3>3. Entries(T, m) = Entries(S, m)
      BY <1>5, <2>3, <3>2
    <3> QED BY <2>0, <3>1, <3>3
  <2>4. CASE m \notin {old, new}
    <3>1. T.index.accepted[m] = S.index.accepted[m]
      BY <2>4 DEF NickStep
    <3> QED BY <1>5, <2>0, <2>4, <3>1
  <2> QED BY <2>1, <2>2, <2>3, <2>4
<1>8. Counted(T)
  BY <1>7 DEF Counted
<1> QED BY <1>2, <1>3, <1>8

\* The tables are right after u changed its nick.
LEMMA NickBase ==
  ASSUME NEW S, Base(S), NEW T, NEW u \in User, NEW old, old = S.users[u].nick, NEW new \in Nick,
         S.index.nick[new] = None, S.users[u].phase # "out", NickStep(S, T, u, old, new)
  PROVE  Base(T)
<1>0. /\ Peopled(S) /\ Indexed(S) /\ old \in Nick \cup {None} /\ None \notin User /\ None \notin Nick
  BY MessagesAssumption DEF Base, Peopled
<1>1. old # new
  BY NickStatus, SMTT(30)
<1>2. Lists_typed(T) /\ Following(T) /\ Counted(T)
  BY <1>1, NickEntries
<1>3. Peopled(T)
  <2>1. ASSUME NEW v \in User
        PROVE  /\ T.users[v].phase \in {"out", "new", "in"}
               /\ T.users[v].nick \in Nick \cup {None}
               /\ T.users[v].phase = "out" => T.users[v].nick = None
               /\ T.users[v].phase = "in" => T.users[v].nick # None
               /\ T.users[v].accept \in Seq(Acceptee)
               /\ \A l \in Lists : T.users[v][l] \subseteq Nick
    <3>1. /\ T.users[v].phase = S.users[v].phase
          /\ T.users[v].nick = IF v = u THEN new ELSE S.users[v].nick
          /\ \A l \in Lists : T.users[v][l] = S.users[v][l]
      BY DEF NickStep
    <3>2. /\ S.users[v].phase \in {"out", "new", "in"}
          /\ S.users[v].nick \in Nick \cup {None}
          /\ S.users[v].phase = "out" => S.users[v].nick = None
          /\ S.users[v].phase = "in" => S.users[v].nick # None
          /\ \A l \in Lists : S.users[v][l] \subseteq Nick
      BY <1>0 DEF Peopled
    <3>3. T.users[v].accept \in Seq(Acceptee)
      BY <1>2 DEF Lists_typed
    <3> QED BY <1>0, <3>1, <3>2, <3>3
  <2>2. ASSUME NEW m \in Nick
        PROVE  T.index.accepted[m] \in Nat /\ T.index.nick[m] \in User \cup {None}
    <3>1. T.index.nick[m] \in User \cup {None}
      BY <1>0 DEF NickStep, Peopled
    <3>2. /\ S.index.accepted[m] \in Nat /\ S.index.accepted[new] \in Nat
          /\ old # None => S.index.accepted[old] \in Nat
      BY <1>0 DEF Peopled
    <3>3. T.index.accepted[m] =
                IF m = old THEN 0
                ELSE IF m = new /\ old # None THEN S.index.accepted[new] + S.index.accepted[old]
                ELSE S.index.accepted[m]
      BY DEF NickStep
    <3> QED BY <3>1, <3>2, <3>3
  <2> QED BY <2>1, <2>2 DEF Peopled
<1>4. Indexed(T)
  <2>1. ASSUME NEW n \in Nick, NEW v \in User
        PROVE  T.index.nick[n] = v <=> T.users[v].nick = n
    <3>1. /\ T.users[v].nick = IF v = u THEN new ELSE S.users[v].nick
          /\ T.index.nick[n] = IF n = new THEN u ELSE IF n = old THEN None ELSE S.index.nick[n]
      BY DEF NickStep
    <3>2. /\ S.index.nick[n] = v <=> S.users[v].nick = n
          /\ S.index.nick[n] = u <=> S.users[u].nick = n
          /\ S.index.nick[new] = v <=> S.users[v].nick = new
      BY <1>0 DEF Indexed
    <3> QED BY <1>0, <1>1, <3>1, <3>2
  <2>2. \A l \in Lists, n \in Nick, v \in User : v \in T.index[l][n] <=> n \in T.users[v][l]
    <3>1. \A l \in Lists, n \in Nick, v \in User :
             T.index[l][n] = S.index[l][n] /\ T.users[v][l] = S.users[v][l]
      BY DEF NickStep
    <3> QED BY <1>0, <3>1 DEF Indexed
  <2> QED BY <2>1, <2>2 DEF Indexed
<1> QED BY <1>2, <1>3, <1>4 DEF Base, NickStep

-----------------------------------------------------------------------------
(* Messages: ids, histories and what is shown.                             *)

\* The rest of the state stays; the messages are still in order.
Spoken(S, T) == SamePres(S, T) /\ Disc(T)

\* One more message or event has an id.
LEMMA NextKeeps ==
  ASSUME NEW S, Shaped(S), Disc(S), NEW e \in LogRec
  PROVE  /\ Spoken(S, next_msgid(S, e))
         /\ ThisId(next_msgid(S, e)) = Len(S.log) + 1
         /\ next_msgid(S, e).log = Append(S.log, e)
         /\ next_msgid(S, e).history = S.history /\ next_msgid(S, e).now = S.now
         /\ next_msgid(S, e).rooms = S.rooms /\ next_msgid(S, e).users = S.users
<1> DEFINE T == next_msgid(S, e)
<1>1. DOMAIN S = StateField
  BY DEF Shaped
<1>2. T = [S EXCEPT !.log = Append(S.log, e)]
  BY DEF next_msgid
<1> HIDE DEF T
<1>3. /\ DOMAIN T = StateField /\ T.log = Append(S.log, e) /\ T.history = S.history
      /\ T.now = S.now /\ T.shown = S.shown /\ T.users = S.users /\ T.index = S.index
      /\ T.told = S.told /\ T.rooms = S.rooms /\ T.batches = S.batches
  BY <1>1, <1>2 DEF StateField
<1>4. SamePres(S, T)
  BY <1>3 DEF Shaped, SamePres
<1>5. /\ S.log \in Seq(LogRec) /\ Len(S.log) \in Nat /\ Len(T.log) = Len(S.log) + 1
      /\ T.log \in Seq(LogRec) /\ \A i \in 1 .. Len(S.log) : T.log[i] = S.log[i]
  BY <1>3, AppendFacts DEF Disc
<1>6. 1 .. Len(S.log) \subseteq 1 .. Len(T.log)
  BY <1>5
<1>7. ASSUME NEW k \in Key, NEW j \in 1 .. Len(T.history[k])
      PROVE  Open_in(T, k, T.history[k][j].id)
  <2>1. Open_in(S, k, S.history[k][j].id)
    BY <1>3 DEF Disc
  <2> QED BY <1>3, <1>5, <1>6, <2>1 DEF Open_in
<1>8. \A x \in T.shown : /\ x[2] \in 1 .. Len(T.log) /\ ~x[3]
                         /\ T.log[x[2]].ops => x[1] \in Sees(T.log[x[2]])
  BY <1>3, <1>5, <1>6 DEF Disc
<1>9. Disc(T)
  BY <1>3, <1>5, <1>7, <1>8 DEF Disc
<1> QED BY <1>3, <1>4, <1>5, <1>9 DEF T, Spoken, ThisId

\* Messages may be shown that are not redacted, to those who may see them.
LEMMA ShowKeeps ==
  ASSUME NEW S, Shaped(S), Disc(S), NEW ids, NEW who,
         \A i \in ids : /\ i \in 1 .. Len(S.log) /\ ~S.log[i].redacted
                        /\ S.log[i].ops => who \subseteq Sees(S.log[i])
  PROVE  /\ Spoken(S, Show(S, ids, who))
         /\ Show(S, ids, who).log = S.log /\ Show(S, ids, who).rooms = S.rooms
         /\ Show(S, ids, who).users = S.users /\ Show(S, ids, who).history = S.history
<1> DEFINE T == Show(S, ids, who)
           new == {<<w, i, S.log[i].redacted>> : w \in who, i \in ids}
<1>1. DOMAIN S = StateField
  BY DEF Shaped
<1>2. T = [S EXCEPT !.shown = S.shown \cup new]
  BY DEF Show
<1> HIDE DEF T
<1>3. /\ DOMAIN T = StateField /\ T.log = S.log /\ T.history = S.history
      /\ T.now = S.now /\ T.shown = S.shown \cup new /\ T.users = S.users /\ T.index = S.index
      /\ T.told = S.told /\ T.rooms = S.rooms /\ T.batches = S.batches
  <2> HIDE DEF new
  <2> QED BY <1>1, <1>2 DEF StateField
<1>4. SamePres(S, T)
  BY <1>3 DEF Shaped, SamePres
<1>5. ASSUME NEW x \in T.shown
      PROVE  /\ x[2] \in 1 .. Len(T.log) /\ ~x[3]
             /\ T.log[x[2]].ops => x[1] \in Sees(T.log[x[2]])
  <2>1. CASE x \in S.shown
    BY <1>3, <2>1 DEF Disc
  <2>2. CASE x \in new
    <3>1. PICK w \in who, i \in ids : x = <<w, i, S.log[i].redacted>>
      BY <2>2
    <3>2. x[1] = w /\ x[2] = i /\ x[3] = S.log[i].redacted
      BY <3>1
    <3> QED BY <1>3, <3>2
  <2> QED BY <1>3, <2>1, <2>2
<1>6. \A k \in Key : \A j \in 1 .. Len(T.history[k]) : Open_in(T, k, T.history[k][j].id)
  <2> SUFFICES ASSUME NEW k \in Key, NEW j \in 1 .. Len(T.history[k])
               PROVE  Open_in(T, k, T.history[k][j].id)
    OBVIOUS
  <2>1. Open_in(S, k, S.history[k][j].id)
    BY <1>3 DEF Disc
  <2> QED BY <1>3, <2>1, OpenFrame
<1>7. Disc(T)
  BY <1>3, <1>5, <1>6 DEF Disc
<1> QED BY <1>3, <1>4, <1>7 DEF T, Spoken

\* A history keeps its newest entries.
LEMMA CappedFacts ==
  ASSUME NEW buf \in Seq(HistRec)
  PROVE  /\ Capped(buf) \in Seq(HistRec)
         /\ \A j \in 1 .. Len(Capped(buf)) : \E i \in 1 .. Len(buf) : Capped(buf)[j] = buf[i]
<1> DEFINE a == SatSub(Len(buf), HistoryLimit) + 1
           n == Len(buf)
<1>1. HistoryLimit \in Nat
  BY MessagesAssumption
<1>2. a \in Nat /\ a >= 1 /\ n \in Nat /\ n - a + 1 >= 0
  BY <1>1 DEF SatSub
<1>3. Capped(buf) = SubSeq(buf, a, n)
  BY DEF Capped
<1> HIDE DEF a
<1>4. /\ SubSeq(buf, a, n) \in Seq(HistRec)
      /\ Len(SubSeq(buf, a, n)) = n - a + 1
      /\ \A j \in 1 .. n - a + 1 : SubSeq(buf, a, n)[j] = buf[a + j - 1]
  BY <1>2
<1>5. \A j \in 1 .. n - a + 1 : a + j - 1 \in 1 .. n
  BY <1>2
<1> QED BY <1>3, <1>4, <1>5

\* An open message is kept in the history of its conversation.
LEMMA StoreKeeps ==
  ASSUME NEW S, Shaped(S), Disc(S), NEW k, NEW entry \in HistRec, Open_in(S, k, entry.id)
  PROVE  /\ Spoken(S, Store(S, k, entry))
         /\ Store(S, k, entry).log = S.log /\ Store(S, k, entry).rooms = S.rooms
         /\ Store(S, k, entry).users = S.users
<1> DEFINE T == Store(S, k, entry)
           buf == Append(S.history[k], entry)
<1>1. DOMAIN S = StateField
  BY DEF Shaped
<1>2. T = [S EXCEPT !.history = [S.history EXCEPT ![k] = Capped(buf)]]
  BY DEF Store
<1> HIDE DEF T
<1>3. /\ DOMAIN T = StateField /\ T.log = S.log
      /\ T.history = [S.history EXCEPT ![k] = Capped(buf)]
      /\ T.now = S.now /\ T.shown = S.shown /\ T.users = S.users /\ T.index = S.index
      /\ T.told = S.told /\ T.rooms = S.rooms /\ T.batches = S.batches
  <2> HIDE DEF buf
  <2> QED BY <1>1, <1>2 DEF StateField
<1>4. SamePres(S, T)
  BY <1>3 DEF Shaped, SamePres
<1>5. S.history \in [Key -> Seq(HistRec)]
  BY DEF Disc
<1>6. ASSUME k \in Key
      PROVE  /\ Capped(buf) \in Seq(HistRec)
             /\ \A j \in 1 .. Len(Capped(buf)) : Open_in(S, k, Capped(buf)[j].id)
  <2>1. S.history[k] \in Seq(HistRec)
    BY <1>5, <1>6
  <2>2. /\ buf \in Seq(HistRec) /\ Len(buf) = Len(S.history[k]) + 1 /\ Len(S.history[k]) \in Nat
        /\ buf[Len(S.history[k]) + 1] = entry
        /\ \A i \in 1 .. Len(S.history[k]) : buf[i] = S.history[k][i]
    BY <2>1, AppendFacts
  <2> HIDE DEF buf
  <2>3. \A i \in 1 .. Len(buf) : Open_in(S, k, buf[i].id)
    <3> SUFFICES ASSUME NEW i \in 1 .. Len(buf) PROVE Open_in(S, k, buf[i].id)
      OBVIOUS
    <3>1. CASE i = Len(S.history[k]) + 1
      BY <2>2, <3>1
    <3>2. CASE i # Len(S.history[k]) + 1
      <4>1. i \in 1 .. Len(S.history[k])
        BY <2>2, <3>2
      <4> QED BY <1>6, <2>2, <4>1 DEF Disc
    <3> QED BY <3>1, <3>2
  <2> QED BY <2>2, <2>3, CappedFacts
<1>7. T.history \in [Key -> Seq(HistRec)]
  <2> HIDE DEF buf
  <2> QED BY <1>3, <1>5, <1>6
<1>8. ASSUME NEW c \in Key, NEW j \in 1 .. Len(T.history[c])
      PROVE  Open_in(T, c, T.history[c][j].id)
  <2>1. CASE c = k
    <3>1. T.history[c] = Capped(buf)
      BY <1>3, <1>5, <2>1
    <3> HIDE DEF buf
    <3> QED BY <1>3, <1>6, <2>1, <3>1 DEF Open_in
  <2>2. CASE c # k
    <3>1. T.history[c] = S.history[c]
      BY <1>3, <1>5, <2>2
    <3>2. Open_in(S, c, S.history[c][j].id)
      BY <1>8, <3>1 DEF Disc
    <3> QED BY <1>3, <3>1, <3>2, OpenFrame
  <2> QED BY <2>1, <2>2
<1> HIDE DEF buf
<1>9. Disc(T)
  <2>1. /\ T.log \in Seq(LogRec) /\ T.now \in Nat
        /\ \A x \in T.shown :
              /\ x[2] \in 1 .. Len(T.log) /\ ~x[3]
              /\ T.log[x[2]].ops => x[1] \in Sees(T.log[x[2]])
    BY <1>3 DEF Disc
  <2>2. T.batches \in [User -> Batch \cup {None}]
    BY <1>3 DEF Disc
  <2> QED BY <1>7, <1>8, <2>1, <2>2 DEF Disc
<1> QED BY <1>3, <1>4, <1>9 DEF T, Spoken

\* What is said after what was said.
LEMMA SpokenTrans ==
  ASSUME NEW S, NEW T, NEW U, Spoken(S, T), Spoken(T, U)
  PROVE  Spoken(S, U)
BY FrameTrans DEF Spoken

\* A message leaves the invariant.
LEMMA SpokenGood ==
  ASSUME NEW S, NEW T, Pres(S), Spoken(S, T)
  PROVE  Good(T)
BY PresFrame DEF Spoken, Good

\* A state where nothing was said.
LEMMA SpokenRefl ==
  ASSUME NEW S, Shaped(S), Disc(S)
  PROVE  Spoken(S, S)
BY DEF Spoken, SamePres

\* A frame says nothing.
LEMMA FrameSpoken ==
  ASSUME NEW S, NEW T, Disc(S), Frame(S, T)
  PROVE  Spoken(S, T) /\ Shaped(T)
BY DiscFrame DEF Spoken, Frame, SamePres

\* The message that was just given its id.
LEMMA FreshFacts ==
  ASSUME NEW S, Shaped(S), Disc(S), NEW e \in LogRec, ~e.redacted,
         NEW A, A = next_msgid(S, e)
  PROVE  /\ Spoken(S, A) /\ Shaped(A) /\ Disc(A)
         /\ A.users = S.users /\ A.rooms = S.rooms
         /\ ThisId(A) \in 1 .. Len(A.log) /\ A.log[ThisId(A)] = e
         /\ ~e.ops => Open_in(A, e.to, ThisId(A))
<1>2. /\ Spoken(S, A) /\ ThisId(A) = Len(S.log) + 1 /\ A.log = Append(S.log, e)
      /\ A.users = S.users /\ A.rooms = S.rooms
  BY NextKeeps
<1>3. Shaped(A) /\ Disc(A)
  BY <1>2 DEF Spoken, SamePres
<1>4. /\ Len(S.log) \in Nat /\ Len(A.log) = Len(S.log) + 1 /\ A.log[Len(S.log) + 1] = e
  BY <1>2, AppendFacts DEF Disc
<1> QED BY <1>2, <1>3, <1>4 DEF Open_in

\* The entry of a message that is for everybody in its conversation.
LEMMA PlainEntry ==
  ASSUME NEW k \in SUBSET (Nick \cup Chan \cup {None}), NEW u \in User \cup {None}
  PROVE  /\ LogEntry(k, u, FALSE, {}) \in LogRec /\ ~LogEntry(k, u, FALSE, {}).redacted
         /\ ~LogEntry(k, u, FALSE, {}).ops /\ LogEntry(k, u, FALSE, {}).to = k
BY DEF LogEntry, LogRec

\* chathistory record: an open message goes into the history.
LEMMA RecordKeeps ==
  ASSUME NEW S, Shaped(S), Disc(S), NEW k, NEW n \in Nick \cup {None}, Open_in(S, k, ThisId(S))
  PROVE  /\ Spoken(S, record(S, k, n)) /\ Shaped(record(S, k, n)) /\ Disc(record(S, k, n))
         /\ record(S, k, n).log = S.log /\ record(S, k, n).rooms = S.rooms
         /\ record(S, k, n).users = S.users
<1> DEFINE h == [id |-> ThisId(S), from |-> n, event |-> FALSE, ts |-> S.now]
<1>1. ThisId(S) \in Nat /\ S.now \in Nat
  BY DEF Disc, Open_in
<1>2. h \in HistRec /\ h.id = ThisId(S)
  BY <1>1 DEF HistRec
<1>3. record(S, k, n) = Store(S, k, h)
  BY DEF record
<1> HIDE DEF h
<1> QED BY <1>2, <1>3, StoreKeeps DEF Spoken, SamePres

\* event_playback: an event has an id of its own and goes into the history.
LEMMA RecordEventKeeps ==
  ASSUME NEW S, Shaped(S), Disc(S), NEW k \in SUBSET (Nick \cup Chan), NEW n \in Nick \cup {None}
  PROVE  /\ Spoken(S, record_event(S, k, n))
         /\ record_event(S, k, n).users = S.users
<1>1. CASE ~Hook("events")
  BY <1>1, SpokenRefl DEF record_event
<1>2. CASE Hook("events")
  <2> DEFINE e == LogEntry(k, None, FALSE, {})
             A == next_msgid(S, e)
             h == [id |-> ThisId(A), from |-> n, event |-> TRUE, ts |-> A.now]
  <2>0. e \in LogRec /\ ~e.redacted /\ ~e.ops /\ e.to = k
    BY PlainEntry
  <2>1. record_event(S, k, n) = Store(A, k, h)
    BY <1>2 DEF record_event
  <2> HIDE DEF e
  <2>2. /\ Spoken(S, A) /\ Shaped(A) /\ Disc(A) /\ Open_in(A, k, ThisId(A)) /\ A.users = S.users
    <3>1. A = next_msgid(S, e)
      OBVIOUS
    <3> HIDE DEF A
    <3> QED BY <2>0, <3>1, FreshFacts
  <2> HIDE DEF A
  <2>3. ThisId(A) \in Nat /\ A.now \in Nat
    BY <2>2 DEF Disc, Open_in
  <2>4. h \in HistRec /\ h.id = ThisId(A)
    BY <2>3 DEF HistRec
  <2> HIDE DEF h
  <2> QED BY <2>1, <2>2, <2>4, StoreKeeps, SpokenTrans
<1> QED BY <1>1, <1>2

-----------------------------------------------------------------------------
(* The folds over events and over the lines of a batch.  The states form   *)
(* no set, so the fold's function is built here, size by size.             *)

FoldStep(a, T, x) ==
    IF a.kind = "event" THEN record_event(T, ChanKey(x), a.nick)
    ELSE deliver(T, a.user, a.target, a.lines[x], a.notice)

StepEquation(D, base, a, ch, it) == it = [s \in SUBSET D |->
    IF s = {} THEN base ELSE FoldStep(a, it[s \ {ch[s]}], ch[s])]

\* The equation of such a fold has a solution.
LEMMA StepFoldExists ==
  ASSUME NEW D, IsFiniteSet(D), NEW base, NEW a,
         NEW ch, \A s \in SUBSET D : s # {} => ch[s] \in s
  PROVE  \E it : StepEquation(D, base, a, ch, it)
<1> DEFINE Grown(it) == [s \in SUBSET D |->
               IF s = {} THEN base ELSE FoldStep(a, it[s \ {ch[s]}], ch[s])]
           Sol(it, n) == \A s \in SUBSET D : Cardinality(s) <= n =>
               it[s] = IF s = {} THEN base ELSE FoldStep(a, it[s \ {ch[s]}], ch[s])
           N == {n \in Nat : \E it : Sol(it, n)}
<1>0. \A s \in SUBSET D : IsFiniteSet(s) /\ Cardinality(s) \in Nat
  BY FS_Subset, FS_CardinalityType
<1>1. 0 \in N
  <2> DEFINE it == [s \in SUBSET D |-> base]
  <2>1. \A s \in SUBSET D : Cardinality(s) <= 0 => s = {}
    BY <1>0, FS_EmptySet
  <2>2. Sol(it, 0)
    BY <2>1
  <2> QED BY <2>2
<1>2. ASSUME NEW n \in N PROVE n + 1 \in N
  <2>0. n \in Nat
    OBVIOUS
  <2>1. PICK it : Sol(it, n)
    OBVIOUS
  <2> DEFINE jt == Grown(it)
  <2>3. \A s \in SUBSET D : Cardinality(s) <= n => jt[s] = it[s]
    BY <2>1
  <2>4. ASSUME NEW s \in SUBSET D, Cardinality(s) <= n + 1, s # {}
        PROVE  jt[s \ {ch[s]}] = it[s \ {ch[s]}]
    <3>1. ch[s] \in s
      BY <2>4
    <3>2. Cardinality(s \ {ch[s]}) = Cardinality(s) - 1
      BY <1>0, <3>1, FS_RemoveElement
    <3>3. Cardinality(s \ {ch[s]}) <= n
      BY <1>0, <2>0, <2>4, <3>2
    <3> QED BY <2>3, <3>3
  <2>5. Sol(jt, n + 1)
    <3> SUFFICES ASSUME NEW s \in SUBSET D, Cardinality(s) <= n + 1
                 PROVE  jt[s] = IF s = {} THEN base ELSE FoldStep(a, jt[s \ {ch[s]}], ch[s])
      OBVIOUS
    <3>1. jt[s] = IF s = {} THEN base ELSE FoldStep(a, it[s \ {ch[s]}], ch[s])
      OBVIOUS
    <3> HIDE DEF jt
    <3> QED BY <2>4, <3>1
  <2> HIDE DEF jt, Sol
  <2> QED BY <2>0, <2>5
<1>3. Cardinality(D) \in N
  <2> HIDE DEF N
  <2>1. N \in SUBSET Nat
    BY DEF N
  <2>2. Cardinality(D) \in Nat
    BY FS_CardinalityType
  <2> QED BY <1>1, <1>2, <2>1, <2>2, NatInd
<1>4. PICK it : Sol(it, Cardinality(D))
  BY <1>3
<1>5. \A s \in SUBSET D : Cardinality(s) <= Cardinality(D)
  BY FS_Subset
<1>6. \A s \in SUBSET D : it[s] = Grown(it)[s]
  BY <1>4, <1>5
<1>7. StepEquation(D, base, a, ch, Grown(it))
  <2> DEFINE jt == Grown(it)
  <2>1. \A s \in SUBSET D : s \ {ch[s]} \in SUBSET D
    OBVIOUS
  <2>2. jt = [s \in SUBSET D |-> IF s = {} THEN base ELSE FoldStep(a, jt[s \ {ch[s]}], ch[s])]
    <3>1. \A s \in SUBSET D : jt[s \ {ch[s]}] = it[s \ {ch[s]}]
      BY <1>6, <2>1
    <3>2. jt = [s \in SUBSET D |-> IF s = {} THEN base ELSE FoldStep(a, it[s \ {ch[s]}], ch[s])]
      OBVIOUS
    <3> HIDE DEF jt
    <3> QED BY <3>1, <3>2
  <2> HIDE DEF jt
  <2>3. StepEquation(D, base, a, ch, jt)
    BY <2>2 DEF StepEquation
  <2> QED BY <2>3 DEF jt
<1> QED BY <1>7

RecordedEquation(S, cs, n, it) == it = [s \in SUBSET cs |->
    IF s = {} THEN S ELSE record_event(it[s \ {Chosen(s)}], ChanKey(Chosen(s)), n)]

\* The fold over the channels satisfies its equation.
LEMMA RecordedFold ==
  ASSUME NEW S, NEW cs, NEW n, NEW it, RecordedEquation(S, cs, n, it)
  PROVE  \E jt : RecordedEquation(S, cs, n, jt) /\ Recorded(S, cs, n) = jt[cs]
<1>1. PICK jt : jt = CHOOSE k : RecordedEquation(S, cs, n, k)
  OBVIOUS
<1>2. RecordedEquation(S, cs, n, jt)
  BY <1>1
<1>3. Recorded(S, cs, n) = jt[cs]
  BY <1>1, Zenon DEF Recorded, FoldSet, MapThenFoldSet, RecordedEquation, Chosen
<1> QED BY <1>2, <1>3

\* The events of a user in its channels are recorded.
LEMMA RecordedKeeps ==
  ASSUME NEW S, Shaped(S), Disc(S), NEW cs \in SUBSET Chan, NEW n \in Nick \cup {None}
  PROVE  /\ Spoken(S, Recorded(S, cs, n)) /\ Recorded(S, cs, n).users = S.users
<1> DEFINE ch == [s \in SUBSET cs |-> Chosen(s)]
           a == [kind |-> "event", nick |-> n]
<1>0. IsFiniteSet(cs)
  BY MessagesAssumption, FS_Subset
<1>1. /\ \A s \in SUBSET cs : s # {} => ch[s] \in s
      /\ \A s \in SUBSET cs : ch[s] = Chosen(s)
      /\ \A T, x : FoldStep(a, T, x) = record_event(T, ChanKey(x), n)
  BY ChosenIn DEF FoldStep
<1> HIDE DEF ch, a
<1>2. PICK it : StepEquation(cs, S, a, ch, it)
  BY <1>0, <1>1, StepFoldExists
<1>3. RecordedEquation(S, cs, n, it)
  <2>1. \A s \in SUBSET cs : FoldStep(a, it[s \ {ch[s]}], ch[s]) =
                              record_event(it[s \ {Chosen(s)}], ChanKey(Chosen(s)), n)
    BY <1>1, Zenon
  <2> QED BY <1>2, <2>1 DEF StepEquation, RecordedEquation
<1>4. PICK jt : RecordedEquation(S, cs, n, jt) /\ Recorded(S, cs, n) = jt[cs]
  BY <1>3, RecordedFold
<1>5. /\ jt[{}] = S
      /\ \A s \in SUBSET cs : s # {} =>
            jt[s] = record_event(jt[s \ {Chosen(s)}], ChanKey(Chosen(s)), n)
  BY <1>4 DEF RecordedEquation
<1> DEFINE W == [s \in SUBSET cs |-> {X \in {jt[s]} : Spoken(S, X) /\ X.users = S.users}]
<1>6. jt[{}] \in W[{}]
  BY <1>5, SpokenRefl
<1>7. ASSUME NEW s \in SUBSET cs, s # {}, jt[s \ {Chosen(s)}] \in W[s \ {Chosen(s)}]
      PROVE  jt[s] \in W[s]
  <2> DEFINE c == Chosen(s)
             T == jt[s \ {c}]
  <2>1. c \in cs
    BY <1>7, ChosenIn
  <2>2. Spoken(S, T) /\ T.users = S.users
    BY <1>7
  <2>3. jt[s] = record_event(T, ChanKey(c), n)
    BY <1>5, <1>7
  <2> HIDE DEF T, c
  <2>4. ChanKey(c) \in SUBSET (Nick \cup Chan)
    BY <2>1 DEF ChanKey
  <2>5. Shaped(T) /\ Disc(T)
    BY <2>2 DEF Spoken, SamePres
  <2>6. Spoken(T, jt[s]) /\ jt[s].users = T.users
    BY <2>3, <2>4, <2>5, RecordEventKeeps
  <2>7. Spoken(S, jt[s]) /\ jt[s].users = S.users
    BY <2>2, <2>6, SpokenTrans
  <2> QED BY <2>7
<1>8. jt[cs] \in W[cs]
  <2> HIDE DEF W
  <2> QED BY <1>0, <1>6, <1>7, SetFoldStays
<1> QED BY <1>4, <1>8

-----------------------------------------------------------------------------
(* Redactions, replays and the fan out of a message.                       *)

\* A message that is redacted is in no history.
LEMMA RedactKeeps ==
  ASSUME NEW S, Shaped(S), Disc(S), NEW k \in Key, NEW i \in 1 .. Len(S.log), S.log[i].to = k
  PROVE  Spoken(S, MarkRedacted(forget(S, k, i), i))
<1> DEFINE K == {m \in Range(S.history[k]) : m.id # i}
           buf == Kept(S.history[k], K)
           F == forget(S, k, i)
           T == MarkRedacted(F, i)
           e == [S.log[i] EXCEPT !.redacted = TRUE]
<1>0. /\ DOMAIN S = StateField /\ S.history \in [Key -> Seq(HistRec)] /\ S.log \in Seq(LogRec)
      /\ S.history[k] \in Seq(HistRec)
  BY DEF Shaped, Disc
<1>1. F = [S EXCEPT !.history = [S.history EXCEPT ![k] = buf]]
  BY DEF forget
<1> HIDE DEF F, buf, K
<1>2. /\ DOMAIN F = StateField /\ F.history = [S.history EXCEPT ![k] = buf] /\ F.log = S.log
      /\ F.now = S.now /\ F.shown = S.shown /\ F.users = S.users /\ F.index = S.index
      /\ F.told = S.told /\ F.rooms = S.rooms /\ F.batches = S.batches
  BY <1>0, <1>1 DEF StateField
<1>3. T = [F EXCEPT !.log = [F.log EXCEPT ![i] = [F.log[i] EXCEPT !.redacted = TRUE]]]
  BY DEF MarkRedacted
<1> HIDE DEF T
<1>4. /\ DOMAIN T = StateField /\ T.history = F.history
      /\ T.log = [F.log EXCEPT ![i] = [F.log[i] EXCEPT !.redacted = TRUE]]
      /\ T.now = F.now /\ T.shown = F.shown /\ T.users = F.users /\ T.index = F.index
      /\ T.told = F.told /\ T.rooms = F.rooms /\ T.batches = F.batches
  BY <1>2, <1>3 DEF StateField
<1>5. T.log = [S.log EXCEPT ![i] = e]
  BY <1>2, <1>4
<1>6. e \in LogRec /\ e.ops = S.log[i].ops /\ Sees(e) = Sees(S.log[i])
  <2> DEFINE l == S.log[i]
  <2>1. l \in LogRec /\ e = [l EXCEPT !.redacted = TRUE]
    BY <1>0
  <2> HIDE DEF l, e
  <2>2. e \in LogRec /\ e.ops = l.ops /\ Sees(e) = Sees(l)
    BY <2>1 DEF LogRec, Sees
  <2> QED BY <2>2 DEF l
<1> HIDE DEF e
<1>7. /\ T.log \in Seq(LogRec) /\ Len(T.log) = Len(S.log)
      /\ \A j \in 1 .. Len(S.log) : j # i => T.log[j] = S.log[j]
      /\ T.log[i] = e
  BY <1>0, <1>5, <1>6
<1>8. SamePres(S, T)
  BY <1>2, <1>4 DEF Shaped, SamePres
<1>9. PICK f : buf \in Seq(HistRec) /\ Picks(buf, S.history[k], K, 1 .. Len(S.history[k]), f)
  BY <1>0, KeptFacts DEF buf
<1>10. ASSUME NEW j \in 1 .. Len(buf)
       PROVE  buf[j].id # i /\ \E h \in 1 .. Len(S.history[k]) : buf[j] = S.history[k][h]
  <2>1. buf[j] \in K /\ f[j] \in 1 .. Len(S.history[k]) /\ buf[j] = S.history[k][f[j]]
    BY <1>9 DEF Picks
  <2> QED BY <2>1 DEF K
<1>11. T.history \in [Key -> Seq(HistRec)]
  BY <1>0, <1>2, <1>4, <1>9
<1>12. ASSUME NEW c \in Key, NEW j \in 1 .. Len(T.history[c])
       PROVE  Open_in(T, c, T.history[c][j].id)
  <2>1. CASE c = k
    <3>1. T.history[c] = buf
      BY <1>0, <1>2, <1>4, <2>1
    <3>2. PICK h \in 1 .. Len(S.history[k]) : buf[j] = S.history[k][h]
      BY <1>10, <3>1
    <3>3. Open_in(S, k, buf[j].id) /\ buf[j].id # i
      BY <1>10, <3>1, <3>2 DEF Disc
    <3> QED BY <1>7, <2>1, <3>1, <3>3 DEF Open_in
  <2>2. CASE c # k
    <3>1. T.history[c] = S.history[c]
      BY <1>0, <1>2, <1>4, <2>2
    <3>2. Open_in(S, c, S.history[c][j].id)
      BY <3>1 DEF Disc
    <3>3. S.history[c][j].id # i
      BY <2>2, <3>2 DEF Open_in
    <3> QED BY <1>7, <3>1, <3>2, <3>3 DEF Open_in
  <2> QED BY <2>1, <2>2
<1>13. ASSUME NEW x \in T.shown
       PROVE  /\ x[2] \in 1 .. Len(T.log) /\ ~x[3]
              /\ T.log[x[2]].ops => x[1] \in Sees(T.log[x[2]])
  <2>1. x \in S.shown
    BY <1>2, <1>4
  <2>2. /\ x[2] \in 1 .. Len(S.log) /\ ~x[3]
        /\ S.log[x[2]].ops => x[1] \in Sees(S.log[x[2]])
    BY <2>1 DEF Disc
  <2>3. CASE x[2] = i
    BY <1>6, <1>7, <2>2, <2>3
  <2>4. CASE x[2] # i
    BY <1>7, <2>2, <2>4
  <2> QED BY <2>3, <2>4
<1>14. T.now \in Nat /\ T.batches \in [User -> Batch \cup {None}]
  BY <1>2, <1>4 DEF Disc
<1>15. Disc(T)
  BY <1>7, <1>11, <1>12, <1>13, <1>14 DEF Disc
<1> QED BY <1>8, <1>15 DEF T, F, Spoken

\* A part of a sequence has entries of it.
LEMMA PartFacts ==
  ASSUME NEW E, NEW s \in Seq(E), NEW a \in Nat, a >= 1, NEW b \in Int, b <= Len(s),
         NEW t, t = SubSeq(s, a, b)
  PROVE  t \in Seq(E) /\ \A j \in DOMAIN t : \E i \in 1 .. Len(s) : t[j] = s[i]
<1>1. Len(s) \in Nat
  OBVIOUS
<1>2. CASE a <= b
  <2>1. /\ SubSeq(s, a, b) \in Seq(E) /\ DOMAIN SubSeq(s, a, b) = 1 .. b - a + 1
        /\ \A j \in 1 .. b - a + 1 : SubSeq(s, a, b)[j] = s[a + j - 1]
    BY <1>1, <1>2
  <2>2. \A j \in 1 .. b - a + 1 : a + j - 1 \in 1 .. Len(s)
    BY <1>1, <1>2
  <2> QED BY <2>1, <2>2
<1>3. CASE a > b
  <2>1. SubSeq(s, a, b) = <<>>
    BY <1>1, <1>3
  <2> QED BY <2>1
<1> QED BY <1>2, <1>3

\* What a history holds may be shown to who asks for it.
LEMMA ReplayKeeps ==
  ASSUME NEW S, Shaped(S), Disc(S), NEW k \in Key, NEW u, NEW buf,
         \A j \in DOMAIN buf : \E i \in 1 .. Len(S.history[k]) : buf[j] = S.history[k][i]
  PROVE  Spoken(S, Show(S, Playable(u, buf), {u}))
<1>1. ASSUME NEW i \in Playable(u, buf)
      PROVE  i \in 1 .. Len(S.log) /\ ~S.log[i].redacted /\ ~S.log[i].ops
  <2>1. PICK j \in DOMAIN buf : i = buf[j].id
    BY DEF Playable
  <2>2. PICK h \in 1 .. Len(S.history[k]) : buf[j] = S.history[k][h]
    BY <2>1
  <2>3. Open_in(S, k, i)
    BY <2>1, <2>2 DEF Disc
  <2> QED BY <2>3 DEF Open_in
<1> QED BY <1>1, ShowKeeps

\* channels.rs replay_chanhistory.
LEMMA BacklogKeeps ==
  ASSUME NEW S, Shaped(S), Disc(S), NEW u \in User, NEW c \in Chan
  PROVE  Spoken(S, replay_chanhistory(S, u, c))
<1>1. CASE ~Has("H")
  BY <1>1, SpokenRefl DEF replay_chanhistory
<1>2. CASE Has("H")
  <2> DEFINE all == S.history[ChanKey(c)]
             K == {m \in Range(all) : S.now - m.ts <= Window /\ (u \in Playback \/ ~m.event)}
             kept == Kept(all, K)
             a == SatSub(Len(kept), Replayed) + 1
             buf == SubSeq(kept, a, Len(kept))
  <2>1. replay_chanhistory(S, u, c) = Show(S, Playable(u, buf), {u})
    BY <1>2 DEF replay_chanhistory
  <2>2. ChanKey(c) \in Key /\ all \in Seq(HistRec)
    BY DEF Key, Disc
  <2> HIDE DEF all, K
  <2>3. PICK f : kept \in Seq(HistRec) /\ Picks(kept, all, K, 1 .. Len(all), f)
    BY <2>2, KeptFacts
  <2> HIDE DEF kept
  <2>4. a \in Nat /\ a >= 1 /\ Len(kept) \in Int /\ Len(kept) <= Len(kept)
    <3>1. Replayed \in Nat
      BY MessagesAssumption
    <3>2. Len(kept) \in Nat
      BY <2>3
    <3> QED BY <3>1, <3>2 DEF SatSub
  <2> HIDE DEF a
  <2>5. \A j \in DOMAIN buf : \E i \in 1 .. Len(kept) : buf[j] = kept[i]
    <3>1. buf = SubSeq(kept, a, Len(kept))
      OBVIOUS
    <3> HIDE DEF buf
    <3> QED BY <2>3, <2>4, <3>1, PartFacts
  <2>6. \A i \in 1 .. Len(kept) : \E h \in 1 .. Len(all) : kept[i] = all[h]
    BY <2>3 DEF Picks
  <2> HIDE DEF buf
  <2>7. \A j \in DOMAIN buf : \E i \in 1 .. Len(all) : buf[j] = all[i]
    BY <2>5, <2>6
  <2>8. Spoken(S, Show(S, Playable(u, buf), {u}))
    BY <2>2, <2>7, ReplayKeeps DEF all
  <2> QED BY <2>1, <2>8
<1> QED BY <1>1, <1>2

\* The position of the first entry of some, counted from zero.
LEMMA FirstFacts ==
  ASSUME NEW n \in Nat, NEW I \in SUBSET (1 .. n), NEW p, p = IF I = {} THEN None ELSE Min(I) - 1
  PROVE  p \in 0 .. n \cup {None}
<1>1. CASE I # {}
  <2>1. I \in SUBSET Nat
    OBVIOUS
  <2>2. Min(I) \in I
    BY <1>1, <2>1, MinIn
  <2>3. p = Min(I) - 1 /\ Min(I) \in 1 .. n
    BY <1>1, <2>2
  <2> QED BY <2>3
<1> QED BY <1>1

\* Min and Max of two numbers.
LEMMA OfTwo ==
  ASSUME NEW x \in Nat, NEW y \in Nat
  PROVE  /\ Min({x, y}) \in Nat /\ Min({x, y}) <= x /\ Min({x, y}) <= y
         /\ Max({x, y}) \in Nat
<1>1. {x, y} \in SUBSET Nat /\ {x, y} # {}
  OBVIOUS
<1>2. Min({x, y}) \in {x, y} /\ \A z \in {x, y} : Min({x, y}) <= z
  BY <1>1, MinIn
<1>3. \E m \in {x, y} : \A z \in {x, y} : m >= z
  <2>1. CASE x >= y
    BY <2>1
  <2>2. CASE y >= x
    BY <2>2
  <2> QED BY <2>1, <2>2
<1>4. Max({x, y}) \in {x, y}
  BY <1>3 DEF Max
<1> QED BY <1>2, <1>4

\* A slice lies in the buffer.
LEMMA SliceFacts ==
  ASSUME NEW E, NEW buf \in Seq(E), NEW sub, NEW a, NEW b, NEW limit \in Nat
  PROVE  /\ Slice(buf, sub, a, b, limit)[1] \in Nat
         /\ Slice(buf, sub, a, b, limit)[2] \in Nat
         /\ Slice(buf, sub, a, b, limit)[2] <= Len(buf)
<1> DEFINE n == Len(buf)
           ia == idx_of(buf, a)
           ib == idx_of(buf, b)
           at == At(buf, LAMBDA m : m.ts > a.at)
           later == IF a.kind = "msgid" THEN Or(ia, -1) + 1
                    ELSE IF a.kind = "timestamp" THEN Or(at, n)
                    ELSE 0
           R == Slice(buf, sub, a, b, limit)
<1>1. n \in Nat /\ DOMAIN buf = 1 .. n
  OBVIOUS
<1>2. ASSUME NEW sel PROVE idx_of(buf, sel) \in 0 .. n \cup {None}
  <2>1. \A I \in SUBSET (1 .. n) : (IF I = {} THEN None ELSE Min(I) - 1) \in 0 .. n \cup {None}
    <3> HIDE DEF n
    <3> QED BY <1>1, FirstFacts
  <2>2. At(buf, LAMBDA m : m.id = sel.at) \in 0 .. n \cup {None}
    BY <1>1, <2>1 DEF At
  <2>3. At(buf, LAMBDA m : m.ts >= sel.at) \in 0 .. n \cup {None}
    BY <1>1, <2>1 DEF At
  <2> QED BY <2>2, <2>3, Zenon DEF idx_of
<1>3. at \in 0 .. n \cup {None}
  <2>1. \A I \in SUBSET (1 .. n) : (IF I = {} THEN None ELSE Min(I) - 1) \in 0 .. n \cup {None}
    <3> HIDE DEF n
    <3> QED BY <1>1, FirstFacts
  <2> QED BY <1>1, <2>1 DEF At
<1>4. ia \in 0 .. n \cup {None} /\ ib \in 0 .. n \cup {None}
  BY <1>2
<1>5. R = CASE sub = "BEFORE" -> <<SatSub(Or(ia, n), limit), Or(ia, n)>>
            [] sub = "AFTER"  -> <<later, Min({n, later + limit})>>
            [] sub = "AROUND" -> <<SatSub(Or(ia, n \div 2), limit \div 2),
                                   Min({n, SatSub(Or(ia, n \div 2), limit \div 2) + limit})>>
            [] sub = "BETWEEN" -> <<Min({Or(ia, 0), Or(ib, n)}) + 1,
                                    Min({Min({Max({Or(ia, 0), Or(ib, n)}), n}),
                                         Min({Or(ia, 0), Or(ib, n)}) + 1 + limit})>>
            [] OTHER -> <<later + SatSub(SatSub(n, later), limit), n>>
  BY Zenon DEF Slice
<1> HIDE DEF n, ia, ib, at, R
<1>6. /\ Or(ia, n) \in 0 .. n /\ Or(ia, 0) \in 0 .. n /\ Or(ib, n) \in 0 .. n
      /\ Or(at, n) \in 0 .. n /\ Or(ia, -1) + 1 \in Nat
      /\ n \div 2 \in Nat /\ limit \div 2 \in Nat /\ Or(ia, n \div 2) \in Nat
  BY <1>1, <1>3, <1>4 DEF Or
<1>7. later \in Nat
  BY <1>6
<1> HIDE DEF later
<1>8. \A x, y \in Nat : SatSub(x, y) \in Nat /\ SatSub(x, y) <= x
  BY DEF SatSub
<1>9. CASE sub = "BEFORE"
  <2>1. R = <<SatSub(Or(ia, n), limit), Or(ia, n)>>
    BY <1>5, <1>9
  <2>2. Or(ia, n) \in Nat /\ Or(ia, n) <= n
    BY <1>1, <1>6
  <2>3. SatSub(Or(ia, n), limit) \in Nat
    BY <1>8, <2>2
  <2> QED BY <2>1, <2>2, <2>3 DEF R, n
<1>10. CASE sub = "AFTER"
  <2>1. R = <<later, Min({n, later + limit})>>
    BY <1>5, <1>10
  <2>2. later + limit \in Nat
    BY <1>7
  <2>3. Min({n, later + limit}) \in Nat /\ Min({n, later + limit}) <= n
    BY <1>1, <2>2, OfTwo
  <2> QED BY <1>7, <2>1, <2>3 DEF R, n
<1>11. CASE sub = "AROUND"
  <2> DEFINE s == SatSub(Or(ia, n \div 2), limit \div 2)
  <2>1. R = <<s, Min({n, s + limit})>>
    BY <1>5, <1>11
  <2>2. s \in Nat
    BY <1>6, <1>8
  <2> HIDE DEF s
  <2>4. s + limit \in Nat
    BY <2>2
  <2>3. Min({n, s + limit}) \in Nat /\ Min({n, s + limit}) <= n
    BY <1>1, <2>4, OfTwo
  <2> QED BY <2>1, <2>2, <2>3 DEF R, n
<1>12. CASE sub = "BETWEEN"
  <2> DEFINE x == Or(ia, 0)
             y == Or(ib, n)
             lo == Min({x, y}) + 1
             hi == Min({Max({x, y}), n})
  <2>1. R = <<lo, Min({hi, lo + limit})>>
    BY <1>5, <1>12
  <2>2. x \in Nat /\ y \in Nat
    BY <1>6
  <2> HIDE DEF x, y
  <2>7. Min({x, y}) \in Nat /\ Max({x, y}) \in Nat
    BY <2>2, OfTwo
  <2>3. lo \in Nat /\ lo + limit \in Nat /\ Max({x, y}) \in Nat
    BY <2>7
  <2>4. hi \in Nat /\ hi <= n
    BY <1>1, <2>3, OfTwo
  <2> HIDE DEF lo, hi
  <2>5. Min({hi, lo + limit}) \in Nat /\ Min({hi, lo + limit}) <= hi
    BY <2>3, <2>4, OfTwo
  <2>6. Min({hi, lo + limit}) <= n
    BY <1>1, <2>4, <2>5
  <2> QED BY <2>1, <2>3, <2>5, <2>6 DEF R, n
<1>13. CASE sub \notin {"BEFORE", "AFTER", "AROUND", "BETWEEN"}
  <2>1. R = <<later + SatSub(SatSub(n, later), limit), n>>
    BY <1>5, <1>13
  <2>2. SatSub(SatSub(n, later), limit) \in Nat
    BY <1>1, <1>7, <1>8
  <2> QED BY <1>1, <1>7, <2>1, <2>2 DEF R, n
<1> QED BY <1>9, <1>10, <1>11, <1>12, <1>13

\* chathistory.rs: what a reader of a conversation is sent.
LEMMA ChatHistoryKeeps ==
  ASSUME NEW S, Shaped(S), Disc(S), NEW k \in Key, NEW u, NEW sub, NEW a, NEW b, NEW limit \in Nat
  PROVE  Spoken(S, Show(S, Playable(u, Picked(S.history[k],
                                              Slice(S.history[k], sub, a, b, limit))), {u}))
<1> DEFINE buf == S.history[k]
           r == Slice(buf, sub, a, b, limit)
           p == Picked(buf, r)
<1>1. buf \in Seq(HistRec)
  BY DEF Disc
<1>2. r[1] \in Nat /\ r[2] \in Nat /\ r[2] <= Len(buf)
  <2> HIDE DEF buf
  <2> QED BY <1>1, SliceFacts
<1> HIDE DEF r
<1>3. \A j \in DOMAIN p : \E i \in 1 .. Len(buf) : p[j] = buf[i]
  <2> HIDE DEF buf
  <2>1. CASE r[1] < r[2]
    <3> DEFINE lo == r[1] + 1
               hi == r[2]
    <3>1. lo \in Nat /\ lo >= 1 /\ hi \in Int /\ hi <= Len(buf)
      BY <1>2
    <3>2. p = SubSeq(buf, lo, hi)
      BY <2>1 DEF Picked
    <3> HIDE DEF lo, hi
    <3>3. \A j \in DOMAIN SubSeq(buf, lo, hi) : \E i \in 1 .. Len(buf) : SubSeq(buf, lo, hi)[j] = buf[i]
      <4> HIDE DEF p
      <4> QED BY <1>1, <3>1, PartFacts
    <3> QED BY <3>2, <3>3
  <2>2. CASE ~(r[1] < r[2])
    <3>1. p = <<>>
      BY <2>2 DEF Picked
    <3> QED BY <3>1
  <2> QED BY <2>1, <2>2
<1> HIDE DEF p
<1>4. Spoken(S, Show(S, Playable(u, p), {u}))
  BY <1>3, ReplayKeeps
<1> QED BY <1>4 DEF p, r

-----------------------------------------------------------------------------
(* A user is removed.                                                      *)

\* remove_user up to the user's own record.
Forgotten(S, u) ==
    LET me == S.users[u]
        A == [S EXCEPT !.index.accepted = [n \in Nick |-> SatSub(@[n], Cardinality(Named(me, n)))]]
        B == watch_index_clear(monitor_index_clear(A, u), u)
    IN [B EXCEPT !.users[u] = NewUser]

\* The tables without u: its lists are in no index and its entries not counted.
ForgetStep(S, T, u) ==
    /\ Shaped(T) /\ T.told = S.told /\ SameDisc(S, T)
    /\ \A v \in User : v # u => /\ T.users[v].phase = S.users[v].phase
                                /\ T.users[v].nick = S.users[v].nick
                                /\ T.users[v].accept = S.users[v].accept
                                /\ \A l \in Lists : T.users[v][l] = S.users[v][l]
    /\ T.users[u].phase = "out" /\ T.users[u].nick = None /\ T.users[u].accept = <<>>
    /\ \A l \in Lists : T.users[u][l] = {}
    /\ \A m \in Nick : /\ T.index.nick[m] = S.index.nick[m]
                       /\ T.index.accepted[m] =
                             SatSub(S.index.accepted[m], Cardinality(Named(S.users[u], m)))
                       /\ \A l \in Lists, w \in User :
                             w \in T.index[l][m] <=> w # u /\ w \in S.index[l][m]

\* The lists of a user are cleared, then its record.
LEMMA ForgetFacts ==
  ASSUME NEW S, Base(S), NEW u \in User
  PROVE  ForgetStep(S, Forgotten(S, u), u)
<1> DEFINE acc == [n \in Nick |-> SatSub(S.index.accepted[n], Cardinality(Named(S.users[u], n)))]
           A == [S EXCEPT !.index = [S.index EXCEPT !.accepted = acc]]
           M == index_clear(A, "monitor", u)
           B == index_clear(M, "watch", u)
           T == [B EXCEPT !.users = [B.users EXCEPT ![u] = NewUser]]
<1>0. /\ Shaped(S) /\ Indexed(S) /\ "monitor" \in Lists /\ "watch" \in Lists
      /\ "accepted" \in IndexField /\ "nick" \in IndexField /\ Lists \subseteq IndexField
      /\ "accepted" \notin Lists
  BY DEF Base, Lists, IndexField
<1>1. Forgotten(S, u) = T
  BY Zenon DEF Forgotten, monitor_index_clear, watch_index_clear
<1>2. DOMAIN acc = Nick /\ \A n \in Nick :
         acc[n] = SatSub(S.index.accepted[n], Cardinality(Named(S.users[u], n)))
  OBVIOUS
<1> HIDE DEF acc
<1>3. /\ DOMAIN A = StateField /\ A.index = [S.index EXCEPT !.accepted = acc]
      /\ A.users = S.users /\ A.told = S.told /\ SameDisc(S, A)
  BY <1>0 DEF Shaped, StateField, SameDisc
<1> HIDE DEF A
<1>4. /\ DOMAIN A.index = IndexField /\ A.index.accepted = acc
      /\ \A t \in IndexField : t # "accepted" => A.index[t] = S.index[t]
  BY <1>0, <1>3 DEF Shaped
<1>5. Shaped(A)
  <2>1. \A t \in IndexField : DOMAIN A.index[t] = Nick
    BY <1>0, <1>2, <1>4 DEF Shaped
  <2> QED BY <1>0, <1>3, <1>4, <2>1 DEF Shaped
<1>6. Indexed(A)
  BY <1>0, <1>3, <1>4 DEF Indexed
<1>7. ListStep(A, M, "monitor", u, {})
  BY <1>0, <1>5, <1>6, IndexClears
<1> HIDE DEF M
<1>8. Shaped(M) /\ Indexed(M)
  BY <1>0, <1>6, <1>7, ListStepIndexed DEF ListStep
<1>9. ListStep(M, B, "watch", u, {})
  BY <1>0, <1>8, IndexClears
<1> HIDE DEF B
<1>10. Shaped(B)
  BY <1>9 DEF ListStep
<1>11. DOMAIN NewUser = UserField
  BY DEF NewUser, UserField
<1>12. /\ DOMAIN T = StateField /\ T.users = [B.users EXCEPT ![u] = NewUser]
       /\ T.index = B.index /\ T.told = B.told /\ SameDisc(B, T)
  <2> HIDE DEF NewUser
  <2> QED BY <1>10 DEF Shaped, StateField, SameDisc
<1> HIDE DEF T
<1>13. T.users[u] = NewUser /\ DOMAIN T.users = User /\ \A v \in User : v # u => T.users[v] = B.users[v]
  BY <1>10, <1>12 DEF Shaped
<1>14. Shaped(T)
  BY <1>10, <1>11, <1>12, <1>13 DEF Shaped
<1>15. /\ T.users[u].phase = "out" /\ T.users[u].nick = None /\ T.users[u].accept = <<>>
       /\ \A l \in Lists : T.users[u][l] = {}
  BY <1>13 DEF NewUser, Lists
<1>16. T.told = S.told /\ SameDisc(S, T)
  BY <1>3, <1>7, <1>9, <1>12 DEF ListStep, SameDisc
<1>17. ASSUME NEW v \in User, v # u
       PROVE  /\ T.users[v].phase = S.users[v].phase
              /\ T.users[v].nick = S.users[v].nick
              /\ T.users[v].accept = S.users[v].accept
              /\ \A l \in Lists : T.users[v][l] = S.users[v][l]
  BY <1>3, <1>7, <1>9, <1>13, <1>17 DEF ListStep
<1>18. ASSUME NEW m \in Nick
       PROVE  /\ T.index.nick[m] = S.index.nick[m]
              /\ T.index.accepted[m] =
                    SatSub(S.index.accepted[m], Cardinality(Named(S.users[u], m)))
  <2>1. T.index.nick[m] = A.index.nick[m] /\ T.index.accepted[m] = A.index.accepted[m]
    BY <1>7, <1>9, <1>12 DEF ListStep
  <2> QED BY <1>0, <1>2, <1>4, <2>1
<1>19. ASSUME NEW m \in Nick, NEW l \in Lists, NEW w \in User
       PROVE  w \in T.index[l][m] <=> w # u /\ w \in S.index[l][m]
  <2>1. w \in B.index[l][m] <=> IF l = "watch" /\ w = u THEN m \in {} ELSE w \in M.index[l][m]
    BY <1>9 DEF ListStep
  <2>2. w \in M.index[l][m] <=> IF l = "monitor" /\ w = u THEN m \in {} ELSE w \in A.index[l][m]
    BY <1>7 DEF ListStep
  <2>3. A.index[l][m] = S.index[l][m] /\ T.index = B.index
    BY <1>0, <1>4, <1>12
  <2> QED BY <2>1, <2>2, <2>3 DEF Lists
<1>20. ForgetStep(S, T, u)
  BY <1>14, <1>15, <1>16, <1>17, <1>18, <1>19 DEF ForgetStep
<1> QED BY <1>1, <1>20

\* The entries that are left are still counted.
LEMMA ForgetCounted ==
  ASSUME NEW S, Base(S), NEW T, NEW u \in User, ForgetStep(S, T, u)
  PROVE  Lists_typed(T) /\ Counted(T) /\ \A m \in Nick : T.index.accepted[m] \in Nat
<1>0. Peopled(S) /\ Counted(S) /\ Lists_typed(S)
  BY DEF Base, Peopled, Lists_typed
<1>1. Lists_typed(T)
  <2> SUFFICES ASSUME NEW v \in User PROVE T.users[v].accept \in Seq(Acceptee)
    BY DEF Lists_typed
  <2>1. CASE v = u
    <3>1. T.users[v].accept = <<>>
      BY <2>1 DEF ForgetStep
    <3> QED BY <3>1
  <2>2. CASE v # u
    BY <1>0, <2>2 DEF ForgetStep, Lists_typed
  <2> QED BY <2>1, <2>2
<1>2. ASSUME NEW m \in Nick
      PROVE  T.index.accepted[m] \in Nat /\ T.index.accepted[m] >= Cardinality(Entries(T, m))
  <2> DEFINE p == Cardinality(Entries(S, m))
             q == Cardinality(Named(S.users[u], m))
             x == S.index.accepted[m]
  <2>1. /\ p \in Nat /\ q \in Nat /\ x \in Nat /\ x >= p
    <3>1. S.users[u].accept \in Seq(Acceptee)
      BY <1>0 DEF Lists_typed
    <3> QED BY <1>0, <3>1, EntriesFinite, NamedFinite DEF Peopled, Counted
  <2>2. Cardinality(Named(T.users[u], m)) = 0
    <3>1. Named(T.users[u], m) = {}
      BY DEF ForgetStep, Named
    <3> QED BY <3>1, FS_EmptySet
  <2>3. Cardinality(Entries(T, m)) = p - q + 0
    <3>1. \A v \in User : v # u => T.users[v].accept = S.users[v].accept
      BY DEF ForgetStep
    <3> QED BY <1>0, <1>1, <2>2, <3>1, OneList
  <2>4. T.index.accepted[m] = SatSub(x, q)
    BY DEF ForgetStep
  <2>5. Cardinality(Entries(T, m)) \in Nat
    BY <1>1, EntriesFinite
  <2> HIDE DEF p, q, x
  <2> QED BY <2>1, <2>3, <2>4, <2>5 DEF SatSub
<1> QED BY <1>1, <1>2 DEF Counted

\* remove_user, before the channels are left.
Removed(S, u) ==
    IF S.users[u].nick = None THEN Forgotten(S, u)
    ELSE Scrubbed(PutIndex(Forgotten(S, u), "nick", S.users[u].nick, None), S.users[u].nick)

\* The tables without u and its nick: no ACCEPT list names it.
RemoveStep(S, T, u) ==
    /\ Shaped(T) /\ T.told = S.told /\ SameDisc(S, T)
    /\ Lists_typed(T) /\ Counted(T)
    /\ \A v \in User : v # u => /\ T.users[v].phase = S.users[v].phase
                                /\ T.users[v].nick = S.users[v].nick
                                /\ \A l \in Lists : T.users[v][l] = S.users[v][l]
    /\ T.users[u].phase = "out" /\ T.users[u].nick = None
    /\ \A l \in Lists : T.users[u][l] = {}
    /\ \A v \in User : \A i \in DOMAIN T.users[v].accept :
          /\ v # u /\ T.users[v].accept[i].nick # S.users[u].nick
          /\ \E j \in DOMAIN S.users[v].accept : T.users[v].accept[i] = S.users[v].accept[j]
    /\ \A m \in Nick : /\ T.index.nick[m] = IF m = S.users[u].nick THEN None ELSE S.index.nick[m]
                       /\ T.index.accepted[m] \in Nat
                       /\ \A l \in Lists, w \in User :
                             w \in T.index[l][m] <=> w # u /\ w \in S.index[l][m]

\* The ACCEPT lists are looked through when the nick is counted.
ScrubStep(S, T, n) ==
    /\ Shaped(T) /\ T.told = S.told /\ SameDisc(S, T)
    /\ \A v \in User : /\ \A f \in UserField : f # "accept" => T.users[v][f] = S.users[v][f]
                       /\ T.users[v].accept = IF S.index.accepted[n] = 0 THEN S.users[v].accept
                                              ELSE Without(S.users[v].accept, n)
    /\ \A r \in IndexField, m \in Nick :
          r # "accepted" \/ m # n => T.index[r][m] = S.index[r][m]
    /\ T.index["accepted"][n] = 0

\* What the scrub writes.
LEMMA ScrubFacts ==
  ASSUME NEW S, Shaped(S), NEW n \in Nick
  PROVE  ScrubStep(S, Scrubbed(S, n), n)
<1>1. CASE S.index.accepted[n] = 0
  <2>1. Scrubbed(S, n) = S
    BY <1>1 DEF Scrubbed
  <2> QED BY <1>1, <2>1 DEF ScrubStep, SameDisc
<1>2. CASE S.index.accepted[n] # 0
  <2> DEFINE us == [v \in User |-> [S.users[v] EXCEPT !.accept = Without(S.users[v].accept, n)]]
             A == PutIndex(S, "accepted", n, 0)
             T == [A EXCEPT !.users = us]
  <2>0. "accepted" \in IndexField /\ "accept" \in UserField
    BY DEF IndexField, UserField
  <2>1. Scrubbed(S, n) = T
    BY <1>2, Zenon DEF Scrubbed
  <2>2. /\ Shaped(A) /\ SameDisc(S, A) /\ A.users = S.users /\ A.told = S.told
        /\ A.index["accepted"][n] = 0
        /\ \A r \in IndexField, y \in Nick :
               r # "accepted" \/ y # n => A.index[r][y] = S.index[r][y]
    BY <2>0, IndexFacts
  <2> HIDE DEF A
  <2>3. DOMAIN us = User /\ \A v \in User :
           us[v] = [S.users[v] EXCEPT !.accept = Without(S.users[v].accept, n)]
    OBVIOUS
  <2> HIDE DEF us
  <2>4. \A v \in User : /\ DOMAIN us[v] = UserField
                        /\ us[v].accept = Without(S.users[v].accept, n)
                        /\ \A f \in UserField : f # "accept" => us[v][f] = S.users[v][f]
    BY <2>0, <2>3 DEF Shaped
  <2>5. /\ DOMAIN T = StateField /\ T.users = us /\ T.index = A.index /\ T.told = A.told
        /\ SameDisc(A, T)
    BY <2>2 DEF Shaped, StateField, SameDisc
  <2> HIDE DEF T
  <2>6. Shaped(T)
    BY <2>2, <2>3, <2>4, <2>5 DEF Shaped
  <2>7. T.told = S.told /\ SameDisc(S, T)
    BY <2>2, <2>5 DEF SameDisc
  <2>8. ScrubStep(S, T, n)
    BY <1>2, <2>2, <2>4, <2>5, <2>6, <2>7 DEF ScrubStep
  <2> QED BY <2>1, <2>8
<1> QED BY <1>1, <1>2

\* After the scrub no list names the nick, and the entries are counted.
LEMMA ScrubCounted ==
  ASSUME NEW S, Lists_typed(S), Counted(S), \A m \in Nick : S.index.accepted[m] \in Nat,
         NEW T, NEW n \in Nick, ScrubStep(S, T, n)
  PROVE  /\ Lists_typed(T) /\ Counted(T) /\ \A m \in Nick : T.index.accepted[m] \in Nat
         /\ \A v \in User : \A i \in DOMAIN T.users[v].accept :
               /\ T.users[v].accept[i].nick # n
               /\ \E j \in DOMAIN S.users[v].accept : T.users[v].accept[i] = S.users[v].accept[j]
<1>0. "accepted" \in IndexField
  BY DEF IndexField
<1>1. \A m \in Nick : T.index.accepted[m] = IF m = n THEN 0 ELSE S.index.accepted[m]
  BY <1>0 DEF ScrubStep
<1>2. CASE S.index.accepted[n] = 0
  <2>1. \A v \in User : T.users[v].accept = S.users[v].accept
    BY <1>2 DEF ScrubStep
  <2>2. Lists_typed(T)
    BY <2>1 DEF Lists_typed
  <2>3. \A m : \A v \in User : Named(T.users[v], m) = Named(S.users[v], m)
    BY <2>1 DEF Named
  <2>4. \A m : Entries(T, m) = Entries(S, m)
    BY <2>3 DEF Entries
  <2>5. Counted(T)
    BY <1>1, <1>2, <2>4 DEF Counted
  <2>6. Entries(S, n) = {}
    <3>1. \A u \in User : IsFiniteSet(Entries(S, n)) /\ Cardinality(Entries(S, n)) \in Nat
      BY EntriesFinite
    <3>2. ASSUME NEW u \in User PROVE Entries(S, n) = {}
      <4>1. Cardinality(Entries(S, n)) = 0
        BY <1>2, <3>1, <3>2 DEF Counted
      <4> QED BY <3>1, <4>1, FS_EmptySet
    <3>3. CASE User = {}
      BY <3>3 DEF Entries
    <3> QED BY <3>2, <3>3
  <2>7. ASSUME NEW v \in User, NEW i \in DOMAIN T.users[v].accept
        PROVE  T.users[v].accept[i].nick # n
    <3>1. Named(S.users[v], n) = {}
      <4>1. ASSUME NEW x \in Named(S.users[v], n) PROVE FALSE
        <5>1. <<v, x>> \in {v} \X Named(S.users[v], n)
          OBVIOUS
        <5>2. <<v, x>> \in Entries(S, n)
          BY <5>1 DEF Entries
        <5> QED BY <2>6, <5>2
      <4> QED BY <4>1
    <3> QED BY <2>1, <3>1 DEF Named
  <2> QED BY <1>1, <2>1, <2>2, <2>5, <2>7
<1>3. CASE S.index.accepted[n] # 0
  <2>1. \A v \in User : T.users[v].accept = Without(S.users[v].accept, n)
    BY <1>3 DEF ScrubStep
  <2>2. /\ Lists_typed(T) /\ Entries(T, n) = {}
        /\ \A m : Cardinality(Entries(T, m)) <= Cardinality(Entries(S, m))
    BY <2>1, AllWithout
  <2>3. ASSUME NEW m \in Nick PROVE T.index.accepted[m] >= Cardinality(Entries(T, m))
    <3>1. CASE m = n
      BY <1>1, <2>2, <3>1, FS_EmptySet
    <3>2. CASE m # n
      <4>1. CASE User = {}
        <5>1. Entries(T, m) = {}
          BY <4>1 DEF Entries
        <5> QED BY <1>1, <5>1, FS_EmptySet
      <4>2. ASSUME NEW u \in User PROVE T.index.accepted[m] >= Cardinality(Entries(T, m))
        <5>1. Cardinality(Entries(T, m)) \in Nat /\ Cardinality(Entries(S, m)) \in Nat
          BY <2>2, EntriesFinite
        <5>2. S.index.accepted[m] >= Cardinality(Entries(S, m)) /\ S.index.accepted[m] \in Nat
          BY DEF Counted
        <5> QED BY <1>1, <2>2, <3>2, <5>1, <5>2
      <4> QED BY <4>1, <4>2
    <3> QED BY <3>1, <3>2
  <2>4. ASSUME NEW v \in User, NEW i \in DOMAIN T.users[v].accept
        PROVE  /\ T.users[v].accept[i].nick # n
               /\ \E j \in DOMAIN S.users[v].accept : T.users[v].accept[i] = S.users[v].accept[j]
    <3> DEFINE me == S.users[v]
               you == T.users[v]
    <3>1. me.accept \in Seq(Acceptee) /\ you.accept = Without(me.accept, n)
      BY <2>1 DEF Lists_typed
    <3> HIDE DEF me, you
    <3>2. Named(you, n) = {} /\ \E f : Into(you, me, f)
      BY <3>1, WithoutFacts
    <3>3. PICK f : Into(you, me, f)
      BY <3>2
    <3>4. \A h \in DOMAIN you.accept : f[h] \in DOMAIN me.accept /\ you.accept[h] = me.accept[f[h]]
      BY <3>3 DEF Into
    <3>5. \A h \in DOMAIN you.accept : you.accept[h].nick # n
      BY <3>2 DEF Named
    <3>6. i \in DOMAIN you.accept
      BY DEF you
    <3> QED BY <3>4, <3>5, <3>6 DEF me, you
  <2> QED BY <1>1, <2>2, <2>3, <2>4 DEF Counted
<1> QED BY <1>2, <1>3

\* What is left of the tables without u.
LEMMA RemovedFacts ==
  ASSUME NEW S, Base(S), NEW u \in User
  PROVE  RemoveStep(S, Removed(S, u), u)
<1> DEFINE F == Forgotten(S, u)
           nk == S.users[u].nick
<1>0. nk \in Nick \cup {None} /\ None \notin Nick /\ Peopled(S)
  BY MessagesAssumption DEF Base, Peopled
<1>1. ForgetStep(S, F, u) /\ Shaped(F)
  BY ForgetFacts DEF ForgetStep
<1> HIDE DEF F
<1>2. Lists_typed(F) /\ Counted(F) /\ \A m \in Nick : F.index.accepted[m] \in Nat
  BY <1>1, ForgetCounted
<1>3. CASE nk = None
  <2>1. Removed(S, u) = F
    BY <1>3 DEF Removed, F
  <2>2. ASSUME NEW v \in User, NEW i \in DOMAIN F.users[v].accept
        PROVE  /\ v # u /\ F.users[v].accept[i].nick # nk
               /\ \E j \in DOMAIN S.users[v].accept : F.users[v].accept[i] = S.users[v].accept[j]
    <3>1. v # u
      BY <1>1 DEF ForgetStep
    <3>2. F.users[v].accept = S.users[v].accept
      BY <1>1, <3>1 DEF ForgetStep
    <3>3. F.users[v].accept[i] \in Acceptee
      BY <1>2 DEF Lists_typed
    <3>4. F.users[v].accept[i].nick # nk
      BY <1>0, <1>3, <3>3 DEF Acceptee
    <3> QED BY <3>1, <3>2, <3>4
  <2>3. \A m \in Nick : F.index.nick[m] = IF m = nk THEN None ELSE S.index.nick[m]
    BY <1>0, <1>1, <1>3 DEF ForgetStep
  <2>4. RemoveStep(S, F, u)
    BY <1>1, <1>2, <2>2, <2>3 DEF RemoveStep, ForgetStep
  <2> QED BY <2>1, <2>4
<1>4. CASE nk # None
  <2> DEFINE P == PutIndex(F, "nick", nk, None)
             T == Scrubbed(P, nk)
  <2>0. /\ nk \in Nick /\ "nick" \in IndexField /\ "accepted" \in IndexField
        /\ Lists \subseteq IndexField /\ "nick" \notin Lists /\ "accepted" \notin Lists
        /\ Lists \subseteq UserField /\ "accept" \notin Lists /\ {"phase", "nick"} \subseteq UserField
    BY <1>0, <1>4 DEF IndexField, Lists, UserField
  <2>1. Removed(S, u) = T
    BY <1>4 DEF Removed, F
  <2> HIDE DEF nk
  <2>2. /\ Shaped(P) /\ SameDisc(F, P) /\ P.users = F.users /\ P.told = F.told
        /\ P.index["nick"][nk] = None
        /\ \A r \in IndexField, y \in Nick :
               r # "nick" \/ y # nk => P.index[r][y] = F.index[r][y]
    BY <1>1, <2>0, IndexFacts
  <2> HIDE DEF P
  <2>3. /\ Lists_typed(P) /\ Counted(P) /\ \A m \in Nick : P.index.accepted[m] \in Nat
    <3>1. \A m \in Nick : P.index.accepted[m] = F.index.accepted[m]
      BY <2>0, <2>2
    <3>2. \A m : Entries(P, m) = Entries(F, m)
      BY <2>2 DEF Entries
    <3> QED BY <1>2, <2>2, <3>1, <3>2 DEF Lists_typed, Counted
  <2>4. ScrubStep(P, T, nk)
    BY <2>0, <2>2, ScrubFacts
  <2> HIDE DEF T
  <2>5. /\ Lists_typed(T) /\ Counted(T) /\ \A m \in Nick : T.index.accepted[m] \in Nat
        /\ \A v \in User : \A i \in DOMAIN T.users[v].accept :
               /\ T.users[v].accept[i].nick # nk
               /\ \E j \in DOMAIN P.users[v].accept : T.users[v].accept[i] = P.users[v].accept[j]
    BY <2>0, <2>3, <2>4, ScrubCounted
  <2>6. ASSUME NEW v \in User
        PROVE  /\ v # u => /\ T.users[v].phase = S.users[v].phase
                           /\ T.users[v].nick = S.users[v].nick
                           /\ \A l \in Lists : T.users[v][l] = S.users[v][l]
               /\ v = u => /\ T.users[v].phase = "out" /\ T.users[v].nick = None
                           /\ \A l \in Lists : T.users[v][l] = {}
    <3>1. /\ T.users[v].phase = F.users[v].phase /\ T.users[v].nick = F.users[v].nick
          /\ \A l \in Lists : T.users[v][l] = F.users[v][l]
      BY <2>0, <2>2, <2>4 DEF ScrubStep
    <3> QED BY <1>1, <3>1 DEF ForgetStep
  <2>7. ASSUME NEW v \in User, NEW i \in DOMAIN T.users[v].accept
        PROVE  /\ v # u /\ T.users[v].accept[i].nick # nk
               /\ \E j \in DOMAIN S.users[v].accept : T.users[v].accept[i] = S.users[v].accept[j]
    <3>1. PICK j \in DOMAIN F.users[v].accept : T.users[v].accept[i] = F.users[v].accept[j]
      BY <2>2, <2>5
    <3>2. v # u
      BY <1>1, <3>1 DEF ForgetStep
    <3>3. F.users[v].accept = S.users[v].accept
      BY <1>1, <3>2 DEF ForgetStep
    <3> QED BY <2>5, <3>1, <3>2, <3>3
  <2>8. ASSUME NEW m \in Nick
        PROVE  /\ T.index.nick[m] = IF m = nk THEN None ELSE S.index.nick[m]
               /\ \A l \in Lists, w \in User :
                     w \in T.index[l][m] <=> w # u /\ w \in S.index[l][m]
    <3>1. T.index.nick[m] = P.index.nick[m] /\ \A l \in Lists : T.index[l][m] = P.index[l][m]
      BY <2>0, <2>4 DEF ScrubStep
    <3>2. /\ P.index.nick[m] = IF m = nk THEN None ELSE F.index.nick[m]
          /\ \A l \in Lists : P.index[l][m] = F.index[l][m]
      BY <2>0, <2>2
    <3> QED BY <1>1, <3>1, <3>2 DEF ForgetStep
  <2>9. Shaped(T) /\ T.told = S.told /\ SameDisc(S, T)
    BY <1>1, <2>2, <2>4 DEF ScrubStep, ForgetStep, SameDisc
  <2>10. RemoveStep(S, T, u)
    BY <2>5, <2>6, <2>7, <2>8, <2>9 DEF RemoveStep, nk
  <2> QED BY <2>1, <2>10
<1> QED BY <1>3, <1>4

\* The tables are right without u, and only the status of its nick changed.
LEMMA RemoveBase ==
  ASSUME NEW S, Base(S), NEW T, NEW u \in User, RemoveStep(S, T, u)
  PROVE  /\ Base(T)
         /\ \A m \in Nick : m # S.users[u].nick => StatusOf(T, m) = StatusOf(S, m)
         /\ S.users[u].nick # None =>
               /\ StatusOf(T, S.users[u].nick) = "off"
               /\ StatusOf(S, S.users[u].nick) = IF S.users[u].phase = "in" THEN "on" ELSE "early"
<1> DEFINE nk == S.users[u].nick
<1>0. /\ Peopled(S) /\ Indexed(S) /\ Following(S)
      /\ None \notin User /\ None \notin Nick /\ nk \in Nick \cup {None}
  BY MessagesAssumption DEF Base, Peopled
<1>1. Peopled(T)
  <2>1. ASSUME NEW v \in User
        PROVE  /\ T.users[v].phase \in {"out", "new", "in"}
               /\ T.users[v].nick \in Nick \cup {None}
               /\ T.users[v].phase = "out" => T.users[v].nick = None
               /\ T.users[v].phase = "in" => T.users[v].nick # None
               /\ T.users[v].accept \in Seq(Acceptee)
               /\ \A l \in Lists : T.users[v][l] \subseteq Nick
    <3>1. T.users[v].accept \in Seq(Acceptee)
      BY DEF RemoveStep, Lists_typed
    <3>2. CASE v = u
      BY <3>1, <3>2 DEF RemoveStep
    <3>3. CASE v # u
      <4>1. /\ T.users[v].phase = S.users[v].phase
            /\ T.users[v].nick = S.users[v].nick
            /\ \A l \in Lists : T.users[v][l] = S.users[v][l]
        BY <3>3 DEF RemoveStep
      <4> QED BY <1>0, <3>1, <4>1 DEF Peopled
    <3> QED BY <3>2, <3>3
  <2>2. \A m \in Nick : T.index.accepted[m] \in Nat /\ T.index.nick[m] \in User \cup {None}
    BY <1>0 DEF RemoveStep, Peopled
  <2> QED BY <2>1, <2>2 DEF Peopled
<1>2. Indexed(T)
  <2>1. ASSUME NEW n \in Nick, NEW v \in User
        PROVE  T.index.nick[n] = v <=> T.users[v].nick = n
    <3>1. /\ T.index.nick[n] = IF n = nk THEN None ELSE S.index.nick[n]
          /\ T.users[v].nick = IF v = u THEN None ELSE S.users[v].nick
      BY DEF RemoveStep
    <3>2. /\ S.index.nick[n] = v <=> S.users[v].nick = n
          /\ S.index.nick[n] = u <=> nk = n
      BY <1>0 DEF Indexed
    <3> HIDE DEF nk
    <3> QED BY <1>0, <3>1, <3>2
  <2>2. ASSUME NEW l \in Lists, NEW n \in Nick, NEW v \in User
        PROVE  v \in T.index[l][n] <=> n \in T.users[v][l]
    <3>1. v \in T.index[l][n] <=> v # u /\ v \in S.index[l][n]
      BY DEF RemoveStep
    <3>2. CASE v = u
      <4>1. T.users[v][l] = {}
        BY <3>2 DEF RemoveStep
      <4> QED BY <3>1, <3>2, <4>1
    <3>3. CASE v # u
      <4>1. T.users[v][l] = S.users[v][l]
        BY <3>3 DEF RemoveStep
      <4> QED BY <1>0, <3>1, <3>3, <4>1 DEF Indexed
    <3> QED BY <3>2, <3>3
  <2> QED BY <2>1, <2>2 DEF Indexed
<1>3. Following(T)
  <2> SUFFICES ASSUME NEW v \in User, NEW i \in DOMAIN T.users[v].accept,
                      T.users[v].accept[i].to # None
               PROVE  T.users[T.users[v].accept[i].to].nick = T.users[v].accept[i].nick
    BY DEF Following
  <2>1. PICK j \in DOMAIN S.users[v].accept : T.users[v].accept[i] = S.users[v].accept[j]
    BY DEF RemoveStep
  <2> DEFINE e == T.users[v].accept[i]
  <2>2. e \in Acceptee /\ e.nick # nk
    BY <1>1 DEF Peopled, RemoveStep
  <2>3. S.users[e.to].nick = e.nick
    BY <1>0, <2>1 DEF Following
  <2> HIDE DEF e
  <2>4. e.to \in User
    BY <2>2 DEF Acceptee, e
  <2>5. e.to # u
    BY <2>2, <2>3
  <2>6. T.users[e.to].nick = S.users[e.to].nick
    BY <2>4, <2>5 DEF RemoveStep
  <2> QED BY <2>3, <2>6 DEF e
<1>4. Base(T)
  BY <1>1, <1>2, <1>3 DEF Base, RemoveStep
<1>5. ASSUME NEW m \in Nick, m # nk PROVE StatusOf(T, m) = StatusOf(S, m)
  <2>1. T.index.nick[m] = S.index.nick[m]
    BY <1>5 DEF RemoveStep
  <2>2. S.index.nick[m] # u
    BY <1>0, <1>5 DEF Indexed
  <2>3. CASE S.index.nick[m] = None
    BY <2>1, <2>3 DEF StatusOf, find_nick
  <2>4. CASE S.index.nick[m] # None
    <3>1. S.index.nick[m] \in User
      BY <1>0, <2>4 DEF Peopled
    <3>2. T.users[S.index.nick[m]].phase = S.users[S.index.nick[m]].phase
      BY <2>2, <3>1 DEF RemoveStep
    <3> QED BY <2>1, <3>2 DEF StatusOf, find_nick, Registered
  <2> QED BY <2>3, <2>4
<1>6. ASSUME nk # None
      PROVE  /\ StatusOf(T, nk) = "off"
             /\ StatusOf(S, nk) = IF S.users[u].phase = "in" THEN "on" ELSE "early"
  <2>1. nk \in Nick
    BY <1>0, <1>6
  <2>2. T.index.nick[nk] = None /\ S.index.nick[nk] = u /\ u # None
    BY <1>0, <2>1 DEF RemoveStep, Indexed
  <2> QED BY <2>2 DEF StatusOf, find_nick, Registered
<1> QED BY <1>4, <1>5, <1>6

\* Leaving channels is no business of the tables.
LEMMA LeaveFrame ==
  ASSUME NEW S, Shaped(S), NEW u, NEW cs
  PROVE  Frame(S, LeaveAll(S, u, cs))
<1> DEFINE rs == [x \in Chan \X User |-> IF x[1] \in cs /\ x[2] = u THEN None ELSE S.rooms[x]]
           A == [S EXCEPT !.rooms = rs]
           Gone(c) == c \in cs /\ MembersOf(A, c) = {}
           fl == [v \in User |-> [c \in Chan |-> IF Gone(c) THEN <<>> ELSE S.users[v].floods[c]]]
           us == [v \in User |-> [S.users[v] EXCEPT !.floods = fl[v]]]
           T == [A EXCEPT !.users = us]
<1>1. LeaveAll(S, u, cs) = T
  BY DEF LeaveAll
<1> HIDE DEF rs, fl
<1>2. DOMAIN us = User /\ \A v \in User : us[v] = [S.users[v] EXCEPT !.floods = fl[v]]
  OBVIOUS
<1> HIDE DEF us
<1>3. \A v \in User : /\ DOMAIN us[v] = UserField
                      /\ \A f \in CoreField : us[v][f] = S.users[v][f]
  BY <1>2 DEF Shaped, UserField, CoreField
<1>4. DOMAIN A = StateField /\ \A f \in StateField : f # "rooms" => A[f] = S[f]
  BY DEF Shaped, StateField
<1> HIDE DEF A
<1>5. /\ DOMAIN T = StateField /\ T.users = us
      /\ \A f \in StateField : f \notin {"rooms", "users"} => T[f] = S[f]
  BY <1>4 DEF StateField
<1> HIDE DEF T
<1>6. /\ T.index = S.index /\ T.told = S.told /\ SameDisc(S, T)
  BY <1>5 DEF StateField, SameDisc
<1>7. Shaped(T)
  BY <1>2, <1>3, <1>5, <1>6 DEF Shaped
<1>8. Frame(S, T)
  BY <1>3, <1>5, <1>6, <1>7 DEF Frame, SamePres
<1> QED BY <1>1, <1>8

\* Whoever leaves before it registered is known to nobody as registered.
LEMMA EarlyLeaves ==
  ASSUME NEW S, Pres(S), NEW T, NEW u \in User, RemoveStep(S, T, u)
  PROVE  /\ KnowingBut(T, {S.users[u].nick})
         /\ S.users[u].phase # "in" => Pres(T)
<1> DEFINE nk == S.users[u].nick
<1>0. /\ Base(S) /\ Knowing(S) /\ Peopled(S)
      /\ Base(T) /\ \A m \in Nick : m # nk => StatusOf(T, m) = StatusOf(S, m)
      /\ nk # None => /\ StatusOf(T, nk) = "off"
                      /\ StatusOf(S, nk) = IF S.users[u].phase = "in" THEN "on" ELSE "early"
  BY PresBase, RemoveBase DEF Base
<1> HIDE DEF nk
<1>1. ASSUME NEW l \in Lists, NEW w \in User, NEW n \in T.users[w][l]
      PROVE  /\ n \in Nick /\ Known(S, l, w, n)
             /\ T.told[<<l, w, n>>] = S.told[<<l, w, n>>]
  <2>1. w # u
    BY <1>1 DEF RemoveStep
  <2>2. n \in S.users[w][l]
    BY <1>1, <2>1 DEF RemoveStep
  <2> QED BY <1>0, <2>2 DEF Knowing, Peopled, RemoveStep
<1>2. ASSUME NEW l \in Lists, NEW w \in User, NEW n \in T.users[w][l], n # nk
      PROVE  Known(T, l, w, n)
  BY <1>0, <1>1, <1>2 DEF Known
<1>3. ASSUME S.users[u].phase # "in", NEW l \in Lists, NEW w \in User, nk \in T.users[w][l]
      PROVE  Known(T, l, w, nk)
  <2>1. nk \in Nick /\ Known(S, l, w, nk) /\ T.told[<<l, w, nk>>] = S.told[<<l, w, nk>>]
    BY <1>1, <1>3
  <2>2. nk # None
    BY <2>1, MessagesAssumption
  <2>3. StatusOf(T, nk) = "off" /\ StatusOf(S, nk) = "early"
    BY <1>0, <1>3, <2>2
  <2> QED BY <2>1, <2>3 DEF Known
<1>4. KnowingBut(T, {nk})
  BY <1>2 DEF KnowingBut
<1>5. ASSUME S.users[u].phase # "in" PROVE Pres(T)
  <2>1. Knowing(T)
    BY <1>2, <1>3, <1>5 DEF Knowing
  <2> QED BY <1>0, <2>1, PresBase
<1> QED BY <1>4, <1>5 DEF nk

\* server.rs remove_user.
LEMMA RemoveKeeps ==
  ASSUME NEW S, Good(S), NEW u \in User
  PROVE  Good(remove_user(S, u))
<1> DEFINE D == Removed(S, u)
           nk == S.users[u].nick
           L == LeaveAll(D, u, Joined(D, u))
<1>0. Pres(S) /\ Disc(S) /\ Base(S) /\ Peopled(S)
  BY PresBase DEF Good, Base
<1>1. remove_user(S, u) = IF ~Connected(S, u) THEN S
                          ELSE IF S.users[u].phase # "in" THEN D
                          ELSE watch_notify_offline(L, nk)
  BY Zenon DEF remove_user, Removed, Forgotten
<1>2. RemoveStep(S, D, u)
  BY <1>0, RemovedFacts
<1> HIDE DEF D
<1>3. Disc(D) /\ Shaped(D)
  BY <1>0, <1>2, DiscFrame DEF RemoveStep
<1>4. CASE S.users[u].phase # "in"
  <2>1. Pres(D)
    BY <1>0, <1>2, <1>4, EarlyLeaves
  <2> QED BY <1>1, <1>3, <1>4, <2>1 DEF Good
<1>5. CASE S.users[u].phase = "in"
  <2>1. nk # None /\ nk \in Nick
    BY <1>0, <1>5 DEF Peopled
  <2>2. KnowingBut(D, {nk}) /\ Base(D) /\ StatusOf(D, nk) = "off"
    BY <1>0, <1>2, <2>1, EarlyLeaves, RemoveBase
  <2>3. Frame(D, L)
    BY <1>3, LeaveFrame
  <2> HIDE DEF L, nk
  <2>4. Base(L) /\ KnowingBut(L, {nk}) /\ StatusOf(L, nk) = "off" /\ Disc(L)
    BY <1>3, <2>1, <2>2, <2>3, BaseFrame, DiscFrame DEF Frame
  <2> DEFINE T == Notify(L, nk, "off")
  <2>5. Base(T) /\ KnowingBut(T, {nk} \ {nk}) /\ ToldOnly(L, T)
    BY <2>1, <2>4, NotifyKnows
  <2>6. watch_notify_offline(L, nk) = T
    BY DEF watch_notify_offline
  <2> HIDE DEF T
  <2>7. KnowingBut(T, {})
    BY <2>5 DEF KnowingBut
  <2>8. Pres(T)
    BY <2>5, <2>7, PresBase
  <2>9. Disc(T)
    BY <2>4, <2>5, DiscFrame DEF ToldOnly
  <2>10. Connected(S, u)
    BY <1>5 DEF Connected
  <2> QED BY <1>1, <1>5, <2>6, <2>8, <2>9, <2>10 DEF Good
<1> QED BY <1>4, <1>5

\* The batch a user has open is replaced.
LEMMA BatchKeeps ==
  ASSUME NEW S, Good(S), NEW u \in User, NEW b \in Batch \cup {None}
  PROVE  Good([S EXCEPT !.batches[u] = b])
<1> DEFINE T == [S EXCEPT !.batches[u] = b]
<1>0. DOMAIN S = StateField /\ Shaped(S)
  BY DEF Good, Pres, Shaped
<1>1. T = [S EXCEPT !.batches = [S.batches EXCEPT ![u] = b]]
  OBVIOUS
<1> HIDE DEF T
<1>2. /\ DOMAIN T = StateField /\ T.batches = [S.batches EXCEPT ![u] = b]
      /\ T.log = S.log /\ T.history = S.history
      /\ T.now = S.now /\ T.shown = S.shown /\ T.users = S.users /\ T.index = S.index
      /\ T.told = S.told
  BY <1>0, <1>1 DEF StateField
<1>3. T.batches \in [User -> Batch \cup {None}]
  BY <1>2 DEF Good, Disc
<1>4. SamePres(S, T)
  BY <1>0, <1>2 DEF Shaped, SamePres
<1>5. Disc(T)
  <2>1. \A c \in Key : \A j \in 1 .. Len(T.history[c]) : Open_in(T, c, T.history[c][j].id)
    <3> SUFFICES ASSUME NEW c \in Key, NEW j \in 1 .. Len(T.history[c])
                 PROVE  Open_in(T, c, T.history[c][j].id)
      OBVIOUS
    <3>1. Open_in(S, c, S.history[c][j].id)
      BY <1>2 DEF Good, Disc
    <3> QED BY <1>2, <3>1, OpenFrame
  <2> QED BY <1>2, <1>3, <2>1 DEF Good, Disc
<1> QED BY <1>4, <1>5, PresFrame DEF T, Good

\* ircd.rs quit_user.
LEMMA QuitKeeps ==
  ASSUME NEW S, Good(S), NEW u \in User
  PROVE  Good(quit_user(S, u))
<1> DEFINE A == Recorded(S, Joined(S, u), NickOf(S, u))
           B == [A EXCEPT !.batches[u] = None]
<1>1. Shaped(S) /\ Disc(S) /\ Pres(S) /\ Joined(S, u) \in SUBSET Chan /\ NickOf(S, u) \in Nick \cup {None}
  BY DEF Good, Pres, Peopled, Joined, NickOf
<1>2. Good(A)
  BY <1>1, RecordedKeeps, SpokenGood
<1> HIDE DEF A
<1>3. Good(B)
  BY <1>2, BatchKeeps
<1>4. quit_user(S, u) = remove_user(B, u)
  BY DEF quit_user, A
<1> HIDE DEF B
<1> QED BY <1>3, <1>4, RemoveKeeps

\* ircd.rs dispatch, after a line.
LEMMA HandledKeeps ==
  ASSUME NEW S, Good(S), NEW u \in User
  PROVE  Good(Handled(S, u))
BY QuitKeeps DEF Handled

-----------------------------------------------------------------------------
(* A nick is changed, and a connection registers.                          *)

\* What the watchers know once the tables have the new nick.
LEMMA RenickKnows ==
  ASSUME NEW S, Pres(S), NEW T, NEW u \in User, NEW new \in Nick, S.index.nick[new] = None,
         S.users[u].phase # "out", NickStep(S, T, u, S.users[u].nick, new)
  PROVE  /\ Base(T) /\ KnowingBut(T, {S.users[u].nick, new})
         /\ S.users[u].phase # "in" => Pres(T)
<1> DEFINE old == S.users[u].nick
<1>0. /\ Base(S) /\ Knowing(S) /\ Peopled(S) /\ old \in Nick \cup {None}
      /\ None \notin Nick /\ S.users[u].phase \in {"new", "in"}
  BY PresBase, MessagesAssumption DEF Base, Peopled
<1>1. Base(T)
  BY <1>0, NickBase
<1>2. /\ \A m \in Nick : m \notin {old, new} => StatusOf(T, m) = StatusOf(S, m)
      /\ old # None => /\ StatusOf(T, old) = "off"
                       /\ StatusOf(S, old) = IF S.users[u].phase = "in" THEN "on" ELSE "early"
      /\ StatusOf(S, new) = "off"
      /\ StatusOf(T, new) = IF S.users[u].phase = "in" THEN "on" ELSE "early"
  BY <1>0, NickStatus
<1> HIDE DEF old
<1>3. ASSUME NEW l \in Lists, NEW w \in User, NEW n \in T.users[w][l]
      PROVE  /\ n \in Nick /\ Known(S, l, w, n)
             /\ T.told[<<l, w, n>>] = S.told[<<l, w, n>>]
  <2>1. n \in S.users[w][l]
    BY <1>3, ZenonT(60) DEF NickStep
  <2> QED BY <1>0, <2>1 DEF Knowing, Peopled, NickStep
<1>4. ASSUME NEW l \in Lists, NEW w \in User, NEW n \in T.users[w][l], n \notin {old, new}
      PROVE  Known(T, l, w, n)
  BY <1>2, <1>3, <1>4 DEF Known
<1>5. KnowingBut(T, {old, new})
  BY <1>4 DEF KnowingBut
<1>6. ASSUME S.users[u].phase # "in" PROVE Pres(T)
  <2>1. ASSUME NEW l \in Lists, NEW w \in User, NEW n \in T.users[w][l] PROVE Known(T, l, w, n)
    <3>1. CASE n \notin {old, new}
      BY <1>4, <3>1
    <3>2. CASE n = old
      <4>1. old # None
        BY <1>0, <1>3, <3>2
      <4>2. StatusOf(T, n) = "off" /\ StatusOf(S, n) = "early"
        BY <1>2, <1>6, <3>2, <4>1
      <4> QED BY <1>3, <4>2 DEF Known
    <3>3. CASE n = new
      <4>1. StatusOf(T, n) = "early" /\ StatusOf(S, n) = "off"
        BY <1>2, <1>6, <3>3
      <4> QED BY <1>3, <4>1 DEF Known
    <3> QED BY <3>1, <3>2, <3>3
  <2>2. Knowing(T)
    BY <2>1 DEF Knowing
  <2> QED BY <1>1, <2>2, PresBase
<1> QED BY <1>1, <1>5, <1>6 DEF old

\* users.rs set_nick, for a nick that nobody holds.
LEMMA SetNickKeeps ==
  ASSUME NEW S, Good(S), NEW u \in User, NEW new \in Nick, S.index.nick[new] = None,
         S.users[u].phase # "out"
  PROVE  Good(set_nick(S, u, new))
<1> DEFINE old == S.users[u].nick
           C == Renick(S, u, new)
           D == Recorded(C, Joined(C, u), old)
           E == watch_notify_offline(D, old)
           F == watch_notify_online(E, new)
<1>0. /\ Pres(S) /\ Disc(S) /\ Base(S) /\ Peopled(S) /\ None \notin Nick /\ None \notin User
      /\ old \in Nick \cup {None}
  BY PresBase, MessagesAssumption DEF Good, Base, Peopled
<1>1. set_nick(S, u, new) = IF Registered(S, u) THEN F ELSE C
  BY Zenon DEF set_nick, Renick, NickOf
<1>2. NickStep(S, C, u, old, new)
  BY <1>0, RenickStep
<1> HIDE DEF C
<1>3. /\ Base(C) /\ KnowingBut(C, {old, new})
      /\ S.users[u].phase # "in" => Pres(C)
  BY <1>0, <1>2, RenickKnows
<1>4. Disc(C) /\ Shaped(C)
  BY <1>0, <1>2, DiscFrame DEF NickStep
<1>5. CASE S.users[u].phase # "in"
  BY <1>1, <1>3, <1>4, <1>5 DEF Registered, Good
<1>6. CASE S.users[u].phase = "in"
  <2>1. old # None /\ old \in Nick
    BY <1>0, <1>6 DEF Peopled
  <2>2. StatusOf(C, old) = "off" /\ StatusOf(C, new) = "on" /\ old # new
    BY <1>0, <1>2, <1>6, <2>1, NickStatus
  <2>3. Joined(C, u) \in SUBSET Chan
    BY DEF Joined
  <2>4. Spoken(C, D)
    BY <1>4, <2>1, <2>3, RecordedKeeps
  <2> HIDE DEF D, old
  <2>5. /\ Base(D) /\ KnowingBut(D, {old, new}) /\ Disc(D)
        /\ StatusOf(D, old) = "off" /\ StatusOf(D, new) = "on"
    BY <1>3, <2>1, <2>2, <2>4, BaseFrame DEF Spoken
  <2>6. E = Notify(D, old, "off")
    BY DEF watch_notify_offline
  <2>7. Base(E) /\ KnowingBut(E, {old, new} \ {old}) /\ ToldOnly(D, E)
    BY <2>1, <2>5, <2>6, NotifyKnows
  <2> HIDE DEF E
  <2>8. Disc(E) /\ StatusOf(E, new) = "on"
    <3>1. Disc(E)
      BY <2>5, <2>7, DiscFrame DEF ToldOnly
    <3>2. StatusOf(E, new) = StatusOf(D, new)
      BY <2>5, <2>7, ToldBase
    <3> QED BY <2>5, <3>1, <3>2
  <2>9. F = Notify(E, new, "on")
    BY <2>8 DEF watch_notify_online, StatusOf
  <2>10. Base(F) /\ KnowingBut(F, ({old, new} \ {old}) \ {new}) /\ ToldOnly(E, F)
    BY <2>7, <2>8, <2>9, NotifyKnows
  <2> HIDE DEF F
  <2>11. KnowingBut(F, {})
    BY <2>10 DEF KnowingBut
  <2>12. Pres(F)
    BY <2>10, <2>11, PresBase
  <2>13. Disc(F)
    BY <2>8, <2>10, DiscFrame DEF ToldOnly
  <2> QED BY <1>1, <1>6, <2>12, <2>13 DEF Registered, Good, F, E, D, old
<1> QED BY <1>5, <1>6

\* A connection opens or registers: the status of its nick may change.
LEMMA PhaseFacts ==
  ASSUME NEW S, Pres(S), NEW u \in User, NEW p \in {"new", "in"},
         p = "in" => S.users[u].nick # None, NEW T, T = Put(S, u, "phase", p)
  PROVE  /\ Base(T) /\ KnowingBut(T, {S.users[u].nick}) /\ SameDisc(S, T)
         /\ T.index = S.index
         /\ p = "in" => StatusOf(T, S.users[u].nick) = "on"
<1> DEFINE nk == S.users[u].nick
<1>0. /\ Base(S) /\ Knowing(S) /\ Shaped(S) /\ Peopled(S) /\ Indexed(S) /\ Following(S) /\ Counted(S)
      /\ None \notin Nick /\ None \notin User /\ nk \in Nick \cup {None} /\ "phase" \in UserField
  BY PresBase, MessagesAssumption DEF Base, Peopled, UserField
<1>1. /\ Shaped(T) /\ SameDisc(S, T) /\ T.index = S.index /\ T.told = S.told
      /\ T.users[u]["phase"] = p
      /\ \A w \in User, g \in UserField : w # u \/ g # "phase" => T.users[w][g] = S.users[w][g]
  BY <1>0, PutFacts
<1>2. \A w \in User : /\ T.users[w].nick = S.users[w].nick /\ T.users[w].accept = S.users[w].accept
                      /\ \A l \in Lists : T.users[w][l] = S.users[w][l]
                      /\ T.users[w].phase = IF w = u THEN p ELSE S.users[w].phase
  BY <1>1 DEF UserField, Lists
<1>3. Peopled(T)
  <2>1. ASSUME NEW v \in User
        PROVE  /\ T.users[v].phase \in {"out", "new", "in"}
               /\ T.users[v].nick \in Nick \cup {None}
               /\ T.users[v].phase = "out" => T.users[v].nick = None
               /\ T.users[v].phase = "in" => T.users[v].nick # None
               /\ T.users[v].accept \in Seq(Acceptee)
               /\ \A l \in Lists : T.users[v][l] \subseteq Nick
    <3>1. CASE v = u
      BY <1>0, <1>2, <3>1 DEF Peopled
    <3>2. CASE v # u
      BY <1>0, <1>2, <3>2 DEF Peopled
    <3> QED BY <3>1, <3>2
  <2> QED BY <1>0, <1>1, <2>1 DEF Peopled
<1>4. Indexed(T)
  BY <1>0, <1>1, <1>2 DEF Indexed
<1>5. Following(T)
  <2> SUFFICES ASSUME NEW v \in User, NEW i \in DOMAIN T.users[v].accept,
                      T.users[v].accept[i].to # None
               PROVE  T.users[T.users[v].accept[i].to].nick = T.users[v].accept[i].nick
    BY DEF Following
  <2>1. T.users[v].accept[i] \in Acceptee /\ T.users[v].accept = S.users[v].accept
    BY <1>2, <1>3 DEF Peopled
  <2>2. T.users[v].accept[i].to \in User
    BY <2>1 DEF Acceptee
  <2>3. S.users[T.users[v].accept[i].to].nick = T.users[v].accept[i].nick
    BY <1>0, <2>1 DEF Following
  <2> QED BY <1>2, <2>2, <2>3
<1>6. Counted(T)
  <2>1. \A n : \A v \in User : Named(T.users[v], n) = Named(S.users[v], n)
    BY <1>2 DEF Named
  <2>2. \A n : Entries(T, n) = Entries(S, n)
    BY <2>1 DEF Entries
  <2> QED BY <1>0, <1>1, <2>2 DEF Counted
<1>7. Base(T)
  BY <1>1, <1>3, <1>4, <1>5, <1>6 DEF Base
<1>8. ASSUME NEW m \in Nick, m # nk PROVE StatusOf(T, m) = StatusOf(S, m)
  <2>1. S.index.nick[m] # u /\ S.index.nick[m] \in User \cup {None}
    BY <1>0, <1>8 DEF Indexed, Peopled
  <2> QED BY <1>1, <1>2, <2>1 DEF StatusOf, find_nick, Registered
<1>9. KnowingBut(T, {nk})
  <2> SUFFICES ASSUME NEW l \in Lists, NEW w \in User, NEW n \in T.users[w][l], n \notin {nk}
               PROVE  Known(T, l, w, n)
    BY DEF KnowingBut
  <2>1. n \in Nick /\ Known(S, l, w, n)
    BY <1>0, <1>2 DEF Peopled, Knowing
  <2> QED BY <1>1, <1>8, <2>1 DEF Known
<1>10. ASSUME p = "in" PROVE StatusOf(T, nk) = "on"
  <2>1. nk \in Nick
    BY <1>0, <1>10
  <2>2. S.index.nick[nk] = u
    BY <1>0, <2>1 DEF Indexed
  <2>3. T.index.nick[nk] = u /\ T.users[u].phase = "in" /\ u # None
    BY <1>0, <1>1, <1>2, <1>10, <2>2
  <2> QED BY <2>3, Zenon DEF StatusOf, find_nick, Registered
<1> QED BY <1>1, <1>7, <1>9, <1>10

\* users.rs welcome.
LEMMA WelcomeKeeps ==
  ASSUME NEW S, Good(S), NEW u \in User, S.users[u].nick # None
  PROVE  Good(welcome(S, u))
<1> DEFINE A == Put(S, u, "phase", "in")
           nk == S.users[u].nick
           T == watch_notify_online(A, nk)
<1>0. Pres(S) /\ Disc(S) /\ nk \in Nick
  BY DEF Good, Pres, Peopled
<1>1. welcome(S, u) = T
  BY DEF welcome, NickOf
<1>2. Base(A) /\ KnowingBut(A, {nk}) /\ SameDisc(S, A) /\ StatusOf(A, nk) = "on"
  BY <1>0, PhaseFacts
<1> HIDE DEF A, nk
<1>3. T = Notify(A, nk, "on")
  BY <1>2 DEF watch_notify_online, StatusOf
<1>4. Base(T) /\ KnowingBut(T, {nk} \ {nk}) /\ ToldOnly(A, T)
  BY <1>0, <1>2, <1>3, NotifyKnows
<1> HIDE DEF T
<1>5. KnowingBut(T, {})
  BY <1>4 DEF KnowingBut
<1>6. Pres(T)
  BY <1>4, <1>5, PresBase
<1>7. Disc(T)
  BY <1>0, <1>2, <1>4, DiscFrame DEF ToldOnly
<1> QED BY <1>1, <1>6, <1>7 DEF Good

\* ircd.rs handle_event: a connection opens.
LEMMA ConnectKeeps ==
  ASSUME NEW S, Good(S), NEW u \in User, S.users[u].phase = "out"
  PROVE  Good(Put(S, u, "phase", "new"))
<1> DEFINE T == Put(S, u, "phase", "new")
<1>0. Pres(S) /\ Disc(S) /\ S.users[u].nick = None /\ None \notin Nick
  BY MessagesAssumption DEF Good, Pres, Peopled
<1>1. Base(T) /\ KnowingBut(T, {None}) /\ SameDisc(S, T)
  BY <1>0, PhaseFacts
<1> HIDE DEF T
<1>2. Knowing(T)
  <2> SUFFICES ASSUME NEW l \in Lists, NEW w \in User, NEW n \in T.users[w][l]
               PROVE  Known(T, l, w, n)
    BY DEF Knowing
  <2>1. n # None
    BY <1>0, <1>1 DEF Base, Peopled
  <2> QED BY <1>1, <2>1 DEF KnowingBut
<1>3. Pres(T) /\ Disc(T)
  BY <1>0, <1>1, <1>2, PresBase, DiscFrame
<1> QED BY <1>3 DEF T, Good

-----------------------------------------------------------------------------
(* The hooks: each one keeps the invariant, whether it stops the line.     *)

\* A frame keeps the invariant.
LEMMA GoodFrame ==
  ASSUME NEW S, NEW T, Good(S), Frame(S, T)
  PROVE  Good(T)
BY PresFrame, DiscFrame DEF Good, Frame

\* A field that no invariant speaks of may be set.
LEMMA PutKeeps ==
  ASSUME NEW S, Good(S), NEW u \in User, NEW f \in UserField \ CoreField, NEW v
  PROVE  Good(Put(S, u, f, v))
BY PutFrame, GoodFrame DEF Good, Pres

\* The gates that only look.
LEMMA UnlessKeeps ==
  ASSUME NEW S, Good(S), NEW bad
  PROVE  Good(Unless(bad, S).S) /\ Good(Go(S).S) /\ Good(Stop(S).S)
BY DEF Unless, Go, Stop

\* flood.rs.
LEMMA FloodKeeps ==
  ASSUME NEW S, Good(S), NEW u \in User
  PROVE  Good(flood(S, u).S)
<1> DEFINE times == Append(Recent(S, S.users[u].times), S.now)
           A == Put(S, u, "times", times)
           B == Put(A, u, "quitting", TRUE)
<1>0. {"times", "quitting"} \subseteq UserField \ CoreField
  BY DEF UserField, CoreField
<1> HIDE DEF times
<1>1. Good(A)
  BY <1>0, PutKeeps
<1> HIDE DEF A
<1>2. Good(B)
  BY <1>0, <1>1, PutKeeps
<1> HIDE DEF B
<1>3. flood(S, u) \in {Go(S), Go(A), Stop(A), Stop(B)}
  BY Zenon DEF flood, times, A, B
<1> QED BY <1>1, <1>2, <1>3 DEF Go, Stop

\* filter.rs.
LEMMA FilterKeeps ==
  ASSUME NEW S, Good(S), NEW u \in User, NEW x
  PROVE  Good(Filter(S, u, x).S)
<1>1. Good(remove_user(S, u))
  BY RemoveKeeps
<1>2. Filter(S, u, x) \in {Go(S), Stop(S), Stop(remove_user(S, u))}
  BY Zenon DEF Filter
<1> QED BY <1>1, <1>2 DEF Go, Stop

\* blockamsg.rs.
LEMMA BlockAmsgKeeps ==
  ASSUME NEW S, Good(S), NEW u \in User, NEW c, NEW x
  PROVE  Good(BlockAmsg(S, u, c, x).S)
<1> DEFINE last == [text |-> x, to |-> c, at |-> S.now]
           A == Put(S, u, "last", last)
<1>0. "last" \in UserField \ CoreField
  BY DEF UserField, CoreField
<1> HIDE DEF last
<1>1. Good(A)
  BY <1>0, PutKeeps
<1> HIDE DEF A
<1>2. Good(remove_user(A, u))
  BY <1>1, RemoveKeeps
<1>3. BlockAmsg(S, u, c, x) \in {Go(S), Go(A), Stop(remove_user(A, u))}
  BY Zenon DEF BlockAmsg, last, A
<1> QED BY <1>1, <1>2, <1>3 DEF Go, Stop

\* solvemsg.rs.
LEMMA SolveMsgKeeps ==
  ASSUME NEW S, Good(S), NEW u \in User, NEW n, NEW x
  PROVE  Good(SolveMsg(S, u, n, x).S)
<1> DEFINE v == IF S.users[u].solved = "asked" /\ "answer" \in x THEN "yes" ELSE "asked"
           A == Put(S, u, "solved", v)
<1>0. "solved" \in UserField \ CoreField
  BY DEF UserField, CoreField
<1> HIDE DEF v
<1>1. Good(A)
  BY <1>0, PutKeeps
<1> HIDE DEF A
<1>3. SolveMsg(S, u, n, x) \in {Go(S), Stop(A)}
  BY Zenon DEF SolveMsg, v, A
<1> QED BY <1>1, <1>3 DEF Go, Stop

\* targetlimit.rs.
LEMMA TargetLimitKeeps ==
  ASSUME NEW S, Good(S), NEW u \in User, NEW t
  PROVE  Good(TargetLimit(S, u, t).S)
<1> DEFINE me == S.users[u]
           old == SelectSeq(me.targets, LAMBDA y : y # t)
           credit == Max({me.credit, SatSub(S.now, TargetDelay * (TargetMax - 1))})
           ts == SubSeq(<<t>> \o old, 1, Min({TargetMax, Len(old) + 1}))
           cr == credit + TargetDelay
           A == Put(S, u, "targets", ts)
           B == Put(A, u, "credit", cr)
<1>0. {"targets", "credit"} \subseteq UserField \ CoreField
  BY DEF UserField, CoreField
<1>3. TargetLimit(S, u, t) \in {Go(S), Stop(S), Go(A), Go(B)}
  BY Zenon DEF TargetLimit
<1> HIDE DEF ts, cr
<1>1. Good(A)
  BY <1>0, PutKeeps
<1> HIDE DEF A
<1>2. Good(B)
  BY <1>0, <1>1, PutKeeps
<1> HIDE DEF B
<1> QED BY <1>1, <1>2, <1>3 DEF Go, Stop

\* ircd.rs dispatch: the hooks before a message.
LEMMA PreMessageKeeps ==
  ASSUME NEW S, Good(S), NEW u \in User, NEW t, NEW x
  PROVE  Good(PreMessage(S, u, t, x).S)
<1> DEFINE a == BlockAmsg(S, u, t, x)
           b == Then(a, LAMBDA T : flood(T, u))
           c == Then(b, LAMBDA T : AntiMixedUtf8(T, u, x))
           d == Then(c, LAMBDA T : Filter(T, u, x))
           e == Then(d, LAMBDA T : RestrictMsg(T, u, t))
           f == Then(e, LAMBDA T : MassHighlight(T, u, t, x))
           g == Then(f, LAMBDA T : DccAllow(T, u, t, x))
           h == Then(g, LAMBDA T : SolveMsg(T, u, t, x))
           i == Then(h, LAMBDA T : TargetLimit(T, u, t))
<1>0. PreMessage(S, u, t, x) = i
  BY DEF PreMessage
<1>1. Good(a.S)
  BY BlockAmsgKeeps
<1> HIDE DEF a
<1>2. Good(b.S)
  BY <1>1, FloodKeeps DEF Then
<1> HIDE DEF b
<1>3. Good(c.S)
  BY <1>2, UnlessKeeps DEF Then, AntiMixedUtf8
<1> HIDE DEF c
<1>4. Good(d.S)
  BY <1>3, FilterKeeps DEF Then
<1> HIDE DEF d
<1>5. Good(e.S)
  BY <1>4, UnlessKeeps DEF Then, RestrictMsg
<1> HIDE DEF e
<1>6. Good(f.S)
  BY <1>5, UnlessKeeps DEF Then, MassHighlight
<1> HIDE DEF f
<1>7. Good(g.S)
  BY <1>6, UnlessKeeps DEF Then, DccAllow
<1> HIDE DEF g
<1>8. Good(h.S)
  BY <1>7, SolveMsgKeeps DEF Then
<1> HIDE DEF h
<1>9. Good(i.S)
  BY <1>8, TargetLimitKeeps DEF Then
<1> HIDE DEF i
<1> QED BY <1>0, <1>9

-----------------------------------------------------------------------------
(* A message to a channel.                                                 *)

\* The members of the channels are no business of the tables.
LEMMA RoomsFrame ==
  ASSUME NEW S, Good(S), NEW r
  PROVE  Good([S EXCEPT !.rooms = r])
<1> DEFINE T == [S EXCEPT !.rooms = r]
<1>0. DOMAIN S = StateField /\ Shaped(S)
  BY DEF Good, Pres, Shaped
<1>1. T = [S EXCEPT !.rooms = r]
  OBVIOUS
<1> HIDE DEF T
<1>2. /\ DOMAIN T = StateField /\ SameDisc(S, T)
      /\ T.users = S.users /\ T.index = S.index /\ T.told = S.told
  BY <1>0, <1>1 DEF StateField, SameDisc
<1>3. Frame(S, T)
  BY <1>0, <1>2 DEF Shaped, SamePres, Frame
<1> QED BY <1>3, GoodFrame DEF T

\* One field of one member is set.
LEMMA PutMemberKeeps ==
  ASSUME NEW S, Good(S), NEW c, NEW u, NEW f, NEW v
  PROVE  Good(PutMember(S, c, u, f, v))
<1> DEFINE r == [S.rooms EXCEPT ![<<c, u>>][f] = v]
<1>1. PutMember(S, c, u, f, v) = [S EXCEPT !.rooms = r]
  BY DEF PutMember
<1> HIDE DEF r
<1> QED BY <1>1, RoomsFrame

\* core_message.rs: +W.
LEMMA SlowmodeKeeps ==
  ASSUME NEW S, Good(S), NEW u, NEW c
  PROVE  Good(slowmode(S, u, c).S)
<1> DEFINE hits == Recent(S, S.rooms[<<c, u>>].slow)
           A == PutMember(S, c, u, "slow", hits)
           more == Append(hits, S.now)
           B == PutMember(S, c, u, "slow", more)
<1>1. slowmode(S, u, c) \in {Go(S), Stop(A), Go(B)}
  BY Zenon DEF slowmode
<1> HIDE DEF more
<1>2. Good(B)
  BY PutMemberKeeps
<1> HIDE DEF hits, B
<1>3. Good(A)
  BY PutMemberKeeps
<1> HIDE DEF A
<1> QED BY <1>1, <1>2, <1>3 DEF Go, Stop

\* core_message.rs: +K.
LEMMA RepeatKeeps ==
  ASSUME NEW S, Good(S), NEW u, NEW c, NEW body
  PROVE  Good(repeat(S, u, c, body).S)
<1> DEFINE old == S.rooms[<<c, u>>].recent
           new == SubSeq(Append(old, body), SatSub(Len(old) + 1, Repeats) + 1, Len(old) + 1)
           A == PutMember(S, c, u, "recent", new)
<1>1. repeat(S, u, c, body) \in {Go(S), Stop(S), Go(A)}
  BY Zenon DEF repeat
<1> HIDE DEF new
<1>2. Good(A)
  BY PutMemberKeeps
<1> HIDE DEF A
<1> QED BY <1>1, <1>2 DEF Go, Stop

\* An event of a channel is recorded.
LEMMA EventKeeps ==
  ASSUME NEW S, Good(S), NEW c \in Chan, NEW n \in Nick \cup {None}
  PROVE  Good(record_event(S, ChanKey(c), n))
<1>1. Shaped(S) /\ Disc(S) /\ Pres(S) /\ ChanKey(c) \in SUBSET (Nick \cup Chan)
  BY DEF Good, Pres, ChanKey
<1> QED BY <1>1, RecordEventKeeps, SpokenGood

\* A user leaves a channel, and the event is recorded.
LEMMA LeaveKeeps ==
  ASSUME NEW S, Good(S), NEW u, NEW c \in Chan, NEW n \in Nick \cup {None}
  PROVE  Good(record_event(Leave(S, u, c), ChanKey(c), n))
<1>1. Shaped(S)
  BY DEF Good, Pres
<1>2. Good(LeaveAll(S, u, {c}))
  BY <1>1, LeaveFrame, GoodFrame
<1>3. Leave(S, u, c) = LeaveAll(S, u, {c})
  BY DEF Leave
<1> QED BY <1>2, <1>3, EventKeeps

\* The nick of a user.
LEMMA NickType ==
  ASSUME NEW S, Good(S), NEW u \in User
  PROVE  NickOf(S, u) \in Nick \cup {None}
BY DEF Good, Pres, Peopled, NickOf

\* core_message.rs: +f.
LEMMA MessageFloodKeeps ==
  ASSUME NEW S, Good(S), NEW u \in User, NEW c \in Chan
  PROVE  Good(messageflood_hit(S, u, c).S)
<1> DEFINE hits == Append(Recent(S, S.users[u].floods[c]), S.now)
           fh == [S.users[u].floods EXCEPT ![c] = hits]
           f0 == [S.users[u].floods EXCEPT ![c] = <<>>]
           A == Put(S, u, "floods", fh)
           B == Put(S, u, "floods", f0)
           K == flood_kick(B, u, c)
<1>0. "floods" \in UserField \ CoreField
  BY DEF UserField, CoreField
<1>1. messageflood_hit(S, u, c) \in {Go(S), Stop(K), Go(A)}
  BY Zenon DEF messageflood_hit
<1> HIDE DEF fh, f0
<1>2. Good(A) /\ Good(B)
  BY <1>0, PutKeeps
<1> HIDE DEF A, B
<1>3. Good(K)
  <2>1. NickOf(B, u) \in Nick \cup {None}
    BY <1>2, NickType
  <2> QED BY <1>2, <2>1, LeaveKeeps DEF flood_kick
<1> HIDE DEF K
<1> QED BY <1>1, <1>2, <1>3 DEF Go, Stop

\* core_message.rs deliver: the gates of a channel.
LEMMA ChannelGatesKeep ==
  ASSUME NEW S, Good(S), NEW u \in User, NEW c \in Chan, NEW x, NEW notice
  PROVE  Good(ChannelGates(S, u, c, x, notice).S)
<1> DEFINE a == Admitted(S, u, c, x)
           b == Then(a, LAMBDA T : slowmode(T, u, c))
           d == Then(b, LAMBDA T : Muted(T, u, c))
           e == Then(d, LAMBDA T : messageflood_hit(T, u, c))
           f == Then(e, LAMBDA T : Content(T, u, c, x, notice))
           g == Then(f, LAMBDA T : repeat(T, u, c, Body(T, u, c, x)))
<1>0. ChannelGates(S, u, c, x, notice) = g
  BY DEF ChannelGates
<1>1. Good(a.S)
  BY UnlessKeeps DEF Admitted
<1> HIDE DEF a
<1>2. Good(b.S)
  BY <1>1, SlowmodeKeeps DEF Then
<1> HIDE DEF b
<1>3. Good(d.S)
  BY <1>2, UnlessKeeps DEF Then, Muted
<1> HIDE DEF d
<1>4. Good(e.S)
  BY <1>3, MessageFloodKeeps DEF Then
<1> HIDE DEF e
<1>5. Good(f.S)
  BY <1>4, UnlessKeeps DEF Then, Content
<1> HIDE DEF f
<1>6. Good(g.S)
  BY <1>5, RepeatKeeps DEF Then
<1> HIDE DEF g
<1> QED BY <1>0, <1>6

\* core_message.rs deliver: a message goes out to a channel; only those who may
\* see an ops-only one are shown it, and it is in no history.
LEMMA PublishKeeps ==
  ASSUME NEW S, Good(S), NEW u \in User, NEW c \in Chan
  PROVE  Good(Publish(S, u, c))
<1> DEFINE ops == OpOnly(S, u, c)
           see == HalfOps(S, c)
           e == LogEntry(ChanKey(c), u, ops, see)
           A == next_msgid(S, e)
           B == IF ops THEN A ELSE record(A, ChanKey(c), NickOf(S, u))
           who == Audience(S, u, c, ops) \cup ({u} \cap Echo)
<1>0. Shaped(S) /\ Disc(S) /\ Pres(S) /\ NickOf(S, u) \in Nick \cup {None}
  BY NickType DEF Good, Pres
<1>1. Publish(S, u, c) = Show(B, {ThisId(B)}, who)
  BY DEF Publish
<1>2. ops \in BOOLEAN /\ see \in SUBSET User /\ (ops => who \subseteq see \cup {u})
  BY DEF OpOnly, Audience, HalfOps, MembersOf, Has
<1> HIDE DEF ops, see, who
<1>3. e \in LogRec /\ ~e.redacted /\ e.to = ChanKey(c) /\ Sees(e) = see \cup {u} /\ (e.ops <=> ops)
  BY <1>2 DEF LogEntry, LogRec, ChanKey, Sees
<1>4. A = next_msgid(S, e)
  OBVIOUS
<1> HIDE DEF A, e
<1>5. /\ Spoken(S, A) /\ Shaped(A) /\ Disc(A) /\ ThisId(A) \in 1 .. Len(A.log)
      /\ A.log[ThisId(A)] = e /\ (~ops => Open_in(A, ChanKey(c), ThisId(A)))
  BY <1>0, <1>3, <1>4, FreshFacts
<1>6. Spoken(S, B) /\ Shaped(B) /\ Disc(B) /\ B.log = A.log
  <2>1. CASE ops
    BY <1>5, <2>1
  <2>2. CASE ~ops
    <3> DEFINE R == record(A, ChanKey(c), NickOf(S, u))
    <3>1. Spoken(A, R) /\ Shaped(R) /\ Disc(R) /\ R.log = A.log
      BY <1>0, <1>5, <2>2, RecordKeeps
    <3>2. B = R
      BY <2>2
    <3> HIDE DEF R, B
    <3> QED BY <1>5, <3>1, <3>2, SpokenTrans
  <2> QED BY <2>1, <2>2
<1> HIDE DEF B
<1>7. ThisId(B) = ThisId(A) /\ B.log[ThisId(B)] = e /\ ThisId(B) \in 1 .. Len(B.log)
  BY <1>5, <1>6 DEF ThisId
<1>8. Spoken(B, Show(B, {ThisId(B)}, who))
  BY <1>2, <1>3, <1>6, <1>7, ShowKeeps
<1> QED BY <1>0, <1>1, <1>6, <1>8, SpokenTrans, SpokenGood

\* core_message.rs deliver: to a channel.
LEMMA ChannelKeeps ==
  ASSUME NEW S, Good(S), NEW u \in User, NEW c \in Chan, NEW x, NEW notice
  PROVE  Good(deliver_channel(S, u, c, x, notice))
<1> DEFINE v == ChannelGates(S, u, c, x, notice)
<1>1. Good(v.S)
  BY ChannelGatesKeep
<1>2. deliver_channel(S, u, c, x, notice) = IF v.go THEN Publish(v.S, u, c) ELSE v.S
  BY DEF deliver_channel
<1> HIDE DEF v
<1> QED BY <1>1, <1>2, PublishKeeps

-----------------------------------------------------------------------------
(* A message to a user, and those that no history holds.                   *)

\* A message that is for everybody in its conversation is given its id.
LEMMA PlainFresh ==
  ASSUME NEW S, Good(S), NEW k \in SUBSET (Nick \cup Chan \cup {None}), NEW u \in User \cup {None},
         NEW A, A = next_msgid(S, LogEntry(k, u, FALSE, {}))
  PROVE  /\ Good(A) /\ Shaped(A) /\ Disc(A) /\ Spoken(S, A) /\ Open_in(A, k, ThisId(A))
         /\ A.users = S.users /\ A.rooms = S.rooms
<1> DEFINE e == LogEntry(k, u, FALSE, {})
<1>0. Shaped(S) /\ Disc(S) /\ Pres(S)
  BY DEF Good, Pres
<1>1. e \in LogRec /\ ~e.redacted /\ ~e.ops /\ e.to = k
  BY PlainEntry
<1>2. A = next_msgid(S, e)
  OBVIOUS
<1> HIDE DEF e
<1>a. Spoken(S, A) /\ Shaped(A) /\ Disc(A)
  BY <1>0, <1>1, <1>2, FreshFacts, Zenon
<1>b. A.users = S.users /\ A.rooms = S.rooms
  BY <1>0, <1>1, <1>2, NextKeeps
<1>c. Open_in(A, e.to, ThisId(A))
  BY <1>0, <1>1, <1>2, FreshFacts, Zenon
<1>3. /\ Spoken(S, A) /\ Shaped(A) /\ Disc(A) /\ A.users = S.users /\ A.rooms = S.rooms
      /\ Open_in(A, k, ThisId(A))
  BY <1>1, <1>a, <1>b, <1>c
<1>4. Good(A)
  BY <1>0, <1>3, SpokenGood
<1> QED BY <1>1, <1>3, <1>4

\* It may be shown to anybody.
LEMMA PlainShown ==
  ASSUME NEW S, Good(S), NEW k, Open_in(S, k, ThisId(S)), NEW who
  PROVE  Good(Show(S, {ThisId(S)}, who)) /\ Spoken(S, Show(S, {ThisId(S)}, who))
         /\ Show(S, {ThisId(S)}, who).log = S.log
<1>0. Shaped(S) /\ Disc(S) /\ Pres(S)
  BY DEF Good, Pres
<1>1. ThisId(S) \in 1 .. Len(S.log) /\ ~S.log[ThisId(S)].redacted /\ ~S.log[ThisId(S)].ops
  BY DEF Open_in
<1> QED BY <1>0, <1>1, ShowKeeps, SpokenGood

\* core_message.rs deliver: to a user.
LEMMA UserKeeps ==
  ASSUME NEW S, Good(S), NEW u \in User, NEW n \in Nick, NEW x
  PROVE  Good(deliver_user(S, u, n, x))
<1> DEFINE t == find_nick(S, n)
           k == dm_key(NickOf(S, u), n)
           A == next_msgid(S, LogEntry(k, u, FALSE, {}))
           R == record(A, k, NickOf(S, u))
           B == IF is_silenced(S, t, NickOf(S, u)) \/ signore_blocks(S, u, t) THEN A
                ELSE Show(R, {ThisId(A)}, {t})
           D == Show(B, {ThisId(B)}, {u} \cap Echo)
           shut == \/ t = None \/ Closed(S, u, t)
                   \/ is_ctcp(x) /\ u # t /\ Umode(t, "T") /\ u \notin Oper
                   \/ CallerIdBlocks(S, u, t)
<1>0. Shaped(S) /\ Disc(S) /\ Pres(S) /\ NickOf(S, u) \in Nick \cup {None}
  BY NickType DEF Good, Pres
<1>1. /\ deliver_user(S, u, n, x) = IF shut THEN S ELSE AutoAccept(D, u, t)
      /\ ~shut => t # None
  BY Zenon DEF deliver_user
<1> HIDE DEF shut
<1>2. k \in SUBSET (Nick \cup Chan \cup {None})
  BY <1>0 DEF dm_key
<1>3. A = next_msgid(S, LogEntry(k, u, FALSE, {}))
  OBVIOUS
<1>t. t # None => t \in User /\ S.users[t].nick = n
  BY <1>0 DEF Pres, Peopled, Indexed, find_nick
<1> HIDE DEF k, A, t
<1>4. /\ Good(A) /\ Shaped(A) /\ Disc(A) /\ Spoken(S, A) /\ Open_in(A, k, ThisId(A))
  BY <1>2, <1>3, PlainFresh
<1>5. /\ Spoken(A, R) /\ R.log = A.log
  BY <1>0, <1>4, RecordKeeps
<1>6. Good(R) /\ Spoken(S, R) /\ ThisId(R) = ThisId(A) /\ Open_in(R, k, ThisId(R))
  BY <1>4, <1>5, SpokenGood, SpokenTrans DEF Good, ThisId, Open_in
<1> HIDE DEF R
<1>7. Good(B) /\ Spoken(S, B) /\ Open_in(B, k, ThisId(B))
  <2> DEFINE V == Show(R, {ThisId(R)}, {t})
  <2>1. Good(V) /\ Spoken(R, V) /\ V.log = R.log
    BY <1>6, PlainShown
  <2>2. B = A \/ B = V
    BY <1>6
  <2> HIDE DEF V, B
  <2>3. Spoken(S, V) /\ Open_in(V, k, ThisId(V))
    BY <1>6, <2>1, SpokenTrans DEF Open_in, ThisId
  <2> QED BY <1>4, <2>1, <2>2, <2>3
<1> HIDE DEF B
<1>8. Good(D) /\ Spoken(S, D)
  BY <1>7, PlainShown, SpokenTrans
<1> HIDE DEF D
<1>9. ASSUME t # None PROVE Good(AutoAccept(D, u, t))
  <2>1. NickOf(D, t) = n
    BY <1>t, <1>8, <1>9, SameFields DEF Spoken, NickOf
  <2>2. AutoAccept(D, u, t) = D \/ AutoAccept(D, u, t) = accept_add(D, u, n)
    BY <2>1, Zenon DEF AutoAccept
  <2>3. Good(accept_add(D, u, n))
    BY <1>8, AcceptAddKeeps, DiscFrame DEF Good
  <2> QED BY <1>8, <2>2, <2>3
<1> QED BY <1>1, <1>9

\* core_message.rs deliver.
LEMMA DeliverKeeps ==
  ASSUME NEW S, Good(S), NEW u \in User, NEW t \in Nick \cup Chan, NEW x, NEW notice
  PROVE  Good(deliver(S, u, t, x, notice))
BY ChannelKeeps, UserKeeps DEF deliver

\* core_message.rs: TAGMSG.
LEMMA TagKeeps ==
  ASSUME NEW S, Good(S), NEW u \in User, NEW t \in Nick \cup Chan
  PROVE  Good(TagMsg(S, u, t))
<1> DEFINE k == {t}
           A == next_msgid(S, LogEntry(k, u, FALSE, {}))
           all == {m \in MembersOf(S, t) : (m = u => u \in Echo) /\ ~Deaf(S, u, m)}
           one == {find_nick(S, t)} \cup ({u} \cap Echo)
<1>1. TagMsg(S, u, t) \in {A, Show(A, {ThisId(A)}, all), Show(A, {ThisId(A)}, one)}
  BY Zenon DEF TagMsg
<1>2. A = next_msgid(S, LogEntry(k, u, FALSE, {})) /\ k \in SUBSET (Nick \cup Chan \cup {None})
  OBVIOUS
<1> HIDE DEF A, all, one, k
<1>3. Good(A) /\ Open_in(A, k, ThisId(A))
  BY <1>2, PlainFresh
<1> QED BY <1>1, <1>3, PlainShown

-----------------------------------------------------------------------------
(* The lines of a batch.                                                   *)

LineStep(ls, p) == IF p.concat /\ ls # <<>> THEN [ls EXCEPT ![Len(ls)] = Joins(@, p.text)]
                   ELSE Append(ls, p.text)

\* A part makes texts of texts.
LEMMA LineFacts ==
  ASSUME NEW ls \in Seq(Text), NEW p \in PartRec
  PROVE  LineStep(ls, p) \in Seq(Text)
<1>1. p.text \in Text /\ p.concat \in BOOLEAN
  BY DEF PartRec
<1>2. CASE p.concat /\ ls # <<>>
  <2> DEFINE i == Len(ls)
             y == Joins(ls[i], p.text)
  <2>1. i \in Nat /\ i # 0 /\ i \in 1 .. Len(ls) /\ ls[i] \in Text
    BY <1>2
  <2>2. y \in Text
    BY <1>1, <2>1 DEF Joins, Text, Feature
  <2>3. LineStep(ls, p) = [ls EXCEPT ![i] = y]
    BY <1>2 DEF LineStep
  <2> HIDE DEF i, y
  <2> QED BY <2>1, <2>2, <2>3
<1>3. CASE ~(p.concat /\ ls # <<>>)
  BY <1>1, <1>3 DEF LineStep
<1> QED BY <1>2, <1>3

LinesEquation(parts, it) ==
    it = [d \in SUBSET DOMAIN parts |->
            IF d = {} THEN <<>> ELSE LineStep(it[d \ {Max(d)}], parts[Max(d)])]

\* The fold over the parts satisfies its equation.
LEMMA LinesFold ==
  ASSUME NEW parts, NEW it, LinesEquation(parts, it)
  PROVE  \E jt : LinesEquation(parts, jt) /\ LogicalLines(parts) = jt[DOMAIN parts]
<1>1. PICK jt : jt = CHOOSE k : LinesEquation(parts, k)
  OBVIOUS
<1>2. LinesEquation(parts, jt)
  BY <1>1
<1>3. LogicalLines(parts) = jt[DOMAIN parts]
  BY <1>1, Zenon DEF LogicalLines, FoldLeft, MapThenFoldSet, LinesEquation, LineStep
<1> QED BY <1>2, <1>3

\* The logical lines of a batch are texts.
LEMMA LinesFacts ==
  ASSUME NEW parts \in Seq(PartRec)
  PROVE  LogicalLines(parts) \in Seq(Text)
<1> DEFINE n == Len(parts)
           V == Seq(Text)
           g == [p \in V \X (1 .. n) |-> LineStep(p[1], parts[p[2]])]
<1>0. n \in Nat /\ parts \in [1 .. n -> PartRec] /\ DOMAIN parts = 1 .. n /\ <<>> \in V
  OBVIOUS
<1> HIDE DEF n
<1>1. g \in [V \X (1 .. n) -> V]
  BY <1>0, LineFacts
<1>3. PICK it \in [SUBSET (1 .. n) -> V] : SeqFold(n, <<>>, g, it)
  <2> HIDE DEF V, g
  <2> QED BY <1>0, <1>1, SeqFoldExists, Zenon
<1>4. LinesEquation(parts, it)
  <2>1. ASSUME NEW d \in SUBSET (1 .. n), d # {}
        PROVE  it[d] = LineStep(it[d \ {Max(d)}], parts[Max(d)])
    <3>1. Max(d) \in 1 .. n
      BY <1>0, <2>1, MaxIn
    <3>2. it[d \ {Max(d)}] \in V
      OBVIOUS
    <3> HIDE DEF V
    <3> QED BY <1>3, <2>1, <3>1, <3>2 DEF SeqFold
  <2>2. it[{}] = <<>>
    BY <1>3 DEF SeqFold
  <2> HIDE DEF V, g
  <2> QED BY <1>0, <2>1, <2>2 DEF LinesEquation
<1>5. PICK jt : LinesEquation(parts, jt) /\ LogicalLines(parts) = jt[1 .. n]
  BY <1>0, <1>4, LinesFold
<1>6. jt[{}] = <<>> /\ \A d \in SUBSET (1 .. n) : d # {} =>
                       jt[d] = LineStep(jt[d \ {Max(d)}], parts[Max(d)])
  BY <1>0, <1>5 DEF LinesEquation
<1> DEFINE W == [d \in SUBSET (1 .. n) |-> V]
<1>7. jt[{}] \in W[{}]
  BY <1>0, <1>6
<1>8. ASSUME NEW d \in SUBSET (1 .. n), d # {}, jt[d \ {Max(d)}] \in W[d \ {Max(d)}]
      PROVE  jt[d] \in W[d]
  <2> DEFINE m == Max(d)
             a == jt[d \ {m}]
             b == jt[d]
  <2>1. m \in 1 .. n
    BY <1>0, <1>8, MaxIn
  <2>2. a \in V
    BY <1>8
  <2>3. b = LineStep(a, parts[m])
    BY <1>6, <1>8
  <2> HIDE DEF a, b, m
  <2>4. b \in V
    BY <1>0, <2>1, <2>2, <2>3, LineFacts
  <2> QED BY <2>4 DEF b
<1>9. jt[1 .. n] \in W[1 .. n]
  <2> HIDE DEF V, W
  <2> QED BY <1>0, <1>7, <1>8, SeqFoldStays
<1> QED BY <1>5, <1>9 DEF n

CloseEquation(S, b, u, lines, it) == it = [d \in SUBSET DOMAIN lines |->
    IF d = {} THEN S ELSE deliver(it[d \ {Max(d)}], u, b.target, lines[Max(d)], b.notice)]

Delivered(S, u, b, lines) ==
    FoldLeft(LAMBDA T, x : deliver(T, u, b.target, x, b.notice), S, lines)

\* The fold over the lines satisfies its equation.
LEMMA CloseFold ==
  ASSUME NEW S, NEW b, NEW u, NEW lines, NEW it, CloseEquation(S, b, u, lines, it)
  PROVE  \E jt : CloseEquation(S, b, u, lines, jt) /\ Delivered(S, u, b, lines) = jt[DOMAIN lines]
<1>1. PICK jt : jt = CHOOSE k : CloseEquation(S, b, u, lines, k)
  OBVIOUS
<1>2. CloseEquation(S, b, u, lines, jt)
  BY <1>1
<1>3. Delivered(S, u, b, lines) = jt[DOMAIN lines]
  BY <1>1, Zenon DEF Delivered, FoldLeft, MapThenFoldSet, CloseEquation
<1> QED BY <1>2, <1>3

\* multiline.rs: every line of a batch is delivered.
LEMMA DeliveredKeeps ==
  ASSUME NEW S, Good(S), NEW u \in User, NEW b \in Batch, NEW lines \in Seq(Text)
  PROVE  Good(Delivered(S, u, b, lines))
<1> DEFINE n == Len(lines)
           ch == [s \in SUBSET (1 .. n) |-> Max(s)]
           a == [kind |-> "line", user |-> u, target |-> b.target, lines |-> lines,
                 notice |-> b.notice]
<1>0. n \in Nat /\ DOMAIN lines = 1 .. n /\ IsFiniteSet(1 .. n) /\ b.target \in Nick \cup Chan
  BY FS_Interval DEF Batch
<1> HIDE DEF n
<1>1. /\ \A s \in SUBSET (1 .. n) : s # {} => ch[s] \in s
      /\ \A s \in SUBSET (1 .. n) : ch[s] = Max(s)
  BY <1>0, MaxIn
<1>2. \A T, x : FoldStep(a, T, x) = deliver(T, u, b.target, lines[x], b.notice)
  BY DEF FoldStep
<1> HIDE DEF ch, a
<1>3. PICK it : StepEquation(1 .. n, S, a, ch, it)
  BY <1>0, <1>1, StepFoldExists
<1>4. CloseEquation(S, b, u, lines, it)
  <2>1. \A s \in SUBSET (1 .. n) : FoldStep(a, it[s \ {ch[s]}], ch[s]) =
              deliver(it[s \ {Max(s)}], u, b.target, lines[Max(s)], b.notice)
    BY <1>1, <1>2, Zenon
  <2> QED BY <1>0, <1>3, <2>1 DEF StepEquation, CloseEquation
<1>5. PICK jt : CloseEquation(S, b, u, lines, jt) /\ Delivered(S, u, b, lines) = jt[1 .. n]
  BY <1>0, <1>4, CloseFold
<1>6. /\ jt[{}] = S
      /\ \A s \in SUBSET (1 .. n) : s # {} =>
            jt[s] = deliver(jt[s \ {Max(s)}], u, b.target, lines[Max(s)], b.notice)
  BY <1>0, <1>5 DEF CloseEquation
<1> DEFINE W == [s \in SUBSET (1 .. n) |-> {X \in {jt[s]} : Good(X)}]
<1>7. jt[{}] \in W[{}]
  BY <1>6
<1>8. ASSUME NEW s \in SUBSET (1 .. n), s # {}, jt[s \ {Max(s)}] \in W[s \ {Max(s)}]
      PROVE  jt[s] \in W[s]
  <2> DEFINE T == jt[s \ {Max(s)}]
             x == lines[Max(s)]
  <2>1. Good(T)
    BY <1>8
  <2>2. jt[s] = deliver(T, u, b.target, x, b.notice)
    BY <1>6, <1>8
  <2> HIDE DEF T, x
  <2>3. Good(jt[s])
    BY <1>0, <2>1, <2>2, DeliverKeeps
  <2> QED BY <2>3
<1>9. jt[1 .. n] \in W[1 .. n]
  <2> HIDE DEF W
  <2> QED BY <1>0, <1>7, <1>8, SeqFoldStays
<1> QED BY <1>5, <1>9

\* multiline.rs close.
LEMMA CloseKeeps ==
  ASSUME NEW S, Good(S), NEW u \in User, S.batches[u] # None
  PROVE  Good(close(S, u))
<1> DEFINE b == S.batches[u]
           A == [S EXCEPT !.batches[u] = None]
           lines == LogicalLines(b.parts)
<1>1. b \in Batch /\ b.parts \in Seq(PartRec)
  BY DEF Good, Disc, Batch
<1>2. close(S, u) \in {A, Delivered(A, u, b, lines)}
  BY Zenon DEF close, Delivered
<1>3. lines \in Seq(Text)
  BY <1>1, LinesFacts
<1>4. Good(A)
  BY BatchKeeps
<1> HIDE DEF A, b, lines
<1> QED BY <1>1, <1>2, <1>3, <1>4, DeliveredKeeps

\* multiline.rs: a line joins the batch.
LEMMA AccumulateKeeps ==
  ASSUME NEW S, Good(S), NEW u \in User, S.batches[u] # None,
         NEW x \in Text, NEW concat \in BOOLEAN, NEW notice \in BOOLEAN
  PROVE  Good(accumulate(S, u, x, concat, notice))
<1> DEFINE b == S.batches[u]
           p == [text |-> x, concat |-> concat]
           ps == Append(b.parts, p)
           c == [b EXCEPT !.parts = ps, !.notice = notice]
           d == [b EXCEPT !.overflowed = TRUE]
<1>1. b \in Batch
  BY DEF Good, Disc
<1>2. accumulate(S, u, x, concat, notice) \in
          {[S EXCEPT !.batches[u] = c], [S EXCEPT !.batches[u] = d]}
  BY Zenon DEF accumulate
<1> HIDE DEF b
<1>3. ps \in Seq(PartRec)
  <2>1. p \in PartRec /\ b.parts \in Seq(PartRec)
    BY <1>1 DEF PartRec, Batch
  <2> HIDE DEF p
  <2> QED BY <2>1
<1> HIDE DEF ps
<1>4. c \in Batch /\ d \in Batch
  BY <1>1, <1>3 DEF Batch
<1> HIDE DEF c, d
<1> QED BY <1>2, <1>4, BatchKeeps

-----------------------------------------------------------------------------
(* The actions.                                                            *)

\* The variables of the state record.
LEMMA StateFacts ==
  /\ State.users = users /\ State.rooms = rooms /\ State.index = index
  /\ State.history = history /\ State.batches = batches /\ State.now = clock
  /\ State.log = log /\ State.shown = shown /\ State.told = told
BY DEF State

\* A step to a good state that leaves what is played.
GoodStep == Good(State)' /\ UNCHANGED setup

\* What a handler leaves is the next state.
LEMMA BecomesGood ==
  ASSUME NEW R, Good(R), Becomes(R)
  PROVE  GoodStep
<1>1. DOMAIN R = StateField
  BY DEF Good, Pres, Shaped
<1>2. /\ users' = R.users /\ rooms' = R.rooms /\ index' = R.index /\ history' = R.history
      /\ batches' = R.batches /\ clock' = R.now /\ log' = R.log /\ shown' = R.shown
      /\ told' = R.told
  BY DEF Becomes
<1> DEFINE T == [users |-> users', rooms |-> rooms', index |-> index', history |-> history',
                 batches |-> batches', now |-> clock', log |-> log', shown |-> shown',
                 told |-> told']
<1>3. /\ DOMAIN T = StateField
      /\ T.users = R.users /\ T.rooms = R.rooms /\ T.index = R.index /\ T.history = R.history
      /\ T.batches = R.batches /\ T.now = R.now /\ T.log = R.log /\ T.shown = R.shown
      /\ T.told = R.told
  BY <1>2 DEF StateField
<1> HIDE DEF T
<1>4. Frame(R, T)
  BY <1>1, <1>3 DEF Frame, SamePres, SameDisc, Good, Pres, Shaped
<1>5. Good(T)
  BY <1>4, GoodFrame
<1>6. T = State'
  BY DEF T, State
<1>7. UNCHANGED setup
  BY DEF Becomes
<1> QED BY <1>5, <1>6, <1>7 DEF GoodStep

\* Connections: ircd.rs handle_event, QUIT and the idle check.
LEMMA ConnectionActs ==
  ASSUME Good(State), NEW u \in User, Connect(u) \/ Register(u) \/ Quit(u) \/ Hush(u) \/ Pong(u)
  PROVE  GoodStep
<1>1. ASSUME Connect(u) PROVE GoodStep
  <2>1. State.users[u].phase = "out" /\ Becomes(Put(State, u, "phase", "new"))
    BY <1>1 DEF Connect, Connected
  <2>2. Good(Put(State, u, "phase", "new"))
    BY <2>1, ConnectKeeps
  <2> QED BY <2>1, <2>2, BecomesGood
<1>2. ASSUME Register(u) PROVE GoodStep
  <2>1. State.users[u].nick # None /\ Becomes(welcome(State, u))
    BY <1>2 DEF Register, NickOf
  <2>2. Good(welcome(State, u))
    BY <2>1, WelcomeKeeps
  <2> QED BY <2>1, <2>2, BecomesGood
<1>3. ASSUME Quit(u) PROVE GoodStep
  <2>1. Becomes(quit_user(State, u))
    BY <1>3 DEF Quit
  <2>2. Good(quit_user(State, u))
    BY QuitKeeps
  <2> QED BY <2>1, <2>2, BecomesGood
<1>4. ASSUME Pong(u) PROVE GoodStep
  <2>1. Becomes(Handled(State, u))
    BY <1>4 DEF Pong
  <2>2. Good(Handled(State, u))
    BY HandledKeeps
  <2> QED BY <2>1, <2>2, BecomesGood
<1>5. ASSUME Hush(u) PROVE GoodStep
  <2>1. Becomes(Put(State, u, "hushed", TRUE))
    BY <1>5 DEF Hush
  <2>2. "hushed" \in UserField \ CoreField /\ Shaped(State)
    BY DEF UserField, CoreField, Good, Pres
  <2>3. Good(Put(State, u, "hushed", TRUE))
    BY <2>2, PutFrame, GoodFrame
  <2> QED BY <2>1, <2>3, BecomesGood
<1> QED BY <1>1, <1>2, <1>3, <1>4, <1>5

\* NICK.
LEMMA NickActs ==
  ASSUME Good(State), NEW u \in User, NEW n \in Nick, Nick_handle(u, n)
  PROVE  GoodStep
<1>1. /\ State.users[u].phase # "out" /\ State.index.nick[n] = None
      /\ Becomes(Handled(set_nick(State, u, n), u))
  BY DEF Nick_handle, Connected, find_nick
<1>2. Good(set_nick(State, u, n))
  BY <1>1, SetNickKeeps
<1>3. Good(Handled(set_nick(State, u, n), u))
  BY <1>2, HandledKeeps
<1> QED BY <1>1, <1>3, BecomesGood

\* Messages: PRIVMSG, NOTICE, TAGMSG and RELAYMSG, and those of other servers.
LEMMA MessageActs ==
  ASSUME Good(State), NEW u, NEW t, NEW c, NEW x, NEW notice, NEW ops,
         \/ u \in User /\ t \in Nick \cup Chan /\ (Say(u, t, x, notice) \/ Tag(u, t))
         \/ u \in User /\ c \in Chan /\ RelayMsg(u, c)
         \/ t \in Nick \cup Chan /\ ops \in BOOLEAN /\ link_message_recv(t, ops)
  PROVE  GoodStep
<1>1. ASSUME u \in User, t \in Nick \cup Chan, Say(u, t, x, notice) PROVE GoodStep
  <2> DEFINE v == PreMessage(State, u, t, x)
             D == deliver(v.S, u, t, x, notice)
  <2>1. Becomes(IF ~v.go \/ ~Registered(v.S, u) THEN v.S ELSE Handled(D, u))
    BY <1>1 DEF Say
  <2>2. Good(v.S)
    BY <1>1, PreMessageKeeps
  <2> HIDE DEF v
  <2>3. Good(D)
    BY <1>1, <2>2, DeliverKeeps
  <2> HIDE DEF D
  <2>4. Good(Handled(D, u))
    BY <1>1, <2>3, HandledKeeps
  <2>5. Becomes(v.S) \/ Becomes(Handled(D, u))
    BY <2>1
  <2> QED BY <2>2, <2>4, <2>5, BecomesGood
<1>2. ASSUME u \in User, t \in Nick \cup Chan, Tag(u, t) PROVE GoodStep
  <2>1. Becomes(Handled(TagMsg(State, u, t), u))
    BY <1>2 DEF Tag
  <2>2. Good(TagMsg(State, u, t))
    BY <1>2, TagKeeps
  <2>3. Good(Handled(TagMsg(State, u, t), u))
    BY <1>2, <2>2, HandledKeeps
  <2> QED BY <2>1, <2>3, BecomesGood
<1>3. ASSUME u \in User, c \in Chan, RelayMsg(u, c) PROVE GoodStep
  <2> DEFINE A == next_msgid(State, LogEntry(ChanKey(c), u, FALSE, {}))
  <2>1. Becomes(Show(A, {ThisId(A)}, MembersOf(A, c)))
    BY <1>3 DEF RelayMsg
  <2>2. /\ A = next_msgid(State, LogEntry(ChanKey(c), u, FALSE, {}))
        /\ ChanKey(c) \in SUBSET (Nick \cup Chan \cup {None})
    BY <1>3 DEF ChanKey
  <2> HIDE DEF A
  <2>3. Good(A) /\ Open_in(A, ChanKey(c), ThisId(A))
    BY <1>3, <2>2, PlainFresh
  <2>4. Good(Show(A, {ThisId(A)}, MembersOf(A, c)))
    BY <2>3, PlainShown
  <2> QED BY <2>1, <2>4, BecomesGood
<1>4. ASSUME t \in Nick \cup Chan, ops \in BOOLEAN, link_message_recv(t, ops) PROVE GoodStep
  <2> DEFINE to == IF t \in Chan THEN {m \in MembersOf(State, t) : ~Umode(m, "D")}
                   ELSE {find_nick(State, t)} \ {None}
             see == IF ops THEN HalfOps(State, t) ELSE {}
             e == [LogEntry({t}, None, ops, see) EXCEPT !.reached = to]
             A == next_msgid(State, e)
  <2>1. Becomes(Show(A, {ThisId(A)}, to))
    BY <1>4 DEF link_message_recv
  <2>2. Shaped(State) /\ Disc(State) /\ Pres(State)
    BY DEF Good, Pres
  <2>3. to \in SUBSET User /\ see \in SUBSET User
    <3>1. CASE t \in Chan
      BY <3>1 DEF MembersOf, HalfOps
    <3>2. CASE t \notin Chan
      <4>1. find_nick(State, t) \in User \cup {None}
        BY <1>4, <2>2, <3>2 DEF Pres, Peopled, find_nick
      <4>2. ~ops
        BY <1>4, <3>2 DEF link_message_recv
      <4> QED BY <3>2, <4>1, <4>2
    <3> QED BY <3>1, <3>2
  <2> HIDE DEF to, see
  <2>4. e \in LogRec /\ ~e.redacted /\ to \subseteq Sees(e)
    BY <1>4, <2>3 DEF LogEntry, LogRec, Sees
  <2>5. A = next_msgid(State, e)
    OBVIOUS
  <2> HIDE DEF A, e
  <2>6. /\ Spoken(State, A) /\ Shaped(A) /\ Disc(A) /\ ThisId(A) \in 1 .. Len(A.log)
        /\ A.log[ThisId(A)] = e
    BY <2>2, <2>4, <2>5, FreshFacts
  <2>7. Spoken(A, Show(A, {ThisId(A)}, to))
    BY <2>4, <2>6, ShowKeeps
  <2>8. Good(Show(A, {ThisId(A)}, to))
    BY <2>2, <2>6, <2>7, SpokenTrans, SpokenGood
  <2> QED BY <2>1, <2>8, BecomesGood
<1> QED BY <1>1, <1>2, <1>3, <1>4

\* multiline.rs.
LEMMA BatchActs ==
  ASSUME Good(State), NEW u \in User, NEW t, NEW x, NEW concat, NEW notice,
         \/ t \in Nick \cup Chan /\ Open(u, t)
         \/ x \in Text /\ concat \in BOOLEAN /\ notice \in BOOLEAN /\ BatchLine(u, x, concat, notice)
         \/ Close(u)
  PROVE  GoodStep
<1>1. ASSUME t \in Nick \cup Chan, Open(u, t) PROVE GoodStep
  <2> DEFINE b == [target |-> t, notice |-> FALSE, parts |-> <<>>, overflowed |-> FALSE]
             A == [State EXCEPT !.batches[u] = b]
  <2>1. Becomes(Handled(A, u))
    BY <1>1 DEF Open
  <2>2. b \in Batch
    BY <1>1 DEF Batch
  <2> HIDE DEF b
  <2>3. Good(A)
    BY <2>2, BatchKeeps
  <2> HIDE DEF A
  <2>4. Good(Handled(A, u))
    BY <2>3, HandledKeeps
  <2> QED BY <2>1, <2>4, BecomesGood
<1>2. ASSUME x \in Text, concat \in BOOLEAN, notice \in BOOLEAN, BatchLine(u, x, concat, notice)
      PROVE  GoodStep
  <2>1. State.batches[u] # None /\ Becomes(accumulate(State, u, x, concat, notice))
    BY <1>2, StateFacts DEF BatchLine
  <2>2. Good(accumulate(State, u, x, concat, notice))
    BY <1>2, <2>1, AccumulateKeeps
  <2> QED BY <2>1, <2>2, BecomesGood
<1>3. ASSUME Close(u) PROVE GoodStep
  <2> DEFINE A == close(State, u)
  <2>1. State.batches[u] # None /\ Becomes(IF Connected(A, u) THEN Handled(A, u) ELSE A)
    BY <1>3, StateFacts DEF Close
  <2>2. Good(A)
    BY <2>1, CloseKeeps
  <2> HIDE DEF A
  <2>3. Good(Handled(A, u))
    BY <2>2, HandledKeeps
  <2>4. Becomes(Handled(A, u)) \/ Becomes(A)
    BY <2>1
  <2> QED BY <2>2, <2>3, <2>4, BecomesGood
<1> QED BY <1>1, <1>2, <1>3

\* The members of a channel: JOIN, PART and MODE.
LEMMA ChannelActs ==
  ASSUME Good(State), NEW u \in User, NEW c \in Chan, NEW r,
         Join(u, c) \/ Part(u, c) \/ Rerank(u, c, r)
  PROVE  GoodStep
<1>1. ASSUME Join(u, c) PROVE GoodStep
  <2> DEFINE m == NewMember(clock, IF MembersOf(State, c) = {} THEN RANK_OP ELSE 0)
             rs == [State.rooms EXCEPT ![<<c, u>>] = m]
             A == [State EXCEPT !.rooms = rs]
             B == replay_chanhistory(A, u, c)
             D == record_event(B, ChanKey(c), NickOf(A, u))
  <2>1. Becomes(Handled(D, u))
    BY <1>1, Zenon DEF Join
  <2> HIDE DEF rs
  <2>2. Good(A)
    BY RoomsFrame
  <2> HIDE DEF A
  <2>3. Good(B) /\ NickOf(A, u) \in Nick \cup {None}
    BY <2>2, BacklogKeeps, SpokenGood, NickType DEF Good, Pres
  <2> HIDE DEF B
  <2>4. Good(D)
    BY <2>3, EventKeeps
  <2> HIDE DEF D
  <2>5. Good(Handled(D, u))
    BY <2>4, HandledKeeps
  <2> QED BY <2>1, <2>5, BecomesGood
<1>2. ASSUME Part(u, c) PROVE GoodStep
  <2> DEFINE D == record_event(Leave(State, u, c), ChanKey(c), NickOf(State, u))
  <2>1. Becomes(Handled(D, u))
    BY <1>2 DEF Part
  <2>2. NickOf(State, u) \in Nick \cup {None}
    BY NickType
  <2>3. Good(D)
    BY <2>2, LeaveKeeps
  <2> HIDE DEF D
  <2>4. Good(Handled(D, u))
    BY <2>3, HandledKeeps
  <2> QED BY <2>1, <2>4, BecomesGood
<1>3. ASSUME Rerank(u, c, r) PROVE GoodStep
  <2> DEFINE A == PutMember(State, c, u, "rank", r)
             D == record_event(A, ChanKey(c), None)
  <2>1. Becomes(D)
    BY <1>3 DEF Rerank
  <2>2. Good(A)
    BY PutMemberKeeps
  <2> HIDE DEF A
  <2>3. Good(D)
    BY <2>2, EventKeeps
  <2> HIDE DEF D
  <2> QED BY <2>1, <2>3, BecomesGood
<1> QED BY <1>1, <1>2, <1>3

-----------------------------------------------------------------------------
(* The histories and the lists.                                            *)

\* chathistory.rs and REDACT, here and on another server.
LEMMA HistoryActs ==
  ASSUME Good(State), NEW u, NEW c, NEW i, NEW k, NEW sub, NEW a, NEW b, NEW limit,
         \/ u \in User /\ limit \in Nat /\ ChatHistory(u, k, sub, a, b, limit)
         \/ u \in User /\ c \in Chan /\ i \in 1 .. Len(log) /\ Redact(u, c, i)
         \/ c \in Chan /\ i \in 1 .. Len(log) /\ link_redact(c, i)
  PROVE  GoodStep
<1>0. Shaped(State) /\ Disc(State) /\ Pres(State) /\ Peopled(State)
  BY DEF Good, Pres
<1>1. ASSUME u \in User, limit \in Nat, ChatHistory(u, k, sub, a, b, limit) PROVE GoodStep
  <2> DEFINE A == Show(State, Playable(u, Picked(State.history[k],
                                 Slice(State.history[k], sub, a, b, limit))), {u})
  <2>1. k \in Readable(u) /\ Registered(State, u) /\ Becomes(Handled(A, u))
    BY <1>1, StateFacts DEF ChatHistory, Speaks
  <2>2. NickOf(State, u) \in Nick
    BY <1>0, <1>1, <2>1 DEF Peopled, NickOf, Registered
  <2>3. k \in Key
    BY <2>1, <2>2 DEF Readable, Key, Joined
  <2>4. Spoken(State, A)
    BY <1>0, <1>1, <2>3, ChatHistoryKeeps
  <2> HIDE DEF A
  <2>5. Good(A)
    BY <1>0, <2>4, SpokenGood
  <2>6. Good(Handled(A, u))
    BY <1>1, <2>5, HandledKeeps
  <2> QED BY <2>1, <2>6, BecomesGood
<1> DEFINE R == MarkRedacted(forget(State, ChanKey(c), i), i)
<1>2. ASSUME c \in Chan, i \in 1 .. Len(log), State.log[i].to = ChanKey(c) PROVE Good(R)
  <2>1. i \in 1 .. Len(State.log) /\ ChanKey(c) \in Key
    BY <1>2, StateFacts DEF Key
  <2> QED BY <1>0, <1>2, <2>1, RedactKeeps, SpokenGood
<1>3. ASSUME u \in User, c \in Chan, i \in 1 .. Len(log), Redact(u, c, i) PROVE GoodStep
  <2>1. Becomes(Handled(R, u))
    BY <1>3 DEF Redact
  <2>2. PICK j \in DOMAIN State.history[ChanKey(c)] : State.history[ChanKey(c)][j].id = i
    BY <1>3, StateFacts DEF Redact
  <2>3. ChanKey(c) \in Key /\ j \in 1 .. Len(State.history[ChanKey(c)])
    BY <1>0, <1>3, <2>2 DEF Disc, Key
  <2>4. Open_in(State, ChanKey(c), i)
    BY <1>0, <2>2, <2>3 DEF Disc
  <2>5. Good(R)
    BY <1>2, <1>3, <2>4 DEF Open_in
  <2> HIDE DEF R
  <2>6. Good(Handled(R, u))
    BY <1>3, <2>5, HandledKeeps
  <2> QED BY <2>1, <2>6, BecomesGood
<1>4. ASSUME c \in Chan, i \in 1 .. Len(log), link_redact(c, i) PROVE GoodStep
  <2>1. Becomes(R) /\ State.log[i].to = ChanKey(c)
    BY <1>4, StateFacts DEF link_redact
  <2>2. Good(R)
    BY <1>2, <1>4, <2>1
  <2> HIDE DEF R
  <2> QED BY <2>1, <2>2, BecomesGood
<1> QED BY <1>1, <1>3, <1>4

\* chathistory.rs on_tick: old conversations are dropped.
LEMMA TickActs ==
  ASSUME Good(State), on_tick
  PROVE  GoodStep
<1> DEFINE Fresh(buf) == buf # <<>> /\ clock + 1 - Last(buf).ts < MaxAge
           h == [k \in Key |-> IF Fresh(history[k]) THEN history[k] ELSE <<>>]
           T == [State EXCEPT !.now = @ + 1, !.history = h]
<1>1. Becomes(T)
  BY DEF on_tick
<1>2. \A k \in Key : h[k] = State.history[k] \/ h[k] = <<>>
  BY StateFacts
<1>3. h \in [Key -> Seq(HistRec)]
  <2>1. \A k \in Key : h[k] \in Seq(HistRec)
    BY <1>2 DEF Good, Disc
  <2>2. h = [k \in Key |-> h[k]]
    OBVIOUS
  <2> HIDE DEF h
  <2> QED BY <2>1, <2>2
<1> HIDE DEF h
<1>4. T = [[State EXCEPT !.now = State.now + 1] EXCEPT !.history = h]
  OBVIOUS
<1> HIDE DEF T
<1>5. /\ DOMAIN T = StateField /\ T.now = State.now + 1 /\ T.history = h
      /\ T.users = State.users /\ T.index = State.index /\ T.told = State.told
      /\ T.batches = State.batches /\ T.log = State.log /\ T.shown = State.shown
  <2>1. DOMAIN State = StateField
    BY DEF Good, Pres, Shaped
  <2> QED BY <1>4, <2>1 DEF StateField
<1>6. SamePres(State, T)
  BY <1>5 DEF SamePres, Good, Pres, Shaped
<1>7. ASSUME NEW k \in Key, NEW j \in 1 .. Len(T.history[k])
      PROVE  Open_in(T, k, T.history[k][j].id)
  <2>1. T.history[k] = State.history[k]
    BY <1>2, <1>5, <1>7
  <2> QED BY <1>5, <1>7, <2>1 DEF Good, Disc, Open_in
<1>8. /\ T.log \in Seq(LogRec) /\ T.now \in Nat /\ T.batches \in [User -> Batch \cup {None}]
      /\ \A x \in T.shown : /\ x[2] \in 1 .. Len(T.log) /\ ~x[3]
                            /\ T.log[x[2]].ops => x[1] \in Sees(T.log[x[2]])
  BY <1>5 DEF Good, Disc
<1>9. Disc(T)
  BY <1>3, <1>5, <1>7, <1>8 DEF Disc
<1>10. Good(T)
  BY <1>6, <1>9, PresFrame DEF Good
<1> QED BY <1>1, <1>10, BecomesGood

\* What is still to be answered: the nicks N of u's MONITOR list.
Pending(S, u, N) == \A k \in Lists, w \in User : \A m \in S.users[w][k] :
    Known(S, k, w, m) \/ (k = "monitor" /\ w = u /\ m \in N)

\* A nick is put on a MONITOR list.
LEMMA MonitorAddStep ==
  ASSUME NEW S, Base(S), NEW u \in User, NEW N, Pending(S, u, N), NEW n \in Nick,
         NEW T, T = monitor_add(S, u, n)
  PROVE  Base(T) /\ Pending(T, u, N \cup {n}) /\ SameDisc(S, T)
<1>1. CASE T = S
  BY <1>1 DEF Pending, SameDisc
<1>2. CASE T = index_add(S, "monitor", u, n)
  <2>0. "monitor" \in Lists
    BY DEF Lists
  <2>1. ListStep(S, T, "monitor", u, S.users[u]["monitor"] \cup {n})
    <3>1. ListStep(S, index_add(S, "monitor", u, n), "monitor", u,
                   S.users[u]["monitor"] \cup {n})
      BY <2>0, IndexSteps
    <3> QED BY <1>2, <3>1
  <2>2. S.users[u]["monitor"] \cup {n} \in SUBSET Nick
    BY <2>0 DEF Base, Peopled
  <2>3. /\ Base(T)
        /\ \A k \in Lists, w \in User, m \in Nick : Known(S, k, w, m) => Known(T, k, w, m)
    BY <2>0, <2>1, <2>2, ListStepKeeps
  <2>4. ASSUME NEW k \in Lists, NEW w \in User, NEW m \in T.users[w][k]
        PROVE  Known(T, k, w, m) \/ (k = "monitor" /\ w = u /\ m \in N \cup {n})
    <3>1. m \in S.users[w][k] \/ (k = "monitor" /\ w = u /\ m = n)
      BY <2>1 DEF ListStep
    <3>2. m \in Nick
      BY <2>3 DEF Base, Peopled
    <3> QED BY <2>3, <3>1, <3>2 DEF Pending
  <2> QED BY <2>1, <2>3, <2>4 DEF Pending, ListStep
<1>3. T = S \/ T = index_add(S, "monitor", u, n)
  BY Zenon DEF monitor_add, monitor_index_add
<1> QED BY <1>1, <1>2, <1>3

\* core_watch.rs: MONITOR +.
LEMMA MonitorKeeps ==
  ASSUME NEW S, Good(S), NEW u \in User, NEW n \in Nick, NEW m \in Nick,
         NEW A, A = monitor_add(monitor_add(S, u, n), u, m)
  PROVE  Good(Answer(A, "monitor", u, {n, m} \cap A.users[u].monitor))
<1> DEFINE B == monitor_add(S, u, n)
           T == Answer(A, "monitor", u, {n, m} \cap A.users[u].monitor)
<1>0. Base(S) /\ Pending(S, u, {}) /\ Disc(S) /\ "monitor" \in Lists
  BY PresBase DEF Good, Knowing, Pending, Lists
<1>1. A = monitor_add(B, u, m)
  OBVIOUS
<1>2. Base(B) /\ Pending(B, u, {} \cup {n}) /\ SameDisc(S, B)
  BY <1>0, MonitorAddStep
<1> HIDE DEF B
<1>3. Base(A) /\ Pending(A, u, {} \cup {n} \cup {m}) /\ SameDisc(B, A)
  BY <1>1, <1>2, MonitorAddStep
<1>4. Disc(A)
  BY <1>0, <1>2, <1>3, DiscFrame
<1>5. ASSUME NEW k \in Lists, NEW w \in User, NEW p \in A.users[w][k]
      PROVE  Known(A, k, w, p) \/ (k = "monitor" /\ w = u /\ p \in {n, m} \cap A.users[u].monitor)
  BY <1>3 DEF Pending
<1>6. Pres(T) /\ SameDisc(A, T)
  BY <1>0, <1>3, <1>5, AnswerKeeps
<1> HIDE DEF T
<1>7. Good(T)
  BY <1>4, <1>6, DiscFrame DEF Good
<1> QED BY <1>7 DEF T

\* core_watch.rs: WATCH and MONITOR.
LEMMA WatchActs ==
  ASSUME Good(State), NEW u \in User, NEW n, NEW m, NEW l,
         \/ n \in Nick /\ (Watch(u, n) \/ Unwatch(u, n) \/ Unmonitor(u, n))
         \/ n \in Nick /\ m \in Nick /\ Monitor(u, n, m)
         \/ ClearWatch(u) \/ ClearMonitor(u)
         \/ l \in Lists /\ Report(u, l)
  PROVE  GoodStep
<1>0. Pres(State) /\ Disc(State) /\ Base(State) /\ Knowing(State) /\ {"watch", "monitor"} \subseteq Lists
  BY PresBase DEF Good, Lists
<1>1. ASSUME NEW R, Pres(R), SameDisc(State, R) PROVE Good(Handled(R, u))
  BY <1>0, <1>1, DiscFrame, HandledKeeps DEF Good
<1>2. ASSUME n \in Nick, Watch(u, n) PROVE GoodStep
  <2> DEFINE A == watch_add(State, u, n)
  <2>1. Becomes(Handled(A, u))
    BY <1>2 DEF Watch
  <2>2. Pres(A) /\ SameDisc(State, A)
    BY <1>0, <1>2, WatchAddKeeps
  <2> HIDE DEF A
  <2> QED BY <1>1, <2>1, <2>2, BecomesGood
<1>3. ASSUME n \in Nick, Unwatch(u, n) PROVE GoodStep
  <2> DEFINE A == index_remove(State, "watch", u, n)
  <2>1. Becomes(Handled(A, u))
    BY <1>3 DEF Unwatch, watch_index_remove
  <2>2. Pres(A) /\ SameDisc(State, A)
    BY <1>0, <1>3, IndexRemoveKeeps
  <2> HIDE DEF A
  <2> QED BY <1>1, <2>1, <2>2, BecomesGood
<1>4. ASSUME ClearWatch(u) PROVE GoodStep
  <2> DEFINE A == index_clear(State, "watch", u)
  <2>1. Becomes(Handled(A, u))
    BY <1>4 DEF ClearWatch, watch_index_clear
  <2>2. Pres(A) /\ SameDisc(State, A)
    BY <1>0, IndexRemoveKeeps
  <2> HIDE DEF A
  <2> QED BY <1>1, <2>1, <2>2, BecomesGood
<1>5. ASSUME n \in Nick, m \in Nick, Monitor(u, n, m) PROVE GoodStep
  <2> DEFINE A == monitor_add(monitor_add(State, u, n), u, m)
             B == Answer(A, "monitor", u, {n, m} \cap A.users[u].monitor)
  <2>1. Becomes(Handled(B, u)) /\ A = monitor_add(monitor_add(State, u, n), u, m)
    BY <1>5 DEF Monitor
  <2> HIDE DEF A
  <2>2. Good(B)
    BY <1>5, <2>1, MonitorKeeps
  <2> HIDE DEF B
  <2>3. Good(Handled(B, u))
    BY <2>2, HandledKeeps
  <2> QED BY <2>1, <2>3, BecomesGood
<1>6. ASSUME n \in Nick, Unmonitor(u, n) PROVE GoodStep
  <2> DEFINE A == index_remove(State, "monitor", u, n)
  <2>1. Becomes(Handled(A, u))
    BY <1>6 DEF Unmonitor, monitor_index_remove
  <2>2. Pres(A) /\ SameDisc(State, A)
    BY <1>0, <1>6, IndexRemoveKeeps
  <2> HIDE DEF A
  <2> QED BY <1>1, <2>1, <2>2, BecomesGood
<1>7. ASSUME ClearMonitor(u) PROVE GoodStep
  <2> DEFINE A == index_clear(State, "monitor", u)
  <2>1. Becomes(Handled(A, u))
    BY <1>7 DEF ClearMonitor, monitor_index_clear
  <2>2. Pres(A) /\ SameDisc(State, A)
    BY <1>0, IndexRemoveKeeps
  <2> HIDE DEF A
  <2> QED BY <1>1, <2>1, <2>2, BecomesGood
<1>8. ASSUME l \in Lists, Report(u, l) PROVE GoodStep
  <2> DEFINE ns == State.users[u][l]
             A == Answer(State, l, u, ns)
  <2>1. Becomes(Handled(A, u))
    BY <1>8, StateFacts DEF Report
  <2> HIDE DEF ns
  <2>2. Pres(A) /\ SameDisc(State, A)
    <3>1. \A k \in Lists, w \in User : \A p \in State.users[w][k] :
              Known(State, k, w, p) \/ (k = l /\ w = u /\ p \in ns)
      BY <1>0 DEF Knowing
    <3> QED BY <1>0, <1>8, <3>1, AnswerKeeps
  <2> HIDE DEF A
  <2> QED BY <1>1, <2>1, <2>2, BecomesGood
<1> QED BY <1>2, <1>3, <1>4, <1>5, <1>6, <1>7, <1>8

\* ACCEPT, SILENCE, SIGNORE and DCCALLOW.
LEMMA ListActs ==
  ASSUME Good(State), NEW u \in User, NEW n \in Nick,
         \/ Accept(u, n) \/ Unaccept(u, n) \/ Silence(u, n) \/ Unsilence(u, n)
         \/ Signore(u, n) \/ Unsignore(u, n) \/ Dccallow(u, n) \/ Undccallow(u, n)
  PROVE  GoodStep
<1>0. Pres(State) /\ Disc(State)
  BY DEF Good
<1>1. ASSUME Accept(u, n) PROVE GoodStep
  <2> DEFINE A == accept_add(State, u, n)
  <2>1. Becomes(Handled(A, u))
    BY <1>1 DEF Accept
  <2>2. Good(A)
    BY <1>0, AcceptAddKeeps, DiscFrame DEF Good
  <2> HIDE DEF A
  <2>3. Good(Handled(A, u))
    BY <2>2, HandledKeeps
  <2> QED BY <2>1, <2>3, BecomesGood
<1>2. ASSUME Unaccept(u, n) PROVE GoodStep
  <2> DEFINE A == accept_remove(State, u, n)
  <2>1. Becomes(Handled(A, u))
    BY <1>2 DEF Unaccept
  <2>2. Good(A)
    BY <1>0, AcceptRemoveKeeps, DiscFrame DEF Good
  <2> HIDE DEF A
  <2>3. Good(Handled(A, u))
    BY <2>2, HandledKeeps
  <2> QED BY <2>1, <2>3, BecomesGood
<1>3. ASSUME NEW f \in {"silence", "signore", "dcc"}, NEW v
      PROVE  Good(Handled(Put(State, u, f, v), u))
  <2>1. f \in UserField \ CoreField
    BY DEF UserField, CoreField
  <2>2. Good(Put(State, u, f, v))
    BY <2>1, PutKeeps
  <2> QED BY <2>2, HandledKeeps
<1>4. ASSUME Silence(u, n) \/ Unsilence(u, n) \/ Signore(u, n) \/ Unsignore(u, n)
             \/ Dccallow(u, n) \/ Undccallow(u, n)
      PROVE  GoodStep
  <2>1. PICK f \in {"silence", "signore", "dcc"} :
           \/ Becomes(Handled(Put(State, u, f, users[u][f] \cup {n}), u))
           \/ Becomes(Handled(Put(State, u, f, users[u][f] \ {n}), u))
    BY <1>4 DEF Silence, Unsilence, Signore, Unsignore, Dccallow, Undccallow
  <2>2. /\ Good(Handled(Put(State, u, f, users[u][f] \cup {n}), u))
        /\ Good(Handled(Put(State, u, f, users[u][f] \ {n}), u))
    BY <1>3
  <2> QED BY <2>1, <2>2, BecomesGood
<1> QED BY <1>1, <1>2, <1>4

-----------------------------------------------------------------------------
(* The theorems.                                                           *)

\* The invariant is inductive: the state is good, and what is played was chosen
\* at the start.
IInv == Good(State) /\ setup \in Setups

\* Whoever is online at the start is registered by its nick.
LEMMA InitGood == Init => IInv
<1> SUFFICES ASSUME Init PROVE IInv
  OBVIOUS
<1>0. setup \in Setups
  BY Zenon DEF Init
<1>1. /\ setup.online \in [User -> Nick \cup {None}]
      /\ \A u, v \in User : u # v /\ setup.online[u] # None => setup.online[u] # setup.online[v]
  BY <1>0, MessagesAssumption, Zenon
<1>2. None \notin User \cup Nick
  BY MessagesAssumption
<1> DEFINE nk == setup.online
           us == [u \in User |-> IF nk[u] = None THEN NewUser
                                 ELSE [NewUser EXCEPT !.phase = "in", !.nick = nk[u]]]
<1>3. /\ DOMAIN State = StateField
      /\ State.users = us /\ State.index = index /\ State.told = told /\ State.log = <<>>
      /\ State.history = [k \in Key |-> <<>>] /\ State.batches = [u \in User |-> None]
      /\ State.now = 1 /\ State.shown = {}
  <2>1. DOMAIN State = StateField
    BY DEF State, StateField
  <2>2. users = us
    BY Zenon DEF Init
  <2>3. /\ log = <<>> /\ history = [k \in Key |-> <<>>] /\ batches = [u \in User |-> None]
        /\ clock = 1 /\ shown = {}
    BY Zenon DEF Init
  <2> HIDE DEF us
  <2> QED BY <2>1, <2>2, <2>3, StateFacts
<1>4. ASSUME NEW u \in User
      PROVE  /\ DOMAIN us[u] = UserField /\ us[u].accept = <<>> /\ us[u].nick = nk[u]
             /\ us[u].watch = {} /\ us[u].monitor = {}
             /\ us[u].phase = IF nk[u] = None THEN "out" ELSE "in"
  <2>1. CASE nk[u] = None
    BY <2>1 DEF NewUser, UserField
  <2>2. CASE nk[u] # None
    BY <2>2 DEF NewUser, UserField
  <2> QED BY <2>1, <2>2
<1>5. DOMAIN us = User
  OBVIOUS
<1> HIDE DEF us
<1>6. /\ DOMAIN index = IndexField
      /\ index.nick = [n \in Nick |-> IF \E u \in User : nk[u] = n
                                      THEN CHOOSE u \in User : nk[u] = n ELSE None]
      /\ index.accepted = [n \in Nick |-> 0]
      /\ index.watch = [n \in Nick |-> {}] /\ index.monitor = [n \in Nick |-> {}]
      /\ told = [x \in Lists \X User \X Nick |-> "none"]
  <2> DEFINE nf == [n \in Nick |-> IF \E u \in User : nk[u] = n
                                    THEN CHOOSE u \in User : nk[u] = n ELSE None]
  <2>1. /\ index = [nick |-> nf, accepted |-> [n \in Nick |-> 0],
                     watch |-> [n \in Nick |-> {}], monitor |-> [n \in Nick |-> {}]]
        /\ told = [x \in Lists \X User \X Nick |-> "none"]
    BY Zenon DEF Init
  <2>2. index.nick = nf
    <3> HIDE DEF nf
    <3> QED BY <2>1
  <2> QED BY <2>1, <2>2 DEF IndexField
<1>7. ASSUME NEW n \in Nick
      PROVE  /\ index.nick[n] \in User \cup {None}
             /\ \A u \in User : index.nick[n] = u <=> nk[u] = n
  <2>1. CASE \E u \in User : nk[u] = n
    <3>1. index.nick[n] \in User /\ nk[index.nick[n]] = n
      BY <1>6, <2>1
    <3> QED BY <1>1, <1>2, <3>1
  <2>2. CASE ~ \E u \in User : nk[u] = n
    <3>1. index.nick[n] = None
      BY <1>6, <2>2
    <3> QED BY <1>2, <2>2, <3>1
  <2> QED BY <2>1, <2>2
<1>8. Shaped(State)
  BY <1>3, <1>4, <1>5, <1>6 DEF Shaped, IndexField
<1> HIDE DEF nk
<1>9. Peopled(State)
  <2>1. nk \in [User -> Nick \cup {None}]
    BY <1>1 DEF nk
  <2>2. ASSUME NEW u \in User
        PROVE  /\ State.users[u].phase \in {"out", "new", "in"}
               /\ State.users[u].nick \in Nick \cup {None}
               /\ State.users[u].phase = "out" => State.users[u].nick = None
               /\ State.users[u].phase = "in" => State.users[u].nick # None
    BY <1>3, <1>4, <2>1
  <2>3. ASSUME NEW u \in User
        PROVE  /\ State.users[u].accept \in Seq(Acceptee)
               /\ \A l \in Lists : State.users[u][l] \subseteq Nick
    <3>1. State.users[u].accept = <<>> /\ <<>> \in Seq(Acceptee)
      BY <1>3, <1>4
    <3>2. State.users[u].watch = {} /\ State.users[u].monitor = {}
      BY <1>3, <1>4
    <3> QED BY <3>1, <3>2 DEF Lists
  <2>4. \A n \in Nick : State.index.accepted[n] \in Nat /\ State.index.nick[n] \in User \cup {None}
    BY <1>3, <1>6, <1>7
  <2> QED BY <2>2, <2>3, <2>4 DEF Peopled
<1>10. Indexed(State)
  BY <1>3, <1>4, <1>6, <1>7 DEF Indexed, Lists
<1>11. Knowing(State) /\ Following(State)
  BY <1>3, <1>4 DEF Knowing, Following, Lists
<1>12. Counted(State)
  <2> SUFFICES ASSUME NEW n \in Nick PROVE State.index.accepted[n] >= Cardinality(Entries(State, n))
    BY DEF Counted
  <2>1. \A u \in User : Named(State.users[u], n) = {}
    BY <1>3, <1>4 DEF Named
  <2>2. Entries(State, n) = {}
    BY <2>1 DEF Entries
  <2> QED BY <1>3, <1>6, <2>2, FS_EmptySet
<1>13. Disc(State)
  BY <1>3 DEF Disc
<1> QED BY <1>0, <1>8, <1>9, <1>10, <1>11, <1>12, <1>13 DEF IInv, Good, Pres

\* Every step keeps the invariant.
LEMMA StepGood == IInv /\ [Next]_vars => IInv'
<1> SUFFICES ASSUME IInv, [Next]_vars PROVE IInv'
  OBVIOUS
<1>0. /\ Good(State) /\ setup \in Setups /\ setup.targets \subseteq Nick \cup Chan
      /\ setup.texts \subseteq Text /\ HistoryLimit \in Nat
  BY MessagesAssumption DEF IInv
<1>1. CASE UNCHANGED vars
  BY <1>0, <1>1 DEF IInv, vars, State
<1>2. CASE Next
  <2>1. GoodStep
    <3>1. ASSUME NEW u \in User, Connect(u) \/ Register(u) \/ Quit(u) \/ Hush(u) \/ Pong(u) \/ Close(u)
          PROVE  GoodStep
      <4>1. CASE Close(u)
        BY <1>0, <4>1, BatchActs
      <4>2. CASE Connect(u) \/ Register(u) \/ Quit(u) \/ Hush(u) \/ Pong(u)
        BY <1>0, <4>2, ConnectionActs
      <4> QED BY <3>1, <4>1, <4>2
    <3>2. ASSUME NEW u \in User, ClearWatch(u) \/ ClearMonitor(u) \/ \E l \in Lists : Report(u, l)
          PROVE  GoodStep
      BY <1>0, <3>2, WatchActs
    <3>3. ASSUME NEW u \in User, NEW n \in Nick,
                 \/ Nick_handle(u, n) \/ Watch(u, n) \/ Unwatch(u, n) \/ Unmonitor(u, n)
                 \/ Accept(u, n) \/ Unaccept(u, n) \/ Silence(u, n) \/ Unsilence(u, n)
                 \/ Signore(u, n) \/ Unsignore(u, n) \/ Dccallow(u, n) \/ Undccallow(u, n)
                 \/ \E m \in Nick : Monitor(u, n, m)
          PROVE  GoodStep
      BY <1>0, <3>3, NickActs, WatchActs, ListActs
    <3>4. ASSUME NEW u \in User, NEW t \in setup.targets,
                 \/ Tag(u, t) \/ Open(u, t)
                 \/ \E x \in setup.texts, notice \in BOOLEAN : Say(u, t, x, notice)
          PROVE  GoodStep
      BY <1>0, <3>4, MessageActs, BatchActs
    <3>5. ASSUME NEW u \in User, NEW x \in setup.texts, NEW concat \in BOOLEAN,
                 NEW notice \in BOOLEAN, BatchLine(u, x, concat, notice)
          PROVE  GoodStep
      BY <1>0, <3>5, BatchActs
    <3>6. ASSUME NEW u \in User, NEW c \in Chan,
                 \/ Join(u, c) \/ Part(u, c) \/ RelayMsg(u, c)
                 \/ \E r \in 0..RANK_OP : Rerank(u, c, r)
                 \/ \E i \in 1..Len(log) : Redact(u, c, i)
          PROVE  GoodStep
      BY <1>0, <3>6, ChannelActs, MessageActs, HistoryActs
    <3>7. ASSUME NEW u \in User, NEW k, NEW a, NEW limit \in 1..HistoryLimit, NEW sub, NEW b,
                 ChatHistory(u, k, sub, a, b, limit)
          PROVE  GoodStep
      <4>1. limit \in Nat
        BY <1>0
      <4> QED BY <1>0, <3>7, <4>1, HistoryActs
    <3>8. ASSUME NEW t \in setup.targets, NEW ops \in BOOLEAN, link_message_recv(t, ops)
          PROVE  GoodStep
      BY <1>0, <3>8, MessageActs
    <3>9. ASSUME NEW c \in Chan, NEW i \in 1..Len(log), link_redact(c, i) PROVE GoodStep
      BY <1>0, <3>9, HistoryActs
    <3>10. ASSUME on_tick PROVE GoodStep
      BY <1>0, <3>10, TickActs
    <3> QED BY <1>2, <3>1, <3>2, <3>3, <3>4, <3>5, <3>6, <3>7, <3>8, <3>9, <3>10, Zenon DEF Next
  <2> QED BY <1>0, <2>1 DEF IInv, GoodStep
<1> QED BY <1>1, <1>2

\* An entry of an ACCEPT list made for a user follows it through its nick
\* changes, goes with it, and is counted (users.rs set_nick, server.rs
\* remove_user, core_message.rs).
THEOREM AcceptancesFollow == Spec => []AcceptanceFollows
<1>1. IInv => AcceptanceFollows
  BY StateFacts DEF IInv, Good, Pres, Following, Counted, Entries, AcceptanceFollows
<1> QED BY <1>1, InitGood, StepGood, PTL DEF Spec

\* What a client was last told of a nick on its WATCH or MONITOR list is so
\* (watch.rs, users.rs set_nick and welcome, server.rs remove_user).
THEOREM WatchersInformed == Spec => []WatchersKnow
<1>1. IInv => WatchersKnow
  <2> SUFFICES ASSUME IInv, NEW l \in Lists, NEW u \in User, NEW n \in users[u][l]
               PROVE  \/ told[<<l, u, n>>] = "early" \/ told[<<l, u, n>>] = StatusOf(State, n)
                      \/ told[<<l, u, n>>] = "off" /\ StatusOf(State, n) = "early"
    BY Zenon DEF WatchersKnow
  <2>1. Known(State, l, u, n)
    BY StateFacts DEF IInv, Good, Pres, Knowing
  <2> QED BY <2>1, StateFacts DEF Known
<1> QED BY <1>1, InitGood, StepGood, PTL DEF Spec

\* Nobody is shown an ops-only message who could not see it when it was sent,
\* nor any message after it was redacted: live, by CHATHISTORY or by the +H
\* backlog (core_message.rs deliver, chathistory.rs, channels.rs).  Excepted
\* are the members to whom a link brought it the moment it was sent (link.rs,
\* server.rs relay_channel_message): they see an ops-only message whatever
\* their rank, and nobody else sees it later.
THEOREM NothingDisclosedLate == Spec => []NoLateDisclosure
<1>1. IInv => NoLateDisclosure
  BY StateFacts DEF IInv, Good, Disc, Sees, NoLateDisclosure
<1> QED BY <1>1, InitGood, StepGood, PTL DEF Spec
=============================================================================
