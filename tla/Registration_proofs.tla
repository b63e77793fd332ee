------------------------ MODULE Registration_proofs ------------------------
(***************************************************************************)
(* Proofs about Registration, for any number of connections, classes,      *)
(* bans and challenges.                                                     *)
(***************************************************************************)
EXTENDS Registration, FoldFacts, FunctionTheorems

Gone == NewUser(AnyIP, "gone")

\* The password of the class is checked by a worker.
Slow(u) == u.class # None /\ ClassSeq[Index(u.class)].password = "kdf"

-----------------------------------------------------------------------------
(* The inductive invariant, of a state S of the core.                      *)

Waiting(S)       == Live(S) \ Registered(S)
At(S, ip)        == {c \in Live(S) : S.users[c].ip = ip}
InClass(S, k)    == {c \in Live(S) : S.users[c].class = k}
Here(S, ip, k)   == {c \in Live(S) : S.users[c].ip = ip /\ S.users[c].class = k}

\* Who counts against localmax: a client whose password is checked has passed it.
Admitted(S, ip, k) ==
    {c \in Here(S, ip, k) : S.users[c].registered \/ S.users[c].auth_pending}

\* The counters are the sizes of what they count.
Counted(S) ==
    /\ S.unreg = Cardinality(Waiting(S))
    /\ S.per_ip = [ip \in IP |-> Cardinality(At(S, ip))]
    /\ S.per_class = [k \in ClassName |-> Cardinality(InClass(S, k))]
    /\ S.per_ip_class = [p \in IP \X ClassName |-> Cardinality(Here(S, p[1], p[2]))]

Indexed(S) ==
    \A n \in Nick, c \in Conn : S.nick_index[n] = c <=> c \in Live(S) /\ S.users[c].nick = n

\* What the holds of a connection have to do with one another.
Tidy(u) ==
    /\ u.phase # "live" => u.nick = None /\ ~u.registered
    /\ u.deferred # <<>> => u.dns_pending
    /\ u.dns_pending \/ u.ident_pending \/ u.waitpong \/ u.auth_pending
          => u.phase = "live" /\ ~u.registered
    /\ u.auth_pending => /\ ~u.dns_pending /\ ~u.ident_pending /\ ~u.waitpong
                         /\ u.nick # None /\ u.ident # None /\ Slow(u)
    /\ u.user => u.ident # None

\* A lookup that runs is waited for, unless its client is gone.
Lookups(S) ==
    \A j \in S.jobs :
       LET u == S.users[j.uid] IN
       /\ u.phase # "new"
       /\ j.kind = "dns" => j.arg \in IP /\ (u.phase = "gone" \/ u.dns_pending)
       /\ j.kind = "ident" => u.phase = "gone" \/ u.ident_pending
       /\ j.kind \in {"dns", "ident"} =>
             \A k \in S.jobs : k.kind = j.kind /\ k.uid = j.uid => k = j

Unbanned(S) == \A c \in Registered(S) \cap S.vetted : ~matched_xline(S, S.users[c])

Within(S) ==
    \A i \in DOMAIN ClassSeq :
       ClassSeq[i].limit > 0 => Cardinality(InClass(S, ClassSeq[i].name)) <= ClassSeq[i].limit

\* No client can change its address while its password is checked.
Sheltered ==
    \/ Gateway = {}
    \/ \A i \in DOMAIN ClassSeq : ClassSeq[i].password = "kdf" => ClassSeq[i].localmax = 0

Clones(S) ==
    \A i \in DOMAIN ClassSeq, ip \in IP :
       ClassSeq[i].localmax > 0 =>
          Cardinality(Admitted(S, ip, ClassSeq[i].name)) <= ClassSeq[i].localmax

Sound(S) ==
    /\ S \in Core
    /\ Counted(S)
    /\ Indexed(S)
    /\ \A c \in Conn : Tidy(S.users[c])
    /\ Lookups(S)
    /\ Within(S)
    /\ Sheltered => Clones(S)

Good(S) == Sound(S) /\ Unbanned(S)

\* What c waits for is under way.
Asked(S, c, k) == \E j \in Running(S, k) : j.uid = c

Waits(S, c) ==
    LET u == S.users[c] IN
    /\ u.dns_pending => Asked(S, c, "dns")
    /\ u.ident_pending => Asked(S, c, "ident")
    /\ u.auth_pending => Asked(S, c, "auth") \/ Asked(S, c, "dead")

\* Who has sent USER and could be welcomed stands before a closed gate.
Ripe(u) == ready(u) /\ u.user

Held(S, c) == Ripe(S.users[c]) => Closed(S, c) # {}

IInv ==
    /\ Good(core)
    /\ \A c \in Conn : Waits(core, c) /\ Held(core, c)
    /\ sent \in [Conn -> 0 .. MaxLines] /\ ruled \in 0 .. MaxOper

-----------------------------------------------------------------------------
(* Types.                                                                   *)

\* What the configuration's assumptions give: a class is found by its name.
LEMMA Constants ==
  /\ AnyIP \in IP
  /\ MaxIdle \in Nat
  /\ \A i \in DOMAIN ClassSeq : ClassSeq[i] \in Class /\ ClassSeq[i].name \in ClassName
  /\ \A k \in ClassName : Index(k) \in DOMAIN ClassSeq /\ ClassSeq[Index(k)].name = k
  /\ \A i \in DOMAIN ClassSeq : ClassSeq[Index(ClassSeq[i].name)] = ClassSeq[i]
<1>1. AnyIP \in IP
  BY RegistrationAssumption DEF AnyIP
<1>2. MaxIdle \in Nat
  <2> DEFINE a == RegTimeout
             b == PingAfter + PingTimeout
  <2>1. a \in Nat /\ b \in Nat
    BY RegistrationAssumption
  <2> HIDE DEF a, b
  <2>2. Max({a, b}) \in {a, b}
    BY <2>1 DEF Max
  <2> QED BY <2>1, <2>2 DEF MaxIdle, a, b
<1>3. \A i \in DOMAIN ClassSeq : ClassSeq[i] \in Class /\ ClassSeq[i].name \in ClassName
  BY RegistrationAssumption DEF ClassName
<1>4. ASSUME NEW k \in ClassName
      PROVE  Index(k) \in DOMAIN ClassSeq /\ ClassSeq[Index(k)].name = k
  <2>1. \E i \in DOMAIN ClassSeq : ClassSeq[i].name = k
    BY DEF ClassName
  <2> QED BY <2>1, Zenon DEF Index
<1>5. ASSUME NEW i \in DOMAIN ClassSeq
      PROVE  ClassSeq[Index(ClassSeq[i].name)] = ClassSeq[i]
  <2>1. ClassSeq[i].name \in ClassName
    BY <1>3
  <2> QED BY <1>4, <2>1, RegistrationAssumption
<1> QED BY <1>1, <1>2, <1>3, <1>4, <1>5

\* A fresh user is a user.
LEMMA NewUserType ==
  ASSUME NEW ip \in IP, NEW ph \in {"new", "live", "gone"}
  PROVE  NewUser(ip, ph) \in User
<1>1. 0 \in 0 .. MaxIdle
  BY Constants
<1> QED BY <1>1 DEF NewUser, User, Host

\* What is left of a connection that has ended.
LEMMA GoneFacts ==
  /\ Gone \in User /\ Gone.phase = "gone" /\ Gone.nick = None /\ ~Gone.registered
  /\ ~Gone.dns_pending /\ ~Gone.ident_pending /\ ~Gone.auth_pending /\ ~Gone.waitpong
  /\ Gone.deferred = <<>> /\ ~Gone.user
BY Constants, NewUserType DEF Gone, NewUser

-----------------------------------------------------------------------------
(* The record of one connection c changes from u to v.                     *)

B(p) == IF p THEN 1 ELSE 0

IsAt(u, ip) == u.phase = "live" /\ u.ip = ip
IsIn(u, k)  == u.phase = "live" /\ u.class = k
Pooled(u)   == u.phase = "live" /\ ~u.registered
Let(u)      == u.phase = "live" /\ (u.registered \/ u.auth_pending)

\* The counters follow.
Shifted(S, T, u, v) ==
    /\ T.unreg = S.unreg + B(Pooled(v)) - B(Pooled(u))
    /\ T.per_ip = [ip \in IP |-> S.per_ip[ip] + B(IsAt(v, ip)) - B(IsAt(u, ip))]
    /\ T.per_class = [k \in ClassName |-> S.per_class[k] + B(IsIn(v, k)) - B(IsIn(u, k))]
    /\ T.per_ip_class = [p \in IP \X ClassName |->
          S.per_ip_class[p] + B(IsAt(v, p[1]) /\ IsIn(v, p[2]))
                            - B(IsAt(u, p[1]) /\ IsIn(u, p[2]))]

\* The nick index follows, and nobody else had the nick.
Reindexed(S, T, c, v) ==
    \A n \in Nick :
       /\ T.nick_index[n] = IF v.phase = "live" /\ v.nick = n THEN c
                            ELSE IF S.nick_index[n] = c THEN None ELSE S.nick_index[n]
       /\ v.phase = "live" /\ v.nick = n => S.nick_index[n] \in {None, c}

\* Two sets that differ at most in c differ in size by what c does.
LEMMA CountShift ==
  ASSUME NEW X, IsFiniteSet(X), NEW Y, NEW c, \A d : d # c => (d \in X <=> d \in Y)
  PROVE  IsFiniteSet(Y) /\ Cardinality(Y) = Cardinality(X) + B(c \in Y) - B(c \in X)
<1>1. CASE c \in Y
  <2>1. Y = X \cup {c}
    BY <1>1
  <2>2. Cardinality(X) \in Nat
    BY FS_CardinalityType
  <2> QED BY <1>1, <2>1, <2>2, FS_AddElement DEF B
<1>2. CASE c \notin Y
  <2>1. Y = X \ {c}
    BY <1>2
  <2>2. Cardinality(X) \in Nat
    BY FS_CardinalityType
  <2> QED BY <1>2, <2>1, <2>2, FS_RemoveElement DEF B
<1> QED BY <1>1, <1>2

\* Whatever is counted is a finite set of connections.
LEMMA Finite ==
  ASSUME NEW X \in SUBSET Conn
  PROVE  IsFiniteSet(X) /\ Cardinality(X) \in Nat
BY RegistrationAssumption, FS_Subset, FS_CardinalityType

\* A change of one user that shifts each counter by that user's part keeps them exact.
LEMMA Recounted ==
  ASSUME NEW S, S.users \in [Conn -> User], Counted(S), NEW c \in Conn, NEW v, NEW T,
         T.users = [S.users EXCEPT ![c] = v], Shifted(S, T, S.users[c], v)
  PROVE  Counted(T)
<1> DEFINE u == S.users[c]
<1>0. /\ T.users[c] = v
      /\ \A d \in Conn : d # c => T.users[d] = S.users[d]
  OBVIOUS
<1>1. T.unreg = Cardinality(Waiting(T))
  <2>1. \A d : d # c => (d \in Waiting(S) <=> d \in Waiting(T))
    BY <1>0 DEF Waiting, Live, Registered
  <2>2. (c \in Waiting(S) <=> Pooled(u)) /\ (c \in Waiting(T) <=> Pooled(v))
    BY <1>0 DEF Waiting, Live, Registered, Pooled
  <2>3. IsFiniteSet(Waiting(S))
    BY Finite DEF Waiting, Live
  <2>4. Cardinality(Waiting(T)) = Cardinality(Waiting(S)) + B(c \in Waiting(T))
                                                          - B(c \in Waiting(S))
    BY <2>1, <2>3, CountShift
  <2>5. Cardinality(Waiting(T)) = Cardinality(Waiting(S)) + B(Pooled(v)) - B(Pooled(u))
    BY <2>2, <2>4 DEF B
  <2> QED BY <2>5 DEF Counted, Shifted
<1>2. T.per_ip = [ip \in IP |-> Cardinality(At(T, ip))]
  <2>1. ASSUME NEW ip \in IP
        PROVE  Cardinality(At(T, ip)) = S.per_ip[ip] + B(IsAt(v, ip)) - B(IsAt(u, ip))
    <3>1. \A d : d # c => (d \in At(S, ip) <=> d \in At(T, ip))
      BY <1>0 DEF At, Live
    <3>2. (c \in At(S, ip) <=> IsAt(u, ip)) /\ (c \in At(T, ip) <=> IsAt(v, ip))
      BY <1>0 DEF At, Live, IsAt
    <3>3. IsFiniteSet(At(S, ip))
      BY Finite DEF At, Live
    <3>4. S.per_ip[ip] = Cardinality(At(S, ip))
      BY DEF Counted
    <3>5. Cardinality(At(T, ip)) = Cardinality(At(S, ip)) + B(c \in At(T, ip))
                                                    - B(c \in At(S, ip))
      BY <3>1, <3>3, CountShift
    <3> QED BY <3>2, <3>4, <3>5 DEF B
  <2> QED BY <2>1 DEF Shifted
<1>3. T.per_class = [k \in ClassName |-> Cardinality(InClass(T, k))]
  <2>1. ASSUME NEW k \in ClassName
        PROVE  Cardinality(InClass(T, k)) = S.per_class[k] + B(IsIn(v, k)) - B(IsIn(u, k))
    <3>1. \A d : d # c => (d \in InClass(S, k) <=> d \in InClass(T, k))
      BY <1>0 DEF InClass, Live
    <3>2. (c \in InClass(S, k) <=> IsIn(u, k)) /\ (c \in InClass(T, k) <=> IsIn(v, k))
      BY <1>0 DEF InClass, Live, IsIn
    <3>3. IsFiniteSet(InClass(S, k))
      BY Finite DEF InClass, Live
    <3>4. S.per_class[k] = Cardinality(InClass(S, k))
      BY DEF Counted
    <3>5. Cardinality(InClass(T, k)) = Cardinality(InClass(S, k)) + B(c \in InClass(T, k))
                                                    - B(c \in InClass(S, k))
      BY <3>1, <3>3, CountShift
    <3> QED BY <3>2, <3>4, <3>5 DEF B
  <2> QED BY <2>1 DEF Shifted
<1>4. T.per_ip_class = [p \in IP \X ClassName |-> Cardinality(Here(T, p[1], p[2]))]
  <2>1. ASSUME NEW p \in IP \X ClassName
        PROVE  Cardinality(Here(T, p[1], p[2])) =
                 S.per_ip_class[p] + B(IsAt(v, p[1]) /\ IsIn(v, p[2]))
                                   - B(IsAt(u, p[1]) /\ IsIn(u, p[2]))
    <3> DEFINE X == Here(S, p[1], p[2])
               Y == Here(T, p[1], p[2])
    <3>1. \A d : d # c => (d \in X <=> d \in Y)
      BY <1>0 DEF Here, Live
    <3>2. /\ c \in X <=> IsAt(u, p[1]) /\ IsIn(u, p[2])
          /\ c \in Y <=> IsAt(v, p[1]) /\ IsIn(v, p[2])
      BY <1>0 DEF Here, Live, IsIn, IsAt
    <3>3. IsFiniteSet(X)
      BY Finite DEF Here, Live
    <3>4. S.per_ip_class[p] = Cardinality(X)
      BY DEF Counted
    <3> HIDE DEF X, Y
    <3>5. Cardinality(Y) = Cardinality(X) + B(c \in Y) - B(c \in X)
      BY <3>1, <3>3, CountShift
    <3> QED BY <3>2, <3>4, <3>5 DEF X, Y
  <2> QED BY <2>1 DEF Shifted
<1> QED BY <1>1, <1>2, <1>3, <1>4 DEF Counted

\* A change of one user that moves its nick in the index keeps the index exact.
LEMMA Reindex ==
  ASSUME NEW S, Indexed(S), NEW c \in Conn, NEW v, NEW T,
         S.users \in [Conn -> User], S.nick_index \in [Nick -> Conn \cup {None}],
         T.users = [S.users EXCEPT ![c] = v], Reindexed(S, T, c, v)
  PROVE  Indexed(T)
<1> SUFFICES ASSUME NEW n \in Nick, NEW d \in Conn
             PROVE  T.nick_index[n] = d <=> d \in Live(T) /\ T.users[d].nick = n
  BY DEF Indexed
<1>0. None \notin Conn
  BY RegistrationAssumption
<1>1. S.nick_index[n] = d <=> d \in Live(S) /\ S.users[d].nick = n
  BY DEF Indexed
<1>2. CASE d = c
  BY <1>0, <1>1, <1>2 DEF Reindexed, Live
<1>3. CASE d # c
  BY <1>0, <1>1, <1>3 DEF Reindexed, Live
<1> QED BY <1>2, <1>3

\* The core before its counters are known to be natural numbers.
Loose == [users : [Conn -> User], nick_index : [Nick -> Conn \cup {None}],
          unreg : Int, per_ip : [IP -> Int], per_class : [ClassName -> Int],
          per_ip_class : [IP \X ClassName -> Int], xlines : SUBSET XLine,
          challenged : [Gate -> SUBSET Conn], passed : [Gate -> SUBSET Conn],
          cleared : SUBSET IP, jobs : SUBSET Job, vetted : SUBSET Conn]

\* Counters that equal sizes never fall below zero.
LEMMA CountersNatural ==
  ASSUME NEW T \in Loose, Counted(T)
  PROVE  T \in Core
<1>1. T.unreg \in Nat
  <2>1. Waiting(T) \in SUBSET Conn
    BY DEF Waiting, Live
  <2> QED BY <2>1, Finite DEF Counted
<1>2. T.per_ip \in [IP -> Nat]
  <2>1. \A ip \in IP : At(T, ip) \in SUBSET Conn
    BY DEF At, Live
  <2> QED BY <2>1, Finite DEF Counted
<1>3. T.per_class \in [ClassName -> Nat]
  <2>1. \A k \in ClassName : InClass(T, k) \in SUBSET Conn
    BY DEF InClass, Live
  <2> QED BY <2>1, Finite DEF Counted
<1>4. T.per_ip_class \in [IP \X ClassName -> Nat]
  <2>1. \A p \in IP \X ClassName : Here(T, p[1], p[2]) \in SUBSET Conn
    BY DEF Here, Live
  <2> QED BY <2>1, Finite DEF Counted
<1> QED BY <1>1, <1>2, <1>3, <1>4 DEF Loose, Core

\* A state of the core is one whose counters may be any integers.
LEMMA CoreLoose ==
  ASSUME NEW S \in Core
  PROVE  S \in Loose
BY DEF Core, Loose

\* There is room in its class for the new record, and among its address's clones.
Fits(S, c, u, v) ==
    /\ \A i \in DOMAIN ClassSeq :
          LET k == ClassSeq[i] IN
          k.limit > 0 /\ IsIn(v, k.name) =>
             IsIn(u, k.name) \/ Cardinality(InClass(S, k.name) \ {c}) < k.limit
    /\ Sheltered => \A i \in DOMAIN ClassSeq, ip \in IP :
          LET k == ClassSeq[i] IN
          k.localmax > 0 /\ Let(v) /\ IsAt(v, ip) /\ IsIn(v, k.name) =>
             \/ Let(u) /\ IsAt(u, ip) /\ IsIn(u, k.name)
             \/ Cardinality(Admitted(S, ip, k.name) \ {c}) < k.localmax

\* The invariant survives the change of one record if the tables follow it.
LEMMA Changed ==
  ASSUME NEW S, Sound(S), NEW c \in Conn, NEW v \in User, NEW T \in Loose,
         T.users = [S.users EXCEPT ![c] = v],
         Shifted(S, T, S.users[c], v), Reindexed(S, T, c, v), Tidy(v), Lookups(T),
         Fits(S, c, S.users[c], v)
  PROVE  Sound(T)
<1> DEFINE u == S.users[c]
<1>0. /\ S \in Core /\ S.users \in [Conn -> User]
      /\ S.nick_index \in [Nick -> Conn \cup {None}]
  BY DEF Sound, Core
<1>a. /\ T.users[c] = v
      /\ \A d \in Conn : d # c => T.users[d] = S.users[d]
  BY <1>0
<1>1. Counted(T)
  BY <1>0, Recounted DEF Sound
<1>2. T \in Core
  BY <1>1, CountersNatural
<1>3. Indexed(T)
  BY <1>0, Reindex DEF Sound
<1>4. \A d \in Conn : Tidy(T.users[d])
  BY <1>a DEF Sound
<1>6. Within(T)
  <2> SUFFICES ASSUME NEW i \in DOMAIN ClassSeq, ClassSeq[i].limit > 0
               PROVE  Cardinality(InClass(T, ClassSeq[i].name)) <= ClassSeq[i].limit
    BY DEF Within
  <2> DEFINE k == ClassSeq[i].name
  <2>0. ClassSeq[i].limit \in Nat
    BY Constants DEF Class
  <2>1. Cardinality(InClass(S, k)) <= ClassSeq[i].limit
    BY DEF Sound, Within
  <2>2. InClass(S, k) \in SUBSET Conn /\ InClass(T, k) \in SUBSET Conn
    BY DEF InClass, Live
  <2>3. CASE IsIn(v, k) /\ ~IsIn(u, k)
    <3>1. Cardinality(InClass(S, k) \ {c}) < ClassSeq[i].limit
      BY <2>3 DEF Fits
    <3>2. InClass(T, k) = (InClass(S, k) \ {c}) \cup {c}
      BY <1>a, <2>3 DEF InClass, Live, IsIn
    <3>3. IsFiniteSet(InClass(S, k) \ {c}) /\ Cardinality(InClass(S, k) \ {c}) \in Nat
      BY <2>2, Finite
    <3>4. Cardinality(InClass(T, k)) = Cardinality(InClass(S, k) \ {c}) + 1
      BY <3>2, <3>3, FS_AddElement
    <3> QED BY <2>0, <3>1, <3>3, <3>4
  <2>4. CASE ~(IsIn(v, k) /\ ~IsIn(u, k))
    <3>1. InClass(T, k) \subseteq InClass(S, k)
      BY <1>a, <2>4 DEF InClass, Live, IsIn
    <3>2. Cardinality(InClass(T, k)) <= Cardinality(InClass(S, k))
      BY <2>2, <3>1, Finite, FS_Subset
    <3> QED BY <2>0, <2>1, <2>2, <3>2, Finite
  <2> QED BY <2>3, <2>4
<1>7. ASSUME Sheltered PROVE Clones(T)
  <2> SUFFICES ASSUME NEW i \in DOMAIN ClassSeq, NEW ip \in IP, ClassSeq[i].localmax > 0
               PROVE  Cardinality(Admitted(T, ip, ClassSeq[i].name)) <= ClassSeq[i].localmax
    BY DEF Clones
  <2> DEFINE k == ClassSeq[i].name
             X == Admitted(S, ip, k)
             Y == Admitted(T, ip, k)
  <2>0. ClassSeq[i].localmax \in Nat
    BY Constants DEF Class
  <2>1. Cardinality(X) <= ClassSeq[i].localmax
    BY <1>7 DEF Sound, Clones
  <2>2. X \in SUBSET Conn /\ Y \in SUBSET Conn /\ Here(S, ip, k) \in SUBSET Conn
    BY DEF Admitted, Here, Live
  <2> DEFINE of(w) == Let(w) /\ IsAt(w, ip) /\ IsIn(w, k)
  <2>3. CASE of(v) /\ ~of(u)
    <3> DEFINE H == X \ {c}
    <3>1. Cardinality(H) < ClassSeq[i].localmax
      BY <1>7, <2>3 DEF Fits
    <3>2. Y \ {c} \subseteq H /\ c \in Y
      BY <1>a, <2>3 DEF Admitted, Here, Live, IsIn, IsAt, Let
    <3>3. IsFiniteSet(H) /\ Cardinality(H) \in Nat
      BY <2>2, Finite
    <3> HIDE DEF H, Y
    <3>4. Cardinality(Y \ {c}) <= Cardinality(H)
      BY <3>2, <3>3, FS_Subset
    <3>5. Cardinality(Y \ {c}) = Cardinality(Y) - 1
      BY <2>2, <3>2, Finite, FS_RemoveElement
    <3>6. Cardinality(Y) \in Nat
      BY <2>2, Finite
    <3> QED BY <2>0, <3>1, <3>3, <3>4, <3>5, <3>6 DEF Y
  <2>4. CASE ~(of(v) /\ ~of(u))
    <3>1. Y \subseteq X
      BY <1>a, <2>4 DEF Admitted, Here, Live, IsIn, IsAt, Let
    <3> HIDE DEF X, Y
    <3>2. Cardinality(Y) <= Cardinality(X)
      BY <2>2, <3>1, Finite, FS_Subset
    <3> QED BY <2>0, <2>1, <2>2, <3>2, Finite DEF X, Y
  <2> QED BY <2>3, <2>4
<1> QED BY <1>1, <1>2, <1>3, <1>4, <1>6, <1>7 DEF Sound

\* The lines see the ident, the host and the address of a user.
LEMMA SameBans ==
  ASSUME NEW S, NEW T, T.xlines = S.xlines, NEW u, NEW v,
         v.host = u.host, v.ident = u.ident, v.ip = u.ip
  PROVE  matched_xline(T, v) <=> matched_xline(S, u)
BY DEF matched_xline, is_exempt, Covers

\* One user changes, and is not hit by a line: nobody is.
LEMMA ChangedBans ==
  ASSUME NEW S, Unbanned(S), NEW c \in Conn, NEW v, NEW T, S.users \in [Conn -> User],
         T.users = [S.users EXCEPT ![c] = v], T.xlines = S.xlines,
         T.vetted \subseteq S.vetted \cup {c},
         v.phase = "live" /\ v.registered /\ c \in T.vetted => ~matched_xline(T, v)
  PROVE  Unbanned(T)
<1>a. /\ T.users[c] = v
      /\ \A d \in Conn : d # c => T.users[d] = S.users[d]
  OBVIOUS
<1> SUFFICES ASSUME NEW d \in Registered(T) \cap T.vetted
             PROVE  ~matched_xline(T, T.users[d])
  BY DEF Unbanned
<1>1. CASE d = c
  BY <1>a, <1>1 DEF Registered, Live
<1>2. CASE d # c
  <2>1. T.users[d] = S.users[d] /\ d \in Registered(S) \cap S.vetted
    BY <1>a, <1>2 DEF Registered, Live
  <2>2. ~matched_xline(S, S.users[d])
    BY <2>1 DEF Unbanned
  <2> QED BY <2>1, <2>2, SameBans
<1> QED BY <1>1, <1>2

\* The counters and the index are left alone.
Kept(S, T) ==
    /\ T.unreg = S.unreg /\ T.per_ip = S.per_ip /\ T.per_class = S.per_class
    /\ T.per_ip_class = S.per_ip_class /\ T.nick_index = S.nick_index

\* What the tables are about is left alone.
SamePlace(u, v) ==
    /\ v.phase = u.phase /\ v.registered = u.registered /\ v.nick = u.nick
    /\ v.ip = u.ip /\ v.class = u.class

\* The lines were asked about v, if it is registered, as about u.
Judgement(S, T, c, u, v) ==
    /\ T.xlines = S.xlines /\ T.vetted \subseteq S.vetted \cup {c}
    /\ v.registered /\ c \in T.vetted =>
          c \in S.vetted /\ v.host = u.host /\ v.ident = u.ident

\* A change of flags that no table looks at.
LEMMA Touched ==
  ASSUME NEW S, Sound(S), NEW c \in Conn, NEW v \in User, NEW T \in Core,
         T.users = [S.users EXCEPT ![c] = v], Kept(S, T), SamePlace(S.users[c], v),
         v.auth_pending => S.users[c].auth_pending,
         Tidy(v), Lookups(T)
  PROVE  /\ Sound(T)
         /\ Unbanned(S) /\ Judgement(S, T, c, S.users[c], v) => Unbanned(T)
<1> DEFINE u == S.users[c]
<1>0. /\ S \in Core /\ S.users \in [Conn -> User] /\ u \in User
      /\ S.nick_index \in [Nick -> Conn \cup {None}]
      /\ S.unreg \in Int /\ S.per_ip \in [IP -> Int] /\ S.per_class \in [ClassName -> Int]
      /\ S.per_ip_class \in [IP \X ClassName -> Int]
  BY DEF Sound, Core
<1>1. Shifted(S, T, u, v)
  <2>1. Pooled(v) = Pooled(u)
    BY DEF Pooled, SamePlace
  <2>2. \A ip : IsAt(v, ip) = IsAt(u, ip)
    BY DEF IsAt, SamePlace
  <2>3. \A k : IsIn(v, k) = IsIn(u, k)
    BY DEF IsIn, SamePlace
  <2>4. \A x \in Int : \A b : x + B(b) - B(b) = x
    BY DEF B
  <2>5. T.unreg = S.unreg + B(Pooled(v)) - B(Pooled(u))
    BY <1>0, <2>1, <2>4 DEF Kept
  <2>6. T.per_ip = [ip \in IP |-> S.per_ip[ip] + B(IsAt(v, ip)) - B(IsAt(u, ip))]
    BY <1>0, <2>2, <2>4 DEF Kept
  <2>7. T.per_class = [k \in ClassName |-> S.per_class[k] + B(IsIn(v, k)) - B(IsIn(u, k))]
    BY <1>0, <2>3, <2>4 DEF Kept
  <2>8. T.per_ip_class = [p \in IP \X ClassName |->
          S.per_ip_class[p] + B(IsAt(v, p[1]) /\ IsIn(v, p[2]))
                            - B(IsAt(u, p[1]) /\ IsIn(u, p[2]))]
    BY <1>0, <2>2, <2>3, <2>4 DEF Kept
  <2> QED BY <2>5, <2>6, <2>7, <2>8 DEF Shifted
<1>2. Reindexed(S, T, c, v)
  <2>1. \A n \in Nick : S.nick_index[n] = c <=> (u.phase = "live" /\ u.nick = n)
    BY <1>0 DEF Sound, Indexed, Live
  <2> QED BY <2>1 DEF Reindexed, Kept, SamePlace
<1>3. ASSUME v.registered, Unbanned(S), Judgement(S, T, c, u, v), c \in T.vetted
      PROVE  ~matched_xline(T, v)
  <2>1. u.phase = "live" /\ u.registered
    <3>1. Tidy(u)
      BY DEF Sound
    <3> QED BY <1>0, <1>3, <3>1 DEF SamePlace, Tidy, User
  <2>2. c \in Registered(S) \cap S.vetted
    BY <1>3, <2>1 DEF Registered, Live, Judgement
  <2>3. ~matched_xline(S, u)
    BY <1>3, <2>2 DEF Unbanned
  <2>4. v.host = u.host /\ v.ident = u.ident /\ v.ip = u.ip /\ T.xlines = S.xlines
    BY <1>3 DEF Judgement, SamePlace
  <2> QED BY <2>3, <2>4, SameBans
<1>4. Fits(S, c, u, v)
  BY DEF Fits, IsIn, IsAt, Let, SamePlace
<1>5. T \in Loose
  BY CoreLoose
<1>6. Sound(T)
  BY <1>1, <1>2, <1>4, <1>5, Changed
<1>7. ASSUME Unbanned(S), Judgement(S, T, c, u, v) PROVE Unbanned(T)
  <2>1. v.registered /\ c \in T.vetted => ~matched_xline(T, v)
    BY <1>3, <1>7
  <2>2. T.xlines = S.xlines /\ T.vetted \subseteq S.vetted \cup {c}
    BY <1>7 DEF Judgement
  <2> QED BY <1>0, <1>7, <2>1, <2>2, ChangedBans
<1> QED BY <1>6, <1>7

\* Only what is not about a connection changes.
LEMMA Aside ==
  ASSUME NEW S, Sound(S), NEW T \in Core, T.users = S.users, Kept(S, T),
         Lookups(T)
  PROVE  /\ Sound(T)
         /\ Unbanned(S) /\ T.xlines = S.xlines /\ T.vetted \subseteq S.vetted => Unbanned(T)
<1>1. Live(T) = Live(S) /\ Registered(T) = Registered(S)
  BY DEF Live, Registered
<1>2. Counted(T)
  BY <1>1 DEF Sound, Counted, Kept, Waiting, At, InClass, Here
<1>3. Indexed(T)
  BY <1>1 DEF Sound, Indexed, Kept
<1>4. Unbanned(S) /\ T.xlines = S.xlines /\ T.vetted \subseteq S.vetted => Unbanned(T)
  BY <1>1, SameBans DEF Unbanned
<1>5. Within(T)
  BY <1>1 DEF Sound, Within, InClass
<1>6. Sheltered => Clones(T)
  BY <1>1 DEF Sound, Clones, Admitted, Here
<1> QED BY <1>2, <1>3, <1>4, <1>5, <1>6 DEF Sound

-----------------------------------------------------------------------------
(* The end of a connection.                                                *)

\* What the removal of c does.
Removed(S, T, c) ==
    /\ T.users = [S.users EXCEPT ![c] = Gone]
    /\ T.xlines = S.xlines /\ T.challenged = S.challenged /\ T.passed = S.passed
    /\ T.cleared = S.cleared /\ T.jobs = S.jobs /\ T.vetted = S.vetted

\* remove_user takes a connection out of every table.
LEMMA RemoveUser ==
  ASSUME NEW S, Sound(S), NEW c \in Conn
  PROVE  /\ Sound(remove_user(S, c))
         /\ Unbanned(S) => Unbanned(remove_user(S, c))
         /\ S.users[c].phase # "live" => remove_user(S, c) = S
         /\ S.users[c].phase = "live" => Removed(S, remove_user(S, c), c)
<1> DEFINE u == S.users[c]
           T == remove_user(S, c)
<1>0. /\ S \in Core /\ S.users \in [Conn -> User] /\ u \in User
      /\ S.nick_index \in [Nick -> Conn \cup {None}]
      /\ S.unreg \in Nat /\ S.per_ip \in [IP -> Nat] /\ S.per_class \in [ClassName -> Nat]
      /\ S.per_ip_class \in [IP \X ClassName -> Nat]
  BY DEF Sound, Core
<1>1. CASE u.phase # "live"
  BY <1>1 DEF remove_user
<1>2. CASE u.phase = "live"
  <2>1. T = [S EXCEPT !.per_ip = Bumped(@, u.ip, -1), !.per_class = Bumped(@, u.class, -1),
                      !.per_ip_class = Bumped(@, <<u.ip, u.class>>, -1),
                      !.users[c] = Gone,
                      !.unreg = IF u.registered THEN @ ELSE note_left_pool(@),
                      !.nick_index = [n \in Nick |-> IF n = u.nick THEN None ELSE @[n]]]
    BY <1>0, <1>2 DEF remove_user, count_disconnect, Gone, Core
  <2> DEFINE ni == [n \in Nick |-> IF n = u.nick THEN None ELSE S.nick_index[n]]
             un == IF u.registered THEN S.unreg ELSE note_left_pool(S.unreg)
             pi == Bumped(S.per_ip, u.ip, -1)
             pc == Bumped(S.per_class, u.class, -1)
             pb == Bumped(S.per_ip_class, <<u.ip, u.class>>, -1)
  <2>2. /\ T.users = [S.users EXCEPT ![c] = Gone] /\ T.nick_index = ni /\ T.unreg = un
        /\ T.per_ip = pi /\ T.per_class = pc /\ T.per_ip_class = pb
        /\ T.xlines = S.xlines /\ T.challenged = S.challenged /\ T.passed = S.passed
        /\ T.cleared = S.cleared /\ T.jobs = S.jobs /\ T.vetted = S.vetted
    BY <1>0, <2>1 DEF Core
  <2>3. ni \in [Nick -> Conn \cup {None}]
    BY <1>0
  <2>4. u.ip \in IP /\ u.class \in ClassName \cup {None} /\ u.registered \in BOOLEAN
    BY <1>0 DEF User
  <2>5. un \in Int /\ un = S.unreg - B(Pooled(u))
    <3>1. c \in Waiting(S) <=> Pooled(u)
      BY DEF Waiting, Live, Registered, Pooled
    <3>2. Waiting(S) \in SUBSET Conn
      BY DEF Waiting, Live
    <3>3. Pooled(u) => S.unreg # 0
      BY <3>1, <3>2, Finite, FS_EmptySet DEF Sound, Counted
    <3> QED BY <1>0, <1>2, <2>4, <3>3 DEF note_left_pool, B, Pooled
  <2>6. pi \in [IP -> Int] /\ pi = [ip \in IP |-> S.per_ip[ip] - B(IsAt(u, ip))]
    BY <1>0, <1>2, <2>4 DEF Bumped, B, IsAt
  <2>7. pc \in [ClassName -> Int] /\ pc = [k \in ClassName |-> S.per_class[k] - B(IsIn(u, k))]
    BY <1>0, <1>2, <2>4 DEF Bumped, B, IsIn
  <2>8. /\ pb \in [IP \X ClassName -> Int]
        /\ pb = [p \in IP \X ClassName |->
                   S.per_ip_class[p] - B(IsAt(u, p[1]) /\ IsIn(u, p[2]))]
    BY <1>0, <1>2, <2>4 DEF Bumped, B, IsIn, IsAt
  <2>9. T \in Loose
    <3> HIDE DEF T, ni, un, pi, pc, pb
    <3>1. [S.users EXCEPT ![c] = Gone] \in [Conn -> User]
      BY <1>0, GoneFacts
    <3> QED BY <1>0, <2>1, <2>2, <2>3, <2>5, <2>6, <2>7, <2>8, <3>1 DEF Loose, Core, ni, un, pi, pc, pb
  <2> HIDE DEF T
  <2>10. Shifted(S, T, u, Gone)
    <3>1. ~Pooled(Gone) /\ (\A ip : ~IsAt(Gone, ip)) /\ (\A k : ~IsIn(Gone, k))
      BY GoneFacts DEF Pooled, IsAt, IsIn
    <3> HIDE DEF un, pi, pc, pb
    <3> QED BY <1>0, <2>2, <2>5, <2>6, <2>7, <2>8, <3>1 DEF Shifted, B
  <2>11. Reindexed(S, T, c, Gone)
    <3>1. \A n \in Nick : S.nick_index[n] = c <=> u.nick = n
      BY <1>0, <1>2 DEF Sound, Indexed, Live
    <3> QED BY <1>0, <2>2, <3>1, GoneFacts DEF Reindexed
  <2>12. Tidy(Gone)
    BY GoneFacts DEF Tidy
  <2>13. Lookups(T)
    BY <1>0, <2>2, GoneFacts DEF Sound, Lookups
  <2>14. Fits(S, c, u, Gone)
    BY GoneFacts DEF Fits, IsIn, Let
  <2>15. Sound(T)
    BY <2>9, <2>2, <2>10, <2>11, <2>12, <2>13, <2>14, GoneFacts, Changed
  <2>17. Unbanned(S) => Unbanned(T)
    BY <1>0, <2>2, GoneFacts, ChangedBans
  <2>16. Removed(S, T, c)
    BY <2>2 DEF Removed
  <2> QED BY <1>2, <2>15, <2>16, <2>17 DEF T
<1> QED BY <1>1, <1>2

\* on_user_quit and remove_user, of a connection that is there.
Quits(S, T, c) ==
    /\ T.users = [S.users EXCEPT ![c] = Gone]
    /\ T.passed = [g \in Gate |-> S.passed[g] \ {c}]
    /\ T.xlines = S.xlines /\ T.cleared = S.cleared /\ T.jobs = S.jobs
    /\ T.vetted = S.vetted

\* quit_user also takes it out of the gates.
LEMMA QuitUser ==
  ASSUME NEW S, Sound(S), NEW c \in Conn, S.users[c].phase = "live"
  PROVE  /\ Sound(quit_user(S, c)) /\ (Unbanned(S) => Unbanned(quit_user(S, c)))
         /\ Quits(S, quit_user(S, c), c)
<1> DEFINE P == [S EXCEPT !.challenged = [g \in Gate |-> @[g] \ {c}],
                          !.passed     = [g \in Gate |-> @[g] \ {c}]]
<1>0. S \in Core
  BY DEF Sound
<1>1. /\ P \in Core /\ P.users = S.users /\ Kept(S, P) /\ P.jobs = S.jobs
      /\ P.xlines = S.xlines /\ P.cleared = S.cleared /\ P.vetted = S.vetted
      /\ P.passed = [g \in Gate |-> S.passed[g] \ {c}]
  BY <1>0 DEF Core, Kept
<1> HIDE DEF P
<1>2. Lookups(P)
  BY <1>1 DEF Sound, Lookups
<1>3. Sound(P) /\ (Unbanned(S) => Unbanned(P))
  BY <1>1, <1>2, Aside
<1>4. quit_user(S, c) = remove_user(P, c)
  BY DEF quit_user, P
<1> QED BY <1>1, <1>3, <1>4, RemoveUser DEF Removed, Quits

-----------------------------------------------------------------------------
(* The folds over sets of connections.                                     *)

\* The connections of s are gone, and nothing else has changed.
Dropped(S, T, s) ==
    /\ T.users = [d \in Conn |-> IF d \in s THEN Gone ELSE S.users[d]]
    /\ T.xlines = S.xlines /\ T.challenged = S.challenged /\ T.passed = S.passed
    /\ T.cleared = S.cleared /\ T.jobs = S.jobs /\ T.vetted = S.vetted

RemoveEquation(S, cs, it) ==
    it = [s \in SUBSET cs |-> IF s = {} THEN S
                              ELSE remove_user(it[s \ {Chosen(s)}], Chosen(s))]

\* The fold that removes a set of connections satisfies its equation.
LEMMA RemoveAllFold ==
  ASSUME NEW S, NEW cs, NEW it, RemoveEquation(S, cs, it)
  PROVE  \E jt : RemoveEquation(S, cs, jt) /\ RemoveAll(S, cs) = jt[cs]
<1>1. PICK jt : jt = CHOOSE k : RemoveEquation(S, cs, k)
  OBVIOUS
<1>2. RemoveEquation(S, cs, jt)
  BY <1>1
<1>3. RemoveAll(S, cs) = jt[cs]
  BY <1>1, Zenon DEF RemoveAll, FoldSet, MapThenFoldSet, RemoveEquation, Chosen
<1> QED BY <1>2, <1>3

\* After it exactly those connections are gone.
LEMMA RemoveAllUsers ==
  ASSUME NEW S, Sound(S), NEW cs \in SUBSET Live(S)
  PROVE  Sound(RemoveAll(S, cs)) /\ Dropped(S, RemoveAll(S, cs), cs)
<1> DEFINE V == {X \in Core : Sound(X)}
           g == [p \in V \X cs |-> remove_user(p[1], p[2])]
<1>0. S \in V /\ cs \in SUBSET Conn /\ IsFiniteSet(cs)
  BY Finite DEF Sound, Live
<1>1. g \in [V \X cs -> V]
  <2>1. ASSUME NEW X \in V, NEW c \in cs PROVE remove_user(X, c) \in V
    <3>1. Sound(remove_user(X, c))
      BY <1>0, RemoveUser
    <3> QED BY <3>1 DEF Sound
  <2> HIDE DEF V
  <2> QED BY <2>1
<1>2. PICK it \in [SUBSET cs -> V] : SetFold(cs, S, g, it)
  <2> HIDE DEF V, g
  <2> QED BY <1>0, <1>1, SetFoldExists, Zenon
<1>3. RemoveEquation(S, cs, it)
  <2>1. ASSUME NEW s \in SUBSET cs, s # {}
        PROVE  it[s] = remove_user(it[s \ {Chosen(s)}], Chosen(s))
    <3>1. Chosen(s) \in cs
      BY <2>1, ChosenIn
    <3>2. it[s \ {Chosen(s)}] \in V
      OBVIOUS
    <3> HIDE DEF V
    <3> QED BY <1>2, <2>1, <3>1, <3>2 DEF SetFold
  <2>2. it[{}] = S
    BY <1>2 DEF SetFold
  <2> HIDE DEF V, g
  <2> QED BY <2>1, <2>2 DEF RemoveEquation
<1>4. PICK jt : RemoveEquation(S, cs, jt) /\ RemoveAll(S, cs) = jt[cs]
  BY <1>3, RemoveAllFold
<1>5. jt[{}] = S /\ \A s \in SUBSET cs : s # {} =>
                       jt[s] = remove_user(jt[s \ {Chosen(s)}], Chosen(s))
  BY <1>4 DEF RemoveEquation
<1> DEFINE W == [s \in SUBSET cs |-> {X \in V : Dropped(S, X, s)}]
<1>6. jt[{}] \in W[{}]
  <2>1. Dropped(S, S, {})
    BY <1>0 DEF Dropped, Sound, Core
  <2> QED BY <1>0, <1>5, <2>1
<1>7. ASSUME NEW s \in SUBSET cs, s # {}, jt[s \ {Chosen(s)}] \in W[s \ {Chosen(s)}]
      PROVE  jt[s] \in W[s]
  <2> DEFINE c == Chosen(s)
             X == jt[s \ {c}]
  <2>1. c \in s /\ c \in Conn
    BY <1>0, <1>7, ChosenIn
  <2>2. X \in V /\ Dropped(S, X, s \ {c})
    BY <1>7
  <2>3. X.users[c] = S.users[c] /\ S.users[c].phase = "live"
    BY <2>1, <2>2 DEF Dropped, Live
  <2>4. Sound(remove_user(X, c)) /\ Removed(X, remove_user(X, c), c)
    BY <2>1, <2>2, <2>3, RemoveUser
  <2>5. Dropped(S, remove_user(X, c), s)
    BY <2>1, <2>2, <2>4 DEF Dropped, Removed
  <2>6. jt[s] = remove_user(X, c)
    BY <1>5, <1>7
  <2> QED BY <2>4, <2>5, <2>6 DEF Sound
<1>8. jt[cs] \in W[cs]
  <2> HIDE DEF V, W
  <2> QED BY <1>0, <1>6, <1>7, SetFoldStays
<1> QED BY <1>4, <1>8

\* quit_user of each of a set of connections.
QuitEquation(S, cs, it) ==
    it = [s \in SUBSET cs |-> IF s = {} THEN S
                              ELSE quit_user(it[s \ {Chosen(s)}], Chosen(s))]

QuitAll(S, cs) == FoldSet(LAMBDA c, acc : quit_user(acc, c), S, cs)

\* The same for the fold over quit_user.
LEMMA QuitAllFold ==
  ASSUME NEW S, NEW cs, NEW it, QuitEquation(S, cs, it)
  PROVE  \E jt : QuitEquation(S, cs, jt) /\ QuitAll(S, cs) = jt[cs]
<1>1. PICK jt : jt = CHOOSE k : QuitEquation(S, cs, k)
  OBVIOUS
<1>2. QuitEquation(S, cs, jt)
  BY <1>1
<1>3. QuitAll(S, cs) = jt[cs]
  BY <1>1, Zenon DEF QuitAll, FoldSet, MapThenFoldSet, QuitEquation, Chosen
<1> QED BY <1>2, <1>3

Quitted(S, T, s) ==
    /\ T.users = [d \in Conn |-> IF d \in s THEN Gone ELSE S.users[d]]
    /\ T.passed = [g \in Gate |-> S.passed[g] \ s]
    /\ T.xlines = S.xlines /\ T.cleared = S.cleared /\ T.jobs = S.jobs
    /\ T.vetted = S.vetted

\* quit_user of a connection that is not there only touches the gates.
LEMMA QuitSound ==
  ASSUME NEW S, Sound(S), NEW c \in Conn
  PROVE  Sound(quit_user(S, c))
<1> DEFINE P == [S EXCEPT !.challenged = [g \in Gate |-> @[g] \ {c}],
                          !.passed     = [g \in Gate |-> @[g] \ {c}]]
<1>0. S \in Core
  BY DEF Sound
<1>1. P \in Core /\ P.users = S.users /\ Kept(S, P) /\ P.jobs = S.jobs
  BY <1>0 DEF Core, Kept
<1> HIDE DEF P
<1>2. Lookups(P)
  BY <1>1 DEF Sound, Lookups
<1>3. Sound(P)
  BY <1>1, <1>2, Aside
<1>4. quit_user(S, c) = remove_user(P, c)
  BY DEF quit_user, P
<1> QED BY <1>3, <1>4, RemoveUser

\* After it exactly those connections are gone, from the gates as well.
LEMMA QuitAllUsers ==
  ASSUME NEW S, Sound(S), Unbanned(S), NEW cs \in SUBSET Live(S)
  PROVE  /\ Sound(QuitAll(S, cs)) /\ Unbanned(QuitAll(S, cs))
         /\ Quitted(S, QuitAll(S, cs), cs)
<1> DEFINE V == {X \in Core : Sound(X)}
           g == [p \in V \X cs |-> quit_user(p[1], p[2])]
<1>0. S \in V /\ cs \in SUBSET Conn /\ IsFiniteSet(cs)
  BY Finite DEF Sound, Live
<1>1. g \in [V \X cs -> V]
  <2>1. ASSUME NEW X \in V, NEW c \in cs PROVE quit_user(X, c) \in V
    <3>1. Sound(quit_user(X, c))
      BY <1>0, QuitSound
    <3> QED BY <3>1 DEF Sound
  <2> HIDE DEF V
  <2> QED BY <2>1
<1>2. PICK it \in [SUBSET cs -> V] : SetFold(cs, S, g, it)
  <2> HIDE DEF V, g
  <2> QED BY <1>0, <1>1, SetFoldExists, Zenon
<1>3. QuitEquation(S, cs, it)
  <2>1. ASSUME NEW s \in SUBSET cs, s # {}
        PROVE  it[s] = quit_user(it[s \ {Chosen(s)}], Chosen(s))
    <3>1. Chosen(s) \in cs
      BY <2>1, ChosenIn
    <3>2. it[s \ {Chosen(s)}] \in V
      OBVIOUS
    <3> HIDE DEF V
    <3> QED BY <1>2, <2>1, <3>1, <3>2 DEF SetFold
  <2>2. it[{}] = S
    BY <1>2 DEF SetFold
  <2> HIDE DEF V, g
  <2> QED BY <2>1, <2>2 DEF QuitEquation
<1>4. PICK jt : QuitEquation(S, cs, jt) /\ QuitAll(S, cs) = jt[cs]
  BY <1>3, QuitAllFold
<1>5. jt[{}] = S /\ \A s \in SUBSET cs : s # {} =>
                       jt[s] = quit_user(jt[s \ {Chosen(s)}], Chosen(s))
  BY <1>4 DEF QuitEquation
<1> DEFINE W == [s \in SUBSET cs |-> {X \in V : Unbanned(X) /\ Quitted(S, X, s)}]
<1>6. jt[{}] \in W[{}]
  <2>1. Quitted(S, S, {})
    BY <1>0 DEF Quitted, Sound, Core
  <2> QED BY <1>0, <1>5, <2>1
<1>7. ASSUME NEW s \in SUBSET cs, s # {}, jt[s \ {Chosen(s)}] \in W[s \ {Chosen(s)}]
      PROVE  jt[s] \in W[s]
  <2> DEFINE c == Chosen(s)
             X == jt[s \ {c}]
             Y == quit_user(X, c)
  <2>1. c \in s /\ c \in Conn
    BY <1>0, <1>7, ChosenIn
  <2>2. Sound(X) /\ Unbanned(X) /\ Quitted(S, X, s \ {c})
    BY <1>7
  <2>3. X.users[c] = S.users[c] /\ S.users[c].phase = "live"
    BY <2>1, <2>2 DEF Quitted, Live
  <2>6. jt[s] = Y
    BY <1>5, <1>7
  <2> HIDE DEF c, X
  <2>4. Sound(Y) /\ Unbanned(Y) /\ Quits(X, Y, c)
    BY <2>1, <2>2, <2>3, QuitUser
  <2> HIDE DEF Y
  <2>7. Y.users = [d \in Conn |-> IF d \in s THEN Gone ELSE S.users[d]]
    BY <2>1, <2>2, <2>4 DEF Quitted, Quits
  <2>8. Y.passed = [h \in Gate |-> S.passed[h] \ s]
    <3>1. X.passed = [h \in Gate |-> S.passed[h] \ (s \ {c})]
      BY <2>2 DEF Quitted
    <3>2. \A h \in Gate : X.passed[h] \ {c} = S.passed[h] \ s
      BY <2>1, <3>1
    <3> QED BY <2>4, <3>2 DEF Quits
  <2>5. Quitted(S, Y, s)
    BY <2>2, <2>4, <2>7, <2>8 DEF Quitted, Quits
  <2> QED BY <2>4, <2>5, <2>6 DEF Sound
<1>8. jt[cs] \in W[cs]
  <2> HIDE DEF V, W
  <2> QED BY <1>0, <1>6, <1>7, SetFoldStays
<1> QED BY <1>4, <1>8

-----------------------------------------------------------------------------
(* A ban drops the registered users it hits.                               *)

\* A new line drops the registered users it hits, so that nobody banned is left.
LEMMA AddXlineDrops ==
  ASSUME NEW S, Good(S), NEW x \in XLine
  PROVE  LET T == add_xline(S, x) IN
         /\ Good(T)
         /\ \E s \in SUBSET Registered(S) :
               T.users = [d \in Conn |-> IF d \in s THEN Gone ELSE S.users[d]]
         /\ T.xlines = S.xlines \cup {x} /\ T.passed = S.passed
         /\ T.cleared = S.cleared /\ T.jobs = S.jobs
<1> DEFINE W == [S EXCEPT !.xlines = @ \cup {x}]
           with == Judged(W)
           s == {c \in Registered(W) : matched_xline(W, W.users[c])}
           T == RemoveAll(with, s)
<1>0. S \in Core /\ S.users \in [Conn -> User]
  BY DEF Good, Sound, Core
<1>a. W \in Core /\ W.users = S.users /\ W.xlines = S.xlines \cup {x} /\ Registered(W) \subseteq Conn
  BY <1>0 DEF Core, Registered, Live
<1>1. /\ with \in Core /\ with.users = S.users /\ Kept(S, with) /\ with.jobs = S.jobs
      /\ with.xlines = S.xlines \cup {x} /\ with.passed = S.passed
      /\ with.cleared = S.cleared
  <2> DEFINE R == Registered(W)
  <2> HIDE DEF R
  <2>1. with = [S EXCEPT !.xlines = @ \cup {x}, !.vetted = @ \cup R]
    BY <1>0 DEF Judged, R, Core
  <2>2. R \subseteq Conn
    BY <1>a DEF R
  <2> HIDE DEF with
  <2> QED BY <1>0, <2>1, <2>2 DEF Core, Kept
<1>2. add_xline(S, x) = T
  BY DEF add_xline, enforce_xlines
<1>4. s \in SUBSET Registered(S) /\ \A c \in Registered(S) : matched_xline(W, S.users[c]) => c \in s
  BY <1>a DEF Registered, Live
<1> HIDE DEF with, s, W
<1>5. Lookups(with)
  BY <1>1 DEF Good, Sound, Lookups
<1>6. Sound(with)
  BY <1>1, <1>5, Aside DEF Good
<1>7. s \in SUBSET Live(with)
  BY <1>1, <1>4 DEF Live, Registered
<1>8. Sound(T) /\ Dropped(with, T, s)
  BY <1>6, <1>7, RemoveAllUsers
<1> HIDE DEF T
<1>9. Unbanned(T)
  <2> SUFFICES ASSUME NEW d \in Registered(T) PROVE ~matched_xline(T, T.users[d])
    BY DEF Unbanned
  <2>1. d \notin s /\ T.users[d] = S.users[d] /\ d \in Registered(S)
    BY <1>1, <1>8, GoneFacts DEF Dropped, Registered, Live
  <2>2. ~matched_xline(W, S.users[d])
    BY <1>4, <2>1
  <2>3. T.xlines = W.xlines
    BY <1>1, <1>8, <1>a DEF Dropped
  <2> QED BY <2>1, <2>2, <2>3, SameBans
<1>10. T.users = [d \in Conn |-> IF d \in s THEN Gone ELSE S.users[d]]
  BY <1>1, <1>8 DEF Dropped
<1> QED BY <1>1, <1>2, <1>4, <1>8, <1>9, <1>10 DEF Good, Dropped

-----------------------------------------------------------------------------
(* What an event may do when it is about the connection c.                 *)

\* c is registered, and has what it takes.
Earned(S, c) ==
    LET u == S.users[c] IN
    /\ u.registered /\ u.nick # None /\ u.ident # None
    /\ RequireIdent => u.ident # "tilde"
    /\ Closed(S, c) = {}

\* A welcome is earned, and stays so.
Fair(S, T, c) ==
    /\ T.users[c].registered => S.users[c].registered \/ Earned(T, c)
    /\ T.users[c].registered /\ Earned(S, c) => Earned(T, c)

\* The other connections are dropped or left alone.
Beside(S, T, c) ==
    /\ \A d \in Conn : d # c => T.users[d] \in {S.users[d], Gone}
    /\ \A d \in Conn, g \in Gate : d # c => (d \in T.passed[g] <=> d \in S.passed[g])
    /\ T.cleared = S.cleared
    /\ \A j \in S.jobs : j.uid # c => j \in T.jobs

Step(S, T, c) ==
    /\ Good(T)
    /\ Beside(S, T, c)
    /\ Waits(S, c) => Waits(T, c)
    /\ Fair(S, T, c)

\* Doing nothing is a step.
LEMMA StepSame ==
  ASSUME NEW S, Good(S), NEW c \in Conn
  PROVE  Step(S, S, c)
BY DEF Step, Beside, Fair

\* Two steps about c make one.
LEMMA StepThen ==
  ASSUME NEW S, NEW T, NEW U, NEW c \in Conn, Step(S, T, c), Step(T, U, c)
  PROVE  Step(S, U, c)
<1>1. Beside(S, U, c)
  BY DEF Step, Beside
<1>2. Fair(S, U, c)
  BY DEF Step, Fair, Earned
<1> QED BY <1>1, <1>2 DEF Step

\* The gates see the address of a connection, and who passed them.
LEMMA SameGates ==
  ASSUME NEW S, NEW T, NEW c \in Conn, T.users[c].ip = S.users[c].ip,
         T.cleared = S.cleared, \A g \in Gate : c \in T.passed[g] <=> c \in S.passed[g]
  PROVE  Closed(T, c) = Closed(S, c)
<1>1. \A i \in DOMAIN Gates : Gates[i] \in Gate
  BY DEF Gate
<1> QED BY <1>1 DEF Closed, Cleared

\* The other connections wait for what they waited for, before the same gates.
LEMMA OthersWait ==
  ASSUME NEW S, NEW T, NEW c \in Conn, Beside(S, T, c), NEW d \in Conn, d # c
  PROVE  /\ Waits(S, d) => Waits(T, d)
         /\ Held(S, d) => Held(T, d)
         /\ T.users[d].registered => S.users[d].registered
         /\ T.users[d].registered /\ Earned(S, d) => Earned(T, d)
<1>1. CASE T.users[d] = Gone
  BY <1>1, GoneFacts DEF Waits, Held, Ripe, ready
<1>2. CASE T.users[d] = S.users[d]
  <2>1. Closed(T, d) = Closed(S, d)
    BY <1>2, SameGates DEF Beside
  <2>2. \A k : Asked(S, d, k) => Asked(T, d, k)
    BY DEF Beside, Asked, Running
  <2>3. Waits(S, d) => Waits(T, d)
    BY <1>2, <2>2 DEF Waits
  <2> QED BY <1>2, <2>1, <2>3 DEF Held, Earned
<1> QED BY <1>1, <1>2 DEF Beside

\* The only record that an operation changes.
Only(S, T, c, v) ==
    /\ T.users = [S.users EXCEPT ![c] = v]
    /\ T.passed = S.passed /\ T.cleared = S.cleared

\* Changing one record leaves the others alone.
LEMMA OnlyBeside ==
  ASSUME NEW S, S.users \in [Conn -> User], NEW T, NEW c \in Conn, NEW v, Only(S, T, c, v),
         \A j \in S.jobs : j.uid # c => j \in T.jobs
  PROVE  Beside(S, T, c) /\ T.users[c] = v
BY DEF Only, Beside

\* remove_user is a step, after which c is not there.
LEMMA Leaves ==
  ASSUME NEW S, Good(S), NEW c \in Conn
  PROVE  /\ Step(S, remove_user(S, c), c)
         /\ remove_user(S, c).users[c].phase # "live"
         /\ remove_user(S, c).jobs = S.jobs
         /\ S.users[c].phase = "live" => remove_user(S, c).users[c] = Gone
<1> DEFINE T == remove_user(S, c)
<1>0. Good(T) /\ S.users \in [Conn -> User]
  BY RemoveUser DEF Good, Sound, Core
<1>1. CASE S.users[c].phase # "live"
  <2>1. T = S
    BY <1>1, RemoveUser DEF Good
  <2> HIDE DEF T
  <2> QED BY <1>1, <2>1, StepSame DEF T
<1>2. CASE S.users[c].phase = "live"
  <2>1. Removed(S, T, c)
    BY <1>2, RemoveUser DEF Good
  <2> HIDE DEF T
  <2>2. Beside(S, T, c) /\ T.users[c] = Gone
    BY <1>0, <2>1, OnlyBeside DEF Removed, Only
  <2>3. Step(S, T, c)
    BY <1>0, <2>2, GoneFacts DEF Step, Fair, Waits
  <2> QED BY <2>1, <2>2, <2>3, GoneFacts DEF T, Removed
<1> QED BY <1>1, <1>2

\* What the lines and the gates were asked about c stays true of v.
Unasked(u, v) ==
    u.registered => /\ v.host = u.host
                    /\ v.ident = u.ident \/ v.ident \notin {None, "tilde"}

\* One record and who was asked about change.
Retuned(S, c, v, w) == [S EXCEPT !.users[c] = v, !.vetted = w]

\* The record keeps its place and its holds.
Tunes(S, c, v, w) ==
    LET u == S.users[c]
    IN  /\ v \in User /\ SamePlace(u, v) /\ Tidy(v) /\ Unasked(u, v)
        /\ v.dns_pending = u.dns_pending /\ v.ident_pending = u.ident_pending
        /\ v.auth_pending = u.auth_pending
        /\ w \in SUBSET Conn /\ w \subseteq S.vetted \cup {c}
        /\ v.registered /\ c \in w => c \in S.vetted /\ v.ident = u.ident

LEMMA Tuned ==
  ASSUME NEW S, Good(S), NEW c \in Conn, NEW v, NEW w, Tunes(S, c, v, w),
         NEW T, T = Retuned(S, c, v, w)
  PROVE  /\ Step(S, T, c) /\ T.users[c] = v /\ T.jobs = S.jobs /\ T.xlines = S.xlines
         /\ T.passed = S.passed /\ T.cleared = S.cleared /\ T.vetted = w
<1> DEFINE u == S.users[c]
<1>0. S \in Core /\ S.users \in [Conn -> User] /\ u \in User
  BY DEF Good, Sound, Core
<1>b. /\ v \in User /\ SamePlace(u, v) /\ Tidy(v) /\ Unasked(u, v)
      /\ v.dns_pending = u.dns_pending /\ v.ident_pending = u.ident_pending
      /\ v.auth_pending = u.auth_pending
      /\ w \in SUBSET Conn /\ w \subseteq S.vetted \cup {c}
      /\ v.registered /\ c \in w => c \in S.vetted /\ v.ident = u.ident
  BY DEF Tunes
<1>1. /\ T \in Core /\ Kept(S, T) /\ T.jobs = S.jobs /\ T.xlines = S.xlines
      /\ Only(S, T, c, v) /\ T.vetted = w
  BY <1>0, <1>b DEF Core, Kept, Only, Retuned
<1>2. T.users[c] = v /\ T.users = [S.users EXCEPT ![c] = v] /\ Beside(S, T, c)
  BY <1>0, <1>1, OnlyBeside DEF Only
<1>3. Lookups(T)
  BY <1>0, <1>1, <1>2, <1>b DEF Good, Sound, Lookups, SamePlace
<1>a. Judgement(S, T, c, u, v)
  BY <1>1, <1>b DEF Judgement, SamePlace, Unasked
<1>4. Good(T)
  BY <1>1, <1>2, <1>3, <1>a, <1>b, Touched DEF Good
<1>5. Closed(T, c) = Closed(S, c)
  <2>1. T.users[c].ip = S.users[c].ip /\ T.cleared = S.cleared /\ T.passed = S.passed
    BY <1>1, <1>2, <1>b DEF SamePlace, Only
  <2> QED BY <2>1, SameGates
<1>6. Waits(S, c) => Waits(T, c)
  BY <1>1, <1>2, <1>b DEF Waits, Asked, Running
<1>7. Fair(S, T, c)
  BY <1>2, <1>5, <1>b DEF Fair, Earned, SamePlace, Unasked
<1> QED BY <1>1, <1>2, <1>4, <1>6, <1>7 DEF Step, Only

\* finalize changes at most the ident, which the lines were asked about if it stays.
LEMMA FinalizeStep ==
  ASSUME NEW S, Good(S), NEW c \in Conn, ~S.users[c].registered
  PROVE  LET F == finalize(S, c)
             u == S.users[c]
         IN  /\ Step(S, F, c) /\ F.xlines = S.xlines
             /\ F.passed = S.passed /\ F.cleared = S.cleared
             /\ \E x \in {u.ident, "real"} :
                   F.users[c] = [u EXCEPT !.ident = x] /\ (c \in F.vetted => x = u.ident)
<1> DEFINE u == S.users[c]
           F == finalize(S, c)
           x == IF u.answer = "confirmed" THEN "real" ELSE u.ident
           v == [u EXCEPT !.ident = x]
           w == IF x = u.ident THEN S.vetted \cup {c} ELSE S.vetted \ {c}
<1>0. S \in Core /\ S.users \in [Conn -> User] /\ u \in User /\ Tidy(u)
  BY DEF Good, Sound, Core
<1>1. F = Retuned(S, c, v, w)
  BY <1>0 DEF finalize, Core, Retuned
<1>2. v \in User /\ x \in {u.ident, "real"}
  BY <1>0 DEF User, IdentName
<1>3. SamePlace(u, v)
  BY <1>0 DEF SamePlace, User
<1>4. Tidy(v)
  BY <1>0, RegistrationAssumption DEF Tidy, User, Slow, IdentName
<1>5. /\ v.dns_pending = u.dns_pending /\ v.ident_pending = u.ident_pending
      /\ v.auth_pending = u.auth_pending
  BY <1>0 DEF User
<1>6. w \in SUBSET Conn /\ w \subseteq S.vetted \cup {c} /\ (c \in w => x = u.ident)
  BY <1>0 DEF Core
<1>7. ~v.registered /\ Unasked(u, v)
  BY <1>3 DEF SamePlace, Unasked
<1> SUFFICES /\ Step(S, F, c) /\ F.xlines = S.xlines
             /\ F.passed = S.passed /\ F.cleared = S.cleared
             /\ \E y \in {u.ident, "real"} :
                   F.users[c] = [u EXCEPT !.ident = y] /\ (c \in F.vetted => y = u.ident)
  OBVIOUS
<1> HIDE DEF v, F, x, w
<1>a. Tunes(S, c, v, w)
  BY <1>2, <1>3, <1>4, <1>5, <1>6, <1>7 DEF Tunes
<1>8. /\ Step(S, F, c) /\ F.users[c] = v /\ F.xlines = S.xlines /\ F.passed = S.passed
      /\ F.cleared = S.cleared /\ F.vetted = w
  BY <1>1, <1>a, Tuned
<1>9. F.users[c] = [u EXCEPT !.ident = x]
  BY <1>8 DEF v
<1> QED BY <1>2, <1>6, <1>8, <1>9

-----------------------------------------------------------------------------
(* Classes.                                                                *)

\* The block that pick returns is suitable.
LEMMA Pick ==
  ASSUME NEW S, NEW c, NEW host
  PROVE  LET i == pick(S, c, host)
         IN  i # 0 => i \in DOMAIN ClassSeq /\ Suitable(S, c, host, i)
<1> DEFINE ok == {i \in DOMAIN ClassSeq : Suitable(S, c, host, i)}
<1>1. ok \in SUBSET Nat
  BY RegistrationAssumption
<1>2. ok # {} => Min(ok) \in ok
  BY <1>1, MinIn
<1>3. pick(S, c, host) = IF ok = {} THEN 0 ELSE Min(ok)
  BY DEF pick
<1>4. \A i \in ok : i \in DOMAIN ClassSeq /\ Suitable(S, c, host, i)
  OBVIOUS
<1> HIDE DEF ok
<1> QED BY <1>2, <1>3, <1>4

\* One count less here, one more there.
LEMMA Moved ==
  ASSUME NEW D, NEW f \in [D -> Int], NEW a, NEW b
  PROVE  /\ Bumped(Bumped(f, a, -1), b, 1) \in [D -> Int]
         /\ \A x \in D : Bumped(Bumped(f, a, -1), b, 1)[x] = f[x] + B(x = b) - B(x = a)
<1>1. \A e \in Int, h \in [D -> Int] : \A y :
         /\ Bumped(h, y, e) \in [D -> Int]
         /\ \A x \in D : Bumped(h, y, e)[x] = h[x] + (IF x = y THEN e ELSE 0)
  BY DEF Bumped
<1> DEFINE g == Bumped(f, a, -1)
<1>2. g \in [D -> Int] /\ \A x \in D : g[x] = f[x] + (IF x = a THEN -1 ELSE 0)
  BY <1>1
<1> HIDE DEF g
<1>3. /\ Bumped(g, b, 1) \in [D -> Int]
      /\ \A x \in D : Bumped(g, b, 1)[x] = g[x] + (IF x = b THEN 1 ELSE 0)
  BY <1>1, <1>2
<1>4. \A x \in D : Bumped(g, b, 1)[x] = f[x] + B(x = b) - B(x = a)
  BY <1>2, <1>3 DEF B
<1> QED BY <1>3, <1>4 DEF g

\* The counts that leave c out.
LEMMA ClassCounts ==
  ASSUME NEW S, Sound(S), NEW c \in Conn, S.users[c].phase = "live", NEW k \in ClassName
  PROVE  /\ class_count(S, c, k) = Cardinality(InClass(S, k) \ {c})
         /\ local_clones(S, c, k) = Cardinality(Here(S, S.users[c].ip, k) \ {c})
<1> DEFINE u == S.users[c]
<1>0. u \in User /\ u.ip \in IP
  BY DEF Sound, Core, User
<1>1. S.per_class[k] = Cardinality(InClass(S, k))
  BY DEF Sound, Counted
<1>2. S.per_ip_class[<<u.ip, k>>] = Cardinality(Here(S, u.ip, k))
  BY <1>0 DEF Sound, Counted
<1>3. c \in InClass(S, k) <=> u.class = k
  BY DEF InClass, Live
<1>4. c \in Here(S, u.ip, k) <=> u.class = k
  BY DEF Here, Live
<1>5. InClass(S, k) \in SUBSET Conn /\ Here(S, u.ip, k) \in SUBSET Conn
  BY DEF InClass, Here, Live
<1>6. ASSUME NEW X \in SUBSET Conn
      PROVE  Cardinality(X \ {c}) = Cardinality(X) - (IF c \in X THEN 1 ELSE 0)
  <2>1. IsFiniteSet(X) /\ Cardinality(X) \in Nat
    BY Finite
  <2>2. CASE c \in X
    BY <2>1, <2>2, FS_RemoveElement
  <2>3. CASE c \notin X
    <3>1. X \ {c} = X
      BY <2>3
    <3> QED BY <2>1, <2>3, <3>1
  <2> QED BY <2>2, <2>3
<1>7. class_count(S, c, k) = Cardinality(InClass(S, k) \ {c})
  BY <1>1, <1>3, <1>5, <1>6 DEF class_count
<1>8. local_clones(S, c, k) = Cardinality(Here(S, u.ip, k) \ {c})
  BY <1>2, <1>4, <1>5, <1>6 DEF local_clones
<1> QED BY <1>7, <1>8

\* A move to a class with room keeps the counters and the limits.
LEMMA SetClass ==
  ASSUME NEW S, Good(S), NEW c \in Conn, NEW i \in DOMAIN ClassSeq,
         S.users[c].phase = "live", ~S.users[c].registered, ~S.users[c].auth_pending,
         ClassSeq[i].limit > 0 =>
            Cardinality(InClass(S, ClassSeq[i].name) \ {c}) < ClassSeq[i].limit
  PROVE  LET R == set_class(S, c, ClassSeq[i].name)
         IN  /\ Step(S, R, c) /\ R.xlines = S.xlines /\ R.jobs = S.jobs
             /\ R.vetted = S.vetted /\ R.users[c] = [S.users[c] EXCEPT !.class = ClassSeq[i].name]
<1> DEFINE k == ClassSeq[i].name
           u == S.users[c]
           v == [u EXCEPT !.class = k]
           R == set_class(S, c, k)
           pc == Bumped(Bumped(S.per_class, u.class, -1), k, 1)
           pb == Bumped(Bumped(S.per_ip_class, <<u.ip, u.class>>, -1), <<u.ip, k>>, 1)
<1>0. /\ S \in Core /\ S.users \in [Conn -> User] /\ u \in User /\ Tidy(u)
      /\ S.nick_index \in [Nick -> Conn \cup {None}]
      /\ S.unreg \in Nat /\ S.per_ip \in [IP -> Nat] /\ S.per_class \in [ClassName -> Nat]
      /\ S.per_ip_class \in [IP \X ClassName -> Nat]
  BY DEF Good, Sound, Core
<1>a. /\ u.ip \in IP /\ u.class \in ClassName \cup {None} /\ k \in ClassName
      /\ u.registered \in BOOLEAN /\ None \notin ClassName
  BY <1>0, Constants, RegistrationAssumption DEF User
<1>1. /\ v \in User /\ v.class = k /\ v.phase = "live" /\ v.registered = u.registered
      /\ v.ip = u.ip /\ v.nick = u.nick /\ v.auth_pending = u.auth_pending
      /\ v.dns_pending = u.dns_pending /\ v.ident_pending = u.ident_pending
      /\ v.host = u.host /\ v.ident = u.ident
  BY <1>0, <1>a DEF User
<1>2. R = [S EXCEPT !.users[c] = v, !.per_class = pc, !.per_ip_class = pb]
  BY <1>0 DEF set_class, Core
<1>3. /\ R.users = [S.users EXCEPT ![c] = v] /\ R.per_class = pc /\ R.per_ip_class = pb
      /\ R.unreg = S.unreg /\ R.per_ip = S.per_ip /\ R.nick_index = S.nick_index
      /\ R.xlines = S.xlines /\ R.jobs = S.jobs /\ R.passed = S.passed
      /\ R.cleared = S.cleared /\ R.vetted = S.vetted
  BY <1>0, <1>2 DEF Core
<1>4. /\ pc \in [ClassName -> Int]
      /\ pc = [x \in ClassName |-> S.per_class[x] + B(IsIn(v, x)) - B(IsIn(u, x))]
  <2>1. pc \in [ClassName -> Int]
        /\ \A x \in ClassName : pc[x] = S.per_class[x] + B(x = k) - B(x = u.class)
    BY <1>0, Moved
  <2>2. \A x \in ClassName : /\ B(x = k) = B(IsIn(v, x))
                             /\ B(x = u.class) = B(IsIn(u, x))
    BY <1>1 DEF B, IsIn
  <2> HIDE DEF pc, v
  <2> QED BY <2>1, <2>2
<1>5. /\ pb \in [IP \X ClassName -> Int]
      /\ pb = [p \in IP \X ClassName |->
                 S.per_ip_class[p] + B(IsAt(v, p[1]) /\ IsIn(v, p[2]))
                                   - B(IsAt(u, p[1]) /\ IsIn(u, p[2]))]
  <2> DEFINE X == IP \X ClassName
  <2>1. /\ pb \in [X -> Int]
        /\ \A p \in X : pb[p] = S.per_ip_class[p] + B(p = <<u.ip, k>>)
                                                  - B(p = <<u.ip, u.class>>)
    BY <1>0, Moved
  <2>2. \A p \in X : /\ B(p = <<u.ip, k>>) = B(IsAt(v, p[1]) /\ IsIn(v, p[2]))
                     /\ B(p = <<u.ip, u.class>>) = B(IsAt(u, p[1]) /\ IsIn(u, p[2]))
    BY <1>1 DEF B, IsIn, IsAt
  <2> HIDE DEF pb, v
  <2> QED BY <2>1, <2>2
<1>6. R \in Loose
  <2>1. [S.users EXCEPT ![c] = v] \in [Conn -> User]
    BY <1>0, <1>1
  <2>2. S.unreg \in Int /\ S.per_ip \in [IP -> Int]
    BY <1>0
  <2> DEFINE us == [S.users EXCEPT ![c] = v]
  <2>3. R = [S EXCEPT !.users = us, !.per_class = pc, !.per_ip_class = pb]
    BY <1>2
  <2>4. S \in Loose
    BY <1>0, CoreLoose
  <2> HIDE DEF v, pc, pb, R, us
  <2>5. us \in [Conn -> User] /\ pc \in [ClassName -> Int] /\ pb \in [IP \X ClassName -> Int]
    BY <1>4, <1>5, <2>1 DEF us
  <2> QED BY <2>3, <2>4, <2>5 DEF Loose
<1> HIDE DEF R
<1>7. Shifted(S, R, u, v)
  <2>1. Pooled(v) = Pooled(u)
    BY <1>1 DEF Pooled
  <2>2. \A ip : IsAt(v, ip) = IsAt(u, ip)
    BY <1>1 DEF IsAt
  <2>3. \A x \in Int : \A b : x + B(b) - B(b) = x
    BY DEF B
  <2>4. R.unreg = S.unreg + B(Pooled(v)) - B(Pooled(u))
    BY <1>0, <1>3, <2>1, <2>3
  <2>5. R.per_ip = [ip \in IP |-> S.per_ip[ip] + B(IsAt(v, ip)) - B(IsAt(u, ip))]
    <3>1. \A ip \in IP : S.per_ip[ip] + B(IsAt(v, ip)) - B(IsAt(u, ip)) = S.per_ip[ip]
      BY <1>0, <2>2, <2>3
    <3> HIDE DEF v
    <3> QED BY <1>0, <1>3, <3>1
  <2> HIDE DEF v, pc, pb
  <2> QED BY <1>3, <1>4, <1>5, <2>4, <2>5 DEF Shifted
<1>8. Reindexed(S, R, c, v)
  <2>1. \A n \in Nick : S.nick_index[n] = c <=> (u.phase = "live" /\ u.nick = n)
    BY <1>0 DEF Good, Sound, Indexed, Live
  <2> QED BY <1>1, <1>3, <2>1 DEF Reindexed
<1>9. Tidy(v)
  <2>1. v.deferred = u.deferred /\ v.waitpong = u.waitpong /\ v.user = u.user
    BY <1>0 DEF User
  <2> HIDE DEF v
  <2> QED BY <1>0, <1>1, <2>1 DEF Tidy
<1>10. Lookups(R)
  <2> HIDE DEF v
  <2> QED BY <1>0, <1>1, <1>3 DEF Good, Sound, Lookups
<1>11. Fits(S, c, u, v)
  <2>1. ASSUME NEW n \in DOMAIN ClassSeq, ClassSeq[n].name = k PROVE ClassSeq[n] = ClassSeq[i]
    BY <2>1, RegistrationAssumption
  <2> HIDE DEF v
  <2> QED BY <1>1, <2>1 DEF Fits, IsIn, Let
<1> HIDE DEF v
<1>12. Sound(R)
  BY <1>1, <1>3, <1>6, <1>7, <1>8, <1>9, <1>10, <1>11, Changed DEF Good
<1>13. Unbanned(R)
  BY <1>0, <1>1, <1>3, ChangedBans DEF Good
<1>14. Beside(S, R, c) /\ R.users[c] = v
  BY <1>0, <1>3, OnlyBeside DEF Only
<1>15. Waits(S, c) => Waits(R, c)
  BY <1>1, <1>3, <1>14 DEF Waits, Asked, Running
<1>16. Fair(S, R, c)
  BY <1>1, <1>14 DEF Fair
<1> QED BY <1>3, <1>12, <1>13, <1>14, <1>15, <1>16 DEF Good, Step, R, v

-----------------------------------------------------------------------------
(* From the handshake to the welcome.                                      *)

NoHold(u) == ~u.dns_pending /\ ~u.ident_pending /\ ~u.auth_pending /\ ~u.waitpong

\* There is room for one more registered client of c's class and address.
Room(S, c) ==
    LET u == S.users[c] IN
    \A i \in DOMAIN ClassSeq :
       ClassSeq[i].name = u.class /\ ClassSeq[i].localmax > 0 =>
          Cardinality(Admitted(S, u.ip, u.class) \ {c}) < ClassSeq[i].localmax

\* The record of c after the welcome, and who is vetted then.
Greeted(u) == [u EXCEPT !.registered = TRUE, !.ident = IF HashIdent THEN "hash" ELSE @]

StillVetted(S, c) ==
    IF HashIdent /\ S.users[c].ident # "hash" THEN S.vetted \ {c} ELSE S.vetted

Greeting(S, c) ==
    [S EXCEPT !.users[c] = Greeted(S.users[c]), !.unreg = note_left_pool(@),
              !.vetted = StillVetted(S, c)]

\* What the welcome leaves of a record.
LEMMA GreetedFacts ==
  ASSUME NEW u \in User
  PROVE  LET v == Greeted(u) IN
         /\ v \in User /\ v.class = u.class /\ v.phase = u.phase /\ v.registered
         /\ v.ip = u.ip /\ v.nick = u.nick /\ v.auth_pending = u.auth_pending
         /\ v.dns_pending = u.dns_pending /\ v.ident_pending = u.ident_pending
         /\ v.host = u.host /\ v.deferred = u.deferred /\ v.waitpong = u.waitpong
         /\ v.ident \in {u.ident, "hash"} /\ (v.ident # u.ident => HashIdent)
         /\ HashIdent => v.ident = "hash"
<1> DEFINE x == IF HashIdent THEN "hash" ELSE u.ident
           v == [u EXCEPT !.registered = TRUE, !.ident = x]
<1>1. x \in IdentName \cup {None} /\ x \in {u.ident, "hash"} /\ (x # u.ident => HashIdent)
      /\ (HashIdent => x = "hash")
  BY DEF User, IdentName
<1>2. Greeted(u) = v
  BY DEF Greeted
<1> HIDE DEF x
<1>3. /\ v \in User /\ v.class = u.class /\ v.phase = u.phase /\ v.registered
      /\ v.ip = u.ip /\ v.nick = u.nick /\ v.auth_pending = u.auth_pending
      /\ v.dns_pending = u.dns_pending /\ v.ident_pending = u.ident_pending
      /\ v.host = u.host /\ v.deferred = u.deferred /\ v.waitpong = u.waitpong
      /\ v.ident = x
  BY <1>1 DEF User
<1> HIDE DEF v
<1> QED BY <1>1, <1>2, <1>3

\* The flag of a welcome is set within the limits, on somebody no line hits.
LEMMA Greets ==
  ASSUME NEW S, Good(S), NEW c \in Conn, S.users[c].phase = "live",
         ~S.users[c].registered, NoHold(S.users[c]), S.users[c].ident # None,
         c \in S.vetted => ~matched_xline(S, S.users[c]), Sheltered => Room(S, c),
         NEW T, T = Greeting(S, c)
  PROVE  /\ Good(T) /\ T.passed = S.passed /\ T.cleared = S.cleared /\ T.jobs = S.jobs
         /\ T.users = [S.users EXCEPT ![c] = Greeted(S.users[c])]
<1> DEFINE u == S.users[c]
           v == Greeted(u)
           us == [S.users EXCEPT ![c] = v]
           un == note_left_pool(S.unreg)
           w == StillVetted(S, c)
<1>0. /\ S \in Core /\ S.users \in [Conn -> User] /\ u \in User /\ Tidy(u)
      /\ S.nick_index \in [Nick -> Conn \cup {None}]
      /\ S.unreg \in Nat /\ S.per_ip \in [IP -> Nat] /\ S.per_class \in [ClassName -> Nat]
      /\ S.per_ip_class \in [IP \X ClassName -> Nat]
  BY DEF Good, Sound, Core
<1>1. /\ v \in User /\ v.class = u.class /\ v.phase = "live" /\ v.registered
      /\ v.ip = u.ip /\ v.nick = u.nick /\ v.auth_pending = u.auth_pending
      /\ v.dns_pending = u.dns_pending /\ v.ident_pending = u.ident_pending
      /\ v.host = u.host /\ v.deferred = u.deferred /\ v.waitpong = u.waitpong
      /\ v.ident # None
  <2> HIDE DEF u, v
  <2> QED BY <1>0, GreetedFacts, RegistrationAssumption DEF IdentName, u, v
<1>w. w \in SUBSET Conn /\ w \subseteq S.vetted /\ (c \in w => v.ident = u.ident)
  <2>1. /\ w \in SUBSET Conn /\ w \subseteq S.vetted
        /\ c \in w => ~HashIdent \/ u.ident = "hash"
    BY <1>0 DEF Core, StillVetted
  <2>2. (v.ident # u.ident => HashIdent) /\ (HashIdent => v.ident = "hash")
    <3> HIDE DEF u
    <3> QED BY <1>0, GreetedFacts
  <2> QED BY <2>1, <2>2
<1>2. T = [S EXCEPT !.users = us, !.unreg = un, !.vetted = w]
  BY <1>0 DEF Core, Greeting
<1>3. us \in [Conn -> User] /\ us = [S.users EXCEPT ![c] = v]
  BY <1>0, <1>1
<1>4. un \in Int /\ un = S.unreg - 1
  <2>1. c \in Waiting(S)
    BY DEF Waiting, Live, Registered
  <2>2. Waiting(S) \in SUBSET Conn
    BY DEF Waiting, Live
  <2>3. S.unreg # 0
    BY <2>1, <2>2, Finite, FS_EmptySet DEF Good, Sound, Counted
  <2> QED BY <1>0, <2>3 DEF note_left_pool
<1> HIDE DEF us, un, v, w
<1>5. /\ T.users = us /\ T.unreg = un /\ T.per_ip = S.per_ip /\ T.per_class = S.per_class
      /\ T.per_ip_class = S.per_ip_class /\ T.nick_index = S.nick_index
      /\ T.xlines = S.xlines /\ T.jobs = S.jobs /\ T.passed = S.passed
      /\ T.cleared = S.cleared /\ T.vetted = w
  BY <1>0, <1>2 DEF Core
<1>6. T \in Loose
  <2>1. S \in Loose
    BY <1>0, CoreLoose
  <2> QED BY <1>2, <1>3, <1>4, <1>w, <2>1 DEF Loose
<1>7. Shifted(S, T, u, v)
  <2>1. Pooled(u) /\ ~Pooled(v)
    BY <1>1 DEF Pooled
  <2>2. \A ip : IsAt(v, ip) = IsAt(u, ip)
    BY <1>1 DEF IsAt
  <2>3. \A k : IsIn(v, k) = IsIn(u, k)
    BY <1>1 DEF IsIn
  <2>4. \A x \in Int : \A b : x + B(b) - B(b) = x
    BY DEF B
  <2>5. T.unreg = S.unreg + B(Pooled(v)) - B(Pooled(u))
    BY <1>0, <1>4, <1>5, <2>1 DEF B
  <2>6. T.per_ip = [ip \in IP |-> S.per_ip[ip] + B(IsAt(v, ip)) - B(IsAt(u, ip))]
    BY <1>0, <1>5, <2>2, <2>4
  <2>7. T.per_class = [k \in ClassName |-> S.per_class[k] + B(IsIn(v, k)) - B(IsIn(u, k))]
    BY <1>0, <1>5, <2>3, <2>4
  <2>8. T.per_ip_class = [p \in IP \X ClassName |->
          S.per_ip_class[p] + B(IsAt(v, p[1]) /\ IsIn(v, p[2]))
                            - B(IsAt(u, p[1]) /\ IsIn(u, p[2]))]
    BY <1>0, <1>5, <2>2, <2>3, <2>4
  <2> QED BY <2>5, <2>6, <2>7, <2>8 DEF Shifted
<1>8. Reindexed(S, T, c, v)
  <2>1. \A n \in Nick : S.nick_index[n] = c <=> (u.phase = "live" /\ u.nick = n)
    BY <1>0 DEF Good, Sound, Indexed, Live
  <2> QED BY <1>1, <1>5, <2>1 DEF Reindexed
<1>9. Tidy(v)
  BY <1>0, <1>1 DEF Tidy, NoHold
<1>a. T.users = [S.users EXCEPT ![c] = v] /\ T.users[c] = v
      /\ \A d \in Conn : d # c => T.users[d] = S.users[d]
  BY <1>0, <1>3, <1>5
<1>10. Lookups(T)
  BY <1>0, <1>1, <1>5, <1>a DEF Good, Sound, Lookups
<1>11. Fits(S, c, u, v)
  BY <1>1 DEF Fits, IsIn, IsAt, Let, Room
<1>12. Sound(T)
  BY <1>1, <1>6, <1>7, <1>8, <1>9, <1>10, <1>11, <1>a, Changed DEF Good
<1>13. c \in T.vetted => ~matched_xline(T, v)
  BY <1>1, <1>5, <1>w, SameBans
<1>14. Unbanned(T)
  <2>1. T.xlines = S.xlines /\ T.vetted \subseteq S.vetted \cup {c} /\ Unbanned(S)
    BY <1>5, <1>w DEF Good
  <2>3. S.users \in [Conn -> User] /\ T.users = [S.users EXCEPT ![c] = v]
    BY <1>0, <1>a
  <2> HIDE DEF u
  <2> QED BY <1>13, <2>1, <2>3, ChangedBans
<1> QED BY <1>3, <1>5, <1>12, <1>14 DEF Good, v

\* The two ends of welcome.
Welcomed(S, T, c) ==
    /\ Good(T) /\ Beside(S, T, c) /\ T.jobs = S.jobs
    /\ \/ T.users[c] = Gone
       \/ /\ T.users[c] = Greeted(S.users[c])
          /\ T.passed = S.passed

\* welcome sets it, or drops who has no account under a log-in line.
LEMMA WelcomeStep ==
  ASSUME NEW S, Good(S), NEW c \in Conn, S.users[c].phase = "live",
         ~S.users[c].registered, NoHold(S.users[c]), S.users[c].ident # None,
         c \in S.vetted => ~matched_xline(S, S.users[c]), Sheltered => Room(S, c)
  PROVE  Welcomed(S, welcome(S, c), c)
<1>1. CASE matched_require_auth(S, S.users[c]) /\ ~S.users[c].account
  <2>1. welcome(S, c) = remove_user(S, c)
    BY <1>1 DEF welcome
  <2> QED BY <2>1, Leaves DEF Step, Welcomed
<1>2. CASE ~(matched_require_auth(S, S.users[c]) /\ ~S.users[c].account)
  <2> DEFINE T == welcome(S, c)
  <2>3. S \in Core /\ S.users \in [Conn -> User]
    BY DEF Good, Sound, Core
  <2>1. T = Greeting(S, c)
    BY <1>2, <2>3, Zenon DEF welcome, Greeting, Greeted, StillVetted
  <2> HIDE DEF T
  <2>2. /\ Good(T) /\ T.passed = S.passed /\ T.cleared = S.cleared /\ T.jobs = S.jobs
        /\ T.users = [S.users EXCEPT ![c] = Greeted(S.users[c])]
    BY <2>1, Greets
  <2> DEFINE v == Greeted(S.users[c])
  <2> HIDE DEF v
  <2>4. T.users = [S.users EXCEPT ![c] = v]
    BY <2>2 DEF v
  <2>5. Beside(S, T, c) /\ T.users[c] = v
    BY <2>2, <2>3, <2>4, OnlyBeside DEF Only
  <2> QED BY <2>2, <2>5 DEF Welcomed, T, v
<1> QED BY <1>1, <1>2

\* A welcome of a client that is ready and before open gates is earned.
LEMMA WelcomeEarns ==
  ASSUME NEW S, Good(S), NEW c \in Conn, NEW T, Welcomed(S, T, c),
         ready(S.users[c]), Closed(S, c) = {}, RequireIdent => S.users[c].ident # "tilde"
  PROVE  Step(S, T, c) /\ ~ready(T.users[c])
<1> DEFINE u == S.users[c]
           v == Greeted(u)
<1>1. CASE T.users[c] = Gone
  BY <1>1, GoneFacts DEF Welcomed, Step, Waits, Fair, ready
<1>2. CASE T.users[c] = v /\ T.passed = S.passed
  <2>0. u \in User
    BY DEF Good, Sound, Core
  <2>1. /\ v.ip = u.ip /\ v.nick = u.nick /\ v.ident \in {u.ident, "hash"} /\ v.registered
        /\ v.auth_pending = u.auth_pending
        /\ v.dns_pending = u.dns_pending /\ v.ident_pending = u.ident_pending
    <3> HIDE DEF u
    <3> QED BY <2>0, GreetedFacts
  <2>a. "hash" # None
    BY RegistrationAssumption DEF IdentName
  <2> HIDE DEF v
  <2>2. Closed(T, c) = {}
    BY <1>2, <2>1, SameGates DEF Welcomed, Beside
  <2>3. Fair(S, T, c)
    BY <1>2, <2>1, <2>2, <2>a DEF Fair, Earned, ready
  <2> QED BY <1>2, <2>1, <2>3 DEF Step, Waits, ready, Welcomed
<1> QED BY <1>1, <1>2 DEF Welcomed

\* Nothing is in the way of c's welcome any more.
Prepared(S, c) ==
    LET u == S.users[c] IN
    /\ ready(u) /\ Closed(S, c) = {} /\ (RequireIdent => u.ident # "tilde")
    /\ c \in S.vetted => ~matched_xline(S, u)

\* Before the welcome c may move to the class picked for its host.
LEMMA Reclassed ==
  ASSUME NEW S, Good(S), NEW c \in Conn, Prepared(S, c), NEW i \in DOMAIN ClassSeq,
         Suitable(S, c, S.users[c].host, i), ~ClassSeq[i].deny
  PROVE  LET R == set_class(S, c, ClassSeq[i].name)
         IN  Step(S, R, c) /\ Prepared(R, c)
<1> DEFINE k == ClassSeq[i].name
           R == set_class(S, c, k)
           u == S.users[c]
           v == [u EXCEPT !.class = k]
<1>0. u \in User
  BY DEF Good, Sound, Core
<1>1. u.phase = "live" /\ ~u.registered /\ ~u.auth_pending
  BY DEF Prepared, ready
<1>2. k \in ClassName /\ ClassSeq[i].limit \in Nat
  BY Constants DEF Class
<1>3. ClassSeq[i].limit > 0 => Cardinality(InClass(S, k) \ {c}) < ClassSeq[i].limit
  <2>1. class_count(S, c, k) = Cardinality(InClass(S, k) \ {c})
    BY <1>1, <1>2, ClassCounts DEF Good
  <2>2. ClassSeq[i].limit = 0 \/ class_count(S, c, k) < ClassSeq[i].limit
    BY DEF Suitable
  <2> QED BY <1>2, <2>1, <2>2
<1>4. Step(S, R, c) /\ R.xlines = S.xlines /\ R.vetted = S.vetted /\ R.users[c] = v
  BY <1>1, <1>3, SetClass
<1>5. /\ v.ip = u.ip /\ v.nick = u.nick /\ v.ident = u.ident /\ v.registered = u.registered
      /\ v.auth_pending = u.auth_pending /\ v.phase = u.phase /\ v.host = u.host
      /\ v.dns_pending = u.dns_pending /\ v.ident_pending = u.ident_pending
      /\ v.waitpong = u.waitpong /\ v.cap = u.cap
  BY <1>0 DEF User
<1>6. R.passed = S.passed /\ R.cleared = S.cleared
  BY DEF set_class, Good, Sound, Core
<1> HIDE DEF R, v
<1>7. Closed(R, c) = Closed(S, c)
  BY <1>4, <1>5, <1>6, SameGates
<1>8. c \in R.vetted => ~matched_xline(R, v)
  BY <1>4, <1>5, SameBans DEF Prepared
<1>9. Prepared(R, c)
  BY <1>4, <1>5, <1>7, <1>8 DEF Prepared, ready
<1> QED BY <1>4, <1>9 DEF R

\* The limits of the class leave room.
LEMMA Roomy ==
  ASSUME NEW S, Good(S), NEW c \in Conn, S.users[c].phase = "live",
         S.users[c].class # None => ~TooMany(S, c, Index(S.users[c].class))
  PROVE  Room(S, c)
<1> DEFINE u == S.users[c]
<1> SUFFICES ASSUME NEW i \in DOMAIN ClassSeq,
                    ClassSeq[i].name = u.class, ClassSeq[i].localmax > 0
             PROVE  Cardinality(Admitted(S, u.ip, u.class) \ {c}) < ClassSeq[i].localmax
  BY DEF Room
<1>1. u.class \in ClassName /\ u.class # None /\ ClassSeq[i].localmax \in Nat
  <2>1. ClassSeq[i] \in Class /\ ClassSeq[i].name \in ClassName
    BY Constants
  <2>2. None \notin ClassName
    BY RegistrationAssumption
  <2> QED BY <2>1, <2>2 DEF Class
<1>2. ClassSeq[Index(u.class)] = ClassSeq[i]
  BY Constants
<1>3. local_clones(S, c, u.class) < ClassSeq[i].localmax
  <2>1. local_clones(S, c, u.class) = Cardinality(Here(S, u.ip, u.class) \ {c})
    BY <1>1, ClassCounts DEF Good
  <2>2. Cardinality(Here(S, u.ip, u.class) \ {c}) \in Nat
    BY Finite DEF Here, Live
  <2> QED BY <1>1, <1>2, <2>1, <2>2 DEF TooMany
<1>4. local_clones(S, c, u.class) = Cardinality(Here(S, u.ip, u.class) \ {c})
  BY <1>1, ClassCounts DEF Good
<1> DEFINE X == Admitted(S, u.ip, u.class) \ {c}
           Y == Here(S, u.ip, u.class) \ {c}
<1>5. X \subseteq Y /\ Y \in SUBSET Conn /\ X \in SUBSET Conn
  BY DEF Admitted, Here, Live
<1> HIDE DEF X, Y
<1>6. Cardinality(X) <= Cardinality(Y) /\ Cardinality(X) \in Nat /\ Cardinality(Y) \in Nat
  BY <1>5, Finite, FS_Subset
<1>7. Cardinality(Y) < ClassSeq[i].localmax
  BY <1>3, <1>4 DEF Y
<1>8. Cardinality(X) < ClassSeq[i].localmax
  BY <1>1, <1>6, <1>7
<1> QED BY <1>8 DEF X

\* The password goes to a worker.
Checking(S, c, ok) ==
    [S EXCEPT !.users[c].auth_pending = TRUE,
              !.jobs = @ \cup {[kind |-> "auth", uid |-> c, arg |-> ok]}]

\* A password check starts within the limits.
LEMMA Checks ==
  ASSUME NEW S, Good(S), NEW c \in Conn, Prepared(S, c), Slow(S.users[c]), Room(S, c),
         NEW ok \in BOOLEAN
  PROVE  Step(S, Checking(S, c, ok), c) /\ ~ready(Checking(S, c, ok).users[c])
<1> DEFINE T == Checking(S, c, ok)
           u == S.users[c]
           v == [u EXCEPT !.auth_pending = TRUE]
           us == [S.users EXCEPT ![c] = v]
           j == [kind |-> "auth", uid |-> c, arg |-> ok]
<1>0. /\ S \in Core /\ S.users \in [Conn -> User] /\ u \in User /\ Tidy(u)
      /\ S.nick_index \in [Nick -> Conn \cup {None}]
      /\ S.unreg \in Nat /\ S.per_ip \in [IP -> Nat] /\ S.per_class \in [ClassName -> Nat]
      /\ S.per_ip_class \in [IP \X ClassName -> Nat]
  BY DEF Good, Sound, Core
<1>1. /\ v \in User /\ v.class = u.class /\ v.phase = u.phase /\ v.registered = u.registered
      /\ v.ip = u.ip /\ v.nick = u.nick /\ v.auth_pending
      /\ v.dns_pending = u.dns_pending /\ v.ident_pending = u.ident_pending
      /\ v.host = u.host /\ v.ident = u.ident /\ v.user = u.user
      /\ v.deferred = u.deferred /\ v.waitpong = u.waitpong
  BY <1>0 DEF User
<1>2. j \in Job
  BY DEF Job
<1>3. T = [S EXCEPT !.users = us, !.jobs = @ \cup {j}]
  BY <1>0 DEF Core, Checking
<1>4. us \in [Conn -> User] /\ us = [S.users EXCEPT ![c] = v]
  BY <1>0, <1>1
<1>b. j.uid = c /\ j.kind = "auth"
  OBVIOUS
<1> HIDE DEF us, v, T, j
<1>5. /\ T.users = us /\ Kept(S, T) /\ T.xlines = S.xlines /\ T.passed = S.passed
      /\ T.cleared = S.cleared /\ T.jobs = S.jobs \cup {j} /\ T.vetted = S.vetted
  BY <1>0, <1>3 DEF Core, Kept
<1>6. T \in Loose
  <2>1. S \in Loose
    BY <1>0, CoreLoose
  <2> QED BY <1>2, <1>3, <1>4, <2>1 DEF Loose
<1>7. Shifted(S, T, u, v)
  <2>1. Pooled(v) = Pooled(u)
    BY <1>1 DEF Pooled
  <2>2. \A ip : IsAt(v, ip) = IsAt(u, ip)
    BY <1>1 DEF IsAt
  <2>3. \A k : IsIn(v, k) = IsIn(u, k)
    BY <1>1 DEF IsIn
  <2>4. \A x \in Int : \A b : x + B(b) - B(b) = x
    BY DEF B
  <2>5. T.unreg = S.unreg + B(Pooled(v)) - B(Pooled(u))
    BY <1>0, <1>5, <2>1, <2>4 DEF Kept
  <2>6. T.per_ip = [ip \in IP |-> S.per_ip[ip] + B(IsAt(v, ip)) - B(IsAt(u, ip))]
    BY <1>0, <1>5, <2>2, <2>4 DEF Kept
  <2>7. T.per_class = [k \in ClassName |-> S.per_class[k] + B(IsIn(v, k)) - B(IsIn(u, k))]
    BY <1>0, <1>5, <2>3, <2>4 DEF Kept
  <2>8. T.per_ip_class = [p \in IP \X ClassName |->
          S.per_ip_class[p] + B(IsAt(v, p[1]) /\ IsIn(v, p[2]))
                            - B(IsAt(u, p[1]) /\ IsIn(u, p[2]))]
    BY <1>0, <1>5, <2>2, <2>3, <2>4 DEF Kept
  <2> QED BY <2>5, <2>6, <2>7, <2>8 DEF Shifted
<1>8. Reindexed(S, T, c, v)
  <2>1. \A n \in Nick : S.nick_index[n] = c <=> (u.phase = "live" /\ u.nick = n)
    BY <1>0 DEF Good, Sound, Indexed, Live
  <2> QED BY <1>1, <1>5, <2>1 DEF Reindexed, Kept
<1>9. Tidy(v)
  <2>1. Slow(v)
    BY <1>1 DEF Slow
  <2> QED BY <1>0, <1>1, <2>1 DEF Tidy, Prepared, ready
<1>a. /\ T.users = [S.users EXCEPT ![c] = v] /\ T.users[c] = v
      /\ \A d \in Conn : d # c => T.users[d] = S.users[d]
  BY <1>0, <1>4, <1>5
<1>10. Lookups(T)
  BY <1>0, <1>1, <1>5, <1>a, <1>b DEF Good, Sound, Lookups, Prepared, ready
<1>11. Fits(S, c, u, v)
  BY <1>1 DEF Fits, IsIn, IsAt, Let, Room
<1>12. Sound(T)
  BY <1>1, <1>6, <1>7, <1>8, <1>9, <1>10, <1>11, <1>a, Changed DEF Good
<1>13. ~u.registered /\ T.xlines = S.xlines /\ T.vetted \subseteq S.vetted \cup {c}
  BY <1>5 DEF Prepared, ready
<1>14. Unbanned(T)
  BY <1>0, <1>1, <1>13, <1>a, ChangedBans DEF Good
<1>15. Beside(S, T, c)
  BY <1>0, <1>5, <1>a, OnlyBeside DEF Only
<1>16. Waits(T, c)
  <2>1. Asked(T, c, "auth")
    BY <1>5, <1>b DEF Asked, Running
  <2> QED BY <1>1, <1>a, <2>1 DEF Waits, Prepared, ready
<1>17. Fair(S, T, c)
  BY <1>1, <1>13, <1>a DEF Fair
<1> QED BY <1>1, <1>12, <1>14, <1>15, <1>16, <1>17, <1>a DEF Good, Step, T, ready

\* What follows the choice of the class.
Decided(R, c, busy) ==
    LET u    == R.users[c]
        k    == Index(u.class)
        good == u.pass = "good"
    IN  IF u.class = None                       THEN welcome(R, c)
        ELSE IF TooMany(R, c, k)                THEN remove_user(R, c)
        ELSE IF ClassSeq[k].password = "none"   THEN welcome(R, c)
        ELSE IF ClassSeq[k].password = "plain"
             THEN IF good THEN welcome(R, c) ELSE remove_user(R, c)
        ELSE IF busy                            THEN remove_user(R, c)
        ELSE Checking(R, c, good)

\* Each branch of on_register after the class is picked is a step.
LEMMA DecidedStep ==
  ASSUME NEW S, Good(S), NEW c \in Conn, Prepared(S, c), NEW busy
  PROVE  Step(S, Decided(S, c, busy), c) /\ ~ready(Decided(S, c, busy).users[c])
<1> DEFINE u == S.users[c]
           k == Index(u.class)
           T == Decided(S, c, busy)
<1>0. u \in User /\ u.phase = "live" /\ ~u.registered /\ NoHold(u)
  BY DEF Good, Sound, Core, Prepared, ready, NoHold
<1>1. CASE T = remove_user(S, c)
  BY <1>1, Leaves DEF ready
<1>2. CASE T = welcome(S, c) /\ (u.class # None => ~TooMany(S, c, k))
  <2>1. Room(S, c)
    BY <1>0, <1>2, Roomy
  <2>2. Welcomed(S, welcome(S, c), c)
    BY <1>0, <2>1, WelcomeStep DEF Prepared, ready
  <2> QED BY <1>2, <2>2, WelcomeEarns DEF Prepared
<1>3. CASE /\ T = Checking(S, c, u.pass = "good") /\ u.class # None /\ ~TooMany(S, c, k)
           /\ ClassSeq[k].password \notin {"none", "plain"}
  <2>1. Room(S, c)
    BY <1>0, <1>3, Roomy
  <2>2. Slow(u)
    <3>1. k \in DOMAIN ClassSeq
      BY <1>0, <1>3, Constants DEF User
    <3>2. ClassSeq[k].password \in {"none", "plain", "kdf"}
      BY <3>1, Constants DEF Class
    <3> QED BY <1>3, <3>2 DEF Slow
  <2> QED BY <1>3, <2>1, <2>2, Checks
<1> QED BY <1>1, <1>2, <1>3 DEF Decided

\* on_register is a step, after which c is welcomed, refused or being checked.
LEMMA OnRegister ==
  ASSUME NEW S, Good(S), NEW c \in Conn, Prepared(S, c), NEW busy
  PROVE  LET T == on_register(S, c, busy) IN Step(S, T, c) /\ ~ready(T.users[c])
<1> DEFINE i == pick(S, c, S.users[c].host)
           T == on_register(S, c, busy)
<1>0. T = IF i # 0 /\ ClassSeq[i].deny THEN remove_user(S, c)
          ELSE Decided(IF i = 0 THEN S ELSE set_class(S, c, ClassSeq[i].name), c, busy)
  BY Zenon DEF on_register, Decided, Checking
<1> SUFFICES Step(S, T, c) /\ ~ready(T.users[c])
  OBVIOUS
<1> HIDE DEF i, T
<1>1. CASE i = 0
  <2>1. T = Decided(S, c, busy)
    BY <1>0, <1>1
  <2> QED BY <2>1, DecidedStep
<1>2. CASE i # 0 /\ ClassSeq[i].deny
  <2>1. T = remove_user(S, c)
    BY <1>0, <1>2
  <2> QED BY <2>1, Leaves DEF ready
<1>3. CASE i # 0 /\ ~ClassSeq[i].deny
  <2> DEFINE R == set_class(S, c, ClassSeq[i].name)
  <2>1. i \in DOMAIN ClassSeq /\ Suitable(S, c, S.users[c].host, i)
    BY <1>3, Pick DEF i
  <2>2. T = Decided(R, c, busy)
    BY <1>0, <1>3
  <2>3. Step(S, R, c) /\ Prepared(R, c)
    BY <1>3, <2>1, Reclassed
  <2> HIDE DEF R
  <2>4. Good(R)
    BY <2>3 DEF Step
  <2>5. Step(R, T, c) /\ ~ready(T.users[c])
    BY <2>2, <2>3, <2>4, DecidedStep
  <2> QED BY <2>3, <2>5, StepThen
<1> QED BY <1>1, <1>2, <1>3

\* A new line is a step about any connection: the others are at most dropped.
LEMMA XlineStep ==
  ASSUME NEW S, Good(S), NEW x \in XLine, NEW c \in Conn
  PROVE  LET T == add_xline(S, x) IN
         /\ Step(S, T, c) /\ T.jobs = S.jobs
         /\ T.users[c] \in {S.users[c], Gone}
         /\ ~S.users[c].registered => T.users[c] = S.users[c]
<1> DEFINE T == add_xline(S, x)
<1>1. Good(T) /\ T.passed = S.passed /\ T.cleared = S.cleared /\ T.jobs = S.jobs
  BY AddXlineDrops
<1>2. PICK s \in SUBSET Registered(S) :
           T.users = [d \in Conn |-> IF d \in s THEN Gone ELSE S.users[d]]
  BY AddXlineDrops
<1> HIDE DEF T
<1>3. \A d \in Conn : T.users[d] \in {S.users[d], Gone}
  BY <1>2
<1>4. ~S.users[c].registered => T.users[c] = S.users[c]
  BY <1>2 DEF Registered
<1>5. Beside(S, T, c)
  BY <1>1, <1>3 DEF Beside
<1>6. CASE T.users[c] = Gone
  <2>1. Step(S, T, c)
    BY <1>1, <1>5, <1>6, GoneFacts DEF Step, Waits, Fair
  <2> QED BY <1>1, <1>3, <1>4, <2>1 DEF T
<1>7. CASE T.users[c] = S.users[c]
  <2>1. Closed(T, c) = Closed(S, c)
    BY <1>1, <1>7, SameGates
  <2>2. Waits(S, c) => Waits(T, c)
    BY <1>1, <1>7 DEF Waits, Asked, Running
  <2>3. Step(S, T, c)
    BY <1>1, <1>5, <1>7, <2>1, <2>2 DEF Step, Fair, Earned
  <2> QED BY <1>1, <1>3, <1>4, <2>3 DEF T
<1> QED BY <1>3, <1>6, <1>7

\* Something else than the connections, the jobs and the gates changes.
LEMMA AsideStep ==
  ASSUME NEW S, Good(S), NEW T \in Core, T.users = S.users, Kept(S, T), T.jobs = S.jobs,
         T.xlines = S.xlines, T.vetted \subseteq S.vetted, NEW c \in Conn,
         T.cleared = S.cleared,
         \A g \in Gate : S.passed[g] \subseteq T.passed[g] /\ T.passed[g] \subseteq S.passed[g] \cup {c}
  PROVE  Step(S, T, c)
<1>1. Lookups(T)
  BY DEF Good, Sound, Lookups
<1>2. Good(T)
  BY <1>1, Aside DEF Good
<1>3. Beside(S, T, c)
  BY DEF Beside
<1>4. Closed(T, c) \subseteq Closed(S, c)
  <2>1. \A i \in DOMAIN Gates : Gates[i] \in Gate
    BY DEF Gate
  <2> QED BY <2>1 DEF Closed, Cleared
<1>5. Fair(S, T, c)
  BY <1>4 DEF Fair, Earned
<1> QED BY <1>2, <1>3, <1>5 DEF Step, Waits, Asked, Running

\* complete_registration is a step, which leaves c held by a gate at most.
LEMMA CompleteRegistration ==
  ASSUME NEW S, Good(S), NEW c \in Conn, ready(S.users[c]), NEW busy
  PROVE  LET T == complete_registration(S, c, busy) IN Step(S, T, c) /\ Held(T, c)
<1> DEFINE u == S.users[c]
           F == finalize(S, c)
           T == complete_registration(S, c, busy)
<1> SUFFICES Step(S, T, c) /\ Held(T, c)
  OBVIOUS
<1>0. u \in User /\ u.ip \in IP /\ u.phase = "live" /\ ~u.registered /\ S \in Core
  BY DEF Good, Sound, Core, User, ready
<1>1. CASE antirandom(u)
  <2> DEFINE x == Zline(u.ip)
             X == IF AntirandomLine THEN add_xline(S, x) ELSE S
  <2>1. x \in XLine
    BY <1>0 DEF XLine, Host, Zline
  <2>2. Step(S, X, c)
    <3> HIDE DEF x
    <3> QED BY <2>1, XlineStep, StepSame
  <2>3. T = remove_user(X, c)
    BY <1>1 DEF complete_registration
  <2> HIDE DEF X, T
  <2>4. Good(X)
    BY <2>2 DEF Step
  <2>5. Step(X, T, c) /\ T.users[c].phase # "live"
    BY <2>3, <2>4, Leaves
  <2> QED BY <2>2, <2>5, StepThen DEF Held, Ripe, ready
<1>2. CASE ~antirandom(u) /\ Closed(S, c) # {}
  <2> DEFINE g == Gates[Min(Closed(S, c))]
  <2>1. T = [S EXCEPT !.challenged[g] = @ \cup {c}]
    BY <1>2 DEF complete_registration
  <2>2. g \in Gate
    <3>1. Closed(S, c) \in SUBSET Nat
      BY RegistrationAssumption DEF Closed
    <3>2. Min(Closed(S, c)) \in Closed(S, c)
      BY <1>2, <3>1, MinIn
    <3> QED BY <3>2 DEF Closed, Gate
  <2> DEFINE ch == [S.challenged EXCEPT ![g] = @ \cup {c}]
  <2>3. ch \in [Gate -> SUBSET Conn]
    BY <1>0, <2>2 DEF Core
  <2>4. T = [S EXCEPT !.challenged = ch]
    BY <2>1
  <2> HIDE DEF T, ch, g
  <2>5. /\ T \in Core /\ T.users = S.users /\ Kept(S, T) /\ T.jobs = S.jobs
        /\ T.xlines = S.xlines /\ T.passed = S.passed /\ T.cleared = S.cleared
        /\ T.vetted = S.vetted
    BY <1>0, <2>3, <2>4 DEF Core, Kept
  <2>6. Step(S, T, c)
    BY <2>5, AsideStep
  <2>7. Closed(T, c) = Closed(S, c)
    BY <2>5, SameGates
  <2> QED BY <1>2, <2>6, <2>7 DEF Held
<1>3. CASE ~antirandom(u) /\ Closed(S, c) = {} /\ matched_xline(S, u)
  <2>1. T = remove_user(S, c)
    BY <1>3 DEF complete_registration
  <2> HIDE DEF T
  <2> QED BY <2>1, Leaves DEF Held, Ripe, ready
<1>4. CASE ~antirandom(u) /\ Closed(S, c) = {} /\ ~matched_xline(S, u)
  <2>1. Step(S, F, c) /\ F.xlines = S.xlines /\ F.passed = S.passed /\ F.cleared = S.cleared
    BY <1>0, FinalizeStep
  <2>2. PICK y \in {u.ident, "real"} :
             F.users[c] = [u EXCEPT !.ident = y] /\ (c \in F.vetted => y = u.ident)
    BY <1>0, FinalizeStep
  <2>b. T = IF RequireIdent /\ F.users[c].ident = "tilde"   THEN remove_user(F, c)
            ELSE IF matched_rline(F, F.users[c])            THEN remove_user(F, c)
            ELSE on_register(F, c, busy)
    BY <1>4 DEF complete_registration
  <2> HIDE DEF F, T
  <2>3. Good(F)
    BY <2>1 DEF Step
  <2>4. CASE T = remove_user(F, c)
    <3>1. Step(F, T, c) /\ T.users[c].phase # "live"
      BY <2>3, <2>4, Leaves
    <3> QED BY <2>1, <3>1, StepThen DEF Held, Ripe, ready
  <2>5. CASE ~(RequireIdent /\ F.users[c].ident = "tilde") /\ T = on_register(F, c, busy)
    <3> DEFINE v == [u EXCEPT !.ident = y]
    <3>1. /\ v.ip = u.ip /\ v.nick = u.nick /\ v.ident = y /\ v.registered = u.registered
          /\ v.auth_pending = u.auth_pending /\ v.phase = u.phase /\ v.host = u.host
          /\ v.dns_pending = u.dns_pending /\ v.ident_pending = u.ident_pending
          /\ v.waitpong = u.waitpong /\ v.cap = u.cap
      BY <1>0 DEF User
    <3>2. F.users[c] = v
      BY <2>2
    <3> HIDE DEF v
    <3>3. Closed(F, c) = {}
      BY <1>4, <2>1, <3>1, <3>2, SameGates
    <3>4. c \in F.vetted => ~matched_xline(F, v)
      BY <1>4, <2>1, <2>2, <3>1, SameBans
    <3>5. y # None
      BY RegistrationAssumption DEF ready, IdentName
    <3>6. Prepared(F, c)
      BY <2>5, <3>1, <3>2, <3>3, <3>4, <3>5 DEF Prepared, ready
    <3>7. Step(F, T, c) /\ ~ready(T.users[c])
      BY <2>3, <2>5, <3>6, OnRegister
    <3> QED BY <2>1, <3>7, StepThen DEF Held, Ripe
  <2> QED BY <2>4, <2>5, <2>b
<1> QED BY <1>1, <1>2, <1>3, <1>4

\* So is try_register.
LEMMA TryRegister ==
  ASSUME NEW S, Good(S), NEW c \in Conn, NEW busy
  PROVE  Step(S, try_register(S, c, busy), c) /\ Held(try_register(S, c, busy), c)
<1>1. CASE ready(S.users[c])
  BY <1>1, CompleteRegistration DEF try_register
<1>2. CASE ~ready(S.users[c])
  BY <1>2, StepSame DEF try_register, Held, Ripe
<1> QED BY <1>1, <1>2

-----------------------------------------------------------------------------
(* Commands.                                                               *)

\* set_nick moves a free nick to c.
LEMMA SetNick ==
  ASSUME NEW S, Good(S), NEW c \in Conn, S.users[c].phase = "live", NEW n \in Nick,
         S.nick_index[n] = None
  PROVE  Step(S, set_nick(S, c, n), c)
<1> DEFINE T == set_nick(S, c, n)
           u == S.users[c]
           v == [u EXCEPT !.nick = n]
           us == [S.users EXCEPT ![c] = v]
           ni == [m \in Nick |-> IF m = n THEN c ELSE IF m = u.nick THEN None
                                 ELSE S.nick_index[m]]
<1>0. /\ S \in Core /\ S.users \in [Conn -> User] /\ u \in User /\ Tidy(u)
      /\ S.nick_index \in [Nick -> Conn \cup {None}]
      /\ S.unreg \in Nat /\ S.per_ip \in [IP -> Nat] /\ S.per_class \in [ClassName -> Nat]
      /\ S.per_ip_class \in [IP \X ClassName -> Nat]
  BY DEF Good, Sound, Core
<1>1. /\ v \in User /\ v.class = u.class /\ v.phase = u.phase /\ v.registered = u.registered
      /\ v.ip = u.ip /\ v.nick = n /\ v.auth_pending = u.auth_pending /\ v.user = u.user
      /\ v.dns_pending = u.dns_pending /\ v.ident_pending = u.ident_pending
      /\ v.host = u.host /\ v.ident = u.ident
      /\ v.deferred = u.deferred /\ v.waitpong = u.waitpong
  BY <1>0 DEF User
<1>2. n # None /\ None \notin Conn
  BY RegistrationAssumption
<1>3. T = [S EXCEPT !.users = us, !.nick_index = ni]
  BY <1>0 DEF Core, set_nick
<1>4. us \in [Conn -> User] /\ us = [S.users EXCEPT ![c] = v]
  BY <1>0, <1>1
<1>5. ni \in [Nick -> Conn \cup {None}]
  BY <1>0
<1> HIDE DEF us, v, T
<1>6. /\ T.users = us /\ T.unreg = S.unreg /\ T.per_ip = S.per_ip
      /\ T.per_class = S.per_class /\ T.per_ip_class = S.per_ip_class
      /\ T.nick_index = ni /\ T.xlines = S.xlines /\ T.passed = S.passed
      /\ T.cleared = S.cleared /\ T.jobs = S.jobs /\ T.vetted = S.vetted
  <2> HIDE DEF ni
  <2> QED BY <1>0, <1>3 DEF Core
<1>7. T \in Loose
  <2>1. S \in Loose
    BY <1>0, CoreLoose
  <2> HIDE DEF ni
  <2> QED BY <1>3, <1>4, <1>5, <2>1 DEF Loose
<1>8. Shifted(S, T, u, v)
  <2>1. Pooled(v) = Pooled(u)
    BY <1>1 DEF Pooled
  <2>2. \A ip : IsAt(v, ip) = IsAt(u, ip)
    BY <1>1 DEF IsAt
  <2>3. \A k : IsIn(v, k) = IsIn(u, k)
    BY <1>1 DEF IsIn
  <2>4. \A x \in Int : \A b : x + B(b) - B(b) = x
    BY DEF B
  <2>5. T.unreg = S.unreg + B(Pooled(v)) - B(Pooled(u))
    BY <1>0, <1>6, <2>1, <2>4
  <2>6. T.per_ip = [ip \in IP |-> S.per_ip[ip] + B(IsAt(v, ip)) - B(IsAt(u, ip))]
    BY <1>0, <1>6, <2>2, <2>4
  <2>7. T.per_class = [k \in ClassName |-> S.per_class[k] + B(IsIn(v, k)) - B(IsIn(u, k))]
    BY <1>0, <1>6, <2>3, <2>4
  <2>8. T.per_ip_class = [p \in IP \X ClassName |->
          S.per_ip_class[p] + B(IsAt(v, p[1]) /\ IsIn(v, p[2]))
                            - B(IsAt(u, p[1]) /\ IsIn(u, p[2]))]
    BY <1>0, <1>6, <2>2, <2>3, <2>4
  <2> QED BY <2>5, <2>6, <2>7, <2>8 DEF Shifted
<1>9. Reindexed(S, T, c, v)
  <2>1. \A m \in Nick : S.nick_index[m] = c <=> u.nick = m
    BY <1>0 DEF Good, Sound, Indexed, Live
  <2> QED BY <1>1, <1>2, <1>6, <2>1 DEF Reindexed
<1>10. Tidy(v)
  <2>1. Slow(v) = Slow(u)
    BY <1>1 DEF Slow
  <2> QED BY <1>0, <1>1, <1>2, <2>1 DEF Tidy
<1>a. /\ T.users = [S.users EXCEPT ![c] = v] /\ T.users[c] = v
      /\ \A d \in Conn : d # c => T.users[d] = S.users[d]
  BY <1>0, <1>4, <1>6
<1>11. Lookups(T)
  BY <1>0, <1>1, <1>6, <1>a DEF Good, Sound, Lookups
<1>12. Fits(S, c, u, v)
  BY <1>1 DEF Fits, IsIn, IsAt, Let
<1>13. Sound(T)
  BY <1>1, <1>7, <1>8, <1>9, <1>10, <1>11, <1>12, <1>a, Changed DEF Good
<1>14. Unbanned(T)
  <2>1. Unbanned(S) /\ T.xlines = S.xlines /\ T.vetted = S.vetted
    BY <1>6 DEF Good
  <2>2. v.phase = "live" /\ v.registered /\ c \in T.vetted => ~matched_xline(T, v)
    <3>1. u.registered /\ c \in S.vetted => ~matched_xline(S, u)
      BY <2>1 DEF Unbanned, Registered, Live
    <3>2. matched_xline(T, v) <=> matched_xline(S, u)
      BY <1>1, <1>6, SameBans
    <3> QED BY <1>1, <2>1, <3>1, <3>2
  <2>3. S.users \in [Conn -> User] /\ T.users = [S.users EXCEPT ![c] = v]
    BY <1>0, <1>a
  <2> HIDE DEF u
  <2> QED BY <2>1, <2>2, <2>3, ChangedBans
<1>15. Beside(S, T, c)
  BY <1>0, <1>6, <1>a, OnlyBeside DEF Only
<1>16. Waits(S, c) => Waits(T, c)
  BY <1>1, <1>6, <1>a DEF Waits, Asked, Running
<1>17. Closed(T, c) = Closed(S, c)
  <2>1. T.users[c].ip = S.users[c].ip /\ T.passed = S.passed /\ T.cleared = S.cleared
    BY <1>1, <1>6, <1>a
  <2> QED BY <2>1, SameGates
<1>18. Fair(S, T, c)
  BY <1>1, <1>2, <1>17, <1>a DEF Fair, Earned
<1> QED BY <1>13, <1>14, <1>15, <1>16, <1>18 DEF Good, Step, T

\* The command NICK is a step.
LEMMA NickStep ==
  ASSUME NEW S, Good(S), NEW c \in Conn, S.users[c].phase = "live", NEW n \in Nick
  PROVE  Step(S, NickCmd(S, c, n), c)
<1> DEFINE N == set_nick(S, c, n)
           T == NickCmd(S, c, n)
<1>1. \/ T = S
      \/ S.nick_index[n] = None /\ (T = N \/ T = remove_user(N, c))
  BY DEF NickCmd
<1> HIDE DEF N, T
<1>2. CASE T = S
  BY <1>2, StepSame DEF T
<1>3. CASE S.nick_index[n] = None /\ (T = N \/ T = remove_user(N, c))
  <2>1. Step(S, N, c)
    BY <1>3, SetNick DEF N
  <2>2. Good(N)
    BY <2>1 DEF Step
  <2>3. Step(S, T, c)
    BY <1>3, <2>1, <2>2, Leaves, StepThen
  <2> QED BY <2>3 DEF T
<1> QED BY <1>1, <1>2, <1>3

\* WEBIRC is a step: the counters move with the address.
LEMMA WebIrcStep ==
  ASSUME NEW S, Good(S), NEW c \in Conn, S.users[c].phase = "live",
         ~S.users[c].registered, NEW ip \in IP
  PROVE  Step(S, WebIrc(S, c, ip), c)
<1> DEFINE T == WebIrc(S, c, ip)
           u == S.users[c]
           v == [u EXCEPT !.ip = ip, !.host = NameOf[ip]]
           us == [S.users EXCEPT ![c] = v]
           pi == Bumped(Bumped(S.per_ip, u.ip, -1), ip, 1)
           pb == Bumped(Bumped(S.per_ip_class, <<u.ip, u.class>>, -1), <<ip, u.class>>, 1)
<1>n. CASE u.ip \notin Gateway
  BY <1>n, StepSame DEF WebIrc
<1>y. CASE u.ip \in Gateway
  <2>0. /\ S \in Core /\ S.users \in [Conn -> User] /\ u \in User /\ Tidy(u)
        /\ S.nick_index \in [Nick -> Conn \cup {None}]
        /\ S.unreg \in Nat /\ S.per_ip \in [IP -> Nat] /\ S.per_class \in [ClassName -> Nat]
        /\ S.per_ip_class \in [IP \X ClassName -> Nat]
    BY DEF Good, Sound, Core
  <2>a. u.ip \in IP /\ u.class \in ClassName \cup {None} /\ NameOf[ip] \in Host
    BY <2>0, RegistrationAssumption DEF User, Host
  <2>1. /\ v \in User /\ v.class = u.class /\ v.phase = u.phase /\ v.registered = u.registered
        /\ v.ip = ip /\ v.nick = u.nick /\ v.auth_pending = u.auth_pending
        /\ v.dns_pending = u.dns_pending /\ v.ident_pending = u.ident_pending
        /\ v.ident = u.ident /\ v.user = u.user
        /\ v.deferred = u.deferred /\ v.waitpong = u.waitpong
    BY <2>0, <2>a DEF User
  <2>2. T = [S EXCEPT !.users = us, !.per_ip = pi, !.per_ip_class = pb]
    BY <1>y, <2>0 DEF Core, WebIrc, change_ip
  <2>3. us \in [Conn -> User] /\ us = [S.users EXCEPT ![c] = v]
    BY <2>0, <2>1
  <2>4. /\ pi \in [IP -> Int]
        /\ pi = [x \in IP |-> S.per_ip[x] + B(IsAt(v, x)) - B(IsAt(u, x))]
    <3>1. pi \in [IP -> Int] /\ \A x \in IP : pi[x] = S.per_ip[x] + B(x = ip) - B(x = u.ip)
      BY <2>0, Moved
    <3>2. \A x \in IP : B(x = ip) = B(IsAt(v, x)) /\ B(x = u.ip) = B(IsAt(u, x))
      BY <2>1 DEF B, IsAt
    <3> HIDE DEF pi, v
    <3> QED BY <3>1, <3>2
  <2>5. /\ pb \in [IP \X ClassName -> Int]
        /\ pb = [p \in IP \X ClassName |->
                   S.per_ip_class[p] + B(IsAt(v, p[1]) /\ IsIn(v, p[2]))
                                     - B(IsAt(u, p[1]) /\ IsIn(u, p[2]))]
    <3> DEFINE X == IP \X ClassName
    <3>1. /\ pb \in [X -> Int]
          /\ \A p \in X : pb[p] = S.per_ip_class[p] + B(p = <<ip, u.class>>)
                                                    - B(p = <<u.ip, u.class>>)
      BY <2>0, Moved
    <3>2. \A p \in X : /\ B(p = <<ip, u.class>>) = B(IsAt(v, p[1]) /\ IsIn(v, p[2]))
                       /\ B(p = <<u.ip, u.class>>) = B(IsAt(u, p[1]) /\ IsIn(u, p[2]))
      BY <2>1 DEF B, IsIn, IsAt
    <3> HIDE DEF pb, v
    <3> QED BY <3>1, <3>2
  <2> HIDE DEF us, v, T
  <2>6. /\ T.users = us /\ T.unreg = S.unreg /\ T.per_ip = pi
        /\ T.per_class = S.per_class /\ T.per_ip_class = pb
        /\ T.nick_index = S.nick_index /\ T.xlines = S.xlines /\ T.passed = S.passed
        /\ T.cleared = S.cleared /\ T.jobs = S.jobs /\ T.vetted = S.vetted
    <3> HIDE DEF pi, pb
    <3> QED BY <2>0, <2>2 DEF Core
  <2>7. T \in Loose
    <3>1. S \in Loose
      BY <2>0, CoreLoose
    <3> HIDE DEF pi, pb
    <3>2. pi \in [IP -> Int] /\ pb \in [IP \X ClassName -> Int]
      BY <2>4, <2>5
    <3> QED BY <2>2, <2>3, <3>1, <3>2 DEF Loose
  <2>8. Shifted(S, T, u, v)
    <3>1. Pooled(v) = Pooled(u)
      BY <2>1 DEF Pooled
    <3>2. \A k : IsIn(v, k) = IsIn(u, k)
      BY <2>1 DEF IsIn
    <3>3. \A x \in Int : \A b : x + B(b) - B(b) = x
      BY DEF B
    <3>4. T.unreg = S.unreg + B(Pooled(v)) - B(Pooled(u))
      BY <2>0, <2>6, <3>1, <3>3
    <3>5. T.per_class = [k \in ClassName |-> S.per_class[k] + B(IsIn(v, k)) - B(IsIn(u, k))]
      BY <2>0, <2>6, <3>2, <3>3
    <3> HIDE DEF pi, pb
    <3> QED BY <2>4, <2>5, <2>6, <3>4, <3>5 DEF Shifted
  <2>9. Reindexed(S, T, c, v)
    <3>1. \A n \in Nick : S.nick_index[n] = c <=> (u.phase = "live" /\ u.nick = n)
      BY <2>0 DEF Good, Sound, Indexed, Live
    <3> QED BY <2>1, <2>6, <3>1 DEF Reindexed
  <2>10. Tidy(v)
    <3>1. Slow(v) = Slow(u)
      BY <2>1 DEF Slow
    <3> QED BY <2>0, <2>1, <3>1 DEF Tidy
  <2>b. /\ T.users = [S.users EXCEPT ![c] = v] /\ T.users[c] = v
        /\ \A d \in Conn : d # c => T.users[d] = S.users[d]
    BY <2>0, <2>3, <2>6
  <2>11. Lookups(T)
    BY <2>0, <2>1, <2>6, <2>b DEF Good, Sound, Lookups
  \* Who is moved while its password is checked is in no class with a localmax.
  <2>12. Fits(S, c, u, v)
    <3>1. ASSUME Sheltered, u.auth_pending, NEW i \in DOMAIN ClassSeq,
                 ClassSeq[i].name = u.class
          PROVE  ~(ClassSeq[i].localmax > 0)
      <4>1. Slow(u)
        BY <2>0, <3>1 DEF Tidy
      <4>2. ClassSeq[Index(u.class)] = ClassSeq[i]
        BY <3>1, Constants
      <4>3. ClassSeq[i].password = "kdf"
        BY <4>1, <4>2 DEF Slow
      <4> QED BY <1>y, <3>1, <4>3 DEF Sheltered
    <3> QED BY <2>1, <3>1 DEF Fits, IsIn, IsAt, Let
  <2>13. Sound(T)
    BY <2>1, <2>7, <2>8, <2>9, <2>10, <2>11, <2>12, <2>b, Changed DEF Good
  <2>14. Unbanned(T)
    <3>1. Unbanned(S) /\ T.xlines = S.xlines /\ T.vetted \subseteq S.vetted \cup {c}
      BY <2>6 DEF Good
    <3> QED BY <2>0, <2>1, <2>b, <3>1, ChangedBans
  <2>15. Beside(S, T, c)
    BY <2>0, <2>6, <2>b, OnlyBeside DEF Only
  <2>16. Waits(S, c) => Waits(T, c)
    BY <2>1, <2>6, <2>b DEF Waits, Asked, Running
  <2>17. Fair(S, T, c)
    BY <2>1, <2>b DEF Fair
  <2> QED BY <2>13, <2>14, <2>15, <2>16, <2>17 DEF Good, Step, T
<1> QED BY <1>n, <1>y

\* A change of the record of c that neither the tables nor the holds are about.
Plain(u, v) ==
    /\ v \in User /\ SamePlace(u, v)
    /\ v.dns_pending = u.dns_pending /\ v.ident_pending = u.ident_pending
    /\ v.auth_pending = u.auth_pending /\ Tidy(v)
    /\ u.registered => v.host = u.host /\ v.ident = u.ident

\* The changes of flags that the commands make are plain.
LEMMA PlainFields ==
  ASSUME NEW u \in User, Tidy(u), u.phase = "live"
  PROVE  /\ ~u.registered => Plain(u, [u EXCEPT !.ident = "tilde", !.user = TRUE])
         /\ \A x \in {"good", "bad"} : ~u.registered => Plain(u, [u EXCEPT !.pass = x])
         /\ \A x \in BOOLEAN : Plain(u, [u EXCEPT !.cap = x])
         /\ Plain(u, [u EXCEPT !.waitpong = FALSE])
         /\ Plain(u, [u EXCEPT !.account = TRUE])
         /\ Plain(u, [u EXCEPT !.idle = 0, !.ping_sent = FALSE])
         /\ \A l \in Commands : u.dns_pending =>
               Plain(u, [u EXCEPT !.deferred = Append(@, l)])
<1>1. ASSUME ~u.registered PROVE Plain(u, [u EXCEPT !.ident = "tilde", !.user = TRUE])
  <2>1. "tilde" \in IdentName /\ "tilde" # None
    BY RegistrationAssumption DEF IdentName
  <2> QED BY <1>1, <2>1 DEF Plain, User, SamePlace, Tidy, Slow
<1>2. ASSUME NEW x \in {"good", "bad"}, ~u.registered PROVE Plain(u, [u EXCEPT !.pass = x])
  BY <1>2 DEF Plain, User, SamePlace, Tidy, Slow
<1>3. ASSUME NEW x \in BOOLEAN PROVE Plain(u, [u EXCEPT !.cap = x])
  BY DEF Plain, User, SamePlace, Tidy, Slow
<1>4. Plain(u, [u EXCEPT !.waitpong = FALSE])
  BY DEF Plain, User, SamePlace, Tidy, Slow
<1>5. Plain(u, [u EXCEPT !.account = TRUE])
  BY DEF Plain, User, SamePlace, Tidy, Slow
<1>6. Plain(u, [u EXCEPT !.idle = 0, !.ping_sent = FALSE])
  <2>1. 0 \in 0 .. MaxIdle
    BY Constants
  <2> QED BY <2>1 DEF Plain, User, SamePlace, Tidy, Slow
<1>7. ASSUME NEW l \in Commands, u.dns_pending
      PROVE  Plain(u, [u EXCEPT !.deferred = Append(@, l)])
  <2>1. Append(u.deferred, l) \in Seq(Commands)
    BY DEF User
  <2> DEFINE q == Append(u.deferred, l)
  <2> HIDE DEF q
  <2>2. q \in Seq(Commands)
    BY <2>1 DEF q
  <2>3. Plain(u, [u EXCEPT !.deferred = q])
    BY <1>7, <2>2 DEF Plain, User, SamePlace, Tidy, Slow
  <2> QED BY <2>3 DEF q
<1> QED BY <1>1, <1>2, <1>3, <1>4, <1>5, <1>6, <1>7

\* A plain change is a step.
LEMMA PlainStep ==
  ASSUME NEW S, Good(S), NEW c \in Conn, NEW v, Plain(S.users[c], v)
  PROVE  /\ Step(S, [S EXCEPT !.users[c] = v], c)
         /\ [S EXCEPT !.users[c] = v].users[c] = v
<1> DEFINE T == [S EXCEPT !.users[c] = v]
<1>0. S \in Core /\ S.vetted \in SUBSET Conn /\ S.users[c] \in User
  BY DEF Good, Sound, Core
<1>1. T = Retuned(S, c, v, S.vetted)
  BY <1>0 DEF Core, Retuned
<1>2. v \in User /\ SamePlace(S.users[c], v) /\ Tidy(v) /\ Unasked(S.users[c], v)
  BY DEF Plain, Unasked
<1>3. v.registered => v.ident = S.users[c].ident
  BY DEF Plain, SamePlace
<1> HIDE DEF T
<1>a. Tunes(S, c, v, S.vetted)
  BY <1>0, <1>2, <1>3 DEF Plain, Tunes
<1>4. Step(S, T, c) /\ T.users[c] = v
  BY <1>1, <1>a, Tuned
<1> QED BY <1>4 DEF T

\* PONG is a step.
LEMMA PongStep ==
  ASSUME NEW S, Good(S), NEW c \in Conn, S.users[c].phase = "live", NEW good
  PROVE  Step(S, on_pong(S, c, good), c)
<1> DEFINE T == on_pong(S, c, good)
           v == [S.users[c] EXCEPT !.waitpong = FALSE]
<1>0. S \in Core /\ S.users[c] \in User /\ Tidy(S.users[c])
  BY DEF Good, Sound, Core
<1>1. T = S \/ T = remove_user(S, c) \/ T = [S EXCEPT !.users[c] = v]
  BY <1>0 DEF on_pong, Core
<1>2. Plain(S.users[c], v)
  BY <1>0, PlainFields, Zenon
<1> HIDE DEF v
<1>3. Step(S, [S EXCEPT !.users[c] = v], c)
  BY <1>2, PlainStep
<1> HIDE DEF T
<1>4. Step(S, T, c)
  BY <1>1, <1>3, StepSame, Leaves
<1> QED BY <1>4 DEF T

\* QUIT is a step.
LEMMA QuitStep ==
  ASSUME NEW S, Good(S), NEW c \in Conn, S.users[c].phase = "live"
  PROVE  Step(S, quit_user(S, c), c) /\ quit_user(S, c).users[c] = Gone
<1> DEFINE T == quit_user(S, c)
<1>1. Good(T) /\ Quits(S, T, c)
  BY QuitUser DEF Good
<1> HIDE DEF T
<1>2. S.users \in [Conn -> User]
  BY DEF Good, Sound, Core
<1>3. Beside(S, T, c) /\ T.users[c] = Gone
  BY <1>1, <1>2 DEF Quits, Beside
<1>4. Step(S, T, c)
  BY <1>1, <1>3, GoneFacts DEF Step, Waits, Fair
<1> QED BY <1>3, <1>4 DEF T

\* The answer to a challenge is a step.
LEMMA VerifyStep ==
  ASSUME NEW S, Good(S), NEW c \in Conn, NEW g \in Gate
  PROVE  Step(S, [S EXCEPT !.passed[g] = @ \cup {c}], c)
<1> DEFINE p == [S.passed EXCEPT ![g] = @ \cup {c}]
           T == [S EXCEPT !.passed = p]
<1>0. S \in Core
  BY DEF Good, Sound
<1>1. p \in [Gate -> SUBSET Conn] /\ \A h \in Gate : S.passed[h] \subseteq p[h]
                                                     /\ p[h] \subseteq S.passed[h] \cup {c}
  BY <1>0 DEF Core
<1>2. [S EXCEPT !.passed[g] = @ \cup {c}] = T
  BY <1>0 DEF Core
<1> HIDE DEF p
<1>3. /\ T \in Core /\ T.users = S.users /\ Kept(S, T) /\ T.jobs = S.jobs
      /\ T.xlines = S.xlines /\ T.passed = p /\ T.cleared = S.cleared
      /\ T.vetted = S.vetted
  BY <1>0, <1>1 DEF Core, Kept
<1> HIDE DEF T
<1>4. Step(S, T, c)
  BY <1>1, <1>3, AsideStep
<1> QED BY <1>2, <1>4

\* What a line of each command carries.
LEMMA CommandFacts ==
  ASSUME NEW l \in Commands
  PROVE  /\ l.cmd \in {"NICK", "USER", "PASS", "CAP_LS", "CAP_END", "PONG", "WEBIRC",
                       "VERIFY", "PING", "QUIT"}
         /\ l.cmd = "NICK" => l.arg \in Nick
         /\ l.cmd = "PASS" => l.arg \in {"good", "bad"}
         /\ l.cmd = "WEBIRC" => l.arg \in IP
         /\ l.cmd = "VERIFY" => l.arg \in Gate
<1>1. l \in Command
  BY RegistrationAssumption
<1>2. CASE l \in [cmd : {"NICK"}, arg : Nick]
  BY <1>2
<1>3. CASE l \in [cmd : {"WEBIRC"}, arg : IP]
  BY <1>3
<1>4. CASE l \in [cmd : {"PASS", "PONG"}, arg : {"good", "bad"}]
  BY <1>4
<1>5. CASE l \in [cmd : {"VERIFY"}, arg : Gate]
  BY <1>5
<1>6. CASE l \in [cmd : {"USER", "CAP_LS", "CAP_END", "PING", "QUIT"}, arg : {None}]
  BY <1>6
<1> QED BY <1>1, <1>2, <1>3, <1>4, <1>5, <1>6 DEF Command

\* Every handler is a step.
LEMMA HandledStep ==
  ASSUME NEW S, Good(S), NEW c \in Conn, S.users[c].phase = "live", NEW l \in Commands
  PROVE  Step(S, Handled(S, c, l), c)
<1> DEFINE u == S.users[c]
           T == Handled(S, c, l)
<1>0. S \in Core /\ S.users \in [Conn -> User] /\ u \in User /\ Tidy(u)
  BY DEF Good, Sound, Core
<1>1. CASE l.cmd = "NICK"
  <2>1. T = NickCmd(S, c, l.arg) /\ l.arg \in Nick
    BY <1>1, CommandFacts DEF Handled
  <2> QED BY <2>1, NickStep
<1>2. CASE l.cmd = "USER"
  <2> DEFINE v == [u EXCEPT !.ident = "tilde", !.user = TRUE]
  <2>1. T = IF ~u.registered THEN [S EXCEPT !.users[c] = v] ELSE S
    BY <1>0, <1>2 DEF Handled, Core
  <2>2. ~u.registered => Plain(u, v)
    BY <1>0, PlainFields, Zenon
  <2> HIDE DEF v, T
  <2>3. Step(S, T, c)
    BY <2>1, <2>2, PlainStep, StepSame
  <2> QED BY <2>3 DEF T
<1>3. CASE l.cmd = "PASS"
  <2> DEFINE v == [u EXCEPT !.pass = l.arg]
  <2>1. T = IF ~u.registered THEN [S EXCEPT !.users[c] = v] ELSE S
    BY <1>0, <1>3 DEF Handled, Core
  <2>2. l.arg \in {"good", "bad"}
    BY <1>3, CommandFacts
  <2>3. ~u.registered => Plain(u, v)
    BY <1>0, <2>2, PlainFields, Zenon
  <2> HIDE DEF v, T
  <2>4. Step(S, T, c)
    BY <2>1, <2>3, PlainStep, StepSame
  <2> QED BY <2>4 DEF T
<1>4. CASE l.cmd = "CAP_LS"
  <2> DEFINE v == [u EXCEPT !.cap = TRUE]
  <2>1. T = [S EXCEPT !.users[c] = v]
    BY <1>0, <1>4 DEF Handled, Core
  <2>2. Plain(u, v)
    BY <1>0, PlainFields, Zenon
  <2> HIDE DEF v, T
  <2>3. Step(S, T, c)
    BY <2>1, <2>2, PlainStep
  <2> QED BY <2>3 DEF T
<1>a. CASE l.cmd = "CAP_END"
  <2> DEFINE v == [u EXCEPT !.cap = FALSE]
  <2>1. T = [S EXCEPT !.users[c] = v]
    BY <1>0, <1>a DEF Handled, Core
  <2>2. Plain(u, v)
    BY <1>0, PlainFields, Zenon
  <2> HIDE DEF v, T
  <2>3. Step(S, T, c)
    BY <2>1, <2>2, PlainStep
  <2> QED BY <2>3 DEF T
<1>5. CASE l.cmd = "PONG"
  <2>1. T = on_pong(S, c, l.arg = "good")
    BY <1>5 DEF Handled
  <2> QED BY <2>1, PongStep
<1>6. CASE l.cmd = "WEBIRC"
  <2>1. T = (IF ~u.registered THEN WebIrc(S, c, l.arg) ELSE S) /\ l.arg \in IP
    BY <1>6, CommandFacts DEF Handled
  <2> HIDE DEF T
  <2>2. Step(S, T, c)
    BY <2>1, WebIrcStep, StepSame
  <2> QED BY <2>2 DEF T
<1>7. CASE l.cmd = "VERIFY"
  <2>1. T = [S EXCEPT !.passed[l.arg] = @ \cup {c}] /\ l.arg \in Gate
    BY <1>7, CommandFacts DEF Handled
  <2> HIDE DEF T
  <2>2. Step(S, T, c)
    BY <2>1, VerifyStep
  <2> QED BY <2>2 DEF T
<1>8. CASE l.cmd = "PING"
  BY <1>8, StepSame DEF Handled
<1>9. CASE l.cmd = "QUIT"
  <2>1. T = quit_user(S, c)
    BY <1>9 DEF Handled
  <2> QED BY <2>1, QuitStep
<1> QED BY <1>1, <1>2, <1>3, <1>4, <1>a, <1>5, <1>6, <1>7, <1>8, <1>9, CommandFacts

\* on_line is a step, after which c is held if it could be welcomed.
LEMMA LineStep ==
  ASSUME NEW S, Good(S), NEW c \in Conn, NEW l \in Commands, NEW busy
  PROVE  LET T == on_line(S, c, l, busy) IN Step(S, T, c) /\ Held(T, c)
<1> DEFINE u == S.users[c]
           w == [u EXCEPT !.idle = 0, !.ping_sent = FALSE]
           A == [S EXCEPT !.users[c] = w]
           T == on_line(S, c, l, busy)
<1> SUFFICES Step(S, T, c) /\ Held(T, c)
  OBVIOUS
<1>0. S \in Core /\ S.users \in [Conn -> User] /\ u \in User /\ Tidy(u)
  BY DEF Good, Sound, Core
<1>1. CASE u.phase # "live"
  <2>1. T = S
    BY <1>1 DEF on_line
  <2> HIDE DEF T
  <2> QED BY <1>1, <2>1, StepSame DEF Held, Ripe, ready
<1>2. CASE u.phase = "live"
  <2>1. Plain(u, w)
    BY <1>0, <1>2, PlainFields, Zenon
  <2>2. /\ T = IF u.dns_pending /\ Len(u.deferred) < MaxDeferred
               THEN [A EXCEPT !.users[c].deferred = Append(@, l)]
               ELSE dispatch(A, c, l, busy)
    BY <1>0, <1>2 DEF on_line, Core
  <2> HIDE DEF w, T
  <2>3. Step(S, A, c) /\ A.users[c] = w
    BY <2>1, PlainStep
  <2> HIDE DEF A
  <2>4. Good(A) /\ w \in User /\ Tidy(w) /\ w.phase = "live" /\ w.dns_pending = u.dns_pending
    BY <1>2, <2>1, <2>3 DEF Step, Plain, SamePlace
  <2>5. CASE u.dns_pending /\ T = [A EXCEPT !.users[c].deferred = Append(@, l)]
    <3> DEFINE v == [w EXCEPT !.deferred = Append(@, l)]
    <3>1. T = [A EXCEPT !.users[c] = v]
      BY <2>3, <2>4, <2>5 DEF Good, Sound, Core
    <3>2. Plain(w, v)
      BY <2>4, <2>5, PlainFields, Zenon
    <3> HIDE DEF v
    <3>3. Step(A, T, c) /\ T.users[c] = v
      BY <2>3, <2>4, <3>1, <3>2, PlainStep
    <3>4. v.dns_pending
      BY <2>4, <2>5, <3>2 DEF Plain
    <3> QED BY <2>3, <3>3, <3>4, StepThen DEF Held, Ripe, ready
  <2>6. CASE T = dispatch(A, c, l, busy)
    <3> DEFINE H == Handled(A, c, l)
    <3>1. Step(A, H, c)
      BY <2>3, <2>4, HandledStep
    <3>2. T = try_register(H, c, busy)
      BY <2>6 DEF dispatch
    <3> HIDE DEF H
    <3>3. Step(H, T, c) /\ Held(T, c)
      BY <3>1, <3>2, TryRegister DEF Step
    <3> QED BY <2>3, <3>1, <3>3, StepThen
  <2> QED BY <2>2, <2>5, <2>6
<1> QED BY <1>1, <1>2

-----------------------------------------------------------------------------
(* The lines that were held back are handled one after the other.          *)

HeldLines(S, c, ls, busy) == FoldLeft(LAMBDA acc, l : on_line(acc, c, l, busy), S, ls)

LineEquation(S, c, ls, busy, it) ==
    it = [s \in SUBSET DOMAIN ls |->
            IF s = {} THEN S ELSE on_line(it[s \ {Max(s)}], c, ls[Max(s)], busy)]

\* The fold over the held lines satisfies its equation.
LEMMA HeldLinesFold ==
  ASSUME NEW S, NEW c, NEW ls, NEW busy, NEW it, LineEquation(S, c, ls, busy, it)
  PROVE  \E jt : LineEquation(S, c, ls, busy, jt)
                 /\ HeldLines(S, c, ls, busy) = jt[DOMAIN ls]
<1>1. PICK jt : jt = CHOOSE k : LineEquation(S, c, ls, busy, k)
  OBVIOUS
<1>2. LineEquation(S, c, ls, busy, jt)
  BY <1>1
<1>3. HeldLines(S, c, ls, busy) = jt[DOMAIN ls]
  BY <1>1, Zenon DEF HeldLines, FoldLeft, MapThenFoldSet, LineEquation
<1> QED BY <1>2, <1>3

\* Handling the held lines one after the other is a step.
LEMMA HeldLinesStep ==
  ASSUME NEW S, Good(S), NEW c \in Conn, NEW ls \in Seq(Commands), NEW busy
  PROVE  Step(S, HeldLines(S, c, ls, busy), c)
<1> DEFINE V == {X \in Core : Good(X)}
           n == Len(ls)
           g == [p \in V \X (1 .. n) |-> on_line(p[1], c, ls[p[2]], busy)]
<1>0. S \in V /\ n \in Nat /\ DOMAIN ls = 1 .. n /\ \A i \in 1 .. n : ls[i] \in Commands
  BY DEF Good, Sound
<1>1. ASSUME NEW X \in V, NEW i \in 1 .. n
      PROVE  on_line(X, c, ls[i], busy) \in V /\ Step(X, on_line(X, c, ls[i], busy), c)
  <2>1. Step(X, on_line(X, c, ls[i], busy), c)
    BY <1>0, LineStep
  <2> QED BY <2>1 DEF Step, Good, Sound
<1>2. g \in [V \X (1 .. n) -> V]
  <2> HIDE DEF V, n
  <2> QED BY <1>1
<1>3. PICK it \in [SUBSET (1 .. n) -> V] : SeqFold(n, S, g, it)
  <2> HIDE DEF V, g, n
  <2> QED BY <1>0, <1>2, SeqFoldExists, Zenon
<1>4. LineEquation(S, c, ls, busy, it)
  <2>1. ASSUME NEW s \in SUBSET (1 .. n), s # {}
        PROVE  it[s] = on_line(it[s \ {Max(s)}], c, ls[Max(s)], busy)
    <3>1. Max(s) \in 1 .. n
      BY <1>0, <2>1, MaxIn
    <3>2. it[s \ {Max(s)}] \in V
      OBVIOUS
    <3> HIDE DEF V, n
    <3> QED BY <1>3, <2>1, <3>1, <3>2 DEF SeqFold
  <2>2. it[{}] = S
    BY <1>3 DEF SeqFold
  <2> HIDE DEF V, g, n
  <2> QED BY <1>0, <2>1, <2>2 DEF LineEquation
<1>5. PICK jt : LineEquation(S, c, ls, busy, jt) /\ HeldLines(S, c, ls, busy) = jt[1 .. n]
  BY <1>0, <1>4, HeldLinesFold
<1>6. jt[{}] = S /\ \A s \in SUBSET (1 .. n) : s # {} =>
                       jt[s] = on_line(jt[s \ {Max(s)}], c, ls[Max(s)], busy)
  BY <1>0, <1>5 DEF LineEquation
<1> DEFINE W == [s \in SUBSET (1 .. n) |-> {X \in V : Step(S, X, c)}]
<1>7. jt[{}] \in W[{}]
  BY <1>0, <1>6, StepSame
<1>8. ASSUME NEW s \in SUBSET (1 .. n), s # {}, jt[s \ {Max(s)}] \in W[s \ {Max(s)}]
      PROVE  jt[s] \in W[s]
  <2> DEFINE X == jt[s \ {Max(s)}]
             Y == jt[s]
  <2>1. Max(s) \in 1 .. n
    BY <1>0, <1>8, MaxIn
  <2>2. X \in V /\ Step(S, X, c)
    BY <1>8
  <2>3. Y = on_line(X, c, ls[Max(s)], busy)
    BY <1>6, <1>8
  <2> HIDE DEF X, Y, V, n
  <2>4. Y \in V /\ Step(X, Y, c)
    BY <1>1, <2>1, <2>2, <2>3
  <2>5. Step(S, Y, c)
    BY <2>2, <2>4, StepThen
  <2>6. Y \in W[s]
    BY <2>4, <2>5
  <2> QED BY <2>6 DEF Y
<1>9. jt[1 .. n] \in W[1 .. n]
  <2> HIDE DEF V, W, n
  <2> QED BY <1>0, <1>7, <1>8, SeqFoldStays
<1> QED BY <1>5, <1>9

-----------------------------------------------------------------------------
(* Events.                                                                 *)

Settled(S) == Good(S) /\ \A c \in Conn : Waits(S, c) /\ Held(S, c)

\* Who is newly welcomed has earned it, or was let in by a password check.
Merited(S, T, c) ==
    \/ Earned(T, c)
    \/ S.users[c].auth_pending /\ T.users[c].nick # None /\ T.users[c].ident # None

Honest(S, T) ==
    \A c \in Conn : T.users[c].registered => S.users[c].registered \/ Merited(S, T, c)

\* A step about c after which c is held keeps the invariant, and welcomes fairly.
LEMMA Settles ==
  ASSUME NEW S, Settled(S), NEW c \in Conn, NEW T, Step(S, T, c), Held(T, c)
  PROVE  Settled(T) /\ Honest(S, T)
<1>1. ASSUME NEW d \in Conn
      PROVE  /\ Waits(T, d) /\ Held(T, d)
             /\ T.users[d].registered => S.users[d].registered \/ Merited(S, T, d)
  <2>1. CASE d = c
    BY <2>1 DEF Settled, Step, Fair, Merited
  <2>2. CASE d # c
    BY <2>2, OthersWait DEF Settled, Step
  <2> QED BY <2>1, <2>2
<1> QED BY <1>1 DEF Settled, Honest, Step

\* A job of c ends.
Ended(S, j) == [S EXCEPT !.jobs = @ \ {j}]

\* The end of a job changes nothing else.
LEMMA JobDone ==
  ASSUME NEW S, Good(S), NEW j \in S.jobs, NEW J, J = Ended(S, j)
  PROVE  /\ Good(J) /\ J.users = S.users /\ J.jobs = S.jobs \ {j} /\ J.passed = S.passed
         /\ J.cleared = S.cleared /\ Beside(S, J, j.uid)
<1>0. S \in Core
  BY DEF Good, Sound
<1>1. /\ J \in Core /\ J.users = S.users /\ Kept(S, J) /\ J.jobs = S.jobs \ {j}
      /\ J.passed = S.passed /\ J.cleared = S.cleared /\ J.xlines = S.xlines
      /\ J.vetted = S.vetted
  BY <1>0 DEF Core, Kept, Ended
<1>2. Lookups(J)
  BY <1>1 DEF Good, Sound, Lookups
<1>3. Good(J)
  BY <1>1, <1>2, Aside DEF Good
<1> QED BY <1>1, <1>3 DEF Beside

\* A job whose answer nobody waits for ends.
LEMMA JobIdle ==
  ASSUME NEW S, Settled(S), NEW j \in S.jobs, NEW J, J = Ended(S, j),
         LET u == S.users[j.uid] IN
         /\ j.kind = "dns" => ~u.dns_pending
         /\ j.kind = "ident" => ~u.ident_pending
         /\ j.kind \in {"auth", "dead"} => ~u.auth_pending
  PROVE  Settled(J) /\ Honest(S, J)
<1> DEFINE c == j.uid
<1>0. Good(S) /\ c \in Conn
  BY DEF Settled, Good, Sound, Core, Job
<1>1. /\ Good(J) /\ J.users = S.users /\ J.jobs = S.jobs \ {j} /\ Beside(S, J, c)
      /\ J.passed = S.passed /\ J.cleared = S.cleared
  BY <1>0, JobDone
<1>2. Waits(J, c)
  BY <1>0, <1>1 DEF Settled, Waits, Asked, Running
<1>3. Closed(J, c) = Closed(S, c)
  BY <1>0, <1>1, SameGates
<1>4. Held(J, c)
  BY <1>0, <1>1, <1>3 DEF Settled, Held
<1>5. Step(S, J, c)
  BY <1>1, <1>2, <1>3 DEF Step, Fair, Earned
<1> QED BY <1>0, <1>4, <1>5, Settles

\* The verdict of a blocklist is a step.
LEMMA ActStep ==
  ASSUME NEW S, Good(S), NEW c \in Conn, S.users[c].phase = "live", NEW action
  PROVE  LET T == act(S, c, action) IN
         Step(S, T, c) /\ T.jobs = S.jobs /\ T.users[c] \in {S.users[c], Gone}
<1> DEFINE T == act(S, c, action)
           x == [Zline(S.users[c].ip) EXCEPT !.kind = IF action = "zline" THEN "Z" ELSE "K"]
           X == add_xline(S, x)
<1>0. x \in XLine
  BY DEF XLine, Host, Good, Sound, Core, User, Zline
<1>1. T = S \/ T = remove_user(S, c) \/ T = remove_user(X, c)
  BY DEF act
<1> SUFFICES Step(S, T, c) /\ T.jobs = S.jobs /\ T.users[c] \in {S.users[c], Gone}
  OBVIOUS
<1> HIDE DEF T, x
<1>2. CASE T = S
  BY <1>2, StepSame
<1>3. CASE T = remove_user(S, c)
  BY <1>3, Leaves
<1>4. CASE T = remove_user(X, c)
  <2>1. Step(S, X, c) /\ X.jobs = S.jobs /\ X.users[c] \in {S.users[c], Gone}
    BY <1>0, XlineStep
  <2> HIDE DEF X
  <2>2. Good(X)
    BY <2>1 DEF Step
  <2>3. Step(X, T, c) /\ T.jobs = X.jobs
    BY <1>4, <2>2, Leaves
  <2>4. T.users[c] \in {S.users[c], Gone}
    <3>1. CASE X.users[c].phase = "live"
      BY <1>4, <2>2, <3>1, Leaves
    <3>2. CASE X.users[c].phase # "live"
      <4>1. T = X
        BY <1>4, <2>2, <3>2, RemoveUser DEF Good
      <4> QED BY <2>1, <4>1
    <3> QED BY <3>1, <3>2
  <2> QED BY <2>1, <2>3, <2>4, StepThen
<1> QED BY <1>1, <1>2, <1>3, <1>4

\* The host, the verdict, the end of the hold.
LEMMA Resolves ==
  ASSUME NEW S, Settled(S), NEW j \in S.jobs, j.kind = "dns", NEW c \in Conn, j.uid = c,
         S.users[c].phase = "live", NEW named, NEW verdict,
         NEW J, J = Ended(S, j),
         NEW D, D = on_resolved(J, c, j.arg, named, verdict)
  PROVE  /\ Step(S, [D EXCEPT !.users[c].deferred = <<>>], c)
         /\ D.users[c].deferred \in Seq(Commands)
<1> DEFINE u == S.users[c]
<1>0. Good(S) /\ S \in Core /\ S.users \in [Conn -> User] /\ u \in User /\ Tidy(u)
  BY DEF Settled, Good, Sound, Core
<1>1. j.arg \in IP /\ u.dns_pending /\ ~u.registered /\ ~u.auth_pending
  BY <1>0 DEF Good, Sound, Lookups, Tidy
<1>2. /\ Good(J) /\ J.users = S.users /\ J.jobs = S.jobs \ {j} /\ Beside(S, J, c)
      /\ J.passed = S.passed /\ J.cleared = S.cleared
  BY <1>0, JobDone
<1>3. \A k \in J.jobs : k.kind = "dns" => k.uid # c
  BY <1>0, <1>2 DEF Good, Sound, Lookups
<1> DEFINE h == [u EXCEPT !.host = NameOf[j.arg]]
           H == IF named THEN [J EXCEPT !.users[c] = h] ELSE J
           E == IF verdict = "clean" THEN H ELSE act(H, c, verdict)
<1>4. D = [E EXCEPT !.users[c].dns_pending = FALSE]
  BY <1>0, <1>2 DEF on_resolved, Good, Sound, Core
<1>5. Plain(u, h) /\ h.phase = "live"
  <2>1. NameOf[j.arg] \in Host
    BY <1>1, RegistrationAssumption DEF Host
  <2> QED BY <1>0, <1>1, <2>1 DEF Plain, User, SamePlace, Tidy, Slow
<1>6. Step(J, H, c) /\ H.jobs = J.jobs /\ H.users[c] \in {u, h}
  <2> HIDE DEF h
  <2>1. Step(J, [J EXCEPT !.users[c] = h], c) /\ [J EXCEPT !.users[c] = h].users[c] = h
    <3>1. Plain(J.users[c], h)
      BY <1>2, <1>5
    <3> QED BY <1>2, <3>1, PlainStep
  <2>2. [J EXCEPT !.users[c] = h].jobs = J.jobs
    BY <1>2 DEF Good, Sound, Core
  <2> QED BY <1>2, <2>1, <2>2, StepSame
<1> HIDE DEF h, H
<1>7. Good(H) /\ H.users[c].phase = "live" /\ ~H.users[c].registered
      /\ H.users[c].ident_pending = u.ident_pending /\ ~H.users[c].auth_pending
  BY <1>0, <1>1, <1>5, <1>6 DEF Step, Plain, SamePlace
<1>8. Step(H, E, c) /\ E.jobs = H.jobs /\ E.users[c] \in {H.users[c], Gone}
  BY <1>7, ActStep, StepSame
<1> HIDE DEF E
<1>9. Good(E) /\ E \in Core /\ E.users \in [Conn -> User] /\ Tidy(E.users[c])
  BY <1>8 DEF Step, Good, Sound, Core
<1> DEFINE e == E.users[c]
           d == [e EXCEPT !.dns_pending = FALSE]
           v == [d EXCEPT !.deferred = <<>>]
           T == [D EXCEPT !.users[c].deferred = <<>>]
<1>e. e \in User
  BY <1>9
<1>a. /\ d \in User /\ d.deferred = e.deferred
      /\ d.class = e.class /\ d.phase = e.phase /\ d.registered = e.registered
      /\ d.ip = e.ip /\ d.nick = e.nick /\ d.auth_pending = e.auth_pending
      /\ d.dns_pending = FALSE /\ d.ident_pending = e.ident_pending
      /\ d.ident = e.ident /\ d.waitpong = e.waitpong /\ d.user = e.user
  <2> HIDE DEF e
  <2> QED BY <1>e DEF User
<1>b. D = [E EXCEPT !.users = [E.users EXCEPT ![c] = d]]
  BY <1>4
<1>10. T = [E EXCEPT !.users[c] = v] /\ D.users[c].deferred = e.deferred
  <2> DEFINE us == [E.users EXCEPT ![c] = d]
             vs == [E.users EXCEPT ![c] = v]
  <2> HIDE DEF d, e
  <2>a. us \in [Conn -> User] /\ us[c] = d /\ [us EXCEPT ![c] = v] = vs
    BY <1>9, <1>a
  <2>b. D = [E EXCEPT !.users = us]
    BY <1>b
  <2> HIDE DEF us
  <2>1. D \in Core /\ D.users = us /\ D.users[c] = d
    BY <1>9, <2>a, <2>b DEF Core
  <2>2. T = [D EXCEPT !.users = [us EXCEPT ![c] = v]]
    BY <2>1 DEF Core
  <2> HIDE DEF v, T
  <2>4. T = [D EXCEPT !.users = vs]
    BY <2>2, <2>a
  <2> HIDE DEF vs
  <2>5. [D EXCEPT !.users = vs] = [E EXCEPT !.users = vs]
    BY <1>9, <2>b DEF Core
  <2>3. [D EXCEPT !.users = vs] = [E EXCEPT !.users[c] = v]
    BY <2>5 DEF vs
  <2> QED BY <1>a, <2>1, <2>4, <2>3
<1>11. e \in User /\ e.deferred \in Seq(Commands) /\ ~e.registered /\ ~e.auth_pending
       /\ (e.ident_pending => u.ident_pending)
  BY <1>7, <1>8, <1>9, GoneFacts DEF User
<1>12. v \in User /\ SamePlace(e, v) /\ v.auth_pending = e.auth_pending /\ Tidy(v)
       /\ v.ident_pending = e.ident_pending /\ v.dns_pending = FALSE
  <2>1. /\ v \in User /\ v.class = e.class /\ v.phase = e.phase /\ v.registered = e.registered
        /\ v.ip = e.ip /\ v.nick = e.nick /\ v.auth_pending = e.auth_pending
        /\ v.dns_pending = FALSE /\ v.ident_pending = e.ident_pending
        /\ v.ident = e.ident /\ v.deferred = <<>> /\ v.waitpong = e.waitpong
        /\ v.user = e.user
    <3> DEFINE q == <<>>
               w == [d EXCEPT !.deferred = q]
    <3>1. q \in Seq(Commands) /\ v = w
      OBVIOUS
    <3> HIDE DEF e, d, q
    <3>2. /\ w \in User /\ w.class = d.class /\ w.phase = d.phase /\ w.registered = d.registered
          /\ w.ip = d.ip /\ w.nick = d.nick /\ w.auth_pending = d.auth_pending
          /\ w.dns_pending = d.dns_pending /\ w.ident_pending = d.ident_pending
          /\ w.ident = d.ident /\ w.deferred = q /\ w.waitpong = d.waitpong
          /\ w.user = d.user
      BY <1>a, <3>1 DEF User
    <3> HIDE DEF w, v
    <3> QED BY <1>a, <3>1, <3>2 DEF q
  <2> HIDE DEF v
  <2>2. SamePlace(e, v)
    BY <2>1 DEF SamePlace
  <2>3. Tidy(e)
    BY <1>9
  <2>4. Tidy(v)
    <3> HIDE DEF e
    <3> QED BY <1>11, <2>1, <2>3 DEF Tidy
  <2> QED BY <2>1, <2>2, <2>4
<1> HIDE DEF v, T, d, e
<1>13. /\ T \in Core /\ Kept(E, T) /\ T.jobs = E.jobs /\ T.xlines = E.xlines
       /\ Only(E, T, c, v) /\ T.vetted = E.vetted
  BY <1>9, <1>10, <1>12 DEF Core, Kept, Only
<1>14. T.users[c] = v /\ T.users = [E.users EXCEPT ![c] = v] /\ Beside(E, T, c)
  BY <1>9, <1>13, OnlyBeside DEF Only
<1>15. Lookups(T)
  <2>1. \A k \in T.jobs : k.kind = "dns" => k.uid # c
    BY <1>3, <1>6, <1>8, <1>13
  <2> QED BY <1>9, <1>12, <1>13, <1>14, <2>1 DEF Good, Sound, Lookups, SamePlace, Core, Job, e
<1>16. Good(T)
  <2>1. Judgement(E, T, c, E.users[c], v)
    BY <1>11, <1>12, <1>13 DEF Judgement, SamePlace
  <2> QED BY <1>9, <1>11, <1>12, <1>13, <1>14, <1>15, <2>1, Touched DEF Good, SamePlace, e
<1>17. Beside(S, T, c)
  BY <1>2, <1>6, <1>8, <1>14 DEF Beside, Step
<1>18. Waits(T, c)
  <2>1. v.ident_pending => Asked(S, c, "ident")
    BY <1>11, <1>12 DEF Settled, Waits
  <2>2. Asked(S, c, "ident") => Asked(T, c, "ident")
    BY <1>2, <1>6, <1>8, <1>13 DEF Asked, Running
  <2> QED BY <1>11, <1>12, <1>14, <2>1, <2>2 DEF Waits
<1>19. Fair(S, T, c)
  BY <1>11, <1>12, <1>14 DEF Fair, SamePlace
<1> QED BY <1>10, <1>11, <1>16, <1>17, <1>18, <1>19 DEF Step, T

\* The answer of a lookup keeps the invariant.
LEMMA ResolvedHostKeeps ==
  ASSUME Settled(core), NEW c \in Conn, ResolvedHost(c)
  PROVE  Settled(core') /\ Honest(core, core')
<1>1. PICK j \in {k \in Running(core, "dns") : k.uid = c}, busy \in Busy(core) :
      \E named \in {FALSE, ResolveHosts}, verdict \in {"clean"} \cup DnsblActions :
         LET J == [core EXCEPT !.jobs = @ \ {j}]
             D == on_resolved(J, c, j.arg, named, verdict)
             lines == D.users[c].deferred
             T == [D EXCEPT !.users[c].deferred = <<>>]
             R == FoldLeft(LAMBDA acc, l : on_line(acc, c, l, busy), T, lines)
         IN  /\ core' = IF c \in Live(core) THEN try_register(R, c, busy) ELSE J
             /\ UNCHANGED <<sent, ruled>>
  BY Zenon DEF ResolvedHost
<1>2. PICK named, verdict :
         LET J == [core EXCEPT !.jobs = @ \ {j}]
             D == on_resolved(J, c, j.arg, named, verdict)
             lines == D.users[c].deferred
             T == [D EXCEPT !.users[c].deferred = <<>>]
             R == FoldLeft(LAMBDA acc, l : on_line(acc, c, l, busy), T, lines)
         IN  core' = IF c \in Live(core) THEN try_register(R, c, busy) ELSE J
  BY <1>1, Zenon
<1> DEFINE J == Ended(core, j)
           D == on_resolved(J, c, j.arg, named, verdict)
           T == [D EXCEPT !.users[c].deferred = <<>>]
           R == HeldLines(T, c, D.users[c].deferred, busy)
<1>3. core' = IF c \in Live(core) THEN try_register(R, c, busy) ELSE J
  BY <1>2, Zenon DEF HeldLines, Ended
<1>4. j \in core.jobs /\ j.kind = "dns" /\ j.uid = c
  BY DEF Running
<1> HIDE DEF J, D
<1>5. CASE c \in Live(core)
  <2>1. Step(core, T, c) /\ D.users[c].deferred \in Seq(Commands)
    BY <1>4, <1>5, Resolves DEF Live, J, D
  <2> HIDE DEF T
  <2>2. Good(T)
    BY <2>1 DEF Step
  <2>3. Step(T, R, c)
    BY <2>1, <2>2, HeldLinesStep
  <2> HIDE DEF R
  <2>4. Good(R)
    BY <2>3 DEF Step
  <2>5. Step(R, core', c) /\ Held(core', c)
    BY <1>3, <1>5, <2>4, TryRegister
  <2>6. Step(core, core', c)
    BY <2>1, <2>3, <2>5, StepThen
  <2> QED BY <2>5, <2>6, Settles
<1>6. CASE c \notin Live(core)
  <2>1. ~core.users[c].dns_pending
    BY <1>6 DEF Live, Settled, Good, Sound, Tidy
  <2>2. core' = Ended(core, j)
    BY <1>3, <1>6 DEF J
  <2> QED BY <1>4, <2>1, <2>2, JobIdle
<1> QED BY <1>5, <1>6

\* The answer of an ident query keeps it.
LEMMA IdentKeeps ==
  ASSUME Settled(core), NEW c \in Conn, Ident(c)
  PROVE  Settled(core') /\ Honest(core, core')
<1>1. PICK j \in {k \in Running(core, "ident") : k.uid = c},
           answer \in {"refused", "confirmed"}, busy \in Busy(core) :
         LET J == [core EXCEPT !.jobs = @ \ {j}]
             A == [J EXCEPT !.users[c] = [@ EXCEPT !.answer = answer, !.ident_pending = FALSE]]
         IN  core' = IF c \in Live(core) THEN try_register(A, c, busy) ELSE J
  BY Zenon DEF Ident
<1> DEFINE J == Ended(core, j)
           u == core.users[c]
           v == [u EXCEPT !.answer = answer, !.ident_pending = FALSE]
           A == [J EXCEPT !.users[c] = v]
<1>0. Good(core) /\ core.users \in [Conn -> User] /\ u \in User /\ Tidy(u)
  BY DEF Settled, Good, Sound, Core
<1>2. j \in core.jobs /\ j.kind = "ident" /\ j.uid = c
  BY DEF Running
<1>3. /\ Good(J) /\ J.users = core.users /\ J.jobs = core.jobs \ {j} /\ Beside(core, J, c)
      /\ J.passed = core.passed /\ J.cleared = core.cleared
  BY <1>0, <1>2, JobDone
<1>4. core' = IF c \in Live(core) THEN try_register(A, c, busy) ELSE J
  BY <1>1, <1>3 DEF Ended
<1> HIDE DEF J
<1>5. CASE c \in Live(core)
  <2>1. u.ident_pending /\ ~u.registered /\ ~u.auth_pending /\ u.phase = "live"
    BY <1>0, <1>2, <1>5 DEF Live, Good, Sound, Lookups, Tidy
  <2>2. /\ v \in User /\ SamePlace(u, v) /\ v.auth_pending = u.auth_pending /\ Tidy(v)
        /\ v.ident_pending = FALSE /\ v.dns_pending = u.dns_pending
    <3>1. /\ v \in User /\ v.class = u.class /\ v.phase = u.phase /\ v.registered = u.registered
          /\ v.ip = u.ip /\ v.nick = u.nick /\ v.auth_pending = u.auth_pending
          /\ v.dns_pending = u.dns_pending /\ v.ident_pending = FALSE
          /\ v.ident = u.ident /\ v.deferred = u.deferred /\ v.waitpong = u.waitpong
          /\ v.user = u.user
      BY <1>0 DEF User
    <3> HIDE DEF v
    <3> QED BY <1>0, <2>1, <3>1 DEF SamePlace, Tidy
  <2> HIDE DEF v
  <2>3. /\ A \in Core /\ Kept(J, A) /\ A.jobs = J.jobs /\ A.xlines = J.xlines
        /\ Only(J, A, c, v) /\ A.vetted = J.vetted
    BY <1>3, <2>2 DEF Good, Sound, Core, Kept, Only
  <2> HIDE DEF A
  <2>4. A.users[c] = v /\ A.users = [J.users EXCEPT ![c] = v] /\ Beside(J, A, c)
    BY <1>0, <1>3, <2>3, OnlyBeside DEF Only
  <2>5. Lookups(A)
    <3>1. \A k \in A.jobs : k.kind = "ident" => k.uid # c
      BY <1>0, <1>2, <1>3, <2>3 DEF Good, Sound, Lookups
    <3> QED BY <1>0, <1>3, <2>2, <2>3, <2>4, <3>1 DEF Good, Sound, Lookups, SamePlace, Core, Job
  <2>6. Good(A)
    <3>1. Judgement(J, A, c, J.users[c], v)
      BY <1>3, <2>1, <2>2, <2>3 DEF Judgement, SamePlace
    <3> QED BY <1>3, <2>1, <2>2, <2>3, <2>4, <2>5, <3>1, Touched DEF Good, SamePlace
  <2>7. Beside(core, A, c)
    BY <1>3, <2>4 DEF Beside
  <2>8. Waits(A, c)
    <3>1. v.dns_pending => Asked(core, c, "dns")
      BY <2>2 DEF Settled, Waits
    <3>2. Asked(core, c, "dns") => Asked(A, c, "dns")
      BY <1>2, <1>3, <2>3 DEF Asked, Running
    <3> QED BY <2>1, <2>2, <2>4, <3>1, <3>2 DEF Waits
  <2>9. Fair(core, A, c)
    BY <2>1, <2>2, <2>4 DEF Fair, SamePlace
  <2>10. Step(core, A, c)
    BY <2>6, <2>7, <2>8, <2>9 DEF Step
  <2>11. Step(A, core', c) /\ Held(core', c)
    BY <1>4, <1>5, <2>6, TryRegister
  <2>12. Step(core, core', c)
    BY <2>10, <2>11, StepThen
  <2> QED BY <2>11, <2>12, Settles
<1>6. CASE c \notin Live(core)
  <2>1. ~core.users[c].ident_pending
    BY <1>0, <1>6 DEF Live, Tidy
  <2>2. core' = Ended(core, j)
    BY <1>4, <1>6 DEF J
  <2> QED BY <1>2, <2>1, <2>2, JobIdle
<1> QED BY <1>5, <1>6

\* The verdict on a password keeps it.
LEMMA ConnclassAuthKeeps ==
  ASSUME Settled(core), NEW c \in Conn, ConnclassAuth(c)
  PROVE  Settled(core') /\ Honest(core, core')
<1>1. PICK j \in {k \in Running(core, "auth") : k.uid = c} :
         LET J == [core EXCEPT !.jobs = @ \ {j}]
             A == [J EXCEPT !.users[c].auth_pending = FALSE, !.vetted = @ \ {c}]
         IN  core' = IF ~core.users[c].auth_pending THEN J
                     ELSE IF j.arg THEN welcome(A, c) ELSE remove_user(A, c)
  BY Zenon DEF ConnclassAuth
<1> DEFINE J == Ended(core, j)
           u == core.users[c]
           v == [u EXCEPT !.auth_pending = FALSE]
           A == [J EXCEPT !.users[c] = v, !.vetted = @ \ {c}]
<1>0. Good(core) /\ core.users \in [Conn -> User] /\ u \in User /\ Tidy(u)
  BY DEF Settled, Good, Sound, Core
<1>2. j \in core.jobs /\ j.kind = "auth" /\ j.uid = c
  BY DEF Running
<1>3. /\ Good(J) /\ J.users = core.users /\ J.jobs = core.jobs \ {j} /\ Beside(core, J, c)
      /\ J.passed = core.passed /\ J.cleared = core.cleared
  BY <1>0, <1>2, JobDone
<1>4. core' = IF ~u.auth_pending THEN J
              ELSE IF j.arg THEN welcome(A, c) ELSE remove_user(A, c)
  BY <1>1, <1>3 DEF Ended
<1> HIDE DEF J
<1>5. CASE u.auth_pending
  <2>1. /\ u.phase = "live" /\ ~u.registered /\ ~u.dns_pending /\ ~u.ident_pending
        /\ ~u.waitpong /\ u.nick # None /\ u.ident # None /\ Slow(u)
    BY <1>0, <1>5 DEF Tidy
  <2>2. /\ v \in User /\ SamePlace(u, v) /\ v.auth_pending = FALSE /\ Tidy(v)
        /\ v.ident_pending = u.ident_pending /\ v.dns_pending = u.dns_pending
        /\ v.waitpong = u.waitpong /\ v.ident = u.ident /\ v.host = u.host
    BY <1>0, <2>1 DEF User, SamePlace, Tidy, Slow
  <2> HIDE DEF v
  <2>3. /\ A \in Core /\ Kept(J, A) /\ A.jobs = J.jobs /\ A.xlines = J.xlines
        /\ Only(J, A, c, v) /\ A.vetted = J.vetted \ {c}
    BY <1>3, <2>2 DEF Good, Sound, Core, Kept, Only
  <2> HIDE DEF A
  <2>4. A.users[c] = v /\ A.users = [J.users EXCEPT ![c] = v] /\ Beside(J, A, c)
    BY <1>0, <1>3, <2>3, OnlyBeside DEF Only
  <2>5. Lookups(A)
    BY <1>0, <1>3, <2>2, <2>3, <2>4 DEF Good, Sound, Lookups, SamePlace, Core, Job
  <2>6. Good(A)
    <3>1. Judgement(J, A, c, J.users[c], v)
      BY <2>3 DEF Judgement
    <3> QED BY <1>3, <2>1, <2>2, <2>3, <2>4, <2>5, <3>1, Touched DEF Good, SamePlace
  <2>7. Beside(core, A, c)
    BY <1>3, <2>4 DEF Beside
  <2>8. v.phase = "live" /\ ~v.registered /\ NoHold(v) /\ v.ident # None /\ c \notin A.vetted
    BY <2>1, <2>2, <2>3 DEF SamePlace, NoHold
  \* c itself was one of those that count against localmax.
  <2>9. ASSUME Sheltered PROVE Room(A, c)
    <3> SUFFICES ASSUME NEW i \in DOMAIN ClassSeq,
                        ClassSeq[i].name = v.class, ClassSeq[i].localmax > 0
                 PROVE  Cardinality(Admitted(A, v.ip, v.class) \ {c}) < ClassSeq[i].localmax
      BY <2>4 DEF Room
    <3> DEFINE X == Admitted(core, v.ip, v.class)
               Y == Admitted(A, v.ip, v.class) \ {c}
    <3>0. ClassSeq[i].localmax \in Nat /\ v.ip \in IP
      BY <2>2, Constants DEF Class, User
    <3>1. Cardinality(X) <= ClassSeq[i].localmax
      BY <1>0, <2>9, <3>0 DEF Good, Sound, Clones
    <3>2. c \in X /\ X \in SUBSET Conn
      BY <1>5, <2>1, <2>2 DEF Admitted, Here, Live, SamePlace
    <3>3. Y = X \ {c}
      BY <1>0, <1>3, <2>4 DEF Admitted, Here, Live
    <3>4. Cardinality(X \ {c}) = Cardinality(X) - 1 /\ Cardinality(X) \in Nat
      BY <3>2, Finite, FS_RemoveElement
    <3> QED BY <3>0, <3>1, <3>3, <3>4
  <2>10. Welcomed(A, welcome(A, c), c)
    BY <2>4, <2>6, <2>8, <2>9, WelcomeStep
  <2>11. /\ Good(core') /\ Beside(A, core', c)
         /\ core'.users[c] = Gone \/ core'.users[c] = Greeted(v)
    <3>1. core' = welcome(A, c) \/ core' = remove_user(A, c)
      BY <1>4, <1>5
    <3>2. CASE core' = welcome(A, c)
      BY <2>4, <2>10, <3>2 DEF Welcomed
    <3>3. CASE core' = remove_user(A, c)
      <4>1. A.users[c].phase = "live"
        BY <2>4, <2>8
      <4>2. Step(A, remove_user(A, c), c) /\ remove_user(A, c).users[c] = Gone
        BY <2>6, <4>1, Leaves
      <4> QED BY <3>3, <4>2 DEF Step
    <3> QED BY <3>1, <3>2, <3>3
  <2>a. LET w == Greeted(v) IN
        /\ w.registered /\ w.nick = v.nick /\ w.ident # None /\ ~w.dns_pending
        /\ ~w.ident_pending /\ ~w.auth_pending
    <3>1. "hash" # None
      BY RegistrationAssumption DEF IdentName
    <3> QED BY <2>2, <2>8, <3>1, GreetedFacts DEF NoHold
  <2>12. Waits(core', c) /\ ~ready(core'.users[c])
    BY <2>11, <2>a, GoneFacts DEF Waits, ready
  <2>13. Beside(core, core', c)
    BY <2>7, <2>11 DEF Beside
  <2>14. core'.users[c].registered => Merited(core, core', c)
    <3>1. CASE core'.users[c] = Gone
      BY <3>1, GoneFacts
    <3>2. CASE core'.users[c] = Greeted(v)
      <4>1. core'.users[c].nick = u.nick /\ core'.users[c].ident # None
        BY <2>2, <2>a, <3>2 DEF SamePlace
      <4> QED BY <1>5, <2>1, <4>1 DEF Merited
    <3> QED BY <2>11, <3>1, <3>2
  <2>15. ASSUME NEW d \in Conn
         PROVE  /\ Waits(core', d) /\ Held(core', d)
                /\ core'.users[d].registered => core.users[d].registered \/ Merited(core, core', d)
    <3>1. CASE d = c
      BY <2>12, <2>14, <3>1 DEF Held, Ripe
    <3>2. CASE d # c
      BY <2>13, <3>2, OthersWait DEF Settled
    <3> QED BY <3>1, <3>2
  <2> QED BY <2>11, <2>15 DEF Settled, Honest
<1>6. CASE ~u.auth_pending
  <2>1. core' = Ended(core, j)
    BY <1>4, <1>6 DEF J
  <2> QED BY <1>2, <1>6, <2>1, JobIdle
<1> QED BY <1>5, <1>6

\* A worker that dies keeps it.
LEMMA CryptoPanicKeeps ==
  ASSUME Settled(core), NEW c \in Conn, CryptoPanic(c)
  PROVE  Settled(core') /\ Honest(core, core')
<1>1. PICK j \in {k \in Running(core, "auth") : k.uid = c} :
         core' = [core EXCEPT !.jobs = (@ \ {j}) \cup {[j EXCEPT !.kind = "dead"]}]
  BY DEF CryptoPanic
<1> DEFINE x == [j EXCEPT !.kind = "dead"]
<1>0. Good(core) /\ core \in Core
  BY DEF Settled, Good, Sound
<1>2. j \in core.jobs /\ j.kind = "auth" /\ j.uid = c /\ j \in Job
  BY <1>0 DEF Running, Core
<1>3. x \in Job /\ x.kind = "dead" /\ x.uid = c
  BY <1>2 DEF Job
<1> HIDE DEF x
<1>4. core' = [core EXCEPT !.jobs = (@ \ {j}) \cup {x}]
  BY <1>1 DEF x
<1>5. /\ core' \in Core /\ core'.users = core.users /\ Kept(core, core')
      /\ core'.passed = core.passed /\ core'.cleared = core.cleared
      /\ core'.xlines = core.xlines /\ core'.jobs = (core.jobs \ {j}) \cup {x}
      /\ core'.vetted = core.vetted
  BY <1>0, <1>3, <1>4 DEF Core, Kept
<1>6. Lookups(core')
  BY <1>0, <1>2, <1>3, <1>5 DEF Good, Sound, Lookups
<1>7. Good(core')
  BY <1>0, <1>5, <1>6, Aside DEF Good
<1>8. Beside(core, core', c)
  BY <1>2, <1>5 DEF Beside
<1>9. Waits(core', c)
  BY <1>2, <1>3, <1>5 DEF Settled, Waits, Asked, Running
<1>10. Closed(core', c) = Closed(core, c)
  BY <1>5, SameGates
<1>11. Step(core, core', c)
  BY <1>5, <1>7, <1>8, <1>9, <1>10 DEF Step, Fair, Earned
<1>12. Held(core', c)
  BY <1>5, <1>10 DEF Settled, Held
<1> QED BY <1>11, <1>12, Settles

\* A line keeps it.
LEMMA LineKeeps ==
  ASSUME Settled(core), NEW c \in Conn, Line(c)
  PROVE  Settled(core') /\ Honest(core, core')
<1>1. PICK l \in Commands, busy \in Busy(core) : core' = on_line(core, c, l, busy)
  BY DEF Line
<1>2. Step(core, core', c) /\ Held(core', c)
  BY <1>1, LineStep DEF Settled
<1> QED BY <1>2, Settles

\* The end of a socket keeps it.
LEMMA DisconnectKeeps ==
  ASSUME Settled(core), NEW c \in Conn, Disconnect(c)
  PROVE  Settled(core') /\ Honest(core, core')
<1>1. Step(core, core', c) /\ core'.users[c] = Gone
  BY QuitStep DEF Disconnect, Live, Settled
<1>2. Held(core', c)
  BY <1>1, GoneFacts DEF Held, Ripe, ready
<1> QED BY <1>1, <1>2, Settles

\* KILL keeps it.
LEMMA KillKeeps ==
  ASSUME Settled(core), NEW c \in Conn, Kill(c)
  PROVE  Settled(core') /\ Honest(core, core')
<1>1. Step(core, core', c) /\ core'.users[c].phase # "live"
  BY Leaves DEF Kill, Settled
<1>2. Held(core', c)
  BY <1>1 DEF Held, Ripe, ready
<1> QED BY <1>1, <1>2, Settles

\* A log-in keeps it.
LEMMA LoginKeeps ==
  ASSUME Settled(core), NEW c \in Conn, set_login(c)
  PROVE  Settled(core') /\ Honest(core, core')
<1> DEFINE u == core.users[c]
           v == [u EXCEPT !.account = TRUE]
<1>0. Good(core) /\ core.users \in [Conn -> User] /\ u \in User /\ Tidy(u) /\ u.phase = "live"
  BY DEF Settled, Good, Sound, Core, set_login, Live
<1>1. core' = [core EXCEPT !.users[c] = v]
  BY DEF set_login
<1>2. Plain(u, v)
  BY <1>0, PlainFields, Zenon
<1>3. Ripe(v) => Ripe(u)
  BY <1>0 DEF Ripe, ready, User
<1> HIDE DEF v
<1>4. Step(core, core', c) /\ core'.users[c] = v
  BY <1>0, <1>1, <1>2, PlainStep
<1>5. core'.passed = core.passed /\ core'.cleared = core.cleared
  BY <1>0, <1>1 DEF Good, Sound, Core
<1>6. Closed(core', c) = Closed(core, c)
  BY <1>2, <1>4, <1>5, SameGates DEF Plain, SamePlace
<1>7. Held(core', c)
  BY <1>3, <1>4, <1>6 DEF Settled, Held
<1> QED BY <1>4, <1>7, Settles

\* A change of its ident keeps it: who has sent USER had one, and nobody asks
\* the lines about the new one.
LEMMA ChgIdentKeeps ==
  ASSUME Settled(core), NEW c \in Conn, ChgIdent(c)
  PROVE  Settled(core') /\ Honest(core, core')
<1> DEFINE u == core.users[c]
           v == [u EXCEPT !.ident = "set"]
           w == core.vetted \ {c}
<1>0. Good(core) /\ core \in Core /\ u \in User /\ Tidy(u)
  BY DEF Settled, Good, Sound, Core
<1>1. core' = Retuned(core, c, v, w)
  BY <1>0 DEF ChgIdent, Core, Retuned
<1>2. "set" \in IdentName /\ "set" # None
  BY RegistrationAssumption DEF IdentName
<1>3. v \in User /\ SamePlace(u, v) /\ Tidy(v) /\ Unasked(u, v)
  BY <1>0, <1>2 DEF User, SamePlace, Tidy, Slow, Unasked
<1>4. /\ v.dns_pending = u.dns_pending /\ v.ident_pending = u.ident_pending
      /\ v.auth_pending = u.auth_pending
  BY <1>0 DEF User
<1>5. Ripe(v) => Ripe(u)
  BY <1>0 DEF Ripe, ready, User, Tidy
<1>6. w \in SUBSET Conn /\ w \subseteq core.vetted \cup {c} /\ c \notin w
  BY <1>0 DEF Core
<1> HIDE DEF v, w
<1>a. Tunes(core, c, v, w)
  BY <1>3, <1>4, <1>6 DEF Tunes
<1>7. /\ Step(core, core', c) /\ core'.users[c] = v /\ core'.passed = core.passed
      /\ core'.cleared = core.cleared
  BY <1>0, <1>1, <1>a, Tuned
<1>8. Closed(core', c) = Closed(core, c)
  BY <1>3, <1>7, SameGates DEF SamePlace
<1>9. Held(core', c)
  BY <1>5, <1>7, <1>8 DEF Settled, Held
<1> QED BY <1>7, <1>9, Settles

\* Only what is not about a connection changes, and no gate is opened.
LEMMA AsideKeeps ==
  ASSUME NEW S, Settled(S), NEW T \in Core, T.users = S.users, Kept(S, T), T.jobs = S.jobs,
         Unbanned(T), T.cleared \subseteq S.cleared, T.passed = S.passed
  PROVE  Settled(T) /\ Honest(S, T)
<1>1. Lookups(T)
  BY DEF Settled, Good, Sound, Lookups
<1>2. Good(T)
  BY <1>1, Aside DEF Good, Settled
<1>3. ASSUME NEW c \in Conn PROVE Waits(T, c) /\ Held(T, c)
  <2>1. Waits(T, c)
    BY DEF Settled, Waits, Asked, Running
  <2>2. Closed(S, c) \subseteq Closed(T, c)
    BY DEF Closed, Cleared
  <2> QED BY <2>1, <2>2 DEF Settled, Held
<1> QED BY <1>2, <1>3 DEF Settled, Honest

\* The expiry of a clearance keeps it: gates only close.
LEMMA ExpiresKeeps ==
  ASSUME Settled(core), NEW ip \in IP, VerifyExpires(ip)
  PROVE  Settled(core') /\ Honest(core, core')
<1>1. core \in Core /\ core' = [core EXCEPT !.cleared = @ \ {ip}]
  BY DEF Settled, Good, Sound, VerifyExpires
<1>2. /\ core' \in Core /\ core'.users = core.users /\ Kept(core, core')
      /\ core'.jobs = core.jobs /\ core'.xlines = core.xlines
      /\ core'.cleared = core.cleared \ {ip} /\ core'.passed = core.passed
      /\ core'.vetted = core.vetted
  BY <1>1 DEF Core, Kept
<1>3. Unbanned(core')
  BY <1>2, SameBans DEF Settled, Good, Unbanned, Registered, Live
<1> QED BY <1>2, <1>3, AsideKeeps

\* The removal of a line keeps it: who loses its E-line is vetted no more.
LEMMA RemoveXlineKeeps ==
  ASSUME Settled(core), NEW x \in core.xlines, RemoveXline(x)
  PROVE  Settled(core') /\ Honest(core, core')
<1> DEFINE T == [core EXCEPT !.xlines = @ \ {x}]
           w == {c \in core.vetted : ~(is_exempt(core, core.users[c]) /\ ~is_exempt(T, core.users[c]))}
<1>0. core \in Core
  BY DEF Settled, Good, Sound
<1>a. T \in Core /\ T.xlines = core.xlines \ {x} /\ T.vetted = core.vetted
  BY <1>0 DEF Core
<1>1. core' = [core EXCEPT !.xlines = @ \ {x}, !.vetted = w]
  BY <1>0 DEF RemoveXline, remove_xline, Core
<1>b. w \in SUBSET Conn /\ w \subseteq core.vetted
      /\ \A c \in w : is_exempt(core, core.users[c]) => is_exempt(T, core.users[c])
  BY <1>0 DEF Core
<1> HIDE DEF T, w
<1>2. /\ core' \in Core /\ core'.users = core.users /\ Kept(core, core')
      /\ core'.jobs = core.jobs /\ core'.xlines = core.xlines \ {x}
      /\ core'.cleared = core.cleared /\ core'.passed = core.passed /\ core'.vetted = w
  BY <1>0, <1>1, <1>b DEF Core, Kept
<1>3. Unbanned(core')
  <2> SUFFICES ASSUME NEW c \in Registered(core') \cap w
               PROVE  ~matched_xline(core', core'.users[c])
    BY <1>2 DEF Unbanned
  <2>1. c \in Registered(core) \cap core.vetted /\ core'.users[c] = core.users[c]
    BY <1>2, <1>b DEF Registered, Live
  <2>2. ~matched_xline(core, core.users[c])
    BY <2>1 DEF Settled, Good, Unbanned
  <2>3. is_exempt(core, core.users[c]) => is_exempt(core', core.users[c])
    BY <1>2, <1>a, <1>b DEF is_exempt
  <2> QED BY <1>2, <2>1, <2>2, <2>3 DEF matched_xline
<1> QED BY <1>2, <1>3, AsideKeeps

\* Some connections are gone.
LEMMA GoneKeeps ==
  ASSUME NEW S, Settled(S), NEW T, Good(T),
         \A d \in Conn : T.users[d] \in {S.users[d], Gone},
         \A d \in Conn, g \in Gate : T.users[d] = S.users[d] => (d \in T.passed[g] <=> d \in S.passed[g]),
         T.cleared = S.cleared, T.jobs = S.jobs
  PROVE  Settled(T) /\ Honest(S, T)
<1>1. ASSUME NEW d \in Conn
      PROVE  Waits(T, d) /\ Held(T, d) /\ (T.users[d].registered => S.users[d].registered)
  <2>1. CASE T.users[d] = Gone
    BY <2>1, GoneFacts DEF Waits, Held, Ripe, ready
  <2>2. CASE T.users[d] = S.users[d]
    <3>1. Closed(T, d) = Closed(S, d)
      BY <2>2, SameGates
    <3>2. Waits(T, d)
      BY <2>2 DEF Settled, Waits, Asked, Running
    <3> QED BY <2>2, <3>1, <3>2 DEF Settled, Held
  <2> QED BY <2>1, <2>2
<1> QED BY <1>1 DEF Settled, Honest

\* A new line keeps it, and so does the removal of the users that it alone hits.
LEMMA AddXlineKeeps ==
  ASSUME Settled(core), NEW x \in XLines, AddXline(x)
  PROVE  Settled(core') /\ Honest(core, core')
<1> DEFINE W == add_xline(core, x)
           s == {c \in Registered(W) : RlineHits(x, W.users[c])}
<1>1. x \in XLine /\ (core' = W \/ core' = RemoveAll(W, s)) /\ Good(core)
  BY RegistrationAssumption DEF AddXline, enforce_rline, Settled
<1>2. /\ Good(W) /\ W.passed = core.passed /\ W.cleared = core.cleared
      /\ W.jobs = core.jobs
  BY <1>1, AddXlineDrops
<1>3. \A d \in Conn : W.users[d] \in {core.users[d], Gone}
  BY <1>1, XlineStep
<1>4. s \in SUBSET Live(W)
  BY DEF Registered
<1> HIDE DEF W, s
<1>5. CASE core' = W
  BY <1>2, <1>3, <1>5, GoneKeeps
<1>6. CASE core' = RemoveAll(W, s)
  <2>1. Sound(core') /\ Dropped(W, core', s)
    BY <1>2, <1>4, <1>6, RemoveAllUsers DEF Good
  <2>2. \A d \in Conn : core'.users[d] \in {W.users[d], Gone}
    BY <2>1 DEF Dropped
  <2>3. Unbanned(core')
    <3> SUFFICES ASSUME NEW d \in Registered(core') \cap core'.vetted
                 PROVE  ~matched_xline(core', core'.users[d])
      BY DEF Unbanned
    <3>1. d \in Registered(W) \cap W.vetted /\ core'.users[d] = W.users[d]
      BY <2>1, <2>2, GoneFacts DEF Dropped, Registered, Live
    <3>2. ~matched_xline(W, W.users[d])
      BY <1>2, <3>1 DEF Good, Unbanned
    <3> QED BY <2>1, <3>1, <3>2, SameBans DEF Dropped
  <2>4. \A d \in Conn : core'.users[d] \in {core.users[d], Gone}
    BY <1>3, <2>2
  <2> QED BY <1>2, <2>1, <2>3, <2>4, GoneKeeps DEF Dropped, Good
<1> QED BY <1>1, <1>5, <1>6

-----------------------------------------------------------------------------
(* The timer.                                                              *)

\* Every connection keeps its place and its holds.
LEMMA AllTouched ==
  ASSUME NEW S, Settled(S), NEW T \in Core, Kept(S, T), T.xlines = S.xlines,
         T.vetted = S.vetted, T.passed = S.passed, T.cleared = S.cleared, T.jobs = S.jobs,
         \A d \in Conn : /\ Plain(S.users[d], T.users[d])
                         /\ T.users[d].host = S.users[d].host
                         /\ T.users[d].ident = S.users[d].ident
                         /\ Ripe(T.users[d]) => Ripe(S.users[d])
  PROVE  Settled(T) /\ Honest(S, T)
<1>0. S \in Core
  BY DEF Settled, Good, Sound
<1>1. Live(T) = Live(S) /\ Registered(T) = Registered(S)
  BY DEF Live, Registered, Plain, SamePlace
<1>2. /\ Waiting(T) = Waiting(S) /\ \A ip : At(T, ip) = At(S, ip)
      /\ \A k : InClass(T, k) = InClass(S, k)
      /\ \A ip, k : Here(T, ip, k) = Here(S, ip, k) /\ Admitted(T, ip, k) = Admitted(S, ip, k)
  <2>1. Live(S) \subseteq Conn
    BY DEF Live
  <2>2. Waiting(T) = Waiting(S)
    BY <1>1 DEF Waiting
  <2>3. \A ip : At(T, ip) = At(S, ip)
    BY <1>1, <2>1 DEF At, Plain, SamePlace
  <2>4. \A k : InClass(T, k) = InClass(S, k)
    BY <1>1, <2>1 DEF InClass, Plain, SamePlace
  <2>5. \A ip, k : Here(T, ip, k) = Here(S, ip, k)
    BY <1>1, <2>1 DEF Here, Plain, SamePlace
  <2>6. \A ip, k : Admitted(T, ip, k) = Admitted(S, ip, k)
    <3>1. \A ip, k : Here(S, ip, k) \subseteq Conn
      BY <2>1 DEF Here
    <3> QED BY <2>5, <3>1 DEF Admitted, Plain, SamePlace
  <2> QED BY <2>2, <2>3, <2>4, <2>5, <2>6
<1>3. Counted(T)
  BY <1>2 DEF Settled, Good, Sound, Counted, Kept
<1>4. Indexed(T)
  BY <1>1 DEF Settled, Good, Sound, Indexed, Kept, Plain, SamePlace
<1>5. \A d \in Conn : Tidy(T.users[d])
  BY DEF Plain
<1>6. Lookups(T)
  BY <1>0 DEF Settled, Good, Sound, Lookups, Plain, SamePlace, Core, Job
<1>7. Within(T) /\ (Sheltered => Clones(T))
  BY <1>2 DEF Settled, Good, Sound, Within, Clones
<1>8. Unbanned(T)
  <2> SUFFICES ASSUME NEW d \in Registered(S) \cap S.vetted
               PROVE  ~matched_xline(T, T.users[d])
    BY <1>1 DEF Unbanned
  <2>1. /\ d \in Conn /\ Plain(S.users[d], T.users[d]) /\ T.users[d].host = S.users[d].host
        /\ T.users[d].ident = S.users[d].ident
    BY DEF Registered, Live
  <2>2. ~matched_xline(S, S.users[d])
    BY DEF Settled, Good, Unbanned
  <2>3. T.users[d].ip = S.users[d].ip
    BY <2>1 DEF Plain, SamePlace
  <2> QED BY <2>1, <2>2, <2>3, SameBans
<1>9. Good(T)
  BY <1>3, <1>4, <1>5, <1>6, <1>7, <1>8 DEF Good, Sound
<1>10. ASSUME NEW d \in Conn
       PROVE  Waits(T, d) /\ Held(T, d) /\ (T.users[d].registered => S.users[d].registered)
  <2>1. Closed(T, d) = Closed(S, d)
    BY SameGates DEF Plain, SamePlace
  <2>2. Waits(T, d)
    BY DEF Settled, Waits, Asked, Running, Plain
  <2>3. Held(T, d)
    BY <2>1 DEF Settled, Held
  <2> QED BY <2>2, <2>3 DEF Plain, SamePlace
<1> QED BY <1>9, <1>10 DEF Settled, Honest

\* A tick keeps it: the pool's recount finds what was counted.
LEMMA TickKeeps ==
  ASSUME Settled(core), Tick
  PROVE  Settled(core') /\ Honest(core, core')
<1> DEFINE older(u) == [u EXCEPT !.idle = IF u.phase = "live" /\ @ < MaxIdle THEN @ + 1 ELSE @]
           O == [core EXCEPT !.unreg = Cardinality(Live(core) \ Registered(core)),
                             !.users = [c \in Conn |-> older(@[c])]]
           pinged(u) == [u EXCEPT !.ping_sent = TRUE]
           P == [O EXCEPT !.users = [c \in Conn |->
                    IF c \in ToPing(O) THEN pinged(@[c]) ELSE @[c]]]
<1>0. Good(core) /\ core \in Core /\ core.users \in [Conn -> User]
      /\ \A d \in Conn : Tidy(core.users[d])
  BY DEF Settled, Good, Sound, Core
<1>1. core' = QuitAll(P, ToQuit(O))
  BY Zenon DEF Tick, QuitAll
<1>2. ASSUME NEW u \in User, Tidy(u)
      PROVE  /\ Plain(u, older(u)) /\ older(u).host = u.host /\ older(u).ident = u.ident
             /\ Ripe(older(u)) => Ripe(u)
  <2> DEFINE i == IF u.phase = "live" /\ u.idle < MaxIdle THEN u.idle + 1 ELSE u.idle
             v == [u EXCEPT !.idle = i]
  <2>1. i \in 0 .. MaxIdle /\ older(u) = v
    BY Constants DEF User
  <2> HIDE DEF i
  <2>2. Plain(u, v) /\ v.host = u.host /\ v.ident = u.ident /\ (Ripe(v) => Ripe(u))
    BY <1>2, <2>1 DEF Plain, User, SamePlace, Tidy, Slow, Ripe, ready
  <2> HIDE DEF v, older
  <2> QED BY <2>1, <2>2
<1>3. ASSUME NEW u \in User, Tidy(u)
      PROVE  /\ Plain(u, pinged(u)) /\ pinged(u).host = u.host /\ pinged(u).ident = u.ident
             /\ Ripe(pinged(u)) => Ripe(u)
  BY <1>3 DEF Plain, User, SamePlace, Tidy, Slow, Ripe, ready
<1> HIDE DEF older, pinged
<1> DEFINE os == [c \in Conn |-> older(core.users[c])]
<1>4. os \in [Conn -> User] /\ \A d \in Conn : Tidy(os[d])
  BY <1>0, <1>2 DEF Plain
<1>5. core.unreg = Cardinality(Live(core) \ Registered(core))
  BY <1>0 DEF Good, Sound, Counted, Waiting
<1>6. O = [core EXCEPT !.users = os]
  <2>1. O = [core EXCEPT !.unreg = core.unreg, !.users = os]
    BY <1>0, <1>5 DEF Core
  <2> HIDE DEF os, O
  <2>2. [core EXCEPT !.unreg = core.unreg, !.users = os] = [core EXCEPT !.users = os]
    BY <1>0 DEF Core
  <2> QED BY <2>1, <2>2
<1> HIDE DEF O
<1>7. /\ O \in Core /\ Kept(core, O) /\ O.users = os /\ O.xlines = core.xlines
      /\ O.passed = core.passed /\ O.cleared = core.cleared /\ O.jobs = core.jobs
      /\ O.vetted = core.vetted
  <2> HIDE DEF os
  <2> QED BY <1>0, <1>4, <1>6 DEF Core, Kept
<1>8. \A d \in Conn : /\ Plain(core.users[d], O.users[d])
                      /\ O.users[d].host = core.users[d].host
                      /\ O.users[d].ident = core.users[d].ident
                      /\ Ripe(O.users[d]) => Ripe(core.users[d])
  BY <1>0, <1>2, <1>7
<1>9. Settled(O)
  BY <1>7, <1>8, AllTouched
<1> DEFINE ps == [c \in Conn |-> IF c \in ToPing(O) THEN pinged(os[c]) ELSE os[c]]
<1>10. P = [O EXCEPT !.users = ps]
  BY <1>7
<1>11. /\ ps \in [Conn -> User]
       /\ \A d \in Conn : /\ Plain(os[d], ps[d]) /\ ps[d].host = os[d].host
                          /\ ps[d].ident = os[d].ident /\ (Ripe(ps[d]) => Ripe(os[d]))
  <2> HIDE DEF os
  <2>1. \A u \in User : Tidy(u) => Plain(u, u)
    BY DEF Plain, SamePlace
  <2>2. ASSUME NEW d \in Conn
        PROVE  /\ ps[d] \in User /\ Plain(os[d], ps[d]) /\ ps[d].host = os[d].host
               /\ ps[d].ident = os[d].ident /\ (Ripe(ps[d]) => Ripe(os[d]))
    <3>0. os[d] \in User /\ Tidy(os[d])
      BY <1>4
    <3>1. CASE d \in ToPing(O)
      <4>1. ps[d] = pinged(os[d])
        BY <3>1
      <4> QED BY <1>3, <3>0, <4>1 DEF Plain
    <3>2. CASE d \notin ToPing(O)
      <4>1. ps[d] = os[d]
        BY <3>2
      <4> HIDE DEF ps
      <4> QED BY <2>1, <3>0, <4>1
    <3> QED BY <3>1, <3>2
  <2> HIDE DEF ps
  <2>3. ps = [d \in Conn |-> ps[d]]
    BY DEF ps
  <2> QED BY <2>2, <2>3
<1> HIDE DEF P, os, ps
<1>12. /\ P \in Core /\ Kept(O, P) /\ P.users = ps /\ P.xlines = O.xlines
       /\ P.passed = O.passed /\ P.cleared = O.cleared /\ P.jobs = O.jobs
       /\ P.vetted = O.vetted
  BY <1>7, <1>10, <1>11 DEF Core, Kept
<1>13. Settled(P)
  BY <1>7, <1>9, <1>11, <1>12, AllTouched
<1>14. \A d \in Conn : /\ P.users[d].phase = O.users[d].phase
                       /\ P.users[d].registered = core.users[d].registered
  BY <1>7, <1>8, <1>11, <1>12 DEF Plain, SamePlace
<1>15. ToQuit(O) \in SUBSET Live(P)
  BY <1>14 DEF ToQuit, Live
<1> DEFINE s == ToQuit(O)
<1>16. Good(core') /\ Quitted(P, core', s)
  BY <1>1, <1>13, <1>15, QuitAllUsers DEF Settled, Good
<1> HIDE DEF s
<1>17. \A d \in Conn : core'.users[d] = (IF d \in s THEN Gone ELSE P.users[d])
  BY <1>16 DEF Quitted
<1>18. \A d \in Conn, g \in Gate : core'.users[d] = P.users[d] =>
            (d \in core'.passed[g] <=> d \in P.passed[g])
  <2>1. \A d \in s : P.users[d].phase = "live"
    BY <1>15 DEF Live, s
  <2>2. \A d \in Conn : core'.users[d] = P.users[d] => d \notin s
    BY <1>17, <2>1, GoneFacts
  <2> QED BY <1>16, <2>2 DEF Quitted
<1>19. Settled(core')
  BY <1>13, <1>16, <1>17, <1>18, GoneKeeps DEF Quitted
<1>20. Honest(core, core')
  BY <1>14, <1>17, GoneFacts DEF Honest
<1> QED BY <1>19, <1>20

-----------------------------------------------------------------------------
(* A new connection.                                                       *)

Arrival(S, c, ip) ==
    [S EXCEPT !.users[c] = NewUser(ip, "live"), !.unreg = @ + 1, !.per_ip[ip] = @ + 1]

\* A connection enters the pool and the count of its address.
LEMMA Arrives ==
  ASSUME NEW S, Good(S), NEW c \in Conn, S.users[c].phase = "new", NEW ip \in IP
  PROVE  LET N == Arrival(S, c, ip) IN
         Step(S, N, c) /\ N.users[c] = NewUser(ip, "live") /\ N.jobs = S.jobs
<1> DEFINE N == Arrival(S, c, ip)
           u == S.users[c]
           v == NewUser(ip, "live")
           us == [S.users EXCEPT ![c] = v]
           pi == [S.per_ip EXCEPT ![ip] = @ + 1]
           un == S.unreg + 1
<1>0. /\ S \in Core /\ S.users \in [Conn -> User] /\ u \in User /\ Tidy(u)
      /\ S.nick_index \in [Nick -> Conn \cup {None}]
      /\ S.unreg \in Nat /\ S.per_ip \in [IP -> Nat] /\ S.per_class \in [ClassName -> Nat]
      /\ S.per_ip_class \in [IP \X ClassName -> Nat]
  BY DEF Good, Sound, Core
<1>1. v \in User
  BY NewUserType
<1>a. /\ v.phase = "live" /\ ~v.registered /\ v.nick = None /\ v.class = None /\ v.ip = ip
      /\ ~v.dns_pending /\ ~v.ident_pending /\ ~v.auth_pending /\ ~v.waitpong
      /\ v.deferred = <<>> /\ ~v.user
  BY DEF NewUser
<1>b. None \notin Nick /\ None \notin ClassName /\ None \notin Conn
  BY RegistrationAssumption
<1>2. N = [S EXCEPT !.users = us, !.unreg = un, !.per_ip = pi]
  BY DEF Arrival
<1>3. us \in [Conn -> User] /\ us = [S.users EXCEPT ![c] = v] /\ us[c] = v
  BY <1>0, <1>1
<1>4. /\ pi \in [IP -> Int] /\ un \in Int
      /\ pi = [x \in IP |-> S.per_ip[x] + B(IsAt(v, x)) - B(IsAt(u, x))]
  <2>1. v.phase = "live" /\ v.ip = ip /\ u.phase # "live"
    BY <1>a
  <2> HIDE DEF u, v
  <2>2. \A x \in IP : B(IsAt(v, x)) = (IF x = ip THEN 1 ELSE 0) /\ B(IsAt(u, x)) = 0
    BY <2>1 DEF B, IsAt
  <2> QED BY <1>0, <2>2
<1> HIDE DEF v, us
<1>5. /\ N.users = us /\ N.unreg = un /\ N.per_ip = pi
      /\ N.per_class = S.per_class /\ N.per_ip_class = S.per_ip_class
      /\ N.nick_index = S.nick_index /\ N.xlines = S.xlines /\ N.passed = S.passed
      /\ N.cleared = S.cleared /\ N.jobs = S.jobs /\ N.vetted = S.vetted
  <2> HIDE DEF N, un, pi
  <2> QED BY <1>0, <1>2 DEF Core
<1>6. N \in Loose
  <2>1. S \in Loose
    BY <1>0, CoreLoose
  <2> HIDE DEF N, un, pi
  <2>2. pi \in [IP -> Int] /\ un \in Int
    BY <1>4
  <2> QED BY <1>2, <1>3, <2>1, <2>2 DEF Loose
<1> HIDE DEF N
<1>7. Shifted(S, N, u, v)
  <2>1. Pooled(v) /\ ~Pooled(u)
    BY <1>a DEF Pooled
  <2>2. \A k \in ClassName : ~IsIn(v, k) /\ ~IsIn(u, k)
    BY <1>a, <1>b DEF IsIn
  <2>4. N.unreg = S.unreg + B(Pooled(v)) - B(Pooled(u))
    BY <1>0, <1>5, <2>1 DEF B
  <2>5. N.per_class = [k \in ClassName |-> S.per_class[k] + B(IsIn(v, k)) - B(IsIn(u, k))]
    <3>1. \A k \in ClassName : S.per_class[k] + B(IsIn(v, k)) - B(IsIn(u, k)) = S.per_class[k]
      BY <1>0, <2>2 DEF B
    <3> QED BY <1>0, <1>5, <3>1
  <2>6. N.per_ip_class = [p \in IP \X ClassName |->
          S.per_ip_class[p] + B(IsAt(v, p[1]) /\ IsIn(v, p[2]))
                            - B(IsAt(u, p[1]) /\ IsIn(u, p[2]))]
    <3>1. \A p \in IP \X ClassName :
             S.per_ip_class[p] + B(IsAt(v, p[1]) /\ IsIn(v, p[2]))
                               - B(IsAt(u, p[1]) /\ IsIn(u, p[2])) = S.per_ip_class[p]
      BY <1>0, <2>2 DEF B
    <3> QED BY <1>0, <1>5, <3>1
  <2> QED BY <1>4, <1>5, <2>4, <2>5, <2>6 DEF Shifted
<1>8. Reindexed(S, N, c, v)
  <2>1. \A n \in Nick : S.nick_index[n] # c
    BY <1>0 DEF Good, Sound, Indexed, Live
  <2> QED BY <1>a, <1>b, <1>5, <2>1 DEF Reindexed
<1>9. Tidy(v)
  BY <1>a DEF Tidy
<1>c. N.users = [S.users EXCEPT ![c] = v] /\ N.users[c] = v
      /\ \A d \in Conn : d # c => N.users[d] = S.users[d]
  BY <1>0, <1>3, <1>5
<1>10. Lookups(N)
  BY <1>0, <1>5, <1>c DEF Good, Sound, Lookups, Core, Job
<1>11. Fits(S, c, u, v)
  <2>1. \A i \in DOMAIN ClassSeq : ~IsIn(v, ClassSeq[i].name)
    BY <1>a, <1>b, Constants DEF IsIn
  <2> QED BY <2>1 DEF Fits
<1>12. Sound(N)
  BY <1>1, <1>6, <1>7, <1>8, <1>9, <1>10, <1>11, <1>c, Changed DEF Good
<1>13. Unbanned(N)
  <2>1. Unbanned(S) /\ N.xlines = S.xlines /\ N.vetted \subseteq S.vetted \cup {c}
    BY <1>5 DEF Good
  <2> QED BY <1>0, <1>a, <1>c, <2>1, ChangedBans
<1>14. Beside(S, N, c)
  BY <1>0, <1>5, <1>c, OnlyBeside DEF Only
<1>15. Step(S, N, c)
  BY <1>12, <1>13, <1>14, <1>a, <1>c DEF Step, Good, Waits, Fair
<1> QED BY <1>5, <1>15, <1>c DEF N, v

\* The class at the connect: c goes, stays, or is put into a class.
LEMMA Assigns ==
  ASSUME NEW S, Good(S), NEW c \in Conn, S.users[c].phase = "live",
         ~S.users[c].registered, ~S.users[c].auth_pending
  PROVE  LET A == assign(S, c) IN
         /\ Step(S, A, c) /\ A.jobs = S.jobs
         /\ \/ A.users[c] \in {S.users[c], Gone}
            \/ \E k \in ClassName : A.users[c] = [S.users[c] EXCEPT !.class = k]
<1> DEFINE i == pick(S, c, S.users[c].ip)
           A == assign(S, c)
           R == set_class(S, c, ClassSeq[i].name)
<1>1. \/ A = S \/ A = remove_user(S, c)
      \/ i # 0 /\ ~ClassSeq[i].deny /\ A = R
  BY DEF assign
<1> SUFFICES /\ Step(S, A, c) /\ A.jobs = S.jobs
             /\ \/ A.users[c] \in {S.users[c], Gone}
                \/ \E k \in ClassName : A.users[c] = [S.users[c] EXCEPT !.class = k]
  OBVIOUS
<1> HIDE DEF A
<1>2. CASE A = S
  BY <1>2, StepSame
<1>3. CASE A = remove_user(S, c)
  BY <1>3, Leaves
<1>4. CASE i # 0 /\ ~ClassSeq[i].deny /\ A = R
  <2>1. i \in DOMAIN ClassSeq /\ Suitable(S, c, S.users[c].ip, i)
    BY <1>4, Pick
  <2> HIDE DEF i
  <2>2. ClassSeq[i].name \in ClassName /\ ClassSeq[i].limit \in Nat
    BY <2>1, Constants DEF Class
  <2>3. class_count(S, c, ClassSeq[i].name) = Cardinality(InClass(S, ClassSeq[i].name) \ {c})
    BY <2>2, ClassCounts DEF Good
  <2>4. ClassSeq[i].limit = 0 \/ class_count(S, c, ClassSeq[i].name) < ClassSeq[i].limit
    BY <1>4, <2>1 DEF Suitable
  <2>5. ClassSeq[i].limit > 0 =>
           Cardinality(InClass(S, ClassSeq[i].name) \ {c}) < ClassSeq[i].limit
    BY <2>2, <2>3, <2>4
  <2>6. /\ Step(S, R, c) /\ R.jobs = S.jobs
        /\ R.users[c] = [S.users[c] EXCEPT !.class = ClassSeq[i].name]
    BY <2>1, <2>5, SetClass
  <2> HIDE DEF R
  <2> QED BY <1>4, <2>2, <2>6
<1> QED BY <1>1, <1>2, <1>3, <1>4

\* A connection with nothing pending and no job.
Fresh(S, c) ==
    LET u == S.users[c] IN
    /\ u.phase = "live" /\ ~u.registered /\ u.nick = None
    /\ ~u.auth_pending /\ u.deferred = <<>>
    /\ \A j \in S.jobs : j.uid # c

Holding(u, p, q, r) == [u EXCEPT !.dns_pending = p, !.ident_pending = q, !.waitpong = r]

\* The flags of a user whose lookups have started.
LEMMA StartedUser ==
  ASSUME NEW u \in User, NEW p, NEW q, NEW r, {p, q, r} \subseteq BOOLEAN
  PROVE  LET v == Holding(u, p, q, r)
         IN  /\ v \in User /\ v.class = u.class /\ v.phase = u.phase
             /\ v.registered = u.registered /\ v.ip = u.ip /\ v.nick = u.nick
             /\ v.auth_pending = u.auth_pending /\ v.dns_pending = p
             /\ v.ident_pending = q /\ v.deferred = u.deferred /\ v.host = u.host
             /\ v.user = u.user /\ v.ident = u.ident
<1> DEFINE a == [u EXCEPT !.dns_pending = p]
           b == [a EXCEPT !.ident_pending = q]
           v == Holding(u, p, q, r)
<1>1. /\ a \in User /\ a.class = u.class /\ a.phase = u.phase
      /\ a.registered = u.registered /\ a.ip = u.ip /\ a.nick = u.nick
      /\ a.auth_pending = u.auth_pending /\ a.dns_pending = p
      /\ a.deferred = u.deferred /\ a.host = u.host
      /\ a.user = u.user /\ a.ident = u.ident
  BY DEF User
<1>2. v = [b EXCEPT !.waitpong = r]
  BY DEF Holding
<1> HIDE DEF a, v
<1>3. /\ b \in User /\ b.class = a.class /\ b.phase = a.phase
      /\ b.registered = a.registered /\ b.ip = a.ip /\ b.nick = a.nick
      /\ b.auth_pending = a.auth_pending /\ b.dns_pending = a.dns_pending
      /\ b.ident_pending = q /\ b.deferred = a.deferred /\ b.host = a.host
      /\ b.user = a.user /\ b.ident = a.ident
  BY <1>1 DEF User
<1> HIDE DEF b
<1>4. /\ v \in User /\ v.class = b.class /\ v.phase = b.phase
      /\ v.registered = b.registered /\ v.ip = b.ip /\ v.nick = b.nick
      /\ v.auth_pending = b.auth_pending /\ v.dns_pending = b.dns_pending
      /\ v.ident_pending = b.ident_pending /\ v.deferred = b.deferred /\ v.host = b.host
      /\ v.user = b.user /\ v.ident = b.ident
  BY <1>2, <1>3 DEF User
<1>5. /\ v \in User /\ v.class = u.class /\ v.phase = u.phase
      /\ v.registered = u.registered /\ v.ip = u.ip /\ v.nick = u.nick
      /\ v.auth_pending = u.auth_pending /\ v.dns_pending = p
      /\ v.ident_pending = q /\ v.deferred = u.deferred /\ v.host = u.host
             /\ v.user = u.user /\ v.ident = u.ident
  BY <1>1, <1>3, <1>4, Zenon
<1> QED BY <1>5, Zenon DEF v

\* The start of the lookups is a step: each hold has its job.
LEMMA Starts ==
  ASSUME NEW S, Good(S), NEW c \in Conn, Fresh(S, c), NEW dns \in BOOLEAN, NEW ident \in BOOLEAN
  PROVE  Step(S, Started(S, c, dns, ident), c)
         /\ Started(S, c, dns, ident).users[c].nick = None
<1> DEFINE d == dns /\ (ResolveHosts \/ DnsblActions # {})
           i == ident /\ (UseIdent \/ RequireIdent)
           u == S.users[c]
           D == [kind |-> "dns", uid |-> c, arg |-> u.ip]
           I == [kind |-> "ident", uid |-> c, arg |-> None]
           v == [u EXCEPT !.dns_pending = d, !.ident_pending = i, !.waitpong = WaitPong]
           js == S.jobs \cup {j \in {D} : d} \cup {j \in {I} : i}
           us == [S.users EXCEPT ![c] = v]
           T == Started(S, c, dns, ident)
<1>0. S \in Core /\ S.users \in [Conn -> User] /\ u \in User /\ Tidy(u)
  BY DEF Good, Sound, Core
<1>1. {d, i, WaitPong} \subseteq BOOLEAN
  BY RegistrationAssumption
<1>2. T = [S EXCEPT !.users = us, !.jobs = js]
  BY DEF Started
<1>3. /\ D \in Job /\ I \in Job /\ D.kind = "dns" /\ I.kind = "ident"
      /\ D.uid = c /\ I.uid = c /\ D.arg \in IP
  BY <1>0 DEF Job, User
<1> HIDE DEF d, i
<1>4. /\ v \in User /\ v.class = u.class /\ v.phase = u.phase /\ v.registered = u.registered
      /\ v.ip = u.ip /\ v.nick = u.nick /\ v.auth_pending = u.auth_pending
      /\ v.dns_pending = d /\ v.ident_pending = i /\ v.deferred = u.deferred
      /\ v.host = u.host /\ v.user = u.user /\ v.ident = u.ident
  <2>1. u \in User
    BY <1>0
  <2> HIDE DEF u
  <2>2. v = Holding(u, d, i, WaitPong)
    BY DEF Holding
  <2> HIDE DEF v
  <2>3. LET x == Holding(u, d, i, WaitPong)
        IN  /\ x \in User /\ x.class = u.class /\ x.phase = u.phase
            /\ x.registered = u.registered /\ x.ip = u.ip /\ x.nick = u.nick
            /\ x.auth_pending = u.auth_pending /\ x.dns_pending = d
            /\ x.ident_pending = i /\ x.deferred = u.deferred /\ x.host = u.host
            /\ x.user = u.user /\ x.ident = u.ident
    <3> QED BY <1>1, <2>1, StartedUser
  <2> QED BY <2>2, <2>3, Zenon
<1> HIDE DEF D, I, v, T
<1>5. us \in [Conn -> User] /\ us[c] = v /\ \A e \in Conn : e # c => us[e] = S.users[e]
  BY <1>0, <1>4
<1>6. /\ js \in SUBSET Job /\ S.jobs \subseteq js
      /\ \A j \in js : j \in S.jobs \/ (d /\ j = D) \/ (i /\ j = I)
      /\ d => D \in js
      /\ i => I \in js
  BY <1>0, <1>3 DEF Core
<1> HIDE DEF js
<1>7. /\ T \in Core /\ Kept(S, T) /\ T.users = us /\ T.xlines = S.xlines
      /\ T.passed = S.passed /\ T.cleared = S.cleared /\ T.jobs = js /\ T.vetted = S.vetted
  <2>1. us \in [Conn -> User]
    BY <1>5
  <2> HIDE DEF us
  <2> QED BY <1>0, <1>2, <1>6, <2>1 DEF Core, Kept
<1>8. SamePlace(u, v) /\ Tidy(v)
  BY <1>0, <1>4 DEF SamePlace, Tidy, Fresh
<1>9. Lookups(T)
  <2> SUFFICES ASSUME NEW j \in js
               PROVE  LET w == us[j.uid] IN
                      /\ w.phase # "new"
                      /\ j.kind = "dns" => j.arg \in IP /\ (w.phase = "gone" \/ w.dns_pending)
                      /\ j.kind = "ident" => w.phase = "gone" \/ w.ident_pending
                      /\ j.kind \in {"dns", "ident"} =>
                            \A k \in js : k.kind = j.kind /\ k.uid = j.uid => k = j
    BY <1>7 DEF Lookups
  <2> HIDE DEF us
  <2>1. CASE j \in S.jobs
    <3>1. j.uid \in Conn /\ j.uid # c
      BY <1>0, <2>1 DEF Core, Job, Fresh
    <3>2. \A k \in js : k.uid = j.uid => k \in S.jobs
      BY <1>3, <1>6, <3>1
    <3> QED BY <1>5, <2>1, <3>1, <3>2 DEF Good, Sound, Lookups
  <2>2. CASE j \notin S.jobs
    <3>1. \A k \in js : k.uid = c => (d /\ k = D) \/ (i /\ k = I)
      BY <1>6 DEF Fresh
    <3>2. j.uid = c /\ ((d /\ j = D) \/ (i /\ j = I))
      BY <1>3, <1>6, <2>2
    <3>3. u.phase = "live"
      BY DEF Fresh
    <3> QED BY <1>3, <1>4, <1>5, <3>1, <3>2, <3>3
  <2> QED BY <2>1, <2>2
<1>10. Good(T)
  <2>1. Judgement(S, T, c, u, v)
    BY <1>4, <1>7 DEF Judgement, Fresh
  <2> QED BY <1>4, <1>7, <1>8, <1>9, <2>1, Touched DEF Good
<1>11. Beside(S, T, c)
  BY <1>5, <1>6, <1>7 DEF Beside
<1>12. Waits(T, c)
  <2>1. d => Asked(T, c, "dns")
    BY <1>3, <1>6, <1>7 DEF Asked, Running
  <2>2. i => Asked(T, c, "ident")
    BY <1>3, <1>6, <1>7 DEF Asked, Running
  <2> QED BY <1>4, <1>5, <1>7, <2>1, <2>2 DEF Waits, Fresh
<1>13. ~T.users[c].registered /\ T.users[c].nick = None
  BY <1>4, <1>5, <1>7 DEF Fresh
<1> QED BY <1>10, <1>11, <1>12, <1>13 DEF Step, Fair, T

\* A connect keeps the invariant, refused or not.
LEMMA AddConnKeeps ==
  ASSUME Settled(core), NEW c \in Conn, add_conn(c)
  PROVE  Settled(core') /\ Honest(core, core')
<1>1. PICK ip \in From[c], policy \in ConnectPolicies,
           dns \in Grants(core, "dns", MaxLookups), ident \in Grants(core, "ident", MaxIdents) :
         LET far == ip \notin Local
             N == [core EXCEPT !.users[c] = NewUser(ip, "live"), !.unreg = @ + 1,
                               !.per_ip[ip] = @ + 1]
             B0 == IF far /\ policy = "ban"
                   THEN add_xline(N, Zline(ip)) ELSE N
             A == assign(B0, c)
         IN  core' = IF far /\ (over_cap(N) \/ policy = "refuse") THEN remove_user(N, c)
                     ELSE IF A.users[c].phase = "gone" THEN A
                     ELSE Started(A, c, dns, ident)
  BY Zenon DEF add_conn
<1> DEFINE x == Zline(ip)
           N == Arrival(core, c, ip)
           M == IF ip \notin Local /\ policy = "ban" THEN add_xline(N, x) ELSE N
           A == assign(M, c)
<1>0. /\ Good(core) /\ core \in Core /\ core.users[c].phase = "new" /\ ip \in IP
      /\ dns \in BOOLEAN /\ ident \in BOOLEAN
  BY RegistrationAssumption DEF Settled, Good, Sound, add_conn, Grants
<1>2. \/ core' = remove_user(N, c)
      \/ A.users[c].phase = "gone" /\ core' = A
      \/ A.users[c].phase # "gone" /\ core' = Started(A, c, dns, ident)
  <2>1. core' = IF ip \notin Local /\ (over_cap(N) \/ policy = "refuse") THEN remove_user(N, c)
                ELSE IF A.users[c].phase = "gone" THEN A
                ELSE Started(A, c, dns, ident)
    BY <1>1, Zenon DEF Arrival
  <2> HIDE DEF N, A
  <2> QED BY <2>1
<1>3. x \in XLine
  BY <1>0 DEF XLine, Host, Zline
<1> HIDE DEF x
<1> DEFINE v == NewUser(ip, "live")
<1>4. /\ v.phase = "live" /\ ~v.registered /\ v.nick = None /\ ~v.auth_pending
      /\ v.deferred = <<>> /\ v \in User
  BY <1>0, NewUserType DEF NewUser
<1> HIDE DEF v
<1>5. Step(core, N, c) /\ N.users[c] = v /\ N.jobs = core.jobs
  BY <1>0, Arrives DEF v
<1> HIDE DEF N
<1>6. Good(N)
  BY <1>5 DEF Step
<1>7. Step(N, M, c) /\ M.users[c] = v /\ M.jobs = core.jobs
  BY <1>3, <1>4, <1>5, <1>6, XlineStep, StepSame
<1> HIDE DEF M
<1>8. Good(M) /\ Step(core, M, c)
  BY <1>5, <1>7, StepThen DEF Step
<1>9. /\ Step(M, A, c) /\ A.jobs = core.jobs
      /\ A.users[c] \in {v, Gone} \/ \E k \in ClassName : A.users[c] = [v EXCEPT !.class = k]
  <2>1. M.users[c].phase = "live" /\ ~M.users[c].registered /\ ~M.users[c].auth_pending
    BY <1>4, <1>7
  <2>2. /\ Step(M, A, c) /\ A.jobs = M.jobs
        /\ \/ A.users[c] \in {M.users[c], Gone}
           \/ \E k \in ClassName : A.users[c] = [M.users[c] EXCEPT !.class = k]
    BY <1>8, <2>1, Assigns
  <2> HIDE DEF A
  <2> QED BY <1>7, <2>2
<1> HIDE DEF A
<1>10. Good(A) /\ Step(core, A, c)
  BY <1>8, <1>9, StepThen DEF Step
<1>11. CASE core' = remove_user(N, c)
  <2>1. Step(N, core', c) /\ core'.users[c].phase # "live"
    BY <1>6, <1>11, Leaves
  <2>2. Step(core, core', c)
    BY <1>5, <2>1, StepThen
  <2>3. Held(core', c)
    BY <2>1 DEF Held, Ripe, ready
  <2> QED BY <2>2, <2>3, Settles
<1>12. CASE A.users[c].phase = "gone" /\ core' = A
  <2>1. Held(core', c)
    BY <1>12 DEF Held, Ripe, ready
  <2> QED BY <1>10, <1>12, <2>1, Settles
<1>13. CASE A.users[c].phase # "gone" /\ core' = Started(A, c, dns, ident)
  <2>1. A.users[c] # Gone
    BY <1>13, GoneFacts
  <2>2. \A j \in A.jobs : j.uid # c
    BY <1>0, <1>9 DEF Good, Sound, Lookups
  <2>3. Fresh(A, c)
    <3>1. CASE A.users[c] = v
      BY <1>4, <2>2, <3>1 DEF Fresh
    <3>2. CASE \E k \in ClassName : A.users[c] = [v EXCEPT !.class = k]
      <4>1. PICK k \in ClassName : A.users[c] = [v EXCEPT !.class = k]
        BY <3>2
      <4> DEFINE w == [v EXCEPT !.class = k]
      <4>2. /\ w.phase = v.phase /\ w.registered = v.registered /\ w.nick = v.nick
            /\ w.auth_pending = v.auth_pending /\ w.deferred = v.deferred
        BY <1>4 DEF User
      <4>3. A.users[c] = w
        BY <4>1
      <4> HIDE DEF w
      <4> QED BY <1>4, <2>2, <4>2, <4>3 DEF Fresh
    <3> QED BY <1>9, <2>1, <3>1, <3>2
  <2>4. Step(A, core', c) /\ core'.users[c].nick = None
    BY <1>0, <1>10, <1>13, <2>3, Starts
  <2>5. Step(core, core', c)
    BY <1>10, <2>4, StepThen
  <2>6. Held(core', c)
    BY <2>4 DEF Held, Ripe, ready
  <2> QED BY <2>5, <2>6, Settles
<1> QED BY <1>2, <1>11, <1>12, <1>13

-----------------------------------------------------------------------------
(* A cleared address: its clients are tried one after the other.           *)

TryAll(S, order, busy) == FoldLeft(LAMBDA acc, c : try_register(acc, c, busy), S, order)

TryEquation(S, order, busy, it) ==
    it = [s \in SUBSET DOMAIN order |->
            IF s = {} THEN S ELSE try_register(it[s \ {Max(s)}], order[Max(s)], busy)]

\* The fold over the clients of an address satisfies its equation.
LEMMA TryAllFold ==
  ASSUME NEW S, NEW order, NEW busy, NEW it, TryEquation(S, order, busy, it)
  PROVE  \E jt : TryEquation(S, order, busy, jt)
                 /\ TryAll(S, order, busy) = jt[DOMAIN order]
<1>1. PICK jt : jt = CHOOSE k : TryEquation(S, order, busy, k)
  OBVIOUS
<1>2. TryEquation(S, order, busy, jt)
  BY <1>1
<1>3. TryAll(S, order, busy) = jt[DOMAIN order]
  BY <1>1, Zenon DEF TryAll, FoldLeft, MapThenFoldSet, TryEquation
<1> QED BY <1>2, <1>3

\* T comes from S after the connections of ds were tried.
Tried(S, T, ds) ==
    /\ Good(T)
    /\ \A d \in Conn : Waits(S, d) => Waits(T, d)
    /\ \A d \in Conn : T.users[d].registered => S.users[d].registered \/ Earned(T, d)
    /\ \A d \in Conn : Held(S, d) \/ d \in ds => Held(T, d)

\* One more client is tried.
LEMMA TriedOne ==
  ASSUME NEW S, NEW X, NEW ds, Tried(S, X, ds), NEW c \in Conn, NEW busy
  PROVE  Tried(S, try_register(X, c, busy), ds \cup {c})
<1> DEFINE Y == try_register(X, c, busy)
<1>1. Step(X, Y, c) /\ Held(Y, c)
  BY TryRegister DEF Tried
<1> HIDE DEF Y
<1>2. ASSUME NEW d \in Conn
      PROVE  /\ Waits(S, d) => Waits(Y, d)
             /\ Y.users[d].registered => S.users[d].registered \/ Earned(Y, d)
             /\ Held(S, d) \/ d \in ds \cup {c} => Held(Y, d)
  <2>1. CASE d = c
    BY <1>1, <2>1 DEF Tried, Step, Fair
  <2>2. CASE d # c
    BY <1>1, <2>2, OthersWait DEF Tried, Step
  <2> QED BY <2>1, <2>2
<1>3. Tried(S, Y, ds \cup {c})
  BY <1>1, <1>2 DEF Tried, Step
<1> QED BY <1>3 DEF Y

\* All of them are tried.
LEMMA TriedAll ==
  ASSUME NEW S, Good(S), NEW n \in Nat, NEW order \in [1 .. n -> Conn], NEW busy
  PROVE  Tried(S, TryAll(S, order, busy), {order[p] : p \in 1 .. n})
<1> DEFINE V == {X \in Core : Good(X)}
           g == [p \in V \X (1 .. n) |-> try_register(p[1], order[p[2]], busy)]
<1>0. S \in V /\ DOMAIN order = 1 .. n /\ \A i \in 1 .. n : order[i] \in Conn
  BY DEF Good, Sound
<1>1. ASSUME NEW X \in V, NEW i \in 1 .. n
      PROVE  try_register(X, order[i], busy) \in V
  <2>1. Step(X, try_register(X, order[i], busy), order[i])
    BY <1>0, TryRegister
  <2> QED BY <2>1 DEF Step, Good, Sound
<1>2. g \in [V \X (1 .. n) -> V]
  <2> HIDE DEF V
  <2> QED BY <1>1
<1>3. PICK it \in [SUBSET (1 .. n) -> V] : SeqFold(n, S, g, it)
  <2> HIDE DEF V, g
  <2> QED BY <1>0, <1>2, SeqFoldExists, Zenon
<1>4. TryEquation(S, order, busy, it)
  <2>1. ASSUME NEW s \in SUBSET (1 .. n), s # {}
        PROVE  it[s] = try_register(it[s \ {Max(s)}], order[Max(s)], busy)
    <3>1. Max(s) \in 1 .. n
      BY <1>0, <2>1, MaxIn
    <3>2. it[s \ {Max(s)}] \in V
      OBVIOUS
    <3> HIDE DEF V
    <3> QED BY <1>3, <2>1, <3>1, <3>2 DEF SeqFold
  <2>2. it[{}] = S
    BY <1>3 DEF SeqFold
  <2> HIDE DEF V, g
  <2> QED BY <1>0, <2>1, <2>2 DEF TryEquation
<1>5. PICK jt : TryEquation(S, order, busy, jt) /\ TryAll(S, order, busy) = jt[1 .. n]
  BY <1>0, <1>4, TryAllFold
<1>6. jt[{}] = S /\ \A s \in SUBSET (1 .. n) : s # {} =>
                       jt[s] = try_register(jt[s \ {Max(s)}], order[Max(s)], busy)
  BY <1>0, <1>5 DEF TryEquation
<1> DEFINE of(s) == {order[p] : p \in s}
           W == [s \in SUBSET (1 .. n) |-> {X \in V : Tried(S, X, of(s))}]
<1>7. jt[{}] \in W[{}]
  <2>1. Tried(S, S, of({}))
    BY DEF Tried
  <2> QED BY <1>0, <1>6, <2>1
<1>8. ASSUME NEW s \in SUBSET (1 .. n), s # {}, jt[s \ {Max(s)}] \in W[s \ {Max(s)}]
      PROVE  jt[s] \in W[s]
  <2> DEFINE m == Max(s)
             X == jt[s \ {m}]
             Y == jt[s]
  <2>1. m \in 1 .. n /\ m \in s
    BY <1>0, <1>8, MaxIn
  <2>2. X \in V /\ Tried(S, X, of(s \ {m}))
    BY <1>8
  <2>3. Y = try_register(X, order[m], busy)
    BY <1>6, <1>8
  <2>4. of(s) = of(s \ {m}) \cup {order[m]}
    <3> HIDE DEF m
    <3> QED BY <2>1
  <2> HIDE DEF X, Y, V, of, m
  <2>5. Y \in V /\ Tried(S, Y, of(s))
    <3>1. Y \in V
      BY <1>1, <2>1, <2>2, <2>3
    <3>2. Tried(S, Y, of(s \ {m}) \cup {order[m]})
      BY <1>0, <2>1, <2>2, <2>3, TriedOne, Zenon
    <3> QED BY <2>4, <3>1, <3>2, Zenon
  <2>6. Y \in W[s]
    BY <2>5
  <2> QED BY <2>6 DEF Y
<1>9. jt[1 .. n] \in W[1 .. n]
  <2> HIDE DEF V, W
  <2> QED BY <1>0, <1>7, <1>8, SeqFoldStays
<1> QED BY <1>5, <1>9

\* The clearance of an address keeps the invariant: all whom it frees are tried.
LEMMA VerifyPassKeeps ==
  ASSUME Settled(core), NEW ip \in IP, VerifyPass(ip)
  PROVE  Settled(core') /\ Honest(core, core')
<1> DEFINE cs == {c \in Live(core) \ Registered(core) : core.users[c].ip = ip}
           S == [core EXCEPT !.cleared = @ \cup {ip}]
           n == Cardinality(cs)
<1>1. PICK order \in SetToSeqs(cs), busy \in Busy(core) : core' = TryAll(S, order, busy)
  BY Zenon DEF VerifyPass, TryAll
<1>2. IsFiniteSet(cs) /\ n \in Nat /\ cs \subseteq Conn
  <2>1. cs \subseteq Conn
    BY DEF Live
  <2> QED BY <2>1, RegistrationAssumption, FS_Subset, FS_CardinalityType
<1>3. order \in [1 .. n -> cs] /\ \A i, j \in 1 .. n : i # j => order[i] # order[j]
  BY <1>1 DEF SetToSeqs
<1>4. core \in Core /\ Good(core)
  BY DEF Settled, Good, Sound
<1>5. /\ S \in Core /\ S.users = core.users /\ Kept(core, S)
      /\ S.jobs = core.jobs /\ S.xlines = core.xlines
      /\ S.cleared = core.cleared \cup {ip} /\ S.passed = core.passed
      /\ S.vetted = core.vetted
  BY <1>4 DEF Core, Kept
<1> HIDE DEF S
<1>6. Good(S)
  <2>1. Lookups(S)
    BY <1>4, <1>5 DEF Good, Sound, Lookups
  <2> QED BY <1>4, <1>5, <2>1, Aside DEF Good
<1>7. cs \subseteq {order[p] : p \in 1 .. n}
  <2> HIDE DEF cs, n
  <2>1. order \in Injection(1 .. n, cs)
    BY <1>3 DEF Injection, IsInjective
  <2>2. Cardinality(1 .. n) = Cardinality(cs) /\ IsFiniteSet(cs)
    BY <1>2, FS_Interval DEF n
  <2>3. order \in Surjection(1 .. n, cs)
    BY <1>2, <2>1, <2>2, FS_Injection
  <2> QED BY <2>3 DEF Surjection
<1> DEFINE ds == {order[p] : p \in 1 .. n}
<1>8. Tried(S, core', ds)
  <2>1. order \in [1 .. n -> Conn]
    BY <1>2, <1>3
  <2> HIDE DEF n, cs
  <2> QED BY <1>1, <1>2, <1>6, <2>1, TriedAll
<1>9. ASSUME NEW d \in Conn
      PROVE  Waits(S, d) /\ (Held(S, d) \/ d \in ds)
  <2>1. Waits(S, d)
    BY <1>5 DEF Settled, Waits, Asked, Running
  <2>2. CASE ready(core.users[d]) /\ core.users[d].ip = ip
    <3>1. d \in cs
      BY <2>2 DEF ready, Live, Registered
    <3> QED BY <1>7, <2>1, <3>1
  <2>3. CASE core.users[d].ip # ip
    <3>1. Closed(S, d) = Closed(core, d)
      BY <1>5, <2>3 DEF Closed, Cleared
    <3> QED BY <1>5, <2>1, <3>1 DEF Settled, Held
  <2>4. CASE ~ready(core.users[d])
    BY <1>5, <2>1, <2>4 DEF Held, Ripe
  <2> QED BY <2>2, <2>3, <2>4
<1> HIDE DEF ds
<1> QED BY <1>5, <1>8, <1>9 DEF Tried, Settled, Honest, Merited

-----------------------------------------------------------------------------
(* The specification.                                                      *)

\* The invariant holds at the start.
LEMMA InitSettled ==
  ASSUME Init
  PROVE  IInv
<1> DEFINE v == NewUser(AnyIP, "new")
<1>1. /\ v \in User /\ v.phase = "new" /\ v.nick = None /\ ~v.registered
      /\ ~v.dns_pending /\ ~v.ident_pending /\ ~v.auth_pending /\ ~v.waitpong
      /\ v.deferred = <<>> /\ ~v.user
  BY Constants, NewUserType DEF NewUser
<1> HIDE DEF v
<1>2. /\ core = [users |-> [c \in Conn |-> v],
                 nick_index |-> [n \in Nick |-> None], unreg |-> 0,
                 per_ip |-> [ip \in IP |-> 0], per_class |-> [k \in ClassName |-> 0],
                 per_ip_class |-> [k \in IP \X ClassName |-> 0], xlines |-> {},
                 challenged |-> [g \in Gate |-> {}], passed |-> [g \in Gate |-> {}],
                 cleared |-> {}, jobs |-> {}, vetted |-> {}]
      /\ sent = [c \in Conn |-> 0] /\ ruled = 0
  BY Zenon DEF Init, v
<1>3. core \in Core
  BY <1>1, <1>2 DEF Core
<1>4. /\ core.users = [c \in Conn |-> v] /\ core.nick_index = [n \in Nick |-> None]
      /\ core.unreg = 0 /\ core.per_ip = [ip \in IP |-> 0]
      /\ core.per_class = [k \in ClassName |-> 0]
      /\ core.per_ip_class = [k \in IP \X ClassName |-> 0] /\ core.jobs = {}
  BY <1>2
<1>5. \A c \in Conn : core.users[c] = v
  BY <1>4
<1>6. Live(core) = {} /\ Registered(core) = {}
  BY <1>1, <1>5 DEF Live, Registered
<1>7. Cardinality({}) = 0
  BY FS_EmptySet
<1>8. Counted(core)
  <2>1. Waiting(core) = {} /\ \A ip, k : At(core, ip) = {} /\ InClass(core, k) = {} /\ Here(core, ip, k) = {}
    BY <1>6 DEF Waiting, At, InClass, Here
  <2>2. \A p \in IP \X ClassName : Cardinality(Here(core, p[1], p[2])) = 0
    BY <1>7, <2>1
  <2>3. core.per_ip_class = [p \in IP \X ClassName |-> Cardinality(Here(core, p[1], p[2]))]
    BY <1>4, <2>2
  <2>4. core.per_ip = [ip \in IP |-> Cardinality(At(core, ip))]
    BY <1>4, <1>7, <2>1
  <2>5. core.per_class = [k \in ClassName |-> Cardinality(InClass(core, k))]
    BY <1>4, <1>7, <2>1
  <2> QED BY <1>4, <1>7, <2>1, <2>3, <2>4, <2>5 DEF Counted
<1>9. Indexed(core)
  BY <1>4, <1>6, RegistrationAssumption DEF Indexed
<1>10. \A c \in Conn : Tidy(core.users[c])
  BY <1>1, <1>5 DEF Tidy
<1>11. Lookups(core)
  BY <1>4 DEF Lookups
<1>12. Within(core)
  <2>1. \A k : InClass(core, k) = {}
    BY <1>6 DEF InClass
  <2>2. \A i \in DOMAIN ClassSeq : ClassSeq[i].limit \in Nat
    BY Constants DEF Class
  <2> QED BY <1>7, <2>1, <2>2 DEF Within
<1>13. Clones(core)
  <2>1. \A ip, k : Admitted(core, ip, k) = {}
    BY <1>6 DEF Admitted, Here
  <2>2. \A i \in DOMAIN ClassSeq : ClassSeq[i].localmax \in Nat
    BY Constants DEF Class
  <2> QED BY <1>7, <2>1, <2>2 DEF Clones
<1>14. Good(core)
  BY <1>3, <1>6, <1>8, <1>9, <1>10, <1>11, <1>12, <1>13 DEF Good, Sound, Unbanned
<1>15. \A c \in Conn : Waits(core, c) /\ Held(core, c)
  BY <1>1, <1>5 DEF Waits, Held, Ripe, ready
<1>16. sent \in [Conn -> 0 .. MaxLines] /\ ruled \in 0 .. MaxOper
  BY <1>2, RegistrationAssumption
<1> QED BY <1>14, <1>15, <1>16 DEF IInv

\* What the bounds of the model count.
LEMMA BoundsKept ==
  ASSUME IInv, Next
  PROVE  sent' \in [Conn -> 0 .. MaxLines] /\ ruled' \in 0 .. MaxOper
<1>0. /\ sent \in [Conn -> 0 .. MaxLines] /\ ruled \in 0 .. MaxOper
      /\ MaxLines \in Nat /\ MaxOper \in Nat
  BY RegistrationAssumption DEF IInv
<1>1. ASSUME NEW c \in Conn, Line(c) PROVE sent' \in [Conn -> 0 .. MaxLines] /\ ruled' = ruled
  BY <1>0, <1>1 DEF Line
<1>2. ASSUME NEW x \in XLines, AddXline(x) PROVE sent' = sent /\ ruled' \in 0 .. MaxOper
  BY <1>0, <1>2 DEF AddXline
<1>3. \/ sent' = sent /\ ruled' = ruled
      \/ \E c \in Conn : Line(c)
      \/ \E x \in XLines : AddXline(x)
  <2>1. \A c : add_conn(c) \/ ResolvedHost(c) \/ Ident(c) \/ ConnclassAuth(c)
                  => sent' = sent /\ ruled' = ruled
    <3>1. \A c : add_conn(c) => sent' = sent /\ ruled' = ruled
      BY Zenon DEF add_conn
    <3>2. \A c : ResolvedHost(c) => sent' = sent /\ ruled' = ruled
      BY Zenon DEF ResolvedHost
    <3>3. \A c : Ident(c) => sent' = sent /\ ruled' = ruled
      BY Zenon DEF Ident
    <3>4. \A c : ConnclassAuth(c) => sent' = sent /\ ruled' = ruled
      BY Zenon DEF ConnclassAuth
    <3> QED BY <3>1, <3>2, <3>3, <3>4, Zenon
  <2>2. \A c : Disconnect(c) \/ CryptoPanic(c) \/ set_login(c) \/ ChgIdent(c) \/ Kill(c)
                  => sent' = sent /\ ruled' = ruled
    BY Zenon DEF Disconnect, CryptoPanic, set_login, ChgIdent, Kill
  <2>3. \A ip : VerifyPass(ip) \/ VerifyExpires(ip) => sent' = sent /\ ruled' = ruled
    BY Zenon DEF VerifyPass, VerifyExpires
  <2>4. (\A x : RemoveXline(x) => sent' = sent /\ ruled' = ruled)
        /\ (Tick => sent' = sent /\ ruled' = ruled)
    BY Zenon DEF RemoveXline, Tick
  <2> QED BY <2>1, <2>2, <2>3, <2>4, Zenon DEF Next
<1> QED BY <1>0, <1>1, <1>2, <1>3

\* Every event keeps it, and welcomes fairly.
LEMMA NextSettled ==
  ASSUME IInv, Next
  PROVE  IInv' /\ Honest(core, core')
<1>0. Settled(core)
  BY DEF IInv, Settled
<1>1. Settled(core') /\ Honest(core, core')
  <2>1. ASSUME NEW c \in Conn,
               \/ add_conn(c) \/ Line(c) \/ Disconnect(c) \/ ResolvedHost(c) \/ Ident(c)
               \/ ConnclassAuth(c) \/ CryptoPanic(c) \/ set_login(c) \/ ChgIdent(c) \/ Kill(c)
        PROVE  Settled(core') /\ Honest(core, core')
    BY <1>0, <2>1, AddConnKeeps, LineKeeps, DisconnectKeeps, ResolvedHostKeeps, IdentKeeps,
       ConnclassAuthKeeps, CryptoPanicKeeps, LoginKeeps, ChgIdentKeeps, KillKeeps, Zenon
  <2>2. ASSUME NEW ip \in IP, VerifyPass(ip) \/ VerifyExpires(ip)
        PROVE  Settled(core') /\ Honest(core, core')
    BY <1>0, <2>2, VerifyPassKeeps, ExpiresKeeps, Zenon
  <2>3. ASSUME NEW x \in XLines, AddXline(x) PROVE Settled(core') /\ Honest(core, core')
    BY <1>0, <2>3, AddXlineKeeps, Zenon
  <2>4. ASSUME NEW x \in core.xlines, RemoveXline(x)
        PROVE  Settled(core') /\ Honest(core, core')
    BY <1>0, <2>4, RemoveXlineKeeps, Zenon
  <2>5. ASSUME Tick PROVE Settled(core') /\ Honest(core, core')
    BY <1>0, <2>5, TickKeeps, Zenon
  <2> QED BY <2>1, <2>2, <2>3, <2>4, <2>5, Zenon DEF Next
<1> QED BY <1>1, BoundsKept DEF IInv, Settled, Good, Sound, Unbanned

\* Every step keeps it.
LEMMA StepSettled ==
  ASSUME IInv, [Next]_vars
  PROVE  IInv'
<1>1. CASE Next
  BY <1>1, NextSettled
<1>2. CASE UNCHANGED vars
  <2>1. core' = core /\ sent' = sent /\ ruled' = ruled
    BY <1>2 DEF vars
  <2> QED BY <2>1 DEF IInv
<1> QED BY <1>1, <1>2

\* It holds in every reachable state.
LEMMA Invariant == Spec => []IInv
<1>1. Init => IInv
  BY InitSettled
<1>2. IInv /\ [Next]_vars => IInv'
  BY StepSettled
<1> QED BY <1>1, <1>2, PTL DEF Spec

-----------------------------------------------------------------------------
(* What the invariant says.                                                *)

\* For any configuration of the server and any number of connections, the
\* tables of the core keep their types after every event.
THEOREM TypeCorrect == Spec => []TypeOK
<1>1. IInv => TypeOK
  BY DEF IInv, Good, Sound, TypeOK
<1> QED BY <1>1, Invariant, PTL

\* The pool counter of connguard, the clone counters of connclass and the nick
\* index, which every connect, class change, WEBIRC, nick change and end of a
\* connection updates in place, always equal what a recount would give.
THEOREM TablesCorrect == Spec => []TablesExact
<1>1. ASSUME IInv PROVE TablesExact
  <2>0. Counted(core) /\ Indexed(core) /\ core.users \in [Conn -> User]
    BY <1>1 DEF IInv, Good, Sound, Core
  <2>1. \A c \in Conn : core.users[c].ip \in IP
    BY <2>0 DEF User
  <2>2. \A c \in Live(core) : c \in Conn
    BY DEF Live
  <2>3. core.unreg = Cardinality(Live(core) \ Registered(core))
    BY <2>0 DEF Counted, Waiting
  <2>4. \A ip \in IP : core.per_ip[ip] = Cardinality({c \in Live(core) : core.users[c].ip = ip})
    BY <2>0 DEF Counted, At
  <2>5. ASSUME NEW k \in ClassName
        PROVE  core.per_class[k] =
                  Cardinality({c \in Live(core) : core.users[c].class = k /\ core.users[c].ip \in IP})
    <3>1. InClass(core, k) = {c \in Live(core) : core.users[c].class = k /\ core.users[c].ip \in IP}
      BY <2>1, <2>2 DEF InClass
    <3> QED BY <2>0, <3>1 DEF Counted
  <2>6. ASSUME NEW k \in ClassName, NEW ip \in IP
        PROVE  core.per_ip_class[<<ip, k>>] =
                  Cardinality({c \in Live(core) : core.users[c].class = k /\ core.users[c].ip \in {ip}})
    <3>1. Here(core, ip, k) = {c \in Live(core) : core.users[c].class = k /\ core.users[c].ip \in {ip}}
      BY DEF Here
    <3>2. core.per_ip_class[<<ip, k>>] = Cardinality(Here(core, ip, k))
      BY <2>0 DEF Counted
    <3> QED BY <3>1, <3>2
  <2> QED BY <2>0, <2>3, <2>4, <2>5, <2>6 DEF TablesExact, Indexed
<1> QED BY <1>1, Invariant, PTL

\* Whether a K- or Z-line or the user came first, no registered user that the
\* lines were asked about as it is now is hit by an active one:
\* complete_registration asks about whoever is about to be welcomed,
\* enforce_xlines, on every new line, about all who are registered.  Nothing
\* else asks, so that an ident which finalize, hashident or CHGIDENT changed, a
\* welcome after a slow password and the end of an E-line are excepted until
\* the next line is added.
THEOREM BansKept == Spec => []BansHonoured
<1>1. IInv => BansHonoured
  BY DEF IInv, Good, Unbanned, BansHonoured
<1> QED BY <1>1, Invariant, PTL

\* However the lines, the lookups, the password check and the challenges of a
\* connection interleave, try_register has been called since the last of them:
\* who could be welcomed is, and the others wait for something that runs.
THEOREM NobodyLost == Spec => []NobodyForgotten
<1>1. ASSUME IInv PROVE NobodyForgotten
  <2> SUFFICES ASSUME NEW c \in Live(core) \ Registered(core)
               PROVE  LET u == core.users[c]
                          asked(k) == \E j \in Running(core, k) : j.uid = c
                      IN  \/ u.nick = None \/ ~u.user \/ u.cap \/ u.waitpong
                          \/ u.dns_pending /\ asked("dns")
                          \/ u.ident_pending /\ asked("ident")
                          \/ u.auth_pending /\ (asked("auth") \/ asked("dead"))
                          \/ Closed(core, c) # {}
    BY DEF NobodyForgotten
  <2>1. c \in Conn /\ core.users[c].phase = "live" /\ ~core.users[c].registered
    BY DEF Live, Registered
  <2>2. Waits(core, c) /\ Held(core, c) /\ Tidy(core.users[c])
    BY <1>1, <2>1 DEF IInv, Good, Sound
  <2> QED BY <2>1, <2>2 DEF Waits, Held, Ripe, ready, Asked, Tidy
<1> QED BY <1>1, Invariant, PTL

\* No class exceeds its limit, nor has more registered users from one address
\* than its localmax, although the counts are read at the connect and again
\* when the host is known.  A gateway that may rename a client during its
\* password check would break the second half: Sheltered rules it out.
THEOREM LimitsKept == Sheltered => (Spec => []ClassLimits)
<1> SUFFICES ASSUME Sheltered PROVE Spec => []ClassLimits
  OBVIOUS
<1>1. ASSUME IInv PROVE ClassLimits
  <2>0. Within(core) /\ Clones(core) /\ core.users \in [Conn -> User]
    BY <1>1 DEF IInv, Good, Sound, Core
  <2> SUFFICES ASSUME NEW i \in DOMAIN ClassSeq
               PROVE  LET k == ClassSeq[i]
                          of(cs, ip) == {c \in cs : core.users[c].class = k.name /\ core.users[c].ip \in ip}
                      IN  /\ k.limit > 0 => Cardinality(of(Live(core), IP)) <= k.limit
                          /\ k.localmax > 0 => \A ip \in IP :
                                Cardinality(of(Registered(core), {ip})) <= k.localmax
    BY Zenon DEF ClassLimits
  <2> DEFINE k == ClassSeq[i]
             of(cs, ip) == {c \in cs : core.users[c].class = k.name /\ core.users[c].ip \in ip}
  <2>1. of(Live(core), IP) = InClass(core, k.name)
    BY <2>0 DEF InClass, Live, User
  <2>2. k.limit > 0 => Cardinality(of(Live(core), IP)) <= k.limit
    BY <2>0, <2>1 DEF Within
  <2>3. ASSUME NEW ip \in IP, k.localmax > 0
        PROVE  Cardinality(of(Registered(core), {ip})) <= k.localmax
    <3> DEFINE R == of(Registered(core), {ip})
               A == Admitted(core, ip, k.name)
    <3>1. R \subseteq A /\ A \subseteq Conn
      BY DEF Admitted, Here, Registered, Live
    <3>2. IsFiniteSet(A)
      BY <3>1, RegistrationAssumption, FS_Subset
    <3>3. Cardinality(A) <= k.localmax
      BY <2>0, <2>3 DEF Clones
    <3>4. k.localmax \in Nat
      BY Constants DEF Class
    <3> HIDE DEF R, A
    <3>5. Cardinality(R) <= Cardinality(A) /\ Cardinality(R) \in Nat /\ Cardinality(A) \in Nat
      BY <3>1, <3>2, FS_Subset, FS_CardinalityType
    <3>6. Cardinality(R) <= k.localmax
      BY <3>3, <3>4, <3>5
    <3> QED BY <3>6 DEF R
  <2> QED BY <2>2, <2>3, Zenon
<1> QED BY <1>1, Invariant, PTL

\* Every welcome is earned, by whichever event it comes (a line, a lookup's
\* answer, a cleared address, a password verdict): complete_registration is
\* reached only when nothing is held back and the gates are open, and welcome
\* after it either at once or from the password check that it started.
THEOREM WelcomesEarned == Spec => WelcomeEarned
<1> DEFINE A == \A c \in Registered(core)' \ Registered(core) :
                   LET u == core.users[c]'
                   IN  /\ ~u.dns_pending /\ ~u.ident_pending /\ ~u.auth_pending /\ ~u.waitpong
                       /\ u.nick # None /\ u.ident # None /\ u.deferred = <<>>
                       /\ core.users[c].auth_pending \/ Closed(core, c)' = {}
                       /\ RequireIdent => u.ident # "tilde" \/ core.users[c].auth_pending
<1>1. ASSUME IInv, Next PROVE A
  <2> SUFFICES ASSUME NEW c \in Registered(core)' \ Registered(core)
               PROVE  LET u == core'.users[c]
                      IN  /\ ~u.dns_pending /\ ~u.ident_pending /\ ~u.auth_pending /\ ~u.waitpong
                          /\ u.nick # None /\ u.ident # None /\ u.deferred = <<>>
                          /\ core.users[c].auth_pending \/ Closed(core', c) = {}
                          /\ RequireIdent => u.ident # "tilde" \/ core.users[c].auth_pending
    BY Zenon
  <2>1. IInv' /\ Honest(core, core')
    BY <1>1, NextSettled
  <2>2. c \in Conn /\ core'.users[c].phase = "live" /\ core'.users[c].registered
    BY DEF Live, Registered
  <2>3. Tidy(core'.users[c])
    BY <2>1, <2>2 DEF IInv, Good, Sound
  <2>4. Tidy(core.users[c])
    BY <1>1, <2>2 DEF IInv, Good, Sound
  <2>5. ~core.users[c].registered
    BY <2>2, <2>4 DEF Tidy, Registered, Live
  <2>6. Merited(core, core', c)
    BY <2>1, <2>2, <2>5 DEF Honest
  <2> QED BY <2>2, <2>3, <2>6 DEF Tidy, Merited, Earned
<1>2. IInv /\ [Next]_vars => [A]_vars
  BY <1>1
<1> HIDE DEF A
<1>3. Spec => [][A]_vars
  BY <1>2, Invariant, PTL DEF Spec
<1> QED BY <1>3, Zenon DEF WelcomeEarned, A
=============================================================================
