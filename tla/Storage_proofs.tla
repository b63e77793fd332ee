---------------------------- MODULE Storage_proofs ----------------------------
(***************************************************************************)
(* Storage implements SnapshotStore, for every store and back end with one *)
(* writer, and calls each query's callback once.                           *)
(***************************************************************************)
EXTENDS Storage, TLAPS

-----------------------------------------------------------------------------
(* Callbacks                                                                *)

\* The inductive invariant of the callbacks.
Calls == runs \in [Queries -> {-1, 0, 1}] /\ CallbackOnce

\* It holds at first, and the steps that call or register nobody keep it.
LEMMA CallsKept ==
    /\ Init => Calls
    /\ Calls /\ UNCHANGED <<runs, pending>> => Calls'
BY DEF Init, Calls, CallbackOnce

\* Owned, writer and pool steps.
LEMMA OwnedCalls == ASSUME NEW s, Owned(s) PROVE UNCHANGED <<runs, pending>>
BY DEF Owned

\* A query is answered at once, or registered.
LEMMA DispatchCalls == ASSUME Calls, NEW q \in Queries, Dispatch(q) PROVE Calls'
<1>1. runs[q] = -1 /\ q \notin pending BY DEF Dispatch, Calls, CallbackOnce
<1>2. \/ pending' = pending /\ runs' = [runs EXCEPT ![q] = 1]
      \/ pending' = pending \cup {q} /\ runs' = [runs EXCEPT ![q] = 0]
  BY DEF Dispatch, Refused
<1>3. runs' \in [Queries -> {-1, 0, 1}] BY <1>2 DEF Calls
<1> QED BY <1>1, <1>2, <1>3 DEF Calls, CallbackOnce

\* A result takes the callback that waits for it, if one does.
LEMMA ResultCalls == ASSUME Calls, on_result PROVE Calls'
<1>1. PICK q : q = Head(results) OBVIOUS
<1>2. pending' = pending \ {q} BY <1>1 DEF on_result
<1>3. CASE q \in pending /\ q \in Queries
  <2>0. runs[q] = 0 BY <1>3 DEF Calls, CallbackOnce
  <2>1. runs' = [runs EXCEPT ![q] = runs[q] + 1] BY <1>1, <1>3 DEF on_result
  <2> QED BY <1>2, <1>3, <2>0, <2>1 DEF Calls, CallbackOnce
<1>4. CASE ~(q \in pending /\ q \in Queries)
  <2>1. \A p \in Queries : runs'[p] = runs[p] /\ (p \in pending' <=> p \in pending)
    BY <1>1, <1>2, <1>4 DEF on_result, Calls
  <2>2. runs' \in [Queries -> {-1, 0, 1}]
    BY <1>1, <1>4 DEF on_result, Calls
  <2> QED BY <2>1, <2>2 DEF Calls, CallbackOnce
<1> QED BY <1>3, <1>4

\* A crash forgets the callbacks with the queries.
LEMMA CrashCalls == ASSUME Calls, Crash PROVE Calls'
BY DEF Crash, Calls, CallbackOnce

\* Every step keeps it.
LEMMA NextCalls == Calls /\ [Next]_vars => Calls'
<1> SUFFICES ASSUME Calls, [Next]_vars PROVE Calls' OBVIOUS
<1>1. ASSUME Request PROVE UNCHANGED <<runs, pending>>
  <2> PICK k \in StoreKeys :
        \/ \E n \in 1 .. MaxN : \/ MarkRead(k, n) \/ MetadataSet(k, n - 1)
                                \/ ReputationSet(k, n) \/ PushRegister(k, n)
                                \/ apply_user(n - 1)
                                \/ \E d \in 0 .. 1 : add_xline_at(k, n, d)
        \/ MetadataClear(k) \/ ChannelMove(k) \/ ChannelCommand(k) \/ ChannelRemote(k)
        \/ remove_xline(k) \/ PushUnregister(k)
    BY <1>1 DEF Request
  <2> QED BY DEF MarkRead, MetadataSet, ReputationSet, PushRegister, apply_user,
       add_xline_at, MetadataClear, ChannelMove, ChannelCommand, ChannelRemote,
       remove_xline, PushUnregister, Command, Owned
<1>2. ASSUME Tick \/ on_user_quit("markread") \/ on_user_quit("metadata")
      PROVE  UNCHANGED <<runs, pending>>
  BY <1>2 DEF Tick, on_user_quit, Owned
<1>3. ASSUME WriterTake \/ WriteTemp \/ Rename PROVE UNCHANGED <<runs, pending>>
  BY <1>3 DEF WriterTake, WriteTemp, Rename, writerOnly, dbv
<1>4. ASSUME NEW w \in Worker, Take(w) \/ Connect(w) \/ execute_request(w)
      PROVE  UNCHANGED <<runs, pending>>
  BY <1>4 DEF Take, Connect, execute_request
<1>5. ASSUME Restart \/ DatabaseDown \/ DatabaseUp PROVE UNCHANGED <<runs, pending>>
  BY <1>5 DEF Restart, DatabaseDown, DatabaseUp, dbv
<1>6. ASSUME UNCHANGED vars PROVE UNCHANGED <<runs, pending>> BY <1>6 DEF vars, dbv
<1> QED BY <1>1, <1>2, <1>3, <1>4, <1>5, <1>6, CallsKept, DispatchCalls, ResultCalls,
           CrashCalls DEF Next, Background

\* Whatever the queue, the pool and the connections go through, a query's callback
\* is registered exactly while it waits and is called at most once: dispatch takes
\* it back when the request is refused, on_result takes it before calling it.
THEOREM CalledOnce == Spec => []CallbackOnce
<1>1. Calls => CallbackOnce BY DEF Calls
<1> QED BY <1>1, CallsKept, NextCalls, PTL DEF Spec

-----------------------------------------------------------------------------
(* The refinement                                                           *)

\* Snapshots reach the table through one connection: the pool has one worker, or
\* no store is kept in the database.  (With two workers an older snapshot may
\* overtake a newer one.)
SingleWriter == (\E w : Worker = {w}) \/ (\A s \in Setups : s.backend # "pgsql")

\* Rows that some memory of the store is written as.
Good(rows) == \E m : rows = Dump(setup.store, m)

\* x is y or was taken before it.
Older(x, y) == x.ver < y.ver \/ x = y

\* A snapshot on its way: not older than what is stored, not newer than the newest.
OnItsWay(x) == /\ x.ver \in Nat /\ Good(x.recs)
               /\ Older(stored, x) /\ Older(x, newest)

\* What is stored and what was taken last.
Ends == /\ stored.ver \in Nat /\ newest.ver \in Nat /\ stored.ver <= newest.ver
        /\ Good(stored.recs) /\ Good(legacy)
        /\ setup \in Setups
        /\ up => Older(stored, newest)

\* The snapshots of the disk writer, in the order they were taken.
OnDisk == /\ writer = [map |-> writer.map, batch |-> writer.batch, tmp |-> writer.tmp]
          /\ setup.backend # "file" => writer = NoWriter
          /\ writer.map # None => OnItsWay(writer.map)
          /\ writer.batch # None => OnItsWay(writer.batch)
          /\ writer.batch # None /\ writer.map # None => Older(writer.batch, writer.map)
          /\ writer.tmp # None => writer.tmp = writer.batch

Writes(i)  == i \in DOMAIN queue /\ queue[i].kind = "rows"
Carries(w) == worker[w].at = "busy" /\ worker[w].req.kind = "rows"

\* Queue and workers hold requests.
PoolTyped == \E S : /\ queue \in Seq(S)
                    /\ worker \in [Worker -> [req : S \cup {None}, conn : BOOLEAN,
                                              attempt : {0, 1}, at : {"idle", "busy"}]]

\* The queue holds at most one snapshot, newer than the one a worker carries.
InPool == /\ setup.backend # "pgsql" => (\A i : ~Writes(i)) /\ (\A w \in Worker : ~Carries(w))
          /\ \A i, j : Writes(i) /\ Writes(j) => i = j
          /\ \A i : Writes(i) => OnItsWay(queue[i].snap)
          /\ \A w \in Worker : Carries(w) =>
                /\ OnItsWay(worker[w].req.snap)
                /\ \A i : Writes(i) => Older(worker[w].req.snap, queue[i].snap)

\* A process that is not running has nothing on the way.
Stopped == ~up => writer = NoWriter /\ queue = <<>> /\ \A w \in Worker : worker[w].at = "idle"

SInv == Ends /\ OnDisk /\ PoolTyped /\ InPool /\ Stopped

-----------------------------------------------------------------------------
(* What is written is read back                                             *)

\* One row for each key.
Keyed(rows) == \A r, x \in rows : r[1] = x[1] => r = x

\* Then the row of a key is found.
LEMMA RowFound == ASSUME NEW rows, Keyed(rows), NEW r \in rows PROVE RowOf(rows, r[1]) = r
BY DEF Keyed, RowOf

\* Rows of two columns: key and value.
PairsOf(f, D) == {<<k, f[k].n>> : k \in D}
\* Rows of three columns: key, value and time.
TriplesOf(f, D) == {<<k, f[k].n, f[k].t>> : k \in D}

\* The keys and the columns of pairs are what was put there.
LEMMA Pairs ==
    ASSUME NEW f, NEW D, NEW rows, rows = PairsOf(f, D)
    PROVE  KeysOf(rows) = D /\ \A k \in D : RowOf(rows, k)[2] = f[k].n
<1>0. \A k \in D : <<k, f[k].n>> \in rows /\ <<k, f[k].n>>[1] = k BY DEF PairsOf
<1>1. \A r \in rows : \E k \in D : r = <<k, f[k].n>> BY DEF PairsOf
<1>2. \A r \in rows : r[1] \in D /\ r = <<r[1], f[r[1]].n>> BY <1>1
<1>3. Keyed(rows) BY <1>2 DEF Keyed
<1>4. KeysOf(rows) = D
  <2>1. KeysOf(rows) \subseteq D BY <1>2 DEF KeysOf
  <2>2. ASSUME NEW k \in D PROVE k \in KeysOf(rows)
    <3>1. PICK r \in rows : r[1] = k BY <1>0
    <3> QED BY <3>1 DEF KeysOf
  <2> QED BY <2>1, <2>2
<1>5. ASSUME NEW k \in D PROVE RowOf(rows, k) = <<k, f[k].n>>
  <2>1. PICK r \in rows : r[1] = k /\ r = <<k, f[k].n>> BY <1>0
  <2> QED BY <2>1, <1>3, RowFound
<1> QED BY <1>4, <1>5

\* They depend on the columns only.
LEMMA PairsSame ==
    ASSUME NEW f, NEW g, NEW D, \A k \in D : f[k].n = g[k].n
    PROVE  PairsOf(f, D) = PairsOf(g, D)
<1>1. ASSUME NEW x \in PairsOf(f, D) PROVE x \in PairsOf(g, D) BY DEF PairsOf
<1>2. ASSUME NEW x \in PairsOf(g, D) PROVE x \in PairsOf(f, D) BY DEF PairsOf
<1> QED BY <1>1, <1>2

\* The keys and the columns of triples are what was put there.
LEMMA Triples ==
    ASSUME NEW f, NEW D, NEW rows, rows = TriplesOf(f, D)
    PROVE  KeysOf(rows) = D /\ \A k \in D : RowOf(rows, k)[2] = f[k].n /\ RowOf(rows, k)[3] = f[k].t
<1>0. \A k \in D : <<k, f[k].n, f[k].t>> \in rows /\ <<k, f[k].n, f[k].t>>[1] = k BY DEF TriplesOf
<1>1. \A r \in rows : \E k \in D : r = <<k, f[k].n, f[k].t>> BY DEF TriplesOf
<1>2. \A r \in rows : r[1] \in D /\ r = <<r[1], f[r[1]].n, f[r[1]].t>> BY <1>1
<1>3. Keyed(rows) BY <1>2 DEF Keyed
<1>4. KeysOf(rows) = D
  <2>1. KeysOf(rows) \subseteq D BY <1>2 DEF KeysOf
  <2>2. ASSUME NEW k \in D PROVE k \in KeysOf(rows)
    <3>1. PICK r \in rows : r[1] = k BY <1>0
    <3> QED BY <3>1 DEF KeysOf
  <2> QED BY <2>1, <2>2
<1>5. ASSUME NEW k \in D PROVE RowOf(rows, k) = <<k, f[k].n, f[k].t>>
  <2>1. PICK r \in rows : r[1] = k /\ r = <<k, f[k].n, f[k].t>> BY <1>0
  <2> QED BY <2>1, <1>3, RowFound
<1> QED BY <1>4, <1>5

\* They depend on the columns only.
LEMMA TriplesSame ==
    ASSUME NEW f, NEW g, NEW D, \A k \in D : f[k].n = g[k].n /\ f[k].t = g[k].t
    PROVE  TriplesOf(f, D) = TriplesOf(g, D)
<1>1. ASSUME NEW x \in TriplesOf(f, D) PROVE x \in TriplesOf(g, D) BY DEF TriplesOf
<1>2. ASSUME NEW x \in TriplesOf(g, D) PROVE x \in TriplesOf(f, D) BY DEF TriplesOf
<1> QED BY <1>1, <1>2

\* Loading the rows of a store and writing them again gives the same rows, but for
\* the bans that ran out.
LEMMA DumpLoad ==
    ASSUME NEW s, NEW m, NEW rows, rows = Dump(s, m)
    PROVE  Dump(s, Load(s, rows)) = IF s = "xlines" THEN {r \in rows : ~RanOut(r)} ELSE rows
<1>1. CASE s = "markread" \/ s = "metadata"
  <2> DEFINE D == DOMAIN m \ {SessionKey}
             l == [k \in KeysOf(rows) |-> Rec(RowOf(rows, k)[2], 0, FALSE)]
  <2>1. rows = PairsOf(m, D) BY <1>1 DEF Dump, dump_markers, dump_metadata, PairsOf
  <2>2. Load(s, rows) = l BY <1>1 DEF Load, load_markers, load_metadata
  <2> HIDE DEF D
  <2>3. KeysOf(rows) = D BY <2>1, Pairs
  <2>4. \A k \in D : m[k].n = l[k].n BY <2>1, <2>3, Pairs DEF Rec, build
  <2>5. DOMAIN l = D BY <2>3
  <2> HIDE DEF l
  <2>6. Dump(s, l) = PairsOf(l, DOMAIN l \ {SessionKey}) BY <1>1 DEF Dump, dump_markers, dump_metadata, PairsOf
  <2>7. DOMAIN l \ {SessionKey} = D BY <2>4, <2>5 DEF D
  <2>8. PairsOf(m, D) = PairsOf(l, D) BY <2>4, PairsSame
  <2> QED BY <1>1, <2>1, <2>2, <2>6, <2>7, <2>8
<1>2. CASE s = "webpush"
  <2> DEFINE D == DOMAIN m
             l == [k \in KeysOf(rows) |-> Rec(RowOf(rows, k)[2], 0, FALSE)]
  <2>1. rows = PairsOf(m, D) BY <1>2 DEF Dump, dump_subs, PairsOf
  <2>2. Load(s, rows) = l BY <1>2 DEF Load, load_subs
  <2> HIDE DEF D
  <2>3. KeysOf(rows) = D BY <2>1, Pairs
  <2>4. \A k \in D : m[k].n = l[k].n BY <2>1, <2>3, Pairs DEF Rec, build
  <2>5. DOMAIN l = D BY <2>3
  <2> HIDE DEF l
  <2>6. Dump(s, l) = PairsOf(l, DOMAIN l) BY <1>2 DEF Dump, dump_subs, PairsOf
  <2>7. DOMAIN l = D BY <2>4, <2>5 DEF D
  <2>8. PairsOf(m, D) = PairsOf(l, D) BY <2>4, PairsSame
  <2> QED BY <1>2, <2>1, <2>2, <2>6, <2>7, <2>8
<1>3. CASE s = "permchannels"
  <2> DEFINE D == {c \in DOMAIN m : m[c].perm}
             l == [k \in KeysOf(rows) |-> build(RowOf(rows, k))]
  <2>1. rows = PairsOf(m, D) BY <1>3 DEF Dump, serialize, PairsOf
  <2>2. Load(s, rows) = l BY <1>3 DEF Load, load_permchannels
  <2> HIDE DEF D
  <2>3. KeysOf(rows) = D BY <2>1, Pairs
  <2>4. \A k \in D : m[k].n = l[k].n /\ l[k].perm BY <2>1, <2>3, Pairs DEF Rec, build
  <2>5. DOMAIN l = D BY <2>3
  <2> HIDE DEF l
  <2>6. Dump(s, l) = PairsOf(l, {c \in DOMAIN l : l[c].perm}) BY <1>3 DEF Dump, serialize, PairsOf
  <2>7. {c \in DOMAIN l : l[c].perm} = D BY <2>4, <2>5 DEF D
  <2>8. PairsOf(m, D) = PairsOf(l, D) BY <2>4, PairsSame
  <2> QED BY <1>3, <2>1, <2>2, <2>6, <2>7, <2>8
<1>4. CASE s = "reputation"
  <2> DEFINE D == DOMAIN m
             l == [k \in KeysOf(rows) |-> Rec(RowOf(rows, k)[2], RowOf(rows, k)[3], FALSE)]
  <2>1. rows = TriplesOf(m, D) BY <1>4 DEF Dump, dump_reputation, TriplesOf
  <2>2. Load(s, rows) = l BY <1>4 DEF Load, load_reputation
  <2> HIDE DEF D
  <2>3. KeysOf(rows) = D BY <2>1, Triples
  <2>4. \A k \in D : m[k].n = l[k].n /\ m[k].t = l[k].t BY <2>1, <2>3, Triples DEF Rec, build
  <2>5. DOMAIN l = D BY <2>3
  <2> HIDE DEF l
  <2>6. Dump(s, l) = TriplesOf(l, DOMAIN l) BY <1>4 DEF Dump, dump_reputation, TriplesOf
  <2>7. DOMAIN l = D BY <2>4, <2>5 DEF D
  <2>8. TriplesOf(m, D) = TriplesOf(l, D) BY <2>4, TriplesSame
  <2> QED BY <1>4, <2>1, <2>2, <2>6, <2>7, <2>8
<1>5. CASE s = "xlines"
  <2> DEFINE left == {r \in rows : ~RanOut(r)}
             D == {k \in DOMAIN m : ~RanOut(<<k, m[k].n, m[k].t>>)}
             l == [k \in KeysOf(left) |-> Rec(RowOf(left, k)[2], RowOf(left, k)[3], FALSE)]
  <2>0. rows = TriplesOf(m, DOMAIN m) BY <1>5 DEF Dump, dump_xlines, TriplesOf
  <2>1. left = TriplesOf(m, D)
    <3>1. ASSUME NEW x \in left PROVE x \in TriplesOf(m, D) BY <2>0 DEF TriplesOf
    <3>2. ASSUME NEW x \in TriplesOf(m, D) PROVE x \in left BY <2>0 DEF TriplesOf
    <3> QED BY <3>1, <3>2
  <2>2. Load(s, rows) = l BY <1>5 DEF Load, load_xlines
  <2>9. Dump(s, l) = TriplesOf(l, DOMAIN l) BY <1>5 DEF Dump, dump_xlines, TriplesOf
  <2> HIDE DEF D, left
  <2>3. KeysOf(left) = D BY <2>1, Triples
  <2>4. \A k \in D : m[k].n = l[k].n /\ m[k].t = l[k].t BY <2>1, <2>3, Triples DEF Rec
  <2>5. DOMAIN l = D BY <2>3
  <2> HIDE DEF l
  <2>8. TriplesOf(m, D) = TriplesOf(l, D) BY <2>4, TriplesSame
  <2> QED BY <1>5, <2>1, <2>2, <2>9, <2>5, <2>8 DEF left
<1>6. CASE s \notin {"markread", "metadata", "webpush", "permchannels", "reputation", "xlines"}
  BY <1>6 DEF Dump
<1> QED BY <1>1, <1>2, <1>3, <1>4, <1>5, <1>6

-----------------------------------------------------------------------------
(* The invariant of the snapshots                                           *)

\* A store without records is written as no rows.
LEMMA DumpNothing == ASSUME NEW s PROVE Dump(s, Nothing) = {}
BY DEF Dump, Nothing, dump_markers, dump_metadata, dump_reputation, serialize, dump_xlines, dump_subs

\* It holds at first.
LEMMA InitSnapshots == Init => SInv
<1> SUFFICES ASSUME Init PROVE SInv OBVIOUS
<1>1. {} = Dump(setup.store, Nothing) BY DumpNothing
<1>2. Good({}) BY <1>1 DEF Good
<1>3. \A rows \in Rows0 : Good(rows)
  <2> DEFINE full == Dump(setup.store, [k \in Keys \ {SessionKey} |-> Rec(1, 0, TRUE)])
  <2>1. Good(full) BY DEF Good
  <2>2. Rows0 = {{}, full} BY DEF Rows0
  <2> HIDE DEF full
  <2> SUFFICES ASSUME NEW rows \in Rows0 PROVE Good(rows) OBVIOUS
  <2>3. CASE rows = {} BY <1>2, <2>3
  <2>4. CASE rows = full BY <2>1, <2>4
  <2>5. rows = {} \/ rows = full BY <2>2, Zenon
  <2> QED BY <2>3, <2>4, <2>5
<1>4. Ends
  <2>1. stored.ver = 0 /\ stored.recs \in Rows0 BY DEF Init
  <2>2. Good(stored.recs) BY <1>3, <2>1
  <2>3. legacy \in Rows0 \/ legacy = {} BY DEF Init
  <2>4. Good(legacy) BY <1>2, <1>3, <2>3
  <2> QED BY <2>1, <2>2, <2>4 DEF Ends, Init
<1>5. OnDisk BY DEF OnDisk, Init, NoWriter
<1>6. PoolTyped
  <2>1. queue \in Seq({}) BY DEF Init
  <2>2. worker \in [Worker -> [req : {} \cup {None}, conn : BOOLEAN, attempt : {0, 1},
                               at : {"idle", "busy"}]] BY DEF Init, Idle
  <2> QED BY <2>1, <2>2 DEF PoolTyped
<1>7. InPool BY DEF InPool, Init, Writes, Carries, Idle
<1>8. Stopped BY DEF Stopped, Init, Idle
<1> QED BY <1>4, <1>5, <1>6, <1>7, <1>8 DEF SInv

\* A snapshot stays on its way when a newer one is taken.
LEMMA StillOnItsWay ==
    ASSUME Ends, UNCHANGED <<setup, stored>>, Older(newest, newest'), newest'.ver \in Nat,
           NEW x, OnItsWay(x)
    PROVE  OnItsWay(x)'
BY DEF OnItsWay, Ends, Good, Older

\* The snapshot of m is the newest one, or becomes it.
LEMMA Snapped ==
    ASSUME Ends, NEW m
    PROVE  /\ Snap(m).ver \in Nat /\ Good(Snap(m).recs) /\ Older(newest, Snap(m))
           /\ \/ Snap(m) = newest
              \/ Snap(m) = [ver |-> newest.ver + 1, recs |-> Dump(setup.store, m)]
<1> DEFINE d == Dump(setup.store, m)
<1>1. Good(d) BY DEF Good
<1>2. CASE d = newest.recs
  <2>1. Snap(m) = newest BY <1>2 DEF Snap
  <2> QED BY <2>1, <1>1, <1>2 DEF Ends, Older
<1>3. CASE d # newest.recs
  <2>1. Snap(m) = [ver |-> newest.ver + 1, recs |-> d] BY <1>3 DEF Snap
  <2> HIDE DEF d
  <2>2. Snap(m).ver = newest.ver + 1 /\ Snap(m).recs = d BY <2>1
  <2>3. Snap(m).ver \in Nat /\ newest.ver < Snap(m).ver BY <2>2 DEF Ends
  <2> QED BY <2>1, <2>2, <2>3, <1>1 DEF Older, d
<1> QED BY <1>2, <1>3

\* Where submit leaves the queue: a write takes the place of the one that waits, any
\* other request goes to the end or is refused.
LEMMA Submitted ==
    ASSUME NEW S, queue \in Seq(S), \A i, j : Writes(i) /\ Writes(j) => i = j,
           NEW req, NEW q, q \in {submit(req).q, redis_submit(req).q},
           req.kind = "rows" => q = submit(req).q
    PROVE  /\ q \in Seq(S \cup {req})
           /\ \A i : i \in DOMAIN q /\ q[i].kind = "rows" =>
                 (Writes(i) /\ q[i] = queue[i]) \/ (q[i] = req /\ req.kind = "rows")
           /\ \A i, j : (/\ i \in DOMAIN q /\ q[i].kind = "rows"
                         /\ j \in DOMAIN q /\ q[j].kind = "rows") => i = j
<1> DEFINE same == {i \in DOMAIN queue : req.kind = "rows" /\ queue[i].kind = "rows"}
<1>0. queue \in Seq(S \cup {req}) OBVIOUS
<1> DEFINE W(i) == i \in DOMAIN q /\ q[i].kind = "rows"
<1> SUFFICES /\ q \in Seq(S \cup {req})
             /\ \A i : W(i) => (Writes(i) /\ q[i] = queue[i]) \/ (q[i] = req /\ req.kind = "rows")
             /\ \A i, j : W(i) /\ W(j) => i = j
  OBVIOUS
<1>1. CASE q = queue /\ same = {}
  <2>1. \A i : W(i) <=> Writes(i) BY <1>1 DEF Writes
  <2> HIDE DEF W
  <2> QED BY <1>0, <1>1, <2>1
<1>2. CASE q = Append(queue, req) /\ (req.kind = "rows" => same = {})
  <2>1. q \in Seq(S \cup {req}) BY <1>0, <1>2
  <2>2. DOMAIN q = DOMAIN queue \cup {Len(queue) + 1} /\ q[Len(queue) + 1] = req
        /\ (\A i \in DOMAIN queue : q[i] = queue[i])
    BY <1>2
  <2>3. req.kind = "rows" => \A i : ~Writes(i) BY <1>2 DEF Writes
  <2> HIDE DEF same
  <2>4. \A i : W(i) => (Writes(i) /\ q[i] = queue[i]) \/ (i = Len(queue) + 1 /\ req.kind = "rows")
    BY <2>2 DEF Writes
  <2>5. \A i : W(i) => (Writes(i) /\ q[i] = queue[i]) \/ (q[i] = req /\ req.kind = "rows")
    BY <2>2, <2>4
  <2> HIDE DEF W
  <2>6. \A i, j : W(i) /\ W(j) => i = j BY <2>3, <2>4
  <2> QED BY <2>1, <2>5, <2>6
<1>3. CASE same # {} /\ q = [queue EXCEPT ![Min(same)] = req]
  <2>1. PICK n : n \in same BY <1>3
  <2>2. same = {n} BY <2>1 DEF Writes
  <2>3. n \in Nat BY <2>1
  <2>4. Min(same) = n BY <2>2, <2>3 DEF Min
  <2>5. q = [queue EXCEPT ![n] = req] BY <1>3, <2>4
  <2>6. n \in DOMAIN queue /\ req.kind = "rows" /\ queue[n].kind = "rows" BY <2>1
  <2> HIDE DEF same
  <2>7. q \in Seq(S \cup {req}) BY <1>0, <2>5, <2>6
  <2>8. DOMAIN q = DOMAIN queue /\ q[n] = req /\ \A i \in DOMAIN queue : i # n => q[i] = queue[i]
    BY <2>5, <2>6
  <2>9. \A i : W(i) => Writes(i) BY <2>6, <2>8 DEF Writes
  <2>10. \A i : W(i) => i = n BY <2>6, <2>9 DEF Writes
  <2> HIDE DEF W
  <2> QED BY <2>6, <2>7, <2>8, <2>10
<1>4. q = queue \/ q = Append(queue, req) \/ (same # {} /\ q = [queue EXCEPT ![Min(same)] = req])
  BY DEF submit, redis_submit
<1>5. req.kind # "rows" => same = {} OBVIOUS
<1>6. req.kind = "rows" /\ same # {} => q = [queue EXCEPT ![Min(same)] = req] BY DEF submit
<1> HIDE DEF same
<1> QED BY <1>1, <1>2, <1>3, <1>4, <1>5, <1>6

\* The owner of the store changes its records and may save them: a change of the
\* abstract store, which keeps the invariant.
LEMMA OwnerStep ==
    ASSUME SInv, up, UNCHANGED <<up, setup, stored, legacy, worker>>, Save(mem') \/ NoSave
    PROVE  SInv' /\ Store!Next
<1> USE DEF SInv
<1>1. CASE NoSave
  <2>1. UNCHANGED <<newest, writer, queue>> BY <1>1 DEF NoSave
  <2>2. Store!Next BY <2>1 DEF Store!Next, Store!Change
  <2>3. Ends' BY <2>1 DEF Ends, Good, Older
  <2>4. OnDisk' BY <2>1 DEF OnDisk, OnItsWay, Good, Older
  <2>5. PoolTyped' BY <2>1 DEF PoolTyped
  <2>6. InPool' BY <2>1 DEF InPool, Writes, Carries, OnItsWay, Good, Older
  <2>7. Stopped' BY <2>1 DEF Stopped
  <2> QED BY <2>2, <2>3, <2>4, <2>5, <2>6, <2>7
<1>2. CASE Save(mem')
  <2>0. PICK sn : sn = Snap(mem') OBVIOUS
  <2>1. /\ sn.ver \in Nat /\ Good(sn.recs) /\ Older(newest, sn)
        /\ sn = newest \/ sn = [ver |-> newest.ver + 1, recs |-> Dump(setup.store, mem')]
    BY <2>0, Snapped
  <2>2. newest' = sn BY <1>2, <2>0 DEF Save
  <2>3. Store!Next BY <2>1, <2>2 DEF Store!Next, Store!Change
  <2>4. Ends'
    <3>1. stored.ver <= sn.ver BY <2>1 DEF Ends, Older
    <3>2. Older(stored, sn) BY <2>1 DEF Ends, Older
    <3> QED BY <2>1, <2>2, <3>1, <3>2 DEF Ends, Good, Older
  <2>5. OnItsWay(sn)' BY <2>1, <2>2 DEF OnItsWay, Ends, Good, Older
  <2>6. \A x : OnItsWay(x) => OnItsWay(x)' BY <2>1, <2>2, StillOnItsWay
  <2>7. \A x : OnItsWay(x) => Older(x, sn) BY <2>1 DEF OnItsWay, Ends, Older
  <2>8. Stopped' BY DEF Stopped
  <2>9. CASE setup.backend = "pgsql"
    <3>0. PICK req : req = [kind |-> "rows", id |-> None, snap |-> sn] OBVIOUS
    <3>1. queue' = submit(req).q /\ writer' = writer
      BY <1>2, <2>0, <2>9, <3>0 DEF Save, store_rows_replace
    <3>2. PICK S : /\ queue \in Seq(S)
                   /\ worker \in [Worker -> [req : S \cup {None}, conn : BOOLEAN,
                                             attempt : {0, 1}, at : {"idle", "busy"}]]
      BY DEF PoolTyped
    <3>3. \A i, j : Writes(i) /\ Writes(j) => i = j BY DEF InPool
    <3>4. queue' \in Seq(S \cup {req})
      BY <3>1, <3>2, <3>3, Submitted
    <3>5. \A i : Writes(i)' => (Writes(i) /\ queue'[i] = queue[i]) \/ queue'[i] = req
      BY <3>1, <3>2, <3>3, Submitted DEF Writes
    <3>6. \A i, j : Writes(i)' /\ Writes(j)' => i = j
      BY <3>0, <3>1, <3>2, <3>3, Submitted DEF Writes
    <3>7. PoolTyped'
      <4>1. worker' \in [Worker -> [req : (S \cup {req}) \cup {None}, conn : BOOLEAN,
                                    attempt : {0, 1}, at : {"idle", "busy"}]] BY <3>2
      <4> QED BY <3>4, <4>1 DEF PoolTyped
    <3>8. OnDisk' BY <2>9, <3>1 DEF OnDisk, NoWriter
    <3>9. InPool'
      <4>1. ASSUME NEW i, Writes(i)' PROVE OnItsWay(queue[i].snap)'
        <5>1. PICK x : x = queue'[i].snap OBVIOUS
        <5>2. CASE Writes(i) /\ queue'[i] = queue[i]
          <6>1. OnItsWay(x) BY <5>1, <5>2 DEF InPool
          <6>2. OnItsWay(x)' BY <2>6, <6>1
          <6> QED BY <5>1, <6>2 DEF OnItsWay, Good, Older
        <5>3. CASE queue'[i] = req
          <6>1. x = sn BY <3>0, <5>1, <5>3
          <6> QED BY <2>5, <5>1, <6>1 DEF OnItsWay, Good, Older
        <5> QED BY <3>5, <4>1, <5>2, <5>3
      <4>2. ASSUME NEW w \in Worker, Carries(w)'
            PROVE  /\ OnItsWay(worker[w].req.snap)'
                   /\ \A i : Writes(i)' => Older(worker[w].req.snap, queue[i].snap)'
        <5>0. PICK x : x = worker[w].req.snap OBVIOUS
        <5>1. Carries(w) BY <4>2 DEF Carries
        <5>2. OnItsWay(x) BY <5>0, <5>1 DEF InPool
        <5>3. \A i : Writes(i) => Older(x, queue[i].snap) BY <5>0, <5>1 DEF InPool
        <5>4. Older(x, sn) BY <2>7, <5>2
        <5>5. OnItsWay(x)' BY <2>6, <5>2
        <5>6. \A i : Writes(i)' => Older(x, queue'[i].snap) BY <3>0, <3>5, <5>3, <5>4
        <5>7. x = worker'[w].req.snap BY <5>0
        <5> QED BY <5>5, <5>6, <5>7 DEF OnItsWay, Good, Older
      <4> QED BY <2>9, <3>6, <4>1, <4>2 DEF InPool
    <3> QED BY <2>3, <2>4, <2>8, <3>7, <3>8, <3>9
  <2>10. CASE setup.backend = "file"
    <3>1. queue' = queue /\ writer' = [writer EXCEPT !.map = sn]
      BY <1>2, <2>0, <2>10 DEF Save, disk_write
    <3>2. writer' = [map |-> sn, batch |-> writer.batch, tmp |-> writer.tmp]
      BY <3>1 DEF OnDisk
    <3>3. OnDisk' BY <2>5, <2>6, <2>7, <2>10, <3>2 DEF OnDisk
    <3>4. PoolTyped' BY <3>1 DEF PoolTyped
    <3>5. InPool' BY <2>10, <3>1 DEF InPool, Writes, Carries
    <3> QED BY <2>3, <2>4, <2>8, <3>3, <3>4, <3>5
  <2> QED BY <1>2, <2>9, <2>10 DEF Save
<1> QED BY <1>1, <1>2

\* The owner's actions: commands, remote changes and the timer.
LEMMA OwnerActions ==
    ASSUME SInv, Request \/ Tick \/ on_user_quit("markread") \/ on_user_quit("metadata")
    PROVE  SInv' /\ Store!Next
<1> SUFFICES /\ up /\ UNCHANGED <<up, setup, stored, legacy, worker>>
             /\ Save(mem') \/ NoSave
  BY OwnerStep
<1>1. ASSUME Request
      PROVE  /\ up /\ UNCHANGED <<up, setup, stored, legacy, worker>>
             /\ Save(mem') \/ NoSave
  <2> PICK k \in StoreKeys :
        \/ \E n \in 1 .. MaxN : \/ MarkRead(k, n) \/ MetadataSet(k, n - 1)
                                \/ ReputationSet(k, n) \/ PushRegister(k, n)
                                \/ apply_user(n - 1)
                                \/ \E d \in 0 .. 1 : add_xline_at(k, n, d)
        \/ MetadataClear(k) \/ ChannelMove(k) \/ ChannelCommand(k) \/ ChannelRemote(k)
        \/ remove_xline(k) \/ PushUnregister(k)
    BY <1>1 DEF Request
  <2>1. up /\ UNCHANGED <<up, setup, stored, legacy, worker>>
    BY DEF MarkRead, MetadataSet, ReputationSet, PushRegister, apply_user, add_xline_at,
           MetadataClear, ChannelMove, ChannelCommand, ChannelRemote, remove_xline,
           PushUnregister, Command, Owned
  <2>2. Save(mem') \/ NoSave
    BY DEF MarkRead, MetadataSet, ReputationSet, PushRegister, apply_user, add_xline_at,
           MetadataClear, ChannelMove, ChannelCommand, ChannelRemote, remove_xline,
           PushUnregister, flush
  <2> QED BY <2>1, <2>2
<1>2. ASSUME on_user_quit("markread") \/ on_user_quit("metadata")
      PROVE  /\ up /\ UNCHANGED <<up, setup, stored, legacy, worker>>
             /\ Save(mem') \/ NoSave
  BY <1>2 DEF on_user_quit, Owned
<1>3. ASSUME Tick
      PROVE  /\ up /\ UNCHANGED <<up, setup, stored, legacy, worker>>
             /\ Save(mem') \/ NoSave
  <2>1. up /\ UNCHANGED <<up, setup, stored, legacy, worker>> BY <1>3 DEF Tick, Owned
  <2>2. \/ MetadataTick \/ ReputationTick \/ (mem' = mem /\ flush(mem)) \/ purge_xlines \/ NoSave
    BY <1>3 DEF Tick
  <2>3. ASSUME MetadataTick PROVE Save(mem') \/ NoSave BY <2>3 DEF MetadataTick
  <2>4. ASSUME ReputationTick PROVE Save(mem') \/ NoSave BY <2>4 DEF ReputationTick
  <2>5. ASSUME mem' = mem, flush(mem) PROVE Save(mem') \/ NoSave BY <2>5 DEF flush
  <2>6. ASSUME purge_xlines PROVE Save(mem') \/ NoSave BY <2>6 DEF purge_xlines
  <2> QED BY <2>1, <2>2, <2>3, <2>4, <2>5, <2>6
<1> QED BY <1>1, <1>2, <1>3

\* The steps of the disk writer store a later snapshot, or change nothing that is kept.
LEMMA DiskStep ==
    ASSUME SInv, WriterTake \/ WriteTemp \/ Rename
    PROVE  SInv' /\ (Store!Next \/ UNCHANGED <<up, setup, mem, newest, stored, legacy>>)
<1> USE DEF SInv
<1>0. UNCHANGED <<setup, up, mem, newest, legacy, queue, worker>>
  BY DEF WriterTake, WriteTemp, Rename, writerOnly, core, dbv
<1>1. PoolTyped' BY <1>0 DEF PoolTyped
<1>2. setup.backend = "file" BY DEF OnDisk, WriterTake, WriteTemp, Rename, NoWriter
<1>3. InPool' BY <1>0, <1>2 DEF InPool, Writes, Carries
<1>4. up BY DEF Stopped, WriterTake, WriteTemp, Rename, NoWriter
<1>5. Stopped' BY <1>0, <1>4 DEF Stopped
<1>6. CASE UNCHANGED stored
  <2>1. Ends' BY <1>0, <1>6 DEF Ends, Good, Older
  <2>2. \A x : OnItsWay(x) => OnItsWay(x)' BY <1>0, <1>6 DEF OnItsWay, Good, Older
  <2>3. ASSUME WriterTake PROVE OnDisk'
    <3>1. writer' = [map |-> None, batch |-> writer.map, tmp |-> writer.tmp]
      BY <2>3 DEF WriterTake, OnDisk
    <3>2. writer.map # None /\ writer.tmp = None BY <2>3 DEF WriterTake, OnDisk
    <3> QED BY <1>0, <1>2, <2>2, <3>1, <3>2 DEF OnDisk
  <2>4. ASSUME WriteTemp PROVE OnDisk'
    <3>1. \/ writer' = [map |-> writer.map, batch |-> writer.batch, tmp |-> writer.batch]
          \/ writer' = [map |-> writer.map, batch |-> None, tmp |-> writer.tmp]
      BY <2>4 DEF WriteTemp, OnDisk
    <3>2. writer.tmp = None BY <2>4 DEF WriteTemp
    <3> QED BY <1>0, <1>2, <2>2, <3>1, <3>2 DEF OnDisk, Older
  <2>5. ASSUME Rename PROVE OnDisk'
    <3>1. writer' = [map |-> writer.map, batch |-> None, tmp |-> None]
      BY <2>5 DEF Rename, OnDisk
    <3> QED BY <1>0, <1>2, <2>2, <3>1 DEF OnDisk
  <2> QED BY <1>0, <1>1, <1>3, <1>5, <1>6, <2>1, <2>3, <2>4, <2>5
<1>7. CASE Rename /\ stored' # stored
  <2>1. stored' = writer.tmp /\ writer.tmp # None BY <1>7 DEF Rename
  <2>2. writer' = [map |-> writer.map, batch |-> None, tmp |-> None] BY <1>7 DEF Rename, OnDisk
  <2>3. OnItsWay(stored') BY <2>1 DEF OnDisk
  <2>4. stored.ver < stored'.ver BY <1>7, <2>3 DEF OnItsWay, Older
  <2>5. Older(stored', newest) BY <2>3 DEF OnItsWay
  <2>6. Store!Next
    <3>1. stored'.ver <= newest.ver /\ (stored'.ver = newest.ver => stored'.recs = newest.recs)
      BY <2>3 DEF OnItsWay, Older, Ends
    <3> QED BY <1>0, <2>4, <3>1 DEF Store!Next, Store!Store
  <2>7. Ends' BY <1>0, <2>3, <2>5 DEF Ends, OnItsWay, Good, Older
  <2>8. writer.map # None => OnItsWay(writer.map) /\ Older(stored', writer.map)
    BY <2>1 DEF OnDisk
  <2>9. OnDisk'
    <3>1. PICK x : x = writer.map OBVIOUS
    <3>2. x # None => OnItsWay(x)' BY <1>0, <2>8, <3>1 DEF OnItsWay, Good, Older
    <3> QED BY <1>0, <1>2, <2>2, <3>1, <3>2 DEF OnDisk, OnItsWay, Good, Older
  <2> QED BY <1>1, <1>3, <1>5, <2>6, <2>7, <2>9
<1> QED BY <1>6, <1>7 DEF WriterTake, WriteTemp

\* A worker takes a request from the queue.  A write that another worker still
\* carries would be overtaken: here the one writer matters.
LEMMA TakeStep ==
    ASSUME SingleWriter, SInv, NEW w \in Worker, Take(w)
    PROVE  SInv' /\ UNCHANGED <<up, setup, mem, newest, stored, legacy>>
<1> USE DEF SInv
<1>0. UNCHANGED <<setup, up, mem, newest, stored, writer, legacy>> BY DEF Take, poolOnly, core
<1>1. up BY DEF Stopped, Take
<1>2. \A x : OnItsWay(x) => OnItsWay(x)' BY <1>0 DEF OnItsWay, Good, Older
<1>3. Ends' /\ Stopped' BY <1>0, <1>1 DEF Ends, Stopped, Good, Older
<1>4. OnDisk' BY <1>0 DEF OnDisk, OnItsWay, Good, Older
<1>5. PICK S : /\ queue \in Seq(S)
               /\ worker \in [Worker -> [req : S \cup {None}, conn : BOOLEAN,
                                         attempt : {0, 1}, at : {"idle", "busy"}]]
  BY DEF PoolTyped
<1>6. queue # <<>> /\ queue' = Tail(queue) BY DEF Take
<1>7. Head(queue) = queue[1] /\ Head(queue) \in S /\ 1 \in DOMAIN queue BY <1>5, <1>6
<1>8. queue' \in Seq(S) BY <1>5, <1>6
<1> DEFINE T == [req : S \cup {None}, conn : BOOLEAN, attempt : {0, 1}, at : {"idle", "busy"}]
<1>9. worker' = [worker EXCEPT ![w] =
                   [[[worker[w] EXCEPT !.at = "busy"] EXCEPT !.req = queue[1]] EXCEPT !.attempt = 0]]
  BY <1>5, <1>7 DEF Take
<1>10. worker' \in [Worker -> T]
  <2>1. PICK r \in T : r = worker[w] BY <1>5
  <2>2. PICK r1 \in T : r1 = [r EXCEPT !.at = "busy"] OBVIOUS
  <2>3. PICK r2 \in T : r2 = [r1 EXCEPT !.req = queue[1]] BY <1>7
  <2>4. PICK r3 \in T : r3 = [r2 EXCEPT !.attempt = 0] OBVIOUS
  <2>5. worker' = [worker EXCEPT ![w] = r3] BY <1>9, <2>1, <2>2, <2>3, <2>4
  <2>6. worker \in [Worker -> T] BY <1>5
  <2> HIDE DEF T
  <2> QED BY <2>5, <2>6
<1>11. worker'[w].req = queue[1] /\ worker'[w].at = "busy" BY <1>5, <1>9
<1>12. \A v \in Worker : v # w => worker'[v] = worker[v] BY <1>5, <1>9
<1>13. \A i : Writes(i)' => i + 1 # 1 /\ Writes(i + 1) /\ queue'[i] = queue[i + 1]
  <2> SUFFICES ASSUME NEW i, Writes(i)'
               PROVE  i + 1 # 1 /\ Writes(i + 1) /\ queue'[i] = queue[i + 1]
    OBVIOUS
  <2>1. i \in DOMAIN queue' BY DEF Writes
  <2>2. i \in 1 .. (Len(queue) - 1) BY <1>5, <1>6, <2>1
  <2>3. queue'[i] = queue[i + 1] /\ i + 1 \in DOMAIN queue /\ i + 1 # 1 BY <1>5, <1>6, <2>2
  <2> QED BY <2>3 DEF Writes
<1>14. PoolTyped' BY <1>8, <1>10 DEF PoolTyped
<1>15. InPool'
  <2>1. CASE setup.backend # "pgsql"
    <3>1. queue[1].kind # "rows" BY <1>7, <2>1 DEF InPool, Writes
    <3>2. ASSUME NEW v \in Worker PROVE ~Carries(v)'
      BY <1>11, <1>12, <2>1, <3>1 DEF InPool, Carries
    <3>3. \A i : ~Writes(i)' BY <1>13, <2>1 DEF InPool
    <3> QED BY <3>2, <3>3 DEF InPool
  <2>2. CASE setup.backend = "pgsql"
    <3>1. Worker = {w} BY <2>2 DEF SingleWriter, Ends
    <3>2. \A i, j : Writes(i)' /\ Writes(j)' => i = j
      <4> SUFFICES ASSUME NEW i, NEW j, Writes(i)', Writes(j)' PROVE i = j OBVIOUS
      <4>1. i + 1 = j + 1 BY <1>13 DEF InPool
      <4>2. i \in Nat /\ j \in Nat BY <1>8 DEF Writes
      <4> QED BY <4>1, <4>2
    <3>3. ASSUME NEW i, Writes(i)' PROVE OnItsWay(queue[i].snap)'
      <4>1. PICK x : x = queue'[i].snap OBVIOUS
      <4>2. OnItsWay(x) BY <1>13, <3>3, <4>1 DEF InPool
      <4> QED BY <1>2, <4>1, <4>2 DEF OnItsWay, Good, Older
    <3>4. ASSUME NEW v \in Worker, Carries(v)'
          PROVE  /\ OnItsWay(worker[v].req.snap)'
                 /\ \A i : Writes(i)' => Older(worker[v].req.snap, queue[i].snap)'
      <4>0. v = w BY <3>1
      <4>1. Writes(1) BY <1>7, <1>11, <3>4, <4>0 DEF Writes, Carries
      <4>2. \A i : ~Writes(i)' BY <1>13, <4>1 DEF InPool
      <4>3. PICK x : x = worker'[v].req.snap OBVIOUS
      <4>4. OnItsWay(x) BY <1>11, <4>0, <4>1, <4>3 DEF InPool
      <4> QED BY <1>2, <4>2, <4>3, <4>4 DEF OnItsWay, Good, Older
    <3> QED BY <1>0, <2>2, <3>2, <3>3, <3>4 DEF InPool
  <2> QED BY <2>1, <2>2
<1> QED BY <1>0, <1>3, <1>4, <1>14, <1>15

\* A worker that is done carries nothing, any other keeps its request.
LEMMA Carrying ==
    ASSUME NEW S, NEW w \in Worker,
           worker \in [Worker -> [req : S \cup {None}, conn : BOOLEAN,
                                  attempt : {0, 1}, at : {"idle", "busy"}]],
           \/ \E c \in BOOLEAN : worker' = [worker EXCEPT ![w] = [Idle EXCEPT !.conn = c]]
           \/ worker' = [worker EXCEPT ![w].conn = TRUE]
           \/ worker' = [worker EXCEPT ![w].attempt = 1]
           \/ worker' = [worker EXCEPT ![w].attempt = 1, ![w].conn = FALSE]
    PROVE  /\ worker' \in [Worker -> [req : S \cup {None}, conn : BOOLEAN,
                                      attempt : {0, 1}, at : {"idle", "busy"}]]
           /\ \A v \in Worker : Carries(v)' => Carries(v) /\ worker'[v].req = worker[v].req
           /\ \A v \in Worker : worker[v].at = "idle" /\ v # w => worker'[v].at = "idle"
<1>1. CASE \E c \in BOOLEAN : worker' = [worker EXCEPT ![w] = [Idle EXCEPT !.conn = c]]
  BY <1>1 DEF Idle, Carries
<1>2. ASSUME NEW r, worker' = [worker EXCEPT ![w] = r], r.req = worker[w].req, r.at = worker[w].at,
             r \in [req : S \cup {None}, conn : BOOLEAN, attempt : {0, 1}, at : {"idle", "busy"}]
      PROVE  /\ worker' \in [Worker -> [req : S \cup {None}, conn : BOOLEAN,
                                        attempt : {0, 1}, at : {"idle", "busy"}]]
             /\ \A v \in Worker : Carries(v)' => Carries(v) /\ worker'[v].req = worker[v].req
             /\ \A v \in Worker : worker[v].at = "idle" /\ v # w => worker'[v].at = "idle"
  BY <1>2 DEF Carries
<1>3. CASE \/ worker' = [worker EXCEPT ![w].conn = TRUE]
           \/ worker' = [worker EXCEPT ![w].attempt = 1]
           \/ worker' = [worker EXCEPT ![w].attempt = 1, ![w].conn = FALSE]
  <2>1. \E r : /\ worker' = [worker EXCEPT ![w] = r]
               /\ r \in {[worker[w] EXCEPT !.conn = TRUE], [worker[w] EXCEPT !.attempt = 1],
                         [worker[w] EXCEPT !.attempt = 1, !.conn = FALSE]}
    BY <1>3
  <2>2. PICK r : /\ worker' = [worker EXCEPT ![w] = r]
                 /\ r \in {[worker[w] EXCEPT !.conn = TRUE], [worker[w] EXCEPT !.attempt = 1],
                           [worker[w] EXCEPT !.attempt = 1, !.conn = FALSE]}
    BY <2>1
  <2>3. /\ r.req = worker[w].req /\ r.at = worker[w].at
        /\ r \in [req : S \cup {None}, conn : BOOLEAN, attempt : {0, 1}, at : {"idle", "busy"}]
    BY <2>2
  <2> QED BY <1>2, <2>2, <2>3
<1> QED BY <1>1, <1>3

\* A worker goes on with its request, and may store what it carries.
LEMMA WorkerStep ==
    ASSUME SingleWriter, SInv, NEW w \in Worker, Connect(w) \/ execute_request(w)
    PROVE  SInv' /\ (Store!Next \/ UNCHANGED <<up, setup, mem, newest, stored, legacy>>)
<1> USE DEF SInv
<1>0. UNCHANGED <<setup, up, mem, newest, writer, legacy, queue>>
  BY DEF Connect, execute_request, poolOnly, core
<1>1. up BY DEF Stopped, Connect, execute_request
<1>2. PICK S : /\ queue \in Seq(S)
               /\ worker \in [Worker -> [req : S \cup {None}, conn : BOOLEAN,
                                         attempt : {0, 1}, at : {"idle", "busy"}]]
  BY DEF PoolTyped
<1>3. \/ \E c \in BOOLEAN : worker' = [worker EXCEPT ![w] = [Idle EXCEPT !.conn = c]]
      \/ worker' = [worker EXCEPT ![w].conn = TRUE]
      \/ worker' = [worker EXCEPT ![w].attempt = 1]
      \/ worker' = [worker EXCEPT ![w].attempt = 1, ![w].conn = FALSE]
  BY DEF Connect, execute_request, Finish, Panic
<1>4. worker' \in [Worker -> [req : S \cup {None}, conn : BOOLEAN,
                              attempt : {0, 1}, at : {"idle", "busy"}]]
  BY <1>2, <1>3, Carrying
<1>5. \A v \in Worker : Carries(v)' => Carries(v) /\ worker'[v].req = worker[v].req
  BY <1>2, <1>3, Carrying
<1>6. PoolTyped' BY <1>0, <1>2, <1>4 DEF PoolTyped
<1>7. Stopped' BY <1>0, <1>1 DEF Stopped
<1>8. \A i : Writes(i)' <=> Writes(i) BY <1>0 DEF Writes
<1>9. CASE UNCHANGED stored
  <2>1. Ends' BY <1>0, <1>9 DEF Ends, Good, Older
  <2>2. OnDisk' BY <1>0, <1>9 DEF OnDisk, OnItsWay, Good, Older
  <2>3. \A x : OnItsWay(x) => OnItsWay(x)' BY <1>0, <1>9 DEF OnItsWay, Good, Older
  <2>4. ASSUME NEW i, Writes(i)' PROVE OnItsWay(queue[i].snap)'
    <3>1. PICK x : x = queue[i].snap OBVIOUS
    <3>2. OnItsWay(x)' BY <1>8, <2>3, <2>4, <3>1 DEF InPool
    <3> QED BY <1>0, <3>1, <3>2 DEF OnItsWay, Good, Older
  <2>5. ASSUME NEW v \in Worker, Carries(v)'
        PROVE  /\ OnItsWay(worker[v].req.snap)'
               /\ \A i : Writes(i)' => Older(worker[v].req.snap, queue[i].snap)'
    <3>1. PICK x : x = worker[v].req.snap OBVIOUS
    <3>2. x = worker'[v].req.snap /\ Carries(v) BY <1>5, <2>5, <3>1
    <3>3. OnItsWay(x)' BY <2>3, <3>1, <3>2 DEF InPool
    <3>4. \A i : Writes(i)' => Older(x, queue[i].snap) BY <1>8, <3>1, <3>2 DEF InPool
    <3> QED BY <1>0, <3>2, <3>3, <3>4 DEF OnItsWay, Good, Older
  <2>6. InPool' BY <1>0, <1>5, <1>8, <2>4, <2>5 DEF InPool
  <2> QED BY <1>0, <1>6, <1>7, <1>9, <2>1, <2>2, <2>6
<1>10. CASE stored' # stored
  <2>0. worker[w].at = "busy" BY DEF Connect, execute_request
  <2>1. Carries(w) /\ stored' = worker[w].req.snap
    BY <1>10, <2>0 DEF Connect, execute_request, Effect, Carries
  <2>2. PICK x : x = stored' OBVIOUS
  <2>3. OnItsWay(x) BY <2>1, <2>2 DEF InPool
  <2>4. setup.backend = "pgsql" BY <2>1 DEF InPool
  <2>5. Worker = {w} BY <2>4 DEF SingleWriter, Ends
  <2>6. Store!Next
    <3>1. x.ver <= newest.ver /\ (x.ver = newest.ver => x.recs = newest.recs)
      BY <2>3 DEF OnItsWay, Older, Ends
    <3>2. stored.ver < x.ver BY <1>10, <2>2, <2>3 DEF OnItsWay, Older
    <3> QED BY <1>0, <2>2, <3>1, <3>2 DEF Store!Next, Store!Store
  <2>7. Ends' BY <1>0, <2>2, <2>3 DEF Ends, OnItsWay, Good, Older
  <2>8. OnDisk' BY <1>0, <2>4 DEF OnDisk, NoWriter
  <2>9. ASSUME NEW y, OnItsWay(y), Older(x, y) PROVE OnItsWay(y)'
    BY <1>0, <2>2, <2>9 DEF OnItsWay, Good, Older
  <2>10. ASSUME NEW i, Writes(i)' PROVE OnItsWay(queue[i].snap)'
    <3>1. PICK y : y = queue[i].snap OBVIOUS
    <3>2. OnItsWay(y) /\ Older(x, y) BY <1>8, <2>1, <2>2, <2>10, <3>1 DEF InPool
    <3>3. OnItsWay(y)' BY <2>9, <3>2
    <3> QED BY <1>0, <3>1, <3>3 DEF OnItsWay, Good, Older
  <2>11. ASSUME NEW v \in Worker, Carries(v)'
         PROVE  /\ OnItsWay(worker[v].req.snap)'
                /\ \A i : Writes(i)' => Older(worker[v].req.snap, queue[i].snap)'
    <3>1. x = worker'[v].req.snap BY <1>5, <2>1, <2>2, <2>5, <2>11
    <3>2. OnItsWay(x)' BY <2>3, <2>9 DEF Older
    <3>3. \A i : Writes(i)' => Older(x, queue[i].snap) BY <1>8, <2>1, <2>2 DEF InPool
    <3> QED BY <1>0, <3>1, <3>2, <3>3 DEF OnItsWay, Good, Older
  <2>12. InPool' BY <1>0, <1>8, <2>4, <2>10, <2>11 DEF InPool
  <2> QED BY <1>6, <1>7, <2>6, <2>7, <2>8, <2>12
<1> QED BY <1>9, <1>10

\* A query joins the queue or is refused; it carries no snapshot.
LEMMA DispatchStep ==
    ASSUME SInv, NEW q \in Queries, Dispatch(q)
    PROVE  SInv' /\ UNCHANGED <<up, setup, mem, newest, stored, legacy>>
<1> USE DEF SInv
<1>0. UNCHANGED <<setup, up, mem, newest, stored, writer, legacy, worker>>
  BY DEF Dispatch, queryOnly, core
<1>1. up BY DEF Dispatch
<1>2. PICK req : req = [kind |-> "query", id |-> q, snap |-> None] OBVIOUS
<1>3. queue' = queue \/ queue' \in {submit(req).q, redis_submit(req).q} BY <1>2 DEF Dispatch
<1>4. PICK S : /\ queue \in Seq(S)
               /\ worker \in [Worker -> [req : S \cup {None}, conn : BOOLEAN,
                                         attempt : {0, 1}, at : {"idle", "busy"}]]
  BY DEF PoolTyped
<1>5. queue' \in Seq(S \cup {req})
      /\ \A i : Writes(i)' => Writes(i) /\ queue'[i] = queue[i]
  <2>1. CASE queue' = queue BY <1>4, <2>1 DEF Writes
  <2>2. CASE queue' \in {submit(req).q, redis_submit(req).q}
    <3>1. req.kind # "rows" BY <1>2
    <3>2. \A i, j : Writes(i) /\ Writes(j) => i = j BY DEF InPool
    <3>5. queue' = queue \/ queue' = Append(queue, req) BY <2>2, <3>1 DEF submit, redis_submit
    <3>3. queue' \in Seq(S \cup {req})
      <4>1. queue \in Seq(S \cup {req}) BY <1>4
      <4>2. Append(queue, req) \in Seq(S \cup {req}) BY <4>1
      <4> QED BY <3>5, <4>1, <4>2
    <3>4. \A i : i \in DOMAIN queue' /\ queue'[i].kind = "rows" => Writes(i) /\ queue'[i] = queue[i]
      BY <1>4, <2>2, <3>1, <3>2, Submitted
    <3> QED BY <3>3, <3>4 DEF Writes
  <2> QED BY <1>3, <2>1, <2>2
<1>6. PoolTyped'
  <2>1. worker' \in [Worker -> [req : (S \cup {req}) \cup {None}, conn : BOOLEAN,
                                attempt : {0, 1}, at : {"idle", "busy"}]] BY <1>0, <1>4
  <2> QED BY <1>5, <2>1 DEF PoolTyped
<1>7. Ends' /\ Stopped' BY <1>0, <1>1 DEF Ends, Stopped, Good, Older
<1>8. OnDisk' BY <1>0 DEF OnDisk, OnItsWay, Good, Older
<1>9. InPool'
  <2>1. \A x : OnItsWay(x) => OnItsWay(x)' BY <1>0 DEF OnItsWay, Good, Older
  <2>2. ASSUME NEW i, Writes(i)' PROVE OnItsWay(queue[i].snap)'
    <3>1. PICK x : x = queue[i].snap OBVIOUS
    <3>2. OnItsWay(x)' /\ x = queue'[i].snap BY <1>5, <2>1, <2>2, <3>1 DEF InPool
    <3> QED BY <3>2 DEF OnItsWay, Good, Older
  <2>3. ASSUME NEW v \in Worker, Carries(v)'
        PROVE  /\ OnItsWay(worker[v].req.snap)'
               /\ \A i : Writes(i)' => Older(worker[v].req.snap, queue[i].snap)'
    <3>1. PICK x : x = worker[v].req.snap OBVIOUS
    <3>2. x = worker'[v].req.snap /\ Carries(v) BY <1>0, <2>3, <3>1 DEF Carries
    <3>3. OnItsWay(x)' BY <2>1, <3>1, <3>2 DEF InPool
    <3>4. \A i : Writes(i)' => Older(x, queue'[i].snap) BY <1>5, <3>1, <3>2 DEF InPool
    <3> QED BY <3>2, <3>3, <3>4 DEF OnItsWay, Good, Older
  <2> QED BY <1>0, <1>5, <2>2, <2>3 DEF InPool, Carries
<1> QED BY <1>0, <1>6, <1>7, <1>8, <1>9

\* A crash leaves nothing on the way.
LEMMA CrashStep == ASSUME SInv, Crash PROVE SInv' /\ Store!Next
<1> USE DEF SInv
<1>1. Store!Next BY DEF Crash, Store!Crash, Store!Next
<1>2. Ends' BY DEF Crash, Ends, Good, Older
<1>3. OnDisk' BY DEF Crash, OnDisk, NoWriter
<1>4. PoolTyped'
  <2>1. queue' \in Seq({}) BY DEF Crash
  <2>2. worker' \in [Worker -> [req : {} \cup {None}, conn : BOOLEAN, attempt : {0, 1},
                                at : {"idle", "busy"}]] BY DEF Crash, Idle
  <2> QED BY <2>1, <2>2 DEF PoolTyped
<1>5. InPool' BY DEF Crash, InPool, Writes, Carries, Idle
<1>6. Stopped' BY DEF Crash, Stopped, Idle
<1> QED BY <1>1, <1>2, <1>3, <1>4, <1>5, <1>6

\* What is read at a restart is what was stored, or the file of before, without the
\* bans that ran out; it is the next snapshot.
LEMMA RestartStep == ASSUME SInv, Restart PROVE SInv' /\ Store!Next
<1> USE DEF SInv
<1> DEFINE rows == IF store_rows_load = "stored" THEN stored.recs ELSE legacy
           m    == Load(setup.store, rows)
           d    == Dump(setup.store, m)
           void == IF setup.store = "xlines"
                   THEN {r \in stored.recs \cup legacy : RanOut(r)} ELSE {}
<1>0. UNCHANGED <<setup, stored, legacy, writer, worker>> BY DEF Restart
<1>1. mem' = m /\ ~up /\ up' BY DEF Restart, store_load_or_seed
<1>2. PICK sn : sn = [ver |-> newest.ver + 1, recs |-> d] OBVIOUS
<1>3. newest' = sn BY <1>2 DEF Restart, store_load_or_seed
<1>4. Good(rows) BY DEF Ends
<1>5. d = rows \ void
  <2>1. PICK m0 : rows = Dump(setup.store, m0) BY <1>4 DEF Good
  <2>2. d = IF setup.store = "xlines" THEN {r \in rows : ~RanOut(r)} ELSE rows
    BY <2>1, DumpLoad
  <2>3. rows \subseteq stored.recs \cup legacy OBVIOUS
  <2> HIDE DEF d, rows
  <2> QED BY <2>2, <2>3
<1>6. d = Dump(setup.store, mem)' BY <1>0, <1>1
<1>7. store_rows_load # "stored" => stored.recs = {} \/ ~dbup BY DEF store_rows_load
<1>8. rows = stored.recs \/ (rows = legacy /\ (stored.recs = {} \/ ~dbup)) BY <1>7
<1>9. Good(d) BY DEF Good
<1> HIDE DEF d, rows, m
<1>10. Store!Restart
  <2>1. newest' = [ver |-> newest.ver + 1, recs |-> Dump(setup.store, mem)'] BY <1>2, <1>3, <1>6
  <2>2. Dump(setup.store, mem)' = rows \ void BY <1>5, <1>6
  <2>3. \/ Dump(setup.store, mem)' = stored.recs \ void
        \/ (stored.recs = {} \/ ~dbup) /\ Dump(setup.store, mem)' = legacy \ void
    BY <1>8, <2>2
  <2> QED BY <1>0, <1>1, <2>1, <2>3 DEF Store!Restart
<1>11. Store!Next BY <1>0, <1>10 DEF Store!Next
<1>12. sn.ver = newest.ver + 1 /\ sn.recs = d BY <1>2
<1>13. sn.ver \in Nat /\ Older(stored, sn) BY <1>12 DEF Ends, Older
<1>14. Ends' BY <1>0, <1>3, <1>12, <1>13 DEF Ends, Good, Older
<1>15. OnDisk' BY <1>0, <1>1 DEF OnDisk, Stopped, NoWriter
<1>16. Stopped' BY <1>1 DEF Stopped
<1>17. OnItsWay(sn)' BY <1>0, <1>3, <1>9, <1>12, <1>13 DEF OnItsWay, Good, Older
<1>18. \A w \in Worker : ~Carries(w)' BY <1>0, <1>1 DEF Stopped, Carries
<1>19. queue = <<>> BY <1>1 DEF Stopped
<1>20. PICK req : req = [kind |-> "rows", id |-> None, snap |-> sn] OBVIOUS
<1>21. queue' = <<>> \/ (queue' = <<req>> /\ setup.backend = "pgsql")
  BY <1>2, <1>19, <1>20 DEF Restart, store_rows_load, d, m, rows, store_load_or_seed
<1>22. PoolTyped'
  <2>1. PICK S : worker \in [Worker -> [req : S \cup {None}, conn : BOOLEAN,
                                        attempt : {0, 1}, at : {"idle", "busy"}]]
    BY DEF PoolTyped
  <2>2. <<>> \in Seq(S \cup {req}) /\ <<req>> \in Seq(S \cup {req}) OBVIOUS
  <2>4. queue' \in Seq(S \cup {req}) BY <1>21, <2>2, Zenon
  <2>3. worker' \in [Worker -> [req : (S \cup {req}) \cup {None}, conn : BOOLEAN,
                                attempt : {0, 1}, at : {"idle", "busy"}]] BY <1>0, <2>1
  <2> QED BY <2>3, <2>4 DEF PoolTyped
<1>23. InPool'
  <2>1. CASE queue' = <<>> BY <1>18, <2>1 DEF InPool, Writes
  <2>2. CASE queue' = <<req>> /\ setup.backend = "pgsql"
    <3>1. \A i : Writes(i)' => i = 1 BY <2>2 DEF Writes
    <3>2. queue'[1].snap = sn BY <1>20, <2>2
    <3>3. ASSUME NEW i, Writes(i)' PROVE OnItsWay(queue[i].snap)'
      BY <1>17, <3>1, <3>2, <3>3 DEF OnItsWay, Good, Older
    <3> QED BY <1>0, <1>18, <2>2, <3>1, <3>3 DEF InPool
  <2> QED BY <1>21, <2>1, <2>2
<1> QED BY <1>11, <1>14, <1>15, <1>16, <1>22, <1>23

\* Results, the database going down and up, and stuttering steps.
LEMMA OtherSteps ==
    ASSUME SInv, on_result \/ DatabaseDown \/ DatabaseUp \/ UNCHANGED vars
    PROVE  SInv' /\ UNCHANGED <<up, setup, mem, newest, stored, legacy>>
<1> USE DEF SInv
<1>0. UNCHANGED <<setup, up, mem, newest, stored, writer, legacy, worker, queue>>
  BY DEF on_result, queryOnly, DatabaseDown, DatabaseUp, vars, core, dbv
<1>1. Ends' BY <1>0 DEF Ends, Good, Older
<1>2. OnDisk' BY <1>0 DEF OnDisk, OnItsWay, Good, Older
<1>3. PoolTyped' BY <1>0 DEF PoolTyped
<1>4. InPool' BY <1>0 DEF InPool, Writes, Carries, OnItsWay, Good, Older
<1>5. Stopped' BY <1>0 DEF Stopped
<1> QED BY <1>0, <1>1, <1>2, <1>3, <1>4, <1>5

\* Every step keeps the invariant and is a step of the abstract store or a stutter.
LEMMA NextSnapshots ==
    ASSUME SingleWriter, SInv, [Next]_vars
    PROVE  SInv' /\ (Store!Next \/ UNCHANGED <<up, setup, mem, newest, stored, legacy>>)
BY OwnerActions, DiskStep, TakeStep, WorkerStep, DispatchStep, CrashStep, RestartStep, OtherSteps
   DEF Next, Background

\* The server's stores implement the abstract one: whatever is written, lost, retried
\* or interrupted, disk_write, store_rows_replace and the pool leave one complete
\* snapshot in the file or the table, never an older one, and a restart starts from
\* it (from the file of before when the table is empty or cannot be reached).
THEOREM KeepsThem == SingleWriter => (Spec => KeepsSnapshots)
<1> SUFFICES ASSUME SingleWriter PROVE Spec => KeepsSnapshots OBVIOUS
<1>1. Init => Store!Init BY DEF Init, Store!Init
<1>2. SInv /\ [Next]_vars =>
        SInv' /\ [Store!Next]_<<up, Dump(setup.store, mem), newest, stored, legacy>>
  BY NextSnapshots
<1> QED BY <1>1, <1>2, InitSnapshots, PTL DEF Spec, KeepsSnapshots, Store!Spec
=============================================================================
