------------------------------ MODULE Storage ------------------------------
(***************************************************************************)
(* The records that outlive the process: read markers, channel metadata,   *)
(* reputation scores, permanent channels, bans and push subscriptions, the *)
(* thread that writes snapshot files, the PostgreSQL pool that replaces    *)
(* whole tables, and the Redis pool beside it, with crashes, restarts,     *)
(* failing writes and an unreachable database.  A behaviour follows one    *)
(* store (chosen in Init) through one back end.                            *)
(***************************************************************************)
EXTENDS Integers, Sequences, FiniteSets, TLC, Functions, SequencesExt, FiniteSetsExt

CONSTANTS
    None,        \* no snapshot, no request
    Setups,      \* what to follow: [store, backend, asks (the queries made)]
    Keys,        \* keys of records: markers, channels, addresses, masks, endpoints
    SessionKey,  \* the key of Keys that belongs to a connection, not to an account
    MaxN,        \* the largest value of a record (time stamp, score cap, revision)
    MaxClock,    \* the clock stops here
    MaxOps,      \* commands of clients and operators
    MaxCrash,    \* crashes
    MaxFault,    \* failures of the disk and of the database
    Queries,     \* queries that modules make with a callback
    QueueMax,    \* pgsql_queue_max, redis_queue_max
    Worker,      \* the workers of the pool (pgsql_pool, redis_pool)
    BumpEvery, ExpireEvery, SaveEvery, \* reputation intervals, in ticks
    ExpireRules  \* reputationexpire: [score, age] (score -1: any)

ASSUME StorageAssumption ==
    /\ SessionKey \in Keys
    /\ {MaxN, MaxClock, MaxOps, MaxCrash, MaxFault} \subseteq Nat
    /\ {QueueMax, BumpEvery, ExpireEvery, SaveEvery} \subseteq Nat \ {0}

VARIABLES
    setup,   \* the store and the back end of this behaviour
    up,      \* the process is running
    clock,   \* the time
    mem,     \* the store in memory: key -> record
    live,    \* the channels (keys) that exist, for metadata
    last,    \* permchannels: PermChannels.last, the text last handed to be written
    rep,     \* reputation: ticks since the last bump, expiry and save
    newest,  \* the last snapshot handed to be written (version and records)
    writer,  \* the disk writer: the pending map entry, the batch, the temporary file
    stored,  \* the snapshot file, or the table of the database
    legacy,  \* with the database: the records of the flat file it replaces
    queue,   \* the shared queue of the pool
    worker,  \* worker[w]: the request, the connection, the attempt
    pending, \* queries whose callback is registered
    results, \* results on their way to the core
    runs,    \* runs[q]: how often the callback of q was called
    dbup,    \* the database answers
    lost,    \* the newest snapshot was dropped, or an older file was loaded
    ops, crashes, faults

core == <<mem, live, last, rep>>
dbv  == <<queue, worker, pending, results, runs>>
vars == <<setup, up, clock, core, newest, writer, stored, legacy, dbv, dbup,
          lost, ops, crashes, faults>>

\* Only markers and metadata are also kept for connections.
StoreKeys == IF setup.store \in {"markread", "metadata"} THEN Keys ELSE Keys \ {SessionKey}

NoReps  == [bump |-> 0, expire |-> 0, save |-> 0]
Nothing == <<>>   \* a store without records

\* n is the time stamp, score, revision or key material; t the time a ban ends
\* (0: never) or an address was last seen; perm that a channel is +P.
Rec(n, t, p) == [n |-> n, t |-> t, perm |-> p]

Idle     == [req |-> None, conn |-> FALSE, attempt |-> 0, at |-> "idle"]
NoWriter == [map |-> None, batch |-> None, tmp |-> None]

Fault == faults < MaxFault /\ faults' = faults + 1

\* --- the rows or lines that are written, and what is read back -------------

\* A row of a table or a line of a file is a tuple that starts with the key.
RowOf(rows, k)      == CHOOSE r \in rows : r[1] = k
KeysOf(rows)        == {r[1] : r \in rows}

\* Markers of a session (~uid) are never durable.
dump_markers(m) == {<<k, m[k].n>> : k \in DOMAIN m \ {SessionKey}}
load_markers(rows) == [k \in KeysOf(rows) |-> Rec(RowOf(rows, k)[2], 0, FALSE)]

\* Only the entries of channels are written; a uid does not outlive the process.
dump_metadata(m) == {<<k, m[k].n>> : k \in DOMAIN m \ {SessionKey}}
load_metadata(rows) == [k \in KeysOf(rows) |-> Rec(RowOf(rows, k)[2], 0, FALSE)]

dump_reputation(m) == {<<k, m[k].n, m[k].t>> : k \in DOMAIN m}
load_reputation(rows) == [k \in KeysOf(rows) |-> Rec(RowOf(rows, k)[2], RowOf(rows, k)[3], FALSE)]

\* Permanent channels only, with modes, topic and untimed list entries.
serialize(m) == {<<k, m[k].n>> : k \in {c \in DOMAIN m : m[c].perm}}
\* A restored channel is permanent even if its mode string lost the P.
build(r) == Rec(r[2], 0, TRUE)
load_permchannels(rows) == [k \in KeysOf(rows) |-> build(RowOf(rows, k))]

dump_xlines(m) == {<<k, m[k].n, m[k].t>> : k \in DOMAIN m}
\* A ban that ran out is not reinstated, whatever the file or the row says.
RanOut(r) == r[3] # 0 /\ r[3] <= clock
load_xlines(rows) == LET left == {r \in rows : ~RanOut(r)} IN
                     [k \in KeysOf(left) |-> Rec(RowOf(left, k)[2], RowOf(left, k)[3], FALSE)]

dump_subs(m) == {<<k, m[k].n>> : k \in DOMAIN m}
load_subs(rows) == [k \in KeysOf(rows) |-> Rec(RowOf(rows, k)[2], 0, FALSE)]

Dump(s, m) == CASE s = "markread"     -> dump_markers(m)
                [] s = "metadata"     -> dump_metadata(m)
                [] s = "reputation"   -> dump_reputation(m)
                [] s = "permchannels" -> serialize(m)
                [] s = "xlines"       -> dump_xlines(m)
                [] s = "webpush"      -> dump_subs(m)
                [] OTHER              -> {}

Load(s, rows) == CASE s = "markread"     -> load_markers(rows)
                   [] s = "metadata"     -> load_metadata(rows)
                   [] s = "reputation"   -> load_reputation(rows)
                   [] s = "permchannels" -> load_permchannels(rows)
                   [] s = "xlines"       -> load_xlines(rows)
                   [] s = "webpush"      -> load_subs(rows)
                   [] OTHER              -> Nothing

\* --- handing a snapshot over ----------------------------------------------

\* The snapshot of m; equal to the one before when nothing in it changed.
Snap(m) == LET d == Dump(setup.store, m) IN
           IF d = newest.recs THEN newest ELSE [ver |-> newest.ver + 1, recs |-> d]

\* Newest content wins: one pending snapshot per path.
disk_write(sn) == /\ writer' = [writer EXCEPT !.map = sn]
                  /\ lost' = FALSE
                  /\ UNCHANGED queue

\* A write takes the place of the unwritten one for its store; anything else is
\* refused when the queue is full.
submit(req) ==
    LET same == {i \in DOMAIN queue : req.kind = "rows" /\ queue[i].kind = "rows"} IN
    IF same # {} THEN [ok |-> TRUE, q |-> [queue EXCEPT ![Min(same)] = req]]
    ELSE IF Len(queue) >= QueueMax THEN [ok |-> FALSE, q |-> queue]
    ELSE [ok |-> TRUE, q |-> Append(queue, req)]

\* The Redis queue has nothing to supersede.
redis_submit(req) == IF Len(queue) >= QueueMax THEN [ok |-> FALSE, q |-> queue]
                     ELSE [ok |-> TRUE, q |-> Append(queue, req)]

store_rows_replace(sn) == LET r == submit([kind |-> "rows", id |-> None, snap |-> sn]) IN
    /\ queue' = r.q
    /\ lost' = ~r.ok
    /\ UNCHANGED writer

\* Each module's save: rows of its table with the database, else the text of its file.
Save(m) == /\ newest' = Snap(m)
           /\ \/ setup.backend = "pgsql" /\ store_rows_replace(Snap(m))
              \/ setup.backend = "file"  /\ disk_write(Snap(m))

NoSave == UNCHANGED <<newest, writer, queue, lost>>

Owned(s) == /\ up /\ setup.store = s
            /\ UNCHANGED <<setup, up, stored, legacy, worker, pending, results,
                           runs, dbup, crashes, faults>>
Command(s) == UNCHANGED clock /\ Owned(s) /\ ops < MaxOps /\ ops' = ops + 1

Set(k, r)  == mem' = (k :> r) @@ mem
Forget(ks) == mem' = Restrict(mem, DOMAIN mem \ ks)
Has(k)     == k \in DOMAIN mem
Value(k)   == IF Has(k) THEN mem[k].n ELSE 0

\* --- read markers -----------------------------------------------------------

\* MARKREAD with a time stamp: markers only advance, account markers are saved.
MarkRead(k, n) ==
    /\ Command("markread")
    /\ Set(k, Rec(IF n > Value(k) THEN n ELSE Value(k), 0, FALSE))
    /\ IF k # SessionKey THEN Save(mem') ELSE NoSave
    /\ UNCHANGED <<live, last, rep>>

\* --- channel and user metadata ---------------------------------------------

\* METADATA SET (n = 0: without a value, which deletes) by someone who may.
MetadataSet(k, n) ==
    /\ Command("metadata")
    /\ k # SessionKey => k \in live
    /\ IF n = 0 THEN Forget({k}) ELSE Set(k, Rec(n, 0, FALSE))
    /\ IF k # SessionKey THEN Save(mem') ELSE NoSave
    /\ UNCHANGED <<live, last, rep>>

MetadataClear(k) ==
    /\ Command("metadata")
    /\ k # SessionKey => k \in live
    /\ Forget({k})
    /\ IF k # SessionKey THEN Save(mem') ELSE NoSave
    /\ UNCHANGED <<live, last, rep>>

\* A key pushed onto a local user over a link.
apply_user(n) ==
    /\ Command("metadata")
    /\ IF n = 0 THEN Forget({SessionKey}) ELSE Set(SessionKey, Rec(n, 0, FALSE))
    /\ NoSave
    /\ UNCHANGED <<live, last, rep>>

\* on_user_quit of both modules: the entries of the connection go.
on_user_quit(s) ==
    /\ Owned(s) /\ Has(SessionKey)
    /\ Forget({SessionKey}) /\ NoSave
    /\ UNCHANGED <<clock, live, last, rep, ops>>

\* Channels come and go.
ChannelMove(k) ==
    /\ Command("metadata") /\ k # SessionKey
    /\ live' = IF k \in live THEN live \ {k} ELSE live \cup {k}
    /\ NoSave /\ UNCHANGED <<mem, last, rep>>

\* Metadata of channels that are gone is freed.
MetadataTick ==
    LET orphans == (DOMAIN mem \ {SessionKey}) \ live IN
    /\ IF orphans = {} THEN mem' = mem /\ NoSave
       ELSE Forget(orphans) /\ Save(mem')
    /\ UNCHANGED <<live, last, rep>>

\* --- reputation -------------------------------------------------------------

Capped(n) == IF n > MaxN THEN MaxN ELSE n

\* Every registered user in an active channel lifts the score of its address;
\* amt[k] is 2 for a logged in user, 1 for another, 0 for no user there.
bump_scores(m, amt) ==
    LET seen == {k \in DOMAIN amt : amt[k] > 0} IN
    [k \in seen |-> Rec(Capped((IF k \in DOMAIN m THEN m[k].n ELSE 0) + amt[k]), clock', FALSE)]
        @@ m

\* An address unseen for longer than its rule allows loses its score.
expire_old(m) == Restrict(m, {k \in DOMAIN m : ~\E r \in ExpireRules :
                                  /\ clock' - m[k].t > r.age
                                  /\ r.score = -1 \/ m[k].n <= r.score})

\* Mutant: a tick that only bumped scores is not saved, nor is there a backstop.
ReputationTick_dirty ==
    LET bump   == rep.bump + 1 >= BumpEvery
        expire == rep.expire + 1 >= ExpireEvery
    IN \E amt \in [StoreKeys -> 0 .. 2] :
         LET m1 == IF bump THEN bump_scores(mem, amt) ELSE mem
             m2 == IF expire THEN expire_old(m1) ELSE m1
         IN /\ mem' = m2
            /\ rep' = [bump |-> IF bump THEN 0 ELSE rep.bump + 1,
                       expire |-> IF expire THEN 0 ELSE rep.expire + 1, save |-> 0]
            /\ IF DOMAIN m2 # DOMAIN m1 THEN Save(m2) ELSE NoSave
            /\ UNCHANGED <<live, last>>

ReputationTick ==
    LET bump   == rep.bump + 1 >= BumpEvery
        expire == rep.expire + 1 >= ExpireEvery
    IN \E amt \in [StoreKeys -> 0 .. 2] :
         LET m1    == IF bump THEN bump_scores(mem, amt) ELSE mem
             m2    == IF expire THEN expire_old(m1) ELSE m1
             write == bump \/ DOMAIN m2 # DOMAIN m1 \/ rep.save + 1 >= SaveEvery
         IN /\ bump \/ amt = [k \in StoreKeys |-> 0]
            /\ mem' = m2
            /\ rep' = [bump   |-> IF bump THEN 0 ELSE rep.bump + 1,
                       expire |-> IF expire THEN 0 ELSE rep.expire + 1,
                       save   |-> IF write THEN 0 ELSE rep.save + 1]
            /\ IF write THEN Save(m2) ELSE NoSave
            /\ UNCHANGED <<live, last>>

\* REPUTATION <nick> <value> of an operator.
ReputationSet(k, n) ==
    /\ Command("reputation")
    /\ Set(k, Rec(Capped(n), clock, FALSE)) /\ Save(mem')
    /\ UNCHANGED <<live, last, rep>>

\* --- permanent channels -----------------------------------------------------

\* The text is compared with the one last handed over; the same text is not
\* written again.  The text counts as handed over even if the save is dropped.
flush(m) == IF serialize(m) = last THEN NoSave /\ last' = last
            ELSE Save(m) /\ last' = serialize(m)

\* A channel is created, changed or, not being permanent, gone.
ChannelChange(k) ==
    \/ \E n \in 1 .. MaxN, p \in BOOLEAN : Set(k, Rec(n, 0, p))
    \/ Has(k) /\ ~mem[k].perm /\ Forget({k})

\* MODE, SAMODE and TOPIC are followed by a flush, the S2S forms are not.
ChannelCommand(k) == /\ Command("permchannels") /\ Has(k)
                     /\ \E n \in 1 .. MaxN, p \in BOOLEAN : Set(k, Rec(n, 0, p))
                     /\ flush(mem')
                     /\ UNCHANGED <<live, rep>>
ChannelRemote(k)  == /\ Command("permchannels")
                     /\ ChannelChange(k)
                     /\ NoSave /\ UNCHANGED <<live, last, rep>>

\* --- bans -------------------------------------------------------------------

add_xline_at(k, n, duration) ==
    /\ Command("xlines")
    /\ Set(k, Rec(n, IF duration = 0 THEN 0 ELSE clock + duration, FALSE))
    /\ Save(mem')
    /\ UNCHANGED <<live, last, rep>>

remove_xline(k) ==
    /\ Command("xlines") /\ Has(k)
    /\ Forget({k}) /\ Save(mem')
    /\ UNCHANGED <<live, last, rep>>

purge_xlines ==
    LET gone == {k \in DOMAIN mem : mem[k].t # 0 /\ mem[k].t <= clock'} IN
    /\ IF gone = {} THEN mem' = mem /\ NoSave ELSE Forget(gone) /\ Save(mem')
    /\ UNCHANGED <<live, last, rep>>

\* --- push subscriptions -----------------------------------------------------

\* WEBPUSH REGISTER (n is the key material) and UNREGISTER.
PushRegister(k, n) == /\ Command("webpush")
                      /\ Set(k, Rec(n, 0, FALSE)) /\ Save(mem')
                      /\ UNCHANGED <<live, last, rep>>
PushUnregister(k)  == /\ Command("webpush")
                      /\ Forget({k}) /\ Save(mem')
                      /\ UNCHANGED <<live, last, rep>>

\* The stores whose records carry times.
Timed == setup.store \in {"reputation", "xlines"}

\* The timer: the modules' on_tick and the purge of bans.
Tick == /\ Owned(setup.store) /\ ops' = ops
        /\ clock' = IF Timed /\ clock < MaxClock THEN clock + 1 ELSE clock
        /\ CASE setup.store = "metadata"     -> MetadataTick
             [] setup.store = "reputation"   -> ReputationTick
             [] setup.store = "permchannels" -> mem' = mem /\ flush(mem) /\ UNCHANGED <<live, rep>>
             [] setup.store = "xlines"       -> purge_xlines
             [] OTHER                        -> NoSave /\ UNCHANGED core

\* --- the disk writer thread -------------------------------------------------

writerOnly == <<setup, up, clock, core, newest, legacy, dbv, dbup, ops, crashes>>

\* It takes what is pending and releases the lock before it writes.
WriterTake ==
    /\ writer.map # None /\ writer.batch = None
    /\ writer' = [writer EXCEPT !.map = None, !.batch = writer.map]
    /\ UNCHANGED <<writerOnly, stored, lost, faults>>

\* Mutant: the snapshot is written over the file itself.
WriteTemp_inplace ==
    /\ writer.batch # None /\ writer.tmp = None
    /\ writer' = [writer EXCEPT !.tmp = writer.batch]
    /\ stored' = [ver |-> writer.batch.ver, recs |-> {}]
    /\ UNCHANGED <<writerOnly, lost, faults>>

\* The snapshot goes to a temporary file; when that fails it is dropped.
WriteTemp ==
    /\ writer.batch # None /\ writer.tmp = None
    /\ \/ /\ writer' = [writer EXCEPT !.tmp = writer.batch]
          /\ UNCHANGED <<lost, faults>>
       \/ /\ Fault
          /\ writer' = [writer EXCEPT !.batch = None]
          /\ lost' = (lost \/ writer.batch.ver = newest.ver)
    /\ UNCHANGED <<writerOnly, stored>>

\* The rename is atomic.
Rename ==
    /\ writer.tmp # None
    /\ \/ stored' = writer.tmp /\ UNCHANGED <<lost, faults>>
       \/ Fault /\ stored' = stored /\ lost' = (lost \/ writer.tmp.ver = newest.ver)
    /\ writer' = [writer EXCEPT !.batch = None, !.tmp = None]
    /\ UNCHANGED writerOnly

\* --- the worker pool ---------------------------------------------------------

poolOnly == <<setup, up, clock, core, newest, writer, legacy, dbup, ops, crashes>>

Take(w) ==
    /\ worker[w].at = "idle" /\ queue # <<>>
    /\ worker' = [worker EXCEPT ![w].at = "busy", ![w].req = Head(queue), ![w].attempt = 0]
    /\ queue' = Tail(queue)
    /\ UNCHANGED <<poolOnly, stored, pending, results, runs, lost, faults>>

\* The outcome of the request goes to the core (which only logs that of a write);
\* conn is what is left of the connection.
Finish(w, conn) ==
    /\ worker' = [worker EXCEPT ![w] = [Idle EXCEPT !.conn = conn]]
    /\ results' = IF worker[w].req.id = None THEN results ELSE Append(results, worker[w].req.id)

\* Mutant: a query that panics takes its worker along.
Panic_silent(w) == /\ worker' = [worker EXCEPT ![w] = Idle] /\ results' = results
\* A panicking query is turned into an error result, the connection is given up.
Panic(w) == Finish(w, FALSE)

Missed(w, st) == worker[w].req.kind = "rows" /\ worker[w].req.snap.ver = newest.ver
                 /\ st.ver # newest.ver

\* PgConn::connect fails the request; Redis tries once more.
redis_retries(w) == setup.backend = "redis" /\ worker[w].attempt = 0

Connect(w) ==
    /\ worker[w].at = "busy" /\ ~worker[w].conn
    /\ \/ /\ dbup
          /\ worker' = [worker EXCEPT ![w].conn = TRUE]
          /\ UNCHANGED <<results, lost, faults>>
       \/ /\ IF dbup THEN Fault ELSE faults' = faults
          /\ IF redis_retries(w)
             THEN worker' = [worker EXCEPT ![w].attempt = 1] /\ UNCHANGED <<results, lost>>
             ELSE Finish(w, FALSE) /\ lost' = (lost \/ Missed(w, stored))
    /\ UNCHANGED <<poolOnly, stored, queue, pending, runs>>

\* What the request does to the database, in one transaction.
Effect(w) == IF worker[w].req.kind = "rows" THEN worker[w].req.snap ELSE stored

\* A transport error may come before or after the statement took effect; the
\* first one is answered by a new connection and a second attempt.
execute_request(w) ==
    /\ worker[w].at = "busy" /\ worker[w].conn
    /\ \/ /\ dbup /\ stored' = Effect(w) /\ Finish(w, TRUE) /\ faults' = faults
       \/ /\ dbup /\ Fault /\ stored' = stored /\ Finish(w, TRUE)
       \/ /\ IF dbup THEN Fault ELSE faults' = faults
          /\ stored' \in IF dbup THEN {stored, Effect(w)} ELSE {stored}
          /\ IF worker[w].attempt = 0
             THEN /\ worker' = [worker EXCEPT ![w].attempt = 1, ![w].conn = FALSE]
                  /\ results' = results
             ELSE Finish(w, TRUE)
       \/ /\ dbup /\ Fault /\ stored' \in {stored, Effect(w)} /\ Panic(w)
    /\ lost' = (lost \/ (worker'[w].at = "idle" /\ Missed(w, stored')))
    /\ UNCHANGED <<poolOnly, queue, pending, runs>>

\* --- queries with a callback -------------------------------------------------

queryOnly == <<setup, up, clock, core, newest, writer, stored, legacy, worker,
               dbup, lost, ops, crashes, faults>>

\* Mutant: a refused query gets its error but stays registered.
Refused_registered(q) == pending' = pending \cup {q} /\ runs' = [runs EXCEPT ![q] = 1]
\* A refused query gets its error at once.
Refused(q) == pending' = pending /\ runs' = [runs EXCEPT ![q] = 1]

\* dispatch: the callback is registered and the request submitted; without a
\* database, or with a full queue, the callback gets its error at once.
Dispatch(q) ==
    LET req == [kind |-> "query", id |-> q, snap |-> None]
        r   == IF setup.backend = "redis" THEN redis_submit(req) ELSE submit(req)
    IN
    /\ up /\ q \in setup.asks /\ runs[q] = -1
    /\ IF setup.backend = "file" \/ ~r.ok
       THEN Refused(q) /\ queue' = queue
       ELSE /\ pending' = pending \cup {q}
            /\ runs' = [runs EXCEPT ![q] = 0]
            /\ queue' = r.q
    /\ UNCHANGED <<queryOnly, results>>

\* Event::SqlResult, Event::RedisResult: the callback is taken and called.
on_result ==
    /\ up /\ results # <<>>
    /\ results' = Tail(results)
    /\ pending' = pending \ {Head(results)}
    /\ runs' = IF Head(results) \in pending THEN [runs EXCEPT ![Head(results)] = @ + 1] ELSE runs
    /\ UNCHANGED <<queryOnly, queue>>

\* --- crash, restart and the database itself -------------------------------------

Crash ==
    /\ up /\ crashes < MaxCrash
    /\ up' = FALSE /\ crashes' = crashes + 1
    /\ mem' = Nothing /\ live' = {} /\ last' = {} /\ rep' = NoReps
    /\ writer' = NoWriter /\ queue' = <<>> /\ worker' = [w \in Worker |-> Idle]
    /\ pending' = {} /\ results' = <<>>
    /\ runs' = [q \in Queries |-> IF runs[q] = 0 THEN -1 ELSE runs[q]]
    /\ UNCHANGED <<setup, clock, newest, stored, legacy, dbup, lost, ops, faults>>

\* What store_rows_load finds: an empty table is filled from the file that came
\* before it, and a database that does not answer leaves that file.
store_rows_load == IF setup.backend # "pgsql" THEN "stored"
                   ELSE IF ~dbup THEN "file"
                   ELSE IF stored.recs = {} THEN "seed"
                   ELSE "stored"

\* The text of before: the blob in the database is a copy of the file, made when
\* it is first read.
store_load_or_seed == legacy

Restart ==
    LET from == store_rows_load
        m    == Load(setup.store, IF from = "stored" THEN stored.recs ELSE store_load_or_seed)
        d    == Dump(setup.store, m)
        sn   == [ver |-> newest.ver + 1, recs |-> d]
    IN /\ ~up /\ up' = TRUE
       /\ mem' = m /\ newest' = sn
       /\ IF from = "seed" /\ ~(d = {} /\ setup.store \in {"markread", "webpush"})
          THEN queue' = <<[kind |-> "rows", id |-> None, snap |-> sn]>> /\ lost' = FALSE
          ELSE queue' = queue /\ lost' = (from = "file")
       /\ UNCHANGED <<setup, clock, live, last, rep, writer, stored, legacy, worker,
                      pending, results, runs, dbup, ops, crashes, faults>>

DatabaseDown == /\ setup.backend # "file" /\ dbup /\ Fault /\ dbup' = FALSE
                /\ UNCHANGED <<setup, up, clock, core, newest, writer, stored, legacy, dbv,
                               lost, ops, crashes>>
DatabaseUp   == /\ ~dbup /\ dbup' = TRUE
                /\ UNCHANGED <<setup, up, clock, core, newest, writer, stored, legacy, dbv,
                               lost, ops, crashes, faults>>

\* --- the specification ------------------------------------------------------------

\* A store that was never written, or one with one record for every lasting key.
Rows0 == {{}, Dump(setup.store, [k \in Keys \ {SessionKey} |-> Rec(1, 0, TRUE)])}

Init ==
    /\ setup \in Setups
    /\ stored \in [ver : {0}, recs : Rows0]
    /\ legacy \in IF setup.backend = "pgsql" THEN Rows0 ELSE {{}}
    /\ up = FALSE /\ clock = 0 /\ mem = Nothing /\ live = {} /\ last = {} /\ rep = NoReps
    /\ newest = [ver |-> 0, recs |-> {}]
    /\ writer = NoWriter /\ queue = <<>> /\ worker = [w \in Worker |-> Idle]
    /\ pending = {} /\ results = <<>> /\ runs = [q \in Queries |-> -1]
    /\ dbup = TRUE /\ lost = FALSE /\ ops = 0 /\ crashes = 0 /\ faults = 0

Request ==
    \E k \in StoreKeys :
        \/ \E n \in 1 .. MaxN : \/ MarkRead(k, n) \/ MetadataSet(k, n - 1)
                                \/ ReputationSet(k, n) \/ PushRegister(k, n)
                                \/ apply_user(n - 1)
                                \/ \E d \in 0 .. 1 : add_xline_at(k, n, d)
        \/ MetadataClear(k) \/ ChannelMove(k) \/ ChannelCommand(k) \/ ChannelRemote(k)
        \/ remove_xline(k) \/ PushUnregister(k)

Background ==
    \/ WriterTake \/ WriteTemp \/ Rename
    \/ \E w \in Worker : Take(w) \/ Connect(w) \/ execute_request(w)
    \/ on_result

Next ==
    \/ Request \/ Tick \/ Background
    \/ on_user_quit("markread") \/ on_user_quit("metadata")
    \/ \E q \in Queries : Dispatch(q)
    \/ Crash \/ Restart \/ DatabaseDown \/ DatabaseUp

\* Threads run, the timer fires, the operator starts the process again and the
\* database comes back.
Fairness == /\ WF_vars(Tick) /\ WF_vars(on_result)
            /\ WF_vars(WriterTake) /\ WF_vars(WriteTemp) /\ WF_vars(Rename)
            /\ \A w \in Worker : WF_vars(Take(w) \/ Connect(w) \/ execute_request(w))
            /\ WF_vars(Restart) /\ WF_vars(DatabaseUp)

Spec == Init /\ [][Next]_vars /\ Fairness

\* --- properties -----------------------------------------------------------------

TypeOK ==
    /\ setup \in Setups /\ {up, dbup, lost} \subseteq BOOLEAN
    /\ DOMAIN mem \subseteq Keys /\ live \subseteq Keys
    /\ Len(queue) <= QueueMax /\ pending \subseteq Queries
    /\ clock <= MaxClock

Store == INSTANCE SnapshotStore
            WITH records   <- Dump(setup.store, mem),
                 fallback  <- legacy,
                 void      <- IF setup.store = "xlines"
                              THEN {r \in stored.recs \cup legacy : RanOut(r)} ELSE {},
                 reachable <- dbup

\* Whatever crashes and fails, the file or the table always holds one complete
\* snapshot, never steps back to an older one, and is what a restart starts from.
KeepsSnapshots == Store!Spec

\* The callback of every query is registered exactly while it waits, and is
\* called once: by its result, or at once when the query is refused.
CallbackOnce == \A q \in Queries : /\ runs[q] \in {-1, 0, 1}
                                   /\ (runs[q] = 0) <=> (q \in pending)

\* Every query is answered, whatever the connection and the worker go through.
QueriesAnswered == []<>(~up \/ pending = {})

Agree == Dump(setup.store, mem) = {r \in stored.recs : setup.store = "xlines" => ~RanOut(r)}

\* The last permanent channel went before anything was handed over since the
\* start: the empty text equals `last`, and no flush ever writes it.
NeverFlushed == setup.store = "permchannels" /\ last = {} /\ serialize(mem) = {}

\* A change reaches the disk or the database, unless its own snapshot was dropped
\* on the way (reputation, saved again and again, recovers even from that) or the
\* last permanent channel was gone before the first save after a start
\* (NeverFlushed; permchannels.rs:1-7 promises the timer as a backstop).
ChangesReachStore ==
    []<>(\/ ~up \/ Agree \/ NeverFlushed
         \/ lost /\ setup.store # "reputation")

\* A permanent channel that is gone does not stay behind in the stored set, from
\* which a restart would bring it back.
NoStaleChannel == []<>(~up \/ Agree \/ lost \/ setup.store # "permchannels")
=============================================================================
