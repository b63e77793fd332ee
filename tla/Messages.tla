------------------------------ MODULE Messages ------------------------------
(***************************************************************************)
(* Messages and presence on one server: PRIVMSG, NOTICE and TAGMSG with    *)
(* the module hooks and the channel and user modes that stop them,         *)
(* multi-line batches, the history that CHATHISTORY and +H replay,         *)
(* REDACT, the ACCEPT, SILENCE, SIGNORE and DCCALLOW lists, and WATCH and  *)
(* MONITOR.  The core handles one line at a time.  A text is the set of    *)
(* the features that some gate tells apart.                                *)
(* (coremods/core_message.rs, core_watch.rs, watch.rs, ircd.rs,            *)
(* modules/chathistory.rs, multiline.rs, event_playback.rs, relaymsg.rs,   *)
(* flood.rs, filter.rs, blockamsg.rs, restrictmsg.rs, masshighlight.rs,    *)
(* dccallow.rs, solvemsg.rs, targetlimit.rs, antimixedutf8.rs)             *)
(***************************************************************************)
EXTENDS Integers, Sequences, FiniteSets, SequencesExt, FiniteSetsExt

CONSTANTS
    User, Nick, Chan, None,
    Oper, LoggedIn, Secure,   \* users that are operators, have an account, use TLS
    Echo, Playback,           \* clients with echo-message, with draft/event-playback
    HistoryLimit,             \* chathistory_limit
    MaxAge,                   \* chathistory_maxage
    Replayed,                 \* +H: the lines a joining user is shown
    MaxWatch, MaxAccept, MaxSilence,      \* the limits of the lists
    MaxLines,                 \* multiline_maxlines
    FloodMax, Window,         \* flood_messages; the seconds of every rate
    Fakelag,                  \* the connection class throttles (or disconnects) flooders
    SlowCount, FloodLines,    \* +W, +f
    Repeats,                  \* +K: lines remembered
    TargetDelay, TargetMax,   \* targetlimit
    FilterKills,              \* the spam filter's action: kill, or block
    MaxMsgs, MaxNow,          \* bounds: messages and ticks of a behaviour
    MaxCount, MaxTimes,       \* bounds: a count of acceptors, the lines of a flooder
    Setups                    \* what a run plays: see Setup below

Feature == {"ctcp", "action", "dcc", "e2e", "answer", "colour", "word", "spam", "names", "caps"}
Lists   == {"watch", "monitor"}
Text    == SUBSET Feature

ASSUME MessagesAssumption ==
    /\ IsFiniteSet(User) /\ IsFiniteSet(Nick) /\ IsFiniteSet(Chan)
    /\ None \notin User \cup Nick \cup Chan /\ Nick \cap Chan = {}
    /\ Oper \cup LoggedIn \cup Secure \cup Echo \cup Playback \subseteq User
    /\ {Fakelag, FilterKills} \subseteq BOOLEAN
    /\ \A n \in {HistoryLimit, MaxAge, Replayed, MaxWatch, MaxAccept, MaxSilence, MaxLines,
                 FloodMax, Window, SlowCount, FloodLines, Repeats, TargetDelay, TargetMax,
                 MaxMsgs, MaxNow, MaxCount, MaxTimes} : n \in Nat
    /\ \A s \in Setups :
          /\ s.online \in [User -> Nick \cup {None}]
          /\ s.targets \subseteq Nick \cup Chan /\ s.texts \subseteq Text
          /\ \A u, v \in User : u # v /\ s.online[u] # None => s.online[u] # s.online[v]

VARIABLES users,    \* users[u]: the User record of a connection
          rooms,    \* rooms[<<c, u>>]: the Member record of u in c, or None
          index,    \* nick_index, accepted_nicks, watch_by and monitor_by
          history,  \* the conversations that can be replayed
          batches,  \* the multi-line batch each user has open, or None
          clock,    \* seconds
          log,      \* history: log[i] says what the message with the id i was
          shown,    \* history: who was shown which message, and whether it was redacted by then
          told,     \* history: the last WATCH or MONITOR answer about a nick
          setup     \* the commands, hooks and modes in play (fixed)

vars == <<users, rooms, index, history, batches, clock, log, shown, told, setup>>

\* A setup: the commands that are played and by whom, where to and what texts
\* are sent, the hooks that are configured, the modes of the channels and of
\* the users, the users that a +b and a +b m: match, the +X entries, and who
\* is online and in a channel at the start.
Setup == [moves : SUBSET (STRING \X (User \cup {None})), targets : SUBSET (Nick \cup Chan),
          texts : SUBSET Text, hooks : SUBSET STRING,
          modes : SUBSET STRING, umodes : [User -> SUBSET STRING], banned : SUBSET User,
          muted : SUBSET User, exempt : SUBSET (STRING \X Nat),
          online : [User -> Nick \cup {None}], inside : [Chan \X User -> 0..3 \cup {None}]]

RANK_VOICE  == 1
RANK_HALFOP == 2
RANK_OP     == 3

\* The key of a channel and of the conversation of two nicks.
ChanKey(c)   == {c}
dm_key(a, b) == {a, b}
Key == {ChanKey(c) : c \in Chan} \cup {dm_key(a, b) : a \in Nick, b \in Nick}

\* A user as the table of connections holds it.  An entry of the ACCEPT list
\* carries, as history, the user it was meant for (None: nobody had the nick);
\* hushed is history as well: the client sends nothing more of its own accord.
NewUser == [phase |-> "out", nick |-> None, quitting |-> FALSE, accept |-> <<>>,
            watch |-> {}, monitor |-> {}, silence |-> {}, signore |-> {}, dcc |-> {},
            solved |-> "no", times |-> <<>>, targets |-> <<>>, credit |-> 0, last |-> None,
            floods |-> [c \in Chan |-> <<>>], hushed |-> FALSE]

NewMember(now, r) == [rank |-> r, joined |-> now, slow |-> <<>>, recent |-> <<>>]

\* The whole state a handler works on; the actions put it back in the variables.
State == [users |-> users, rooms |-> rooms, index |-> index, history |-> history,
          batches |-> batches, now |-> clock, log |-> log, shown |-> shown, told |-> told]

\* (A line that changes nothing is no step.)
Becomes(Result) ==
    \E S \in {Result} :
        /\ S # State /\ Len(S.log) <= MaxMsgs
        /\ \A n \in Nick : S.index.accepted[n] <= MaxCount
        /\ \A u \in User : Len(S.users[u].times) <= MaxTimes
        /\ users' = S.users /\ rooms' = S.rooms /\ index' = S.index
        /\ history' = S.history /\ batches' = S.batches /\ clock' = S.now
        /\ log' = S.log /\ shown' = S.shown /\ told' = S.told
        /\ UNCHANGED setup

\* Several gates in a row: each may change the state and may stop the line.
Go(S)   == [go |-> TRUE, S |-> S]
Stop(S) == [go |-> FALSE, S |-> S]
Unless(bad, S)   == IF bad THEN Stop(S) ELSE Go(S)
Then(v, gate(_)) == IF v.go THEN gate(v.S) ELSE v

Put(S, u, f, v) == [S EXCEPT !.users[u][f] = v]
PutMember(S, c, u, f, v) == [S EXCEPT !.rooms[<<c, u>>][f] = v]
PutIndex(S, t, x, v) == [S EXCEPT !.index[t][x] = v]

SatSub(a, b) == IF a > b THEN a - b ELSE 0
Recent(S, times) == SelectSeq(times, LAMBDA t : S.now - t < Window)

\* The elements of s that are in K, in their order.
KeepIf(a, e, K) == IF e \in K THEN Append(a, e) ELSE a
Kept(s, K) == FoldLeft(LAMBDA a, e : KeepIf(a, e, K), <<>>, s)

-----------------------------------------------------------------------------
(* Lookups                                                                  *)

Connected(S, u)  == S.users[u].phase # "out"
Registered(S, u) == S.users[u].phase = "in"
NickOf(S, u)     == S.users[u].nick
find_nick(S, n)  == S.index.nick[n]
is_member(S, u, c) == S.rooms[<<c, u>>] # None
MembersOf(S, c)  == {u \in User : is_member(S, u, c)}
Joined(S, u)     == {c \in Chan : is_member(S, u, c)}
rank(S, u, c)    == IF is_member(S, u, c) THEN S.rooms[<<c, u>>].rank ELSE 0
Has(m)           == m \in setup.modes
Umode(u, m)      == m \in setup.umodes[u]
Hook(h)          == h \in setup.hooks

\* +X: the rank that is exempt from a restriction.
chanop_exempt(S, u, c, r) == \E e \in setup.exempt : e[1] = r /\ rank(S, u, c) >= e[2]

is_accepted(S, t, n) == \E i \in DOMAIN S.users[t].accept : S.users[t].accept[i].nick = n
is_silenced(S, t, n) == n \in S.users[t].silence
signore_one_way(S, by, who) == NickOf(S, who) \in S.users[by].signore
signore_blocks(S, a, b) == signore_one_way(S, a, b) \/ signore_one_way(S, b, a)

-----------------------------------------------------------------------------
(* What clients are shown, and the history                                  *)

\* Redacted and audience are history: who could see an ops-only message when
\* it was sent, and whom a link brought it to.
LogEntry(k, u, ops, see) == [to |-> k, from |-> u, ops |-> ops, see |-> see,
                             reached |-> {}, redacted |-> FALSE]

\* next_msgid: ids are counted from one.
next_msgid(S, e) == [S EXCEPT !.log = Append(@, e)]
ThisId(S) == Len(S.log)

Show(S, ids, who) ==
    [S EXCEPT !.shown = @ \cup {<<w, i, S.log[i].redacted>> : w \in who, i \in ids}]

Capped(buf) == SubSeq(buf, SatSub(Len(buf), HistoryLimit) + 1, Len(buf))

Store(S, k, entry) ==
    [S EXCEPT !.history[k] = Capped(Append(S.history[k], entry))]

record(S, k, n) ==
    Store(S, k, [id |-> ThisId(S), from |-> n, event |-> FALSE, ts |-> S.now])

\* An event takes an id of its own and is kept for clients that replay events.
record_event(S, k, n) ==
    IF ~Hook("events") THEN S
    ELSE LET A == next_msgid(S, LogEntry(k, None, FALSE, {}))
         IN Store(A, k, [id |-> ThisId(A), from |-> n, event |-> TRUE, ts |-> A.now])

\* The events of a user in every channel it is in, and in each of some.
Recorded(S, cs, n) == FoldSet(LAMBDA c, T : record_event(T, ChanKey(c), n), S, cs)

forget(S, k, i) ==
    [S EXCEPT !.history[k] = Kept(S.history[k], {m \in Range(S.history[k]) : m.id # i})]

\* The entries a client may see, as message ids.
Playable(u, buf) ==
    {m.id : m \in {buf[i] : i \in {j \in DOMAIN buf : u \in Playback \/ ~buf[j].event}}}

\* Where a selector points: the position of a message id, or the first entry
\* not older than a time.  None: an unknown id, or the selector *.
At(buf, p(_)) == LET I == {i \in DOMAIN buf : p(buf[i])} IN IF I = {} THEN None ELSE Min(I) - 1
idx_of(buf, sel) ==
    CASE sel.kind = "msgid"     -> At(buf, LAMBDA m : m.id = sel.at)
      [] sel.kind = "timestamp" -> At(buf, LAMBDA m : m.ts >= sel.at)
      [] OTHER                  -> None

Or(x, y) == IF x = None THEN y ELSE x

\* The slice (counted from zero: skip `from`, take up to `to`) of a subcommand.
Slice(buf, sub, a, b, limit) ==
    LET n  == Len(buf)
        ia == idx_of(buf, a)
        later == IF a.kind = "msgid" THEN Or(ia, -1) + 1
                 ELSE IF a.kind = "timestamp" THEN Or(At(buf, LAMBDA m : m.ts > a.at), n)
                 ELSE 0
    IN CASE sub = "BEFORE" -> LET e == Or(ia, n) IN <<SatSub(e, limit), e>>
         [] sub = "AFTER"  -> <<later, Min({n, later + limit})>>
         [] sub = "AROUND" -> LET s == SatSub(Or(ia, n \div 2), limit \div 2)
                              IN <<s, Min({n, s + limit})>>
         [] sub = "BETWEEN" -> LET x == Or(ia, 0)
                                   y == Or(idx_of(buf, b), n)
                                   lo == Min({x, y}) + 1
                                   hi == Min({Max({x, y}), n})
                               IN <<lo, Min({hi, lo + limit})>>
         [] OTHER -> <<later + SatSub(SatSub(n, later), limit), n>>

Picked(buf, r) == IF r[1] < r[2] THEN SubSeq(buf, r[1] + 1, r[2]) ELSE <<>>

\* +H: the last lines of the channel for a user who just joined.
replay_chanhistory(S, u, c) ==
    IF ~Has("H") THEN S
    ELSE LET all == S.history[ChanKey(c)]
             buf == Kept(all, {m \in Range(all) :
                                 S.now - m.ts <= Window /\ (u \in Playback \/ ~m.event)})
         IN Show(S, Playable(u, SubSeq(buf, SatSub(Len(buf), Replayed) + 1, Len(buf))), {u})

-----------------------------------------------------------------------------
(* WATCH, MONITOR and the ACCEPT list, with their reverse indexes           *)

\* What a query answers about a nick: a connection that has not registered
\* already holds its nick, and counts as online.
StatusOf(S, n) ==
    IF find_nick(S, n) = None THEN "off"
    ELSE IF Registered(S, find_nick(S, n)) THEN "on" ELSE "early"

Tell(S, asked, v(_)) ==
    [S EXCEPT !.told = [x \in DOMAIN S.told |-> IF x \in asked THEN v(x[3]) ELSE S.told[x]]]

Notify(S, n, v) ==
    Tell(S, {x \in Lists \X User \X {n} : x[2] \in S.index[x[1]][n]}, LAMBDA m : v)

watch_notify_online(S, n)  == IF find_nick(S, n) = None THEN S ELSE Notify(S, n, "on")
watch_notify_offline(S, n) == Notify(S, n, "off")

\* (mutant: the reverse index is not told)
index_add_half(S, l, u, n) == Put(S, u, l, S.users[u][l] \cup {n})

index_add(S, l, u, n) ==
    IF n \in S.users[u][l] THEN S
    ELSE PutIndex(Put(S, u, l, S.users[u][l] \cup {n}), l, n, S.index[l][n] \cup {u})

index_remove(S, l, u, n) ==
    IF n \notin S.users[u][l] THEN S
    ELSE PutIndex(Put(S, u, l, S.users[u][l] \ {n}), l, n, S.index[l][n] \ {u})

index_clear(S, l, u) ==
    [Put(S, u, l, {}) EXCEPT
        !.index[l] = [n \in Nick |-> S.index[l][n] \ (IF n \in S.users[u][l] THEN {u} ELSE {})]]

watch_index_add(S, u, n)      == index_add(S, "watch", u, n)
watch_index_remove(S, u, n)   == index_remove(S, "watch", u, n)
watch_index_clear(S, u)       == index_clear(S, "watch", u)
monitor_index_add(S, u, n)    == index_add(S, "monitor", u, n)
monitor_index_remove(S, u, n) == index_remove(S, "monitor", u, n)
monitor_index_clear(S, u)     == index_clear(S, "monitor", u)

Answer(S, l, u, nicks) == Tell(S, {l} \X {u} \X nicks, LAMBDA m : StatusOf(S, m))
ListFull(S, l, u, n) == Cardinality(S.users[u][l]) >= MaxWatch /\ n \notin S.users[u][l]

watch_add(S, u, n) ==
    IF ListFull(S, "watch", u, n) THEN S
    ELSE Answer(watch_index_add(S, u, n), "watch", u, {n})

accept_add(S, u, n) ==
    PutIndex(Put(S, u, "accept",
                 Append(S.users[u].accept, [nick |-> n, to |-> find_nick(S, n)])),
             "accepted", n, S.index.accepted[n] + 1)

Without(acc, n) == Kept(acc, {e \in Range(acc) : e.nick # n})

\* (Every entry of the name goes; the count is decremented once.)
accept_remove(S, u, n) ==
    IF ~is_accepted(S, u, n) THEN S
    ELSE PutIndex(Put(S, u, "accept", Without(S.users[u].accept, n)),
                  "accepted", n, SatSub(S.index.accepted[n], 1))

-----------------------------------------------------------------------------
(* A connection's life: nick, registration, end                             *)

\* u leaves the channels of cs.  A channel goes with its last member, and takes
\* the counts of +f along.
LeaveAll(S, u, cs) ==
    LET A == [S EXCEPT !.rooms = [x \in Chan \X User |->
                                    IF x[1] \in cs /\ x[2] = u THEN None ELSE S.rooms[x]]]
        Gone(c) == c \in cs /\ MembersOf(A, c) = {}
    IN [A EXCEPT !.users = [v \in User |-> [S.users[v] EXCEPT !.floods =
            [c \in Chan |-> IF Gone(c) THEN <<>> ELSE S.users[v].floods[c]]]]]

Leave(S, u, c) == LeaveAll(S, u, {c})

\* The entries of a user's ACCEPT list that name n.
Named(me, n) == {i \in DOMAIN me.accept : me.accept[i].nick = n}

\* A departed nick leaves every ACCEPT list; the count says whether to look.
Scrubbed(S, n) ==
    IF S.index.accepted[n] = 0 THEN S
    ELSE [PutIndex(S, "accepted", n, 0) EXCEPT
             !.users = [v \in User |-> [S.users[v] EXCEPT !.accept = Without(@, n)]]]

remove_user(S, u) ==
    LET me == S.users[u]
        A == [S EXCEPT !.index.accepted = [n \in Nick |-> SatSub(@[n], Cardinality(Named(me, n)))]]
        B == watch_index_clear(monitor_index_clear(A, u), u)
        C == [B EXCEPT !.users[u] = NewUser]
        D == IF me.nick = None THEN C
             ELSE Scrubbed(PutIndex(C, "nick", me.nick, None), me.nick)
    IN IF ~Connected(S, u) THEN S
       ELSE IF me.phase # "in" THEN D
       ELSE watch_notify_offline(LeaveAll(D, u, Joined(D, u)), me.nick)

\* quit_user: the modules hear of it while the user still exists.
quit_user(S, u) ==
    LET A == Recorded(S, Joined(S, u), NickOf(S, u))
    IN remove_user([A EXCEPT !.batches[u] = None], u)

\* (mutant: the count stays with the old nick)
Renamed_uncounted(S, old, new) ==
    [S EXCEPT !.users = [v \in User |-> [S.users[v] EXCEPT !.accept =
        [i \in DOMAIN @ |-> IF @[i].nick = old THEN [@[i] EXCEPT !.nick = new] ELSE @[i]]]]]

\* An accepted user who takes another nick stays accepted under the new one.
Renamed(S, old, new) ==
    LET Move(acc) == [i \in DOMAIN acc |->
                        IF acc[i].nick = old THEN [acc[i] EXCEPT !.nick = new] ELSE acc[i]]
        A == [S EXCEPT !.users = [v \in User |-> [S.users[v] EXCEPT !.accept = Move(@)]]]
    IN PutIndex(PutIndex(A, "accepted", old, 0),
                "accepted", new, A.index.accepted[new] + A.index.accepted[old])

set_nick(S, u, new) ==
    LET old == NickOf(S, u)
        A == IF old = None THEN S ELSE PutIndex(S, "nick", old, None)
        B == Put(PutIndex(A, "nick", new, u), u, "nick", new)
        C == IF old = None THEN B ELSE Renamed(B, old, new)
        D == Recorded(C, Joined(C, u), old)
    IN IF Registered(S, u)
       THEN watch_notify_online(watch_notify_offline(D, old), new)
       ELSE C

\* welcome: the user is registered and its watchers are told.
welcome(S, u) == watch_notify_online(Put(S, u, "phase", "in"), NickOf(S, u))

-----------------------------------------------------------------------------
(* The modules' hooks: any of them may stop a PRIVMSG or NOTICE             *)

\* flood: without fake lag the flooder is marked to quit; the line is denied,
\* so that the mark is acted on after a later line.
flood(S, u) ==
    LET times == Append(Recent(S, S.users[u].times), S.now)
        A == Put(S, u, "times", times)
    IN IF ~Hook("flood") \/ u \in Oper THEN Go(S)
       ELSE IF Len(times) <= FloodMax THEN Go(A)
       ELSE Stop(IF Fakelag THEN A ELSE Put(A, u, "quitting", TRUE))

AntiMixedUtf8(S, u, x) ==
    Unless(Hook("antimixedutf8") /\ u \notin Oper \cup LoggedIn /\ "spam" \in x, S)

Filter(S, u, x) ==
    IF Hook("filter") /\ "spam" \in x
    THEN Stop(IF FilterKills THEN remove_user(S, u) ELSE S) ELSE Go(S)

\* Only operators and bots can be reached, unless an operator writes.
RestrictMsg(S, u, n) ==
    Unless(/\ Hook("restrictmsg") /\ n \in Nick /\ u \notin Oper
           /\ find_nick(S, n) \notin Oper \cup {None}, S)

\* The same text to another channel within the window; killopers, the default,
\* removes the sender.  (Lists of targets reach nobody: deliver takes one.)
BlockAmsg(S, u, c, x) ==
    LET prev == S.users[u].last
        A == Put(S, u, "last", [text |-> x, to |-> c, at |-> S.now])
    IN IF ~Hook("blockamsg") \/ u \in Oper \/ c \notin Chan THEN Go(S)
       ELSE IF prev # None /\ prev.text = x /\ prev.to # c /\ S.now - prev.at <= Window
       THEN Stop(remove_user(A, u)) ELSE Go(A)

MassHighlight(S, u, c, x) ==
    Unless(/\ Hook("masshighlight") /\ c \in Chan /\ u \notin Oper
           /\ rank(S, u, c) < RANK_OP /\ "names" \in x, S)

DccAllow(S, u, n, x) ==
    LET t == IF n \in Nick THEN find_nick(S, n) ELSE None
    IN Unless(/\ Hook("dccallow") /\ "dcc" \in x /\ t \notin {None, u}
              /\ NickOf(S, u) \notin S.users[t].dcc, S)

\* A user nobody vouches for answers a question before a private message.
SolveMsg(S, u, n, x) ==
    LET t == IF n \in Nick THEN find_nick(S, n) ELSE None
    IN IF \/ ~Hook("solvemsg") \/ u \in Oper \cup LoggedIn \/ t \in {None, u}
          \/ S.users[u].solved = "yes"
       THEN Go(S)
       ELSE Stop(Put(S, u, "solved",
                     IF S.users[u].solved = "asked" /\ "answer" \in x THEN "yes" ELSE "asked"))

\* A token bucket: a new target costs TargetDelay, a recent one is free.
TargetLimit(S, u, t) ==
    LET me == S.users[u]
        old == SelectSeq(me.targets, LAMBDA y : y # t)
        credit == Max({me.credit, SatSub(S.now, TargetDelay * (TargetMax - 1))})
        A == Put(S, u, "targets", SubSeq(<<t>> \o old, 1, Min({TargetMax, Len(old) + 1})))
    IN IF ~Hook("targetlimit") \/ u \in Oper THEN Go(S)
       ELSE IF t \in Range(me.targets) THEN Go(A)
       ELSE IF credit > S.now THEN Stop(S)
       ELSE Go(Put(A, u, "credit", credit + TargetDelay))

\* The hooks in the order of the modules (blockamsg gates the command before
\* them): the first one that denies ends the line.
PreMessage(S, u, t, x) ==
    LET a == BlockAmsg(S, u, t, x)
        b == Then(a, LAMBDA T : flood(T, u))
        c == Then(b, LAMBDA T : AntiMixedUtf8(T, u, x))
        d == Then(c, LAMBDA T : Filter(T, u, x))
        e == Then(d, LAMBDA T : RestrictMsg(T, u, t))
        f == Then(e, LAMBDA T : MassHighlight(T, u, t, x))
        g == Then(f, LAMBDA T : DccAllow(T, u, t, x))
        h == Then(g, LAMBDA T : SolveMsg(T, u, t, x))
    IN Then(h, LAMBDA T : TargetLimit(T, u, t))

-----------------------------------------------------------------------------
(* A message to a channel                                                   *)

is_ctcp(x)        == "ctcp" \in x /\ "action" \notin x
has_formatting(x) == "colour" \in x
strip_formatting(x) == x \ {"colour"}
apply_censor(x)   == x \ {"word"}

OpOnly(S, u, c) == Has("U") /\ rank(S, u, c) < RANK_VOICE

\* The gates before the rates: membership, +n and +b, +E, +m (which +U
\* overrides), +M, +d.
Admitted(S, u, c, x) ==
    LET low == rank(S, u, c) < RANK_VOICE
        Applies(m, r) == Has(m) /\ low /\ ~chanop_exempt(S, u, c, r)
    IN Unless(\/ MembersOf(S, c) = {}
              \/ ~is_member(S, u, c) /\ (Has("n") \/ u \in setup.banned)
              \/ Has("E") /\ "e2e" \notin x
              \/ Applies("m", "moderated") /\ ~OpOnly(S, u, c)
              \/ Applies("M", "regmoderated") /\ u \notin LoggedIn
              \/ /\ Applies("d", "delaymsg") /\ is_member(S, u, c)
                 /\ S.now - S.rooms[<<c, u>>].joined < Window, S)

slowmode(S, u, c) ==
    LET hits == Recent(S, S.rooms[<<c, u>>].slow)
    IN IF \/ ~Has("W") \/ rank(S, u, c) >= RANK_VOICE \/ ~is_member(S, u, c)
          \/ chanop_exempt(S, u, c, "slowmode")
       THEN Go(S)
       ELSE IF Len(hits) >= SlowCount THEN Stop(PutMember(S, c, u, "slow", hits))
       ELSE Go(PutMember(S, c, u, "slow", Append(hits, S.now)))

Muted(S, u, c) == Unless(u \in setup.muted /\ rank(S, u, c) < RANK_VOICE, S)

\* flood_kick: the Part hook follows (a sender outside the channel is counted
\* and `kicked' as well).
flood_kick(S, u, c) == record_event(Leave(S, u, c), ChanKey(c), NickOf(S, u))

messageflood_hit(S, u, c) ==
    LET hits == Append(Recent(S, S.users[u].floods[c]), S.now)
        Keep(h) == Put(S, u, "floods", [S.users[u].floods EXCEPT ![c] = h])
    IN IF \/ ~Has("f") \/ u \in Oper \/ rank(S, u, c) >= RANK_HALFOP
          \/ chanop_exempt(S, u, c, "flood")
       THEN Go(S)
       ELSE IF Len(hits) > FloodLines THEN Stop(flood_kick(Keep(<<>>), u, c))
       ELSE Go(Keep(hits))

\* What the text itself is refused for: +T, +C, +c, +g, +G, +B.
Content(S, u, c, x, notice) ==
    LET Applies(m, r) == Has(m) /\ ~chanop_exempt(S, u, c, r)
    IN Unless(\/ notice /\ Applies("T", "nonotice")
              \/ Applies("C", "noctcp") /\ is_ctcp(x)
              \/ Applies("c", "blockcolor") /\ has_formatting(x)
              \/ Applies("g", "filter") /\ "word" \in x
              \/ /\ Applies("B", "anticaps") /\ "caps" \in x /\ ~Has("E")
                 /\ u \notin Oper /\ rank(S, u, c) < RANK_HALFOP, S)

\* +S and +G change the text that goes out (a replacement is configured).
Body(S, u, c, x) ==
    LET y == IF Has("S") /\ ~chanop_exempt(S, u, c, "stripcolor") THEN strip_formatting(x) ELSE x
    IN IF Has("G") /\ ~Has("E") /\ ~chanop_exempt(S, u, c, "censor") THEN apply_censor(y) ELSE y

repeat(S, u, c, body) ==
    LET old == S.rooms[<<c, u>>].recent
    IN IF \/ ~Has("K") \/ rank(S, u, c) >= RANK_HALFOP \/ ~is_member(S, u, c)
          \/ chanop_exempt(S, u, c, "repeat")
       THEN Go(S)
       ELSE IF body \in Range(old) THEN Stop(S)
       ELSE Go(PutMember(S, c, u, "recent",
                         SubSeq(Append(old, body), SatSub(Len(old) + 1, Repeats) + 1,
                                Len(old) + 1)))

Deaf(S, u, m) == Umode(m, "D") /\ u \notin Oper

\* to_channel_tagged: everybody but the sender, the deaf, those who ignore or
\* are ignored and, for an ops-only message, those below half-op.
Audience(S, u, c, ops) ==
    {m \in MembersOf(S, c) \ {u} :
        /\ ~Deaf(S, u, m) /\ ~signore_blocks(S, u, m)
        /\ ops => rank(S, m, c) >= RANK_HALFOP}

HalfOps(S, c) == {m \in MembersOf(S, c) : rank(S, m, c) >= RANK_HALFOP}

\* (mutant: an ops-only message is recorded like any other)
Publish_recorded(S, u, c) ==
    LET ops == OpOnly(S, u, c)
        A == next_msgid(S, LogEntry(ChanKey(c), u, ops, HalfOps(S, c)))
    IN Show(record(A, ChanKey(c), NickOf(S, u)), {ThisId(A)},
            Audience(S, u, c, ops) \cup ({u} \cap Echo))

\* The line goes to the linked servers too, ops-only or not: see
\* link_message_recv for what they do with it.
Publish(S, u, c) ==
    LET ops == OpOnly(S, u, c)
        A == next_msgid(S, LogEntry(ChanKey(c), u, ops, HalfOps(S, c)))
        B == IF ops THEN A ELSE record(A, ChanKey(c), NickOf(S, u))
    IN Show(B, {ThisId(B)}, Audience(S, u, c, ops) \cup ({u} \cap Echo))

\* The gates of deliver in their order, each one with its early return.
ChannelGates(S, u, c, x, notice) ==
    LET a == Admitted(S, u, c, x)
        b == Then(a, LAMBDA T : slowmode(T, u, c))
        d == Then(b, LAMBDA T : Muted(T, u, c))
        e == Then(d, LAMBDA T : messageflood_hit(T, u, c))
        f == Then(e, LAMBDA T : Content(T, u, c, x, notice))
    IN Then(f, LAMBDA T : repeat(T, u, c, Body(T, u, c, x)))

deliver_channel(S, u, c, x, notice) ==
    LET v == ChannelGates(S, u, c, x, notice)
    IN IF v.go THEN Publish(v.S, u, c) ELSE v.S

-----------------------------------------------------------------------------
(* A message to a user                                                      *)

Common(S, u, t) == Joined(S, u) \cap Joined(S, t) # {}

\* The modes +c, +R, +z of the recipient.
Closed(S, u, t) ==
    \/ Umode(t, "c") /\ u # t /\ u \notin Oper /\ ~Common(S, u, t)
    \/ Umode(t, "R") /\ u \notin LoggedIn
    \/ Umode(t, "z") /\ u \notin Secure

CallerIdBlocks(S, u, t) ==
    Umode(t, "g") /\ u # t /\ u \notin Oper /\ ~is_accepted(S, t, NickOf(S, u))

\* A sender with +g accepts whomever it writes to.
AutoAccept(S, u, t) ==
    IF /\ Umode(u, "g") /\ Len(S.users[u].accept) < MaxAccept
       /\ ~is_accepted(S, u, NickOf(S, t))
    THEN accept_add(S, u, NickOf(S, t)) ELSE S

deliver_user(S, u, n, x) ==
    LET t == find_nick(S, n)
        silenced == is_silenced(S, t, NickOf(S, u)) \/ signore_blocks(S, u, t)
        A == next_msgid(S, LogEntry(dm_key(NickOf(S, u), n), u, FALSE, {}))
        B == IF silenced THEN A
             ELSE Show(record(A, dm_key(NickOf(S, u), n), NickOf(S, u)), {ThisId(A)}, {t})
    IN IF \/ t = None \/ Closed(S, u, t)
          \/ is_ctcp(x) /\ u # t /\ Umode(t, "T") /\ u \notin Oper
          \/ CallerIdBlocks(S, u, t)
       THEN S
       ELSE AutoAccept(Show(B, {ThisId(B)}, {u} \cap Echo), u, t)

deliver(S, u, t, x, notice) ==
    IF ~Connected(S, u) THEN S
    ELSE IF t \in Chan THEN deliver_channel(S, u, t, x, notice) ELSE deliver_user(S, u, t, x)

\* TAGMSG: a private one meets the same modes and SILENCE, one to a channel
\* membership, +m and the mute.
dm_blocked(S, u, t) ==
    u # t /\ (Closed(S, u, t) \/ CallerIdBlocks(S, u, t) \/ is_silenced(S, t, NickOf(S, u)))

TagMsg(S, u, t) ==
    LET A == next_msgid(S, LogEntry({t}, u, FALSE, {}))
        to == find_nick(S, t)
    IN IF t \in Chan
       THEN IF \/ ~is_member(S, u, t)
               \/ rank(S, u, t) < RANK_VOICE /\ (Has("m") \/ u \in setup.muted)
            THEN A
            ELSE Show(A, {ThisId(A)},
                      {m \in MembersOf(S, t) : (m = u => u \in Echo) /\ ~Deaf(S, u, m)})
       ELSE IF to = None \/ dm_blocked(S, u, to) THEN A
       ELSE Show(A, {ThisId(A)}, {to} \cup ({u} \cap Echo))

-----------------------------------------------------------------------------
(* Multi-line batches                                                       *)

accumulate(S, u, x, concat, notice) ==
    LET b == S.batches[u]
        c == IF Len(b.parts) < MaxLines
             THEN [b EXCEPT !.parts = Append(@, [text |-> x, concat |-> concat]),
                            !.notice = notice]
             ELSE [b EXCEPT !.overflowed = TRUE]
    IN [S EXCEPT !.batches[u] = c]

\* A part joined to the one before it: what counts is how a text begins, what
\* it contains, and whether it is mostly capitals.
Joins(x, y) == (x \cap {"ctcp", "action", "dcc", "e2e"})
                  \cup ((x \cup y) \cap {"colour", "word", "spam", "names"})
                  \cup (x \cap y \cap {"caps"})

LogicalLines(parts) ==
    FoldLeft(LAMBDA ls, p : IF p.concat /\ ls # <<>>
                            THEN [ls EXCEPT ![Len(ls)] = Joins(@, p.text)]
                            ELSE Append(ls, p.text), <<>>, parts)

\* close, and the delivery of each line: the hooks do not see them.
close(S, u) ==
    LET b == S.batches[u]
        A == [S EXCEPT !.batches[u] = None]
    IN IF b.overflowed THEN A
       ELSE FoldLeft(LAMBDA T, x : deliver(T, u, b.target, x, b.notice), A, LogicalLines(b.parts))

-----------------------------------------------------------------------------
(* The lines a client sends.  After a handled line the core acts on a mark  *)
(* to quit; a line that a hook denied ends before that.                     *)

\* (mutant: the mark is never acted on)
Handled_only(S, u) == S

Handled(S, u) == IF S.users[u].quitting THEN quit_user(S, u) ELSE S

Plays(m, u) == <<m, u>> \in setup.moves
Sends(m, u) == Plays(m, u) /\ ~users[u].hushed
Speaks(m, u) == Sends(m, u) /\ Registered(State, u)
Readable(u) == {ChanKey(c) : c \in Joined(State, u)} \cup {dm_key(NickOf(State, u), n) : n \in Nick}

Connect(u) ==
    /\ Plays("connect", u) /\ ~Connected(State, u)
    /\ Becomes(Put(State, u, "phase", "new"))

\* NICK: refused when somebody holds the nick.
Nick_handle(u, n) ==
    /\ Sends("nick", u) /\ Connected(State, u) /\ find_nick(State, n) = None
    /\ Becomes(Handled(set_nick(State, u, n), u))

Register(u) ==
    /\ Plays("connect", u) /\ users[u].phase = "new" /\ NickOf(State, u) # None
    /\ Becomes(welcome(State, u))

Quit(u) ==
    /\ Plays("quit", u) /\ Connected(State, u)
    /\ Becomes(quit_user(State, u))

\* A marked client stops sending.
Hush(u) ==
    /\ users[u].quitting /\ ~users[u].hushed
    /\ Becomes(Put(State, u, "hushed", TRUE))

\* idle_check asks a connection for a PONG once it is idle (any line it sends,
\* a denied one too, makes it active again): either it answers, or it is
\* removed for not answering.
Pong(u) ==
    /\ users[u].quitting /\ users[u].hushed
    /\ Becomes(Handled(State, u))

Say(u, t, x, notice) ==
    /\ Sends("say", u) /\ Connected(State, u) /\ x \in setup.texts
    /\ LET v == PreMessage(State, u, t, x)
       IN Becomes(IF ~v.go \/ ~Registered(v.S, u) THEN v.S
                  ELSE Handled(deliver(v.S, u, t, x, notice), u))

Tag(u, t) ==
    /\ Speaks("tag", u)
    /\ Becomes(Handled(TagMsg(State, u, t), u))

Open(u, t) ==
    /\ Speaks("batch", u)
    /\ Becomes(Handled([State EXCEPT !.batches[u] =
                  [target |-> t, notice |-> FALSE, parts |-> <<>>, overflowed |-> FALSE]], u))

BatchLine(u, x, concat, notice) ==
    /\ Speaks("batch", u) /\ batches[u] # None /\ x \in setup.texts
    /\ Becomes(accumulate(State, u, x, concat, notice))

Close(u) ==
    /\ Speaks("batch", u) /\ batches[u] # None
    /\ Becomes(LET A == close(State, u) IN IF Connected(A, u) THEN Handled(A, u) ELSE A)

\* RELAYMSG: an operator speaks for a user of another network.
RelayMsg(u, c) ==
    /\ Speaks("relay", u) /\ u \in Oper /\ is_member(State, u, c)
    /\ LET A == next_msgid(State, LogEntry(ChanKey(c), u, FALSE, {}))
       IN Becomes(Show(A, {ThisId(A)}, MembersOf(A, c)))

\* A user enters a channel (the gates are those of Channels): the first one
\* is its operator; +H replays before the join is recorded.
Join(u, c) ==
    /\ Speaks("join", u) /\ ~is_member(State, u, c)
    /\ LET A == [State EXCEPT !.rooms[<<c, u>>] =
                    NewMember(clock, IF MembersOf(State, c) = {} THEN RANK_OP ELSE 0)]
       IN Becomes(Handled(record_event(replay_chanhistory(A, u, c), ChanKey(c), NickOf(A, u)), u))

Part(u, c) ==
    /\ Speaks("part", u) /\ is_member(State, u, c)
    /\ Becomes(Handled(record_event(Leave(State, u, c), ChanKey(c), NickOf(State, u)), u))

\* MODE +v, +h, +o and their opposites.
Rerank(u, c, r) ==
    /\ Plays("mode", u) /\ is_member(State, u, c)
    /\ Becomes(record_event(PutMember(State, c, u, "rank", r), ChanKey(c), None))

\* CHATHISTORY: of a channel for its members, of a conversation with a nick
\* for whoever holds the other one.
ChatHistory(u, k, sub, a, b, limit) ==
    /\ Speaks("history", u)
    /\ LET buf == history[k]
           ids == Playable(u, Picked(buf, Slice(buf, sub, a, b, limit)))
       IN k \in Readable(u) /\ Becomes(Handled(Show(State, ids, {u}), u))

MarkRedacted(S, i) == [S EXCEPT !.log[i].redacted = TRUE]

\* REDACT: by the author's nick, a half-op or an operator.
Redact(u, c, i) ==
    /\ Speaks("redact", u)
    /\ \E j \in DOMAIN history[ChanKey(c)] :
          LET m == history[ChanKey(c)][j]
          IN /\ m.id = i
             /\ m.from = NickOf(State, u) \/ rank(State, u, c) >= RANK_HALFOP \/ u \in Oper
    /\ Becomes(Handled(MarkRedacted(forget(State, ChanKey(c), i), i), u))

\* Lines from linked servers: a message reaches every member that is not deaf
\* (and is not recorded), or the addressed user; REDACT removes any message.
\* What the sender's server kept for the ops of a +U channel comes like any
\* other message, and nothing in the line says so.
link_message_recv(t, ops) ==
    /\ Plays("remote", None) /\ (ops => t \in Chan /\ Has("U"))
    /\ LET to == IF t \in Chan THEN {m \in MembersOf(State, t) : ~Umode(m, "D")}
                 ELSE {find_nick(State, t)} \ {None}
           see == IF ops THEN HalfOps(State, t) ELSE {}
           A == next_msgid(State, [LogEntry({t}, None, ops, see) EXCEPT !.reached = to])
       IN to # {} /\ Becomes(Show(A, {ThisId(A)}, to))

link_redact(c, i) ==
    /\ Plays("remote", None) /\ log[i].to = ChanKey(c)
    /\ Becomes(MarkRedacted(forget(State, ChanKey(c), i), i))

-----------------------------------------------------------------------------
(* The lists                                                                *)

Watch(u, n) ==
    /\ Speaks("watch", u)
    /\ Becomes(Handled(watch_add(State, u, n), u))

Unwatch(u, n) ==
    /\ Speaks("watch", u)
    /\ Becomes(Handled(watch_index_remove(State, u, n), u))

ClearWatch(u) ==
    /\ Speaks("watch", u)
    /\ Becomes(Handled(watch_index_clear(State, u), u))

\* MONITOR +: what is added, one by one, is then reported.
monitor_add(S, u, n) ==
    IF ListFull(S, "monitor", u, n) THEN S ELSE monitor_index_add(S, u, n)

Monitor(u, n, m) ==
    /\ Speaks("monitor", u)
    /\ LET A == monitor_add(monitor_add(State, u, n), u, m)
       IN Becomes(Handled(Answer(A, "monitor", u, {n, m} \cap A.users[u].monitor), u))

Unmonitor(u, n) ==
    /\ Speaks("monitor", u)
    /\ Becomes(Handled(monitor_index_remove(State, u, n), u))

ClearMonitor(u) ==
    /\ Speaks("monitor", u)
    /\ Becomes(Handled(monitor_index_clear(State, u), u))

\* WATCH L and MONITOR S: the whole list is reported.
Report(u, l) ==
    /\ Speaks(l, u)
    /\ Becomes(Handled(Answer(State, l, u, users[u][l]), u))

Accept(u, n) ==
    /\ Speaks("accept", u) /\ Len(users[u].accept) < MaxAccept /\ ~is_accepted(State, u, n)
    /\ Becomes(Handled(accept_add(State, u, n), u))

Unaccept(u, n) ==
    /\ Speaks("accept", u)
    /\ Becomes(Handled(accept_remove(State, u, n), u))

\* SILENCE and SIGNORE take masks; a bare nick stands for every user of it.
Silence(u, n) ==
    /\ Speaks("silence", u) /\ Cardinality(users[u].silence) < MaxSilence
    /\ Becomes(Handled(Put(State, u, "silence", users[u].silence \cup {n}), u))

Unsilence(u, n) ==
    /\ Speaks("silence", u)
    /\ Becomes(Handled(Put(State, u, "silence", users[u].silence \ {n}), u))

Signore(u, n) ==
    /\ Speaks("signore", u) /\ Cardinality(users[u].signore) < MaxSilence
    /\ Becomes(Handled(Put(State, u, "signore", users[u].signore \cup {n}), u))

Unsignore(u, n) ==
    /\ Speaks("signore", u)
    /\ Becomes(Handled(Put(State, u, "signore", users[u].signore \ {n}), u))

Dccallow(u, n) ==
    /\ Speaks("dcc", u) /\ Cardinality(users[u].dcc) < MaxSilence
    /\ Becomes(Handled(Put(State, u, "dcc", users[u].dcc \cup {n}), u))

Undccallow(u, n) ==
    /\ Speaks("dcc", u)
    /\ Becomes(Handled(Put(State, u, "dcc", users[u].dcc \ {n}), u))

\* A second passes: a conversation whose newest entry is too old is dropped.
on_tick ==
    /\ Plays("tick", None) /\ clock < MaxNow
    /\ LET Fresh(buf) == buf # <<>> /\ clock + 1 - Last(buf).ts < MaxAge
       IN Becomes([State EXCEPT !.now = @ + 1,
                     !.history = [k \in Key |-> IF Fresh(history[k]) THEN history[k] ELSE <<>>]])

-----------------------------------------------------------------------------
Sels == {[kind |-> "*", at |-> 0]}
            \cup [kind : {"msgid"}, at : 1..Len(log)] \cup [kind : {"timestamp"}, at : 1..clock]

Init ==
    /\ setup \in Setups
    /\ users = [u \in User |-> IF setup.online[u] = None THEN NewUser
                               ELSE [NewUser EXCEPT !.phase = "in", !.nick = setup.online[u]]]
    /\ rooms = [x \in Chan \X User |-> IF setup.inside[x] = None THEN None
                                      ELSE NewMember(0, setup.inside[x])]
    /\ index = [nick |-> [n \in Nick |-> IF \E u \in User : setup.online[u] = n
                                         THEN CHOOSE u \in User : setup.online[u] = n ELSE None],
                accepted |-> [n \in Nick |-> 0],
                watch |-> [n \in Nick |-> {}], monitor |-> [n \in Nick |-> {}]]
    /\ history = [k \in Key |-> <<>>]
    /\ batches = [u \in User |-> None]
    /\ clock = 1 /\ log = <<>> /\ shown = {}
    /\ told = [x \in Lists \X User \X Nick |-> "none"]

Next ==
    \/ \E u \in User : Connect(u) \/ Register(u) \/ Quit(u) \/ Hush(u) \/ Pong(u) \/ Close(u)
    \/ \E u \in User : ClearWatch(u) \/ ClearMonitor(u) \/ \E l \in Lists : Report(u, l)
    \/ \E u \in User, n \in Nick :
          \/ Nick_handle(u, n) \/ Watch(u, n) \/ Unwatch(u, n) \/ Unmonitor(u, n)
          \/ Accept(u, n) \/ Unaccept(u, n) \/ Silence(u, n) \/ Unsilence(u, n)
          \/ Signore(u, n) \/ Unsignore(u, n) \/ Dccallow(u, n) \/ Undccallow(u, n)
          \/ \E m \in Nick : Monitor(u, n, m)
    \/ \E u \in User, t \in setup.targets :
          \/ Tag(u, t) \/ Open(u, t)
          \/ \E x \in setup.texts, notice \in BOOLEAN : Say(u, t, x, notice)
    \/ \E u \in User, x \in setup.texts, concat, notice \in BOOLEAN : BatchLine(u, x, concat, notice)
    \/ \E u \in User, c \in Chan :
          \/ Join(u, c) \/ Part(u, c) \/ RelayMsg(u, c)
          \/ \E r \in 0..RANK_OP : Rerank(u, c, r)
          \/ \E i \in 1..Len(log) : Redact(u, c, i)
    \/ \E u \in {v \in User : Plays("history", v)} :
          \E k \in Readable(u), a \in Sels, limit \in 1..HistoryLimit :
             \/ \E sub \in {"LATEST", "BEFORE", "AFTER", "AROUND"} :
                    ChatHistory(u, k, sub, a, a, limit)
             \/ \E b \in Sels : ChatHistory(u, k, "BETWEEN", a, b, limit)
    \/ \E t \in setup.targets, ops \in BOOLEAN : link_message_recv(t, ops)
    \/ \E c \in Chan, i \in 1..Len(log) : link_redact(c, i)
    \/ on_tick

\* WF_vars(Pong(u)), with its ENABLED written out: a marked user that went idle
\* and whose next line would change something.
PongDue(u) == users[u].quitting /\ users[u].hushed /\ Handled(State, u) # State
PongAnswered(u) == []<>~PongDue(u) \/ []<><<Pong(u)>>_vars

Spec == Init /\ [][Next]_vars /\ \A u \in User : PongAnswered(u)

-----------------------------------------------------------------------------
(* Properties                                                               *)

\* An entry of an ACCEPT list made for a user never lets another one through:
\* it follows the user's nick and goes with the user (users.rs set_nick,
\* server.rs remove_user).  Every entry is counted, or the scrub would be
\* skipped; and every watcher is in the index it is notified from.
AcceptanceFollows ==
    /\ \A u \in User : \A i \in DOMAIN users[u].accept :
          LET e == users[u].accept[i] IN e.to # None => users[e.to].nick = e.nick
    /\ \A n \in Nick :
          index.accepted[n] >= Cardinality(UNION {{u} \X Named(users[u], n) : u \in User})

\* What a client was last told of a nick it watches or monitors is still so,
\* unless the answer was about a connection that had not registered
\* (watch.rs, users.rs set_nick and welcome, server.rs remove_user).
WatchersKnow ==
    \A l \in Lists, u \in User : \A n \in users[u][l] :
        LET t == told[<<l, u, n>>]
        IN t = "early" \/ t = StatusOf(State, n) \/ (t = "off" /\ StatusOf(State, n) = "early")

\* Nobody is ever shown an ops-only message of a +U channel (live, by
\* CHATHISTORY or by the +H backlog) who was not a half-op when it was sent or
\* its sender; and no message is shown after it was redacted
\* (core_message.rs deliver, chathistory.rs, channels.rs replay_chanhistory).
\* The exception is the line that a link brings: deliver sends an ops-only
\* message to the links like any other, and there relay_channel_message shows
\* it, once and live, to every member (core_message.rs:549, link.rs:1815,
\* server.rs:1524); nobody else is shown it later.
NoLateDisclosure ==
    \A x \in shown :
        LET e == log[x[2]]
        IN ~x[3] /\ (e.ops => x[1] \in e.see \cup {e.from} \cup e.reached)

\* docs/modes.md: +U, "unprivileged msgs go to ops".  The line that a link
\* brings refutes it.
OpsOnly ==
    \A x \in shown : LET e == log[x[2]] IN e.ops => x[1] \in e.see \cup {e.from}

\* A user marked to quit for flooding leaves once it stops sending, although
\* the denied line that marked it does not act on the mark (flood.rs, ircd.rs
\* dispatch, server.rs idle_check).  A client that goes on flooding is not
\* covered: each denied line counts as flood and makes it active, so that no
\* PONG is asked of it and the mark is never acted on.
FlooderLeaves ==
    \A u \in User : (users[u].quitting /\ users[u].hushed) ~> ~users[u].quitting
=============================================================================
