------------------------------ MODULE NetNicks ------------------------------
(***************************************************************************)
(* The network-wide nick directory: which user owns which nick, as seen by *)
(* every server of a tree of linked echoIRCd servers.                      *)
(*                                                                         *)
(* Each server keeps its own clients (users, nick_index) and copies of the *)
(* users behind its links (remote_users, remote_nick).  The copies follow  *)
(* the UID, NICK, SAVE, QUIT and KILL lines that arrive in order on each   *)
(* link; nick collisions are arbitrated by timestamp on both sides at      *)
(* once and the loser is renamed to its uuid.  (link.rs, users.rs,         *)
(* server.rs, coremods/core_user.rs)                                       *)
(***************************************************************************)
EXTENDS Integers, Sequences, FiniteSets

CONSTANTS
    Server,      \* the servers, by SID
    Peering,     \* the pairs {s, t} that have link blocks for each other
    User,        \* the clients, by uuid; a uuid is also a nick
    Name,        \* the nicks a client may ask for (valid_nick excludes uuids)
    Home,        \* Home[u]: the server u connects to, the SID inside its uuid
    Person,      \* Person[u]: u's ident and ip, what "same user" compares
    Killer,      \* the clients that are opers
    None,        \* no server, no user, no nick
    MaxTime,     \* bound: the last second of the clock
    MaxCmds,     \* bound: NICK and KILL commands each client sends
    MaxLinks,    \* bound: link connections opened in all
    Straddle     \* TRUE: two now() reads of one handler may differ by a second

Nick == Name \cup User
Time == 0 .. MaxTime

ASSUME ConstantsAssumption ==
    /\ Peering \subseteq SUBSET Server
    /\ IsFiniteSet(User)
    /\ Name \cap User = {}
    /\ None \notin Server \cup User \cup Name
    /\ Home \in [User -> Server]
    /\ Killer \subseteq User
    /\ MaxTime \in Nat /\ MaxCmds \in Nat /\ MaxLinks \in Nat
    /\ Straddle \in BOOLEAN

VARIABLES
    users,         \* users[u]: the client record its home server keeps
    nick_index,    \* nick_index[s][n]: the local user of s called n
    remote_users,  \* remote_users[s][u]: s's copy of a user behind a link
    remote_nick,   \* remote_nick[s][n]: the remote user s knows as n
    link,          \* link[s][t]: s's end of its connection with t
    net,           \* net[s][t]: the lines s has sent that t has not read
    now,           \* the clock, in seconds
    asked,         \* asked[u]: NICK and KILL commands sent by u
    opened         \* link connections opened so far

vars == <<users, nick_index, remote_users, remote_nick, link, net, now,
          asked, opened>>

-----------------------------------------------------------------------------
(* Records and lines                                                        *)

Phase == {"away", "conn", "named", "reg", "gone"}
    \* not yet connected; connected; USER received; registered; disconnected

UserRec == [phase : Phase, nick : Nick \cup {None},
            nick_ts : Time, signon : Time]

RemoteRec == [nick : Nick \cup {None}, nick_ts : Time, via : Server \cup {None}]

Absent == [nick |-> None, nick_ts |-> 0, via |-> None]   \* no such key

UIDLine(u, n, ts)  == [cmd |-> "UID",  u |-> u, nick |-> n, ts |-> ts]
NICKLine(u, n, ts) == [cmd |-> "NICK", u |-> u, nick |-> n, ts |-> ts]
SAVELine(u, ts)    == [cmd |-> "SAVE", u |-> u, ts |-> ts]
QUITLine(u)        == [cmd |-> "QUIT", u |-> u]
KILLLine(k, u)     == [cmd |-> "KILL", src |-> k, u |-> u]
SERVERLine         == [cmd |-> "SERVER"]

\* A line names a client's nick by a Name or by the client's own uuid.
Line == { l \in [cmd : {"UID", "NICK"}, u : User, nick : Nick, ts : Time] :
            l.nick \in Name \cup {l.u} }
        \cup [cmd : {"SAVE"}, u : User, ts : Time]
        \cup [cmd : {"QUIT"}, u : User]
        \cup [cmd : {"KILL"}, src : User, u : User]
        \cup [cmd : {"SERVER"}]

LinkState == {"none", "in", "out", "up"}
    \* no connection; accepted; dialled, SERVER sent; registered

-----------------------------------------------------------------------------
(* Helpers of link.rs and users.rs                                          *)

Connected(u) == users[u].phase \in {"conn", "named", "reg"}

find_nick(s, n) == nick_index[s][n]

\* The source of a line is reached through the link it arrived on: a user ...
sourced_via(s, u, v) == remote_users[s][u].via = v

\* ... or a server.  servers[s] is filled by link_server alone, so s knows the
\* servers it is directly linked with and each of them is its own next hop.
server_behind(s, sid, v) == sid = v /\ link[s][v] = "up"

link_toward(s, u) == remote_users[s][u].via

\* Mutant: equal timestamps change nobody.
collision_decision_no_tie(local_ts, remote_ts, same) ==
    IF remote_ts = local_ts THEN <<FALSE, FALSE>>
    ELSE IF \/ same /\ remote_ts < local_ts
            \/ ~same /\ remote_ts > local_ts
    THEN <<FALSE, TRUE>>
    ELSE <<TRUE, FALSE>>

\* <<the holder changes, the incoming user changes>>
collision_decision(local_ts, remote_ts, same) ==
    IF remote_ts = local_ts THEN <<TRUE, TRUE>>
    ELSE IF \/ same /\ remote_ts < local_ts
            \/ ~same /\ remote_ts > local_ts
    THEN <<FALSE, TRUE>>
    ELSE <<TRUE, FALSE>>

\* The verdict on a newcomer's claim to a held nick; services servers, whose users
\* always win, are not modelled.
\* A client that has not sent USER yet has an empty ident: it is nobody's twin.
LocalVerdict(l, u, ts) ==
    IF l = None THEN <<FALSE, FALSE>>
    ELSE collision_decision(users[l].nick_ts, ts,
                            users[l].phase # "conn" /\ Person[l] = Person[u])

RemoteVerdict(s, e, u, ts) ==
    IF e \in {None, u} THEN <<FALSE, FALSE>>
    ELSE collision_decision(remote_users[s][e].nick_ts, ts,
                            Person[e] = Person[u])

\* A nick table after u's old nick is removed and its new one inserted.
MoveNick(table, old, new, u) ==
    [n \in Nick |-> IF n = new THEN u ELSE IF n = old THEN None ELSE table[n]]

FreeNick(table, old) == [n \in Nick |-> IF n = old THEN None ELSE table[n]]

\* The timestamps propagate_nick may read after set_nick read `now`.
Stamp == IF Straddle /\ now < MaxTime THEN {now, now + 1} ELSE {now}

-----------------------------------------------------------------------------
(* Sending.  What a server sends to a peer that has closed its end is lost. *)

propagate(s, except, lines) ==
    [t \in Server |-> IF link[s][t] = "up" /\ t # except THEN lines ELSE <<>>]

link_out(v, lines) == [t \in Server |-> IF t = v THEN lines ELSE <<>>]

Both(out1, out2) == [t \in Server |-> out1[t] \o out2[t]]

Nothing == [t \in Server |-> <<>>]

Written(queues, s, out) ==
    [queues EXCEPT ![s] =
        [t \in Server |-> IF link[t][s] = "none" THEN @[t] ELSE @[t] \o out[t]]]

Send(s, out) == net' = Written(net, s, out)

\* Reading the first line from v, and sending `out` in reply.
Receive(s, v, out) == net' = Written([net EXCEPT ![v][s] = Tail(@)], s, out)

First(s, v, cmd) ==
    /\ link[s][v] = "up"
    /\ net[v][s] # <<>>
    /\ Head(net[v][s]).cmd = cmd

Discard(s, v) ==
    /\ Receive(s, v, Nothing)
    /\ UNCHANGED <<users, nick_index, remote_users, remote_nick, now>>

-----------------------------------------------------------------------------
(* set_nick, the pieces                                                     *)

Renamed(u, n) == [users EXCEPT ![u].nick = n, ![u].nick_ts = now]

\* Mutant: the old nick is not removed from the index.
Reindexed_keeping_old(u, n) == [nick_index EXCEPT ![Home[u]][n] = u]

Reindexed(u, n) ==
    [nick_index EXCEPT ![Home[u]] = MoveNick(@, users[u].nick, n, u)]

\* propagate_nick: only registered users are known to the network.
NickNews(u, n, ts) ==
    IF users[u].phase = "reg"
    THEN propagate(Home[u], None, <<NICKLine(u, n, ts)>>)
    ELSE Nothing

set_nick(u, n, ts) ==
    /\ users' = Renamed(u, n)
    /\ nick_index' = Reindexed(u, n)
    /\ now' = ts

-----------------------------------------------------------------------------
(* The clients of a server                                                  *)

Connect(u) ==
    /\ users[u].phase = "away"
    /\ users' = [users EXCEPT ![u] = [phase |-> "conn", nick |-> None,
                                      nick_ts |-> now, signon |-> now]]
    /\ UNCHANGED <<nick_index, remote_users, remote_nick, link, net, now,
                   asked, opened>>

UserCmd(u) ==
    /\ users[u].phase = "conn"
    /\ users' = [users EXCEPT ![u].phase = "named"]
    /\ UNCHANGED <<nick_index, remote_users, remote_nick, link, net, now,
                   asked, opened>>

\* NICK: refused when the nick is held by a local or by a known remote user.
NickCmd(u, n) ==
    /\ Connected(u)
    /\ asked[u] < MaxCmds
    /\ find_nick(Home[u], n) = None
    /\ remote_nick[Home[u]][n] = None
    /\ asked' = [asked EXCEPT ![u] = @ + 1]
    /\ \E ts \in Stamp :
          /\ set_nick(u, n, ts)
          /\ Send(Home[u], NickNews(u, n, ts))
    /\ UNCHANGED <<remote_users, remote_nick, link, opened>>

\* The UID line carries the sign-on time where the nick timestamp belongs.
uid_line(u) == UIDLine(u, users[u].nick, users[u].signon)

\* Mutant: USER alone registers, without a nick.
Register_unnamed(u) ==
    /\ users[u].phase = "named"
    /\ users' = [users EXCEPT ![u].phase = "reg"]
    /\ Send(Home[u], propagate(Home[u], None, <<uid_line(u)>>))
    /\ UNCHANGED <<nick_index, remote_users, remote_nick, link, now, asked,
                   opened>>

\* Mutant: the Connect hook does not introduce the user.
Register_silent(u) ==
    /\ users[u].phase = "named"
    /\ users[u].nick # None
    /\ users' = [users EXCEPT ![u].phase = "reg"]
    /\ UNCHANGED <<nick_index, remote_users, remote_nick, link, net, now, asked,
                   opened>>

\* welcome, then introduce_to_links from the Connect hook.
Register(u) ==
    /\ users[u].phase = "named"
    /\ users[u].nick # None
    /\ users' = [users EXCEPT ![u].phase = "reg"]
    /\ Send(Home[u], propagate(Home[u], None, <<uid_line(u)>>))
    /\ UNCHANGED <<nick_index, remote_users, remote_nick, link, now, asked,
                   opened>>

\* remove_user, without its QUIT line to the links.
remove_user(u) ==
    /\ users' = [users EXCEPT ![u].phase = "gone"]
    /\ nick_index' = [nick_index EXCEPT ![Home[u]] = FreeNick(@, users[u].nick)]

\* Mutant: the links are not told.
QuitNews_silent(u) == Nothing

QuitNews(u) == IF users[u].phase = "reg"
               THEN propagate(Home[u], None, <<QUITLine(u)>>)
               ELSE Nothing

Quit(u) ==
    /\ Connected(u)
    /\ remove_user(u)
    /\ Send(Home[u], QuitNews(u))
    /\ UNCHANGED <<remote_users, remote_nick, link, now, asked, opened>>

\* KILL by an oper of a user on another server: the line is routed towards it.
route_kill(k, u) ==
    /\ k \in Killer
    /\ users[k].phase = "reg"
    /\ asked[k] < MaxCmds
    /\ asked' = [asked EXCEPT ![k] = @ + 1]
    /\ LET v == link_toward(Home[k], u) IN
          /\ v # None
          /\ Send(Home[k], link_out(v, <<KILLLine(k, u)>>))
    /\ UNCHANGED <<users, nick_index, remote_users, remote_nick, link, now,
                   opened>>

-----------------------------------------------------------------------------
(* Links: dialling, the SERVER handshake with its burst, and netsplits      *)

\* A connection from s is accepted by t; add_link has s introduce itself.
add_link(s, t) ==
    /\ {s, t} \in Peering /\ s # t
    /\ link[s][t] = "none" /\ link[t][s] = "none"
    /\ opened < MaxLinks
    /\ opened' = opened + 1
    /\ link' = [link EXCEPT ![s][t] = "out", ![t][s] = "in"]
    /\ net' = [net EXCEPT ![s][t] = <<SERVERLine>>, ![t][s] = <<>>]
    /\ UNCHANGED <<users, nick_index, remote_users, remote_nick, now, asked>>

Registered(s) == { u \in User : Home[u] = s /\ users[u].phase = "reg" }

\* The orders in which the hash map of users may be walked.
BurstOrders(s) ==
    { q \in [1 .. Cardinality(Registered(s)) -> Registered(s)] :
        \A i, j \in DOMAIN q : q[i] = q[j] => i = j }

\* SERVER from v: the link is registered, answered if we have not introduced
\* ourselves yet, and every registered local user is burst over it.
link_server(s, v) ==
    /\ link[s][v] \in {"in", "out"}
    /\ net[v][s] # <<>>
    /\ Head(net[v][s]).cmd = "SERVER"
    /\ link' = [link EXCEPT ![s][v] = "up"]
    /\ \E q \in BurstOrders(s) :
          Receive(s, v, link_out(v,
              (IF link[s][v] = "in" THEN <<SERVERLine>> ELSE <<>>)
              \o [i \in DOMAIN q |-> uid_line(q[i])]))
    /\ UNCHANGED <<users, nick_index, remote_users, remote_nick, now, asked,
                   opened>>

\* Copies of the users reached through v, and the nick table without them.
Behind(s, v) == { u \in User : remote_users[s][u].via = v }

\* Mutant: only the nick table is cleaned.
drop_remote_users_index_only(s, gone) ==
    /\ remote_nick' = [remote_nick EXCEPT ![s] =
          [n \in Nick |-> IF \E u \in gone : remote_users[s][u].nick = n
                          THEN None ELSE @[n]]]
    /\ UNCHANGED remote_users

drop_remote_users(s, gone) ==
    /\ remote_users' = [remote_users EXCEPT ![s] =
          [u \in User |-> IF u \in gone THEN Absent ELSE @[u]]]
    /\ remote_nick' = [remote_nick EXCEPT ![s] =
          [n \in Nick |-> IF \E u \in gone : remote_users[s][u].nick = n
                          THEN None ELSE @[n]]]

\* s drops the link (socket closed, ping timeout, SQUIT): what v sent and s has
\* not read is lost, what s has sent may still reach v before v notices.
close_link(s, v) ==
    /\ link[s][v] # "none"
    /\ link' = [link EXCEPT ![s][v] = "none"]
    /\ net' = [net EXCEPT ![v][s] = <<>>]
    /\ drop_remote_users(s, Behind(s, v))
    /\ UNCHANGED <<users, nick_index, now, asked, opened>>

-----------------------------------------------------------------------------
(* Lines from a peer                                                        *)

\* Mutant: the incoming user that lost is not sent a SAVE.
CollisionNews_no_save(v, l, verdict, u, ts, stamp) ==
    IF verdict[1] THEN NickNews(l, l, stamp) ELSE Nothing

\* resolve_collision: the local holder l yields, the incoming u yields, or both.
CollisionNews(v, l, verdict, u, ts, stamp) ==
    Both(IF verdict[1] THEN NickNews(l, l, stamp) ELSE Nothing,
         IF verdict[2] THEN link_out(v, <<SAVELine(u, ts)>>) ELSE Nothing)

yield_local(l, verdict, stamp) ==
    IF verdict[1]
    THEN set_nick(l, l, stamp)
    ELSE UNCHANGED <<users, nick_index>> /\ now' = now

\* save_remote_user: our copy of e falls back to its uuid, and all links hear.
Saved(s, e, verdict) ==
    IF verdict[1] THEN [remote_users[s] EXCEPT ![e].nick = e]
                  ELSE remote_users[s]

SavedIndex(s, e, verdict) ==
    IF verdict[1] THEN MoveNick(remote_nick[s], remote_users[s][e].nick, e, e)
                  ELSE remote_nick[s]

RemoteCollisionNews(s, v, e, verdict, u, ts) ==
    Both(IF verdict[1]
         THEN propagate(s, None, <<SAVELine(e, remote_users[s][e].nick_ts)>>)
         ELSE Nothing,
         IF verdict[2] THEN link_out(v, <<SAVELine(u, ts)>>) ELSE Nothing)

link_uid_recv(s, v) ==
    /\ First(s, v, "UID")
    /\ LET m == Head(net[v][s]) IN
       IF ~server_behind(s, Home[m.u], v) \/ remote_users[s][m.u] # Absent
       THEN Discard(s, v)
       ELSE LET l  == find_nick(s, m.nick)
                lv == LocalVerdict(l, m.u, m.ts)
                n1 == IF lv[2] THEN m.u ELSE m.nick
                e  == remote_nick[s][n1]
                rv == RemoteVerdict(s, e, m.u, m.ts)
                n2 == IF rv[2] THEN m.u ELSE n1
            IN \E stamp \in Stamp :
               /\ yield_local(l, lv, stamp)
               /\ remote_users' = [remote_users EXCEPT ![s] =
                     [Saved(s, e, rv) EXCEPT ![m.u] =
                        [nick |-> n2, nick_ts |-> m.ts, via |-> v]]]
               /\ remote_nick' = [remote_nick EXCEPT ![s] =
                     [SavedIndex(s, e, rv) EXCEPT ![n2] = m.u]]
               /\ Receive(s, v,
                     Both(CollisionNews(v, l, lv, m.u, m.ts, stamp),
                     Both(RemoteCollisionNews(s, v, e, rv, m.u, m.ts),
                          propagate(s, v, <<UIDLine(m.u, n2, m.ts)>>))))
    /\ UNCHANGED <<link, asked, opened>>

\* A changer that loses keeps its old nick here; the SAVE it is sent moves it.
link_nick_recv(s, v) ==
    /\ First(s, v, "NICK")
    /\ LET m == Head(net[v][s]) IN
       IF ~sourced_via(s, m.u, v)
       THEN Discard(s, v)
       ELSE LET l  == find_nick(s, m.nick)
                lv == LocalVerdict(l, m.u, m.ts)
                e  == IF lv[2] THEN None ELSE remote_nick[s][m.nick]
                rv == RemoteVerdict(s, e, m.u, m.ts)
                lost == lv[2] \/ rv[2]
                old == remote_users[s][m.u].nick
            IN \E stamp \in Stamp :
               /\ yield_local(l, lv, stamp)
               /\ remote_users' = [remote_users EXCEPT ![s] =
                     IF lost THEN Saved(s, e, rv)
                     ELSE [Saved(s, e, rv) EXCEPT ![m.u].nick = m.nick,
                                                  ![m.u].nick_ts = m.ts]]
               /\ remote_nick' = [remote_nick EXCEPT ![s] =
                     IF lost THEN SavedIndex(s, e, rv)
                     ELSE MoveNick(SavedIndex(s, e, rv), old, m.nick, m.u)]
               /\ Receive(s, v,
                     Both(CollisionNews(v, l, lv, m.u, m.ts, stamp),
                     Both(RemoteCollisionNews(s, v, e, rv, m.u, m.ts),
                          IF lost THEN Nothing
                          ELSE propagate(s, v, <<m>>))))
    /\ UNCHANGED <<link, asked, opened>>

\* SAVE: obeyed by the user's own server while the nick timestamp still matches.
link_save_recv(s, v) ==
    /\ First(s, v, "SAVE")
    /\ LET m == Head(net[v][s])
           w == link_toward(s, m.u)
       IN IF Home[m.u] = s /\ Connected(m.u)
          THEN IF users[m.u].nick_ts = m.ts
               THEN \E stamp \in Stamp :
                       /\ set_nick(m.u, m.u, stamp)
                       /\ Receive(s, v, NickNews(m.u, m.u, stamp))
                       /\ UNCHANGED <<remote_users, remote_nick>>
               ELSE Discard(s, v)
          ELSE /\ Receive(s, v, IF w \in {None, v} THEN Nothing
                                ELSE link_out(w, <<m>>))
               /\ UNCHANGED <<users, nick_index, remote_users, remote_nick, now>>
    /\ UNCHANGED <<link, asked, opened>>

link_quit_recv(s, v) ==
    /\ First(s, v, "QUIT")
    /\ LET m == Head(net[v][s]) IN
       IF ~sourced_via(s, m.u, v)
       THEN Discard(s, v)
       ELSE /\ drop_remote_users(s, {m.u})
            /\ Receive(s, v, propagate(s, v, <<m>>))
            /\ UNCHANGED <<users, nick_index, now>>
    /\ UNCHANGED <<link, asked, opened>>

\* KILL: the killer must be behind the link; the target's server removes it and
\* tells every link, the one the KILL came from included.
link_kill_recv(s, v) ==
    /\ First(s, v, "KILL")
    /\ LET m == Head(net[v][s])
           w == link_toward(s, m.u)
       IN IF ~sourced_via(s, m.src, v)
          THEN Discard(s, v)
          ELSE IF Home[m.u] = s /\ Connected(m.u)
          THEN /\ remove_user(m.u)
               /\ Receive(s, v, QuitNews(m.u))
               /\ UNCHANGED <<remote_users, remote_nick, now>>
          ELSE /\ Receive(s, v, IF w \in {None, v} THEN Nothing
                                ELSE link_out(w, <<m>>))
               /\ UNCHANGED <<users, nick_index, remote_users, remote_nick, now>>
    /\ UNCHANGED <<link, asked, opened>>

-----------------------------------------------------------------------------
Tick ==
    /\ now < MaxTime
    /\ now' = now + 1
    /\ UNCHANGED <<users, nick_index, remote_users, remote_nick, link, net,
                   asked, opened>>

Init ==
    /\ users = [u \in User |-> [phase |-> "away", nick |-> None,
                                nick_ts |-> 0, signon |-> 0]]
    /\ nick_index = [s \in Server |-> [n \in Nick |-> None]]
    /\ remote_users = [s \in Server |-> [u \in User |-> Absent]]
    /\ remote_nick = [s \in Server |-> [n \in Nick |-> None]]
    /\ link = [s \in Server |-> [t \in Server |-> "none"]]
    /\ net = [s \in Server |-> [t \in Server |-> <<>>]]
    /\ now = 0
    /\ asked = [u \in User |-> 0]
    /\ opened = 0

\* A command of a client.
Client(u) ==
    \/ Connect(u)
    \/ UserCmd(u)
    \/ \E n \in Name : NickCmd(u, n)
    \/ Register(u)
    \/ Quit(u)
    \/ \E w \in User : route_kill(u, w)

\* A line read by s from its link with v.
on_link(s, v) ==
    \/ link_server(s, v)
    \/ link_uid_recv(s, v)
    \/ link_nick_recv(s, v)
    \/ link_save_recv(s, v)
    \/ link_quit_recv(s, v)
    \/ link_kill_recv(s, v)

Next ==
    \/ \E u \in User : Client(u)
    \/ \E s, v \in Server :
          \/ on_link(s, v)
          \/ add_link(s, v)
          \/ close_link(s, v)
    \/ Tick

\* The core thread of every server keeps draining its event queue.
Fairness == \A s, v \in Server : WF_vars(on_link(s, v))

Spec == Init /\ [][Next]_vars

FairSpec == Spec /\ Fairness
-----------------------------------------------------------------------------
(* Properties                                                               *)

\* Every variable has its type; a line names a user by a name it asked for or by
\* its own uuid, and never carries a time that has not come.
TypeOK ==
    /\ users \in [User -> UserRec]
    /\ nick_index \in [Server -> [Nick -> User \cup {None}]]
    /\ remote_users \in [Server -> [User -> RemoteRec]]
    /\ remote_nick \in [Server -> [Nick -> User \cup {None}]]
    /\ link \in [Server -> [Server -> LinkState]]
    /\ net \in [Server -> [Server -> Seq(Line)]]
    /\ now \in Time
    /\ asked \in [User -> 0 .. MaxCmds]
    /\ opened \in 0 .. MaxLinks

\* A nick table lists exactly the nicks that `names` gives, each to its owner.
Indexes(table, names) ==
    \A n \in Nick, u \in User : table[n] = u <=> names[u] = n

LocalNames(s) ==
    [u \in User |-> IF Home[u] = s /\ Connected(u) THEN users[u].nick ELSE None]

RemoteNames(s) == [u \in User |-> remote_users[s][u].nick]

\* nick_index and users, remote_nick and remote_users tell the same story on
\* every server, and no nick resolves both to a local and to a remote user:
\* otherwise set_nick, save_remote_user or drop_remote_user would later free a
\* nick that somebody else holds, and messages would be routed to a ghost.
NickTablesAgree ==
    \A s \in Server :
        /\ Indexes(nick_index[s], LocalNames(s))
        /\ Indexes(remote_nick[s], RemoteNames(s))
        /\ \A n \in Nick : nick_index[s][n] = None \/ remote_nick[s][n] = None

\* Every copy of a user leads to a live link, and is of somebody else's user:
\* close_link leaves nobody behind a link that is gone.
NoRoutingGhost ==
    \A s \in Server, u \in User :
        LET v == remote_users[s][u].via IN
        v # None => link[s][v] = "up" /\ Home[u] = v /\ v # s

\* The two ends of a link have nothing more to tell each other.
Quiet(s, t) == /\ link[s][t] = "up" /\ link[t][s] = "up"
               /\ net[s][t] = <<>> /\ net[t][s] = <<>>

\* Once a link is quiet each end knows exactly the registered users of the other
\* (burst, UID, QUIT, KILL and a split in any order lose or keep nobody).
DirectoryConverges ==
    \A s, t \in Server : Quiet(s, t) =>
        \A u \in User : Home[u] = t =>
            (remote_users[s][u].via = t <=> users[u].phase = "reg")

\* Once a link is quiet no nick is owned by a registered user on each side: the
\* timestamp rule of collision_decision, applied on both sides independently and
\* with crossing NICK and SAVE lines, leaves one owner at most.
OneOwner ==
    \A s, t \in Server : s # t /\ Quiet(s, t) =>
        \A u \in Registered(s), w \in Registered(t) :
            users[u].nick # users[w].nick

\* Once a link is quiet a copy carries the nick its user really has, or the
\* user's uuid: a changer that lost a collision never keeps a stale nick.
NoStaleNick ==
    \A s, t \in Server : Quiet(s, t) =>
        \A u \in Registered(t) :
            remote_users[s][u].nick \in {users[u].nick, u}

\* Every server reachable over registered, quiet links knows a registered user.
TopologyComplete ==
    \A s, h, t \in Server :
        /\ s # t /\ Quiet(s, h) /\ Quiet(h, t)
        => \A u \in Registered(t) : remote_users[s][u] # Absent

\* A user that registers on a linked server becomes known to the peer, whatever
\* is in flight, unless it leaves or the link goes: burst and hook introduction
\* leave no gap between them.
Introduced ==
    \A u \in User : \A s \in { t \in Server : {t, Home[u]} \in Peering } :
        LET h == Home[u] IN
        (users[u].phase = "reg" /\ link[h][s] # "none")
        ~> (\/ remote_users[s][u].via = h
            \/ users[u].phase = "gone"
            \/ link[h][s] = "none" \/ link[s][h] = "none")
=============================================================================
