----------------------------- MODULE ChannelSync -----------------------------
(***************************************************************************)
(* One channel as every server of a tree of linked echoIRCd servers sees   *)
(* it: its members and their status, its timestamp, modes, bans and topic. *)
(* Clients join, leave, kick and set modes at their own server; FJOIN,     *)
(* IJOIN, PART, KICK, FMODE, FTOPIC and QUIT lines carry the changes, in   *)
(* order on each link, and a link's burst merges what the two sides had.   *)
(* (channels.rs, link.rs, coremods/core_channel.rs, users.rs)              *)
(***************************************************************************)
EXTENDS Integers, Sequences, FiniteSets

CONSTANTS
    Server,      \* the servers, by SID
    Peering,     \* the pairs {s, t} that have link blocks for each other
    User,        \* the clients, by uuid
    Home,        \* Home[u]: the server u connects to
    Flag,        \* the channel modes without a parameter
    Default,     \* the modes of Channel::new: +nt
    Permanent,   \* the modes that keep an empty channel: +P and +r
    Mask,        \* ban masks
    Text,        \* topics
    Changes,     \* the MODE changes that operators make
    Leavers,     \* the clients that PART and QUIT
    Kickers,     \* the operators that KICK
    Autojoin,    \* the clients joined by `autojoin` when they register
    None,        \* no server, no channel, no topic
    MaxTime,     \* bound: the last second of the clock
    MaxCmds,     \* bound: commands of clients in all
    MaxLinks     \* bound: link connections opened in all

Time   == 0 .. MaxTime
Status == {"out", "in", "op"}       \* not a member; a member; an operator

FlagChange == [kind : {"flag"}, flag : Flag, on : BOOLEAN]
BanChange  == [kind : {"ban"}, mask : Mask, on : BOOLEAN]
OpChange   == [kind : {"op"}, u : User, on : BOOLEAN]
Change     == FlagChange \cup BanChange \cup OpChange

Topic == [text : Text, ts : Time]

Channel == [created : Time, modes : SUBSET Flag, bans : SUBSET Mask,
            topic : Topic \cup {None}, mem : [User -> Status]]

ASSUME ChannelAssumption ==
    /\ Peering \subseteq SUBSET Server
    /\ IsFiniteSet(User) /\ IsFiniteSet(Mask)
    /\ Home \in [User -> Server] /\ User \cap Server = {}
    /\ Default \subseteq Flag /\ Permanent \subseteq Flag
    /\ Changes \subseteq Change
    /\ Leavers \subseteq User /\ Kickers \subseteq User /\ Autojoin \subseteq User
    /\ None \notin Server \cup Channel \cup Topic
    /\ MaxTime \in Nat /\ MaxCmds \in Nat /\ MaxLinks \in Nat

VARIABLES
    phase,     \* phase[u]: whether u is registered at its server
    remote,    \* remote[s][u]: the link s knows u through, its remote_users[u].via
    chan,      \* chan[s]: the channel at s
    link,      \* link[s][t]: s's end of its connection with t
    net,       \* net[s][t]: the lines s has sent that t has not read
    now,       \* the clock, in seconds
    asked,     \* commands of clients so far
    opened,    \* link connections opened so far
    dropped    \* history: a server with a link has dropped the channel

vars == <<phase, remote, chan, link, net, now, asked, opened, dropped>>

-----------------------------------------------------------------------------
(* Lines                                                                    *)

UIDLine(u)             == [cmd |-> "UID", u |-> u]
QUITLine(u)            == [cmd |-> "QUIT", u |-> u]
FJOINLine(ts, ms, mem) == [cmd |-> "FJOIN", ts |-> ts, modes |-> ms, mem |-> mem]
IJOINLine(u, ts)       == [cmd |-> "IJOIN", u |-> u, ts |-> ts]
PARTLine(u)            == [cmd |-> "PART", u |-> u]
KICKLine(k, u)         == [cmd |-> "KICK", src |-> k, u |-> u]
FMODELine(src, ts, ch) == [cmd |-> "FMODE", src |-> src, ts |-> ts, change |-> ch]
FTOPICLine(u, ts, tp)  == [cmd |-> "FTOPIC", src |-> u, ts |-> ts, topic |-> tp]
SERVERLine             == [cmd |-> "SERVER"]

Line == [cmd : {"UID", "QUIT", "PART"}, u : User]
        \cup [cmd : {"FJOIN"}, ts : Time, modes : SUBSET Flag, mem : [User -> Status]]
        \cup [cmd : {"IJOIN"}, u : User, ts : Time]
        \cup [cmd : {"KICK"}, src : User, u : User]
        \cup [cmd : {"FMODE"}, src : User \cup Server, ts : Time, change : Change]
        \cup [cmd : {"FTOPIC"}, src : User, ts : Time, topic : Topic]
        \cup [cmd : {"SERVER"}]

LinkState == {"none", "in", "out", "up"}
    \* no connection; accepted; dialled, SERVER sent; registered

-----------------------------------------------------------------------------
(* Sending.  What a server sends to a peer that has closed its end is lost. *)

propagate(s, except, lines) ==
    [t \in Server |-> IF link[s][t] = "up" /\ t # except THEN lines ELSE <<>>]

Nothing == [t \in Server |-> <<>>]

Written(queues, s, out) ==
    [queues EXCEPT ![s] =
        [t \in Server |-> IF link[t][s] = "none" THEN @[t] ELSE @[t] \o out[t]]]

Send(s, out) == net' = Written(net, s, out)

Receive(s, v, out) == net' = Written([net EXCEPT ![v][s] = Tail(@)], s, out)

First(s, v, cmd) ==
    /\ link[s][v] = "up"
    /\ net[v][s] # <<>>
    /\ Head(net[v][s]).cmd = cmd

\* A line that is handled, and told to the other links or kept to oneself.
Forward(s, v) == Receive(s, v, propagate(s, v, <<Head(net[v][s])>>))
Swallow(s, v) == Receive(s, v, Nothing)

-----------------------------------------------------------------------------
(* The channel                                                              *)

Nobody == [u \in User |-> "out"]

\* Channel::new
NewChannel(ts) == [created |-> ts, modes |-> Default, bans |-> {},
                   topic |-> None, mem |-> Nobody]

Members(ch) == { u \in User : ch.mem[u] # "out" }

is_empty(ch) == Members(ch) = {}

keep_alive(ch) == ~is_empty(ch) \/ ch.modes \cap Permanent # {}

\* channels.retain(keep_alive), of this channel
Retained(ch) == IF keep_alive(ch) THEN ch ELSE None

Without(ch, gone) == [ch EXCEPT !.mem =
    [u \in User |-> IF u \in gone THEN "out" ELSE ch.mem[u]]]

\* Mutant: the empty channel is kept.
Left_kept(s, gone) ==
    IF chan[s] = None THEN chan
    ELSE [chan EXCEPT ![s] = Without(chan[s], gone)]

\* The channel of s after those members are gone.
Left(s, gone) ==
    IF chan[s] = None THEN chan
    ELSE [chan EXCEPT ![s] = Retained(Without(chan[s], gone))]

Status_at(s, u) == IF chan[s] = None THEN "out" ELSE chan[s].mem[u]

Present(u) == phase[u] = "reg" /\ Status_at(Home[u], u) # "out"

Oper(u) == phase[u] = "reg" /\ Status_at(Home[u], u) = "op"

-----------------------------------------------------------------------------
(* The clients of a server                                                  *)

Ask == asked < MaxCmds /\ asked' = asked + 1

\* join, once the channel's own restrictions let the client in: a channel that
\* does not exist is created and its creator is an operator.
Joined(u) ==
    LET s == Home[u] IN
    [chan EXCEPT ![s] =
        IF chan[s] = None THEN [NewChannel(now) EXCEPT !.mem[u] = "op"]
        ELSE [chan[s] EXCEPT !.mem[u] = "in"]]

\* A new channel is burst with its creator; a member of an old one is added.
propagate_join(u) ==
    IF chan[Home[u]] = None
    THEN FJOINLine(now, Default, [Nobody EXCEPT ![u] = "op"])
    ELSE IJOINLine(u, chan[Home[u]].created)

\* welcome and the Connect hook: the channels of `autojoin` are joined before the
\* client is introduced to the links.
Register(u) ==
    /\ phase[u] = "away"
    /\ phase' = [phase EXCEPT ![u] = "reg"]
    /\ chan' = IF u \in Autojoin THEN Joined(u) ELSE chan
    /\ Send(Home[u], propagate(Home[u], None,
          (IF u \in Autojoin THEN <<propagate_join(u)>> ELSE <<>>) \o <<UIDLine(u)>>))
    /\ UNCHANGED <<remote, link, now, asked, opened>>

join(u) ==
    /\ phase[u] = "reg" /\ ~Present(u)
    /\ Ask
    /\ chan' = Joined(u)
    /\ Send(Home[u], propagate(Home[u], None, <<propagate_join(u)>>))
    /\ UNCHANGED <<phase, remote, link, now, opened>>

part(u) ==
    /\ u \in Leavers /\ Present(u)
    /\ Ask
    /\ chan' = Left(Home[u], {u})
    /\ Send(Home[u], propagate(Home[u], None, <<PARTLine(u)>>))
    /\ UNCHANGED <<phase, remote, link, now, opened>>

\* remove_user
Quit(u) ==
    /\ u \in Leavers /\ phase[u] = "reg"
    /\ phase' = [phase EXCEPT ![u] = "gone"]
    /\ chan' = Left(Home[u], {u})
    /\ Send(Home[u], propagate(Home[u], None, <<QUITLine(u)>>))
    /\ UNCHANGED <<remote, link, now, asked, opened>>

\* KICK by an operator; the member may be another server's.
Kick(k, u) ==
    LET s == Home[k] IN
    /\ k \in Kickers /\ Oper(k)
    /\ Status_at(s, u) # "out"
    /\ Ask
    /\ chan' = Left(s, {u})
    /\ Send(s, propagate(s, None, <<KICKLine(k, u)>>))
    /\ UNCHANGED <<phase, remote, link, now, opened>>

\* The channel after a mode change; a change of a stranger's status is nothing.
Applied(ch, c) ==
    CASE c.kind = "flag" ->
            [ch EXCEPT !.modes = IF c.on THEN @ \cup {c.flag} ELSE @ \ {c.flag}]
      [] c.kind = "ban" ->
            [ch EXCEPT !.bans = IF c.on THEN @ \cup {c.mask} ELSE @ \ {c.mask}]
      [] c.kind = "op" ->
            [ch EXCEPT !.mem[c.u] = IF @ = "out" THEN "out"
                                    ELSE IF c.on THEN "op" ELSE "in"]

\* MODE by an operator: a change that changes nothing is not told.
Mode(u, c) ==
    LET s == Home[u] IN
    /\ Oper(u)
    /\ Applied(chan[s], c) # chan[s]
    /\ Ask
    /\ chan' = [chan EXCEPT ![s] = Applied(@, c)]
    /\ Send(s, propagate(s, None, <<FMODELine(u, chan[s].created, c)>>))
    /\ UNCHANGED <<phase, remote, link, now, opened>>

\* TOPIC by an operator.
TopicCmd(u, text) ==
    LET s  == Home[u]
        tp == [text |-> text, ts |-> now]
    IN /\ Oper(u)
       /\ Ask
       /\ chan' = [chan EXCEPT ![s].topic = tp]
       /\ Send(s, propagate(s, None, <<FTOPICLine(u, chan[s].created, tp)>>))
       /\ UNCHANGED <<phase, remote, link, now, opened>>

\* Any client that leaves any other channel has every empty channel dropped.
Sweep(s) ==
    /\ chan[s] # None /\ ~keep_alive(chan[s])
    /\ chan' = [chan EXCEPT ![s] = None]
    /\ UNCHANGED <<phase, remote, link, net, now, asked, opened>>

-----------------------------------------------------------------------------
(* Links                                                                    *)

\* A connection from s is accepted by t; s introduces itself.
add_link(s, t) ==
    /\ {s, t} \in Peering /\ s # t
    /\ link[s][t] = "none" /\ link[t][s] = "none"
    /\ opened < MaxLinks
    /\ opened' = opened + 1
    /\ link' = [link EXCEPT ![s][t] = "out", ![t][s] = "in"]
    /\ net' = [net EXCEPT ![s][t] = <<SERVERLine>>, ![t][s] = <<>>]
    /\ UNCHANGED <<phase, remote, chan, now, asked>>

Orders(set) == { q \in [1 .. Cardinality(set) -> set] :
                   \A i, j \in DOMAIN q : q[i] = q[j] => i = j }

\* burst_users: the registered clients of s.
burst_users(s) ==
    { [i \in DOMAIN q |-> UIDLine(q[i])] :
        q \in Orders({ u \in User : Home[u] = s /\ phase[u] = "reg" }) }

\* burst_channels: the members and modes in one FJOIN, then each ban; a channel
\* without members is skipped, and the topic is not sent.
burst_channels(s) ==
    IF chan[s] = None THEN {<<>>}
    ELSE IF is_empty(chan[s]) THEN {<<>>}
    ELSE { <<FJOINLine(chan[s].created, chan[s].modes, chan[s].mem)>>
           \o [i \in DOMAIN q |-> FMODELine(s, chan[s].created,
                 [kind |-> "ban", mask |-> q[i], on |-> TRUE])] :
             q \in Orders(chan[s].bans) }

\* SERVER from v: the link is registered, answered if we still owe our own line,
\* and everything is burst over it.
link_server(s, v) ==
    /\ link[s][v] \in {"in", "out"}
    /\ net[v][s] # <<>>
    /\ Head(net[v][s]).cmd = "SERVER"
    /\ link' = [link EXCEPT ![s][v] = "up"]
    /\ \E us \in burst_users(s), cs \in burst_channels(s) :
          Receive(s, v, [Nothing EXCEPT ![v] =
              (IF link[s][v] = "in" THEN <<SERVERLine>> ELSE <<>>) \o us \o cs])
    /\ UNCHANGED <<phase, remote, chan, now, asked, opened>>

\* Mutant: the users are forgotten and their memberships are not.
drop_remote_users_table_only(s, gone) ==
    /\ remote' = [remote EXCEPT ![s] =
          [u \in User |-> IF u \in gone THEN None ELSE @[u]]]
    /\ UNCHANGED chan

\* drop_remote_user, of each of them.
drop_remote_users(s, gone) ==
    /\ remote' = [remote EXCEPT ![s] =
          [u \in User |-> IF u \in gone THEN None ELSE @[u]]]
    /\ chan' = IF gone = {} THEN chan ELSE Left(s, gone)

\* The connection ends at s: its reader may still have lines that are lost now.
close_link(s, v) ==
    /\ link[s][v] # "none"
    /\ link' = [link EXCEPT ![s][v] = "none"]
    /\ net' = [net EXCEPT ![v][s] = <<>>]
    /\ drop_remote_users(s, { u \in User : remote[s][u] = v })
    /\ UNCHANGED <<phase, now, asked, opened>>

-----------------------------------------------------------------------------
(* Lines received on a registered link                                      *)

sourced_via(s, u, v) == remote[s][u] = v

source_behind(s, src, v) ==
    IF src \in User THEN sourced_via(s, src, v) ELSE src = v

\* A user is taken from its own server only, and not twice: a relayed UID is
\* announced by a server that is not in `servers`.
link_uid_recv(s, v) ==
    LET l == Head(net[v][s]) IN
    /\ First(s, v, "UID")
    /\ IF source_behind(s, Home[l.u], v) /\ remote[s][l.u] = None
       THEN remote' = [remote EXCEPT ![s][l.u] = v] /\ Forward(s, v)
       ELSE Swallow(s, v) /\ UNCHANGED remote
    /\ UNCHANGED chan

link_quit_recv(s, v) ==
    LET l == Head(net[v][s]) IN
    /\ First(s, v, "QUIT")
    /\ IF sourced_via(s, l.u, v)
       THEN drop_remote_users(s, {l.u}) /\ Forward(s, v)
       ELSE Swallow(s, v) /\ UNCHANGED <<remote, chan>>

\* The FJOIN's members that s takes over: remote users it knows.
Taken(s, l) == { u \in User : l.mem[u] # "out" /\ remote[s][u] # None }

\* Mutant: an equal timestamp counts as a loss.
Arbitrated_tie_loses(s, l) ==
    IF chan[s] = None
    THEN [NewChannel(l.ts) EXCEPT !.modes = @ \cup l.modes]
    ELSE IF l.ts <= chan[s].created
    THEN [created |-> l.ts, modes |-> l.modes, bans |-> {}, topic |-> None,
          mem |-> [u \in User |-> IF chan[s].mem[u] = "out" THEN "out" ELSE "in"]]
    ELSE chan[s]

\* Mutant: the timestamp of the line is adopted also when ours wins.
Arbitrated_latest(s, l) ==
    IF chan[s] = None
    THEN [NewChannel(l.ts) EXCEPT !.modes = @ \cup l.modes]
    ELSE [chan[s] EXCEPT !.created = l.ts, !.modes = @ \cup l.modes]

\* The lower timestamp wins: ours is kept, merged with, or replaced; the loser's
\* members keep no status.
Arbitrated(s, l) ==
    IF chan[s] = None
    THEN [NewChannel(l.ts) EXCEPT !.modes = @ \cup l.modes]
    ELSE IF l.ts < chan[s].created
    THEN [created |-> l.ts, modes |-> l.modes, bans |-> {}, topic |-> None,
          mem |-> [u \in User |-> IF chan[s].mem[u] = "out" THEN "out" ELSE "in"]]
    ELSE IF l.ts = chan[s].created
    THEN [chan[s] EXCEPT !.modes = @ \cup l.modes]
    ELSE chan[s]

link_fjoin_recv(s, v) ==
    LET l      == Head(net[v][s])
        we_win == chan[s] # None /\ l.ts > chan[s].created
        base   == Arbitrated(s, l)
    IN /\ First(s, v, "FJOIN")
       /\ chan' = [chan EXCEPT ![s] = [base EXCEPT !.mem = [u \in User |->
             IF u \notin Taken(s, l) THEN base.mem[u]
             ELSE IF we_win THEN "in" ELSE l.mem[u]]]]
       /\ Forward(s, v)
       /\ UNCHANGED remote

\* Mutant: an IJOIN for a channel we do not have is ignored.
link_ijoin_recv_known_only(s, v) ==
    LET l == Head(net[v][s]) IN
    /\ First(s, v, "IJOIN")
    /\ IF sourced_via(s, l.u, v) /\ chan[s] # None
       THEN /\ chan' = [chan EXCEPT ![s].mem[l.u] = "in"]
            /\ Forward(s, v)
       ELSE Swallow(s, v) /\ UNCHANGED chan
    /\ UNCHANGED remote

\* A single member joins; the timestamp is used only if we have no such channel.
link_ijoin_recv(s, v) ==
    LET l == Head(net[v][s]) IN
    /\ First(s, v, "IJOIN")
    /\ IF sourced_via(s, l.u, v)
       THEN /\ chan' = [chan EXCEPT ![s] =
                 [(IF chan[s] = None THEN NewChannel(l.ts) ELSE chan[s])
                    EXCEPT !.mem[l.u] = "in"]]
            /\ Forward(s, v)
       ELSE Swallow(s, v) /\ UNCHANGED chan
    /\ UNCHANGED remote

link_part_recv(s, v) ==
    LET l == Head(net[v][s]) IN
    /\ First(s, v, "PART")
    /\ IF sourced_via(s, l.u, v) /\ Status_at(s, l.u) # "out"
       THEN chan' = Left(s, {l.u}) /\ Forward(s, v)
       ELSE Swallow(s, v) /\ UNCHANGED chan
    /\ UNCHANGED remote

\* The victim may be one of our own clients.
link_kick_recv(s, v) ==
    LET l == Head(net[v][s]) IN
    /\ First(s, v, "KICK")
    /\ IF source_behind(s, l.src, v) /\ Status_at(s, l.u) # "out"
       THEN chan' = Left(s, {l.u}) /\ Forward(s, v)
       ELSE Swallow(s, v) /\ UNCHANGED chan
    /\ UNCHANGED remote

\* A change stamped newer than our channel is passed on and not applied.
link_mode_recv(s, v) ==
    LET l == Head(net[v][s]) IN
    /\ First(s, v, "FMODE")
    /\ IF ~source_behind(s, l.src, v) \/ chan[s] = None
       THEN Swallow(s, v) /\ UNCHANGED chan
       ELSE /\ chan' = IF l.ts > chan[s].created THEN chan
                       ELSE [chan EXCEPT ![s] = Applied(@, l.change)]
            /\ Forward(s, v)
    /\ UNCHANGED remote

\* Likewise, and a topic older than ours is not applied either.
link_ftopic_recv(s, v) ==
    LET l == Head(net[v][s]) IN
    /\ First(s, v, "FTOPIC")
    /\ IF ~source_behind(s, l.src, v) \/ chan[s] = None
       THEN Swallow(s, v) /\ UNCHANGED chan
       ELSE /\ chan' = IF \/ l.ts > chan[s].created
                          \/ chan[s].topic # None /\ l.topic.ts < chan[s].topic.ts
                       THEN chan
                       ELSE [chan EXCEPT ![s].topic = l.topic]
            /\ Forward(s, v)
    /\ UNCHANGED remote

on_link(s, v) ==
    /\ \/ link_uid_recv(s, v) \/ link_quit_recv(s, v)
       \/ link_fjoin_recv(s, v) \/ link_ijoin_recv(s, v)
       \/ link_part_recv(s, v) \/ link_kick_recv(s, v)
       \/ link_mode_recv(s, v) \/ link_ftopic_recv(s, v)
    /\ UNCHANGED <<phase, link, now, asked, opened>>

-----------------------------------------------------------------------------
Init ==
    /\ phase = [u \in User |-> "away"]
    /\ remote = [s \in Server |-> [u \in User |-> None]]
    /\ chan = [s \in Server |-> None]
    /\ link = [s \in Server |-> [t \in Server |-> "none"]]
    /\ net = [s \in Server |-> [t \in Server |-> <<>>]]
    /\ now = 0
    /\ asked = 0
    /\ opened = 0
    /\ dropped = FALSE

Tick ==
    /\ now < MaxTime
    /\ now' = now + 1
    /\ UNCHANGED <<phase, remote, chan, link, net, asked, opened>>

Client(u) ==
    \/ Register(u) \/ join(u) \/ part(u) \/ Quit(u)
    \/ \E w \in User : Kick(u, w)
    \/ \E c \in Changes : Mode(u, c)
    \/ \E text \in Text : TopicCmd(u, text)

\* The channel has ended at a server with a link, since the last full split.
Dropping ==
    dropped' = (/\ \E s, t \in Server : link'[s][t] # "none"
                /\ \/ dropped
                   \/ \E s, t \in Server :
                         chan[s] # None /\ chan'[s] = None /\ link[s][t] # "none")

Step ==
    \/ \E u \in User : Client(u)
    \/ \E s, t \in Server :
          add_link(s, t) \/ link_server(s, t) \/ on_link(s, t) \/ close_link(s, t)
    \/ \E s \in Server : Sweep(s)
    \/ Tick

Next == Step /\ Dropping

Spec == Init /\ [][Next]_vars
-----------------------------------------------------------------------------
(* Properties                                                               *)

\* Every variable has its type.
TypeOK ==
    /\ phase \in [User -> {"away", "reg", "gone"}]
    /\ remote \in [Server -> [User -> Server \cup {None}]]
    /\ chan \in [Server -> Channel \cup {None}]
    /\ link \in [Server -> [Server -> LinkState]]
    /\ net \in [Server -> [Server -> Seq(Line)]]
    /\ now \in Time
    /\ asked \in 0 .. MaxCmds
    /\ opened \in 0 .. MaxLinks
    /\ dropped \in BOOLEAN

\* A remote member is a user the server knows: a member list never names a user
\* whose record is gone (channel_link_targets would skip it and NAMES show it).
MembersHaveRecords ==
    \A s \in Server, u \in User : Status_at(s, u) # "out" =>
        IF Home[u] = s THEN phase[u] = "reg" ELSE remote[s][u] # None

\* An empty channel is only kept by +P or +r, whoever was the last to leave.
NoEmptyChannel ==
    \A s \in Server : chan[s] # None => keep_alive(chan[s])

\* Everything the two servers have told each other has been read.
Quiet(s, t) ==
    /\ link[s][t] = "up" /\ link[t][s] = "up"
    /\ net[s][t] = <<>> /\ net[t][s] = <<>>

\* A member of the channel at its own server is a member at the other one.
Shown(u) ==
    \A s, t \in Server :
        Quiet(s, t) /\ Home[u] = s /\ Status_at(s, u) # "out"
            => Status_at(t, u) # "out"

\* A client that joined is in the channel on the other server too, also after
\* kicks, splits, mode changes and rejoins in any order.
NoMissingMember == \A u \in User \ Autojoin : Shown(u)

\* So is a client that `autojoin` has put there.
AutojoinShown == \A u \in Autojoin : Shown(u)

\* Both servers have the same channel: members, status, timestamp, modes, bans;
\* unless one of them dropped its last member since they were linked.
Converged ==
    \A s, t \in Server : Quiet(s, t) /\ ~dropped =>
        /\ chan[s] = None <=> chan[t] = None
        /\ chan[s] # None =>
              /\ chan[s].mem = chan[t].mem
              /\ chan[s].created = chan[t].created
              /\ chan[s].modes = chan[t].modes
              /\ chan[s].bans = chan[t].bans

\* The two servers agree on the members, the timestamp and the modes.
ChurnConverges ==
    \A s, t \in Server : Quiet(s, t) =>
        /\ chan[s] = None <=> chan[t] = None
        /\ chan[s] # None =>
              /\ Members(chan[s]) = Members(chan[t])
              /\ chan[s].created = chan[t].created
              /\ chan[s].modes = chan[t].modes

\* The timestamp of a channel never rises while it exists: an instance that was
\* made during a split cannot take over an older one.
AgeNeverRises ==
    [][\A s \in Server : chan[s] # None /\ chan'[s] # None
          => chan'[s].created <= chan[s].created]_vars
=============================================================================
