# A TLA+ verification of echoIRCd

echoIRCd is an IRC server in Rust: a single-threaded core that owns every table,
socket reactors and worker threads around it, and a server-to-server
protocol that makes several servers one network. This directory models the parts of
it whose correctness depends on the order of events. TLC checks the models on small
instances; TLAPS proves the central invariants for every instance.

`PROJECT.json` is the machine-readable side: the components, the runs, the source
lines every definition models, a mutant for every checked property, the hazards, the
theorems.

    tlc -workers 2 -config nicks_pair.cfg MCNetNicks     # a run
    tlapm NetNicks_proofs.tla                            # the proofs of a module

Source paths below are relative to the repository (`src/link.rs` is the file
`link.rs` of the crate).

## 1. The system

### 1.1 Threads, and what is atomic

| actor | code | what it does |
|---|---|---|
| core thread | `src/ircd.rs` `Ircd::run` | takes one `Event` at a time from a bounded queue (connect, line, disconnect, resolved host, ident, password verdict, link line, tick, RPC ...) and runs its handler to the end; owns `Server` and the modules, no locks |
| reactors | `src/socketengine.rs` | `poll` loops that accept, frame lines, buffer output, and send events to the core; the core answers over an unbounded channel and a waker |
| workers | `src/server.rs` `spawn_crypto`, `src/resolver.rs`, `src/modules/ident.rs`, HTTP and database clients | a bounded number of threads of each kind; each answers with an event some time later, or never |
| link threads | `src/socketengine.rs` `connect_link`, `src/main.rs` | dial a peer, read its lines; lines of one connection arrive in order |
| timer | `src/main.rs` | a tick every few seconds, for ever |
| writer | `src/server.rs` `disk_write` | writes snapshots, one file at a time, the newest content only |

So inside one server a handler is atomic, and an action of a model is one event. What
interleaves is (a) the events of several connections and workers at one server and
(b) the handlers of several servers, coupled by FIFO links that can break. The models
are built around these two.

### 1.2 Components

| component | state | operations | what makes it correct |
|---|---|---|---|
| network nick directory (`link.rs`, `users.rs`) | `users`, `nick_index`, `remote_users`, `remote_nick` | NICK, UID, SAVE, QUIT, KILL, burst, netsplit | indexes exact; one owner per nick once a link is quiet; copies follow their link |
| link handshake (`link.rs`, `main.rs`) | `links`, `servers`, `link_blocks`, jupes | dial, SERVER, ERROR, SQUIT, JUPE, timeouts | a server listed once and only while a registered link leads to it; no handshake hangs; a dead link does not block its successor |
| channel state over links (`link.rs`, `channels.rs`) | `channels`: members, status, timestamp, modes, bans, topic | join, part, kick, mode, topic, FJOIN merge, split | both sides the same when nothing is in flight; no member without a user; age never rises |
| registration (`ircd.rs`, `server.rs`, `users.rs`, challenge modules) | the `User` flags that hold a welcome, deferred lines, worker slots | connect, handshake lines, answers, tick | welcomed only when every hold is answered; never forgotten; silent clients reaped |
| connection classes, pool (`modules/connclass.rs`, `connguard.rs`) | `per_ip`, `per_class`, `per_ip_class`, `unreg` | assign, set_class, change_ip, disconnect | incremental counters equal the true counts; limits respected |
| X-lines, holds, filters (`xline.rs`, `link.rs`) | the lists of rules at every server | add and sweep, remove, expire, burst, ADDLINE, DELLINE, SVSHOLD, FILTER | nobody the lines were asked about stays under an active ban; a rule ends everywhere at the same time |
| socket engine (`socketengine.rs`, `websocket.rs`, `proxy.rs`, TLS) | read and write buffers, interest, pause, closing | accept, read, frame, write, pause, close | every complete line delivered once and in order; none stalls; none stays for ever |
| persistence (`server.rs`, `database/`, `redis/`, the storing modules) | files, tables, queues of the pools | snapshot, coalesced write, query, load | a crash loses at most the newest snapshot and never leaves half of one; every query is answered once |
| local channels and modes (`channels.rs`, `mode.rs`, their modules) | `channels`, `invited`, flood counters | JOIN conditions, INVITE, KICK, RENAME, MODE, timed bans | clients and links are told what changed; closed channels stay closed; nobody acts above their rank |
| user attributes and services (`link.rs`, `accounts.rs`) | account, host, modes, away at home and in copies | SASL relay, SVS*, METADATA, CHGHOST, OPER | every copy says what the home server says |
| messages, history, watch lists (`coremods/core_message.rs`, `watch.rs`, `modules/chathistory.rs`) | histories, ACCEPT, SILENCE, WATCH, MONITOR and their reverse indexes | PRIVMSG and its refusals, replay, REDACT, add, remove, notify | a list follows the user it was meant for; nothing withheld is shown later |
| bridges, push, GeoIP, codecs, queries | sessions, caches | mostly pure or I/O | see section 7 |

`PROJECT.json` lists them all with their files, also the ones without a model.

### 1.3 What is hard here

* A nick collision is judged twice, at both ends of a link, at different times, on
  data the other end is changing; NICK, SAVE, QUIT and KILL lines cross.
* A channel can be created, emptied and created again on both sides while lines about
  its previous life are under way; a lower timestamp takes away status.
* Two servers may dial each other at once; a connection may be lost at one end only,
  or be reaped while its peer is alive but slow.
* Six independent holds delay a welcome (lookup, ident, cookie, CAP, challenge, slow
  password). Each is lifted by an event of its own that must try to register again.
* Lines are held during a lookup and replayed later, up to a limit above which a line
  overtakes the held ones.
* Reads end anywhere, sockets are edge-triggered, and a TLS session may hold a line
  that `poll` does not report.
* Snapshots are coalesced twice (per file, per table) and written by other threads;
  crashes come between any two of their steps.
* Lists that name nicks (ACCEPT, WATCH, MONITOR) must follow people who change them.
* Delayed and hidden joins make every client's picture of a channel different.
* The admission counters are adjusted step by step on many paths (refusal inside the
  accept, gateway address change, class change, kill, quit); one wrong path is wrong
  for ever.

`PROJECT.json`, "hazards", lists each at its line with the properties that watch it.

## 2. The modules

| module | models | checked by | proved in |
|---|---|---|---|
| `NetNicks` | the nick directory of a tree of servers | `MCNetNicks`: `nicks_pair`, `nicks_hub` | `NetNicks_proofs` |
| `LinkHandshake` | connections between servers | `MCLinkHandshake`: `link_handshake` | `LinkHandshake_proofs` |
| `ChannelSync` | one channel at every server | `MCChannelSync`: `chan_sync`, `chan_ops` | `ChannelSync_proofs` |
| `Registration` | a connection from accept to welcome, with classes, pool, bans and timer | `MCRegistration`: `reg_holds`, `reg_rivals` | `Registration_proofs`, with `FoldFacts` |
| `LineService` | what the socket engine promises the core (abstract) | as `ServesLines` of `SocketEngine` | not yet |
| `SocketEngine` | reactors, link and web threads, buffers, back pressure, close | `MCSocketEngine`: `sock_lines` | `SocketEngine_proofs`, with `FoldFacts` |
| `SnapshotStore` | what a persistent store promises (abstract) | as `KeepsSnapshots` of `Storage` | `Storage_proofs` |
| `Storage` | six stores, the disk writer, the database pools, crash and restart | `MCStorage`: `store_keeps` | `Storage_proofs` |
| `Channels` | the channels of one server, what clients and links are told of them | `MCChannels`: `chan_rooms` | not yet |
| `NetState` | attributes of users, services, x-lines, filters over a line of servers | `MCNetState`: `net_state` | not yet |
| `Messages` | messages, history, ACCEPT, SILENCE, WATCH, MONITOR on one server | `MCMessages`: `messages` | `Messages_proofs`, with `FoldFacts` |

`FoldFacts` models nothing: it holds the facts about folds and induction that the
proofs use. Operators keep the names of the functions they model. A definition whose comment
starts with "Mutant" is a plausible bug, used only to show that a property can fail.

The larger modules have a variable `setup`, chosen in `Init` from the constant `Setups`
and never changed: the commands, users and modes that take part in a behaviour. One
specification then covers every handler, while each behaviour plays a few that
interfere; a setup restricts which commands are given, never what a handler does.

### 2.1 NetNicks

State: the four tables of each server, with `users[u].phase` standing for "no
connection yet, connected, USER received, registered, gone"; `link[s][t]`, the state
of s's end of the connection with t; `net[s][t]`, the lines on their way, FIFO; a
global clock in seconds. A uuid is also a nick, as in the code, where a loser is renamed to it.

| action | code |
|---|---|
| `Connect`, `UserCmd`, `NickCmd`, `Register`, `Quit` | `add_conn`, `coremods/core_user.rs`, `users.rs` `set_nick`, `welcome` with the connect hook's `introduce_to_links`, `remove_user` |
| `route_kill` | `link.rs` `route_kill` |
| `add_link`, `link_server`, `close_link` | the functions of the same names with `burst_users` |
| `link_uid_recv`, `link_nick_recv`, `link_save_recv`, `link_quit_recv`, `link_kill_recv` | the functions of the same names with `resolve_collision`, `collision_decision`, `save_remote_user`, `drop_remote_user`, `source_behind`, `sourced_via` |

Faithful details that matter: `uid_line` puts the sign-on time where the receiver
reads the nick timestamp; `set_nick` and `propagate_nick` read the clock separately
(`Straddle`); a client without USER has an empty ident and is nobody's twin; the burst
walks a hash map in any order; a server knows only its direct neighbours; KILL is
routed and its QUIT goes back over the link it came from. What s has sent when it
closes may still be read by the peer; what it had not read is lost.

Abstracted: ident and ip into `Person`; hosts, accounts, modes; services servers,
whose users win every collision.

### 2.2 LinkHandshake

State: `conn[c]`, the ends of each dialled connection; `links[s][c]`, the `Link`
record (owes its SERVER line, has sent it, registered); `servers`, `link_blocks`,
`jupes`, the dials still due after a start; the lines on the wire, with `EOF` for the
end of the stream.

Actions: `Boot` (a configuration file is read), `AutoDial`, `Connect`, `add_link`,
`DialFails`, `link_server`, `ErrorRecv`, `ReapDead` (`dead_links`, for a link on which
nothing can be heard any more), `ReapSlow` (the same for a peer that is only late),
`Squit`, `Jupe`, `JupeChange`, `NetLoss`, `Crash` (with or without the kernel closing
the sockets). The dialler finds its password by the peer's address, the receiver by
name: both lookups return the first block, as `iter().find()` does.

### 2.3 ChannelSync

State: `chan[s]`, the channel at each server (timestamp, modes, bans, topic, members
with status) or `None`; `remote[s][u]`, the link through which s knows u. `dropped` is
a history variable: a server with a link has dropped the emptied channel since the
last full split.

Actions: `Register` (with the autojoin that runs before the introduction), `join`,
`part`, `Quit`, `Kick`, `Mode`, `TopicCmd`, `Sweep` (`channels.retain(keep_alive)`
runs on any departure from any channel), the link actions with `burst_users` and
`burst_channels`, and one `link_*_recv` per line: UID, QUIT, FJOIN, IJOIN, PART,
KICK, FMODE, FTOPIC. A UID line is taken only of a user the server does not know yet, as
in `link_uid_recv`. `Arbitrated` is the timestamp rule of `link_fjoin_recv`.

Not in this module: modes with a parameter (key, limit, flood ...), other lists than
bans, status other than operator, RENAME, the plain JOIN line, SVSJOIN/SVSPART. The
conditions under which `join` refuses a client are those of `Channels`: a refused join
changes nothing.

### 2.4 Registration

State: `core`, one record with everything the event loop owns: `users`, `nick_index`,
the pool counter, the three clone counters, the x-lines, who is challenged and who
has passed each gate, the cleared addresses, and the worker threads still running
(`jobs`). Helpers are functions from one `core` to the next in the order of the code,
so a handler that calls another is a composition and its early returns are the
branches.

| action | event |
|---|---|
| `add_conn` | accept: pool cap, connection policies, class, lookups, cookie |
| `Line` | NICK, USER, PASS, CAP, PONG, WEBIRC, PING, QUIT or the answer to a challenge, held while the lookup runs |
| `ResolvedHost`, `Ident`, `ConnclassAuth` | answers of workers, perhaps for a connection that is gone |
| `CryptoPanic` | a password worker dies: no event, its slot is returned |
| `VerifyPass`, `VerifyExpires` | the RPC method `verify.pass` and the expiry of a clearance |
| `set_login`, `AddXline`, `RemoveXline`, `ChgIdent`, `Kill` | services and operators; an x-line also expires |
| `Tick` | `connguard::tick` and `idle_check` |
| `Disconnect` | the socket is gone |

`try_register` and `complete_registration` have the order of the code: antirandom,
gates in hook order, K/Z-lines, ident, R-lines, class and its password, log-in lines.
K-, A- and E-lines match ident@host, and an ident (`IdentName`) is that of USER, of the
client's ident server, of `hashident` or of CHGIDENT: `finalize` applies the server's
answer after the K/Z check, `welcome` applies `hashident`, and nothing asks the lines
again. `vetted` (who the lines were asked about as it now is) and `user` (USER was
sent) are history.

Abstracted: time is counted in ticks, and each limit is a few ticks; `MaxDeferred`
stands for 32 and is 1, so that the overflow happens; a host name is what
`NameOf` gives; a policy module is the choice it can make (nothing, refuse, ban);
passwords are good or bad; a SASL exchange is its outcome, `set_login`. Per-class
overrides of timeouts and lookups and a rehash are left out.

### 2.5 SocketEngine, LineService

State: `st[c]`, a connection with its kind, its client's remaining script, the bytes in
the kernel, in the TLS session and in the read buffer, the output in each of the same
places, interest and raised edges, flags (handshaking, paused, closing, end of stream);
`pending_reads`; `box`, the events a thread is blocked on; `evq`, the core's bounded
queue; `sink`, the core's handle. `got` is history.

| action | code |
|---|---|
| `Accept`, `AcceptThread`, `Adopt` | the accept loops; the reactor takes over a handed connection |
| `OnReadable`, `OnWritable`, `Redrain`, `OnWake`, `HandshakeDeadline` | one branch each of the reactor's loop, with `read_conn`, `flush_conn`, `try_handshake`, `set_interest`, `close_conn` |
| `ThreadRead`, `ThreadWrite`, `WriterLoop`, `OpenTimeout`, `WsIdle` | link reader and writer; the thread of a web or proxied TLS client, with `do_handshake`, `parse_frame`, `deliver` |
| `Send` | a blocked thread gets its event into the queue |
| `CoreTake`, `CoreLine`, `CoreLimits`, `CoreDrop` | the core's side: take an event, write a line, set class limits, drop the sink |
| `PeerSend`, `PeerClose`, `PeerRead` | the client |

Bytes are atoms ("byte of line k", newline, handshake, header), so that a read can
end anywhere and a line can lose its head or tail visibly. Edges are modelled: readiness
raises an edge once, and registering a new interest raises it again. `LineService`
says what is left when all this is hidden: announced once, lines once, in order,
complete, the end last; the mapping takes `got` for the log and the smallest recvq in
force for the limit.

### 2.6 Storage, SnapshotStore

State: the records in memory (`mem`), what the owning module remembers of the last
save (`last`, `rep`), the newest snapshot taken, the disk writer's pending map entry,
batch and temporary file, what is `stored`, the flat file a database replaced
(`legacy`), the queue, workers, callbacks and results of the pool. A behaviour follows
one store (read markers, channel metadata, reputation, permanent channels, x-lines,
push subscriptions, or none) through one back end (file, PostgreSQL, Redis).

Actions: the commands that change each store with the save their handler makes;
`Tick` with every module's periodic work; `WriterTake`, `WriteTemp`, `Rename`; `Take`,
`Connect`, `execute_request`, `Panic` of a worker; `Dispatch`, `on_result` of queries;
`Crash`, `Restart`, `DatabaseDown`, `DatabaseUp`. Each store's conversion (`dump_*`,
`load_*`) is modelled by what it keeps: session markers are not written, expired bans
are not loaded, a permanent channel comes back without its members.

`SnapshotStore` is the register such a store should be; the mapping takes the rows the
module would write for its records.

### 2.7 Channels

State: `core`, the channels (members with prefixes, hidden by +D, modes, lists, timed
bans, flood and join counters), invitations and operators; `views[u][c]`, what u's
client can have concluded from the lines it was sent; `links[c]`, the same for the
linked servers. The announcing functions (`PutJoin`, `PutPart`, `PutMode` ...) change
the views of exactly the recipients the code computes, so a missing or superfluous line
is a wrong view. `links[c]` is changed only by lines and by what the receiving handlers
do with them: a MODE that takes +P or +r off an empty channel destroys it here and is an
FMODE there. History: `adrift` (names of which the linked servers hold another channel
than this one, since such a MODE), `untold` (list entries set without a line, or removed
by a line that the other side reads differently), `overrode` and `lapsed` (how a member
came to be in a closed channel).

Actions are the commands JOIN, PART, KICK, REMOVE, CYCLE, MODE, INVITE, UNINVITE, TBAN
and its end, RMODE, CLEARMODE, RENAME, OPER, SAJOIN, SAPART, SAMODE, OJOIN, SVSMODE, CAP
REQ of the end-to-end capability (`CapReq`; `core.e2e` is who has it), a spoken line (as
it reveals a hidden member and counts for +f), the quit, and `LinkSweep`, the departure
of somebody else's user that makes the linked servers drop their empty channels. A MODE line
is a sequence of letters that `ApplyLine` folds over `chan_mode_apply`, with the rank
check of each mode's own handler.

Abstracted: a mask matches one user, in small letters or in capitals (a MODE line
removes it in either spelling here and only as written over there), or sends them
elsewhere; a mode's value is good or
bad; flags that only the message path reads are the one flag m.

### 2.8 NetState

State: the record of each client at home and its copies at other servers, the ends and
queues of the links, the rules (x-lines, nick holds, filters) of each server with the
time they end, a clock. `shown`, `unsaid`, `term`, and of each client `untold` (the modes
+r and +s that changed without a MODE line) and `vetted` (as in `Registration`) are
history.

Actions: registration (the K/Z check, then the ident server's answer, then the welcome or
the phase "slow" that `ConnclassAuth` ends), quit, AWAY, SETNAME, OPER, MODE, CHGHOST,
CHGIDENT, AUTHENTICATE at home; x-line commands, XCOPY, RPC, filters and the purge;
`Receive`, which runs the handler of one line (UID, QUIT, AWAY, SETNAME, OPERTYPE, MODE,
CHGHOST, METADATA, SASL, the SVS* lines, ADDLINE, DELLINE, SVSHOLD, FILTER, SERVER, alone
or in ENCAP); the link's accept and split. What a services server sends (`ServicesSay`,
`ServicesReply`) is external: any command it may give.

### 2.9 Messages

State: the `User` fields of messages and presence, members with their ranks and
counters, the indexes `nick_index`, `accepted_nicks`, `watch_by`, `monitor_by`, the
histories, open batches, a clock. `log`, `shown` and `told` are history: what each
message was, who was shown it, what a watcher was last told; so are `hushed` (the client
sends nothing more of its own accord) and `reached` (whom a link's message was shown to
when it came: `deliver` sends an ops-only message to the links like any other, and
`relay_channel_message` shows it there to every member).

`Say` is the whole path of a PRIVMSG or NOTICE: the hooks (`PreMessage`) and the gates of
the channel (`ChannelGates`, in the order of `deliver`), each asked only when those
before it let the line pass (`Then`), or the gates of the recipient; recording,
delivery, and the flags the core looks at after the line (`Handled`). `Tag`, the batch
(`Open`, `BatchLine`, `Close`), `RelayMsg`, `link_message_recv` and `link_redact` are
the other ways a message comes; CHATHISTORY, the +H replay and REDACT read or change
histories; the remaining actions are the lists and the events that must update them.

A text is the set of features some gate tells apart (CTCP, colour, a filtered word ...).
A loop over a list whose turns do not affect each other (the counts and indexes of a
departing user, the channels it leaves) is written as its result, one function over the
nicks or channels; `Kept` is the source's `retain`.

## 3. Runs that pass

| run | instance | properties |
|---|---|---|
| `nicks_pair` | 2 servers, 1 client each, 2 nicks, 2 commands each, 3 seconds, 2 links in turn, KILL | `TypeOK`, `NickTablesAgree`, `NoRoutingGhost`, `DirectoryConverges`, `OneOwner`, `NoStaleNick` |
| `nicks_hub` | 3 servers in a row, clients at the ends, one nick, a clock that may move inside a handler; fair reading | `Introduced` (liveness) |
| `link_handshake` | 2 servers with 3 and 2 possible files, 2 connections, 2 faults; fair readers, dials and starts | `ServersFollowLinks`, `SharedSecret`, `HandshakeEnds`, `HalfOpenHeals` (liveness) |
| `chan_sync` | 2 servers, 1 client each, added modes and bans, 5 commands, 2 links in turn | `Converged`, `NoEmptyChannel` |
| `chan_ops` | the same with kick, mode removal, operator status, topic, autojoin, a permanent mode | `MembersHaveRecords`, `NoMissingMember`, `AgeNeverRises` (action property) |
| `reg_holds` | 1 connection with every hold, 4 lines, workers that are late or die | `NobodyForgotten`, `WelcomeEarned` (action property), `SilentIsReaped` (liveness) |
| `reg_rivals` | 2 connections, 2 addresses, a gateway, a class of one, a clone limit of one, a pool cap, CHGIDENT, a K-line on an ident, Z-lines, an R-line, an E-line | `TablesExact`, `ClassLimits`, `BansHonoured` |
| `sock_lines` | a connection of each of 6 kinds, scripts with broken starts and overlong lines, a core queue of 1, soft and hard output limits | `GoodbyeDelivered`, `ServesLines` (refinement), `NoLineStalls`, `NothingLingers` (liveness) |
| `store_keeps` | each store and back end, 2 commands, 1 crash, 1 fault, a queue of 1, one worker | `CallbackOnce`, `KeepsSnapshots` (refinement), `QueriesAnswered`, `ChangesReachStore` (liveness) |
| `chan_rooms` | 3 users, 3 channels, 12 plays | `ClientsFollow`, `LinksFollow`, `SecureRooms`, `RankDiscipline` (action property) |
| `net_state` | services and 3 servers in a line, 2 clients, 3 bans (one an exemption), a hold, a filter, 15 plays with splits | `CopiesAgree`, `RulesReach` |
| `messages` | 3 users, 3 nicks, 2 channels, 17 plays, 3 messages, 3 seconds | `AcceptanceFollows`, `WatchersKnow`, `NoLateDisclosure`, `FlooderLeaves` (liveness) |

**What they show.** *Nicks*: the two sides' independent verdicts leave one owner
(`OneOwner`) when nobody shares an ident and address; the tables are exact in every state,
not only quiet ones; a copy is never left with a nick its user gave up (`NoStaleNick`
allows the uuid, which a loser shows before its server has renamed it). *Links*: a server
is listed exactly while a registered link leads to it; every half-open state heals.
*Channels over links*: in all interleavings without a channel dropped under a link the
sides agree once quiet; the exception is `chan_churn` below. *Registration*: the six holds
are complete, that is, each is answered by an event that retries, and none is bypassed by
a line that overtakes; counters equal counts in every reachable state; a ban hits whoever
it is asked about, at the check or in the sweep. *Sockets*: whatever serves a client, the
core sees the same service; the last words are written before the close. *Storage*: the
writer's map, the temporary file and the pool's coalescing together are one register; a
query's callback is neither lost nor called twice. *Rooms*: no order of joins, redirects,
forced joins, renames and mode lines leaves a client or a linked server with another
channel than the server has, beyond the exceptions the properties name. *Attributes and
rules*: what a peer knows after any race of registration, services and relink is what the
home knows. *Messages*: ACCEPT, WATCH and MONITOR follow nicks that change hands in every
order of their updates; what +U or REDACT takes away does not come back through history; a
flooder that stops sending is removed although the line that marked it was denied.

**Exceptions a property names.** They are behaviours of the code that were found while
stating it: `NoMissingMember` (autojoined users; a ghost in the other direction),
`BansHonoured` and `RulesReach` (a client whose ident changed after the lines were
asked, who waited for a slow password since, or whose E-line has ended, each until the
next line of any kind is added), `ClassLimits` (by its instance: see `reg_gateway`),
`ClientsFollow` (the ban of `flood_kick`, entries removed in another spelling, the prefix
y, +u, hidemode), `LinksFollow` (the same bans and entries; names adrift),
`SecureRooms` (operators who overrode; who gave the end-to-end capability up inside),
`CopiesAgree` (two authors of a host, away before the introduction, servers more than
one hop away, +r after a login or logout and +s after OPER until a MODE line names them),
`RulesReach` (also regular-expression lines on connected clients and rules removed or set
twice; it is about rules still active, see `net_terms`), `WatchersKnow` (connections not
registered), `NoLateDisclosure` (the one live copy of a message that a link brings),
`FlooderLeaves` (a client that goes on sending), `ChangesReachStore` (a save that was
refused or failed; the last permanent channel gone before the first save after a start,
`NeverFlushed`).

**Bounds, and why they are enough.** Collisions need two users and one nick, and a third
state to fall back to: the second nick. Two links in turn give one netsplit and one new
burst; three seconds give earlier, equal and later timestamps with a renamed user in
between. One channel suffices in `ChannelSync` since channels do not affect each other
except through `Sweep`, which is an action of its own. Two connections between two servers
give the simultaneous dial and the successor of a dead link; two faults give a fault and a
fault during recovery. In `reg_holds` one connection needs four lines to register with
every hold, and `MaxDeferred = 1` makes the second held line overtake. In `reg_rivals` two
connections are enough to exceed each limit of one; one line of an operator, beside the
Z-lines that connectban and antirandom set, is a ban before or after the check, or an
exemption that ends (the instance of `reg_ident`, with three lines and an ident server,
passes with `BansHonoured` too); the gateway is exempt from the pool cap as loopback
addresses are, so that both can be in. In `sock_lines` connections share only the core's
queue, which one connection already fills (its bound is 1), so one at a time suffices; a
line longer than recvq stands between two that fit, and three bytes in the kernel against
reads of two cut them everywhere. In `store_keeps` two changes with a crash and a fault
cover a snapshot lost, superseded or half written; a pool queue of one is full at once.
`chan_rooms` needs an actor, a victim and an onlooker, and a channel to be sent to from a
channel one was sent to. In `net_state` the line a - b - c has a server of two links in
the middle and services at one end, so that every line is relayed once; a ban of two
seconds ends inside the behaviour. In `messages` a nick can pass from one user to another
while a third watches; histories of two lines overflow. Bounds are constants, most of them
named `Max...`; each is a guard of the action it limits.

`nicks_pair`, `nicks_twins` and `nicks_topology` use symmetry of the nicks: no
definition tells two of them apart, and the runs check no liveness.

**Deadlock** is checked in the `reg_*` runs and in `store_keeps`, where the timer never
stops. The other specifications stop when their bounds are used up and all lines are
read (`CHECK_DEADLOCK FALSE`).

**Fairness.** `NetNicks`: `WF` of reading each link, since the core drains its queue
and each reader blocks only on that queue. `LinkHandshake`: `WF` of the events of each
server (reader threads, timer), of the end of each dial (connect returns), of the
boot-time dial and of a start (the process is supervised). No fairness for opers,
faults or slow reaping. `Registration`: only `WF(Tick)`, the timer thread. Nothing is
assumed of clients, resolvers or password workers: `SilentIsReaped` says that the
timer alone ends a silent connection. It is stated for a client whose lines are used
up, because any line postpones the timeout. `SocketEngine`: the threads run whenever
they have something to do (the reactor's disjunction is written out, which spares TLC
computing `ENABLED` of it), the core takes events, deadlines pass, and clients read what
they are sent; the last is an assumption on clients, without which the code keeps the
socket. Nothing is assumed of when clients send or close. `Storage`: timer, writer and
workers run, the process is restarted, the database comes back. `Messages`: a client
that went quiet answers PING sooner or later or is removed (`PongAnswered`, written out
for the same reason), which `idle_check` enforces. It asks idle clients only, and every
line, a denied one too, makes a client active again (`ircd.rs:514`), so nothing is
assumed of one that goes on sending; no other command is fair.

## 4. Configurations that fail

Fourteen further configurations state what a comment or a document of the repository says
and the code does not do, or drop an exception that a property above makes. TLC refutes
each in seconds; they are kept to be run by hand, for instance

    tlc -config nicks_twins.cfg MCNetNicks

| configuration | module, property | what happens |
|---|---|---|
| `nicks_twins` | `MCNetNicks`, `OneOwner` | one person (same ident and address) on both sides with one nick: the UID line carries the sign-on time, the SAVE it provokes names a timestamp the owner does not have, and both keep the nick. `docs/linking.md:47`: "converges to one owner". |
| `nicks_topology` | `MCNetNicks`, `TopologyComplete` | the ends of a chain of three never learn of each other's users; `docs/linking.md:32`: "so the topology is complete". |
| `link_relink` | `MCLinkHandshake`, `RelinksAfterSplit` | an autoconnect link is dialled at boot only; `echoircd.conf.example:152`: "dial it on boot / after a netsplit". |
| `chan_churn` | `MCChannelSync`, `ChurnConverges` | last member leaves on one side while the first joins on the other: the sides keep different timestamps for good. `src/s2s_sim.rs` claims convergence for any interleaving of join and part. |
| `chan_autojoin` | `MCChannelSync`, `AutojoinShown` | autojoined channels are announced before the user is: the peer drops the join (`src/users.rs:629`). |
| `reg_gateway` | `MCRegistration`, `ClassLimits` | a gateway's client sends WEBIRC while its slow class password is checked: `change_ip` moves it to an address whose localmax is used up, and the verdict welcomes it without looking again (`src/modules/connclass.rs:599`, `src/coremods/core_user.rs:96`). |
| `reg_ident` | `MCRegistration`, `BannedStayOut` | the ident server's answer is applied after the K/Z check (`src/ircd.rs:754`), CHGIDENT and `hashident` later still, and a K-line on the new ident is not asked about: its target stays. The comment of `enforce_xlines` in `src/xline.rs`: "every connected local user that now matches an active x-line". |
| `sock_stall` | `MCSocketEngine`, `NoLineStalls` | with back pressure for TLS clients too: the catch-up read of `flush_conn` drops the answer that more is buffered (`src/socketengine.rs:1059`), and a line stays in the session. The comment at 558-560: "so no line stalls". |
| `store_pool` | `MCStorage`, `KeepsSnapshots` | with two workers (the default) the newer table may be committed first and the older over it (`src/database/mod.rs:824`). |
| `store_perm` | `MCStorage`, `NoStaleChannel` | after a restart `last` is empty as the text of no channels is: when the last permanent channel goes before the first save it is never erased. The comment at `src/modules/permchannels.rs:24`: "so the caller can drop a stale database". |
| `chan_empty` | `MCChannels`, `GoneTogether` | MODE -P on an empty channel culls it here (`src/coremods/core_mode.rs:203`, "normally culled the moment its final member leaves"); the linked servers read an FMODE, which never culls, and keep it until some departure. |
| `net_modes` | `MCNetState`, `ModesCurrent` | OPER sets +s besides +o and a login or logout flips +r; OPERTYPE and METADATA carry neither. The comment of `apply_umode_string` in `src/link.rs`: "so a remote user's `modes` stay current for WHOIS". |
| `msg_ops` | `MCMessages`, `OpsOnly` | an ops-only message of a +U channel goes to the links unmarked (`src/coremods/core_message.rs:549`) and is shown to every member there. `docs/modes.md:80`: "unprivileged msgs go to ops". |
| `net_terms` | `MCNetState`, `TermsKept` | a timed x-line that has run out and is not purged yet is burst with 0 seconds left, which means permanent (`src/link.rs:1743`). |

Other observations, made while modelling and without a configuration of their own:

* *Registration.* A ban set while a slow class password is checked misses its target, as
  does one whose exemption ends, until the next line is added; modules are not told of
  connections refused inside registration.
* *Sockets.* With rustls an end of stream inside the handshake counts as a slow peer; a
  link's reader delivers a truncated last line (`socketengine.rs:1256`); LineTooLong
  overtakes lines framed in the same read (952); a peer that does not read is never
  closed.
* *Storage.* Metadata of channels that are not permanent is pruned at the first tick after
  a restart (`modules/metadata.rs:43`); an emptied table lets the legacy file resurrect
  old rows; a database unreachable at the start loads the stale flat file; a save refused
  by a full queue waits for the next change; a retried batch may have been executed.
* *Channels.* `flood_kick`'s ban is announced to nobody (`channels.rs:1476`); the
  end-to-end capability may be given up inside a +E channel (`coremods/core_user.rs:291`);
  a list entry is removed in any spelling here and only as written by the peers
  (`link.rs:2805`); RENAME does not rekey invitations or saved metadata; services' -P or
  -r may leave an empty channel; operprefix announces members whose join is hidden; timed
  and flood bans bypass maxbans; REMOVE ignores +Q and service protection; SVSJOIN joins
  without the bypass its comment names (`coremods/core_oper.rs:788`).
* *Links.* Only neighbours are in the table of servers, so many lines from two hops away
  are dropped; OPERTYPE is not relayed; away is not part of an introduction; host changes
  by two authors can cross; a ban removed during a split returns; an RPC x-line, the
  removal of a filter and SVSHOLD at a burst do not spread; a SASL verdict after an abort
  still logs in.
* *Messages.* Batches and aliases bypass the hooks (`ircd.rs:578`); messages from other
  servers bypass SILENCE, +g, +R, +c and history (`link.rs:1782`); TAGMSG ignores SIGNORE
  and several channel modes; direct history is keyed by nick
  (`modules/chathistory.rs:252`); history outlives its channel; DCCALLOW does not follow
  renames; a client's REDACT is not propagated; a client that never stops flooding is
  denied line by line and stays, against `modules/flood.rs:3` and `docs/anti-abuse.md:55`.

## 5. Theorems

All proofs are for arbitrary constants that satisfy the assumptions of the module they
are about (`ConstantsAssumption`, `LinkAssumption`, `ChannelAssumption`,
`RegistrationAssumption`, `SocketAssumption`, `StorageAssumption`, `MessagesAssumption`):
any finite set of users, any set of connections or servers and any peering, any
configuration, any bounds. TLC evaluates each
assumption in the runs of its module.

| theorem | states that |
|---|---|
| `NetNicks_proofs!TypeCorrect`, `NickTablesCorrect`, `RoutesCorrect` | `TypeOK`, `NickTablesAgree`, `NoRoutingGhost` are invariants |
| `NetNicks_proofs!DirectoryCorrect` | `DirectoryConverges` is an invariant |
| `NetNicks_proofs!NicksFollow` | `NoStaleNick` is an invariant when a handler reads the clock once (`~Straddle`) |
| `LinkHandshake_proofs!ServersFollow`, `SecretsShared` | `ServersFollowLinks`, `SharedSecret` are invariants |
| `ChannelSync_proofs!TypeCorrect`, `MembersRecorded` | `TypeOK`, `MembersHaveRecords` are invariants |
| `ChannelSync_proofs!AgeMonotone` | the action property `AgeNeverRises` holds |
| `Registration_proofs!TypeCorrect`, `TablesCorrect`, `BansKept`, `NobodyLost` | `TypeOK`, `TablesExact`, `BansHonoured`, `NobodyForgotten` are invariants |
| `Registration_proofs!LimitsKept` | `ClassLimits` is an invariant when no gateway's client can be in a class with a slow password and a clone limit (`Sheltered`) |
| `Registration_proofs!WelcomesEarned` | the action property `WelcomeEarned` holds |
| `SocketEngine_proofs!GoodbyesDelivered` | `GoodbyeDelivered` is an invariant |
| `Storage_proofs!CalledOnce` | `CallbackOnce` is an invariant |
| `Storage_proofs!KeepsThem` | `Storage` implements `SnapshotStore` (`KeepsSnapshots`) with one worker or without PostgreSQL (`SingleWriter`) |
| `Messages_proofs!AcceptancesFollow`, `WatchersInformed` | `AcceptanceFollows`, `WatchersKnow` are invariants |
| `Messages_proofs!NothingDisclosedLate` | `NoLateDisclosure` is an invariant |

The three hypotheses are not conveniences: each excludes a behaviour of the code. With
two reads of the clock in one handler a SAVE may name a timestamp that nobody has
(`nicks_pair` with `Straddle = TRUE` and the invariant `NoStaleNick` fails); a
gateway that renames a client during its password check is `reg_gateway`; two workers
are `store_pool`. Each is satisfied by the instance of a passing run.

**Nicks.** `NickTablesAgree` alone is not inductive: `link_uid_recv` renames a loser to
its uuid, which would overwrite an index entry if somebody else were called by that
uuid. `IInv` therefore adds that a client, a copy and a line name a user only by a
name from `Name` or by that user's own uuid (the definition of `Line` carries it
through the queues), that a copy has a nick exactly when it has a route, that a
registered user is called something, and that no server is linked with itself. The
argument: two lemmas on nick tables (`MoveNickIndexes`, `FreeNicksIndexes`), lifted to
a server's own clients (`SetNickLocal`, `RemoveUserLocal`) and to its copies
(`SideMove`, `SideDrop`, `SaveRemote`); a holder who does not yield makes the newcomer
yield (`SomebodyYields`), so that local and remote nicks stay disjoint; then one lemma
per handler.

**Convergence of the directory.** `DirectoryConverges` speaks of quiet links only, so its
invariant says what the lines in flight still have to tell. `Tracked`: for every user u
and every peer of u's server, u is introduced at most once and before the peer knows
it; if u is registered the peer knows it or its UID is under way and no QUIT is; if u is
gone, everything said of it is followed by a QUIT. `Forgotten`: a copy without a route is
no copy. `Followed` adds what the peer will call u: the last line that names it, or the
SAVE that the owner has not read yet. Each is proved for one user seen by one peer and
preserved by reading a line, by writing lines and by the netsplit; a burst reaches
everybody because an injection between sets of one size is onto.

**Links.** `IInv` adds that a connection not yet dialled has no ends, that nobody dials
itself, and that a `Link` record belongs to an end of an open connection: without
these a connection number could be reused for another peer. `ClosedPreserves` is the
heart: every way a link ends goes through `close_link`, which removes exactly the
servers reached over it. For `SharedSecret` a second invariant, `SInv`, ties the wires to
the ends: what can be read on a connection was written by the end that is still there,
with the block that it still has (`Told`).

**Channels over links.** `IInv` is `TypeOK` with `MembersHaveRecords`, no self-link, and
remote users known only through their own server: FJOIN and IJOIN add only users with a
record, and what takes a record away takes the memberships.

**Registration.** `Good` collects what holds between any two calls inside a handler:
counters equal to the sizes of the sets they count (so that they cannot fall below
zero), the index exact, each user's flags consistent (`Tidy`: a held line only during a
lookup, a password check only after every other hold), a lookup that runs is waited for
(`Lookups`), limits respected where a client whose password is checked already counts
(`Within`, `Clones`), and nobody banned among the registered users in `vetted`
(`Unbanned`): the check and each sweep put a user there, and whatever changes its ident or
ends its exemption takes it out (`Judgement`, `Tunes`). So `BansKept` says that a line is
never missed by those who are asked about it, on every path, and not that nobody else
is there. Between events `Waits` (each hold has
its job) and `Held` (who is ready and has sent USER, `Ripe`, stands before a closed gate)
are added; inside
a handler they are false for the connection it is about. A relation `Step(S, T, c)` says
what any part of a handler about c may do to the others (drop them or leave them alone)
and composes, so the proof follows the code: one lemma per function, one per event. A
change of one user shifts each counter by that user's part (`Recounted`), which is all
the arithmetic there is. Folds (held lines, the clients of an address, the users that a
ban or a tick drops) are handled by `FoldFacts`: a fold is a function on the subsets of
its domain that satisfies an equation; such a function exists (`FoldExists`), and what
the base has and every step keeps, the result has (`FoldStays`). Both are proved by least
counterexample, since induction theorems with an operator parameter cannot be
instantiated.

**Sockets.** `GoodbyeDelivered` looks at a connection that is gone; what makes it true is
spread over the core, the queues and the threads. `Sound` relates each connection to the
core's sink: the core says nothing to a connection it has not heard of and nothing after
it let go, so a close is the last message of an output queue (`Ordered`); the reactor
has applied the whole queue before it acts on a close, and ends only with its buffers and
the TLS session empty, the client gone or the limit exceeded (`ReactorEnds`); a thread
meets the close after it has written every line before it, and is deaf from then on
(`ThreadEnds`). That the core has not heard of a connection must hold until its Connect is
taken, and a second Connect would make a dropped sink held again; hence `Once` (the event
queue and the blocked threads together hold at most one announcement of a connection) and
the last conjunct of `Whole` (while one is under way the sink is unset and the handshake
over). Inside a handler `Mid` says what may have become of the connection so far: the
flags the core set and the output queue are untouched, it is announced at most once and
only by ending its handshake or header, and it is gone only for a reason (`MayEnd`); one
lemma each for `close_conn`, `try_handshake`, `read_conn` and `flush_conn`. The folds
(reads, frames, lines of a buffer, queued messages) have values that form no set, so their
functions are built here size by size (`StepFoldExists`). The events of a read are only
known to announce nobody (`Quiet`): which lines they are does not matter to this theorem.

**Storage.** `Calls` is inductive for the callbacks. For the refinement `SInv` orders the
snapshots on their way: in the writer's map, its batch and the temporary file (`OnDisk`),
in the queue and in the worker's hands (`InPool`), each is not older than what is stored
and not newer than the newest. A crash leaves one of them or what was stored, which is
the abstract step.

**Messages.** `Good` is what every function keeps, between events and inside them. Its
first half, `Pres`, is about presence. `AcceptanceFollows` and `WatchersKnow` are not
inductive by themselves: `watch_notify_offline` tells only the clients in the reverse
index, so the index must hold exactly those who list the nick (`Indexed`, both ways);
`set_nick` and `remove_user` look at the ACCEPT lists only when the count is not zero, so
the count must cover the entries (`Counted`), and counts of different users' entries add
up (`Entries` is a union of disjoint sets); a nick must have the one owner whom
`nick_index` names, and only who is connected has one (`Peopled`). Inside a rename or a
departure `Knowing` is false for the nicks that change hands until the notification, which
is what `KnowingBut` and `Pending` say. The second half, `Disc`, is about disclosure: a
history holds only messages that everybody who can read it may see and that are not
redacted (`Open_in`); beyond that a message is shown only at the moment it comes, to those
it may be shown to or, when a link brings it, to those it reached. It has to be said of
every history and not of what is shown, since a reader may join long after the message.
The half that a function does not touch is carried along by `SamePres` and `SameDisc`, so
that a gate or a hook costs one lemma, and a chain of gates follows from `Then`. The folds
(the lines of a batch, the histories that record a quit, `Kept`) are handled as in
Registration: an equation over the subsets or prefixes of the domain has a solution, and
what every step keeps, the result has.

**Only model-checked.** Liveness (`Introduced`, `HandshakeEnds`, `HalfOpenHeals`,
`SilentIsReaped`, `NoLineStalls`, `NothingLingers`, `QueriesAnswered`,
`ChangesReachStore`, `FlooderLeaves`) and anything with `ENABLED` is outside the prover.
`OneOwner` is stated for the instance it is checked on: with one person on both sides it
is false (`nicks_twins`), and a trace on paper with two clients of one server, whose SAVEs
are ignored because they name sign-on times, suggests that it needs a hypothesis on who
renames when; it is checked with one client on each side. `Converged`, `NoMissingMember`
and `NoEmptyChannel` hold for two servers and the modes of their runs and not for every
instance: a chain of three servers knows only neighbours, a permanent channel may be
empty, an autojoin precedes its introduction. `Channels` folds mode lines and redirected
joins with `RECURSIVE` operators, which puts the module out of the prover's reach.
`ServesLines`, the refinement of `LineService`, stays with TLC: that each line comes out
once, whole and in order is a statement about what the framing folds compute from every
split of the bytes, which is induction over data. `NetState` has no proofs.

## 6. Plan

Proofs to add, most important first:

1. `NetState`: `RulesReach` on one link, with an invariant like `Tracked`.
2. `SocketEngine`: the part of `ServesLines` that needs no framing (announced once, the
   end last), from `Once` and `Mid`.

Modelling that is left: modes with a parameter and lists other than bans in the FJOIN
burst; SVSNICK, SVSJOIN and SWHOIS; the windows of the connection policies; a rehash
while clients are connected; the bridges' puppets.

## 7. Not modelled

* Codecs and wire formats: the line parser, tags, the TLS libraries, WebSocket masking,
  HTTP, JSON, DNS, database protocols, hashes. They have no shared state and their inputs
  are text; the models see what they decide.
* Read-only queries (WHO, WHOIS, LIST, NAMES, STATS, CHATHISTORY TARGETS ...), logging,
  metrics, translations.
* Configuration parsing, validation and rehash; models take a configuration as constants.
* The regular-expression engine and the spam filter's matching: a choice or a relation.
* Bridges and XMPP: puppets of external networks, most of it wire format.
* GeoIP, AS numbers, security groups, web push delivery, tokens: worker threads and pure
  lookups whose answers change no state modelled here.
* Live upgrade over `exec`: system calls on inherited listeners.
* `s2s_sim.rs`, a test harness, from whose claims `ChurnConverges` and `Converged` are
  stated; it delivers every line before the next command, which the models do not.
