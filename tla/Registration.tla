---------------------------- MODULE Registration ----------------------------
(***************************************************************************)
(* A connection of one server from its accept to its welcome or its end:   *)
(* the handshake commands, the lookups and the password check that worker  *)
(* threads answer later, the challenge gates, the bans, the connection     *)
(* classes and their counters, the timer.  The core handles one event at a *)
(* time, so every action below is one event; a line or an answer for a     *)
(* connection that is gone changes nothing and is left out.                *)
(* (ircd.rs, server.rs, users.rs, coremods/core_user.rs, connguard.rs,     *)
(* xline.rs, modules/connclass.rs, ident.rs, conn_waitpong.rs, dnsbl.rs,   *)
(* recaptcha.rs, cloudflare_challenge.rs, verify_common.rs, antirandom.rs) *)
(***************************************************************************)
EXTENDS Integers, Sequences, FiniteSets, SequencesExt, FiniteSetsExt

CONSTANTS
    Conn,            \* connections, by Uid (never reused)
    Nick,            \* nicknames
    IP,              \* addresses
    Name,            \* host names
    NameOf,          \* NameOf[ip]: the name an address resolves to
    From,            \* From[c]: the addresses c may connect from
    None,            \* no nick, no class, no ident
    ClassSeq,        \* the connectclass blocks, in the order of the configuration
    ClassRequired,   \* connectclass_required
    ConnectPolicies, \* what connflood, lockserv, jumpserver and connectban do
    Gates,           \* the enabled challenge modules, in hook order
    Whitelisted,     \* the connections on a port that the gates let through
    RandomNick,      \* the nicks antirandom scores too high
    AntirandomLine,  \* whether it also z-lines the address
    Gateway,         \* the addresses of the webirc blocks
    Local,           \* the loopback addresses
    XLines,          \* the x-lines that operators set
    DnsblActions,    \* the actions of the blocklist zones; {}: no zone
    ResolveHosts, UseIdent, RequireIdent, WaitPong, KillOnBadReply,
    RlineOnNickChange, HashIdent,            \* switches of the configuration
    Services,        \* whether services log users in
    ChgIdents,       \* whether operators, services and servers change idents
    MaxUnregistered, Floodwater,             \* 0: off
    RegTimeout, FloodTimeout, PingAfter, PingTimeout,   \* in ticks
    MaxDeferred,     \* handshake lines held during the lookups
    MaxLookups, MaxIdents, MaxCrypto,        \* worker threads of each kind
    Commands,        \* the lines that clients send
    MaxLines,        \* bound: lines of one connection
    MaxOper          \* bound: x-lines that operators set

Host      == IP \cup Name
ClassName == {ClassSeq[i].name : i \in DOMAIN ClassSeq}
Gate      == {Gates[i] : i \in DOMAIN Gates}
MaxIdle   == Max({RegTimeout, PingAfter + PingTimeout})

Class == [name : STRING, allow : SUBSET Host, deny : BOOLEAN, limit : Nat,
          localmax : Nat, globalmax : Nat, password : {"none", "plain", "kdf"}]

\* The names before the @: of USER, of the client's own ident server, of
\* hashident, of CHGIDENT.
IdentName == {"tilde", "real", "hash", "set"}

\* The mask of a line stands for ident@mask; None is any ident.
XLine == [kind : {"K", "Z", "R", "Q", "A", "E"}, mask : Host \cup Nick,
          ident : IdentName \cup {None}]

\* The lines of a client, with what their handlers make of the parameters.
Command == [cmd : {"NICK"}, arg : Nick] \cup [cmd : {"WEBIRC"}, arg : IP]
           \cup [cmd : {"PASS", "PONG"}, arg : {"good", "bad"}]
           \cup [cmd : {"VERIFY"}, arg : Gate]
           \cup [cmd : {"USER", "CAP_LS", "CAP_END", "PING", "QUIT"}, arg : {None}]

\* A class is looked up by its name, so that blocks of one name are the same.
ASSUME RegistrationAssumption ==
    /\ IsFiniteSet(Conn) /\ IsFiniteSet(Nick) /\ IsFiniteSet(IP) /\ IP # {}
    /\ NameOf \in [IP -> Name] /\ From \in [Conn -> SUBSET IP]
    /\ ClassSeq \in Seq(Class) /\ Gates \in Seq(STRING)
    /\ \A i, j \in DOMAIN ClassSeq :
          ClassSeq[i].name = ClassSeq[j].name => ClassSeq[i] = ClassSeq[j]
    /\ None \notin Nick \cup ClassName \cup Conn \cup IdentName
    /\ XLines \subseteq XLine /\ Commands \subseteq Command
    /\ \A k \in {ResolveHosts, UseIdent, RequireIdent, WaitPong, KillOnBadReply,
                 RlineOnNickChange, HashIdent, Services, ChgIdents} : k \in BOOLEAN
    /\ \A k \in {MaxUnregistered, Floodwater, RegTimeout, FloodTimeout, PingAfter,
                 PingTimeout, MaxDeferred, MaxLookups, MaxIdents, MaxCrypto,
                 MaxLines, MaxOper} : k \in Nat

VARIABLES
    core,      \* what the event loop owns: the Server and its modules' state
    sent,      \* sent[c]: lines of c so far
    ruled      \* x-lines set by operators so far

vars == <<core, sent, ruled>>

\* user is history: the client has sent USER.
User == [phase : {"new", "live", "gone"}, registered : BOOLEAN,
         nick : Nick \cup {None}, ident : IdentName \cup {None}, host : Host,
         ip : IP, account : BOOLEAN, class : ClassName \cup {None},
         pass : {"none", "good", "bad"}, cap : BOOLEAN, dns_pending : BOOLEAN,
         ident_pending : BOOLEAN, auth_pending : BOOLEAN, waitpong : BOOLEAN,
         answer : {"none", "refused", "confirmed"}, deferred : Seq(Commands),
         idle : 0 .. MaxIdle, ping_sent : BOOLEAN, user : BOOLEAN]

\* A worker thread: what it looks up (the address the client came from, or
\* whether its password is right), or the one that died without an answer.
Job == [kind : {"dns", "ident", "auth", "dead"}, uid : Conn,
        arg : IP \cup BOOLEAN \cup {None}]

\* vetted is history: who the x-lines were asked about as it now is.
Core == [users : [Conn -> User], nick_index : [Nick -> Conn \cup {None}],
         unreg : Nat, per_ip : [IP -> Nat], per_class : [ClassName -> Nat],
         per_ip_class : [IP \X ClassName -> Nat], xlines : SUBSET XLine,
         challenged : [Gate -> SUBSET Conn], passed : [Gate -> SUBSET Conn],
         cleared : SUBSET IP, jobs : SUBSET Job, vetted : SUBSET Conn]

AnyIP == CHOOSE ip \in IP : TRUE

NewUser(ip, phase) ==
    [phase |-> phase, registered |-> FALSE, nick |-> None, ident |-> None,
     host |-> ip, ip |-> ip, account |-> FALSE, class |-> None, pass |-> "none",
     cap |-> FALSE, dns_pending |-> FALSE, ident_pending |-> FALSE,
     auth_pending |-> FALSE, waitpong |-> FALSE, answer |-> "none",
     deferred |-> <<>>, idle |-> 0, ping_sent |-> FALSE, user |-> FALSE]

Live(S)       == {c \in Conn : S.users[c].phase = "live"}
Registered(S) == {c \in Live(S) : S.users[c].registered}
Running(S, k) == {j \in S.jobs : j.kind = k}

-----------------------------------------------------------------------------
(* Counters: connguard's pool and connclass's clone counts                  *)

\* inc, dec: a key the table does not have (no class) is left alone.
Bumped(f, k, d) == IF k \in DOMAIN f THEN [f EXCEPT ![k] = @ + d] ELSE f

note_left_pool(n) == IF n = 0 THEN 0 ELSE n - 1      \* saturating_sub

count_disconnect(S, ip, class) ==
    [S EXCEPT !.per_ip       = Bumped(@, ip, -1),
              !.per_class    = Bumped(@, class, -1),
              !.per_ip_class = Bumped(@, <<ip, class>>, -1)]

\* Mutant: the old class keeps its count.
set_class_kept(S, c, class) ==
    [S EXCEPT !.users[c].class = class,
              !.per_class    = Bumped(@, class, 1),
              !.per_ip_class = Bumped(@, <<S.users[c].ip, class>>, 1)]

set_class(S, c, class) ==
    LET u == S.users[c]
    IN  [S EXCEPT !.users[c].class = class,
                  !.per_class    = Bumped(Bumped(@, u.class, -1), class, 1),
                  !.per_ip_class = Bumped(Bumped(@, <<u.ip, u.class>>, -1),
                                          <<u.ip, class>>, 1)]

change_ip(S, c, ip) ==
    LET u == S.users[c]
    IN  [S EXCEPT !.per_ip       = Bumped(Bumped(@, u.ip, -1), ip, 1),
                  !.per_ip_class = Bumped(Bumped(@, <<u.ip, u.class>>, -1),
                                          <<ip, u.class>>, 1)]

over_cap(S)     == MaxUnregistered > 0 /\ S.unreg > MaxUnregistered
flood_active(S) == Floodwater > 0 /\ S.unreg > Floodwater

-----------------------------------------------------------------------------
(* The end of a connection                                                  *)

remove_user(S, c) ==
    LET u == S.users[c]
        left == count_disconnect(S, u.ip, u.class)
    IN  IF u.phase # "live" THEN S
        ELSE [left EXCEPT
                !.users[c]   = NewUser(AnyIP, "gone"),
                !.unreg      = IF u.registered THEN @ ELSE note_left_pool(@),
                !.nick_index = [n \in Nick |-> IF n = u.nick THEN None ELSE @[n]]]

\* on_user_quit of the two gates, then remove_user.
quit_user(S, c) ==
    remove_user([S EXCEPT !.challenged = [g \in Gate |-> @[g] \ {c}],
                          !.passed     = [g \in Gate |-> @[g] \ {c}]], c)

RemoveAll(S, cs) == FoldSet(LAMBDA c, acc : remove_user(acc, c), S, cs)

-----------------------------------------------------------------------------
(* X-lines: K on ident@host, Z on the address, R on the identity, A (log in *)
(* first) on ident@host or the address, Q on nicks.  An E-line on           *)
(* ident@host lifts K and Z.                                                *)

Zline(ip) == [kind |-> "Z", mask |-> ip, ident |-> None]

Covers(x, u) == x.mask = u.host /\ x.ident \in {None, u.ident}

is_exempt(S, u) == \E x \in S.xlines : x.kind = "E" /\ Covers(x, u)

matched_xline(S, u) ==
    /\ ~is_exempt(S, u)
    /\ \E x \in S.xlines : \/ x.kind = "K" /\ Covers(x, u)
                           \/ x.kind = "Z" /\ x.mask = u.ip

RlineHits(x, u) == x.kind = "R" /\ x.mask = u.nick /\ x.ident \in {None, u.ident}

matched_rline(S, u)        == \E x \in S.xlines : RlineHits(x, u)
matched_qline(S, n)        == \E x \in S.xlines : x.kind = "Q" /\ x.mask = n
matched_require_auth(S, u) ==
    \E x \in S.xlines : x.kind = "A" /\ (Covers(x, u) \/ x.mask = u.ip)

\* Every registered user is asked about, whatever line was added.
Judged(S) == [S EXCEPT !.vetted = @ \cup Registered(S)]

enforce_xlines(S) ==
    RemoveAll(Judged(S), {c \in Registered(S) : matched_xline(S, S.users[c])})

\* Mutant: the connected users are not looked at.
add_xline_store_only(S, x) == [S EXCEPT !.xlines = @ \cup {x}]

\* The line is stored and the registered users that any line hits are dropped.
add_xline(S, x) == enforce_xlines([S EXCEPT !.xlines = @ \cup {x}])

\* RLINE of an operator: the users that the new line hits.
enforce_rline(S, x) == RemoveAll(S, {c \in Registered(S) : RlineHits(x, S.users[c])})

\* Who loses its E-line is not looked at.
remove_xline(S, x) ==
    LET T == [S EXCEPT !.xlines = @ \ {x}]
        lost(u) == is_exempt(S, u) /\ ~is_exempt(T, u)
    IN  [T EXCEPT !.vetted = {c \in @ : ~lost(S.users[c])}]

-----------------------------------------------------------------------------
(* Connection classes                                                       *)

\* Connections other than c in a class, and in it from c's address.
class_count(S, c, class) ==
    S.per_class[class] - (IF S.users[c].class = class THEN 1 ELSE 0)

local_clones(S, c, class) ==
    LET u == S.users[c]
    IN  S.per_ip_class[<<u.ip, class>>] - (IF u.class = class THEN 1 ELSE 0)

global_clones(S, c) == S.per_ip[S.users[c].ip] - 1

\* Mutant: a full class still takes one more.
Suitable_one_more(S, c, host, i) ==
    /\ ClassSeq[i].allow \cap {S.users[c].ip, host} # {}
    /\ \/ ClassSeq[i].deny
       \/ ClassSeq[i].limit = 0
       \/ class_count(S, c, ClassSeq[i].name) <= ClassSeq[i].limit

\* pick: the first block that matches and denies, or matches and has room.
Suitable(S, c, host, i) ==
    /\ ClassSeq[i].allow \cap {S.users[c].ip, host} # {}
    /\ \/ ClassSeq[i].deny
       \/ ClassSeq[i].limit = 0
       \/ class_count(S, c, ClassSeq[i].name) < ClassSeq[i].limit

pick(S, c, host) ==
    LET ok == {i \in DOMAIN ClassSeq : Suitable(S, c, host, i)}
    IN  IF ok = {} THEN 0 ELSE Min(ok)

\* Whether the class refuses one more connection from c's address; 0: no limit.
TooMany(S, c, i) ==
    LET k == ClassSeq[i]
    IN  \/ k.localmax > 0 /\ local_clones(S, c, k.name) >= k.localmax
        \/ k.globalmax > 0 /\ global_clones(S, c) >= k.globalmax

Index(class) == CHOOSE i \in DOMAIN ClassSeq : ClassSeq[i].name = class

-----------------------------------------------------------------------------
(* From the handshake to the welcome                                        *)

\* A log-in line refuses whoever has no account; the others are registered,
\* and hashident, a hook of the welcome, gives them an ident that no x-line
\* was asked about.
welcome(S, c) ==
    LET u == S.users[c]
    IN  IF matched_require_auth(S, u) /\ ~u.account THEN remove_user(S, c)
        ELSE [S EXCEPT !.users[c] =
                          [@ EXCEPT !.registered = TRUE,
                                    !.ident = IF HashIdent THEN "hash" ELSE u.ident],
                       !.unreg  = note_left_pool(@),
                       !.vetted = IF HashIdent /\ u.ident # "hash" THEN @ \ {c} ELSE @]

\* The class is picked again now that the host is known; a slow password is
\* checked by a worker, with the password given so far.
on_register(S, c, busy) ==
    LET i    == pick(S, c, S.users[c].host)
        R    == IF i = 0 THEN S ELSE set_class(S, c, ClassSeq[i].name)
        u    == R.users[c]
        k    == Index(u.class)
        good == u.pass = "good"
        job  == [kind |-> "auth", uid |-> c, arg |-> good]
    IN  IF i # 0 /\ ClassSeq[i].deny                THEN remove_user(S, c)
        ELSE IF u.class = None                      THEN welcome(R, c)
        ELSE IF TooMany(R, c, k)                    THEN remove_user(R, c)
        ELSE IF ClassSeq[k].password = "none"       THEN welcome(R, c)
        ELSE IF ClassSeq[k].password = "plain"
             THEN IF good THEN welcome(R, c) ELSE remove_user(R, c)
        ELSE IF busy                                THEN remove_user(R, c)
        ELSE [R EXCEPT !.users[c].auth_pending = TRUE, !.jobs = @ \cup {job}]

\* on_user_register of a gate lets c through.
Cleared(S, c, g) ==
    c \in S.passed[g] \/ c \in Whitelisted \/ S.users[c].ip \in S.cleared

Closed(S, c) == {i \in DOMAIN Gates : ~Cleared(S, c, Gates[i])}

antirandom(u) == u.nick \in RandomNick /\ ~u.account

\* ident::finalize: a confirmed name replaces the one of USER, after the
\* x-lines were asked about that one.
finalize(S, c) ==
    LET u == S.users[c]
        name == IF u.answer = "confirmed" THEN "real" ELSE u.ident
    IN  [S EXCEPT !.users[c].ident = name,
                  !.vetted = IF name = u.ident THEN @ \cup {c} ELSE @ \ {c}]

complete_registration(S, c, busy) ==
    LET u == S.users[c]
        F == finalize(S, c)
    IN  IF antirandom(u)
        THEN remove_user(IF AntirandomLine
                         THEN add_xline(S, Zline(u.ip)) ELSE S, c)
        ELSE IF Closed(S, c) # {}
        THEN [S EXCEPT !.challenged[Gates[Min(Closed(S, c))]] = @ \cup {c}]
        ELSE IF matched_xline(S, u)                          THEN remove_user(S, c)
        ELSE IF RequireIdent /\ F.users[c].ident = "tilde"   THEN remove_user(F, c)
        ELSE IF matched_rline(F, F.users[c])                 THEN remove_user(F, c)
        ELSE on_register(F, c, busy)

\* Mutant: the cookie is not waited for.
ready_no_cookie(u) ==
    /\ u.phase = "live" /\ ~u.registered
    /\ u.nick # None /\ u.ident # None
    /\ ~u.cap /\ ~u.dns_pending /\ ~u.ident_pending /\ ~u.auth_pending

ready(u) ==
    /\ u.phase = "live" /\ ~u.registered
    /\ u.nick # None /\ u.ident # None
    /\ ~u.cap /\ ~u.dns_pending /\ ~u.ident_pending /\ ~u.auth_pending
    /\ ~u.waitpong

try_register(S, c, busy) ==
    IF ready(S.users[c]) THEN complete_registration(S, c, busy) ELSE S

-----------------------------------------------------------------------------
(* Commands                                                                 *)

set_nick(S, c, n) ==
    [S EXCEPT !.nick_index = [m \in Nick |-> IF m = n THEN c
                                            ELSE IF m = S.users[c].nick THEN None
                                            ELSE @[m]],
              !.users[c].nick = n]

NickCmd(S, c, n) ==
    LET N == set_nick(S, c, n)
    IN  IF matched_qline(S, n) \/ S.nick_index[n] # None THEN S
        ELSE IF RlineOnNickChange /\ matched_rline(N, N.users[c])
             THEN remove_user(N, c) ELSE N

\* A gateway of a webirc block names its client's address.
WebIrc(S, c, ip) ==
    IF S.users[c].ip \notin Gateway THEN S
    ELSE [change_ip(S, c, ip) EXCEPT !.users[c] = [@ EXCEPT !.ip = ip, !.host = NameOf[ip]]]

on_pong(S, c, good) ==
    IF ~S.users[c].waitpong THEN S
    ELSE IF good            THEN [S EXCEPT !.users[c].waitpong = FALSE]
    ELSE IF KillOnBadReply  THEN remove_user(S, c)
    ELSE S

\* The handlers that a client may call before it is registered.
Handled(S, c, l) ==
    LET early == ~S.users[c].registered
    IN  CASE l.cmd = "NICK"   -> NickCmd(S, c, l.arg)
          [] l.cmd = "USER"   -> IF early THEN [S EXCEPT !.users[c] = [@ EXCEPT !.ident = "tilde",
                                                                            !.user = TRUE]]
                              ELSE S
          [] l.cmd = "PASS"   -> IF early THEN [S EXCEPT !.users[c].pass = l.arg] ELSE S
          [] l.cmd = "CAP_LS"  -> [S EXCEPT !.users[c].cap = TRUE]
          [] l.cmd = "CAP_END" -> [S EXCEPT !.users[c].cap = FALSE]
          [] l.cmd = "PONG"   -> on_pong(S, c, l.arg = "good")
          [] l.cmd = "WEBIRC" -> IF early THEN WebIrc(S, c, l.arg) ELSE S
          [] l.cmd = "VERIFY" -> [S EXCEPT !.passed[l.arg] = @ \cup {c}]
          [] l.cmd = "PING"   -> S
          [] l.cmd = "QUIT"   -> quit_user(S, c)

\* A handler, then the attempt to register that follows it.
dispatch(S, c, l, busy) == try_register(Handled(S, c, l), c, busy)

\* While the lookups of c run its lines are held, up to MaxDeferred of them.
on_line(S, c, l, busy) ==
    LET u == S.users[c]
        A == [S EXCEPT !.users[c] = [@ EXCEPT !.idle = 0, !.ping_sent = FALSE]]
    IN  IF u.phase # "live" THEN S
        ELSE IF u.dns_pending /\ Len(u.deferred) < MaxDeferred
             THEN [A EXCEPT !.users[c].deferred = Append(@, l)]
             ELSE dispatch(A, c, l, busy)

-----------------------------------------------------------------------------
(* Events                                                                   *)

\* A worker slot is surely free below the limit; above it, it may be freed in
\* time, since a worker gives its slot back before its answer is handled.
Grants(S, kind, max) == {TRUE} \cup {g \in {FALSE} : Cardinality(Running(S, kind)) >= max}

Busy(S) == {~g : g \in Grants(S, "auth", MaxCrypto)}

\* connclass::assign at the connect, when no host is known: 0 refuses.
assign(S, c) ==
    LET i == pick(S, c, S.users[c].ip)
    IN  IF i = 0 THEN IF ClassRequired /\ \E k \in DOMAIN ClassSeq : ~ClassSeq[k].deny
                      THEN remove_user(S, c) ELSE S
        ELSE IF ClassSeq[i].deny \/ TooMany(S, c, i) THEN remove_user(S, c)
        ELSE set_class(S, c, ClassSeq[i].name)

\* The lookups that hold the registration, and the cookie.
Started(S, c, dns, ident) ==
    LET d == dns /\ (ResolveHosts \/ DnsblActions # {})
        i == ident /\ (UseIdent \/ RequireIdent)
        D == [kind |-> "dns", uid |-> c, arg |-> S.users[c].ip]
        I == [kind |-> "ident", uid |-> c, arg |-> None]
    IN  [S EXCEPT !.users[c] = [@ EXCEPT !.dns_pending = d, !.ident_pending = i,
                                         !.waitpong = WaitPong],
                  !.jobs = @ \cup {j \in {D} : d} \cup {j \in {I} : i}]

add_conn(c) ==
    /\ core.users[c].phase = "new"
    /\ \E ip \in From[c], policy \in ConnectPolicies,
          dns \in Grants(core, "dns", MaxLookups), ident \in Grants(core, "ident", MaxIdents) :
         LET far == ip \notin Local
             N == [core EXCEPT !.users[c] = NewUser(ip, "live"), !.unreg = @ + 1,
                               !.per_ip[ip] = @ + 1]
             B == IF far /\ policy = "ban"
                  THEN add_xline(N, Zline(ip)) ELSE N
             A == assign(B, c)
         IN  core' = IF far /\ (over_cap(N) \/ policy = "refuse") THEN remove_user(N, c)
                     ELSE IF A.users[c].phase = "gone" THEN A
                     ELSE Started(A, c, dns, ident)
    /\ UNCHANGED <<sent, ruled>>

Line(c) ==
    /\ c \in Live(core) /\ sent[c] < MaxLines
    /\ \E l \in Commands, busy \in Busy(core) : core' = on_line(core, c, l, busy)
    /\ sent' = [sent EXCEPT ![c] = @ + 1]
    /\ UNCHANGED ruled

Disconnect(c) ==
    /\ c \in Live(core)
    /\ core' = quit_user(core, c)
    /\ UNCHANGED <<sent, ruled>>

\* dnsbl::act on a listed address.
act(S, c, action) ==
    LET x == [Zline(S.users[c].ip) EXCEPT !.kind = IF action = "zline" THEN "Z" ELSE "K"]
    IN  IF is_exempt(S, S.users[c]) \/ action = "mark" THEN S
        ELSE IF action \in {"zline", "kline"} /\ x \notin S.xlines
             THEN remove_user(add_xline(S, x), c)
        ELSE remove_user(S, c)

\* on_resolved: the host, then the blocklists' verdict, then the hold is lifted.
on_resolved(S, c, ip, named, verdict) ==
    LET H == IF named THEN [S EXCEPT !.users[c].host = NameOf[ip]] ELSE S
        D == IF verdict = "clean" THEN H ELSE act(H, c, verdict)
    IN  [D EXCEPT !.users[c].dns_pending = FALSE]

ResolvedHost(c) ==
    \E j \in {k \in Running(core, "dns") : k.uid = c}, busy \in Busy(core) :
    \E named \in {FALSE, ResolveHosts}, verdict \in {"clean"} \cup DnsblActions :
       LET J == [core EXCEPT !.jobs = @ \ {j}]
           D == on_resolved(J, c, j.arg, named, verdict)
           lines == D.users[c].deferred
           T == [D EXCEPT !.users[c].deferred = <<>>]
           R == FoldLeft(LAMBDA acc, l : on_line(acc, c, l, busy), T, lines)
       IN  /\ core' = IF c \in Live(core) THEN try_register(R, c, busy) ELSE J
           /\ UNCHANGED <<sent, ruled>>

\* Mutant: the answer is stored and registration is not tried again.
Ident_no_retry(c) ==
    \E j \in {k \in Running(core, "ident") : k.uid = c}, answer \in {"refused", "confirmed"} :
       LET J == [core EXCEPT !.jobs = @ \ {j}]
           A == [J EXCEPT !.users[c] = [@ EXCEPT !.answer = answer, !.ident_pending = FALSE]]
       IN  /\ core' = IF c \in Live(core) THEN A ELSE J
           /\ UNCHANGED <<sent, ruled>>

Ident(c) ==
    \E j \in {k \in Running(core, "ident") : k.uid = c} :
    \E answer \in {"refused", "confirmed"}, busy \in Busy(core) :
       LET J == [core EXCEPT !.jobs = @ \ {j}]
           A == [J EXCEPT !.users[c] = [@ EXCEPT !.answer = answer, !.ident_pending = FALSE]]
       IN  /\ core' = IF c \in Live(core) THEN try_register(A, c, busy) ELSE J
           /\ UNCHANGED <<sent, ruled>>

\* The password verdict welcomes or refuses whoever still waits for it; the
\* x-lines that came meanwhile are not asked about.
ConnclassAuth(c) ==
    \E j \in {k \in Running(core, "auth") : k.uid = c} :
       LET J == [core EXCEPT !.jobs = @ \ {j}]
           A == [J EXCEPT !.users[c].auth_pending = FALSE, !.vetted = @ \ {c}]
       IN  /\ core' = IF ~core.users[c].auth_pending THEN J
                      ELSE IF j.arg THEN welcome(A, c) ELSE remove_user(A, c)
           /\ UNCHANGED <<sent, ruled>>

\* spawn_crypto: a worker that panics answers nothing.
CryptoPanic(c) ==
    \E j \in {k \in Running(core, "auth") : k.uid = c} :
       /\ core' = [core EXCEPT !.jobs = (@ \ {j}) \cup {[j EXCEPT !.kind = "dead"]}]
       /\ UNCHANGED <<sent, ruled>>

\* verify.pass: the address is cleared and its clients are tried again, in the
\* order of the user table.
VerifyPass(ip) ==
    /\ Gates # <<>> /\ ip \notin core.cleared
    /\ \E order \in SetToSeqs({c \in Live(core) \ Registered(core) : core.users[c].ip = ip}),
          busy \in Busy(core) :
         core' = FoldLeft(LAMBDA acc, c : try_register(acc, c, busy),
                          [core EXCEPT !.cleared = @ \cup {ip}], order)
    /\ UNCHANGED <<sent, ruled>>

\* The clearance of an address runs out and is purged.
VerifyExpires(ip) ==
    /\ ip \in core.cleared
    /\ core' = [core EXCEPT !.cleared = @ \ {ip}]
    /\ UNCHANGED <<sent, ruled>>

\* Services log c in.
set_login(c) ==
    /\ Services /\ c \in Live(core) /\ ~core.users[c].account
    /\ core' = [core EXCEPT !.users[c].account = TRUE]
    /\ UNCHANGED <<sent, ruled>>

\* An operator, services or another server sets an x-line; only the operator's
\* RLINE looks for the users that a new R-line hits.
AddXline(x) ==
    /\ x \notin core.xlines /\ ruled < MaxOper
    /\ \/ core' = add_xline(core, x)
       \/ x.kind = "R" /\ core' = enforce_rline(add_xline(core, x), x)
    /\ ruled' = ruled + 1
    /\ UNCHANGED sent

\* An x-line is removed, or expires.
RemoveXline(x) ==
    /\ core' = remove_xline(core, x)
    /\ UNCHANGED <<sent, ruled>>

\* CHGIDENT and SETIDENT of an operator, CHGIDENT of services or of another
\* server: the target is found by its nick, registered or not; neither the
\* x-lines nor the registration are tried again.
ChgIdent(c) ==
    /\ ChgIdents /\ core.users[c].ident # "set"
    /\ \E n \in Nick : core.nick_index[n] = c
    /\ core' = [core EXCEPT !.users[c].ident = "set", !.vetted = @ \ {c}]
    /\ UNCHANGED <<sent, ruled>>

\* KILL finds its target by nick, registered or not.
Kill(c) ==
    /\ \E n \in Nick : core.nick_index[n] = c
    /\ core' = remove_user(core, c)
    /\ UNCHANGED <<sent, ruled>>

\* idle_check: who is silent for too long, and who is due a PING.
reg_timeout(S) == IF flood_active(S) THEN Min({RegTimeout, FloodTimeout}) ELSE RegTimeout

\* Mutant: who waits for a password check is not timed out.
ToQuit_spares_auth(S) ==
    {c \in Live(S) : LET u == S.users[c]
                     IN  \/ ~u.registered /\ ~u.auth_pending /\ u.idle >= reg_timeout(S)
                         \/ u.registered /\ u.ping_sent /\ u.idle >= PingAfter + PingTimeout}

ToQuit(S) ==
    {c \in Live(S) : LET u == S.users[c]
                     IN  \/ ~u.registered /\ u.idle >= reg_timeout(S)
                         \/ u.registered /\ u.ping_sent /\ u.idle >= PingAfter + PingTimeout}

ToPing(S) ==
    {c \in Registered(S) : ~S.users[c].ping_sent /\ S.users[c].idle >= PingAfter}

\* connguard::tick counts the pool anew, then the silent are pinged or dropped.
Tick ==
    LET older(u) == [u EXCEPT !.idle = IF u.phase = "live" /\ @ < MaxIdle THEN @ + 1 ELSE @]
        O == [core EXCEPT !.unreg = Cardinality(Live(core) \ Registered(core)),
                          !.users = [c \in Conn |-> older(@[c])]]
        P == [O EXCEPT !.users = [c \in Conn |->
                 IF c \in ToPing(O) THEN [@[c] EXCEPT !.ping_sent = TRUE] ELSE @[c]]]
    IN  /\ core' = FoldSet(LAMBDA c, acc : quit_user(acc, c), P, ToQuit(O))
        /\ UNCHANGED <<sent, ruled>>

-----------------------------------------------------------------------------
Init ==
    /\ core = [users |-> [c \in Conn |-> NewUser(AnyIP, "new")],
               nick_index |-> [n \in Nick |-> None], unreg |-> 0,
               per_ip |-> [ip \in IP |-> 0], per_class |-> [k \in ClassName |-> 0],
               per_ip_class |-> [k \in IP \X ClassName |-> 0], xlines |-> {},
               challenged |-> [g \in Gate |-> {}], passed |-> [g \in Gate |-> {}],
               cleared |-> {}, jobs |-> {}, vetted |-> {}]
    /\ sent = [c \in Conn |-> 0]
    /\ ruled = 0

Next ==
    \/ \E c \in Conn : \/ add_conn(c) \/ Line(c) \/ Disconnect(c) \/ ResolvedHost(c)
                      \/ Ident(c) \/ ConnclassAuth(c) \/ CryptoPanic(c)
                      \/ set_login(c) \/ ChgIdent(c) \/ Kill(c)
    \/ \E ip \in IP : VerifyPass(ip) \/ VerifyExpires(ip)
    \/ \E x \in XLines : AddXline(x)
    \/ \E x \in core.xlines : RemoveXline(x)
    \/ Tick

\* The timer thread ticks for ever; nothing is assumed of clients or workers.
Spec == Init /\ [][Next]_vars /\ WF_vars(Tick)

-----------------------------------------------------------------------------
(* Properties                                                               *)

\* Every field of the server's tables has the type its readers rely on.
TypeOK ==
    /\ core \in Core
    /\ sent \in [Conn -> 0 .. MaxLines] /\ ruled \in 0 .. MaxOper

\* The incremental tables agree with the users they count, after any event:
\* connguard's pool, connclass's clone counters, the nick index.
TablesExact ==
    LET U == core.users
        In(class, ips) == Cardinality({c \in Live(core) : U[c].class = class /\ U[c].ip \in ips})
    IN  /\ core.unreg = Cardinality(Live(core) \ Registered(core))
        /\ \A ip \in IP : core.per_ip[ip] = Cardinality({c \in Live(core) : U[c].ip = ip})
        /\ \A k \in ClassName : /\ core.per_class[k] = In(k, IP)
                              /\ \A ip \in IP : core.per_ip_class[<<ip, k>>] = In(k, {ip})
        /\ \A n \in Nick, c \in Conn : core.nick_index[n] = c <=> c \in Live(core) /\ U[c].nick = n

\* No class ever has more connections than its limit, nor more registered
\* users from one address than its localmax, although the class is picked
\* twice, at the connect and again when the host is known.
ClassLimits ==
    \A i \in DOMAIN ClassSeq :
       LET k == ClassSeq[i]
           of(cs, ip) == {c \in cs : core.users[c].class = k.name /\ core.users[c].ip \in ip}
       IN  /\ k.limit > 0 => Cardinality(of(Live(core), IP)) <= k.limit
           /\ k.localmax > 0 => \A ip \in IP : Cardinality(of(Registered(core), {ip})) <= k.localmax

\* A client that is not welcomed yet waits for something that can still come:
\* a line of its own, a challenge, or the answer of a worker that holds it
\* (a worker that panicked leaves it to the timer).
NobodyForgotten ==
    \A c \in Live(core) \ Registered(core) :
       LET u == core.users[c]
           asked(k) == \E j \in Running(core, k) : j.uid = c
       IN  \/ u.nick = None \/ ~u.user \/ u.cap \/ u.waitpong
           \/ u.dns_pending /\ asked("dns")
           \/ u.ident_pending /\ asked("ident")
           \/ u.auth_pending /\ (asked("auth") \/ asked("dead"))
           \/ Closed(core, c) # {}

\* Whoever is welcomed has answered every hold: no lookup, password check or
\* cookie is outstanding, no line is held back, and the gates were open,
\* either now or when a password check took over.
WelcomeEarned ==
    [][\A c \in Registered(core)' \ Registered(core) :
          LET u == core.users[c]'
          IN  /\ ~u.dns_pending /\ ~u.ident_pending /\ ~u.auth_pending /\ ~u.waitpong
              /\ u.nick # None /\ u.ident # None /\ u.deferred = <<>>
              /\ core.users[c].auth_pending \/ Closed(core, c)' = {}
              /\ RequireIdent => u.ident # "tilde" \/ core.users[c].auth_pending]_vars

\* No registered user is hit by an active K- or Z-line, whether the line or the
\* user came first: complete_registration refuses the one, enforce_xlines
\* drops the other.  The exception is what nobody asks the lines about again
\* until some line is added: an ident that changed after the question (the
\* answer of the ident server, applied after the check of the x-lines,
\* hashident, CHGIDENT), a registration that waited for a slow password after
\* it, and a user whose E-line has ended.
BansHonoured ==
    \A c \in Registered(core) \cap core.vetted : ~matched_xline(core, core.users[c])

\* What the comments say: enforce_xlines drops "every connected local user that
\* now matches an active x-line", and a banned host or ip is refused "before
\* welcoming".  An ident that changes after the question refutes it.
BannedStayOut ==
    \A c \in Registered(core) : ~matched_xline(core, core.users[c])

\* A client that falls silent before it is welcomed is reaped, whatever holds
\* it: an unanswered challenge, a worker that never answers.
SilentIsReaped ==
    \A c \in Conn : (c \in Live(core) /\ sent[c] = MaxLines)
                      ~> (c \notin Live(core) \/ c \in Registered(core))
=============================================================================
