------------------------------ MODULE Channels ------------------------------
(***************************************************************************)
(* The channels of one server as its local clients use them: who may       *)
(* enter, the modes and lists and who may change them, redirects, delayed  *)
(* joins, forced joins and parts, renames, and the lines that tell the     *)
(* members' clients and the linked servers what changed.  The core handles *)
(* one command at a time.  A client and a linked server are modelled by    *)
(* the record they build from the lines they are sent.                     *)
(* (channels.rs, mode.rs, coremods/core_mode.rs, core_channel.rs,          *)
(* core_oper.rs, modules/autoop.rs, operprefix.rs, ojoin.rs, rmode.rs,     *)
(* clearmode.rs, namedmodes.rs, hidemode.rs, denychans.rs, banredirect.rs, *)
(* restrictchans.rs, channames.rs, customprefix.rs)                        *)
(***************************************************************************)
EXTENDS Integers, Sequences, FiniteSets, SequencesExt, FiniteSetsExt, Functions

CONSTANTS
    User, Chan, None,
    Secure, E2E, LoggedIn,    \* users on TLS, whose client knows echoircd/e2e, with an account
    CanOper, CanOverride,     \* who may become an operator; who of them overrides joins
    Protected,                \* users with +k (network services)
    RenameCap,                \* clients that negotiated draft/channel-rename
    HideMode,                 \* letters whose changes only operators of the channel see
    OperPrefix,               \* operprefix: operators carry the prefix y
    RankToSet, RankToUnset, NoDepriv,   \* customprefix
    Cban,                     \* names an operator's CBAN forbids
    BadChan, BadTo,           \* denychans: forbidden names, and where they redirect
    RestrictCreate, BadName,  \* restrictchans, channames: names that may not be created
    FullTo,                   \* the target that +L names
    Limit, MaxBans, MaxInvites, MaxModes, MaxChans, MaxRedir,
    FloodLines, FloodBans,    \* +f: lines allowed, and whether the kick also bans
    JoinCount,                \* +j: joins allowed in a window
    Setups                    \* what a run plays: see Setup below

ASSUME ChannelsAssumption ==
    /\ IsFiniteSet(User) /\ IsFiniteSet(Chan) /\ None \notin User \cup Chan
    /\ CanOverride \subseteq CanOper /\ CanOper \subseteq User
    /\ BadTo \in [BadChan -> Chan \cup {None}] /\ BadChan \subseteq Chan
    /\ FullTo \in [Chan -> Chan]
    /\ NoDepriv \subseteq {"q", "a", "o", "h", "v"}
    /\ DOMAIN RankToSet = {"q", "a", "o", "h", "v"} /\ DOMAIN RankToUnset = DOMAIN RankToSet
    /\ \A n \in {Limit, MaxBans, MaxInvites, MaxModes, MaxChans, MaxRedir,
                 FloodLines, JoinCount} : n \in Nat

VARIABLES core,   \* what the Server holds
          views,  \* views[u][c]: the channel as u's client knows it, or None
          links,  \* links[c]: the channel as the linked servers know it
          last,   \* the user who took the last step; None: it had the server's authority
          setup   \* the commands in play (fixed)

vars == <<core, views, links, last, setup>>

Prefix == {"y", "q", "a", "o", "h", "v"}
RankOf == [p \in Prefix |-> CASE p = "y" -> 60 [] p = "q" -> 50 [] p = "a" -> 40
                              [] p = "o" -> 30 [] p = "h" -> 20 [] p = "v" -> 10]
RANK_OWNER  == 50
RANK_OP     == 30
RANK_HALFOP == 20

\* Modes: m stands for the flags that only the message path reads, the other
\* flags and the modes with a value for themselves; the last four are lists.
Flag   == {"m", "i", "s", "R", "A", "Q", "D", "u"}
Key    == {"k"}
Cap    == {"l"}
Rates  == {"f", "j"}
Delays == {"J"}
Target == {"L"}
Value  == Key \cup Cap \cup Rates \cup Delays \cup Target
Lists  == {"b", "e", "I", "w"}
Letter == Flag \cup Value \cup {"O", "P", "r", "z", "E"}

\* A mask catches one user, in small letters or in capitals; a ban may name a
\* channel to send them to, an entry of +w the prefix that it grants.
Mask  == [who : User, to : Chan \cup {None}, caps : BOOLEAN]
Same(a, b) == a.who = b.who /\ a.to = b.to       \* eq_ignore_ascii_case
Grant == [who : User, to : {"q", "a", "o", "h", "v"}, caps : BOOLEAN]

\* One letter of a MODE command with its sign and its argument.
Change == [on : BOOLEAN, letter : Prefix \cup Letter \cup Lists,
           arg : User \cup Mask \cup Grant \cup {"good", "bad", None}]

\* History: an operator's privilege let this member in (overrode); it gave the
\* end-to-end capability up while in +E (lapsed).
Member  == [prefixes : SUBSET Prefix, hidden : BOOLEAN, overrode : BOOLEAN, lapsed : BOOLEAN]

\* A channel as it is known from lines.
Known(k) ==
    /\ k.members \in [User -> (SUBSET Prefix) \cup {None}]
    /\ k.modes \subseteq Letter
    /\ \A l \in Lists : k.lists[l] \subseteq IF l = "w" THEN Grant ELSE Mask

\* A setup: the commands besides JOIN and MODE that are played, the MODE lines,
\* the users, and the channels that they try to join.
Setup == [moves : SUBSET STRING, lines : SUBSET Seq(Change), users : SUBSET User,
          chans : SUBSET Chan]

NoLists == [k \in Lists |-> {}]

\* Channel::new: the creator's default modes (+nt) are among those m stands for.
\* History: untold are the entries set without a MODE line, or removed by one
\* that spells them otherwise; shaded says that +u has been set.
NewChannel == [members |-> [u \in User |-> None], modes |-> {}, lists |-> NoLists, timed |-> {},
               invites |-> {}, kicked |-> {}, joins |-> 0, locked |-> FALSE,
               lines |-> [u \in User |-> 0], untold |-> {}, shaded |-> FALSE]

\* The whole state a handler works on; the actions put it back in the variables.
\* adrift is history: the names of which the linked servers keep a channel
\* that is gone here, or the other way round, until both sides have none.
State == [chans |-> core.chans, invited |-> core.invited, opers |-> core.opers,
          gone |-> core.gone, e2e |-> core.e2e, adrift |-> core.adrift,
          views |-> views, links |-> links]

\* (A command that is refused changes nothing and is no step.)
Becomes(S, who, sudo) ==
    /\ S # State
    /\ core'  = [chans |-> S.chans, invited |-> S.invited, opers |-> S.opers,
                 gone |-> S.gone, e2e |-> S.e2e,
                 adrift |-> {c \in S.adrift : S.chans[c] # None \/ S.links[c] # None}]
    /\ views' = S.views
    /\ links' = S.links
    /\ last'  = IF sudo THEN None ELSE who
    /\ UNCHANGED setup

-----------------------------------------------------------------------------
(* Membership and rank                                                      *)

Present(f)       == {u \in User : f[u] # None}
Exists(S, c)     == S.chans[c] # None
Members(S, c)    == IF Exists(S, c) THEN Present(S.chans[c].members) ELSE {}
is_member(S, u, c) == u \in Members(S, c)
Joined(S, u)     == {c \in Chan : is_member(S, u, c)}
Has(S, c, m)     == Exists(S, c) /\ m \in S.chans[c].modes
is_oper(S, u)    == u \in S.opers
Overrides(S, u)  == u \in S.opers \cap CanOverride
Hidden(S, u, c)  == S.chans[c].members[u].hidden

\* Member::rank: the highest prefix held.
Rank(S, u, c) ==
    IF is_member(S, u, c)
    THEN Max({0} \cup {RankOf[p] : p \in S.chans[c].members[u].prefixes})
    ELSE 0

\* Server::rank: under mode_sudo everybody ranks as an owner.
rank(S, u, c, sudo) == IF sudo THEN RANK_OWNER ELSE Rank(S, u, c)

keep_alive(ch) == Present(ch.members) # {} \/ ch.modes \cap {"P", "r"} # {}

Kept(f) == FoldSet(LAMBDA c, g : [g EXCEPT ![c] = None], f,
                   {c \in Chan : f[c] # None /\ ~keep_alive(f[c])})

\* channels.retain(keep_alive): every path that removes a member ends with it,
\* here and, when the line arrives, on the linked servers.
Retain(S) == [S EXCEPT !.chans = Kept(@), !.links = Kept(@)]

\* Members that a client on the channel is shown (send_names without +u).
Visible(S, u, c) ==
    [v \in User |-> IF is_member(S, v, c) /\ (v = u \/ ~Hidden(S, v, c))
                    THEN S.chans[c].members[v].prefixes ELSE None]

\* +u: a member that is no operator is shown the operators and themselves.
send_names(S, u, c) ==
    IF Has(S, c, "u") /\ Rank(S, u, c) < RANK_OP
    THEN [v \in User |-> IF v = u \/ Rank(S, v, c) >= RANK_OP THEN Visible(S, u, c)[v] ELSE None]
    ELSE Visible(S, u, c)

-----------------------------------------------------------------------------
(* Lines                                                                    *)

\* Send(S, rcpt, c, Put): the clients of rcpt apply a line about channel c.
Send(S, rcpt, c, Put(_)) ==
    [S EXCEPT !.views = [u \in User |->
        IF u \in rcpt /\ S.views[u][c] # None
        THEN [S.views[u] EXCEPT ![c] = Put(S.views[u][c])] ELSE S.views[u]]]

PutJoin(u, k) == [k EXCEPT !.members[u] = {}]
PutPart(u, k) == [k EXCEPT !.members[u] = None]

PutChange(k, ch) ==
    CASE ch.letter \in Prefix ->
             IF k.members[ch.arg] # None
             THEN [k EXCEPT !.members[ch.arg] =
                       IF ch.on THEN @ \cup {ch.letter} ELSE @ \ {ch.letter}]
             ELSE k
      [] ch.letter \in Lists ->
             [k EXCEPT !.lists[ch.letter] = IF ch.on THEN @ \cup {ch.arg} ELSE @ \ {ch.arg}]
      [] OTHER -> [k EXCEPT !.modes = IF ch.on THEN @ \cup {ch.letter} ELSE @ \ {ch.letter}]

PutMode(k, chs) == FoldLeft(PutChange, k, chs)

ToLinks(S, c, Put(_)) ==
    IF S.links[c] = None THEN S ELSE [S EXCEPT !.links[c] = Put(S.links[c])]

\* What a linked server and a client that asks for everything know of c.
Whole(S, c) ==
    [members |-> [v \in User |-> IF is_member(S, v, c) THEN S.chans[c].members[v].prefixes
                                 ELSE None],
     modes |-> S.chans[c].modes, lists |-> S.chans[c].lists]

SetView(S, u, c, k) == [S EXCEPT !.views[u] = [S.views[u] EXCEPT ![c] = k]]

\* An opening JOIN: the client drops what it knew, reads NAMES and asks for the
\* modes and the lists.
Enter(S, u, c) ==
    SetView(S, u, c, [Whole(S, c) EXCEPT !.members = send_names(S, u, c)])

Leave(S, u, c) == SetView(S, u, c, None)

\* +u: only the operators and the one concerned see who comes and goes.
Audience(S, u, c) ==
    IF Has(S, c, "u") THEN {v \in Members(S, c) : v = u \/ Rank(S, v, c) >= RANK_OP}
    ELSE Members(S, c)

-----------------------------------------------------------------------------
(* Leaving                                                                  *)

\* The end of every PART and KICK: rcpt saw the line, the member goes, an
\* empty channel goes with them.
Depart(S, rcpt, u, c) ==
    LET A == Send(S, rcpt \ {u}, c, LAMBDA k : PutPart(u, k))
        B == Leave(ToLinks(A, c, LAMBDA k : PutPart(u, k)), u, c)
    IN  Retain([B EXCEPT !.chans[c].members[u] = None])

\* +D: nobody saw a hidden member come, so nobody sees them go.
part(S, u, c) ==
    IF ~is_member(S, u, c) THEN S
    ELSE Depart(S, IF Hidden(S, u, c) THEN {u} ELSE Audience(S, u, c), u, c)

force_part(S, u, c) ==
    IF ~is_member(S, u, c) THEN S
    ELSE Depart(S, IF Hidden(S, u, c) THEN {u} ELSE Members(S, c), u, c)

\* The quit of a registered user; `invited` names the invites to scrub.
remove_user(S, u) ==
    LET seen == UNION {Members(S, c) : c \in {d \in Joined(S, u) : ~Hidden(S, u, d)}}
        Put(k) == IF k = None THEN None ELSE PutPart(u, k)
        Scrub(c) == IF S.chans[c] = None THEN None
                    ELSE [S.chans[c] EXCEPT !.members[u] = None,
                              !.invites = IF c \in S.invited[u] THEN @ \ {u} ELSE @]
        A == [S EXCEPT !.views = [v \in User |-> [c \in Chan |->
                                     CASE v = u -> None
                                       [] v # u /\ v \in seen -> Put(S.views[v][c])
                                       [] OTHER -> S.views[v][c]]],
                       !.links = [c \in Chan |-> Put(S.links[c])],
                       !.chans = [c \in Chan |-> Scrub(c)]]
    IN  Retain([A EXCEPT !.gone = @ \cup {u}, !.opers = @ \ {u}, !.invited[u] = {}])

-----------------------------------------------------------------------------
(* Modes                                                                    *)

Yes(S) == [s |-> S, yes |-> TRUE]
No(S)  == [s |-> S, yes |-> FALSE]

\* Mutant: the reveal is forgotten.
reveal_never(S, u, c, sudo) == [S EXCEPT !.chans[c].members[u].hidden = FALSE]

\* The JOIN that was withheld; under mode_sudo everybody passes for an operator.
reveal_member(S, u, c, sudo) ==
    IF ~is_member(S, u, c) \/ ~Hidden(S, u, c) THEN S
    ELSE LET A    == [S EXCEPT !.chans[c].members[u].hidden = FALSE]
             rcpt == IF sudo THEN Members(S, c) ELSE Audience(S, u, c)
         IN  Send(A, rcpt \ {u}, c, LAMBDA k : PutJoin(u, k))

SetPrefix(S, u, c, p, on) ==
    [S EXCEPT !.chans[c].members[u].prefixes = IF on THEN @ \cup {p} ELSE @ \ {p}]

\* customprefix: a configured rank to give or take a prefix.
RankNeeded(ch) == IF ch.on THEN RankToSet[ch.letter] ELSE RankToUnset[ch.letter]

\* Prefix::apply (+q +a +o +h +v, and configured ones).
Prefix_apply(S, u, c, ch, sudo) ==
    LET needed == RankNeeded(ch)
        src    == rank(S, u, c, sudo)
        A      == SetPrefix(S, ch.arg, c, ch.letter, ch.on)
    IN  IF \/ ~(ch.arg \in User /\ is_member(S, ch.arg, c))
           \/ ~ch.on /\ ch.arg = u /\ ch.letter \in NoDepriv
           \/ src < needed \/ src < Rank(S, ch.arg, c)
        THEN No(S)
        ELSE Yes(IF ch.on THEN reveal_member(A, ch.arg, c, sudo) ELSE A)

SetMode(S, c, m, on) ==
    [S EXCEPT !.chans[c].modes = IF on THEN @ \cup {m} ELSE @ \ {m},
              !.chans[c].shaded = @ \/ (on /\ m = "u")]

\* Mutant: +z is set whoever is there.
SecureOnly_lax(S, u, c, ch, sudo) == Yes(SetMode(S, c, "z", ch.on))

SecureOnly_apply(S, u, c, ch, sudo) ==
    IF ch.on /\ ~(Members(S, c) \subseteq Secure) THEN No(S) ELSE Yes(SetMode(S, c, "z", ch.on))

Encrypted_apply(S, u, c, ch, sudo) ==
    IF ch.on /\ ~(Members(S, c) \subseteq S.e2e) THEN No(S) ELSE Yes(SetMode(S, c, "E", ch.on))

\* +O and +P: only an operator sets them; whoever may change modes clears them.
OperFlagChan_apply(S, u, c, ch, sudo) ==
    IF ch.on /\ ~sudo /\ ~is_oper(S, u) THEN No(S) ELSE Yes(SetMode(S, c, ch.letter, ch.on))

RegisteredChan_apply(S, u, c, ch, sudo) ==
    IF ~sudo THEN No(S) ELSE Yes(SetMode(S, c, "r", ch.on))

\* +k +l +L +f +j +J and the other modes with a value: a bad value changes nothing.
Value_apply(S, u, c, ch, sudo) ==
    IF ch.on /\ ch.arg # "good" THEN No(S) ELSE Yes(SetMode(S, c, ch.letter, ch.on))

Flag_apply(S, u, c, ch, sudo) == Yes(SetMode(S, c, ch.letter, ch.on))

\* ListMode::apply: no mask is a question; an entry of +w needs the rank that it
\* grants; the lists of local users are capped.  An entry is recognised and
\* removed however it is spelled, the line repeats the spelling of the command.
ListMode_apply(S, u, c, ch, sudo) ==
    LET list == S.chans[c].lists[ch.letter]
        same == {b \in list : Same(b, ch.arg)}
        full == ~sudo /\ Cardinality(list) >= MaxBans
    IN  CASE ch.arg = None -> No(S)
          [] ch.on /\ ch.letter = "w" /\ ~sudo /\ Rank(S, u, c) < RankOf[ch.arg.to] -> No(S)
          [] ch.on  -> IF same # {} \/ full THEN No(S)
                       ELSE Yes([S EXCEPT !.chans[c].lists[ch.letter] = @ \cup {ch.arg}])
          [] ~ch.on -> IF same = {} THEN No(S)
                       ELSE Yes([S EXCEPT !.chans[c].lists[ch.letter] = @ \ same,
                                          !.chans[c].untold = @ \cup (same \ {ch.arg}),
                                          !.chans[c].timed =
                                              IF ch.letter = "b" THEN @ \ same ELSE @])

\* chan_mode and the handler it finds.
chan_mode_apply(S, u, c, ch, sudo) ==
    CASE ch.letter \in Prefix     -> Prefix_apply(S, u, c, ch, sudo)
      [] ch.letter \in Lists      -> ListMode_apply(S, u, c, ch, sudo)
      [] ch.letter \in Value      -> Value_apply(S, u, c, ch, sudo)
      [] ch.letter \in {"O", "P"} -> OperFlagChan_apply(S, u, c, ch, sudo)
      [] ch.letter = "r"          -> RegisteredChan_apply(S, u, c, ch, sudo)
      [] ch.letter = "z"          -> SecureOnly_apply(S, u, c, ch, sudo)
      [] ch.letter = "E"          -> Encrypted_apply(S, u, c, ch, sudo)
      [] OTHER                    -> Flag_apply(S, u, c, ch, sudo)

\* The letters of one line, in order: what was applied, and the state after it.
ApplyLine(S, u, c, line, sudo) ==
    FoldLeft(LAMBDA acc, ch :
                 LET r == chan_mode_apply(acc.s, u, c, ch, sudo)
                 IN  [s |-> r.s, done |-> IF r.yes THEN Append(acc.done, ch) ELSE acc.done],
             [s |-> S, done |-> <<>>], line)

\* hidemode: the changes of one line that v is shown.
ShownTo(S, v, c, by, sudo, done) ==
    IF v = by \/ is_oper(S, v) \/ rank(S, v, c, sudo) >= RANK_OP THEN done
    ELSE SelectSeq(done, LAMBDA ch : ch.letter \notin HideMode)

\* Announce a MODE line to the members and, as FMODE, to the links.
Announce(S, c, by, sudo, done) ==
    LET A == [S EXCEPT !.views = [v \in User |->
                 IF v \in Members(S, c) /\ S.views[v][c] # None
                 THEN [S.views[v] EXCEPT ![c] = PutMode(@, ShownTo(S, v, c, by, sudo, done))]
                 ELSE S.views[v]]]
    IN  ToLinks(A, c, LAMBDA k : PutMode(k, done))

IsQuery(line) == \A i \in DOMAIN line : line[i].letter \in Lists /\ line[i].arg = None

\* MODE on a channel: a question for the lists is free except for +w, any
\* change needs half-op; at most MaxModes letters; a channel that this leaves
\* without members and without +P and +r is destroyed, and the linked servers,
\* which get the FMODE only, keep it empty.
apply_mode(S, u, c, line, sudo) ==
    IF \/ ~Exists(S, c)
       \/ /\ ~IsQuery(line) \/ \E i \in DOMAIN line : line[i].letter = "w"
          /\ rank(S, u, c, sudo) < RANK_HALFOP
    THEN S
    ELSE LET r == ApplyLine(S, u, c, SubSeq(line, 1, Min({MaxModes, Len(line)})), sudo)
             A == Announce(r.s, c, u, sudo, r.done)
         IN  IF keep_alive(A.chans[c]) THEN A
             ELSE [A EXCEPT !.chans[c] = None, !.adrift = @ \cup {c}]

\* The same with the authority of the server (RPC, autoop, OJOIN, SVS2MODE):
\* no cap, nothing hidden, and an empty channel stays.
svs_set_chan_modes(S, c, line) ==
    IF ~Exists(S, c) THEN S
    ELSE LET r == ApplyLine(S, None, c, line, TRUE)
             A == Send(r.s, Members(S, c), c, LAMBDA k : PutMode(k, r.done))
         IN  ToLinks(A, c, LAMBDA k : PutMode(k, r.done))

-----------------------------------------------------------------------------
(* Joining                                                                  *)

\* ban_list_hit: some entry catches u.
ban_list_hit(list, u) == \E b \in list : b.who = u

Banned(S, u, c) ==
    /\ ban_list_hit(S.chans[c].lists["b"], u)
    /\ ~ban_list_hit(S.chans[c].lists["e"], u)

\* banredirect: where a ban that catches u sends them.
redirect_target(S, u, c) ==
    LET to == {b.to : b \in {x \in S.chans[c].lists["b"] : x.who = u}} \ {None}
    IN  IF to = {} THEN None ELSE CHOOSE t \in to : TRUE

Closed(S, u, c) ==
    LET ch == S.chans[c]
    IN  \/ "i" \in ch.modes /\ u \notin ch.invites /\ ~ban_list_hit(ch.lists["I"], u)
        \/ "z" \in ch.modes /\ u \notin Secure
        \/ "E" \in ch.modes /\ u \notin S.e2e
        \/ "R" \in ch.modes /\ u \notin LoggedIn
        \/ "J" \in ch.modes /\ u \in ch.kicked

full(S, c) == Has(S, c, "l") /\ Cardinality(Members(S, c)) >= Limit

\* joinflood_check: one more join; beyond the limit the channel is locked.
JoinFlooded(S, c) ==
    Has(S, c, "j") /\ (S.chans[c].locked \/ S.chans[c].joins >= JoinCount)

joinflood_check(S, c) ==
    IF ~Has(S, c, "j") \/ S.chans[c].locked THEN S
    ELSE IF S.chans[c].joins >= JoinCount
    THEN [S EXCEPT !.chans[c].locked = TRUE, !.chans[c].joins = 0]
    ELSE [S EXCEPT !.chans[c].joins = @ + 1]

\* What the linked servers make of the FJOIN of a new channel (an older one
\* that they kept wins, and its members enter without status) or of an IJOIN (a
\* channel that they dropped is created without its modes).
Told(S, u, c, new) ==
    CASE new /\ S.links[c] = None -> Whole(S, c)
      [] ~new /\ S.links[c] = None ->
             [members |-> [v \in User |-> IF v = u THEN {} ELSE None], modes |-> {},
              lists |-> NoLists]
      [] OTHER -> PutJoin(u, S.links[c])

\* The member is put in: the first one is given op, an invite is used up.
admit(S, u, c, over) ==
    LET new == ~Exists(S, c)
        ch  == IF new THEN NewChannel ELSE S.chans[c]
        m   == [prefixes |-> IF new THEN {"o"} ELSE {}, hidden |-> "D" \in ch.modes,
                overrode |-> over, lapsed |-> FALSE]
        A   == [S EXCEPT !.chans[c] = [ch EXCEPT !.members[u] = m,
                                                 !.invites = @ \ {u}, !.kicked = @ \ {u}],
                         !.invited[u] = @ \ {c}]
        rcpt == IF m.hidden THEN {} ELSE Audience(A, u, c) \ {u}
        B   == Enter(Send(A, rcpt, c, LAMBDA k : PutJoin(u, k)), u, c)
    IN  [B EXCEPT !.links[c] = Told(B, u, c, new),
                  !.adrift = IF new = (S.links[c] = None) THEN @ ELSE @ \cup {c}]

\* denychans (all with allowopers), and restrictchans.
Denied(S, u, c)    == c \in BadChan /\ ~is_oper(S, u)
MayCreate(S, u, c) == c \notin RestrictCreate \/ is_oper(S, u)

RECURSIVE join(_, _, _, _, _, _)

\* Server::join.  key: the right key was given; inr: in_redirect; depth: the
\* hops of denychans.
join(S, u, c, key, inr, depth) ==
    LET ov    == Overrides(S, u)
        bad   == Denied(S, u, c)
        old   == Exists(S, c)
        Bounces(t) == ~inr /\ t # c /\ ~is_member(S, u, t)
        to    == redirect_target(S, u, c)
        over  == old /\ \/ Has(S, c, "k") /\ ~key
                        \/ Banned(S, u, c) \/ Closed(S, u, c) \/ full(S, c)
    IN  CASE \/ is_member(S, u, c)
             \/ ~ov /\ (c \in Cban \/ Cardinality(Joined(S, u)) >= MaxChans) -> S
          [] bad -> IF BadTo[c] # None /\ BadTo[c] # c /\ depth < MaxRedir
                    THEN join(S, u, BadTo[c], FALSE, inr, depth + 1) ELSE S
          [] ~bad /\ ~old /\ (~MayCreate(S, u, c) \/ c \in BadName) -> S
          [] ~bad /\ Has(S, c, "k") /\ ~key /\ ~ov -> S
          [] ~bad /\ old /\ Banned(S, u, c) /\ ~ov ->
                 IF to # None /\ Bounces(to) THEN join(S, u, to, FALSE, TRUE, depth) ELSE S
          [] ~bad /\ old /\ \/ Closed(S, u, c) /\ ~ov
                            \/ Has(S, c, "O") /\ ~is_oper(S, u) -> S
          [] ~bad /\ full(S, c) /\ ~ov ->
                 IF Has(S, c, "L") /\ Bounces(FullTo[c])
                 THEN join(S, u, FullTo[c], FALSE, TRUE, depth) ELSE S
          [] OTHER ->
                 IF ~ov /\ JoinFlooded(S, c) THEN joinflood_check(S, c)
                 ELSE admit(IF ov THEN S ELSE joinflood_check(S, c), u, c, over)

\* operprefix::set: no reveal here.
operprefix_set(S, u, c, on) ==
    LET ch == [on |-> on, letter |-> "y", arg |-> u]
        A  == Send(SetPrefix(S, u, c, "y", on), Members(S, c), c, LAMBDA k : PutChange(k, ch))
    IN  IF ~is_member(S, u, c) \/ on = ("y" \in S.chans[c].members[u].prefixes) THEN S
        ELSE ToLinks(A, c, LAMBDA k : PutChange(k, ch))

\* autoop's on_join: the prefixes that the entries of +w give u, as one line.
autoop_join(S, u, c) ==
    LET ps == {g.to : g \in {x \in S.chans[c].lists["w"] : x.who = u}}
    IN  IF ~is_member(S, u, c) \/ ps = {} THEN S
        ELSE svs_set_chan_modes(S, c, [i \in 1 .. Cardinality(ps) |->
                 [on |-> TRUE, letter |-> SetToSeq(ps)[i], arg |-> u]])

\* The queued Hook::Join of the channels that u has entered since S.
OnJoin(S, T, u) ==
    FoldSet(LAMBDA c, X : LET Y == autoop_join(X, u, c)
                          IN  IF OperPrefix /\ is_oper(Y, u) THEN operprefix_set(Y, u, c, TRUE)
                              ELSE Y,
            T, Joined(T, u) \ Joined(S, u))

JoinAndHooks(S, u, c, key) == OnJoin(S, join(S, u, c, key, FALSE, 0), u)

-----------------------------------------------------------------------------
(* Commands                                                                 *)

\* Mutant: REMOVE and KICK forget the rank of the victim.
MayEject_lax(S, u, v, c) == Rank(S, u, c) >= RANK_HALFOP /\ is_member(S, v, c)

\* What KICK and REMOVE ask of the one who gives them.
MayEject(S, u, v, c) ==
    /\ Rank(S, u, c) >= RANK_HALFOP
    /\ is_member(S, v, c)
    /\ Rank(S, u, c) >= Rank(S, v, c)

kick(S, u, v, c) ==
    IF ~MayEject(S, u, v, c) \/ v \in Protected \/ (Has(S, c, "Q") /\ ~is_oper(S, u)) THEN S
    ELSE LET A == IF Has(S, c, "J") THEN [S EXCEPT !.chans[c].kicked = @ \cup {v}] ELSE S
         IN  Depart(A, Members(S, c), v, c)

remove(S, u, v, c) == IF MayEject(S, u, v, c) THEN Depart(S, Members(S, c), v, c) ELSE S

\* flood_kick: the ban is stored and no MODE line says so.
flood_kick(S, u, c) ==
    LET b == [who |-> u, to |-> None, caps |-> FALSE]
        A == IF FloodBans /\ b \notin S.chans[c].lists["b"]
             THEN [S EXCEPT !.chans[c].lists["b"] = @ \cup {b}, !.chans[c].untold = @ \cup {b}]
             ELSE S
    IN  Depart(A, Members(S, c), u, c)

\* A message to the channel: +f counts it, then it reveals its sender.
speak(S, u, c) ==
    LET n == S.chans[c].lines[u] + 1
    IN  IF ~Has(S, c, "f") \/ Rank(S, u, c) >= RANK_HALFOP \/ is_oper(S, u)
        THEN reveal_member(S, u, c, FALSE)
        ELSE IF n > FloodLines
        THEN flood_kick([S EXCEPT !.chans[c].lines[u] = 0], u, c)
        ELSE reveal_member([S EXCEPT !.chans[c].lines[u] = n], u, c, FALSE)

\* CYCLE: a PART that all see, hidden or not, and a JOIN without a key.
cycle(S, u, c) ==
    IF ~is_member(S, u, c) THEN S
    ELSE JoinAndHooks(Depart(S, Members(S, c), u, c), u, c, FALSE)

invite(S, u, v, c) ==
    IF \/ ~is_member(S, u, c) \/ is_member(S, v, c) \/ v \in S.gone
       \/ Has(S, c, "i") /\ ~Has(S, c, "A") /\ Rank(S, u, c) < RANK_OP
       \/ Cardinality(S.chans[c].invites) >= MaxInvites /\ v \notin S.chans[c].invites
    THEN S
    ELSE [S EXCEPT !.chans[c].invites = @ \cup {v}, !.invited[v] = @ \cup {c}]

uninvite(S, u, v, c) ==
    IF ~is_member(S, u, c) \/ Rank(S, u, c) < RANK_OP THEN S
    ELSE [S EXCEPT !.chans[c].invites = @ \ {v}, !.invited[v] = @ \ {c}]

\* TBAN: no cap; the entry remembers that it expires.
tban(S, u, c, b) ==
    IF ~Exists(S, c) \/ Rank(S, u, c) < RANK_HALFOP \/ b \in S.chans[c].lists["b"] THEN S
    ELSE Announce([S EXCEPT !.chans[c].lists["b"] = @ \cup {b}, !.chans[c].timed = @ \cup {b}],
                  c, None, TRUE, <<[on |-> TRUE, letter |-> "b", arg |-> b]>>)

\* Mutant: the expired ban is lifted and nobody is told.
lift_tban_mute(S, c, b) ==
    [S EXCEPT !.chans[c].lists["b"] = @ \ {b}, !.chans[c].timed = @ \ {b}]

\* purge_tbans, for one expired entry.
lift_tban(S, c, b) ==
    Announce([S EXCEPT !.chans[c].lists["b"] = @ \ {b}, !.chans[c].timed = @ \ {b}],
             c, None, TRUE, <<[on |-> FALSE, letter |-> "b", arg |-> b]>>)

Removals(l, masks) ==
    [i \in 1 .. Cardinality(masks) |-> [on |-> FALSE, letter |-> l, arg |-> SetToSeq(masks)[i]]]

\* RMODE: take the entries of one list that catch v (an operator: with authority).
rmode(S, u, c, l, v) ==
    IF ~Exists(S, c) \/ (~is_oper(S, u) /\ Rank(S, u, c) < RANK_HALFOP) THEN S
    ELSE apply_mode(S, u, c, Removals(l, {b \in S.chans[c].lists[l] : b.who = v}), is_oper(S, u))

\* CLEARMODE: the lists b, e and I, then the modes; +w stays.
clearmode(S, u, c) ==
    IF ~is_oper(S, u) \/ ~Exists(S, c) THEN S
    ELSE LET ch == S.chans[c]
             A  == FoldLeft(LAMBDA X, l : apply_mode(X, u, c, Removals(l, ch.lists[l]), TRUE),
                            S, <<"b", "e", "I">>)
             ms == SetToSeq(ch.modes)
         IN  apply_mode(A, u, c, [i \in DOMAIN ms |->
                            [on |-> FALSE, letter |-> ms[i], arg |-> None]], TRUE)

\* OJOIN: enter by the ordinary rules, then the operator prefix and op.
ojoin(S, u, c) ==
    LET A == join(S, u, c, FALSE, FALSE, 0)
        B == svs_set_chan_modes(operprefix_set(A, u, c, TRUE), c,
                                <<[on |-> TRUE, letter |-> "o", arg |-> u]>>)
    IN  IF ~is_oper(S, u) THEN S
        ELSE OnJoin(S, IF is_member(A, u, c) THEN B ELSE A, u)

Moved(f, c, d) == [f EXCEPT ![d] = f[c], ![c] = None]

\* rename_channel: a client with the capability renames what it knows, the
\* others are shown a PART and a JOIN with NAMES.  `invited` is not rekeyed.
\* A linked server that still has the new name renames nothing.
rename_channel(S, c, d) ==
    LET odd == S.links[d] # None
        A == [S EXCEPT !.chans = Moved(@, c, d),
                       !.links = IF odd THEN @ ELSE Moved(@, c, d),
                       !.adrift = IF odd THEN @ \cup {c, d}
                                  ELSE IF c \in @ THEN (@ \ {c}) \cup {d} ELSE @]
    IN  [A EXCEPT !.views = [v \in User |->
            CASE ~is_member(S, v, c) -> S.views[v]
              [] is_member(S, v, c) /\ v \in RenameCap -> Moved(S.views[v], c, d)
              [] OTHER -> [S.views[v] EXCEPT ![c] = None,
                              ![d] = [Whole(A, d) EXCEPT !.members = send_names(A, v, d)]]]]

rename(S, u, c, d) ==
    IF \/ ~is_member(S, u, c) \/ Exists(S, d)
       \/ Rank(S, u, c) < RANK_OP /\ ~is_oper(S, u)
       \/ (Has(S, c, "r") \/ d \in Cban) /\ ~is_oper(S, u)
    THEN S ELSE rename_channel(S, c, d)

\* OPER; and MODE -o on oneself, which takes the operator prefix away.
oper_up(S, u) ==
    LET A == [S EXCEPT !.opers = @ \cup {u}]
    IN  IF OperPrefix THEN FoldSet(LAMBDA c, X : operprefix_set(X, u, c, TRUE), A, Joined(A, u))
        ELSE A

de_oper(S, u) ==
    FoldSet(LAMBDA c, X : operprefix_set(X, u, c, FALSE), [S EXCEPT !.opers = @ \ {u}],
            Joined(S, u))

\* CAP REQ of echoircd/e2e, with or without a minus: the channels are not asked.
cap_req(S, u, on) ==
    LET Lapse(c) ==
            IF ~is_member(S, u, c) THEN S.chans[c]
            ELSE [S.chans[c] EXCEPT !.members[u].lapsed = ~on /\ "E" \in S.chans[c].modes]
    IN  [S EXCEPT !.e2e = IF on THEN @ \cup {u} ELSE @ \ {u},
                  !.chans = [c \in Chan |-> Lapse(c)]]

\* Time passes for one channel: its windows end (purge_flood_state and the
\* comparisons with now()).
elapse(ch) ==
    {[ch EXCEPT !.joins = 0], [ch EXCEPT !.locked = FALSE],
     [ch EXCEPT !.lines = [u \in User |-> 0]], [ch EXCEPT !.kicked = {}]}

-----------------------------------------------------------------------------
(* The specification                                                        *)

Init ==
    /\ setup \in Setups
    /\ core = [chans |-> [c \in Chan |-> None], invited |-> [u \in User |-> {}],
               opers |-> {}, gone |-> {}, e2e |-> E2E, adrift |-> {}]
    /\ views = [u \in User |-> [c \in Chan |-> None]]
    /\ links = [c \in Chan |-> None]
    /\ last = None

Here      == setup.users \ core.gone
May(move) == move \in setup.moves

Join(u, c, key) == u \in Here /\ c \in setup.chans /\ Becomes(JoinAndHooks(State, u, c, key), u, FALSE)
Part(u, c)      == May("part") /\ u \in Here /\ Becomes(part(State, u, c), u, FALSE)
Cycle(u, c)     == May("cycle") /\ u \in Here /\ Becomes(cycle(State, u, c), u, FALSE)
Speak(u, c)     == May("speak") /\ is_member(core, u, c) /\ Becomes(speak(State, u, c), u, FALSE)
Quit(u)         == May("quit") /\ u \in Here /\ Becomes(remove_user(State, u), u, FALSE)

Kick(u, v, c)     == May("kick") /\ u \in Here /\ Becomes(kick(State, u, v, c), u, FALSE)
RemoveUser(u, v, c) == May("kick") /\ u \in Here /\ Becomes(remove(State, u, v, c), u, FALSE)
Invite(u, v, c)   == May("invite") /\ u \in Here /\ Becomes(invite(State, u, v, c), u, FALSE)
Uninvite(u, v, c) == May("invite") /\ u \in Here /\ Becomes(uninvite(State, u, v, c), u, FALSE)
Rename(u, c, d)   == May("rename") /\ u \in Here /\ d \in setup.chans /\ Becomes(rename(State, u, c, d), u, FALSE)

Mode(u, c, line) == u \in Here /\ Becomes(apply_mode(State, u, c, line, FALSE), u, FALSE)
Tban(u, c, b)    == May("tban") /\ u \in Here /\ Becomes(tban(State, u, c, b), u, FALSE)
Rmode(u, c, l, v) ==
    May("tban") /\ u \in Here /\ Becomes(rmode(State, u, c, l, v), u, is_oper(core, u))

CapReq(u, on) ==
    May("cap") /\ u \in E2E \cap Here /\ Becomes(cap_req(State, u, on), u, FALSE)

\* A departure among the users of the linked servers: they drop what is empty.
LinkSweep ==
    LET S == [State EXCEPT !.links = Kept(@)]
    IN  May("sweep") /\ Becomes([S EXCEPT !.adrift = @ \cup {c \in Chan : S.links[c] # links[c]}],
                                None, TRUE)

\* The tick of ircd.rs.
LiftTban(c, b) == Exists(core, c) /\ b \in core.chans[c].timed
                  /\ Becomes(lift_tban(State, c, b), None, TRUE)
Elapse(c) ==
    /\ Exists(core, c)
    /\ \E ch \in elapse(core.chans[c]) :
          ch # core.chans[c] /\ Becomes([State EXCEPT !.chans[c] = ch], None, TRUE)

\* What operators and services force.
Oper(u)   == May("oper") /\ u \in CanOper \cap Here /\ ~is_oper(core, u) /\ Becomes(oper_up(State, u), u, TRUE)
DeOper(u) == is_oper(core, u) /\ Becomes(de_oper(State, u), u, TRUE)
SaMode(u, c, line) == is_oper(core, u) /\ Becomes(apply_mode(State, u, c, line, TRUE), u, TRUE)
SvsMode(c, line)   == May("svs") /\ Becomes(svs_set_chan_modes(State, c, line), None, TRUE)
SaJoin(v, c)  == May("sa") /\ v \in Here /\ c \in setup.chans /\ Becomes(JoinAndHooks(State, v, c, FALSE), v, TRUE)
SaPart(v, c)  == May("sa") /\ v \in Here /\ Becomes(force_part(State, v, c), None, TRUE)
ClearMode(u, c) == May("sa") /\ is_oper(core, u) /\ Becomes(clearmode(State, u, c), u, TRUE)
Ojoin(u, c)     == May("sa") /\ is_oper(core, u) /\ c \in setup.chans /\ Becomes(ojoin(State, u, c), u, TRUE)

Masks == UNION {{line[i].arg : i \in {j \in DOMAIN line : line[j].letter = "b"}} : line \in setup.lines} \ {None}

Next ==
    \/ \E u \in User : Quit(u) \/ Oper(u) \/ DeOper(u) \/ \E on \in BOOLEAN : CapReq(u, on)
    \/ \E u \in User, c \in Chan :
          \/ \E key \in BOOLEAN : Join(u, c, key)
          \/ Part(u, c) \/ Cycle(u, c) \/ Speak(u, c)
          \/ \E line \in setup.lines : Mode(u, c, line) \/ SaMode(u, c, line)
          \/ \E b \in Masks : Tban(u, c, b)
          \/ \E l \in {"b", "e", "I"}, v \in User : Rmode(u, c, l, v)
          \/ \E v \in User : Kick(u, v, c) \/ RemoveUser(u, v, c) \/ Invite(u, v, c) \/ Uninvite(u, v, c)
          \/ \E d \in Chan \ {c} : Rename(u, c, d)
          \/ SaJoin(u, c) \/ SaPart(u, c) \/ ClearMode(u, c) \/ Ojoin(u, c)
    \/ \E c \in Chan :
          \/ Elapse(c)
          \/ \E b \in Masks : LiftTban(c, b)
          \/ \E line \in setup.lines : SvsMode(c, line)
    \/ LinkSweep

Spec == Init /\ [][Next]_vars

-----------------------------------------------------------------------------
(* Properties                                                               *)

TypeOK ==
    /\ setup \in Setups
    /\ core.opers \subseteq CanOper /\ core.gone \subseteq User
    /\ core.e2e \subseteq E2E /\ core.adrift \subseteq Chan
    /\ core.invited \in [User -> SUBSET Chan]
    /\ \A c \in Chan : Exists(core, c) =>
          LET ch == core.chans[c]
          IN  /\ ch.members \in [User -> Member \cup {None}]
              /\ Present(ch.members) \cap core.gone = {}
              /\ ch.modes \subseteq Letter
              /\ ch.timed \subseteq ch.lists["b"]
              /\ Known(links[c])

\* The client of every member knows the channel as it is: whoever is not hidden
\* by +D with their prefixes, the modes, the lists.  Excepted are what the code
\* shows to some only (hidemode; anything after +u), the bans that flood_kick
\* sets without a line, the entries that a line in another spelling removes,
\* and the prefix y, which operprefix announces for members whose JOIN is still
\* withheld.
ClientsFollow ==
    \A c \in Chan, u \in User : is_member(core, u, c) /\ ~core.chans[c].shaded =>
        LET k == views[u][c]
            t == [Whole(core, c) EXCEPT !.members = Visible(core, u, c)]
        IN  /\ k # None
            /\ Present(k.members) = Present(t.members)
            /\ \A v \in Present(t.members) : k.members[v] \ {"y"} = t.members[v] \ {"y"}
            /\ k.modes \ HideMode = t.modes \ HideMode
            /\ \A l \in Lists \ HideMode :
                  k.lists[l] \ core.chans[c].untold = t.lists[l] \ core.chans[c].untold

\* The linked servers are told of everything, also of what clients are not
\* shown: their record of a channel is ours, and a channel that ends here with
\* its last member ends there as well.  Excepted are flood_kick's bans; entries
\* that a line in another spelling removes, which is exact there (link.rs:2805);
\* and names adrift: a MODE that takes +P or +r off an empty channel destroys
\* it here and leaves it there, until a departure drops it (core_mode.rs:203),
\* and whoever founds it here meanwhile meets the old one there; likewise when
\* services take the mode off, which leaves it on both sides until then.
LinksFollow ==
    \A c \in Chan \ core.adrift :
        IF ~Exists(core, c) THEN links[c] = None
        ELSE LET k == links[c]
                 t == Whole(core, c)
             IN  /\ k # None
                 /\ k.members = t.members /\ k.modes = t.modes
                 /\ \A l \in Lists : k.lists[l] \ core.chans[c].untold
                                     = t.lists[l] \ core.chans[c].untold

\* "An empty channel is normally culled the moment its final member leaves"
\* (core_mode.rs): what is gone here is gone on the linked servers.  The MODE
\* that empties a channel of its last reason to exist refutes it.
GoneTogether == \A c \in Chan : ~Exists(core, c) => links[c] = None

\* Nobody sits in a channel that is closed to their kind: in +z everybody is on
\* TLS and in +E everybody has an end-to-end client, whatever the order of the
\* mode and the joins, redirects, cycles, forced joins and renames, except
\* operators who overrode it and, in +E, who gave the capability up inside.
SecureRooms ==
    \A c \in Chan, u \in User : is_member(core, u, c) /\ ~core.chans[c].members[u].overrode =>
        /\ Has(core, c, "z") => u \in Secure
        /\ Has(core, c, "E") => u \in core.e2e \/ core.chans[c].members[u].lapsed

\* u is alone on c, and nothing else keeps it: a CYCLE founds it again.
Anew(c, u) == Members(core, c) = {u} /\ core.chans[c].modes \cap {"P", "r"} = {}

\* What a user's step (not one with the server's authority) may do to ranks in a
\* channel: lower or throw out only whom they do not rank below; raise someone
\* only to a rank they have, unless an entry of +w grants it; add an entry to
\* +w only for a rank they have.
RankDiscipline ==
    [][last' # None =>
        \A c \in Chan : Exists(core, c) /\ Exists(core', c) /\ ~Anew(c, last') =>
            LET by == last'
            IN  \A v \in User :
                  /\ Rank(core', v, c) < Rank(core, v, c) /\ v # by =>
                        Rank(core, by, c) >= Rank(core, v, c)
                  /\ Rank(core', v, c) > Rank(core, v, c) =>
                        \/ Rank(core, by, c) >= Rank(core', v, c)
                        \/ \E g \in core.chans[c].lists["w"] : g.who = v /\ g.to = "o"
                        \/ OperPrefix /\ is_oper(core, v)
                  /\ \A g \in core'.chans[c].lists["w"] \ core.chans[c].lists["w"] :
                        Rank(core, by, c) >= RankOf[g.to]
      ]_vars
=============================================================================
