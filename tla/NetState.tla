------------------------------ MODULE NetState ------------------------------
(***************************************************************************)
(* What a server tells its peers about its users after it has introduced   *)
(* them (account, away, real name, displayed host and ident, modes), what  *)
(* a services server may do to them, and the rules every server keeps for  *)
(* itself (x-lines, nick holds, spam filters).  The home server of a user  *)
(* owns the record; every peer keeps a copy it updates from the lines that *)
(* reach it in order over the link.  Nicks, channels and the handshake are *)
(* the subject of NetNicks, ChannelSync and LinkHandshake.                 *)
(***************************************************************************)
EXTENDS Integers, Sequences, FiniteSets, SequencesExt, FiniteSetsExt, TLC

CONSTANTS
    Server,      \* every server, services included
    Services,    \* the U-lined ones; what they send is external to this code
    Link,        \* the links of the spanning tree, as two-element sets
    User, Home,  \* the clients and the server each is connected to
    Ban,         \* x-lines,
    Rline, Eline, \* those among them that are regular expressions, and exemptions
    Matches,     \* the clients a mask matches, each with the ident it matches them under
    Hold,        \* nicks services may reserve
    Filter,      \* patterns of spam filters
    MaxTime,     \* the clock stops here
    MaxWire,     \* nobody starts anything new while this many lines are queued
    Setups,      \* what may happen in a behaviour
    None

\* The ident of the USER line, the ident server's, an operator's, services'.
Ident == {"i0", "id", "i1", "si"}

ASSUME NetAssumption ==
    /\ Services \subseteq Server
    /\ \A l \in Link : l \subseteq Server /\ Cardinality(l) = 2
    /\ Home \in [User -> Server \ Services]
    /\ Rline \subseteq Ban /\ Eline \subseteq Ban \ Rline
    /\ Matches \in [Ban -> SUBSET (User \X Ident)]
    /\ MaxTime \in Nat /\ MaxWire \in Nat

Edge == { e \in Server \X Server : {e[1], e[2]} \in Link }
Rule == Ban \cup Hold \cup Filter

VARIABLES
    user,   \* the record of a client on its home server
    copy,   \* <<p, u>> -> what server p keeps of the remote client u, or None
    end,    \* <<p, q>> -> p's end of its link with q: "down", "wait" or "up"
    wire,   \* <<p, q>> -> the lines sent by p and not yet read by q
    rules,  \* <<p, r>> -> None, 0 (permanent) or when rule r ends on p
    clock,
    setup,  \* the moves of this behaviour, and the clients and rules they involve
    shown,  \* history: who changed a client's displayed host or ident
    unsaid, \* history: the clients introduced while they were away
    term    \* history: where and until when a rule was set, None or Void

vars == <<user, copy, end, wire, rules, clock, setup, shown, unsaid, term>>

World == [user |-> user, copy |-> copy, end |-> end, wire |-> wire, rules |-> rules]

\* A step of one server: the tables and the queues as a handler leaves them.
Becomes(W) ==
    /\ W # World
    /\ user' = W.user /\ copy' = W.copy /\ end' = W.end
    /\ wire' = W.wire /\ rules' = W.rules
    /\ UNCHANGED setup

History(s, a, t) == shown' = s /\ unsaid' = a /\ term' = t
NoHistory == UNCHANGED <<shown, unsaid, term>>

May(m) == m \in setup.moves

Line(cmd, src, u, v) == [cmd |-> cmd, src |-> src, u |-> u, v |-> v, mask |-> None]
Encap(l, mask) == [l EXCEPT !.mask = mask]

\* History: untold are the modes that changed without a MODE line; vetted says
\* that the x-lines in force, exemptions apart, were asked about the client
\* with the ident it has.
Fresh ==
    [phase |-> "new", account |-> None, real |-> "r0", ident |-> "i0", vhost |-> None,
     away |-> FALSE, modes |-> {"x"}, mech |-> FALSE, untold |-> {}, vetted |-> FALSE]

Init ==
    /\ setup \in Setups
    /\ user = [u \in User |-> Fresh]
    /\ copy = [k \in Server \X User |-> None]
    /\ end = [e \in Edge |-> IF e \in setup.cut THEN "down" ELSE "up"]
    /\ wire = [e \in Edge |-> <<>>]
    /\ rules = [k \in Server \X Rule |-> None]
    /\ clock = 0
    /\ shown = [u \in User |-> {}]
    /\ unsaid = {}
    /\ term = [r \in Rule |-> None]

---------------------------------------------------------------------------
(* Sending *)

\* One line to a neighbour.  A line written into a closed socket is lost, and of
\* what services read only the steps of SASL matter here.
link_out(W, p, q, l) ==
    IF /\ <<p, q>> \in Edge /\ W.end[<<p, q>>] = "up" /\ W.end[<<q, p>>] # "down"
       /\ q \in Services => l.cmd = "SASL"
    THEN [W EXCEPT !.wire = [@ EXCEPT ![<<p, q>>] = Append(@, l)]]
    ELSE W

Linked(W, p) == { q \in Server : <<p, q>> \in Edge /\ W.end[<<p, q>>] = "up" }

propagate(W, p, l, except) ==
    FoldSet(LAMBDA q, X : link_out(X, p, q, l), W, Linked(W, p) \ {except})

propagate_from_user(W, u, l) ==
    IF W.user[u].phase = "reg" THEN propagate(W, Home[u], l, None) ELSE W

\* The hop toward a client that is not ours, never back where the line came from.
forward_to_target(W, p, q, l) ==
    LET known == W.copy[<<p, l.u>>] IN
    IF known # None /\ known.via # q THEN link_out(W, p, known.via, l) ELSE W

SetUser(W, u, field, v) == [W EXCEPT !.user = [@ EXCEPT ![u] = [@ EXCEPT ![field] = v]]]
SetCopy(W, p, u, c) == [W EXCEPT !.copy = [@ EXCEPT ![<<p, u>>] = c]]
SetRule(W, p, r, e) == [W EXCEPT !.rules = [@ EXCEPT ![<<p, r>>] = e]]

IsLocal(W, p, u) == Home[u] = p /\ W.user[u].phase # "gone"

\* Only neighbours are in the table of servers, so only a neighbour is known to
\* be behind the link, and only a services server linked here has authority.
server_behind(src, q) == src = q
user_behind(W, p, u, q) == W.copy[<<p, u>>] # None /\ W.copy[<<p, u>>].via = q
source_is_service(W, p, l) == l.src \in Services /\ l.src \in Linked(W, p)

---------------------------------------------------------------------------
(* Introductions *)

host_display(r) ==
    IF r.vhost # None THEN r.vhost ELSE IF "x" \in r.modes THEN "cloak" ELSE "real"

uid_line(W, u) ==
    LET r == W.user[u] IN
    Line("UID", Home[u], u,
         [host |-> host_display(r), ident |-> r.ident, real |-> r.real, modes |-> r.modes])

\* Mutant: the account is left to the next change.
intro_without_account(W, u) == <<uid_line(W, u)>>

user_intro_lines(W, u) ==
    <<uid_line(W, u)>> \o
    IF W.user[u].account = None THEN <<>>
    ELSE <<Line("METADATA", Home[u], u, W.user[u].account)>>

Registered(W, p) == { u \in User : Home[u] = p /\ W.user[u].phase = "reg" }

\* Mutant: the end of a line sent as its duration.
left_from_zero(e, now) == e

Left(e, now) == IF e = 0 THEN 0 ELSE IF e > now THEN e - now ELSE 0

burst_users(W, p) ==
    FlattenSeq(SetToSeq({ user_intro_lines(W, u) : u \in Registered(W, p) }))

burst_xlines(W, p) ==
    SetToSeq({ Line("ADDLINE", p, b, [at |-> clock, dur |-> Left(W.rules[<<p, b>>], clock)])
               : b \in { x \in Ban : W.rules[<<p, x>>] # None } })

burst_filters(W, p) ==
    SetToSeq({ Line("FILTER", p, f, 0) : f \in { x \in Filter : W.rules[<<p, x>>] # None } })

Burst(W, p) ==
    IF p \in Services THEN <<>>
    ELSE burst_users(W, p) \o burst_xlines(W, p) \o burst_filters(W, p)

\* The clients whose absence of AWAY a burst of p hides.
AwayAt(p) == { u \in User : Home[u] = p /\ user[u].phase = "reg" /\ user[u].away }

---------------------------------------------------------------------------
(* Changes to a client of this server *)

remove_user(W, u) ==
    LET X == SetUser(W, u, "phase", "gone") IN
    IF W.user[u].phase = "reg"
    THEN propagate(X, Home[u], Line("QUIT", Home[u], u, None), None)
    ELSE X

remove_user_of(u, W) == remove_user(W, u)

\* A mode that a registered client gets or loses without a MODE line.
Flips(W, u, letter, on) ==
    LET r == W.user[u] IN
    [W EXCEPT !.user = [@ EXCEPT ![u] =
        [r EXCEPT !.modes = IF on THEN @ \cup {letter} ELSE @ \ {letter},
                  !.untold = IF r.phase = "reg" THEN @ \cup {letter} ELSE @]]]

\* +r goes on and off with the account: the UID carries it, METADATA does not.
set_login(W, u, account) ==
    LET X == Flips(SetUser(W, u, "account", account), u, "r", TRUE) IN
    IF W.user[u].phase = "reg"
    THEN propagate(X, Home[u], Line("METADATA", Home[u], u, account), None)
    ELSE X

logout(W, u) ==
    IF W.user[u].account = None THEN W
    ELSE propagate(Flips(SetUser(W, u, "account", None), u, "r", FALSE), Home[u],
                   Line("METADATA", Home[u], u, None), None)

\* An operator also gets +s, which OPERTYPE does not say.
oper_up(W, u) ==
    propagate(Flips(SetUser(W, u, "modes", W.user[u].modes \cup {"o"}), u, "s", TRUE),
              Home[u], Line("OPERTYPE", Home[u], u, None), None)

\* A displayed host (h) and ident (i), each possibly None.
change_host_ident_quiet(W, u, v) ==
    LET X == IF v.host = None THEN W ELSE SetUser(W, u, "vhost", v.host) IN
    IF v.ident = None THEN X
    ELSE SetUser(SetUser(X, u, "ident", v.ident), u, "vetted", FALSE)

change_host_ident(W, u, v) ==
    propagate(change_host_ident_quiet(W, u, v), Home[u],
              Encap(Line("CHGHOST", Home[u], u, v), "*"), None)

\* One letter of a user mode change that its handler lets through.
UserModeApplies(W, u, v, sudo) ==
    LET oper == "o" \in W.user[u].modes IN
    CASE v.letter = "o" -> ~v.on
      [] v.letter = "x" -> v.on \/ oper
      [] v.letter \in {"W", "s"} -> v.on => oper
      [] v.letter = "k" -> sudo
      [] v.letter = "r" -> FALSE
      [] OTHER -> TRUE

Toggled(modes, v) == IF v.on THEN modes \cup {v.letter} ELSE modes \ {v.letter}

UserMode(W, u, v, sudo) ==
    IF ~UserModeApplies(W, u, v, sudo) THEN W
    ELSE LET X == SetUser(W, u, "modes", Toggled(W.user[u].modes, v))
             Y == SetUser(X, u, "untold", W.user[u].untold \ {v.letter})
         IN  propagate_from_user(Y, u, Line("MODE", Home[u], u, v))

apply_user_modes(W, u, v) == UserMode(W, u, v, FALSE)
svs_set_user_modes(W, u, v) == UserMode(W, u, v, TRUE)

---------------------------------------------------------------------------
(* Rules *)

Active(e, now) == e # None /\ (e = 0 \/ e > now)

Hits(W, u, b) ==
    <<u, W.user[u].ident>> \in Matches[b] /\ Active(W.rules[<<Home[u], b>>], clock)

is_exempt(W, u)     == \E b \in Eline : Hits(W, u, b)
matched_xline(W, u) == ~is_exempt(W, u) /\ \E b \in Ban \ (Rline \cup Eline) : Hits(W, u, b)
matched_rline(W, u) == \E b \in Rline : Hits(W, u, b)

\* Every registered client of p is asked about, whatever line was added.
enforce_xlines(W, p) ==
    LET all     == Registered(W, p)
        victims == { u \in all : matched_xline(W, u) }
        Judge(u, X) == SetUser(X, u, "vetted", ~is_exempt(W, u))
    IN  FoldSet(remove_user_of, FoldSet(Judge, W, all), victims)

add_xline_at(W, p, r, dur, at) ==
    enforce_xlines(SetRule(W, p, r, IF dur = 0 THEN 0 ELSE at + dur), p)

remove_xline(W, p, r) == SetRule(W, p, r, None)

\* RLINE removes the clients of the server it is set on; enforce_xlines does not.
enforce_rline(W, p, r) ==
    FoldSet(remove_user_of, W, { u \in Registered(W, p) : Hits(W, u, r) })

---------------------------------------------------------------------------
(* What each line does to the server that reads it *)

link_uid(W, p, q, l) ==
    IF ~server_behind(l.src, q) \/ W.copy[<<p, l.u>>] # None THEN W
    ELSE propagate(SetCopy(W, p, l.u, [via |-> q, account |-> None, real |-> l.v.real,
                             host |-> l.v.host, ident |-> l.v.ident, away |-> FALSE,
                             modes |-> l.v.modes]), p, l, q)

drop_remote_user(W, p, u) == SetCopy(W, p, u, None)

link_quit(W, p, q, l) ==
    IF ~user_behind(W, p, l.u, q) THEN W
    ELSE propagate(drop_remote_user(W, p, l.u), p, l, q)

\* AWAY and SETNAME: the copy follows, and the other links hear it.
link_user_field(W, p, q, l, field) ==
    IF ~user_behind(W, p, l.u, q) THEN W
    ELSE propagate(SetCopy(W, p, l.u, [W.copy[<<p, l.u>>] EXCEPT ![field] = l.v]), p, l, q)

link_opertype(W, p, q, l) ==
    IF ~user_behind(W, p, l.u, q) THEN W
    ELSE SetCopy(W, p, l.u, [W.copy[<<p, l.u>>] EXCEPT !.modes = @ \cup {"o"}])

link_umode(W, p, q, l) ==
    IF ~user_behind(W, p, l.u, q) THEN W
    ELSE propagate(SetCopy(W, p, l.u, [W.copy[<<p, l.u>>] EXCEPT !.modes = Toggled(@, l.v)]),
                   p, l, q)

apply_remote_host_ident(W, p, l) ==
    LET known == W.copy[<<p, l.u>>] IN
    IF known = None THEN W
    ELSE SetCopy(W, p, l.u,
           [known EXCEPT !.host = IF l.v.host = None THEN @ ELSE l.v.host,
                         !.ident = IF l.v.ident = None THEN @ ELSE l.v.ident])

link_chghost(W, p, q, l) ==
    IF IsLocal(W, p, l.u) THEN change_host_ident_quiet(W, l.u, l.v)
    ELSE forward_to_target(apply_remote_host_ident(W, p, l), p, q, l)

apply_remote_account(W, p, q, l) ==
    IF user_behind(W, p, l.u, q) /\ W.copy[<<p, l.u>>].account # l.v
    THEN propagate(SetCopy(W, p, l.u, [W.copy[<<p, l.u>>] EXCEPT !.account = l.v]), p, l, q)
    ELSE W

link_metadata(W, p, q, l) ==
    IF ~IsLocal(W, p, l.u) THEN apply_remote_account(W, p, q, l)
    ELSE IF ~source_is_service(W, p, l) THEN W
    ELSE IF l.v = None THEN logout(W, l.u) ELSE set_login(W, l.u, l.v)

\* SVSLOGIN, SVSLOGOUT, SVSMODE, SVSOPER: obeyed from services only, and passed on.
link_svslogin(W, l) == set_login(W, l.u, l.v)
link_svslogout(W, l) == logout(W, l.u)
link_svsmode(W, l) == svs_set_user_modes(W, l.u, l.v)
link_svsoper(W, l) == IF "o" \in W.user[l.u].modes THEN W ELSE oper_up(W, l.u)

link_svs(W, p, q, l) ==
    IF ~source_is_service(W, p, l) THEN W
    ELSE IF ~IsLocal(W, p, l.u) THEN forward_to_target(W, p, q, l)
    ELSE CASE l.cmd = "SVSLOGIN"  -> link_svslogin(W, l)
           [] l.cmd = "SVSLOGOUT" -> link_svslogout(W, l)
           [] l.cmd = "SVSMODE"   -> link_svsmode(W, l)
           [] l.cmd = "SVSOPER"   -> link_svsoper(W, l)

\* A verdict ("ok", "fail") ends the exchange, a challenge goes to the client.
link_sasl(W, p, q, l) ==
    IF ~IsLocal(W, p, l.u) THEN forward_to_target(W, p, q, l)
    ELSE IF l.v = "C" THEN W ELSE SetUser(W, l.u, "mech", FALSE)

link_addline(W, p, q, l) ==
    IF ~server_behind(l.src, q) THEN W
    ELSE propagate(add_xline_at(W, p, l.u, l.v.dur, l.v.at), p, l, q)

link_delline(W, p, q, l) ==
    IF ~server_behind(l.src, q) \/ W.rules[<<p, l.u>>] = None THEN W
    ELSE propagate(remove_xline(W, p, l.u), p, l, q)

link_svshold(W, p, q, l) ==
    IF ~source_is_service(W, p, l) THEN W
    ELSE propagate(IF l.v = None THEN remove_xline(W, p, l.u)
                   ELSE add_xline_at(W, p, l.u, l.v, clock), p, l, q)

link_filter(W, p, q, l) == propagate(SetRule(W, p, l.u, 0), p, l, q)

close_link(W, p, q) ==
    LET gone == { u \in User : user_behind(W, p, u, q) }
        X == FoldSet(LAMBDA u, Y : drop_remote_user(Y, p, u), W, gone)
    IN  [X EXCEPT !.end = [@ EXCEPT ![<<p, q>>] = "down"],
                  !.wire = [@ EXCEPT ![<<q, p>>] = <<>>]]

\* The answer to our own SERVER line: the link is registered and we burst.
link_server(W, p, q) ==
    [W EXCEPT !.end = [@ EXCEPT ![<<p, q>>] = "up"],
              !.wire = [@ EXCEPT ![<<p, q>>] = @ \o Burst(W, p)]]

Unwrapped(W, p, q, l) ==
    CASE l.cmd = "UID"      -> link_uid(W, p, q, l)
      [] l.cmd = "QUIT"     -> link_quit(W, p, q, l)
      [] l.cmd = "AWAY"     -> link_user_field(W, p, q, l, "away")
      [] l.cmd = "SETNAME"  -> link_user_field(W, p, q, l, "real")
      [] l.cmd = "OPERTYPE" -> link_opertype(W, p, q, l)
      [] l.cmd = "MODE"     -> link_umode(W, p, q, l)
      [] l.cmd = "CHGHOST"  -> link_chghost(W, p, q, l)
      [] l.cmd = "METADATA" -> link_metadata(W, p, q, l)
      [] l.cmd = "SASL"     -> link_sasl(W, p, q, l)
      [] l.cmd = "ADDLINE"  -> link_addline(W, p, q, l)
      [] l.cmd = "DELLINE"  -> link_delline(W, p, q, l)
      [] l.cmd = "SVSHOLD"  -> link_svshold(W, p, q, l)
      [] l.cmd = "FILTER"   -> link_filter(W, p, q, l)
      [] l.cmd = "SERVER"   -> link_server(W, p, q)
      [] l.cmd = "EOF"      -> close_link(W, p, q)
      [] OTHER              -> link_svs(W, p, q, l)

\* ENCAP: "*" is obeyed and flooded, our name obeyed, a neighbour's passed on.
link_encap(W, p, q, l) ==
    LET inner == [l EXCEPT !.mask = None] IN
    IF l.mask = "*" THEN propagate(Unwrapped(W, p, q, inner), p, l, q)
    ELSE IF l.mask = p THEN Unwrapped(W, p, q, inner)
    ELSE IF l.mask # q THEN link_out(W, p, l.mask, l) ELSE W

on_link(W, p, q, l) ==
    IF l.mask = None THEN Unwrapped(W, p, q, l) ELSE link_encap(W, p, q, l)

\* The services server, which this code only sees as a peer: it answers the
\* start of an exchange with a challenge and the response with a verdict.
ServicesReply(W, p, q, l) ==
    CASE l.cmd = "EOF" -> { close_link(W, p, q) }
      [] l.cmd = "SASL" /\ l.v = "S" -> { link_out(W, p, q, Encap(Line("SASL", p, l.u, "C"), q)) }
      [] l.cmd = "SASL" /\ l.v = "C" ->
           { link_out(link_out(W, p, q, Line("METADATA", p, l.u, "acc")),
                      p, q, Encap(Line("SASL", p, l.u, "ok"), q)),
             link_out(W, p, q, Encap(Line("SASL", p, l.u, "fail"), q)) }
      [] OTHER -> { W }

Receive(q, p) ==
    LET e == <<q, p>>
        l == Head(wire[e])
        W == [World EXCEPT !.wire = [@ EXCEPT ![e] = Tail(@)]]
    IN  /\ wire[e] # <<>>
        /\ end[<<p, q>>] = "up" \/ l.cmd \in {"SERVER", "EOF"}
        /\ IF p \in Services THEN \E X \in ServicesReply(W, p, q, l) : Becomes(X)
           ELSE Becomes(on_link(W, p, q, l))
        /\ History(shown, IF l.cmd = "SERVER" THEN unsaid \cup AwayAt(p) ELSE unsaid, term)
        /\ UNCHANGED clock

---------------------------------------------------------------------------
(* The commands of clients and operators *)

Room == MapThenSumSet(LAMBDA e : Len(wire[e]), Edge) < MaxWire

Own(u) == u \in setup.users /\ Room /\ UNCHANGED clock

welcome(W, u) ==
    LET X == SetUser(W, u, "phase", "reg") IN
    FoldLeft(LAMBDA Y, l : propagate(Y, Home[u], l, None), X, user_intro_lines(X, u))

\* The x-lines are asked about the ident of the USER line, then the name that
\* the ident server gave replaces it.
finalize(W, u, name) ==
    SetUser(SetUser(W, u, "ident", name), u, "vetted",
            name = W.user[u].ident /\ ~is_exempt(W, u))

\* A slow password is checked by a worker while the core goes on; nothing is
\* asked again when it answers.
complete_registration(W, u, name, slow) ==
    LET F == finalize(W, u, name) IN
    IF matched_xline(W, u) THEN remove_user(W, u)
    ELSE IF matched_rline(F, u) THEN remove_user(F, u)
    ELSE IF slow THEN SetUser(SetUser(F, u, "phase", "slow"), u, "vetted", FALSE)
    ELSE welcome(F, u)

\* A client that is introduced while it is away.
Introduced(u) ==
    History(shown, IF user[u].away /\ user'[u].phase = "reg" THEN unsaid \cup {u} ELSE unsaid,
            term)

Register(u) ==
    /\ user[u].phase = "new" /\ Own(u)
    /\ \E name \in {user[u].ident} \cup {i \in {"id"} : May("ident")},
          slow \in {b \in BOOLEAN : b => May("slow")} :
          Becomes(complete_registration(World, u, name, slow))
    /\ Introduced(u)

\* The worker's answer.
ConnclassAuth(u, ok) ==
    /\ user[u].phase = "slow" /\ Own(u)
    /\ Becomes(IF ok THEN welcome(World, u) ELSE remove_user(World, u))
    /\ Introduced(u)

Quit(u) ==
    /\ May("quit") /\ user[u].phase = "reg" /\ Own(u)
    /\ Becomes(remove_user(World, u)) /\ NoHistory

Away(u, away) ==
    /\ May("away") /\ user[u].phase # "gone" /\ user[u].away # away /\ Own(u)
    /\ Becomes(propagate_from_user(SetUser(World, u, "away", away), u,
                                   Line("AWAY", Home[u], u, away)))
    /\ History(shown, IF user[u].phase = "reg" THEN unsaid \ {u} ELSE unsaid, term)

SetName(u, real) ==
    /\ May("name") /\ user[u].phase = "reg" /\ user[u].real # real /\ Own(u)
    /\ Becomes(propagate_from_user(SetUser(World, u, "real", real), u,
                                   Line("SETNAME", Home[u], u, real)))
    /\ NoHistory

Oper(u) ==
    /\ May("oper") /\ user[u].phase = "reg" /\ "o" \notin user[u].modes /\ Own(u)
    /\ Becomes(oper_up(World, u)) /\ NoHistory

ModeCmd(u, v) ==
    /\ May("mode") /\ user[u].phase = "reg" /\ Own(u)
    /\ (v.letter \in user[u].modes) # v.on
    /\ Becomes(apply_user_modes(World, u, v))
    /\ History([shown EXCEPT ![u] = IF v.letter = "x" THEN @ \cup {"cloak"} ELSE @],
               unsaid, term)

\* CHGHOST, SETHOST, CHGIDENT, SETIDENT of an operator on this server.
ChgHost(u, v) ==
    /\ May("host") /\ user[u].phase # "gone" /\ Own(u)
    /\ Becomes(change_host_ident(World, u, v))
    /\ History([shown EXCEPT ![u] = @ \cup {"home"}], unsaid, term)

sasl_link(p) == Linked(World, p) \cap Services

sasl_relay(W, u, v) ==
    LET p == Home[u] IN
    FoldSet(LAMBDA s, X : link_out(X, p, s, Encap(Line("SASL", p, u, v), s)), W, sasl_link(p))

\* A mechanism, a response, "*" or an overlong response.
Authenticate(u, arg) ==
    /\ May("sasl") /\ user[u].phase # "gone" /\ user[u].account = None /\ Own(u)
    /\ \/ /\ ~user[u].mech /\ arg = "mech" /\ sasl_link(Home[u]) # {}
          /\ Becomes(sasl_relay(SetUser(World, u, "mech", TRUE), u, "S"))
       \/ /\ user[u].mech /\ arg \in {"abort", "long"}
          /\ LET W == SetUser(World, u, "mech", FALSE) IN
             Becomes(IF arg = "abort" THEN sasl_relay(W, u, "A") ELSE W)
       \/ /\ user[u].mech /\ arg = "data"
          /\ Becomes(IF sasl_link(Home[u]) # {} THEN sasl_relay(World, u, "C")
                     ELSE SetUser(World, u, "mech", FALSE))
    /\ NoHistory

Void == [at |-> None, till |-> 0]

\* The history of a rule: its first setting, or no statement about it any more.
TermOf(p, r, e) ==
    [term EXCEPT ![r] = IF @ = None THEN [at |-> p, till |-> e] ELSE Void]

Acts(p) == p \in setup.servers /\ Room /\ UNCHANGED clock

\* What an operator's x-line command does on this server and tells the others.
SetXline(W, p, b, dur) ==
    propagate(add_xline_at(W, p, b, dur, clock), p,
              Line("ADDLINE", p, b, [at |-> clock, dur |-> dur]), None)

Ends(dur) == IF dur = 0 THEN 0 ELSE clock + dur

XlineCmd(p, b) == May("xline") /\ b \in setup.rules /\ Acts(p)

\* KLINE, GLINE, ZLINE, ...: the same line, still active, is not set again.
AddXline(p, b, dur) ==
    /\ XlineCmd(p, b) /\ b \notin Rline /\ ~Active(rules[<<p, b>>], clock)
    /\ Becomes(SetXline(World, p, b, dur))
    /\ History(shown, unsaid, TermOf(p, b, Ends(dur)))

AddRline(p, b, dur) ==
    /\ XlineCmd(p, b) /\ b \in Rline
    /\ Becomes(enforce_rline(SetXline(World, p, b, dur), p, b))
    /\ History(shown, unsaid, TermOf(p, b, Ends(dur)))

\* XCOPY: a line of another kind with what is left of the first one's term.
XCopy(p, from, to) ==
    /\ May("xcopy") /\ {from, to} \subseteq setup.rules /\ from # to /\ Acts(p)
    /\ rules[<<p, from>>] # None
    /\ LET dur == Left(rules[<<p, from>>], clock) IN
       /\ Becomes(SetXline(World, p, to, dur))
       /\ History(shown, unsaid, TermOf(p, to, Ends(dur)))

DelXline(p, b) ==
    /\ May("unxline") /\ b \in setup.rules /\ Acts(p) /\ rules[<<p, b>>] # None
    /\ Becomes(propagate(remove_xline(World, p, b), p, Line("DELLINE", p, b, None), None))
    /\ History(shown, unsaid, [term EXCEPT ![b] = Void])

\* xline.add and xline.del of the RPC port: this server only.
RpcXline(p, b, e) ==
    /\ May("rpc") /\ b \in setup.rules /\ Acts(p)
    /\ Becomes(IF e = None THEN remove_xline(World, p, b) ELSE add_xline_at(World, p, b, e, clock))
    /\ History(shown, unsaid, [term EXCEPT ![b] = Void])

FilterCmd(p, f, on) ==
    /\ May("filter") /\ f \in setup.rules /\ Acts(p)
    /\ Becomes(IF on THEN propagate(SetRule(World, p, f, 0), p, Line("FILTER", p, f, 0), None)
               ELSE SetRule(World, p, f, None))
    /\ History(shown, unsaid, IF on THEN TermOf(p, f, 0) ELSE [term EXCEPT ![f] = Void])

\* The background tick.
purge_xlines(p) ==
    /\ Becomes([World EXCEPT !.rules =
          [k \in DOMAIN rules |->
             IF k[1] = p /\ rules[k] # None /\ ~Active(rules[k], clock) THEN None ELSE rules[k]]])
    /\ NoHistory /\ UNCHANGED clock

Tick ==
    /\ clock < MaxTime /\ May("time") /\ clock' = clock + 1
    /\ UNCHANGED <<user, copy, end, wire, rules, setup, shown, unsaid, term>>

---------------------------------------------------------------------------
(* Services, and links that come and go *)

\* What services send of their own accord over their link with p.
ServicesSay(s, p, l) ==
    /\ s \in Services /\ May(l.cmd) /\ end[<<s, p>>] = "up" /\ Room
    /\ l.u \in setup.users => user[l.u].phase = "reg"
    /\ Becomes(link_out(World, s, p, l)) /\ UNCHANGED clock
    /\ History(IF l.cmd # "CHGHOST" THEN shown
               ELSE [shown EXCEPT ![l.u] = @ \cup {IF l.mask = "*" /\ Home[l.u] = p THEN "services" ELSE "passed"}],
               unsaid,
               IF l.cmd = "ADDLINE" THEN TermOf(s, l.u, 0) ELSE term)

\* q has accepted p's SERVER line: it answers and bursts at once.
Accept(p, q) ==
    LET e == <<p, q>>
        f == <<q, p>>
    IN  /\ May("link") /\ p \notin Services /\ q \notin Services
        /\ end[e] = "down" /\ end[f] = "down" /\ wire[e] = <<>> /\ wire[f] = <<>>
        /\ Becomes([World EXCEPT !.end = [@ EXCEPT ![e] = "wait", ![f] = "up"],
                                 !.wire = [@ EXCEPT ![f] = <<Line("SERVER", q, None, None)>>
                                                            \o Burst(World, q)]])
        /\ History(shown, unsaid \cup AwayAt(q), term) /\ UNCHANGED clock

\* p closes its end; the peer reads what p still sent, then the end of the stream.
Split(p, q) ==
    /\ May("split") /\ Room /\ {p, q} \cap Services = {} /\ end[<<p, q>>] = "up" /\ end[<<q, p>>] = "up"
    /\ LET W == close_link(World, p, q) IN
       Becomes([W EXCEPT !.wire = [@ EXCEPT ![<<p, q>>] = Append(@, Line("EOF", p, None, None))]])
    /\ NoHistory /\ UNCHANGED clock

Values == [host : {"vh", None}, ident : {"i1", None}] \ {[host |-> None, ident |-> None]}
Letters == [letter : {"i", "o", "x", "W", "s"}, on : BOOLEAN]

\* The lines services choose among.
Commands(s) ==
    LET targets == setup.users IN
    { Line("SVSLOGIN", s, u, "acc") : u \in targets }
    \cup { Line("SVSLOGOUT", s, u, None) : u \in targets }
    \cup { Line("METADATA", s, u, v) : u \in targets, v \in {"ac2", None} }
    \cup { Line("SVSMODE", s, u, [letter |-> c, on |-> b]) :
             u \in targets, c \in {"i", "k"}, b \in BOOLEAN }
    \cup { Line("SVSOPER", s, u, None) : u \in targets }
    \cup { Encap(Line("CHGHOST", s, u, [host |-> "sv", ident |-> "si"]), m) :
             u \in targets, m \in {"*", None} }
    \cup { Line("SVSHOLD", s, h, d) : h \in setup.rules \cap Hold, d \in {0, None} }
    \cup { Line("ADDLINE", s, b, [at |-> clock, dur |-> 0]) : b \in setup.rules \cap Ban }

Next ==
    \/ \E e \in Edge : Receive(e[1], e[2])
    \/ \E u \in User :
         \/ Register(u)
         \/ \E ok \in BOOLEAN : ConnclassAuth(u, ok)
         \/ Quit(u)
         \/ \E b \in BOOLEAN : Away(u, b)
         \/ \E r \in {"r0", "r1"} : SetName(u, r)
         \/ Oper(u)
         \/ \E v \in Letters : ModeCmd(u, v)
         \/ \E v \in Values : ChgHost(u, v)
         \/ \E arg \in {"mech", "data", "abort", "long"} : Authenticate(u, arg)
    \/ \E p \in Server, b \in Ban :
         \/ \E d \in {0, 2} : AddXline(p, b, d) \/ AddRline(p, b, d)
         \/ \E to \in Ban : XCopy(p, b, to)
         \/ DelXline(p, b)
         \/ \E e \in {0, None} : RpcXline(p, b, e)
    \/ \E p \in Server, f \in Filter, on \in BOOLEAN : FilterCmd(p, f, on)
    \/ \E p \in Server : purge_xlines(p)
    \/ Tick
    \/ \E e \in Edge : \E l \in Commands(e[1]) : ServicesSay(e[1], e[2], l)
    \/ \E e \in Edge : Accept(e[1], e[2]) \/ Split(e[1], e[2])

Spec == Init /\ [][Next]_vars

---------------------------------------------------------------------------
(* Properties *)

RecordType ==
    [phase : {"new", "slow", "reg", "gone"}, account : {None, "acc", "ac2"}, real : {"r0", "r1"},
     ident : Ident, vhost : {None, "vh", "sv"}, away : BOOLEAN,
     modes : SUBSET {"i", "o", "x", "W", "k", "r", "s"}, mech : BOOLEAN,
     untold : SUBSET {"r", "s"}, vetted : BOOLEAN]

\* Types of the tables: records, copies, ends of links, rules.
TypeOK ==
    /\ user \in [User -> RecordType]
    /\ \A k \in Server \X User : copy[k] # None =>
         /\ <<k[1], copy[k].via>> \in Edge /\ Home[k[2]] # k[1]
         /\ copy[k].modes \subseteq {"i", "o", "x", "W", "k", "r", "s"}
    /\ end \in [Edge -> {"down", "wait", "up"}]
    /\ \A k \in Server \X Rule : rules[k] \in Nat \cup {None}

\* Nothing is on its way between two linked servers.
Quiet(p, q) ==
    /\ <<p, q>> \in Edge
    /\ end[<<p, q>>] = "up" /\ end[<<q, p>>] = "up"
    /\ wire[<<p, q>>] = <<>> /\ wire[<<q, p>>] = <<>>

\* One author of the displayed host whose changes are told to the peers.
HostTold(u) == shown[u] \in {{}, {"home"}, {"services"}}

Mirrors(c, u) ==
    LET r == user[u] IN
    /\ r.phase = "reg"
    /\ c.account = r.account /\ c.real = r.real
    /\ c.modes \ r.untold = r.modes \ r.untold
    /\ u \notin unsaid => c.away = r.away
    /\ HostTold(u) => c.host = host_display(r) /\ c.ident = r.ident

\* Between two linked servers with nothing in flight, each knows exactly the
\* registered clients of the other, and its copy says what the home's record says:
\* account (also of a login that raced registration), real name, modes, away
\* unless the client was introduced while away, displayed host and ident as long as
\* one author changed them, the home or services linked to it (user_intro_lines, set_login,
\* link_metadata, link_away_recv, link_setname_recv, link_opertype_recv,
\* link_mode_recv, change_host_ident, close_link).  Two modes are excepted: +r of
\* a client that logs in or out after it was introduced, and +s of one that became
\* an operator, until a MODE line names it; neither METADATA nor OPERTYPE says so.
CopiesAgree ==
    \A p, q \in Server \ Services : Quiet(p, q) =>
        \A u \in User : Home[u] = q =>
            IF copy[<<p, u>>] = None THEN user[u].phase # "reg"
            ELSE Mirrors(copy[<<p, u>>], u)

\* "so a remote user's `modes` stay current for WHOIS" (apply_umode_string): the
\* copy of a client has its modes.  A login and an OPER refute it.
ModesCurrent ==
    \A p, q \in Server \ Services : Quiet(p, q) =>
        \A u \in User : Home[u] = q /\ copy[<<p, u>>] # None =>
            copy[<<p, u>>].modes = user[u].modes

Stands(r) == term[r] # None /\ term[r] # Void

\* An x-line or filter set once and never removed is, until its term is over, on
\* every server linked with the one it was set on, with the same end, and no
\* client it matches is left on either, as far as the code asks: regular
\* expressions are enforced only where they are set, and nobody is asked about a
\* client whose ident changed after the check (the ident server's answer,
\* CHGIDENT), that waited for a slow password, or that an exemption covered,
\* until the next x-line of any kind is added (add_xline_at, enforce_xlines,
\* complete_registration, link_addline_recv, burst_xlines, burst_filters,
\* apply_metadata).
RulesReach ==
    \A r \in Ban \cup Filter :
        Stands(r) /\ Active(term[r].till, clock) =>
            \A p \in { q \in Server \ Services : q = term[r].at \/ Quiet(term[r].at, q) } :
                /\ rules[<<p, r>>] = term[r].till
                /\ r \in Ban \ (Rline \cup Eline) =>
                      \A u \in Registered(World, p) :
                         user[u].vetted => <<u, user[u].ident>> \notin Matches[r]

\* A timed x-line ends everywhere: none is left as a permanent one.
TermsKept ==
    \A b \in Ban : Stands(b) /\ term[b].till # 0 =>
        \A p \in Server : rules[<<p, b>>] # 0
=============================================================================
