---------------------------- MODULE LinkHandshake ----------------------------
(***************************************************************************)
(* Server-to-server connections: dialling (at boot, by CONNECT), the       *)
(* SERVER handshake with its password, jupe and duplicate checks, ERROR,   *)
(* SQUIT, JUPE, lost connections, dead peers and restarts.  Two servers    *)
(* may have several connections under way at the same time, each dialled   *)
(* from either side.  (link.rs, socketengine.rs, main.rs, core_oper.rs)    *)
(***************************************************************************)
EXTENDS Integers, Sequences

CONSTANTS
    Server,      \* the servers, by SID and name
    Name,        \* the server names that configurations mention
    Ip,          \* network addresses
    Secret,      \* link passwords
    Address,     \* Address[s]: where server s listens
    Configs,     \* Configs[s]: the link blocks s may find in its file, in order
    Attended,    \* the servers whose opers use CONNECT, SQUIT and JUPE
    None,        \* no server, no connection, no block
    MaxConns,    \* bound: connections dialled in all
    MaxFaults    \* bound: crashes, lost connections, SQUITs, jupe changes

Conn == 1 .. MaxConns

Block == [name : Name, ip : Ip, password : Secret, autoconnect : BOOLEAN]

ASSUME LinkAssumption ==
    /\ Address \in [Server -> Ip]
    /\ Server \subseteq Name /\ Attended \subseteq Server
    /\ \A s \in Server : \A blocks \in Configs[s] :   \* no server lists itself
          /\ blocks \in Seq(Block)
          /\ \A i \in DOMAIN blocks : blocks[i].name # s
    /\ None \notin Conn \cup Block
    /\ None \notin [from : Server, to : Server, st : {"dialing", "open", "failed"}]
    /\ MaxConns \in Nat /\ MaxFaults \in Nat

VARIABLES
    alive,     \* alive[s]: the process of s is running
    link_blocks, \* link_blocks[s]: the link blocks s has read at its start
    due,       \* due[s]: autoconnect blocks whose boot-time dial is still to come
    conn,      \* conn[c]: the ends of connection c and whether it is open
    links,     \* links[s][c]: the Link record s keeps for c
    servers,   \* servers[s][t]: the connection t is registered on at s
    wire,      \* wire[s][c]: what s has written on c and the peer has not read
    jupes,     \* jupes[s]: the server names s refuses
    opened,    \* connections dialled so far
    faults     \* faults so far

vars == <<alive, link_blocks, due, conn, links, servers, wire, jupes, opened, faults>>

-----------------------------------------------------------------------------
(* Records and lines                                                        *)

Ends == [from : Server, to : Server, st : {"dialing", "open", "failed"}]

LinkState == {"none", "in", "out", "up"}
    \* no Link; we owe our SERVER line; SERVER sent; registered

SERVERLine(pw) == [cmd |-> "SERVER", password |-> pw]
ERRORLine      == [cmd |-> "ERROR"]
EOF            == [cmd |-> "EOF"]         \* the peer has closed its socket

Line == [cmd : {"SERVER"}, password : Secret] \cup [cmd : {"ERROR", "EOF"}]

Peer(s, c) == IF conn[c].from = s THEN conn[c].to ELSE conn[c].from

-----------------------------------------------------------------------------
(* Link blocks                                                              *)

\* The first block of s that satisfies the test, as iter().find() returns it.
FirstBlock(s, Test(_)) ==
    LET hits == { i \in DOMAIN link_blocks[s] : Test(link_blocks[s][i]) }
    IN  IF hits = {} THEN None
        ELSE link_blocks[s][CHOOSE i \in hits : \A j \in hits : i <= j]

\* An incoming SERVER line is matched by name ...
block_named(s, t) == FirstBlock(s, LAMBDA b : b.name = t)

\* ... but the side that dials looks its password up by address.
block_at(s, ip) == FirstBlock(s, LAMBDA b : b.ip = ip)

-----------------------------------------------------------------------------
(* Writing and closing                                                      *)

\* Lines written on a connection whose other end is gone are lost.
Written(s, c, lines) ==
    IF links[Peer(s, c)][c] = "none" THEN wire[s][c] ELSE wire[s][c] \o lines

\* Mutant: the servers behind the link are not dropped.
Closed_keeping_servers(s, c, last) ==
    /\ links' = [links EXCEPT ![s][c] = "none"]
    /\ wire' = [wire EXCEPT ![s][c] = Written(s, c, last \o <<EOF>>),
                            ![Peer(s, c)][c] = <<>>]
    /\ UNCHANGED servers

\* close_link, after writing `last`: the Link is dropped, with every server that
\* was reached through it; the writer flushes and then closes the socket.
Closed(s, c, last) ==
    /\ links' = [links EXCEPT ![s][c] = "none"]
    /\ servers' = [servers EXCEPT ![s] =
          [t \in Server |-> IF @[t] = c THEN None ELSE @[t]]]
    /\ wire' = [wire EXCEPT ![s][c] = Written(s, c, last \o <<EOF>>),
                            ![Peer(s, c)][c] = <<>>]

close_link(s, c) == Closed(s, c, <<>>)

reject_link(s, c) == Closed(s, c, <<ERRORLine>>)

-----------------------------------------------------------------------------
(* Dialling                                                                 *)

Autoconnect(blocks) ==
    { blocks[i].name : i \in { j \in DOMAIN blocks : blocks[j].autoconnect } }

\* A start of the process: the configuration is read (a rehash does not read the
\* link blocks again) and a thread is spawned for each autoconnect block.
Boot(s) ==
    /\ ~alive[s]
    /\ alive' = [alive EXCEPT ![s] = TRUE]
    /\ \E blocks \in Configs[s] :
          /\ link_blocks' = [link_blocks EXCEPT ![s] = blocks]
          /\ due' = [due EXCEPT ![s] = Autoconnect(blocks) \cap Server]
    /\ UNCHANGED <<conn, links, servers, wire, jupes, opened, faults>>

Dial(s, t) ==
    /\ opened < MaxConns
    /\ opened' = opened + 1
    /\ conn' = [conn EXCEPT ![opened + 1] = [from |-> s, to |-> t, st |-> "dialing"]]
    /\ UNCHANGED <<alive, link_blocks, links, servers, wire, jupes, faults>>

\* Two seconds after the start, whatever happens: one dial per autoconnect block.
AutoDial(s, t) ==
    /\ alive[s]
    /\ t \in due[s]
    /\ due' = [due EXCEPT ![s] = @ \ {t}]
    /\ Dial(s, t)

\* CONNECT by an oper: refused if the server is linked; the dial is a thread's.
Connect(s, t) ==
    /\ alive[s] /\ s # t
    /\ block_named(s, t) # None
    /\ servers[s][t] = None
    /\ Dial(s, t)
    /\ UNCHANGED due

\* The dial succeeds: both ends add the link and the dialling end introduces
\* itself if it finds a password for the address it has reached.
add_link(c) ==
    LET s == conn[c].from
        t == conn[c].to
        b == block_at(s, Address[t])
    IN /\ conn[c].st = "dialing"
       /\ alive[s] /\ alive[t]
       /\ conn' = [conn EXCEPT ![c].st = "open"]
       /\ links' = [links EXCEPT ![s][c] = IF b = None THEN "in" ELSE "out",
                                 ![t][c] = "in"]
       /\ wire' = [wire EXCEPT ![s][c] = IF b = None THEN <<>>
                                         ELSE <<SERVERLine(b.password)>>]
       /\ UNCHANGED <<alive, link_blocks, due, servers, jupes, opened, faults>>

\* The dial fails, once and for all: there is nobody there.
DialFails(c) ==
    /\ conn[c].st = "dialing"
    /\ ~alive[conn[c].to] \/ ~alive[conn[c].from]
    /\ conn' = [conn EXCEPT ![c].st = "failed"]
    /\ UNCHANGED <<alive, link_blocks, due, links, servers, wire, jupes, opened, faults>>

-----------------------------------------------------------------------------
(* Lines                                                                    *)

First(s, c, cmd) ==
    /\ conn[c].st = "open" /\ links[s][c] # "none"
    /\ wire[Peer(s, c)][c] # <<>>
    /\ Head(wire[Peer(s, c)][c]).cmd = cmd

\* Mutant: the password is not compared.
Acceptable_any_password(s, t, pw) ==
    /\ t \notin jupes[s]
    /\ block_named(s, t) # None
    /\ servers[s][t] = None

\* What link_server requires of a SERVER line with password pw from t.
Acceptable(s, t, pw) ==
    /\ t \notin jupes[s]
    /\ block_named(s, t) # None
    /\ block_named(s, t).password = pw
    /\ servers[s][t] = None

\* Our own SERVER line has not been sent yet.
Owing(s, c) == links[s][c] = "in"

\* SERVER on a link that is not registered: refused with ERROR, or registered,
\* and answered if we still owe our own SERVER line.
link_server(s, c) ==
    LET t  == Peer(s, c)
        pw == Head(wire[t][c]).password
    IN /\ First(s, c, "SERVER")
       /\ links[s][c] # "up"
       /\ IF ~Acceptable(s, t, pw)
          THEN reject_link(s, c)
          ELSE /\ links' = [links EXCEPT ![s][c] = "up"]
               /\ servers' = [servers EXCEPT ![s][t] = c]
               /\ wire' = [wire EXCEPT
                     ![t][c] = Tail(@),
                     ![s][c] = IF Owing(s, c)
                               THEN Written(s, c, <<SERVERLine(
                                        block_named(s, t).password)>>)
                               ELSE @]
       /\ UNCHANGED <<alive, link_blocks, due, conn, jupes, opened, faults>>

\* ERROR, or the end of the stream: the link is closed.
ErrorRecv(s, c) ==
    /\ First(s, c, "ERROR") \/ First(s, c, "EOF")
    /\ close_link(s, c)
    /\ UNCHANGED <<alive, link_blocks, due, conn, jupes, opened, faults>>

\* Mutant: only registered links are swept.
Silent_registered(s, c) ==
    /\ links[s][c] = "up"
    /\ wire[Peer(s, c)][c] = <<>>
    /\ links[Peer(s, c)][c] = "none"

\* Mutant: only links that are not registered are swept.
Silent_unregistered(s, c) ==
    /\ links[s][c] \in {"in", "out"}
    /\ wire[Peer(s, c)][c] = <<>>
    /\ \/ links[Peer(s, c)][c] = "none"
       \/ links[s][c] = "in" /\ links[Peer(s, c)][c] = "in" /\ wire[s][c] = <<>>

\* Nothing will be heard on c any more: the peer is gone without a word, or both
\* ends wait for the other's SERVER line.
Silent(s, c) ==
    /\ links[s][c] # "none"
    /\ wire[Peer(s, c)][c] = <<>>
    /\ \/ links[Peer(s, c)][c] = "none"
       \/ links[s][c] = "in" /\ links[Peer(s, c)][c] = "in" /\ wire[s][c] = <<>>

\* on_tick: a link that has been silent for ping_frequency + ping_timeout.
ReapDead(s, c) ==
    /\ Silent(s, c)
    /\ close_link(s, c)
    /\ UNCHANGED <<alive, link_blocks, due, conn, jupes, opened, faults>>

-----------------------------------------------------------------------------
(* Opers and faults                                                         *)

Fault == faults < MaxFaults /\ faults' = faults + 1

\* The same, of a peer that is only slow: its lines come after the deadline.
ReapSlow(s, c) ==
    /\ conn[c] # None /\ links[s][c] # "none"
    /\ Fault
    /\ close_link(s, c)
    /\ UNCHANGED <<alive, link_blocks, due, conn, jupes, opened>>

Squit(s, t) ==
    /\ servers[s][t] # None
    /\ Fault
    /\ close_link(s, servers[s][t])
    /\ UNCHANGED <<alive, link_blocks, due, conn, jupes, opened>>

\* JUPE: the name is refused from now on, and cut off if it is linked.
Jupe(s, t) ==
    /\ alive[s]
    /\ Fault
    /\ jupes' = [jupes EXCEPT ![s] = @ \cup {t}]
    /\ IF servers[s][t] = None
       THEN UNCHANGED <<links, servers, wire>>
       ELSE close_link(s, servers[s][t])
    /\ UNCHANGED <<alive, link_blocks, due, conn, opened>>

\* ADDLINE, DELLINE, expiry or removal of a jupe change the list and no link.
JupeChange(s, t) ==
    /\ alive[s]
    /\ Fault
    /\ jupes' = [jupes EXCEPT ![s] = IF t \in @ THEN @ \ {t} ELSE @ \cup {t}]
    /\ UNCHANGED <<alive, link_blocks, due, conn, links, servers, wire, opened>>

\* The network loses an open connection: each end that has it sees it end.
NetLoss(c) ==
    /\ conn[c].st = "open"
    /\ \E s \in {conn[c].from, conn[c].to} : links[s][c] # "none"
    /\ Fault
    /\ wire' = [s \in Server |-> [wire[s] EXCEPT ![c] =
          IF s \in {conn[c].from, conn[c].to} /\ links[Peer(s, c)][c] # "none"
          THEN <<EOF>> ELSE @]]
    /\ UNCHANGED <<alive, link_blocks, due, conn, links, servers, jupes, opened>>

\* The process of s ends.  Its kernel closes the connections, or (power loss)
\* the peers hear nothing; some of what s has written is lost.
Crash(s, quietly) ==
    /\ alive[s]
    /\ Fault
    /\ alive' = [alive EXCEPT ![s] = FALSE]
    /\ due' = [due EXCEPT ![s] = {}]
    /\ links' = [links EXCEPT ![s] = [c \in Conn |-> "none"]]
    /\ servers' = [servers EXCEPT ![s] = [t \in Server |-> None]]
    /\ wire' = [t \in Server |-> [c \in Conn |->
          IF links[s][c] = "none" THEN wire[t][c]
          ELSE IF t = Peer(s, c) THEN <<>>
          ELSE IF t # s THEN wire[t][c]
          ELSE IF links[Peer(s, c)][c] = "none" \/ quietly THEN <<>>
          ELSE <<EOF>>]]
    /\ UNCHANGED <<link_blocks, conn, jupes, opened>>

-----------------------------------------------------------------------------
Init ==
    /\ alive = [s \in Server |-> FALSE]
    /\ link_blocks = [s \in Server |-> <<>>]
    /\ due = [s \in Server |-> {}]
    /\ conn = [c \in Conn |-> None]
    /\ links = [s \in Server |-> [c \in Conn |-> "none"]]
    /\ servers = [s \in Server |-> [t \in Server |-> None]]
    /\ wire = [s \in Server |-> [c \in Conn |-> <<>>]]
    /\ jupes = [s \in Server |-> {}]
    /\ opened = 0
    /\ faults = 0

\* The event loop and the reader threads of s, for one of its connections.
on_link(s, c) ==
    /\ conn[c] # None
    /\ link_server(s, c) \/ ErrorRecv(s, c) \/ ReapDead(s, c)

DialEnds(c) == conn[c] # None /\ (add_link(c) \/ DialFails(c))

Oper(s, t) == Connect(s, t) \/ Squit(s, t) \/ Jupe(s, t)
              \/ JupeChange(s, t)

Next ==
    \/ \E s \in Server : Boot(s) \/ \E quietly \in BOOLEAN : Crash(s, quietly)
    \/ \E s, t \in Server : AutoDial(s, t) \/ (s \in Attended /\ Oper(s, t))
    \/ \E c \in Conn : DialEnds(c) \/ (conn[c] # None /\ NetLoss(c))
    \/ \E s \in Server, c \in Conn : on_link(s, c) \/ ReapSlow(s, c)

\* Readers and timers run, dials end, and boot-time dials are made.
Fairness ==
    /\ \A s \in Server : WF_vars(\E c \in Conn : on_link(s, c))
    /\ \A c \in Conn : WF_vars(DialEnds(c))
    /\ \A s, t \in Server : WF_vars(AutoDial(s, t))
    /\ \A s \in Server : WF_vars(Boot(s))

Spec == Init /\ [][Next]_vars

FairSpec == Spec /\ Fairness
-----------------------------------------------------------------------------
(* Properties                                                               *)

\* Every variable has its type.
TypeOK ==
    /\ alive \in [Server -> BOOLEAN]
    /\ link_blocks \in [Server -> Seq(Block)]
    /\ due \in [Server -> SUBSET Server]
    /\ conn \in [Conn -> Ends \cup {None}]
    /\ links \in [Server -> [Conn -> LinkState]]
    /\ servers \in [Server -> [Server -> Conn \cup {None}]]
    /\ wire \in [Server -> [Conn -> Seq(Line)]]
    /\ jupes \in [Server -> SUBSET Server]
    /\ opened \in 0 .. MaxConns
    /\ faults \in 0 .. MaxFaults

\* A server is listed exactly when one registered link leads to it: never two
\* links (propagate would send it every line twice), never a listed server whose
\* link is gone (it could not relink: "already-present SID").
ServersFollowLinks ==
    \A s \in Server :
        /\ \A t \in Server : servers[s][t] # None =>
              /\ links[s][servers[s][t]] = "up"
              /\ Peer(s, servers[s][t]) = t
        /\ \A c \in Conn : links[s][c] = "up" => servers[s][Peer(s, c)] = c

BothUp(c) == /\ conn[c] # None
             /\ links[conn[c].from][c] = "up" /\ links[conn[c].to][c] = "up"

\* Both ends registered means that both configured the same secret, even when
\* the dialling end picked a block by address that is another server's.
SharedSecret ==
    \A c \in Conn : BothUp(c) =>
        LET s == conn[c].from
            t == conn[c].to
        IN  /\ block_named(s, t).password = block_named(t, s).password
            /\ block_at(s, Address[t]).password = block_named(t, s).password

\* A handshake ends: the link is registered or closed, also when both ends wait
\* for the other's SERVER line or the peer has died.
HandshakeEnds ==
    \A s \in Server, c \in Conn :
        links[s][c] \in {"in", "out"} ~> links[s][c] \in {"none", "up"}

\* A link registered at one end only is registered at both or closed in the end.
HalfOpenHeals ==
    \A s \in Server, c \in Conn :
        (links[s][c] = "up" /\ ~BothUp(c)) ~> (links[s][c] = "none" \/ BothUp(c))

Linked(s, t) == /\ servers[s][t] # None /\ servers[s][t] = servers[t][s]

AutoPeers(s) == UNION { Autoconnect(blocks) : blocks \in Configs[s] }

\* Servers with an autoconnect block that have been linked are linked again after
\* a netsplit.
RelinksAfterSplit ==
    \A s, t \in Server : t \in AutoPeers(s) =>
        (<>Linked(s, t) => []<>Linked(s, t))
=============================================================================
