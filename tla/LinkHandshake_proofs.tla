------------------------- MODULE LinkHandshake_proofs -------------------------
(***************************************************************************)
(* The server list of every server follows its links, for any number of    *)
(* servers, connections and faults.                                        *)
(***************************************************************************)
EXTENDS LinkHandshake, WellFoundedInduction, TLAPS

\* The part of the type invariant that the argument rests on.
Typed ==
    /\ due \in [Server -> SUBSET Server]
    /\ conn \in [Conn -> Ends \cup {None}]
    /\ links \in [Server -> [Conn -> LinkState]]
    /\ servers \in [Server -> [Server -> Conn \cup {None}]]
    /\ opened \in 0 .. MaxConns

\* Nobody dials itself, and a connection that was not dialled has no ends.
Dialled ==
    /\ \A s \in Server : s \notin due[s]
    /\ \A c \in Conn : conn[c] # None => conn[c].from # conn[c].to
    /\ \A c \in Conn : c > opened => conn[c] = None

\* A Link record belongs to an end of an open connection.
LinksOpen ==
    \A s \in Server, c \in Conn : links[s][c] # "none" =>
        /\ conn[c] # None /\ conn[c].st = "open"
        /\ s \in {conn[c].from, conn[c].to}

\* The inductive invariant.
IInv == Typed /\ Dialled /\ LinksOpen /\ ServersFollowLinks

\* The ends of a connection are servers.
LEMMA PeerType ==
    ASSUME Typed, NEW s \in Server, NEW c \in Conn, conn[c] # None
    PROVE  /\ Peer(s, c) \in Server
           /\ conn[c] \in Ends
           /\ conn[c].from \in Server /\ conn[c].to \in Server
BY DEF Typed, Ends, Peer

\* The initial state satisfies the inductive invariant.
LEMMA InitIInv == Init => IInv
<1> SUFFICES ASSUME Init PROVE IInv
    OBVIOUS
<1>1. None \notin Conn
    BY LinkAssumption
<1>2. Typed
    BY LinkAssumption DEF Init, Typed, LinkState
<1>3. Dialled /\ LinksOpen
    BY DEF Init, Dialled, LinksOpen
<1>4. ServersFollowLinks
    BY DEF Init, ServersFollowLinks
<1> QED BY <1>2, <1>3, <1>4 DEF IInv

\* Dropping a Link with the servers behind it preserves the invariant: this is
\* close_link, and what ERROR, SQUIT, JUPE and timeouts do to the tables.
LEMMA ClosedPreserves ==
    ASSUME IInv, NEW s \in Server, NEW c \in Conn, conn[c] # None, NEW last,
           Closed(s, c, last), UNCHANGED <<due, conn, opened>>
    PROVE  IInv'
<1>0. None \notin Conn
    BY LinkAssumption
<1>1. Typed'
    BY DEF IInv, Typed, Closed, LinkState
<1>2. Dialled' /\ LinksOpen'
    BY DEF IInv, Typed, Dialled, LinksOpen, Closed
<1>3. ASSUME NEW q \in Server, NEW t \in Server, servers'[q][t] # None
      PROVE  /\ links'[q][servers'[q][t]] = "up"
             /\ Peer(q, servers[q][t])' = t
    <2>1. servers'[q][t] = servers[q][t] /\ servers[q][t] \in Conn
        BY <1>3 DEF IInv, Typed, Closed
    <2>2. q = s => servers[q][t] # c
        BY <1>0, <1>3, <2>1 DEF IInv, Typed, Closed
    <2>3. links[q][servers[q][t]] = "up" /\ Peer(q, servers[q][t]) = t
        BY <1>3, <2>1 DEF IInv, ServersFollowLinks
    <2>4. links'[q][servers[q][t]] = links[q][servers[q][t]]
        BY <2>1, <2>2 DEF IInv, Typed, Closed
    <2> QED BY <2>1, <2>3, <2>4 DEF Peer
<1>4. ASSUME NEW q \in Server, NEW d \in Conn, links'[q][d] = "up"
      PROVE  servers'[q][Peer(q, d)'] = d
    <2>1. links[q][d] = "up" /\ ~(q = s /\ d = c)
        BY <1>4 DEF IInv, Typed, Closed
    <2>2. servers[q][Peer(q, d)] = d
        BY <2>1 DEF IInv, ServersFollowLinks
    <2>3. Peer(q, d) \in Server /\ Peer(q, d)' = Peer(q, d)
        BY <2>1, PeerType DEF IInv, LinksOpen, Peer
    <2> QED BY <2>1, <2>2, <2>3 DEF IInv, Typed, Closed
<1>5. ServersFollowLinks'
    BY <1>3, <1>4 DEF ServersFollowLinks
<1> QED BY <1>1, <1>2, <1>5 DEF IInv

\* Steps that leave the connections, links and server lists alone.
LEMMA OtherPreserves ==
    ASSUME IInv, UNCHANGED <<conn, links, servers, opened>>,
           due' \in [Server -> SUBSET Server], \A s \in Server : s \notin due'[s]
    PROVE  IInv'
BY DEF IInv, Typed, Dialled, LinksOpen, ServersFollowLinks, Peer

\* A dial takes a fresh connection between two different servers.
LEMMA DialPreserves ==
    ASSUME IInv, NEW s \in Server, NEW t \in Server, s # t, Dial(s, t),
           due' \in [Server -> SUBSET Server], \A q \in Server : q \notin due'[q]
    PROVE  IInv'
<1> DEFINE n == opened + 1
<1>0. n \in Conn /\ conn[n] = None
    BY LinkAssumption DEF IInv, Typed, Dialled, Dial, Conn
<1>1. [from |-> s, to |-> t, st |-> "dialing"] \in Ends
    BY DEF Ends
<1>2. Typed'
    BY <1>0, <1>1, LinkAssumption DEF IInv, Typed, Dial, Conn
<1>3. Dialled'
    BY <1>0, <1>1, LinkAssumption DEF IInv, Typed, Dialled, Dial, Conn
<1>4. \A q \in Server, c \in Conn : links[q][c] # "none" => c # n /\ conn'[c] = conn[c]
    BY <1>0 DEF IInv, Typed, LinksOpen, Dial
<1>5. LinksOpen'
    BY <1>4 DEF IInv, LinksOpen, Dial
<1>6. ServersFollowLinks'
    <2>0. None \notin Conn
        BY LinkAssumption
    <2>1. links' = links /\ servers' = servers
        BY DEF Dial
    <2>2. \A q \in Server, t1 \in Server : servers[q][t1] # None =>
              servers[q][t1] \in Conn /\ links[q][servers[q][t1]] = "up"
        BY DEF IInv, Typed, ServersFollowLinks
    <2>3. \A q \in Server, c \in Conn : links[q][c] # "none" => Peer(q, c)' = Peer(q, c)
        BY <1>4 DEF Peer
    <2> QED BY <2>1, <2>2, <2>3 DEF IInv, ServersFollowLinks
<1> QED BY <1>2, <1>3, <1>5, <1>6 DEF IInv

\* The two ends add a link on a connection neither had one for.
LEMMA AddLinkPreserves ==
    ASSUME IInv, NEW c \in Conn, conn[c] # None, add_link(c)
    PROVE  IInv'
<1> DEFINE s == conn[c].from
           t == conn[c].to
<1>0. None \notin Conn
    BY LinkAssumption
<1>1. s \in Server /\ t \in Server /\ s # t /\ conn[c] \in Ends
    BY PeerType DEF IInv, Typed, Dialled, Ends
<1>2. conn[c].st = "dialing"
    BY DEF add_link
<1>3. conn' = [conn EXCEPT ![c] = [conn[c] EXCEPT !.st = "open"]]
    BY DEF add_link
<1>3a. /\ [conn[c] EXCEPT !.st = "open"] \in Ends
       /\ [conn[c] EXCEPT !.st = "open"].from = s
       /\ [conn[c] EXCEPT !.st = "open"].to = t
       /\ [conn[c] EXCEPT !.st = "open"].st = "open"
    BY <1>1 DEF Ends
<1>4. PICK v \in {"in", "out"} :
          links' = [links EXCEPT ![s][c] = v, ![t][c] = "in"]
    BY DEF add_link
<1>5. \A q \in Server : links[q][c] = "none"
    BY <1>2 DEF IInv, LinksOpen, Typed
<1>6. \A q \in Server, d \in Conn :
          /\ links'[q][d] \in LinkState
          /\ d # c => links'[q][d] = links[q][d]
          /\ links'[q][c] # "none" => q \in {s, t}
          /\ links'[q][c] # "up"
    BY <1>1, <1>4, <1>5 DEF IInv, Typed, LinkState
<1>7. UNCHANGED <<servers, due, opened>>
    BY DEF add_link
<1>8. None \notin Ends
    BY LinkAssumption DEF Ends
<1>9. conn'[c] \in Ends /\ conn'[c].from = s /\ conn'[c].to = t /\ conn'[c].st = "open"
    BY <1>3, <1>3a DEF IInv, Typed
<1>10. \A d \in Conn : d # c => conn'[d] = conn[d]
    BY <1>3 DEF IInv, Typed
<1>11. Typed'
    <2>1. conn' \in [Conn -> Ends \cup {None}]
        BY <1>3, <1>3a DEF IInv, Typed
    <2>2. links' \in [Server -> [Conn -> LinkState]]
        BY <1>1, <1>4 DEF IInv, Typed, LinkState
    <2> QED BY <1>7, <2>1, <2>2 DEF IInv, Typed
<1>12. Dialled'
    <2>1. \A d \in Conn : d > opened => d # c
        BY DEF IInv, Dialled
    <2> QED BY <1>1, <1>7, <1>9, <1>10, <2>1 DEF IInv, Dialled
<1>13. LinksOpen'
    BY <1>6, <1>8, <1>9, <1>10 DEF IInv, LinksOpen
<1>14. ServersFollowLinks'
    <2>1. \A q \in Server, d \in Conn :
              (d # c => Peer(q, d)' = Peer(q, d)) /\ (links'[q][d] = "up" <=> links[q][d] = "up")
        BY <1>5, <1>6, <1>10 DEF Peer
    <2>2. \A q \in Server, u \in Server : servers[q][u] # None =>
              servers[q][u] \in Conn \ {c}
        BY <1>5 DEF IInv, Typed, ServersFollowLinks
    <2>3. \A q \in Server, d \in Conn : links[q][d] = "up" => d # c
        BY <1>5
    <2> QED BY <1>7, <2>1, <2>2, <2>3 DEF IInv, ServersFollowLinks
<1> QED BY <1>11, <1>12, <1>13, <1>14 DEF IInv

\* A dial that fails never had a Link.
LEMMA DialFailsPreserves ==
    ASSUME IInv, NEW c \in Conn, conn[c] # None, DialFails(c)
    PROVE  IInv'
<1>1. conn[c] \in Ends /\ conn[c].st = "dialing"
    BY DEF IInv, Typed, DialFails
<1>2. conn' = [conn EXCEPT ![c] = [conn[c] EXCEPT !.st = "failed"]]
    BY DEF DialFails
<1>3. /\ [conn[c] EXCEPT !.st = "failed"] \in Ends
      /\ [conn[c] EXCEPT !.st = "failed"].from = conn[c].from
      /\ [conn[c] EXCEPT !.st = "failed"].to = conn[c].to
    BY <1>1 DEF Ends
<1>4. UNCHANGED <<links, servers, due, opened>>
    BY DEF DialFails
<1>5. /\ conn'[c].from = conn[c].from /\ conn'[c].to = conn[c].to
      /\ \A d \in Conn : d # c => conn'[d] = conn[d]
    BY <1>2, <1>3 DEF IInv, Typed
<1>6. \A q \in Server : links[q][c] = "none"
    BY <1>1 DEF IInv, LinksOpen, Typed
<1>7. Typed'
    BY <1>2, <1>3, <1>4 DEF IInv, Typed
<1>8. Dialled'
    BY <1>4, <1>5 DEF IInv, Dialled
<1>9. LinksOpen'
    BY <1>4, <1>5, <1>6 DEF IInv, LinksOpen
<1>10. ServersFollowLinks'
    <2>1. \A q \in Server, d \in Conn : Peer(q, d)' = Peer(q, d)
        BY <1>5 DEF Peer
    <2> QED BY <1>4, <2>1 DEF IInv, ServersFollowLinks, Typed
<1> QED BY <1>7, <1>8, <1>9, <1>10 DEF IInv

\* SERVER: a registration takes the only link to a server that has none yet.
LEMMA LinkServerPreserves ==
    ASSUME IInv, NEW s \in Server, NEW c \in Conn, conn[c] # None, link_server(s, c)
    PROVE  IInv'
<1> DEFINE t  == Peer(s, c)
           pw == Head(wire[t][c]).password
<1>0. None \notin Conn /\ t \in Server
    BY LinkAssumption, PeerType DEF IInv
<1>1. UNCHANGED <<due, conn, opened>>
    BY DEF link_server
<1>2. CASE ~Acceptable(s, t, pw)
    BY <1>1, <1>2, ClosedPreserves DEF link_server, reject_link
<1>3. CASE Acceptable(s, t, pw)
    <2>1. /\ links' = [links EXCEPT ![s][c] = "up"]
          /\ servers' = [servers EXCEPT ![s][t] = c]
        BY <1>3 DEF link_server
    <2>2. links[s][c] \notin {"none", "up"} /\ servers[s][t] = None
        BY <1>3 DEF link_server, First, Acceptable
    <2>3. /\ links' \in [Server -> [Conn -> LinkState]]
          /\ servers' \in [Server -> [Server -> Conn \cup {None}]]
        BY <1>0, <2>1 DEF IInv, Typed, LinkState
    <2>4. Typed'
        BY <1>1, <2>3 DEF IInv, Typed
    <2>5. Dialled'
        BY <1>1 DEF IInv, Dialled
    <2>6. \A q \in Server, d \in Conn :
              links'[q][d] = IF q = s /\ d = c THEN "up" ELSE links[q][d]
        BY <2>1 DEF IInv, Typed
    <2>7. \A q \in Server, u \in Server :
              servers'[q][u] = IF q = s /\ u = t THEN c ELSE servers[q][u]
        BY <1>0, <2>1 DEF IInv, Typed
    <2>8. LinksOpen'
        BY <1>1, <2>2, <2>6 DEF IInv, LinksOpen
    <2>9. \A q \in Server, d \in Conn : Peer(q, d)' = Peer(q, d)
        BY <1>1 DEF Peer
    <2>10. \A q \in Server, u \in Server : servers[q][u] # None =>
               /\ servers[q][u] \in Conn
               /\ links[q][servers[q][u]] = "up"
               /\ Peer(q, servers[q][u]) = u
        BY DEF IInv, Typed, ServersFollowLinks
    <2>11. ASSUME NEW q \in Server, NEW u \in Server, servers'[q][u] # None
           PROVE  /\ links'[q][servers'[q][u]] = "up"
                  /\ Peer(q, servers[q][u])' = u
        BY <2>2, <2>6, <2>7, <2>9, <2>10, <2>11
    <2>12. ASSUME NEW q \in Server, NEW d \in Conn, links'[q][d] = "up"
           PROVE  servers'[q][Peer(q, d)'] = d
        <3>1. CASE q = s /\ d = c
            BY <1>0, <2>7, <2>9, <3>1
        <3>2. CASE ~(q = s /\ d = c)
            <4>1. links[q][d] = "up" /\ servers[q][Peer(q, d)] = d
                BY <2>6, <2>12, <3>2 DEF IInv, ServersFollowLinks
            <4>2. Peer(q, d) \in Server
                BY <4>1, PeerType DEF IInv, LinksOpen
            <4> QED BY <1>0, <2>2, <2>7, <2>9, <4>1, <4>2
        <3> QED BY <3>1, <3>2
    <2>13. ServersFollowLinks'
        BY <2>11, <2>12 DEF ServersFollowLinks
    <2> QED BY <2>4, <2>5, <2>8, <2>13 DEF IInv
<1> QED BY <1>2, <1>3

\* A process that ends forgets its links and its server list together.
LEMMA CrashPreserves ==
    ASSUME IInv, NEW s \in Server, NEW quietly \in BOOLEAN, Crash(s, quietly)
    PROVE  IInv'
<1>1. /\ links' = [links EXCEPT ![s] = [c \in Conn |-> "none"]]
      /\ servers' = [servers EXCEPT ![s] = [t \in Server |-> None]]
      /\ due' = [due EXCEPT ![s] = {}]
      /\ UNCHANGED <<conn, opened>>
    BY DEF Crash
<1>2. Typed'
    BY <1>1 DEF IInv, Typed, LinkState
<1>3. Dialled' /\ LinksOpen'
    BY <1>1 DEF IInv, Typed, Dialled, LinksOpen
<1>4. ServersFollowLinks'
    BY <1>1 DEF IInv, Typed, ServersFollowLinks, Peer
<1> QED BY <1>2, <1>3, <1>4 DEF IInv

\* A start makes a server dial other servers only.
LEMMA BootPreserves ==
    ASSUME IInv, NEW s \in Server, Boot(s)
    PROVE  IInv'
<1>1. PICK blocks \in Configs[s] :
          due' = [due EXCEPT ![s] = Autoconnect(blocks) \cap Server]
    BY DEF Boot
<1>2. s \notin Autoconnect(blocks)
    BY LinkAssumption DEF Autoconnect
<1>3. due' \in [Server -> SUBSET Server] /\ \A q \in Server : q \notin due'[q]
    BY <1>1, <1>2 DEF IInv, Typed, Dialled
<1> QED BY <1>3, OtherPreserves DEF Boot

\* Every step preserves the inductive invariant.
LEMMA NextIInv == IInv /\ [Next]_vars => IInv'
<1> SUFFICES ASSUME IInv, [Next]_vars PROVE IInv'
    OBVIOUS
<1>0. due \in [Server -> SUBSET Server] /\ \A q \in Server : q \notin due[q]
    BY DEF IInv, Typed, Dialled
<1>1. ASSUME NEW s \in Server, Boot(s) PROVE IInv'
    BY <1>1, BootPreserves
<1>2. ASSUME NEW s \in Server, NEW quietly \in BOOLEAN, Crash(s, quietly) PROVE IInv'
    BY <1>2, CrashPreserves
<1>3. ASSUME NEW s \in Server, NEW t \in Server, AutoDial(s, t) PROVE IInv'
    <2>1. s # t /\ Dial(s, t) /\ due' = [due EXCEPT ![s] = @ \ {t}]
        BY <1>0, <1>3 DEF AutoDial
    <2>2. due' \in [Server -> SUBSET Server] /\ \A q \in Server : q \notin due'[q]
        BY <1>0, <2>1
    <2> QED BY <2>1, <2>2, DialPreserves
<1>4. ASSUME NEW s \in Server, NEW t \in Server, Oper(s, t) PROVE IInv'
    <2>1. CASE Connect(s, t)
        BY <1>0, <2>1, DialPreserves DEF Connect
    <2>2. ASSUME servers[s][t] # None
          PROVE  servers[s][t] \in Conn /\ conn[servers[s][t]] # None
        BY <2>2 DEF IInv, Typed, ServersFollowLinks, LinksOpen
    <2>3. CASE Squit(s, t)
        BY <2>2, <2>3, ClosedPreserves DEF Squit, close_link
    <2>4. CASE Jupe(s, t)
        <3>1. CASE servers[s][t] = None
            BY <1>0, <2>4, <3>1, OtherPreserves DEF Jupe
        <3>2. CASE servers[s][t] # None
            BY <2>2, <2>4, <3>2, ClosedPreserves DEF Jupe, close_link
        <3> QED BY <3>1, <3>2
    <2>5. CASE JupeChange(s, t)
        BY <1>0, <2>5, OtherPreserves DEF JupeChange
    <2> QED BY <1>4, <2>1, <2>3, <2>4, <2>5 DEF Oper
<1>5. ASSUME NEW c \in Conn, DialEnds(c) PROVE IInv'
    BY <1>5, AddLinkPreserves, DialFailsPreserves DEF DialEnds
<1>6. ASSUME NEW c \in Conn, NetLoss(c) PROVE IInv'
    BY <1>0, <1>6, OtherPreserves DEF NetLoss
<1>7. ASSUME NEW s \in Server, NEW c \in Conn, on_link(s, c) PROVE IInv'
    <2>1. conn[c] # None
        BY <1>7 DEF on_link
    <2>2. CASE link_server(s, c)
        BY <2>1, <2>2, LinkServerPreserves
    <2>3. CASE ErrorRecv(s, c)
        BY <2>1, <2>3, ClosedPreserves DEF ErrorRecv, close_link
    <2>4. CASE ReapDead(s, c)
        BY <2>1, <2>4, ClosedPreserves DEF ReapDead, close_link
    <2> QED BY <1>7, <2>2, <2>3, <2>4 DEF on_link
<1>8. ASSUME NEW s \in Server, NEW c \in Conn, ReapSlow(s, c) PROVE IInv'
    BY <1>8, ClosedPreserves DEF ReapSlow, close_link
<1>9. CASE UNCHANGED vars
    BY <1>0, <1>9, OtherPreserves DEF vars
<1> QED BY <1>1, <1>2, <1>3, <1>4, <1>5, <1>6, <1>7, <1>8, <1>9 DEF Next

\* In every reachable state a server is listed exactly while one registered link
\* leads to it: close_link, link_server and the oper commands keep `servers` and
\* `links` in step, whatever the number of simultaneous dials and faults.
THEOREM ServersFollow == Spec => []ServersFollowLinks
<1>1. IInv => ServersFollowLinks
    BY DEF IInv
<1> QED BY <1>1, InitIInv, NextIInv, PTL DEF Spec

-----------------------------------------------------------------------------
(* The passwords.  Says and Mute are what a stream of lines may hold.       *)

Says(w, pw) == \A i \in 1 .. Len(w) : w[i].cmd = "SERVER" => w[i].password = pw
Mute(w)     == \A i \in 1 .. Len(w) : w[i].cmd # "SERVER"

\* The block that the dialling end of c introduces itself with, the one the other
\* end checks it against, and the one the answer is checked against.
Offered(c)  == block_at(conn[c].from, Address[conn[c].to])
Expected(c) == block_named(conn[c].to, conn[c].from)
Answered(c) == block_named(conn[c].from, conn[c].to)

Dialler(c)  == links[conn[c].from][c]
Listener(c) == links[conn[c].to][c]

\* What the two ends of c have said and checked, as long as they are there: the
\* dialling end speaks first and with one password, the other end answers with the
\* one it has checked, and an end that registers has compared the two.
Told(c) ==
    /\ Dialler(c) # "none" => Says(wire[conn[c].from][c], Offered(c).password)
    /\ Listener(c) # "none" => Says(wire[conn[c].to][c], Expected(c).password)
    /\ Dialler(c) = "in" => /\ Mute(wire[conn[c].from][c])
                            /\ Mute(wire[conn[c].to][c])
                            /\ Listener(c) # "up"
    /\ Listener(c) = "up" /\ Dialler(c) # "none" =>
          Offered(c).password = Expected(c).password
    /\ Dialler(c) = "up" /\ Listener(c) # "none" =>
          Answered(c).password = Expected(c).password

\* A stopped process has no Link, and nothing was written before a link was added.
Wires ==
    /\ wire \in [Server -> [Conn -> Seq(Line)]]
    /\ alive \in [Server -> BOOLEAN]
    /\ link_blocks \in [Server -> Seq(Block)]
    /\ \A s \in Server, c \in Conn : links[s][c] # "none" => alive[s]
    /\ \A s \in Server, c \in Conn :
          conn[c] = None \/ conn[c].st = "dialing" => wire[s][c] = <<>>

\* The inductive invariant of the secrets.
SInv == Wires /\ \A c \in Conn : conn[c] # None => Told(c)

\* What writing and reading do to what a stream says.
LEMMA StreamFacts ==
    ASSUME NEW w \in Seq(Line), NEW pw
    PROVE  /\ Mute(w) => Says(w, pw)
           /\ Says(<<>>, pw) /\ Mute(<<>>) /\ Mute(<<EOF>>) /\ Mute(<<ERRORLine>>)
           /\ \A p \in Seq(Line) : Mute(p) =>
                 /\ Says(w, pw) => Says(w \o p, pw)
                 /\ Mute(w) => Mute(w \o p)
           /\ Says(w, pw) => Says(w \o <<SERVERLine(pw)>>, pw)
           /\ Says(<<SERVERLine(pw)>>, pw)
           /\ w # <<>> => /\ Says(w, pw) => Says(Tail(w), pw)
                          /\ Mute(w) => Mute(Tail(w))
                          /\ Says(w, pw) /\ Head(w).cmd = "SERVER" => Head(w).password = pw
                          /\ Mute(w) => Head(w).cmd # "SERVER"
<1>1. EOF.cmd # "SERVER" /\ ERRORLine.cmd # "SERVER"
  BY DEF EOF, ERRORLine
<1>2. SERVERLine(pw).password = pw BY DEF SERVERLine
<1>3. Mute(w) => Says(w, pw) BY DEF Mute, Says
<1>4. Says(<<>>, pw) /\ Mute(<<>>) /\ Mute(<<EOF>>) /\ Mute(<<ERRORLine>>)
  BY <1>1 DEF Mute, Says
<1>5. ASSUME NEW p \in Seq(Line), Mute(p)
      PROVE  /\ Says(w, pw) => Says(w \o p, pw)
             /\ Mute(w) => Mute(w \o p)
  <2>1. \A i \in 1 .. Len(w \o p) :
           IF i <= Len(w) THEN i \in 1 .. Len(w) /\ (w \o p)[i] = w[i]
           ELSE i - Len(w) \in 1 .. Len(p) /\ (w \o p)[i] = p[i - Len(w)]
    OBVIOUS
  <2> QED BY <1>5, <2>1 DEF Says, Mute
<1>6. Says(w, pw) => Says(w \o <<SERVERLine(pw)>>, pw)
  <2>1. \A i \in 1 .. Len(w \o <<SERVERLine(pw)>>) :
           IF i <= Len(w) THEN i \in 1 .. Len(w) /\ (w \o <<SERVERLine(pw)>>)[i] = w[i]
           ELSE (w \o <<SERVERLine(pw)>>)[i] = SERVERLine(pw)
    OBVIOUS
  <2> QED BY <1>2, <2>1 DEF Says
<1>7. Says(<<SERVERLine(pw)>>, pw) BY <1>2 DEF Says
<1>8. ASSUME w # <<>>
      PROVE  /\ Says(w, pw) => Says(Tail(w), pw)
             /\ Mute(w) => Mute(Tail(w))
             /\ Says(w, pw) /\ Head(w).cmd = "SERVER" => Head(w).password = pw
             /\ Mute(w) => Head(w).cmd # "SERVER"
  <2>1. Len(w) \in Nat /\ Len(w) >= 1 /\ Head(w) = w[1] BY <1>8
  <2>2. \A i \in 1 .. Len(Tail(w)) : i + 1 \in 1 .. Len(w) /\ Tail(w)[i] = w[i + 1]
    BY <1>8
  <2> QED BY <2>1, <2>2 DEF Says, Mute
<1> QED BY <1>3, <1>4, <1>5, <1>6, <1>7, <1>8

\* A set of naturals that is not empty has a least element.
LEMMA LeastNatural ==
    ASSUME NEW T \in SUBSET Nat, T # {}
    PROVE  \E x \in T : \A y \in T : x <= y
<1> DEFINE R == OpToRel(<, Nat)
<1>1. IsWellFoundedOn(R, Nat) BY NatLessThanWellFounded
<1>2. \A x, y \in Nat : y < x => <<y, x>> \in R BY DEF OpToRel
<1> HIDE DEF R
<1>3. PICK x \in T : \A y \in T : ~(<<y, x>> \in R) BY <1>1, WFMin
<1>4. \A y \in T : ~(y < x) BY <1>2, <1>3
<1> QED BY <1>3, <1>4

\* The first of some blocks is one of them.
LEMMA LeastIsIn ==
    ASSUME NEW blocks \in Seq(Block), NEW hits \in SUBSET DOMAIN blocks, hits # {}
    PROVE  blocks[CHOOSE i \in hits : \A j \in hits : i <= j] \in Block
<1>1. hits \in SUBSET Nat BY DOMAIN blocks = 1 .. Len(blocks)
<1>2. \E i \in hits : \A j \in hits : i <= j BY <1>1, LeastNatural
<1>3. (CHOOSE i \in hits : \A j \in hits : i <= j) \in hits BY <1>2
<1> QED BY <1>3

\* A block that is found is a block, and depends on the blocks that were read.
NamedIn(blocks, t) ==
    LET hits == { i \in DOMAIN blocks : blocks[i].name = t }
    IN  IF hits = {} THEN None ELSE blocks[CHOOSE i \in hits : \A j \in hits : i <= j]
AtIn(blocks, ip) ==
    LET hits == { i \in DOMAIN blocks : blocks[i].ip = ip }
    IN  IF hits = {} THEN None ELSE blocks[CHOOSE i \in hits : \A j \in hits : i <= j]

LEMMA BlockFound ==
    ASSUME link_blocks \in [Server -> Seq(Block)], NEW s \in Server, NEW t, NEW ip
    PROVE  /\ block_named(s, t) = NamedIn(link_blocks[s], t)
           /\ block_at(s, ip) = AtIn(link_blocks[s], ip)
           /\ block_named(s, t) # None => block_named(s, t) \in Block
           /\ block_at(s, ip) # None => block_at(s, ip) \in Block
<1>1. block_named(s, t) = NamedIn(link_blocks[s], t)
  BY DEF block_named, FirstBlock, NamedIn
<1>2. block_at(s, ip) = AtIn(link_blocks[s], ip)
  BY DEF block_at, FirstBlock, AtIn
<1>3. link_blocks[s] \in Seq(Block) OBVIOUS
<1>4. NamedIn(link_blocks[s], t) # None => NamedIn(link_blocks[s], t) \in Block
  <2> DEFINE hits == { i \in DOMAIN link_blocks[s] : link_blocks[s][i].name = t }
  <2>1. CASE hits = {} BY <2>1 DEF NamedIn
  <2>2. CASE hits # {}
    <3>1. NamedIn(link_blocks[s], t) = link_blocks[s][CHOOSE i \in hits : \A j \in hits : i <= j]
      BY <2>2 DEF NamedIn
    <3>2. hits \in SUBSET DOMAIN link_blocks[s] OBVIOUS
    <3> HIDE DEF hits
    <3> QED BY <1>3, <2>2, <3>1, <3>2, LeastIsIn
  <2> QED BY <2>1, <2>2
<1>5. AtIn(link_blocks[s], ip) # None => AtIn(link_blocks[s], ip) \in Block
  <2> DEFINE hits == { i \in DOMAIN link_blocks[s] : link_blocks[s][i].ip = ip }
  <2>1. CASE hits = {} BY <2>1 DEF AtIn
  <2>2. CASE hits # {}
    <3>1. AtIn(link_blocks[s], ip) = link_blocks[s][CHOOSE i \in hits : \A j \in hits : i <= j]
      BY <2>2 DEF AtIn
    <3>2. hits \in SUBSET DOMAIN link_blocks[s] OBVIOUS
    <3> HIDE DEF hits
    <3> QED BY <1>3, <2>2, <3>1, <3>2, LeastIsIn
  <2> QED BY <2>1, <2>2
<1> QED BY <1>1, <1>2, <1>4, <1>5

\* An end whose blocks stay finds the same blocks.
LEMMA BlocksStay ==
    ASSUME NEW s, link_blocks'[s] = link_blocks[s]
    PROVE  /\ \A t : block_named(s, t)' = block_named(s, t)
           /\ \A ip : block_at(s, ip)' = block_at(s, ip)
<1>1. \A t : /\ block_named(s, t) = NamedIn(link_blocks[s], t)
             /\ block_named(s, t)' = NamedIn(link_blocks'[s], t)
  BY DEF block_named, FirstBlock, NamedIn
<1>2. \A ip : /\ block_at(s, ip) = AtIn(link_blocks[s], ip)
              /\ block_at(s, ip)' = AtIn(link_blocks'[s], ip)
  BY DEF block_at, FirstBlock, AtIn
<1> QED BY <1>1, <1>2

-----------------------------------------------------------------------------
(* The secrets, action by action                                            *)

\* The initial state has no connection.
LEMMA InitSInv == Init => SInv
<1> SUFFICES ASSUME Init PROVE SInv OBVIOUS
<1>1. /\ wire \in [Server -> [Conn -> Seq(Line)]]
      /\ link_blocks \in [Server -> Seq(Block)]
  BY DEF Init
<1>2. alive \in [Server -> BOOLEAN] BY DEF Init
<1> QED BY <1>1, <1>2 DEF Init, SInv, Wires

\* A connection that a step does not touch, and whose ends keep their blocks as
\* long as they have a Link for it, is as it was.
LEMMA UntouchedTold ==
    ASSUME IInv, NEW c \in Conn, conn[c] # None, Told(c),
           conn'[c].from = conn[c].from, conn'[c].to = conn[c].to,
           \A q \in Server : links'[q][c] = links[q][c] /\ wire'[q][c] = wire[q][c],
           \A q \in Server : links[q][c] # "none" => link_blocks'[q] = link_blocks[q]
    PROVE  Told(c)'
<1>1. PICK s \in Server, t \in Server : s = conn[c].from /\ t = conn[c].to
  BY DEF IInv, Typed, Ends
<1>2. /\ Dialler(c)' = Dialler(c) /\ Listener(c)' = Listener(c)
      /\ wire'[conn'[c].from][c] = wire[s][c] /\ wire'[conn'[c].to][c] = wire[t][c]
  BY <1>1 DEF Dialler, Listener
<1>3. Dialler(c) # "none" => Offered(c)' = Offered(c) /\ Answered(c)' = Answered(c)
  BY <1>1, BlocksStay DEF Dialler, Offered, Answered
<1>4. Listener(c) # "none" => Expected(c)' = Expected(c)
  <2>1. Listener(c) # "none" => block_named(t, s)' = block_named(t, s)
    BY <1>1, BlocksStay DEF Listener
  <2>2. Expected(c) = block_named(t, s) /\ Expected(c)' = block_named(t, s)'
    BY <1>1 DEF Expected
  <2> QED BY <2>1, <2>2
<1> QED BY <1>1, <1>2, <1>3, <1>4 DEF Told

\* An end that has a Link is one of the two ends, and its peer is the other one.
LEMMA EndsOf ==
    ASSUME IInv, NEW s \in Server, NEW c \in Conn, links[s][c] # "none"
    PROVE  /\ conn[c] # None /\ conn[c].st = "open"
           /\ conn[c].from \in Server /\ conn[c].to \in Server
           /\ conn[c].from # conn[c].to
           /\ s \in {conn[c].from, conn[c].to}
           /\ Peer(s, c) = IF s = conn[c].from THEN conn[c].to ELSE conn[c].from
BY DEF IInv, Typed, Ends, Dialled, LinksOpen, Peer

\* An end that closes says nothing more of secrets, and forgets what it read.
LEMMA ClosedSInv ==
    ASSUME IInv, SInv, NEW s \in Server, NEW c \in Conn, links[s][c] # "none",
           NEW last \in {<<>>, <<ERRORLine>>}, Closed(s, c, last),
           UNCHANGED <<alive, link_blocks, conn>>
    PROVE  SInv'
<1>1. PICK f \in Server, t \in Server :
         /\ f = conn[c].from /\ t = conn[c].to /\ f # t /\ s \in {f, t}
         /\ conn[c] # None /\ conn[c].st = "open"
         /\ Peer(s, c) = IF s = f THEN t ELSE f
  BY EndsOf
<1>2. PICK r \in Server : r = Peer(s, c) /\ r # s /\ {r, s} = {f, t} BY <1>1
<1>3. PICK p \in Seq(Line) : last \o <<EOF>> = p /\ Mute(p)
  <2>1. EOF \in Line /\ ERRORLine \in Line BY DEF Line, EOF, ERRORLine
  <2>2. <<ERRORLine>> \in Seq(Line) /\ <<EOF>> \in Seq(Line) /\ <<>> \in Seq(Line)
    BY <2>1
  <2>3. Mute(<<>>) /\ Mute(<<EOF>>) /\ Mute(<<ERRORLine>>) BY <2>2, StreamFacts
  <2>4. last \in Seq(Line) /\ Mute(last) BY <2>2, <2>3
  <2>5. last \o <<EOF>> \in Seq(Line) BY <2>2, <2>4
  <2>6. Mute(last \o <<EOF>>) BY <2>2, <2>3, <2>4, StreamFacts
  <2> QED BY <2>5, <2>6
<1>4. PICK w \in {wire[s][c], wire[s][c] \o p} :
         wire' = [wire EXCEPT ![s][c] = w, ![r][c] = <<>>]
  BY <1>2, <1>3 DEF Closed, Written
<1>5. wire[s][c] \in Seq(Line) /\ w \in Seq(Line)
  <2>1. wire[s][c] \in Seq(Line) BY DEF SInv, Wires
  <2>2. wire[s][c] \o p \in Seq(Line) BY <2>1
  <2> QED BY <1>4, <2>1, <2>2
<1>6. /\ wire' \in [Server -> [Conn -> Seq(Line)]]
      /\ wire'[s][c] = w /\ wire'[r][c] = <<>>
      /\ \A q \in Server, d \in Conn : d # c => wire'[q][d] = wire[q][d]
  <2>1. <<>> \in Seq(Line) /\ wire \in [Server -> [Conn -> Seq(Line)]]
    BY DEF SInv, Wires
  <2>2. w \in Seq(Line) BY <1>5
  <2> QED BY <1>2, <1>4, <2>1, <2>2
<1>7. \A q \in Server, d \in Conn :
         links'[q][d] = IF q = s /\ d = c THEN "none" ELSE links[q][d]
  BY DEF Closed, IInv, Typed
<1>8. Wires'
  <2>1. \A q \in Server, d \in Conn : links'[q][d] # "none" => alive'[q]
    BY <1>7 DEF SInv, Wires
  <2>2. \A q \in Server, d \in Conn :
           conn'[d] = None \/ conn'[d].st = "dialing" => d # c /\ wire[q][d] = <<>>
    BY <1>1 DEF SInv, Wires
  <2>3. wire' \in [Server -> [Conn -> Seq(Line)]] BY <1>6
  <2>4. \A q \in Server, d \in Conn : d # c => wire'[q][d] = wire[q][d] BY <1>6
  <2> QED BY <2>1, <2>2, <2>3, <2>4 DEF SInv, Wires
<1>9. ASSUME NEW d \in Conn, conn'[d] # None, d # c PROVE Told(d)'
  BY <1>6, <1>7, <1>9, UntouchedTold DEF SInv
<1>10. Told(c)'
  <2>1. Told(c) BY <1>1 DEF SInv
  <2>2. \A pw : /\ Says(wire'[r][c], pw) /\ Mute(wire'[r][c])
                /\ Mute(wire[s][c]) => Mute(wire'[s][c])
    <3>1. \A pw : Says(<<>>, pw) /\ Mute(<<>>) BY <1>5, StreamFacts
    <3>2. Mute(wire[s][c]) => Mute(w) BY <1>3, <1>4, <1>5, StreamFacts
    <3>3. wire'[s][c] = w /\ wire'[r][c] = <<>> BY <1>6
    <3> QED BY <3>1, <3>2, <3>3
  <2>3. /\ conn'[c].from = f /\ conn'[c].to = t
        /\ links'[s][c] = "none" /\ links'[r][c] = links[r][c]
    BY <1>1, <1>2, <1>7
  <2> QED BY <1>1, <1>2, <2>1, <2>2, <2>3 DEF Told, Dialler, Listener
<1> QED BY <1>8, <1>9, <1>10 DEF SInv

\* A step that leaves links, wires and connections alone, and the blocks of the
\* servers that run.
LEMMA OtherSInv ==
    ASSUME IInv, SInv, UNCHANGED <<conn, links, wire>>,
           alive' \in [Server -> BOOLEAN], link_blocks' \in [Server -> Seq(Block)],
           \A q \in Server : alive[q] => alive'[q] /\ link_blocks'[q] = link_blocks[q]
    PROVE  SInv'
<1>1. Wires' BY DEF SInv, Wires
<1>2. ASSUME NEW c \in Conn, conn'[c] # None PROVE Told(c)'
  BY <1>2, UntouchedTold DEF SInv, Wires
<1> QED BY <1>1, <1>2 DEF SInv

\* A dial makes a connection with nothing on it.
LEMMA DialSInv ==
    ASSUME IInv, SInv, NEW s \in Server, NEW t \in Server, s # t, Dial(s, t)
    PROVE  SInv'
<1>0. PICK n \in Conn : n = opened + 1 /\ conn[n] = None
  BY LinkAssumption DEF IInv, Typed, Dialled, Dial, Conn
<1>1. /\ conn'[n] = [from |-> s, to |-> t, st |-> "dialing"]
      /\ \A c \in Conn : c # n => conn'[c] = conn[c]
      /\ UNCHANGED <<alive, link_blocks, links, wire>>
  BY <1>0 DEF Dial, IInv, Typed
<1>2. Wires' BY <1>0, <1>1 DEF SInv, Wires
<1>3. ASSUME NEW c \in Conn, conn'[c] # None, c # n PROVE Told(c)'
  BY <1>1, <1>3, UntouchedTold DEF SInv
<1>4. Told(n)'
  <2>1. \A q \in Server : links'[q][n] = "none"
    BY <1>0, <1>1 DEF IInv, LinksOpen
  <2> QED BY <1>1, <2>1 DEF Told, Dialler, Listener
<1> QED BY <1>2, <1>3, <1>4 DEF SInv

\* The dialling end introduces itself with the block of the address, or waits.
LEMMA AddLinkSInv ==
    ASSUME IInv, SInv, NEW c \in Conn, conn[c] # None, add_link(c)
    PROVE  SInv'
<1>1. PICK s \in Server, t \in Server : s = conn[c].from /\ t = conn[c].to /\ s # t
  BY DEF IInv, Typed, Ends, Dialled
<1>2. PICK b : b = block_at(s, Address[t]) OBVIOUS
<1>3. PICK w : w = IF b = None THEN <<>> ELSE <<SERVERLine(b.password)>> OBVIOUS
<1>4. b # None => b \in Block BY <1>2, BlockFound DEF SInv, Wires
<1>5. w \in Seq(Line)
  <2>1. b # None => SERVERLine(b.password) \in Line BY <1>4 DEF SERVERLine, Line, Block
  <2> QED BY <1>3, <2>1
<1>6. /\ wire' = [wire EXCEPT ![s][c] = w]
      /\ links' = [links EXCEPT ![s][c] = IF b = None THEN "in" ELSE "out", ![t][c] = "in"]
      /\ alive[s] /\ alive[t] /\ conn[c].st = "dialing"
      /\ UNCHANGED <<alive, link_blocks>>
  BY <1>1, <1>2, <1>3 DEF add_link
<1>7. /\ conn'[c].from = s /\ conn'[c].to = t /\ conn'[c].st = "open"
      /\ \A d \in Conn : d # c => conn'[d] = conn[d]
  <2>1. conn' = [conn EXCEPT ![c] = [conn[c] EXCEPT !.st = "open"]] BY DEF add_link
  <2>2. conn[c] \in Ends /\ conn \in [Conn -> Ends \cup {None}] BY DEF IInv, Typed
  <2> QED BY <1>1, <2>1, <2>2 DEF Ends
<1>8. /\ wire' \in [Server -> [Conn -> Seq(Line)]]
      /\ wire'[s][c] = w /\ wire'[t][c] = <<>>
      /\ \A q \in Server, d \in Conn : d # c => wire'[q][d] = wire[q][d]
  BY <1>1, <1>5, <1>6 DEF SInv, Wires
<1>9. /\ links'[s][c] = (IF b = None THEN "in" ELSE "out") /\ links'[t][c] = "in"
      /\ \A q \in Server, d \in Conn : d # c => links'[q][d] = links[q][d]
      /\ \A q \in Server : links'[q][c] # "none" => q \in {s, t}
  <2>1. \A q \in Server : links[q][c] = "none" BY <1>6 DEF IInv, LinksOpen
  <2> QED BY <1>1, <1>6, <2>1 DEF IInv, Typed
<1>10. Wires'
  <2>1. \A q \in Server, d \in Conn : links'[q][d] # "none" => alive'[q]
    <3>1. \A q \in Server : links'[q][c] # "none" => q \in {s, t} BY <1>9
    <3>2. \A q \in Server, d \in Conn : d # c => links'[q][d] = links[q][d] BY <1>9
    <3>3. alive[s] /\ alive[t] /\ alive' = alive BY <1>6
    <3>4. \A q \in Server, d \in Conn : links[q][d] # "none" => alive[q] BY DEF SInv, Wires
    <3> QED BY <3>1, <3>2, <3>3, <3>4
  <2>2. \A q \in Server, d \in Conn :
           conn'[d] = None \/ conn'[d].st = "dialing" => wire'[q][d] = <<>>
    <3>1. conn'[c] # None
      BY LinkAssumption DEF add_link, IInv, Typed, Ends
    <3>2. \A d \in Conn : d # c => conn'[d] = conn[d] BY <1>7
    <3>3. \A q \in Server, d \in Conn : d # c => wire'[q][d] = wire[q][d] BY <1>8
    <3>4. conn'[c].st # "dialing" BY <1>7
    <3>5. \A q \in Server, d \in Conn :
             conn[d] = None \/ conn[d].st = "dialing" => wire[q][d] = <<>>
      BY DEF SInv, Wires
    <3> QED BY <3>1, <3>2, <3>3, <3>4, <3>5
  <2> QED BY <1>6, <1>8, <2>1, <2>2 DEF SInv, Wires
<1>11. ASSUME NEW d \in Conn, conn'[d] # None, d # c PROVE Told(d)'
  <2>1. \A q \in Server : links'[q][d] = links[q][d] /\ wire'[q][d] = wire[q][d]
    BY <1>8, <1>9, <1>11
  <2>2. conn'[d] = conn[d] /\ link_blocks' = link_blocks BY <1>6, <1>7, <1>11
  <2> QED BY <1>11, <2>1, <2>2, UntouchedTold DEF SInv
<1>12. Told(c)'
  <2>1. block_at(s, Address[t])' = b BY <1>2, <1>6, BlocksStay
  <2>2. Offered(c)' = b BY <1>7, <2>1 DEF Offered
  <2>3. Says(w, b.password) /\ (b = None => Mute(w))
    BY <1>3, <1>5, StreamFacts
  <2>4. \A pw : Says(<<>>, pw) /\ Mute(<<>>) BY <1>5, StreamFacts
  <2>5. Dialler(c)' = (IF b = None THEN "in" ELSE "out") /\ Listener(c)' = "in"
    BY <1>7, <1>9 DEF Dialler, Listener
  <2> QED BY <1>7, <1>8, <2>2, <2>3, <2>4, <2>5 DEF Told
<1> QED BY <1>10, <1>11, <1>12 DEF SInv

\* A dial that fails leaves nothing behind.
LEMMA DialFailsSInv ==
    ASSUME IInv, SInv, NEW c \in Conn, conn[c] # None, DialFails(c)
    PROVE  SInv'
<1>1. conn' = [conn EXCEPT ![c] = [conn[c] EXCEPT !.st = "failed"]] BY DEF DialFails
<1>2. conn[c] \in Ends /\ conn \in [Conn -> Ends \cup {None}] BY DEF IInv, Typed
<1>3. /\ conn'[c].from = conn[c].from /\ conn'[c].to = conn[c].to /\ conn'[c].st = "failed"
      /\ conn'[c] # None
      /\ \A d \in Conn : d # c => conn'[d] = conn[d]
  BY <1>1, <1>2, LinkAssumption DEF Ends
<1>4. UNCHANGED <<alive, link_blocks, links, wire>> BY DEF DialFails
<1>5. Wires'
  <2>1. \A q \in Server, d \in Conn :
           conn'[d] = None \/ conn'[d].st = "dialing" => d # c /\ wire[q][d] = <<>>
    <3>1. \A q \in Server, d \in Conn :
             conn[d] = None \/ conn[d].st = "dialing" => wire[q][d] = <<>>
      BY DEF SInv, Wires
    <3> QED BY <1>3, <3>1
  <2> QED BY <1>4, <2>1 DEF SInv, Wires
<1>6. ASSUME NEW d \in Conn, conn'[d] # None PROVE Told(d)'
  <2>1. conn[d] # None /\ conn'[d].from = conn[d].from /\ conn'[d].to = conn[d].to
    BY <1>3, <1>6
  <2> QED BY <1>4, <2>1, UntouchedTold DEF SInv
<1> QED BY <1>5, <1>6 DEF SInv

\* An end that registers has compared the password it has read with its own.
LEMMA RegisteredSInv ==
    ASSUME IInv, SInv, NEW s \in Server, NEW c \in Conn, link_server(s, c),
           Acceptable(s, Peer(s, c), Head(wire[Peer(s, c)][c]).password)
    PROVE  SInv'
<1>0. links[s][c] # "none" /\ links[s][c] # "up" BY DEF link_server, First
<1>1. PICK f \in Server, t \in Server :
         /\ f = conn[c].from /\ t = conn[c].to /\ f # t /\ s \in {f, t}
         /\ conn[c] # None /\ conn[c].st = "open"
         /\ Peer(s, c) = IF s = f THEN t ELSE f
  BY <1>0, EndsOf
<1>2. PICK r \in Server : r = Peer(s, c) /\ r # s BY <1>1
<1>3. /\ wire[r][c] \in Seq(Line) /\ wire[s][c] \in Seq(Line)
      /\ wire[r][c] # <<>> /\ Head(wire[r][c]).cmd = "SERVER"
  BY <1>2 DEF SInv, Wires, link_server, First
<1>4. PICK mine \in Block : mine = block_named(s, r) /\ mine.password = Head(wire[r][c]).password
  <2>1. block_named(s, r) # None /\ block_named(s, r).password = Head(wire[r][c]).password
    BY <1>2 DEF Acceptable
  <2> QED BY <2>1, BlockFound DEF SInv, Wires
<1>5. PICK w \in {wire[s][c], wire[s][c] \o <<SERVERLine(mine.password)>>} :
         /\ wire' = [wire EXCEPT ![r][c] = Tail(@), ![s][c] = w]
         /\ links[s][c] # "in" => w = wire[s][c]
  BY <1>2, <1>4 DEF link_server, Written, Owing
<1>6. w \in Seq(Line) /\ Tail(wire[r][c]) \in Seq(Line)
  <2>1. SERVERLine(mine.password) \in Line BY DEF SERVERLine, Line, Block
  <2>2. wire[s][c] \o <<SERVERLine(mine.password)>> \in Seq(Line) BY <1>3, <2>1
  <2>3. w \in Seq(Line) BY <1>3, <1>5, <2>2
  <2>4. Tail(wire[r][c]) \in Seq(Line) BY <1>3
  <2> QED BY <2>3, <2>4
<1>7. /\ wire' \in [Server -> [Conn -> Seq(Line)]]
      /\ wire'[s][c] = w /\ wire'[r][c] = Tail(wire[r][c])
      /\ \A q \in Server, d \in Conn : d # c => wire'[q][d] = wire[q][d]
  <2>1. wire \in [Server -> [Conn -> Seq(Line)]] BY DEF SInv, Wires
  <2> QED BY <1>2, <1>5, <1>6, <2>1
<1>8. \A q \in Server, d \in Conn :
         links'[q][d] = IF q = s /\ d = c THEN "up" ELSE links[q][d]
  <2>1. links' = [links EXCEPT ![s][c] = "up"] BY DEF link_server
  <2> QED BY <2>1 DEF IInv, Typed
<1>9. UNCHANGED <<alive, link_blocks, conn>> BY DEF link_server
<1>10. Wires'
  <2>1. \A q \in Server, d \in Conn : links'[q][d] # "none" => alive'[q]
    BY <1>0, <1>8, <1>9 DEF SInv, Wires
  <2>2. \A q \in Server, d \in Conn :
           conn'[d] = None \/ conn'[d].st = "dialing" => d # c /\ wire[q][d] = <<>>
    BY <1>1, <1>9 DEF SInv, Wires
  <2>3. wire' \in [Server -> [Conn -> Seq(Line)]] BY <1>7
  <2>4. \A q \in Server, d \in Conn : d # c => wire'[q][d] = wire[q][d] BY <1>7
  <2> QED BY <1>9, <2>1, <2>2, <2>3, <2>4 DEF SInv, Wires
<1>11. ASSUME NEW d \in Conn, conn'[d] # None, d # c PROVE Told(d)'
  <2>1. \A q \in Server : links'[q][d] = links[q][d] /\ wire'[q][d] = wire[q][d]
    BY <1>7, <1>8, <1>11
  <2> QED BY <1>9, <1>11, <2>1, UntouchedTold DEF SInv
<1>12. Told(c)'
  <2>1. Told(c) BY <1>1 DEF SInv
  <2>2. Offered(c)' = Offered(c) /\ Expected(c)' = Expected(c) /\ Answered(c)' = Answered(c)
    <3>1. link_blocks'[f] = link_blocks[f] /\ link_blocks'[t] = link_blocks[t] BY <1>9
    <3>2. /\ block_at(f, Address[t])' = block_at(f, Address[t])
          /\ block_named(f, t)' = block_named(f, t)
          /\ block_named(t, f)' = block_named(t, f)
      BY <3>1, BlocksStay
    <3> QED BY <1>1, <1>9, <3>2 DEF Offered, Expected, Answered
  <2>3. /\ \A pw : Says(wire[r][c], pw) =>
              Says(Tail(wire[r][c]), pw) /\ Head(wire[r][c]).password = pw
        /\ ~Mute(wire[r][c])
    BY <1>3, StreamFacts
  <2>4. /\ conn'[c].from = f /\ conn'[c].to = t
        /\ links'[s][c] = "up" /\ links'[r][c] = links[r][c]
    BY <1>1, <1>2, <1>8, <1>9
  <2>5. CASE s = f
    <3>1. r = t /\ Answered(c) = mine BY <1>1, <1>2, <1>4, <2>5 DEF Answered
    <3>2. Dialler(c) # "in" /\ Dialler(c) # "none" /\ links[s][c] = Dialler(c)
      BY <1>0, <1>1, <2>1, <2>3, <2>5, <3>1 DEF Told, Dialler
    <3>3. wire'[f][c] = wire[f][c] /\ wire'[t][c] = Tail(wire[t][c])
      BY <1>5, <1>7, <2>5, <3>1, <3>2
    <3>4. Dialler(c)' = "up" /\ Listener(c)' = Listener(c)
      BY <1>1, <2>4, <2>5, <3>1 DEF Dialler, Listener
    <3> QED BY <1>1, <1>4, <2>1, <2>2, <2>3, <2>4, <3>1, <3>2, <3>3, <3>4 DEF Told
  <2>6. CASE s = t
    <3>1. r = f /\ Expected(c) = mine BY <1>1, <1>2, <1>4, <2>6 DEF Expected
    <3>2. Listener(c) # "none" /\ Dialler(c) # "in" /\ Dialler(c)' = Dialler(c)
          /\ Listener(c)' = "up"
      BY <1>0, <1>1, <2>1, <2>3, <2>4, <2>6, <3>1 DEF Told, Dialler, Listener
    <3>3. Says(wire[t][c], mine.password) BY <1>1, <2>1, <3>1, <3>2 DEF Told
    <3>4. Says(w, mine.password)
      <4>1. Says(wire[s][c] \o <<SERVERLine(mine.password)>>, mine.password)
        BY <1>3, <2>6, <3>3, StreamFacts
      <4> QED BY <1>5, <2>6, <3>3, <4>1
    <3>5. wire'[t][c] = w /\ wire'[f][c] = Tail(wire[f][c]) BY <1>7, <2>6, <3>1
    <3> QED BY <1>1, <1>4, <2>1, <2>2, <2>3, <2>4, <3>1, <3>2, <3>4, <3>5 DEF Told
  <2> QED BY <1>1, <2>5, <2>6
<1> QED BY <1>10, <1>11, <1>12 DEF SInv

\* A lost connection carries nothing but its end.
LEMMA NetLossSInv ==
    ASSUME IInv, SInv, NEW c \in Conn, conn[c] # None, NetLoss(c)
    PROVE  SInv'
<1>1. PICK f \in Server, t \in Server : f = conn[c].from /\ t = conn[c].to
  BY DEF IInv, Typed, Ends
<1>2. /\ conn[c].st = "open"
      /\ UNCHANGED <<alive, link_blocks, conn, links>>
  BY DEF NetLoss
<1>3. \A q \in Server : wire'[q][c] \in {wire[q][c], <<EOF>>}
      /\ \A d \in Conn : d # c => wire'[q][d] = wire[q][d]
  BY DEF NetLoss, SInv, Wires
<1>4. <<EOF>> \in Seq(Line)
  <2>1. EOF \in Line BY DEF EOF, Line
  <2> QED BY <2>1
<1>5. wire' \in [Server -> [Conn -> Seq(Line)]] BY <1>4 DEF NetLoss, SInv, Wires
<1>6. Wires'
  <2>1. \A q \in Server, d \in Conn :
           conn'[d] = None \/ conn'[d].st = "dialing" => d # c /\ wire[q][d] = <<>>
    BY <1>2 DEF SInv, Wires
  <2>2. \A q \in Server, d \in Conn : d # c => wire'[q][d] = wire[q][d] BY <1>3
  <2> QED BY <1>2, <1>5, <2>1, <2>2 DEF SInv, Wires
<1>7. ASSUME NEW d \in Conn, conn'[d] # None, d # c PROVE Told(d)'
  BY <1>2, <1>3, <1>7, UntouchedTold DEF SInv
<1>8. Told(c)'
  <2>1. Told(c) BY DEF SInv
  <2>2. Offered(c)' = Offered(c) /\ Expected(c)' = Expected(c) /\ Answered(c)' = Answered(c)
    <3>1. link_blocks'[f] = link_blocks[f] /\ link_blocks'[t] = link_blocks[t] BY <1>2
    <3>2. /\ block_at(f, Address[t])' = block_at(f, Address[t])
          /\ block_named(f, t)' = block_named(f, t)
          /\ block_named(t, f)' = block_named(t, f)
      BY <3>1, BlocksStay
    <3> QED BY <1>1, <1>2, <3>2 DEF Offered, Expected, Answered
  <2>3. Dialler(c)' = Dialler(c) /\ Listener(c)' = Listener(c)
    BY <1>2 DEF Dialler, Listener
  <2>4. Mute(<<EOF>>) /\ \A pw : Says(<<EOF>>, pw) BY <1>4, StreamFacts
  <2>5. \A q \in {f, t} : /\ \A pw : Says(wire[q][c], pw) => Says(wire'[q][c], pw)
                          /\ Mute(wire[q][c]) => Mute(wire'[q][c])
    BY <1>3, <2>4
  <2> QED BY <1>1, <1>2, <2>1, <2>2, <2>3, <2>5 DEF Told
<1> QED BY <1>6, <1>7, <1>8 DEF SInv

\* A process that ends takes its Links with it; what it wrote last is lost.
LEMMA CrashSInv ==
    ASSUME IInv, SInv, NEW s \in Server, NEW quietly \in BOOLEAN, Crash(s, quietly)
    PROVE  SInv'
<1>1. /\ links' = [links EXCEPT ![s] = [c \in Conn |-> "none"]]
      /\ alive' = [alive EXCEPT ![s] = FALSE]
      /\ UNCHANGED <<link_blocks, conn>>
  BY DEF Crash
<1>2. \A q \in Server, c \in Conn : links'[q][c] = IF q = s THEN "none" ELSE links[q][c]
  BY <1>1 DEF IInv, Typed
<1>3. /\ DOMAIN wire' = Server
      /\ \A q \in Server, c \in Conn :
            /\ links[s][c] = "none" => wire'[q][c] = wire[q][c]
            /\ links[s][c] # "none" =>
                  /\ wire'[q][c] \in {wire[q][c], <<>>, <<EOF>>}
                  /\ q = Peer(s, c) => wire'[q][c] = <<>>
                  /\ q = s /\ q # Peer(s, c) => wire'[q][c] \in {<<>>, <<EOF>>}
  BY DEF Crash
<1>4. <<EOF>> \in Seq(Line) /\ <<>> \in Seq(Line)
  <2>1. EOF \in Line BY DEF EOF, Line
  <2> QED BY <2>1
<1>5. wire' \in [Server -> [Conn -> Seq(Line)]]
  <2>1. ASSUME NEW q \in Server, NEW c \in Conn PROVE wire'[q][c] \in Seq(Line)
    <3>1. wire[q][c] \in Seq(Line) BY DEF SInv, Wires
    <3> QED BY <1>3, <1>4, <3>1
  <2>2. wire' = [q \in Server |-> [c \in Conn |-> wire'[q][c]]]
    BY DEF Crash
  <2> QED BY <2>1, <2>2
<1>6. Wires'
  <2>1. alive' \in [Server -> BOOLEAN] BY <1>1 DEF SInv, Wires
  <2>2. \A q \in Server, c \in Conn : links'[q][c] # "none" => alive'[q]
    BY <1>1, <1>2 DEF SInv, Wires
  <2>3. ASSUME NEW q \in Server, NEW c \in Conn,
               conn'[c] = None \/ conn'[c].st = "dialing"
        PROVE  wire'[q][c] = <<>>
    <3>1. links[s][c] = "none" BY <1>1, <2>3 DEF IInv, LinksOpen
    <3>2. wire[q][c] = <<>> BY <1>1, <2>3 DEF SInv, Wires
    <3> QED BY <1>3, <3>1, <3>2
  <2> QED BY <1>1, <1>5, <2>1, <2>2, <2>3 DEF SInv, Wires
<1>7. ASSUME NEW c \in Conn, conn'[c] # None, links[s][c] = "none" PROVE Told(c)'
  <2>1. \A q \in Server : links'[q][c] = links[q][c] /\ wire'[q][c] = wire[q][c]
    BY <1>2, <1>3, <1>7
  <2> QED BY <1>1, <1>7, <2>1, UntouchedTold DEF SInv
<1>8. ASSUME NEW c \in Conn, conn'[c] # None, links[s][c] # "none" PROVE Told(c)'
  <2>1. PICK f \in Server, t \in Server :
           /\ f = conn[c].from /\ t = conn[c].to /\ f # t /\ s \in {f, t}
           /\ Peer(s, c) = IF s = f THEN t ELSE f
    BY <1>8, EndsOf
  <2>2. PICK r \in Server : r = Peer(s, c) /\ r # s /\ {r, s} = {f, t} BY <2>1
  <2>3. wire'[r][c] = <<>> /\ wire'[s][c] \in {<<>>, <<EOF>>} BY <1>3, <1>8, <2>2
  <2>4. \A pw : Mute(<<>>) /\ Mute(<<EOF>>) /\ Says(<<>>, pw) BY <1>4, StreamFacts
  <2>5. Mute(wire'[r][c]) /\ Mute(wire'[s][c]) /\ \A pw : Says(wire'[r][c], pw)
    BY <2>3, <2>4
  <2>6. conn'[c].from = f /\ conn'[c].to = t /\ links'[s][c] = "none"
        /\ links'[r][c] = links[r][c]
    BY <1>1, <1>2, <2>1, <2>2
  <2>7. Told(c) BY <1>1, <1>8 DEF SInv
  <2> QED BY <2>1, <2>2, <2>5, <2>6, <2>7 DEF Told, Dialler, Listener
<1> QED BY <1>6, <1>7, <1>8 DEF SInv

\* A start reads new blocks, before there is any Link.
LEMMA BootSInv ==
    ASSUME IInv, SInv, NEW s \in Server, Boot(s)
    PROVE  SInv'
<1>1. PICK blocks \in Configs[s] : link_blocks' = [link_blocks EXCEPT ![s] = blocks]
  BY DEF Boot
<1>2. blocks \in Seq(Block) BY LinkAssumption
<1>3. link_blocks' \in [Server -> Seq(Block)] BY <1>1, <1>2 DEF SInv, Wires
<1>4. alive' \in [Server -> BOOLEAN] /\ ~alive[s] /\ UNCHANGED <<conn, links, wire>>
      /\ \A q \in Server : alive[q] => alive'[q]
  BY DEF Boot, SInv, Wires
<1>5. \A q \in Server : alive[q] => link_blocks'[q] = link_blocks[q]
  BY <1>1, <1>4 DEF SInv, Wires
<1> QED BY <1>3, <1>4, <1>5, OtherSInv

\* Every step preserves it.
LEMMA NextSInv == IInv /\ SInv /\ [Next]_vars => SInv'
<1> SUFFICES ASSUME IInv, SInv, [Next]_vars PROVE SInv'
  OBVIOUS
<1>0. alive \in [Server -> BOOLEAN] /\ link_blocks \in [Server -> Seq(Block)]
  BY DEF SInv, Wires
<1>1. ASSUME NEW s \in Server, NEW t \in Server, AutoDial(s, t) PROVE SInv'
  <2>1. s # t /\ Dial(s, t) BY <1>1 DEF AutoDial, IInv, Dialled
  <2> QED BY <2>1, DialSInv
<1>2. ASSUME NEW s \in Server, NEW t \in Server, Oper(s, t) PROVE SInv'
  <2>1. CASE Connect(s, t) BY <2>1, DialSInv DEF Connect
  <2>2. ASSUME servers[s][t] # None
        PROVE  servers[s][t] \in Conn /\ links[s][servers[s][t]] # "none"
    BY <2>2 DEF IInv, Typed, ServersFollowLinks
  <2>3. CASE Squit(s, t)
    BY <2>2, <2>3, ClosedSInv DEF Squit, close_link
  <2>4. CASE Jupe(s, t)
    <3>1. CASE servers[s][t] = None
      BY <1>0, <2>4, <3>1, OtherSInv DEF Jupe
    <3>2. CASE servers[s][t] # None
      BY <2>2, <2>4, <3>2, ClosedSInv DEF Jupe, close_link
    <3> QED BY <3>1, <3>2
  <2>5. CASE JupeChange(s, t)
    BY <1>0, <2>5, OtherSInv DEF JupeChange
  <2> QED BY <1>2, <2>1, <2>3, <2>4, <2>5 DEF Oper
<1>3. ASSUME NEW c \in Conn, DialEnds(c) PROVE SInv'
  BY <1>3, AddLinkSInv, DialFailsSInv DEF DialEnds
<1>4. ASSUME NEW s \in Server, NEW c \in Conn, on_link(s, c) PROVE SInv'
  <2>1. CASE link_server(s, c)
    <3>1. links[s][c] # "none" /\ UNCHANGED <<alive, link_blocks, conn>>
      BY <2>1 DEF link_server, First
    <3>2. CASE Acceptable(s, Peer(s, c), Head(wire[Peer(s, c)][c]).password)
      BY <2>1, <3>2, RegisteredSInv
    <3>3. CASE ~Acceptable(s, Peer(s, c), Head(wire[Peer(s, c)][c]).password)
      BY <2>1, <3>1, <3>3, ClosedSInv DEF link_server, reject_link
    <3> QED BY <3>2, <3>3
  <2>2. CASE ErrorRecv(s, c)
    BY <2>2, ClosedSInv DEF ErrorRecv, First, close_link
  <2>3. CASE ReapDead(s, c)
    BY <2>3, ClosedSInv DEF ReapDead, Silent, close_link
  <2> QED BY <1>4, <2>1, <2>2, <2>3 DEF on_link
<1>5. ASSUME NEW s \in Server, NEW c \in Conn, ReapSlow(s, c) PROVE SInv'
  BY <1>5, ClosedSInv DEF ReapSlow, close_link
<1>6. CASE UNCHANGED vars
  BY <1>0, <1>6, OtherSInv DEF vars
<1> QED BY <1>1, <1>2, <1>3, <1>4, <1>5, <1>6, BootSInv, CrashSInv, NetLossSInv DEF Next

\* Whatever the configuration files say, whoever dials and whatever is lost: a link
\* that both ends have registered joins two servers that configured the same
\* secret, which is also the one the dialling end picked by address.  link_server
\* compares what it reads; the invariant is that what is read on a connection was
\* written by the end that is still there, with the block it still has.
THEOREM SecretsShared == Spec => []SharedSecret
<1>1. IInv /\ SInv => SharedSecret
  <2> SUFFICES ASSUME IInv, SInv, NEW c \in Conn, BothUp(c)
               PROVE  /\ Answered(c).password = Expected(c).password
                      /\ Offered(c).password = Expected(c).password
    BY DEF SharedSecret, Answered, Expected, Offered
  <2> QED BY DEF SInv, Told, BothUp, Dialler, Listener
<1> QED BY <1>1, InitIInv, NextIInv, InitSInv, NextSInv, PTL DEF Spec
===============================================================================
