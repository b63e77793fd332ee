--------------------------- MODULE NetNicks_proofs ---------------------------
(***************************************************************************)
(* Proofs about NetNicks, for any servers, users, nicks and bounds: what a *)
(* server keeps of its own users and of those behind its links, and that   *)
(* the directory converges: once a link is quiet, each end knows exactly   *)
(* the registered users of the other, by the nick they have or their uuid. *)
(***************************************************************************)
EXTENDS NetNicks, FiniteSetTheorems, SequenceTheorems, TLAPS

-----------------------------------------------------------------------------
(* The inductive invariant                                                  *)

Table == [Nick -> User \cup {None}]
Names == [User -> Nick \cup {None}]
Queues == [Server -> [Server -> Seq(Line)]]
Outs   == [Server -> Seq(Line)]

\* What each server knows of its own clients: the index is exact, a client is
\* called by a name it asked for or by its own uuid, and a registered one is
\* called something.
LocalOK ==
    /\ users \in [User -> UserRec]
    /\ nick_index \in [Server -> Table]
    /\ \A s \in Server : Indexes(nick_index[s], LocalNames(s))
    /\ \A u \in User : /\ users[u].nick \in Name \cup {u, None}
                       /\ users[u].phase = "reg" => users[u].nick # None

\* What one server knows of the users behind its links: the index is exact, a
\* copy has a nick exactly when it has a link, and that nick is a name or the
\* user's uuid.
NickOf(copies) == [u \in User |-> copies[u].nick]

SideOK(copies, table) ==
    /\ copies \in [User -> RemoteRec]
    /\ table \in Table
    /\ Indexes(table, NickOf(copies))
    /\ \A u \in User :
          /\ copies[u].nick \in Name \cup {u, None}
          /\ copies[u].via = None <=> copies[u].nick = None

RemoteOK ==
    /\ remote_users \in [Server -> [User -> RemoteRec]]
    /\ remote_nick \in [Server -> Table]
    /\ \A s \in Server : SideOK(remote_users[s], remote_nick[s])

\* No nick is both a local and a remote one.
Disjoint ==
    \A s \in Server, n \in Nick :
        nick_index[s][n] = None \/ remote_nick[s][n] = None

\* No server is linked with itself.
LinkOK == /\ link \in [Server -> [Server -> LinkState]]
          /\ \A s \in Server : link[s][s] = "none"

CountersOK == /\ now \in Time
              /\ asked \in [User -> 0 .. MaxCmds]
              /\ opened \in 0 .. MaxLinks

IInv == /\ LocalOK
        /\ RemoteOK
        /\ Disjoint
        /\ NoRoutingGhost
        /\ LinkOK
        /\ net \in Queues
        /\ CountersOK

-----------------------------------------------------------------------------
(* Nick tables                                                              *)

\* None is neither a nick nor a user.
LEMMA NoneApart == None \notin Nick /\ None \notin User /\ None \notin Server
  BY ConstantsAssumption DEF Nick

\* Moving a user to a nick that nobody else holds keeps the table exact.
LEMMA MoveNickIndexes ==
    ASSUME NEW table \in Table, NEW names \in Names, NEW u \in User,
           NEW new \in Nick, Indexes(table, names), table[new] \in {None, u}
    PROVE  /\ MoveNick(table, names[u], new, u) \in Table
           /\ Indexes(MoveNick(table, names[u], new, u),
                      [names EXCEPT ![u] = new])
  BY NoneApart DEF Table, Names, Indexes, MoveNick

\* Names and table without the users in `gone`.
Forget(names, gone) == [u \in User |-> IF u \in gone THEN None ELSE names[u]]

FreeAll(table, names, gone) ==
    [n \in Nick |-> IF \E u \in gone : names[u] = n THEN None ELSE table[n]]

\* Forgetting users and the nicks they had keeps the table exact.
LEMMA FreeNicksIndexes ==
    ASSUME NEW table \in Table, NEW names \in Names, NEW gone \in SUBSET User,
           Indexes(table, names)
    PROVE  /\ FreeAll(table, names, gone) \in Table
           /\ Indexes(FreeAll(table, names, gone), Forget(names, gone))
  BY NoneApart DEF Table, Names, Indexes, Forget, FreeAll

\* A nick that is free in the table is nobody's.
LEMMA FreeIsUnused ==
    ASSUME NEW table \in Table, NEW names \in Names, Indexes(table, names),
           NEW n \in Nick
    PROVE  table[n] = None <=> \A u \in User : names[u] # n
  BY NoneApart DEF Table, Names, Indexes

-----------------------------------------------------------------------------
(* Lines and queues                                                         *)

\* The lines the handlers build are well formed, whoever they are about.
LEMMA LineTypes ==
    /\ \A u \in User, ts \in Time : \A n \in Name \cup {u} :
          UIDLine(u, n, ts) \in Line /\ NICKLine(u, n, ts) \in Line
    /\ \A u \in User, ts \in Time : SAVELine(u, ts) \in Line
    /\ \A u \in User : QUITLine(u) \in Line
    /\ \A k, u \in User : KILLLine(k, u) \in Line
    /\ SERVERLine \in Line
  BY DEF Line, UIDLine, NICKLine, SAVELine, QUITLine, KILLLine, SERVERLine, Nick

\* What the fields of a received line can be.
LEMMA LineFields ==
    ASSUME NEW m \in Line
    PROVE  /\ m.cmd \in {"UID", "NICK"} =>
                /\ m.u \in User /\ m.ts \in Time
                /\ m.nick \in Name \cup {m.u} /\ m.nick \in Nick
           /\ m.cmd = "SAVE" => m.u \in User /\ m.ts \in Time
           /\ m.cmd = "QUIT" => m.u \in User
           /\ m.cmd = "KILL" => m.u \in User /\ m.src \in User
  BY DEF Line, Nick

\* Fan-out by propagate, link_out or both in turn yields a queue of lines per peer.
LEMMA OutTypes ==
    /\ Nothing \in Outs
    /\ \A o1, o2 \in Outs : Both(o1, o2) \in Outs
    /\ \A v \in Server, q \in Seq(Line) : link_out(v, q) \in Outs
    /\ \A s \in Server, q \in Seq(Line) : \A v :
          propagate(s, v, q) \in Outs
  BY DEF Outs, Nothing, Both, link_out, propagate

\* Writing lines keeps the queues well formed.
LEMMA WrittenType ==
    ASSUME NEW queues \in Queues, NEW s \in Server, NEW out \in Outs
    PROVE  Written(queues, s, out) \in Queues
  BY DEF Written, Queues, Outs

\* Reading a line and answering keeps the queues well formed; the line read is
\* one of the protocol's.
LEMMA ReceiveType ==
    ASSUME net \in Queues, NEW s \in Server, NEW v \in Server, NEW out \in Outs,
           net[v][s] # <<>>, Receive(s, v, out)
    PROVE  net' \in Queues /\ Head(net[v][s]) \in Line
  <1>1. net[v][s] \in Seq(Line) /\ net[v][s] # <<>>
    BY DEF Queues
  <1>2. Tail(net[v][s]) \in Seq(Line) /\ Head(net[v][s]) \in Line
    BY <1>1
  <1>3. [net EXCEPT ![v][s] = Tail(@)] \in Queues
    BY <1>2 DEF Queues
  <1> QED
    BY <1>2, <1>3, WrittenType DEF Receive

\* Sending without reading keeps the queues well formed.
LEMMA SendType ==
    ASSUME net \in Queues, NEW s \in Server, NEW out \in Outs, Send(s, out)
    PROVE  net' \in Queues
  BY WrittenType DEF Send

\* A second now() read in the same handler is still a time.
LEMMA StampType == ASSUME now \in Time PROVE Stamp \subseteq Time
  BY ConstantsAssumption DEF Stamp, Time

-----------------------------------------------------------------------------
(* The local side: set_nick and remove_user                                 *)

\* LocalNames gives every user a nick or none.
LEMMA NamesTypes ==
    LocalOK => \A s \in Server : LocalNames(s) \in Names
  BY DEF LocalOK, LocalNames, Names, UserRec

\* set_nick to a nick that no other local user holds keeps the local side.
LEMMA SetNickLocal ==
    ASSUME LocalOK, now \in Time,
           NEW u \in User, Connected(u), NEW n \in Name \cup {u},
           nick_index[Home[u]][n] \in {None, u},
           users' = Renamed(u, n), nick_index' = Reindexed(u, n)
    PROVE  LocalOK'
  <1> DEFINE h == Home[u]
             moved == MoveNick(nick_index[h], users[u].nick, n, u)
  <1>1. h \in Server /\ n \in Nick /\ u \in Nick
    BY ConstantsAssumption DEF Nick
  <1>2. users' \in [User -> UserRec]
    <2>1. [users[u] EXCEPT !.nick = n] \in UserRec
      BY <1>1 DEF LocalOK, UserRec
    <2>2. [[users[u] EXCEPT !.nick = n] EXCEPT !.nick_ts = now] \in UserRec
      BY <2>1 DEF UserRec
    <2>3. users' = [users EXCEPT ![u] =
                      [[users[u] EXCEPT !.nick = n] EXCEPT !.nick_ts = now]]
      BY DEF LocalOK, Renamed
    <2> QED  BY <2>2, <2>3 DEF LocalOK
  <1>3. /\ LocalNames(h) \in Names
        /\ LocalNames(h)[u] = users[u].nick
    BY <1>1, NamesTypes DEF LocalNames
  <1>4. /\ moved \in Table
        /\ Indexes(moved, [LocalNames(h) EXCEPT ![u] = n])
    BY <1>1, <1>3, MoveNickIndexes DEF LocalOK
  <1>5. nick_index' = [nick_index EXCEPT ![h] = moved]
    BY DEF Reindexed
  <1>6. nick_index' \in [Server -> Table]
    BY <1>1, <1>4, <1>5 DEF LocalOK
  <1>7. \A w \in User : /\ users'[w].phase = users[w].phase
                        /\ users'[w].nick = IF w = u THEN n ELSE users[w].nick
    BY DEF Renamed, LocalOK, UserRec
  <1>8. ASSUME NEW s \in Server
        PROVE  Indexes(nick_index'[s], LocalNames(s)')
    <2>1. CASE s = h
      <3>1. LocalNames(s)' = [LocalNames(h) EXCEPT ![u] = n]
        <4>1. \A w \in User : Connected(w)' <=> Connected(w)
          BY <1>7 DEF Connected
        <4>2. LocalNames(s)' = [w \in User |->
                  IF Home[w] = h /\ Connected(w)
                  THEN IF w = u THEN n ELSE users[w].nick ELSE None]
          BY <1>7, <2>1, <4>1 DEF LocalNames
        <4> HIDE DEF h
        <4> QED  BY <4>2 DEF LocalNames, h
      <3> QED  BY <1>1, <1>4, <1>5, <3>1, <2>1 DEF LocalOK
    <2>2. CASE s # h
      <3>1. LocalNames(s)' = LocalNames(s)
        BY <1>7, <2>2 DEF LocalNames, Connected
      <3> QED  BY <1>5, <3>1, <2>2 DEF LocalOK
    <2> QED  BY <2>1, <2>2
  <1>9. \A w \in User : /\ users'[w].nick \in Name \cup {w, None}
                        /\ users'[w].phase = "reg" => users'[w].nick # None
    BY <1>1, <1>7, NoneApart DEF LocalOK
  <1> QED  BY <1>2, <1>6, <1>8, <1>9 DEF LocalOK

\* remove_user keeps the local side and only frees nicks.
LEMMA RemoveUserLocal ==
    ASSUME LocalOK, NEW u \in User, Connected(u), remove_user(u)
    PROVE  /\ LocalOK'
           /\ \A s \in Server, n \in Nick :
                 nick_index[s][n] = None => nick_index'[s][n] = None
  <1> DEFINE h == Home[u]
             freed == FreeAll(nick_index[h], LocalNames(h), {u})
  <1>1. h \in Server
    BY ConstantsAssumption
  <1>2. users' \in [User -> UserRec]
    BY DEF LocalOK, remove_user, UserRec, Phase
  <1>3. LocalNames(h) \in Names /\ LocalNames(h)[u] = users[u].nick
    BY <1>1, NamesTypes DEF LocalNames
  <1>4. /\ freed \in Table
        /\ Indexes(freed, Forget(LocalNames(h), {u}))
    BY <1>1, <1>3, FreeNicksIndexes DEF LocalOK
  <1>5. FreeNick(nick_index[h], users[u].nick) = freed
    BY <1>3 DEF FreeNick, FreeAll
  <1>6. nick_index' = [nick_index EXCEPT ![h] = freed]
    BY <1>1, <1>5 DEF remove_user, LocalOK
  <1>7. \A w \in User : /\ users'[w].nick = users[w].nick
                        /\ w # u => users'[w].phase = users[w].phase
    BY DEF remove_user, LocalOK, UserRec
  <1>8. users'[u].phase = "gone"
    BY DEF remove_user, LocalOK, UserRec
  <1>9. ASSUME NEW s \in Server
        PROVE  Indexes(nick_index'[s], LocalNames(s)')
    <2>1. CASE s = h
      <3>1. LocalNames(s)' = Forget(LocalNames(h), {u})
        BY <1>7, <1>8, <2>1 DEF LocalNames, Connected, Forget
      <3> QED  BY <1>1, <1>4, <1>6, <3>1, <2>1 DEF LocalOK
    <2>2. CASE s # h
      <3>1. LocalNames(s)' = LocalNames(s)
        BY <1>7, <2>2 DEF LocalNames, Connected
      <3> QED  BY <1>6, <3>1, <2>2 DEF LocalOK
    <2> QED  BY <2>1, <2>2
  <1>10. \A s \in Server, n \in Nick :
            nick_index[s][n] = None => nick_index'[s][n] = None
    BY <1>1, <1>6 DEF LocalOK, FreeAll
  <1> QED  BY <1>1, <1>2, <1>4, <1>6, <1>7, <1>8, <1>9, <1>10 DEF LocalOK

-----------------------------------------------------------------------------
(* The remote side: copies that appear, move and go                         *)

\* A copy that is inserted or renamed, to a nick no other copy holds.
LEMMA SideMove ==
    ASSUME NEW copies, NEW table, SideOK(copies, table),
           NEW u \in User, NEW rec \in RemoteRec, rec.nick \in Name \cup {u},
           rec.via # None, table[rec.nick] \in {None, u}
    PROVE  SideOK([copies EXCEPT ![u] = rec],
                  MoveNick(table, copies[u].nick, rec.nick, u))
  <1> DEFINE names == NickOf(copies)
             new == [copies EXCEPT ![u] = rec]
  <1>1. names \in Names /\ rec.nick \in Nick /\ names[u] = copies[u].nick
    BY DEF SideOK, NickOf, Names, RemoteRec, Nick
  <1>2. NickOf(new) = [names EXCEPT ![u] = rec.nick]
    BY DEF SideOK, NickOf
  <1>3. /\ MoveNick(table, names[u], rec.nick, u) \in Table
        /\ Indexes(MoveNick(table, names[u], rec.nick, u), NickOf(new))
    BY <1>1, <1>2, MoveNickIndexes DEF SideOK
  <1>4. new \in [User -> RemoteRec]
    BY DEF SideOK
  <1>5. ASSUME NEW w \in User
        PROVE  /\ new[w].nick \in Name \cup {w, None}
               /\ new[w].via = None <=> new[w].nick = None
    BY NoneApart DEF SideOK, Nick
  <1> QED  BY <1>1, <1>3, <1>4, <1>5 DEF SideOK

\* Copies that are dropped, with their nicks.
LEMMA SideDrop ==
    ASSUME NEW copies, NEW table, SideOK(copies, table),
           NEW gone \in SUBSET User
    PROVE  SideOK([u \in User |-> IF u \in gone THEN Absent ELSE copies[u]],
                  FreeAll(table, NickOf(copies), gone))
  <1> DEFINE names == NickOf(copies)
             new == [u \in User |-> IF u \in gone THEN Absent ELSE copies[u]]
  <1>1. names \in Names
    BY DEF SideOK, NickOf, Names, RemoteRec
  <1>2. NickOf(new) = Forget(names, gone)
    BY DEF SideOK, NickOf, Forget, Absent
  <1>3. /\ FreeAll(table, names, gone) \in Table
        /\ Indexes(FreeAll(table, names, gone), NickOf(new))
    BY <1>1, <1>2, FreeNicksIndexes DEF SideOK
  <1>4. Absent \in RemoteRec
    BY ConstantsAssumption DEF Absent, RemoteRec, Time
  <1>5. new \in [User -> RemoteRec]
    BY <1>4 DEF SideOK
  <1>6. ASSUME NEW w \in User
        PROVE  /\ new[w].nick \in Name \cup {w, None}
               /\ new[w].via = None <=> new[w].nick = None
    BY DEF SideOK, Absent
  <1> QED  BY <1>3, <1>5, <1>6 DEF SideOK

\* A uuid is the nick of nobody but its owner.
LEMMA UuidsAreOwn ==
    /\ LocalOK => \A s \in Server, u \in User : nick_index[s][u] \in {None, u}
    /\ \A copies, table : SideOK(copies, table) =>
          \A u \in User : table[u] \in {None, u}
  <1>1. ASSUME LocalOK, NEW s \in Server, NEW u \in User
        PROVE  nick_index[s][u] \in {None, u}
    <2>1. u \in Nick /\ nick_index[s][u] \in User \cup {None}
      BY <1>1 DEF LocalOK, Table, Nick
    <2>2. CASE nick_index[s][u] # None
      <3> DEFINE w == nick_index[s][u]
      <3>1. LocalNames(s)[w] = u /\ w \in User
        BY <1>1, <2>1, <2>2 DEF LocalOK, Indexes
      <3>2. users[w].nick = u
        BY <3>1, NoneApart DEF LocalNames
      <3>3. u \in Name \cup {w, None}
        BY <1>1, <3>1, <3>2 DEF LocalOK
      <3> QED  BY <3>3, ConstantsAssumption
    <2> QED  BY <2>2
  <1>2. ASSUME NEW copies, NEW table, SideOK(copies, table), NEW u \in User
        PROVE  table[u] \in {None, u}
    <2>1. u \in Nick /\ table[u] \in User \cup {None}
      BY <1>2 DEF SideOK, Table, Nick
    <2>2. CASE table[u] # None
      <3>1. NickOf(copies)[table[u]] = u /\ table[u] \in User
        BY <1>2, <2>1, <2>2 DEF SideOK, Indexes
      <3>2. u \in Name \cup {table[u], None}
        BY <1>2, <3>1 DEF SideOK, NickOf
      <3> QED  BY <3>2, ConstantsAssumption
    <2> QED  BY <2>2
  <1> QED  BY <1>1, <1>2

\* A user a server has no copy of holds no nick in its table of copies.
LEMMA OwnUsersHoldNoRemoteNick ==
    ASSUME NEW copies, NEW table, SideOK(copies, table),
           NEW u \in User, copies[u].via = None
    PROVE  \A n \in Nick : table[n] # u
  BY NoneApart DEF SideOK, Indexes, NickOf

-----------------------------------------------------------------------------
(* Collisions                                                               *)

\* Somebody always yields.
LEMMA SomebodyYields ==
    \A t1, t2, same : LET d == collision_decision(t1, t2, same)
                      IN  d[1] \in BOOLEAN /\ d[2] \in BOOLEAN /\ (d[1] \/ d[2])
  BY DEF collision_decision

\* The local user called n on s.
LEMMA Holder ==
    ASSUME LocalOK, NEW s \in Server, NEW n \in Nick, find_nick(s, n) # None
    PROVE  LET l == find_nick(s, n)
           IN  l \in User /\ Home[l] = s /\ Connected(l) /\ users[l].nick = n
  <1> DEFINE l == find_nick(s, n)
  <1>1. l \in User
    BY DEF find_nick, LocalOK, Table
  <1>2. LocalNames(s)[l] = n
    BY <1>1 DEF find_nick, LocalOK, Indexes
  <1> QED  BY <1>1, <1>2, NoneApart DEF LocalNames

\* The uuid of a user of another server is free as a local nick, before and
\* after any step that keeps the local side.
LEMMA LocalHolderIsHome ==
    ASSUME NEW u \in User, NEW s \in Server, Home[u] # s
    PROVE  /\ LocalOK => nick_index[s][u] = None
           /\ LocalOK' => nick_index'[s][u] = None
  <1>1. LocalOK => nick_index[s][u] = None
    BY Holder, UuidsAreOwn DEF find_nick, Nick
  <1>2. ASSUME LocalOK', nick_index'[s][u] # None PROVE FALSE
    <2> DEFINE w == nick_index'[s][u]
    <2>1. u \in Nick /\ w \in User
      BY <1>2 DEF LocalOK, Table, Nick
    <2>2. LocalNames(s)'[w] = u
      BY <1>2, <2>1 DEF LocalOK, Indexes
    <2>3. Home[w] = s /\ users'[w].nick = u
      BY <2>1, <2>2, NoneApart DEF LocalNames
    <2>4. u \in Name \cup {w, None}
      BY <1>2, <2>1, <2>3 DEF LocalOK
    <2> QED  BY <2>3, <2>4, ConstantsAssumption
  <1> QED  BY <1>1, <1>2

\* resolve_collision, local side: it stays exact, no local nick clashes with a
\* copy, and the nick is free unless the incoming user lost.
LEMMA YieldLocal ==
    ASSUME LocalOK, RemoteOK, Disjoint, NoRoutingGhost, now \in Time,
           NEW s \in Server, NEW u \in User, Home[u] # s,
           NEW n \in Name \cup {u}, NEW ts \in Time, NEW stamp \in Stamp,
           yield_local(find_nick(s, n), LocalVerdict(find_nick(s, n), u, ts),
                       stamp)
    PROVE  /\ LocalOK' /\ now' \in Time
           /\ \A t \in Server, k \in Nick :
                 nick_index'[t][k] = None \/ remote_nick[t][k] = None
           /\ ~LocalVerdict(find_nick(s, n), u, ts)[2] =>
                 nick_index'[s][n] = None
  <1> DEFINE l == find_nick(s, n)
             lv == LocalVerdict(l, u, ts)
  <1>0. n \in Nick /\ s \in Server /\ stamp \in Time
    BY StampType DEF Nick
  <1>1. CASE l = None
    <2>1. lv = <<FALSE, FALSE>>
      BY <1>1 DEF LocalVerdict
    <2>2. UNCHANGED <<users, nick_index, now>>
      BY <2>1 DEF yield_local
    <2>3. LocalOK'
      BY <2>2 DEF LocalOK, LocalNames, Connected
    <2> QED  BY <1>1, <2>2, <2>3 DEF Disjoint, find_nick
  <1>2. CASE l # None /\ ~lv[1]
    <2>1. lv[2]
      BY <1>2, SomebodyYields DEF LocalVerdict
    <2>2. UNCHANGED <<users, nick_index, now>>
      BY <1>2 DEF yield_local
    <2>3. LocalOK'
      BY <2>2 DEF LocalOK, LocalNames, Connected
    <2> QED  BY <2>1, <2>2, <2>3 DEF Disjoint
  <1>3. CASE l # None /\ lv[1]
    <2>1. l \in User /\ Home[l] = s /\ Connected(l) /\ users[l].nick = n
      BY <1>0, <1>3, Holder
    <2>2. set_nick(l, l, stamp)
      BY <1>3 DEF yield_local
    <2>3. LocalOK'
      BY <2>1, <2>2, SetNickLocal, UuidsAreOwn DEF set_nick
    <2>4. nick_index' =
             [nick_index EXCEPT ![s] = MoveNick(nick_index[s], n, l, l)]
      BY <2>1, <2>2 DEF set_nick, Reindexed
    <2>5. n # l
      BY <2>1, ConstantsAssumption
    <2>6. nick_index'[s][n] = None
      BY <1>0, <2>4, <2>5 DEF LocalOK, MoveNick
    <2>7. remote_nick[s][l] = None
      <3>1. remote_users[s][l].via = None
        BY <2>1, ConstantsAssumption DEF NoRoutingGhost
      <3>2. SideOK(remote_users[s], remote_nick[s])
        BY DEF RemoteOK
      <3>3. l \in Nick
        BY <2>1 DEF Nick
      <3> QED  BY <2>1, <3>1, <3>2, <3>3, UuidsAreOwn, OwnUsersHoldNoRemoteNick
    <2>8. ASSUME NEW t \in Server, NEW k \in Nick
          PROVE  nick_index'[t][k] = None \/ remote_nick[t][k] = None
      BY <2>4, <2>7 DEF Disjoint, LocalOK, MoveNick
    <2> QED  BY <1>0, <2>2, <2>3, <2>6, <2>8 DEF set_nick
  <1> QED  BY <1>1, <1>2, <1>3

\* save_remote_user on a copy e that holds n: the remote side stays exact, every
\* copy keeps its link, n is free unless the incoming user lost, and no nick is
\* taken but the uuid of a user that has a copy.
LEMMA SaveRemote ==
    ASSUME RemoteOK, NEW s \in Server, NEW u \in User, NEW n \in Nick,
           n \in Name \cup {u}, NEW ts \in Time,
           NEW e, e = None \/ e = remote_nick[s][n]
    PROVE  LET rv == RemoteVerdict(s, e, u, ts)
               copies == Saved(s, e, rv)
               table == SavedIndex(s, e, rv)
           IN  /\ SideOK(copies, table)
               /\ \A w \in User :
                     /\ copies[w].via = remote_users[s][w].via
                     /\ w = u => copies[w] = remote_users[s][w]
               /\ ~rv[2] /\ e = remote_nick[s][n] => table[n] \in {None, u}
               /\ \A k \in Nick : table[k] # None =>
                     \/ remote_nick[s][k] # None
                     \/ k \in User /\ remote_users[s][k].via # None
  <1> DEFINE rv == RemoteVerdict(s, e, u, ts)
             copies == Saved(s, e, rv)
             table == SavedIndex(s, e, rv)
  <1>0. SideOK(remote_users[s], remote_nick[s])
    BY DEF RemoteOK
  <1>1. CASE e \in {None, u}
    <2>1. rv = <<FALSE, FALSE>>
      BY <1>1 DEF RemoteVerdict
    <2>2. copies = remote_users[s] /\ table = remote_nick[s]
      BY <2>1 DEF Saved, SavedIndex
    <2> QED  BY <1>0, <1>1, <2>1, <2>2
  <1>2. CASE e \notin {None, u} /\ ~rv[1]
    <2>1. rv[2]
      BY <1>2, SomebodyYields DEF RemoteVerdict
    <2>2. copies = remote_users[s] /\ table = remote_nick[s]
      BY <1>2 DEF Saved, SavedIndex
    <2> QED  BY <1>0, <2>1, <2>2
  <1>3. CASE e \notin {None, u} /\ rv[1]
    <2> DEFINE rec == [remote_users[s][e] EXCEPT !.nick = e]
    <2>1. e \in User /\ remote_users[s][e].nick = n
      BY <1>0, <1>3 DEF SideOK, Table, Indexes, NickOf
    <2>2. remote_users[s][e] \in RemoteRec /\ remote_users[s][e].via # None
      BY <1>0, <2>1, NoneApart DEF SideOK
    <2>3. /\ rec \in RemoteRec /\ rec.nick = e
          /\ rec.via = remote_users[s][e].via
      BY <2>1, <2>2 DEF RemoteRec, Nick
    <2>4. copies = [remote_users[s] EXCEPT ![e] = rec]
      BY <1>3 DEF Saved
    <2>5. table = MoveNick(remote_nick[s], remote_users[s][e].nick, rec.nick, e)
      BY <1>3, <2>3 DEF SavedIndex
    <2>6. remote_nick[s][e] \in {None, e}
      BY <1>0, <2>1, UuidsAreOwn
    <2>7. SideOK(copies, table)
      <3> HIDE DEF rec, copies, table
      <3>1. /\ rec.nick \in Name \cup {e} /\ rec.via # None
            /\ remote_nick[s][rec.nick] \in {None, e}
        BY <2>2, <2>3, <2>6
      <3>2. SideOK([remote_users[s] EXCEPT ![e] = rec],
                   MoveNick(remote_nick[s], remote_users[s][e].nick, rec.nick, e))
        BY <1>0, <2>1, <2>3, <3>1, SideMove
      <3> QED  BY <2>4, <2>5, <3>2
    <2>8. ASSUME NEW w \in User
          PROVE  /\ copies[w].via = remote_users[s][w].via
                 /\ w = u => copies[w] = remote_users[s][w]
      BY <1>0, <1>3, <2>3, <2>4 DEF SideOK
    <2>9. n # e
      BY <1>3, <2>1, ConstantsAssumption
    <2>10. table[n] = None
      BY <2>1, <2>3, <2>5, <2>9 DEF MoveNick
    <2>11. ASSUME NEW k \in Nick, table[k] # None
           PROVE  \/ remote_nick[s][k] # None
                  \/ k \in User /\ remote_users[s][k].via # None
      BY <2>1, <2>2, <2>3, <2>5, <2>11 DEF MoveNick
    <2> QED  BY <2>7, <2>8, <2>10, <2>11
  <1> QED  BY <1>1, <1>2, <1>3

-----------------------------------------------------------------------------
(* The lines a step writes                                                  *)

\* What propagate_nick, remove_user and the two collision resolvers send is well
\* formed.
LEMMA NewsTypes ==
    /\ \A u \in User, ts \in Time : \A n \in Name \cup {u} :
          NickNews(u, n, ts) \in Outs
    /\ \A u \in User : QuitNews(u) \in Outs
    /\ \A v \in Server, u \in User, ts, stamp \in Time, b1, b2 \in BOOLEAN :
          \A l : (b1 => l \in User) =>
              CollisionNews(v, l, <<b1, b2>>, u, ts, stamp) \in Outs
    /\ \A s, v \in Server, u \in User, ts \in Time, b1, b2 \in BOOLEAN :
          \A e : (b1 => e \in User /\ remote_users[s][e].nick_ts \in Time) =>
              RemoteCollisionNews(s, v, e, <<b1, b2>>, u, ts) \in Outs
  <1>1. \A u \in User, ts \in Time : \A n \in Name \cup {u} :
           NickNews(u, n, ts) \in Outs
    <2> SUFFICES ASSUME NEW u \in User, NEW ts \in Time, NEW n \in Name \cup {u}
                 PROVE  NickNews(u, n, ts) \in Outs
      OBVIOUS
    <2>1. NICKLine(u, n, ts) \in Line
      BY LineTypes
    <2>2. <<NICKLine(u, n, ts)>> \in Seq(Line) /\ Home[u] \in Server
      BY <2>1, ConstantsAssumption
    <2> QED  BY <2>2, OutTypes DEF NickNews
  <1>2. \A u \in User : QuitNews(u) \in Outs
    <2> SUFFICES ASSUME NEW u \in User PROVE QuitNews(u) \in Outs
      OBVIOUS
    <2>1. <<QUITLine(u)>> \in Seq(Line) /\ Home[u] \in Server
      BY LineTypes, ConstantsAssumption
    <2> QED  BY <2>1, OutTypes DEF QuitNews
  <1>3. ASSUME NEW v \in Server, NEW u \in User, NEW ts \in Time,
               NEW stamp \in Time, NEW b1 \in BOOLEAN, NEW b2 \in BOOLEAN,
               NEW l, b1 => l \in User
        PROVE  CollisionNews(v, l, <<b1, b2>>, u, ts, stamp) \in Outs
    <2>1. (IF b1 THEN NickNews(l, l, stamp) ELSE Nothing) \in Outs
      BY <1>1, <1>3, OutTypes
    <2>2. <<SAVELine(u, ts)>> \in Seq(Line)
      BY LineTypes
    <2>3. (IF b2 THEN link_out(v, <<SAVELine(u, ts)>>) ELSE Nothing) \in Outs
      BY <2>2, OutTypes
    <2> QED  BY <2>1, <2>3, OutTypes DEF CollisionNews
  <1>4. ASSUME NEW s \in Server, NEW v \in Server, NEW u \in User,
               NEW ts \in Time, NEW b1 \in BOOLEAN, NEW b2 \in BOOLEAN,
               NEW e, b1 => e \in User /\ remote_users[s][e].nick_ts \in Time
        PROVE  RemoteCollisionNews(s, v, e, <<b1, b2>>, u, ts) \in Outs
    <2>1. (IF b1 THEN propagate(s, None,
                         <<SAVELine(e, remote_users[s][e].nick_ts)>>)
           ELSE Nothing) \in Outs
      <3>1. b1 => <<SAVELine(e, remote_users[s][e].nick_ts)>> \in Seq(Line)
        BY <1>4, LineTypes
      <3> QED  BY <3>1, OutTypes
    <2>2. <<SAVELine(u, ts)>> \in Seq(Line)
      BY LineTypes
    <2>3. (IF b2 THEN link_out(v, <<SAVELine(u, ts)>>) ELSE Nothing) \in Outs
      BY <2>2, OutTypes
    <2> QED  BY <2>1, <2>3, OutTypes DEF RemoteCollisionNews
  <1> QED  BY <1>1, <1>2, <1>3, <1>4

\* Verdicts are pairs of truth values.
LEMMA VerdictTypes ==
    /\ \A l, u, ts : LocalVerdict(l, u, ts) \in BOOLEAN \X BOOLEAN
    /\ \A s, e, u, ts : RemoteVerdict(s, e, u, ts) \in BOOLEAN \X BOOLEAN
  BY DEF LocalVerdict, RemoteVerdict, collision_decision

\* The lines written for a nick n that u brings to s are lines.
LEMMA ArbitrationNews ==
    ASSUME LocalOK, RemoteOK, now \in Time,
           NEW s \in Server, NEW v \in Server, NEW u \in User, NEW n \in Nick,
           NEW k \in Nick, NEW ts \in Time, NEW stamp \in Stamp,
           NEW e, e = None \/ e = remote_nick[s][k]
    PROVE  LET l  == find_nick(s, n)
               lv == LocalVerdict(l, u, ts)
               rv == RemoteVerdict(s, e, u, ts)
           IN  /\ CollisionNews(v, l, lv, u, ts, stamp) \in Outs
               /\ RemoteCollisionNews(s, v, e, rv, u, ts) \in Outs
  <1> DEFINE l  == find_nick(s, n)
             lv == LocalVerdict(l, u, ts)
             rv == RemoteVerdict(s, e, u, ts)
  <1>1. PICK b1 \in BOOLEAN, b2 \in BOOLEAN : lv = <<b1, b2>>
    BY VerdictTypes
  <1>2. PICK c1 \in BOOLEAN, c2 \in BOOLEAN : rv = <<c1, c2>>
    BY VerdictTypes
  <1>3. b1 => l \in User
    <2>1. l = None => lv = <<FALSE, FALSE>>
      BY DEF LocalVerdict
    <2>2. l \in User \cup {None}
      BY DEF find_nick, LocalOK, Table
    <2> QED  BY <1>1, <2>1, <2>2
  <1>4. c1 => e \in User /\ remote_users[s][e].nick_ts \in Time
    <2>1. e = None => rv = <<FALSE, FALSE>>
      BY DEF RemoteVerdict
    <2>2. e \in User \cup {None}
      BY DEF RemoteOK, Table
    <2>3. e \in User => remote_users[s][e].nick_ts \in Time
      BY DEF RemoteOK, RemoteRec
    <2> QED  BY <1>2, <2>1, <2>2, <2>3
  <1>5. stamp \in Time
    BY StampType
  <1>6. CollisionNews(v, l, lv, u, ts, stamp) \in Outs
    BY <1>1, <1>3, <1>5, NewsTypes
  <1>7. RemoteCollisionNews(s, v, e, rv, u, ts) \in Outs
    BY <1>2, <1>4, NewsTypes
  <1> QED  BY <1>6, <1>7

-----------------------------------------------------------------------------
(* Every step keeps the inductive invariant                                 *)

\* Servers start with no users and no links: the inductive invariant holds.
LEMMA InitInv == Init => IInv
  <1> SUFFICES ASSUME Init PROVE IInv
    OBVIOUS
  <1>1. LocalOK
    BY ConstantsAssumption, NoneApart
    DEF Init, LocalOK, UserRec, Phase, Table, Indexes, LocalNames, Connected, Time
  <1>2. RemoteOK
    <2>1. Absent \in RemoteRec
      BY ConstantsAssumption DEF Absent, RemoteRec, Time
    <2>2. ASSUME NEW s \in Server
          PROVE  SideOK(remote_users[s], remote_nick[s])
      <3>1. remote_users[s] = [u \in User |-> Absent]
            /\ remote_nick[s] = [n \in Nick |-> None]
        BY DEF Init
      <3> QED
        BY <2>1, <3>1, NoneApart DEF SideOK, Table, Indexes, NickOf, Absent
    <2>3. /\ remote_users \in [Server -> [User -> RemoteRec]]
          /\ remote_nick \in [Server -> Table]
      BY <2>1 DEF Init, Table
    <2> QED  BY <2>2, <2>3 DEF RemoteOK
  <1>3. Disjoint
    BY DEF Init, Disjoint
  <1>4. NoRoutingGhost
    BY DEF Init, NoRoutingGhost, Absent
  <1>5. LinkOK
    BY DEF Init, LinkOK, LinkState
  <1>6. net \in Queues
    BY DEF Init, Queues
  <1>7. CountersOK
    BY ConstantsAssumption DEF Init, CountersOK, Time
  <1> QED  BY <1>1, <1>2, <1>3, <1>4, <1>5, <1>6, <1>7 DEF IInv

\* A step that leaves both sides' tables alone, and no link that copies use.
LEMMA TablesUntouched ==
    ASSUME IInv, UNCHANGED <<users, nick_index, remote_users, remote_nick>>
    PROVE  LocalOK' /\ RemoteOK' /\ Disjoint'
  BY DEF IInv, LocalOK, RemoteOK, Disjoint, LocalNames, Connected

\* Copies untouched.
LEMMA CopiesUntouched ==
    ASSUME IInv, UNCHANGED <<remote_users, remote_nick>>
    PROVE  RemoteOK'
  BY DEF IInv, RemoteOK

\* A command of a client (connect, USER, NICK, registration, QUIT, KILL) keeps
\* the inductive invariant.
LEMMA ClientKeeps ==
    ASSUME IInv, NEW u \in User, Client(u)
    PROVE  IInv'
  <1> USE DEF IInv
  <1>0. Home[u] \in Server
    BY ConstantsAssumption
  <1>1. CASE Connect(u)
    <2>1. /\ users' \in [User -> UserRec]
          /\ \A w \in User : /\ w # u => users'[w] = users[w]
                             /\ users'[u].nick = None
      BY <1>1 DEF Connect, LocalOK, UserRec, Phase, CountersOK
    <2>2. \A s \in Server : LocalNames(s)' = LocalNames(s)
      BY <1>1, <2>1 DEF Connect, LocalNames, Connected
    <2>3. LocalOK'
      BY <1>1, <2>1, <2>2 DEF LocalOK, Connect
    <2> QED  BY <1>1, <2>3, CopiesUntouched
             DEF Connect, Disjoint, NoRoutingGhost, LinkOK, CountersOK
  <1>2. CASE UserCmd(u)
    <2>1. /\ users' \in [User -> UserRec]
          /\ \A w \in User : /\ users'[w].nick = users[w].nick
                             /\ w # u => users'[w] = users[w]
          /\ users[u].phase = "conn" /\ users'[u].phase = "named"
      BY <1>2 DEF UserCmd, LocalOK, UserRec, Phase
    <2>2. \A s \in Server : LocalNames(s)' = LocalNames(s)
      BY <1>2, <2>1 DEF LocalNames, Connected
    <2>3. LocalOK'
      BY <1>2, <2>1, <2>2 DEF LocalOK, UserCmd
    <2> QED  BY <1>2, <2>3, CopiesUntouched
             DEF UserCmd, Disjoint, NoRoutingGhost, LinkOK, CountersOK
  <1>3. ASSUME NEW n \in Name, NickCmd(u, n) PROVE IInv'
    <2>1. PICK ts \in Stamp : /\ set_nick(u, n, ts)
                              /\ Send(Home[u], NickNews(u, n, ts))
      BY <1>3 DEF NickCmd
    <2>2. ts \in Time /\ n \in Nick /\ now \in Time
      BY StampType DEF CountersOK, Nick
    <2>3. LocalOK'
      BY <1>3, <2>1, <2>2, SetNickLocal DEF NickCmd, set_nick, find_nick
    <2>4. RemoteOK'
      BY <1>3, CopiesUntouched DEF NickCmd
    <2>5. Disjoint'
      <3>1. nick_index' = [nick_index EXCEPT ![Home[u]] =
                              MoveNick(@, users[u].nick, n, u)]
        BY <2>1 DEF set_nick, Reindexed
      <3>2. remote_nick' = remote_nick /\ remote_nick[Home[u]][n] = None
        BY <1>3 DEF NickCmd
      <3> QED  BY <3>1, <3>2 DEF Disjoint, LocalOK, MoveNick
    <2>6. net' \in Queues
      BY <1>0, <2>1, <2>2, NewsTypes, SendType
    <2>7. CountersOK'
      BY <1>3, <2>1, <2>2, ConstantsAssumption DEF NickCmd, set_nick, CountersOK
    <2> QED  BY <1>3, <2>3, <2>4, <2>5, <2>6, <2>7
             DEF NickCmd, NoRoutingGhost, LinkOK
  <1>4. CASE Register(u)
    <2>1. /\ users' \in [User -> UserRec]
          /\ \A w \in User : /\ users'[w].nick = users[w].nick
                             /\ w # u => users'[w] = users[w]
          /\ users[u].phase = "named" /\ users'[u].phase = "reg"
      BY <1>4 DEF Register, LocalOK, UserRec, Phase
    <2>2. \A s \in Server : LocalNames(s)' = LocalNames(s)
      BY <2>1 DEF LocalNames, Connected
    <2>3. LocalOK'
      BY <1>4, <2>1, <2>2 DEF LocalOK, Register
    <2>4. users[u].nick \in Name \cup {u} /\ users[u].signon \in Time
      BY <1>4 DEF Register, LocalOK, UserRec
    <2>5. <<uid_line(u)>> \in Seq(Line)
      BY <2>4, LineTypes DEF uid_line
    <2>6. net' \in Queues
      BY <1>0, <1>4, <2>5, OutTypes, SendType DEF Register
    <2> QED  BY <1>4, <2>3, <2>6, CopiesUntouched
             DEF Register, Disjoint, NoRoutingGhost, LinkOK, CountersOK
  <1>5. CASE Quit(u)
    <2>1. /\ LocalOK'
          /\ \A s \in Server, n \in Nick :
                nick_index[s][n] = None => nick_index'[s][n] = None
      BY <1>5, RemoveUserLocal DEF Quit
    <2>2. net' \in Queues
      BY <1>0, <1>5, NewsTypes, SendType DEF Quit
    <2> QED  BY <1>5, <2>1, <2>2, CopiesUntouched
             DEF Quit, Disjoint, NoRoutingGhost, LinkOK, CountersOK
  <1>6. ASSUME NEW w \in User, route_kill(u, w) PROVE IInv'
    <2>1. link_toward(Home[u], w) \in Server
      BY <1>0, <1>6 DEF route_kill, link_toward, RemoteOK, RemoteRec
    <2>2. <<KILLLine(u, w)>> \in Seq(Line)
      BY LineTypes
    <2>3. link_out(link_toward(Home[u], w), <<KILLLine(u, w)>>) \in Outs
      BY <2>1, <2>2, OutTypes
    <2>4. net' \in Queues
      BY <1>0, <1>6, <2>3, SendType DEF route_kill
    <2>5. CountersOK'
      BY <1>6, ConstantsAssumption DEF route_kill, CountersOK
    <2> QED  BY <1>6, <2>4, <2>5, TablesUntouched
             DEF route_kill, NoRoutingGhost, LinkOK
  <1> QED  BY <1>1, <1>2, <1>3, <1>4, <1>5, <1>6 DEF Client

\* Opening a connection (add_link) keeps the inductive invariant.
LEMMA AddLinkKeeps ==
    ASSUME IInv, NEW s \in Server, NEW t \in Server, add_link(s, t)
    PROVE  IInv'
  <1> USE DEF IInv
  <1>1. LinkOK'
    BY DEF add_link, LinkOK, LinkState
  <1>2. NoRoutingGhost'
    <2> SUFFICES ASSUME NEW x \in Server, NEW u \in User,
                        remote_users'[x][u].via # None
                 PROVE  LET w == remote_users'[x][u].via IN
                        link'[x][w] = "up" /\ Home[u] = w /\ w # x
      BY DEF NoRoutingGhost
    <2> DEFINE w == remote_users[x][u].via
    <2>1. remote_users' = remote_users
      BY DEF add_link
    <2>2. link[x][w] = "up" /\ w \in Server /\ Home[u] = w /\ w # x
      BY <2>1 DEF NoRoutingGhost, RemoteOK, RemoteRec
    <2>3. link'[x][w] = "up"
      BY <2>2 DEF add_link, LinkOK
    <2> QED  BY <2>1, <2>2, <2>3
  <1>3. net' \in Queues
    <2>1. <<SERVERLine>> \in Seq(Line) /\ <<>> \in Seq(Line)
      BY LineTypes
    <2> DEFINE one == [net EXCEPT ![s][t] = <<SERVERLine>>]
    <2>2. one \in Queues
      BY <2>1 DEF Queues
    <2>3. [one EXCEPT ![t][s] = <<>>] \in Queues
      BY <2>1, <2>2 DEF Queues
    <2> QED  BY <2>3 DEF add_link
  <1>4. CountersOK'
    BY ConstantsAssumption DEF add_link, CountersOK
  <1> QED  BY <1>1, <1>2, <1>3, <1>4, TablesUntouched DEF add_link

\* close_link keeps the inductive invariant: the copies behind the link go with it.
LEMMA CloseLinkKeeps ==
    ASSUME IInv, NEW s \in Server, NEW v \in Server, close_link(s, v)
    PROVE  IInv'
  <1> USE DEF IInv
  <1> DEFINE gone == Behind(s, v)
             copies == [u \in User |-> IF u \in gone THEN Absent
                                       ELSE remote_users[s][u]]
             table == FreeAll(remote_nick[s], NickOf(remote_users[s]), gone)
  <1>1. gone \in SUBSET User /\ SideOK(remote_users[s], remote_nick[s])
    BY DEF Behind, RemoteOK
  <1>2. remote_users' = [remote_users EXCEPT ![s] = copies]
    BY DEF close_link, drop_remote_users, RemoteOK
  <1>3. remote_nick' = [remote_nick EXCEPT ![s] = table]
    <2>1. table = [n \in Nick |-> IF \E u \in gone : remote_users[s][u].nick = n
                                  THEN None ELSE remote_nick[s][n]]
      BY <1>1 DEF FreeAll, NickOf
    <2> QED  BY <2>1 DEF close_link, drop_remote_users, RemoteOK
  <1>4. SideOK(copies, table)
    BY <1>1, SideDrop
  <1>5. RemoteOK'
    <2>1. copies \in [User -> RemoteRec] /\ table \in Table
      BY <1>4 DEF SideOK
    <2> HIDE DEF copies, table
    <2> QED  BY <1>2, <1>3, <1>4, <2>1 DEF RemoteOK
  <1>6. LocalOK'
    BY DEF close_link, LocalOK, LocalNames, Connected
  <1>7. Disjoint'
    BY <1>3 DEF close_link, Disjoint, FreeAll, RemoteOK
  <1>8. LinkOK'
    BY DEF close_link, LinkOK, LinkState
  <1>9. NoRoutingGhost'
    <2> SUFFICES ASSUME NEW x \in Server, NEW u \in User,
                        remote_users'[x][u].via # None
                 PROVE  LET w == remote_users'[x][u].via IN
                        link'[x][w] = "up" /\ Home[u] = w /\ w # x
      BY DEF NoRoutingGhost
    <2>1. remote_users'[x][u] = remote_users[x][u]
      BY <1>2 DEF Absent, RemoteOK
    <2>2. x = s => remote_users[x][u].via # v
      BY <1>2, <2>1 DEF Absent, RemoteOK, Behind
    <2>3. remote_users[x][u].via \in Server
      BY <2>1 DEF RemoteOK, RemoteRec
    <2> QED  BY <2>1, <2>2, <2>3 DEF NoRoutingGhost, close_link, LinkOK
  <1>10. net' \in Queues
    BY DEF close_link, Queues
  <1> QED  BY <1>5, <1>6, <1>7, <1>8, <1>9, <1>10 DEF close_link, CountersOK

\* SERVER and the burst it triggers (link_server) keep the inductive invariant.
LEMMA ServerKeeps ==
    ASSUME IInv, NEW s \in Server, NEW v \in Server, link_server(s, v)
    PROVE  IInv'
  <1> USE DEF IInv
  <1>1. PICK q \in BurstOrders(s) :
           Receive(s, v, link_out(v,
              (IF link[s][v] = "in" THEN <<SERVERLine>> ELSE <<>>)
              \o [i \in DOMAIN q |-> uid_line(q[i])]))
    BY DEF link_server
  <1> DEFINE k == Cardinality(Registered(s))
             intro == [i \in DOMAIN q |-> uid_line(q[i])]
             greet == IF link[s][v] = "in" THEN <<SERVERLine>> ELSE <<>>
  <1>2. k \in Nat
    <2>1. IsFiniteSet(Registered(s))
      BY FS_Subset, ConstantsAssumption DEF Registered
    <2> QED  BY <2>1, FS_CardinalityType
  <1>3. q \in [1 .. k -> Registered(s)]
    BY DEF BurstOrders
  <1>4. \A i \in 1 .. k : uid_line(q[i]) \in Line
    <2> SUFFICES ASSUME NEW i \in 1 .. k PROVE uid_line(q[i]) \in Line
      OBVIOUS
    <2>1. q[i] \in User /\ users[q[i]].phase = "reg" /\ Home[q[i]] = s
      BY <1>3 DEF Registered
    <2>2. users[q[i]].nick \in Name \cup {q[i]} /\ users[q[i]].signon \in Time
      BY <2>1 DEF LocalOK, UserRec
    <2> QED  BY <2>1, <2>2, LineTypes DEF uid_line
  <1>5. intro \in Seq(Line)
    <2>1. intro \in [1 .. k -> Line]
      BY <1>3, <1>4
    <2> QED  BY <1>2, <2>1
  <1>6. greet \in Seq(Line)
    BY LineTypes
  <1>7. link_out(v, greet \o intro) \in Outs
    <2>1. greet \o intro \in Seq(Line)
      BY <1>5, <1>6
    <2> QED  BY <2>1, OutTypes
  <1>8. net' \in Queues
    BY <1>1, <1>7, ReceiveType DEF link_server
  <1>9. LinkOK'
    BY DEF link_server, LinkOK, LinkState
  <1>10. NoRoutingGhost'
    BY DEF link_server, NoRoutingGhost, LinkOK, RemoteOK, RemoteRec
  <1> QED  BY <1>8, <1>9, <1>10, TablesUntouched DEF link_server, CountersOK

\* A line that is read and ignored.
LEMMA DiscardKeeps ==
    ASSUME IInv, NEW s \in Server, NEW v \in Server, net[v][s] # <<>>,
           Discard(s, v), UNCHANGED <<link, asked, opened>>
    PROVE  IInv'
  <1> USE DEF IInv
  <1>1. net' \in Queues
    BY ReceiveType, OutTypes DEF Discard
  <1> QED  BY <1>1, TablesUntouched
           DEF Discard, NoRoutingGhost, LinkOK, CountersOK

\* The line that is first in a queue, and its link.
LEMMA FirstLine ==
    ASSUME IInv, NEW s \in Server, NEW v \in Server, NEW cmd, First(s, v, cmd)
    PROVE  LET m == Head(net[v][s])
           IN  m \in Line /\ m.cmd = cmd /\ net[v][s] # <<>> /\ v # s
  <1>1. net[v][s] \in Seq(Line)
    BY DEF IInv, Queues
  <1> QED  BY <1>1 DEF First, IInv, LinkOK

\* After the local side of a step no local nick is one of the copies' nicks.
LocalApart ==
    \A t \in Server, k \in Nick :
        nick_index'[t][k] = None \/ remote_nick[t][k] = None

\* Each nick in a new table of copies was there before, or is the uuid of a user
\* with a copy, or is free locally.
Accounted(s, table) ==
    \A k \in Nick : table[k] # None =>
        \/ remote_nick[s][k] # None
        \/ k \in User /\ remote_users[s][k].via # None
        \/ nick_index'[s][k] = None

\* The two tables of s stay apart when every local nick that is new, and every
\* entry of the new remote table, is accounted for.
LEMMA StillDisjoint ==
    ASSUME LocalOK', NoRoutingGhost, remote_nick \in [Server -> Table],
           LocalApart, NEW s \in Server, NEW table, Accounted(s, table),
           remote_nick' = [remote_nick EXCEPT ![s] = table]
    PROVE  Disjoint'
  <1> SUFFICES ASSUME NEW t \in Server, NEW k \in Nick
               PROVE  nick_index'[t][k] = None \/ remote_nick'[t][k] = None
    BY DEF Disjoint
  <1> USE DEF LocalApart, Accounted
  <1>1. CASE t # s
    BY <1>1
  <1>2. CASE t = s /\ k \in User /\ remote_users[s][k].via # None
    <2>1. Home[k] # s
      BY <1>2 DEF NoRoutingGhost
    <2> QED  BY <1>2, <2>1, LocalHolderIsHome
  <1>3. CASE t = s /\ ~(k \in User /\ remote_users[s][k].via # None)
    BY <1>3
  <1> QED  BY <1>1, <1>2, <1>3

\* Renaming a copy keeps its link.
LEMMA RenamedCopy ==
    ASSUME NEW rec \in RemoteRec, NEW n \in Nick, NEW ts \in Time
    PROVE  [rec EXCEPT !.nick = n, !.nick_ts = ts]
              = [nick |-> n, nick_ts |-> ts, via |-> rec.via]
  <1> DEFINE one == [rec EXCEPT !.nick = n]
             two == [one EXCEPT !.nick_ts = ts]
  <1>1. one = [nick |-> n, nick_ts |-> rec.nick_ts, via |-> rec.via]
    BY DEF RemoteRec
  <1> HIDE DEF one
  <1>2. two = [nick |-> n, nick_ts |-> ts, via |-> rec.via]
    BY <1>1
  <1> QED  BY <1>2 DEF one

\* link_uid_recv keeps the inductive invariant in each of the four verdicts of the
\* local and the remote collision.
LEMMA UidKeeps ==
    ASSUME IInv, NEW s \in Server, NEW v \in Server, link_uid_recv(s, v)
    PROVE  IInv'
  <1> USE DEF IInv
  <1> DEFINE m == Head(net[v][s])
  <1>1. /\ m \in Line /\ m.cmd = "UID" /\ net[v][s] # <<>> /\ v # s
        /\ link[s][v] = "up"
    BY FirstLine DEF link_uid_recv, First
  <1>2. /\ m.u \in User /\ m.ts \in Time
        /\ m.nick \in Name \cup {m.u} /\ m.nick \in Nick
    BY <1>1, LineFields
  <1> DEFINE u == m.u
             ts == m.ts
             l  == find_nick(s, m.nick)
             lv == LocalVerdict(l, u, ts)
             n1 == IF lv[2] THEN u ELSE m.nick
             e  == remote_nick[s][n1]
             rv == RemoteVerdict(s, e, u, ts)
             n2 == IF rv[2] THEN u ELSE n1
             copies == Saved(s, e, rv)
             table == SavedIndex(s, e, rv)
             rec == [nick |-> n2, nick_ts |-> ts, via |-> v]
  <1>3. CASE ~server_behind(s, Home[u], v) \/ remote_users[s][u] # Absent
    BY <1>1, <1>3, DiscardKeeps DEF link_uid_recv
  <1>4. CASE server_behind(s, Home[u], v) /\ remote_users[s][u] = Absent
    <2>1. PICK stamp \in Stamp :
             /\ yield_local(l, lv, stamp)
             /\ remote_users' = [remote_users EXCEPT ![s] =
                                    [copies EXCEPT ![u] = rec]]
             /\ remote_nick' = [remote_nick EXCEPT ![s] =
                                    [table EXCEPT ![n2] = u]]
             /\ Receive(s, v,
                   Both(CollisionNews(v, l, lv, u, ts, stamp),
                   Both(RemoteCollisionNews(s, v, e, rv, u, ts),
                        propagate(s, v, <<UIDLine(u, n2, ts)>>))))
      BY <1>4 DEF link_uid_recv
    <2>2. UNCHANGED <<link, asked, opened>>
      BY DEF link_uid_recv
    <2>3. Home[u] = v /\ Home[u] # s
      BY <1>1, <1>4 DEF server_behind
    <2>4. n1 \in Name \cup {u} /\ n1 \in Nick /\ n2 \in Name \cup {u}
          /\ n2 \in Nick
      BY <1>2 DEF Nick
    <2>5. /\ LocalOK' /\ now' \in Time
          /\ LocalApart
          /\ ~lv[2] => nick_index'[s][m.nick] = None
      BY <1>2, <2>1, <2>3, YieldLocal DEF CountersOK, LocalApart
    <2> HIDE DEF l, lv
    <2>0. u \in User /\ ts \in Time /\ e = remote_nick[s][n1]
      BY <1>2
    <2> HIDE DEF m, u, ts, n1, e
    <2>6. /\ SideOK(copies, table)
          /\ \A w \in User :
                /\ copies[w].via = remote_users[s][w].via
                /\ w = u => copies[w] = remote_users[s][w]
          /\ ~rv[2] => table[n1] \in {None, u}
          /\ \A k \in Nick : table[k] # None =>
                \/ remote_nick[s][k] # None
                \/ k \in User /\ remote_users[s][k].via # None
      BY <2>0, <2>4, SaveRemote
    <2>7. Both(CollisionNews(v, l, lv, u, ts, stamp),
          Both(RemoteCollisionNews(s, v, e, rv, u, ts),
               propagate(s, v, <<UIDLine(u, n2, ts)>>))) \in Outs
      <3>1. CollisionNews(v, l, lv, u, ts, stamp) \in Outs
            /\ RemoteCollisionNews(s, v, e, rv, u, ts) \in Outs
        BY <1>2, <2>0, <2>4, ArbitrationNews DEF CountersOK, l, lv, u, ts
      <3>2. <<UIDLine(u, n2, ts)>> \in Seq(Line)
        BY <2>0, <2>4, LineTypes
      <3> QED  BY <3>1, <3>2, OutTypes
    <2>8. net' \in Queues
      BY <1>1, <2>1, <2>7, ReceiveType
    <2> HIDE DEF copies, table
    \* the new copy takes a free nick
    <2>9. table[n2] \in {None, u}
      BY <2>0, <2>6, UuidsAreOwn
    <2>10. copies[u] = Absent /\ copies[u].nick = None
      BY <2>0, <1>4, <2>6 DEF Absent
    <2>12. rec \in RemoteRec /\ rec.nick = n2 /\ rec.via = v
      BY <2>0, <2>4 DEF RemoteRec
    <2> HIDE DEF n2, rec
    <2>11. [table EXCEPT ![n2] = u] = MoveNick(table, copies[u].nick, n2, u)
      <3>1. table \in [Nick -> User \cup {None}]
        BY <2>6 DEF SideOK, Table
      <3>2. MoveNick(table, None, n2, u) = [table EXCEPT ![n2] = u]
        BY <2>4, <3>1, NoneApart DEF MoveNick
      <3> QED  BY <2>10, <3>2
    <2>13. SideOK([copies EXCEPT ![u] = rec], [table EXCEPT ![n2] = u])
      <3>1. SideOK([copies EXCEPT ![u] = rec],
                   MoveNick(table, copies[u].nick, rec.nick, u))
        BY <2>0, <2>4, <2>6, <2>9, <2>12, SideMove, NoneApart
      <3> QED  BY <2>11, <2>12, <3>1
    <2>14. RemoteOK'
      <3>1. /\ [copies EXCEPT ![u] = rec] \in [User -> RemoteRec]
            /\ [table EXCEPT ![n2] = u] \in Table
        BY <2>13 DEF SideOK
      <3> QED  BY <2>1, <2>13, <3>1 DEF RemoteOK
    <2>15. Disjoint'
      <3>1. nick_index'[s][n2] = None
        <4>1. CASE n2 = u
          BY <2>0, <2>3, <2>5, <4>1, LocalHolderIsHome
        <4>2. CASE n2 # u
          <5>1. ~lv[2] /\ n2 = m.nick
            BY <4>2 DEF n2, n1
          <5> QED  BY <2>5, <5>1
        <4> QED  BY <4>1, <4>2
      <3> DEFINE after == [table EXCEPT ![n2] = u]
      <3>2. Accounted(s, after)
        BY <2>6, <3>1 DEF SideOK, Table, Accounted
      <3>3. remote_nick' = [remote_nick EXCEPT ![s] = after]
        BY <2>1
      <3> HIDE DEF after
      <3> QED  BY <2>5, <3>2, <3>3, StillDisjoint DEF RemoteOK
    <2>16. NoRoutingGhost'
      <3> SUFFICES ASSUME NEW x \in Server, NEW w \in User,
                          remote_users'[x][w].via # None
                   PROVE  LET z == remote_users'[x][w].via IN
                          link'[x][z] = "up" /\ Home[w] = z /\ z # x
        BY DEF NoRoutingGhost
      <3>1. CASE x = s /\ w = u
        BY <1>1, <2>0, <2>1, <2>2, <2>3, <2>6, <2>12, <3>1 DEF RemoteOK, SideOK
      <3>2. CASE ~(x = s /\ w = u)
        <4>1. remote_users'[x][w].via = remote_users[x][w].via
          BY <2>1, <2>6, <3>2 DEF RemoteOK, SideOK
        <4> QED  BY <2>2, <4>1 DEF NoRoutingGhost
      <3> QED  BY <3>1, <3>2
    <2> QED  BY <2>2, <2>5, <2>8, <2>14, <2>15, <2>16 DEF LinkOK, CountersOK
  <1> QED  BY <1>3, <1>4

\* link_nick_recv keeps the inductive invariant: the changer, its local rival and
\* its remote rival never share a nick afterwards.
LEMMA NickKeeps ==
    ASSUME IInv, NEW s \in Server, NEW v \in Server, link_nick_recv(s, v)
    PROVE  IInv'
  <1> USE DEF IInv
  <1> DEFINE m == Head(net[v][s])
  <1>1. /\ m \in Line /\ m.cmd = "NICK" /\ net[v][s] # <<>> /\ v # s
        /\ link[s][v] = "up"
    BY FirstLine DEF link_nick_recv, First
  <1>2. /\ m.u \in User /\ m.ts \in Time
        /\ m.nick \in Name \cup {m.u} /\ m.nick \in Nick
    BY <1>1, LineFields
  <1> DEFINE u == m.u
             ts == m.ts
             n == m.nick
             l  == find_nick(s, n)
             lv == LocalVerdict(l, u, ts)
             e  == IF lv[2] THEN None ELSE remote_nick[s][n]
             rv == RemoteVerdict(s, e, u, ts)
             lost == lv[2] \/ rv[2]
             copies == Saved(s, e, rv)
             table == SavedIndex(s, e, rv)
             old == remote_users[s][u].nick
             rec == [nick |-> n, nick_ts |-> ts, via |-> v]
             copies2 == IF lost THEN copies
                        ELSE [copies EXCEPT ![u].nick = n, ![u].nick_ts = ts]
             table2 == IF lost THEN table ELSE MoveNick(table, old, n, u)
  <1>3. CASE ~sourced_via(s, u, v)
    BY <1>1, <1>3, DiscardKeeps DEF link_nick_recv
  <1>4. CASE sourced_via(s, u, v)
    <2>1. PICK stamp \in Stamp :
             /\ yield_local(l, lv, stamp)
             /\ remote_users' = [remote_users EXCEPT ![s] = copies2]
             /\ remote_nick' = [remote_nick EXCEPT ![s] = table2]
             /\ Receive(s, v,
                   Both(CollisionNews(v, l, lv, u, ts, stamp),
                   Both(RemoteCollisionNews(s, v, e, rv, u, ts),
                        IF lost THEN Nothing ELSE propagate(s, v, <<m>>))))
      BY <1>4 DEF link_nick_recv
    <2>2. UNCHANGED <<link, asked, opened>>
      BY DEF link_nick_recv
    <2>3. /\ remote_users[s][u].via = v
          /\ Home[u] = v /\ Home[u] # s
      BY <1>1, <1>2, <1>4, NoneApart DEF sourced_via, NoRoutingGhost
    <2>4. /\ LocalOK' /\ now' \in Time
          /\ LocalApart
          /\ ~lv[2] => nick_index'[s][n] = None
      BY <1>2, <2>1, <2>3, YieldLocal DEF CountersOK, LocalApart
    <2> HIDE DEF l, lv
    <2>5. /\ u \in User /\ ts \in Time /\ n \in Nick /\ n \in Name \cup {u}
          /\ e = None \/ e = remote_nick[s][n]
          /\ ~lv[2] => e = remote_nick[s][n]
      BY <1>2
    <2>6. Both(CollisionNews(v, l, lv, u, ts, stamp),
          Both(RemoteCollisionNews(s, v, e, rv, u, ts),
               IF lost THEN Nothing ELSE propagate(s, v, <<m>>))) \in Outs
      <3>1. /\ CollisionNews(v, l, lv, u, ts, stamp) \in Outs
            /\ RemoteCollisionNews(s, v, e, rv, u, ts) \in Outs
        BY <1>1, <2>1, <2>5, ArbitrationNews DEF CountersOK, l, lv
      <3>2. propagate(s, v, <<m>>) \in Outs
        <4>1. <<m>> \in Seq(Line)
          BY <1>1
        <4> QED  BY <4>1, OutTypes
      <3> QED  BY <3>1, <3>2, OutTypes
    <2>7. net' \in Queues
      BY <1>1, <2>1, <2>6, ReceiveType
    <2> HIDE DEF m, u, ts, n, e
    <2>8. /\ SideOK(copies, table)
          /\ \A w \in User :
                /\ copies[w].via = remote_users[s][w].via
                /\ w = u => copies[w] = remote_users[s][w]
          /\ ~rv[2] /\ e = remote_nick[s][n] => table[n] \in {None, u}
          /\ \A k \in Nick : table[k] # None =>
                \/ remote_nick[s][k] # None
                \/ k \in User /\ remote_users[s][k].via # None
      BY <2>5, SaveRemote
    <2> HIDE DEF copies, table, rv
    <2>9. ~lost => copies2 = [copies EXCEPT ![u] = rec]
      <3>1. copies[u] \in RemoteRec /\ copies[u].via = v
        BY <2>3, <2>5, <2>8 DEF SideOK
      <3>2. [copies[u] EXCEPT !.nick = n, !.nick_ts = ts] = rec
        BY <2>5, <3>1, RenamedCopy
      <3>3. copies \in [User -> RemoteRec]
        BY <2>8 DEF SideOK
      <3> QED  BY <2>5, <3>2, <3>3
    <2>10. rec \in RemoteRec /\ rec.nick = n /\ rec.via = v
      BY <2>5 DEF RemoteRec
    <2>11. SideOK(copies2, table2)
      <3>1. CASE lost
        BY <2>8, <3>1
      <3>2. CASE ~lost
        <4>1. table[n] \in {None, u} /\ copies[u].nick = old
          BY <2>5, <2>8, <3>2
        <4> HIDE DEF rec
        <4>2. SideOK([copies EXCEPT ![u] = rec],
                     MoveNick(table, copies[u].nick, rec.nick, u))
          BY <2>5, <2>8, <2>10, <4>1, SideMove, NoneApart
        <4> QED  BY <2>9, <2>10, <3>2, <4>1, <4>2
      <3> QED  BY <3>1, <3>2
    <2>12. RemoteOK'
      <3>1. copies2 \in [User -> RemoteRec] /\ table2 \in Table
        BY <2>11 DEF SideOK
      <3> HIDE DEF copies2, table2
      <3> QED  BY <2>1, <2>11, <3>1 DEF RemoteOK
    <2>13. Disjoint'
      <3>1. Accounted(s, table2)
        BY <2>4, <2>8 DEF MoveNick, Accounted
      <3> HIDE DEF table2
      <3> QED  BY <2>1, <2>4, <3>1, StillDisjoint DEF RemoteOK
    <2>14. NoRoutingGhost'
      <3>1. \A w \in User : copies2[w].via = remote_users[s][w].via
        BY <2>3, <2>8, <2>9, <2>10 DEF SideOK
      <3> HIDE DEF copies2
      <3>2. \A x \in Server, w \in User :
               remote_users'[x][w].via = remote_users[x][w].via
        BY <2>1, <3>1 DEF RemoteOK
      <3> QED  BY <2>2, <3>2 DEF NoRoutingGhost
    <2> QED  BY <2>2, <2>4, <2>7, <2>12, <2>13, <2>14 DEF LinkOK, CountersOK
  <1> QED  BY <1>3, <1>4

\* link_save_recv keeps the inductive invariant: a uuid is always free for its user.
LEMMA SaveKeeps ==
    ASSUME IInv, NEW s \in Server, NEW v \in Server, link_save_recv(s, v)
    PROVE  IInv'
  <1> USE DEF IInv
  <1> DEFINE m == Head(net[v][s])
             w == link_toward(s, m.u)
  <1>1. m \in Line /\ m.cmd = "SAVE" /\ net[v][s] # <<>>
    BY FirstLine DEF link_save_recv
  <1>2. m.u \in User /\ m.ts \in Time
    BY <1>1, LineFields
  <1>3. UNCHANGED <<link, asked, opened>>
    BY DEF link_save_recv
  <1>4. CASE Home[m.u] = s /\ Connected(m.u) /\ users[m.u].nick_ts = m.ts
    <2>1. PICK stamp \in Stamp :
             /\ set_nick(m.u, m.u, stamp)
             /\ Receive(s, v, NickNews(m.u, m.u, stamp))
             /\ UNCHANGED <<remote_users, remote_nick>>
      BY <1>4 DEF link_save_recv
    <2> DEFINE u == m.u
    <2>2. u \in User /\ stamp \in Time /\ now \in Time /\ u \in Nick
      BY <1>2, StampType DEF CountersOK, Nick
    <2> HIDE DEF u, m
    <2>3. LocalOK'
      BY <1>4, <2>1, <2>2, SetNickLocal, UuidsAreOwn DEF set_nick, u
    <2>4. RemoteOK'
      BY <2>1, CopiesUntouched
    <2>5. net' \in Queues
      <3>1. NickNews(u, u, stamp) \in Outs
        BY <2>2, NewsTypes
      <3> QED  BY <1>1, <2>1, <3>1, ReceiveType DEF u
    <2>6. remote_nick[s][u] = None
      <3>1. remote_users[s][u].via = None
        BY <1>4, <2>2 DEF NoRoutingGhost, u
      <3>2. SideOK(remote_users[s], remote_nick[s])
        BY DEF RemoteOK
      <3> QED  BY <2>2, <3>1, <3>2, UuidsAreOwn, OwnUsersHoldNoRemoteNick
    <2>7. Disjoint'
      <3>1. nick_index' = [nick_index EXCEPT ![s] =
                              MoveNick(@, users[u].nick, u, u)]
        BY <1>4, <2>1 DEF set_nick, Reindexed, u
      <3> QED  BY <2>1, <2>6, <3>1 DEF Disjoint, LocalOK, MoveNick
    <2> QED  BY <1>3, <2>1, <2>2, <2>3, <2>4, <2>5, <2>7
             DEF NoRoutingGhost, LinkOK, CountersOK, set_nick
  <1>5. CASE Home[m.u] = s /\ Connected(m.u) /\ users[m.u].nick_ts # m.ts
    BY <1>1, <1>3, <1>5, DiscardKeeps DEF link_save_recv
  <1>6. CASE ~(Home[m.u] = s /\ Connected(m.u))
    <2> DEFINE out == IF w \in {None, v} THEN Nothing ELSE link_out(w, <<m>>)
    <2>1. /\ Receive(s, v, out)
          /\ UNCHANGED <<users, nick_index, remote_users, remote_nick, now>>
      BY <1>6 DEF link_save_recv
    <2>2. <<m>> \in Seq(Line) /\ w \in Server \cup {None}
      BY <1>1, <1>2 DEF link_toward, RemoteOK, RemoteRec
    <2>3. out \in Outs
      BY <2>2, OutTypes
    <2>4. net' \in Queues
      BY <1>1, <2>1, <2>3, ReceiveType
    <2> QED  BY <1>3, <2>1, <2>4, TablesUntouched
             DEF NoRoutingGhost, LinkOK, CountersOK
  <1> QED  BY <1>4, <1>5, <1>6

\* link_quit_recv keeps the inductive invariant.
LEMMA QuitKeeps ==
    ASSUME IInv, NEW s \in Server, NEW v \in Server, link_quit_recv(s, v)
    PROVE  IInv'
  <1> USE DEF IInv
  <1> DEFINE m == Head(net[v][s])
             copies == [u \in User |-> IF u \in {m.u} THEN Absent
                                       ELSE remote_users[s][u]]
             table == FreeAll(remote_nick[s], NickOf(remote_users[s]), {m.u})
  <1>1. m \in Line /\ m.cmd = "QUIT" /\ net[v][s] # <<>>
    BY FirstLine DEF link_quit_recv
  <1>2. m.u \in User
    BY <1>1, LineFields
  <1>3. UNCHANGED <<link, asked, opened>>
    BY DEF link_quit_recv
  <1>4. CASE ~sourced_via(s, m.u, v)
    BY <1>1, <1>3, <1>4, DiscardKeeps DEF link_quit_recv
  <1>5. CASE sourced_via(s, m.u, v)
    <2>1. /\ drop_remote_users(s, {m.u})
          /\ Receive(s, v, propagate(s, v, <<m>>))
          /\ UNCHANGED <<users, nick_index, now>>
      BY <1>5 DEF link_quit_recv
    <2>2. remote_users' = [remote_users EXCEPT ![s] = copies]
      BY <2>1 DEF drop_remote_users, RemoteOK
    <2>3. remote_nick' = [remote_nick EXCEPT ![s] = table]
      <3>1. table = [n \in Nick |->
                        IF \E u \in {m.u} : remote_users[s][u].nick = n
                        THEN None ELSE remote_nick[s][n]]
        BY <1>2 DEF FreeAll, NickOf
      <3> QED  BY <2>1, <3>1 DEF drop_remote_users, RemoteOK
    <2>4. SideOK(copies, table)
      <3>1. {m.u} \in SUBSET User /\ SideOK(remote_users[s], remote_nick[s])
        BY <1>2 DEF RemoteOK
      <3> QED  BY <3>1, SideDrop
    <2>5. RemoteOK'
      <3>1. copies \in [User -> RemoteRec] /\ table \in Table
        BY <2>4 DEF SideOK
      <3> HIDE DEF copies, table
      <3> QED  BY <2>2, <2>3, <2>4, <3>1 DEF RemoteOK
    <2>6. LocalOK'
      BY <2>1 DEF LocalOK, LocalNames, Connected
    <2>7. Disjoint'
      BY <2>1, <2>3 DEF Disjoint, FreeAll, RemoteOK
    <2>8. NoRoutingGhost'
      <3> SUFFICES ASSUME NEW x \in Server, NEW u \in User,
                          remote_users'[x][u].via # None
                   PROVE  LET z == remote_users'[x][u].via IN
                          link'[x][z] = "up" /\ Home[u] = z /\ z # x
        BY DEF NoRoutingGhost
      <3>1. remote_users'[x][u] = remote_users[x][u]
        BY <2>2 DEF Absent, RemoteOK
      <3> QED  BY <1>3, <3>1 DEF NoRoutingGhost
    <2>9. net' \in Queues
      <3>1. <<m>> \in Seq(Line)
        BY <1>1
      <3> QED  BY <1>1, <2>1, <3>1, OutTypes, ReceiveType
    <2> QED  BY <1>3, <2>1, <2>5, <2>6, <2>7, <2>8, <2>9 DEF LinkOK, CountersOK
  <1> QED  BY <1>4, <1>5

\* link_kill_recv keeps the inductive invariant.
LEMMA KillKeeps ==
    ASSUME IInv, NEW s \in Server, NEW v \in Server, link_kill_recv(s, v)
    PROVE  IInv'
  <1> USE DEF IInv
  <1> DEFINE m == Head(net[v][s])
             w == link_toward(s, m.u)
  <1>1. m \in Line /\ m.cmd = "KILL" /\ net[v][s] # <<>>
    BY FirstLine DEF link_kill_recv
  <1>2. m.u \in User /\ m.src \in User
    BY <1>1, LineFields
  <1>3. UNCHANGED <<link, asked, opened>>
    BY DEF link_kill_recv
  <1>4. CASE ~sourced_via(s, m.src, v)
    BY <1>1, <1>3, <1>4, DiscardKeeps DEF link_kill_recv
  <1>5. CASE sourced_via(s, m.src, v) /\ Home[m.u] = s /\ Connected(m.u)
    <2>1. /\ remove_user(m.u)
          /\ Receive(s, v, QuitNews(m.u))
          /\ UNCHANGED <<remote_users, remote_nick, now>>
      BY <1>5 DEF link_kill_recv
    <2>2. /\ LocalOK'
          /\ \A x \in Server, n \in Nick :
                nick_index[x][n] = None => nick_index'[x][n] = None
      BY <1>2, <1>5, <2>1, RemoveUserLocal
    <2>3. net' \in Queues
      BY <1>1, <1>2, <2>1, NewsTypes, ReceiveType
    <2> QED  BY <1>3, <2>1, <2>2, <2>3, CopiesUntouched
             DEF Disjoint, NoRoutingGhost, LinkOK, CountersOK
  <1>6. CASE sourced_via(s, m.src, v) /\ ~(Home[m.u] = s /\ Connected(m.u))
    <2> DEFINE out == IF w \in {None, v} THEN Nothing ELSE link_out(w, <<m>>)
    <2>1. /\ Receive(s, v, out)
          /\ UNCHANGED <<users, nick_index, remote_users, remote_nick, now>>
      BY <1>6 DEF link_kill_recv
    <2>2. <<m>> \in Seq(Line) /\ w \in Server \cup {None}
      BY <1>1, <1>2 DEF link_toward, RemoteOK, RemoteRec
    <2>3. out \in Outs
      BY <2>2, OutTypes
    <2>4. net' \in Queues
      BY <1>1, <2>1, <2>3, ReceiveType
    <2> QED  BY <1>3, <2>1, <2>4, TablesUntouched
             DEF NoRoutingGhost, LinkOK, CountersOK
  <1> QED  BY <1>4, <1>5, <1>6

-----------------------------------------------------------------------------
(* Theorems                                                                 *)

\* Every step of the network keeps the inductive invariant.
LEMMA InvStep == IInv /\ [Next]_vars => IInv'
  <1> SUFFICES ASSUME IInv, [Next]_vars PROVE IInv'
    OBVIOUS
  <1>1. ASSUME NEW u \in User, Client(u) PROVE IInv'
    BY <1>1, ClientKeeps
  <1>2. ASSUME NEW s \in Server, NEW v \in Server, on_link(s, v) PROVE IInv'
    BY <1>2, ServerKeeps, UidKeeps, NickKeeps, SaveKeeps, QuitKeeps, KillKeeps
    DEF on_link
  <1>3. ASSUME NEW s \in Server, NEW v \in Server, add_link(s, v) PROVE IInv'
    BY <1>3, AddLinkKeeps
  <1>4. ASSUME NEW s \in Server, NEW v \in Server, close_link(s, v) PROVE IInv'
    BY <1>4, CloseLinkKeeps
  <1>5. CASE Tick
    <2>1. CountersOK'
      BY <1>5, ConstantsAssumption DEF Tick, IInv, CountersOK, Time
    <2> QED  BY <1>5, <2>1, TablesUntouched
             DEF Tick, IInv, NoRoutingGhost, LinkOK
  <1>6. CASE UNCHANGED vars
    BY <1>6, TablesUntouched
    DEF vars, IInv, NoRoutingGhost, LinkOK, CountersOK
  <1> QED  BY <1>1, <1>2, <1>3, <1>4, <1>5, <1>6 DEF Next

\* The inductive invariant implies the properties of interest.
LEMMA InvImplies == IInv => TypeOK /\ NickTablesAgree /\ NoRoutingGhost
  <1> SUFFICES ASSUME IInv PROVE TypeOK /\ NickTablesAgree /\ NoRoutingGhost
    OBVIOUS
  <1>1. TypeOK
    BY DEF IInv, TypeOK, LocalOK, RemoteOK, LinkOK, CountersOK, Table, Queues
  <1>2. NickTablesAgree
    BY DEF IInv, NickTablesAgree, LocalOK, RemoteOK, SideOK, Disjoint,
           RemoteNames, NickOf
  <1> QED  BY <1>1, <1>2 DEF IInv

\* The inductive invariant holds in every reachable state.
LEMMA Invariant == Spec => []IInv
  BY InitInv, InvStep, PTL DEF Spec

\* Every variable keeps its type, in particular every line on a link names a
\* user by a name it asked for or by its own uuid.
THEOREM TypeCorrect == Spec => []TypeOK
  BY Invariant, InvImplies, PTL

\* On every server of a network of any size the nick tables (nick_index,
\* remote_nick) agree with the users and copies they index, and no nick is both
\* a local and a remote one, whatever collisions, splits and kills interleave.
THEOREM NickTablesCorrect == Spec => []NickTablesAgree
  BY Invariant, InvImplies, PTL

\* A copy of a remote user always leads to a registered link with the server
\* that owns the user: close_link, QUIT and the handshake leave no ghost.
THEOREM RoutesCorrect == Spec => []NoRoutingGhost
  BY Invariant, InvImplies, PTL

-----------------------------------------------------------------------------
(* Convergence.  The argument follows one user u of a server t, as seen by  *)
(* a peer s: what the lines of t that s has not read yet still have to say  *)
(* of u.                                                                    *)

-----------------------------------------------------------------------------
(* What a queue of lines says of a user                                     *)

Bears(l, cmd, u) == l.cmd = cmd /\ l.u = u

Says(q, cmd, u) == \E i \in DOMAIN q : Bears(q[i], cmd, u)

\* A line that gives u's nick.
Calls(l, u) == Bears(l, "UID", u) \/ Bears(l, "NICK", u)

\* Nothing in q introduces, renames or removes u.
Clear(q, u) == \A i \in DOMAIN q : ~Calls(q[i], u) /\ ~Bears(q[i], "QUIT", u)

\* q, the peer's knowledge of u, the sender's end of the link and u's phase fit
\* together: u is introduced once and before the peer knows it; a registered user
\* is known or about to be; one that is gone is about to be forgotten; and of a
\* user that is not registered, or over a link that is not, nothing is said.
Tracks(q, u, known, up, phase) ==
    /\ \A i, j \in DOMAIN q :
          Bears(q[i], "UID", u) /\ Bears(q[j], "UID", u) => i = j
    /\ known => ~Says(q, "UID", u)
    /\ up /\ phase = "reg" =>
          (known \/ Says(q, "UID", u)) /\ ~Says(q, "QUIT", u)
    /\ up /\ phase = "gone" =>
          /\ known => Says(q, "QUIT", u)
          /\ \A i \in DOMAIN q : Bears(q[i], "UID", u) =>
                \E j \in DOMAIN q : j > i /\ Bears(q[j], "QUIT", u)
    /\ ~(up /\ phase \in {"reg", "gone"}) =>
          ~known /\ ~Says(q, "UID", u) /\ ~Says(q, "QUIT", u)

\* Writing in one go or in two.
LEMMA LinesTogether ==
    \A o1, o2, o3 \in Seq(Line) : (o1 \o o2) \o o3 = o1 \o (o2 \o o3)
  BY ConcatAssociative

\* Where the lines of a queue are after more have been written, and after the
\* first has been read.
LEMMA Appended ==
    ASSUME NEW q \in Seq(Line), NEW o \in Seq(Line)
    PROVE  /\ q \o o \in Seq(Line)
           /\ \A i \in DOMAIN q : i \in DOMAIN (q \o o) /\ (q \o o)[i] = q[i]
           /\ \A i \in DOMAIN o : /\ Len(q) + i \in DOMAIN (q \o o)
                                  /\ (q \o o)[Len(q) + i] = o[i]
           /\ \A i \in DOMAIN (q \o o) :
                 \/ i \in DOMAIN q
                 \/ i > Len(q) /\ i - Len(q) \in DOMAIN o
           /\ DOMAIN q = 1 .. Len(q) /\ DOMAIN o = 1 .. Len(o)
           /\ Len(q) \in Nat /\ Len(o) \in Nat
  OBVIOUS

LEMMA Behead ==
    ASSUME NEW q \in Seq(Line), q # <<>>
    PROVE  /\ Tail(q) \in Seq(Line) /\ Head(q) = q[1] /\ q[1] \in Line
           /\ 1 \in DOMAIN q /\ DOMAIN q \subseteq Nat
           /\ \A i \in DOMAIN Tail(q) : i + 1 \in DOMAIN q /\ Tail(q)[i] = q[i + 1]
           /\ \A i \in DOMAIN q : i # 1 =>
                 /\ i - 1 \in DOMAIN Tail(q) /\ Tail(q)[i - 1] = q[i]
                 /\ i > 1
           /\ DOMAIN Tail(q) \subseteq Nat
  OBVIOUS

\* Lines that say nothing of u change nothing that the queue says of it.
LEMMA ClearAppended ==
    ASSUME NEW q \in Seq(Line), NEW o \in Seq(Line), NEW u, Clear(o, u)
    PROVE  /\ \A i \in DOMAIN (q \o o) : \A cmd \in {"UID", "NICK", "QUIT"} :
                 Bears((q \o o)[i], cmd, u) => i \in DOMAIN q
           /\ \A cmd \in {"UID", "NICK", "QUIT"} :
                 Says(q \o o, cmd, u) <=> Says(q, cmd, u)
  <1>1. ASSUME NEW i \in DOMAIN (q \o o), NEW cmd \in {"UID", "NICK", "QUIT"},
               Bears((q \o o)[i], cmd, u), i \notin DOMAIN q
        PROVE  FALSE
    <2>1. i - Len(q) \in DOMAIN o /\ (q \o o)[i] = o[i - Len(q)]
      BY <1>1, Appended
    <2> QED  BY <1>1, <2>1 DEF Clear, Calls, Bears
  <1> QED  BY <1>1, Appended DEF Says

\* Lines that neither introduce nor remove u leave what the queue has to say of
\* its coming and going as it was.
Silent(q, u) ==
    \A i \in DOMAIN q : ~Bears(q[i], "UID", u) /\ ~Bears(q[i], "QUIT", u)

LEMMA TracksAppended ==
    ASSUME NEW q \in Seq(Line), NEW o \in Seq(Line), NEW u, Silent(o, u),
           NEW known \in BOOLEAN, NEW up \in BOOLEAN, NEW phase,
           Tracks(q, u, known, up, phase)
    PROVE  Tracks(q \o o, u, known, up, phase)
  <1> DEFINE p == q \o o
  <1>1. ASSUME NEW i \in DOMAIN p, NEW cmd \in {"UID", "QUIT"},
               Bears(p[i], cmd, u), i \notin DOMAIN q
        PROVE  FALSE
    <2>1. i - Len(q) \in DOMAIN o /\ p[i] = o[i - Len(q)]
      BY <1>1, Appended
    <2> QED  BY <1>1, <2>1 DEF Silent, Bears
  <1>2. \A i \in DOMAIN q : i \in DOMAIN p /\ p[i] = q[i]
    BY Appended
  <1> HIDE DEF p
  <1>3. \A cmd \in {"UID", "QUIT"} : Says(p, cmd, u) <=> Says(q, cmd, u)
    BY <1>1, <1>2 DEF Says
  <1>4. Tracks(p, u, known, up, phase)
    BY <1>1, <1>2, <1>3 DEF Tracks
  <1> QED  BY <1>4 DEF p

\* An introduction, to a peer that had heard nothing of u.
LEMMA TracksIntroduced ==
    ASSUME NEW q \in Seq(Line), NEW o \in Seq(Line), NEW u,
           ~Says(q, "UID", u), ~Says(q, "QUIT", u),
           Says(o, "UID", u), ~Says(o, "QUIT", u),
           \A i, j \in DOMAIN o :
              Bears(o[i], "UID", u) /\ Bears(o[j], "UID", u) => i = j
    PROVE  Tracks(q \o o, u, FALSE, TRUE, "reg")
  <1> DEFINE p == q \o o
  <1>1. Says(p, "UID", u)
    <2>1. PICK i \in DOMAIN o : Bears(o[i], "UID", u)
      BY DEF Says
    <2>2. Len(q) + i \in DOMAIN p /\ p[Len(q) + i] = o[i]
      BY Appended
    <2> QED  BY <2>1, <2>2 DEF Says
  <1>2. ASSUME Says(p, "QUIT", u) PROVE FALSE
    <2>1. PICK i \in DOMAIN p : Bears(p[i], "QUIT", u)
      BY <1>2 DEF Says
    <2>2. i \in DOMAIN q => FALSE
      BY <2>1, Appended DEF Says
    <2>3. i - Len(q) \in DOMAIN o /\ p[i] = o[i - Len(q)]
      BY <2>2, Appended
    <2> QED  BY <2>1, <2>3 DEF Says
  <1>3. ASSUME NEW i \in DOMAIN p, NEW j \in DOMAIN p,
               Bears(p[i], "UID", u), Bears(p[j], "UID", u)
        PROVE  i = j
    <2>1. i \notin DOMAIN q /\ j \notin DOMAIN q
      BY <1>3, Appended DEF Says
    <2>2. i - Len(q) \in DOMAIN o /\ p[i] = o[i - Len(q)]
      BY <2>1, Appended
    <2>3. j - Len(q) \in DOMAIN o /\ p[j] = o[j - Len(q)]
      BY <2>1, Appended
    <2>4. i - Len(q) = j - Len(q)
      BY <1>3, <2>2, <2>3
    <2>5. i \in Int /\ j \in Int /\ Len(q) \in Int
      OBVIOUS
    <2> QED  BY <2>4, <2>5
  <1> HIDE DEF p
  <1>4. Tracks(p, u, FALSE, TRUE, "reg")
    BY <1>1, <1>2, <1>3 DEF Tracks
  <1> QED  BY <1>4 DEF p

\* A QUIT written after everything else that was said of a registered user.
LEMMA TracksQuit ==
    ASSUME NEW q \in Seq(Line), NEW u \in User, NEW known \in BOOLEAN,
           Tracks(q, u, known, TRUE, "reg")
    PROVE  Tracks(q \o <<QUITLine(u)>>, u, known, TRUE, "gone")
  <1> DEFINE o == <<QUITLine(u)>>
             p == q \o o
             k == Len(q) + 1
  <1>0. o \in Seq(Line) /\ 1 \in DOMAIN o /\ DOMAIN o = {1}
    BY LineTypes
  <1>1. k \in DOMAIN p /\ p[k] = o[1] /\ Bears(o[1], "QUIT", u)
    BY <1>0, Appended DEF Bears, QUITLine
  <1>2. ASSUME NEW i \in DOMAIN p, Bears(p[i], "UID", u)
        PROVE  i \in DOMAIN q /\ p[i] = q[i] /\ k > i
    <2>1. CASE i \in DOMAIN q
      BY <1>0, <2>1, Appended
    <2>2. CASE i \notin DOMAIN q
      <3>1. i - Len(q) = 1 /\ i = k
        BY <1>0, <2>2, Appended
      <3> QED  BY <1>1, <1>2, <3>1 DEF Bears
    <2> QED  BY <2>1, <2>2
  <1>3. known => ~Says(p, "UID", u)
    BY <1>2 DEF Tracks, Says
  <1>4. Says(p, "QUIT", u)
    BY <1>1 DEF Says
  <1> HIDE DEF p, k
  <1>5. Tracks(p, u, known, TRUE, "gone")
    BY <1>1, <1>2, <1>3, <1>4 DEF Tracks
  <1> QED  BY <1>5 DEF p

\* Reading a line that neither introduces nor removes u.
LEMMA TracksRead ==
    ASSUME NEW q \in Seq(Line), q # <<>>, NEW u, NEW known \in BOOLEAN,
           NEW up \in BOOLEAN, NEW phase, Tracks(q, u, known, up, phase),
           ~Bears(Head(q), "UID", u), ~Bears(Head(q), "QUIT", u)
    PROVE  Tracks(Tail(q), u, known, up, phase)
  <1> DEFINE p == Tail(q)
  <1>1. ASSUME NEW cmd \in {"UID", "QUIT"}
        PROVE  Says(p, cmd, u) <=> Says(q, cmd, u)
    <2>1. ASSUME NEW i \in DOMAIN p, Bears(p[i], cmd, u) PROVE Says(q, cmd, u)
      BY <2>1, Behead DEF Says
    <2>2. ASSUME NEW i \in DOMAIN q, Bears(q[i], cmd, u) PROVE Says(p, cmd, u)
      <3>1. i # 1
        BY <2>2, Behead
      <3>2. i - 1 \in DOMAIN p /\ p[i - 1] = q[i]
        BY <3>1, Behead
      <3> QED  BY <2>2, <3>2 DEF Says
    <2> QED  BY <2>1, <2>2 DEF Says
  <1>2. ASSUME NEW i \in DOMAIN p, NEW j \in DOMAIN p,
               Bears(p[i], "UID", u), Bears(p[j], "UID", u)
        PROVE  i = j
    <2>1. i + 1 = j + 1
      BY <1>2, Behead DEF Tracks
    <2> QED  BY <2>1, Behead
  <1>3. ASSUME up, phase = "gone", NEW i \in DOMAIN p, Bears(p[i], "UID", u)
        PROVE  \E j \in DOMAIN p : j > i /\ Bears(p[j], "QUIT", u)
    <2>1. i + 1 \in DOMAIN q /\ p[i] = q[i + 1] /\ i \in Nat
      BY Behead
    <2>2. PICK j \in DOMAIN q : j > i + 1 /\ Bears(q[j], "QUIT", u)
      BY <1>3, <2>1 DEF Tracks
    <2>3. j \in Nat /\ j # 1
      BY <2>1, <2>2, Behead
    <2>4. j - 1 \in DOMAIN p /\ p[j - 1] = q[j] /\ j - 1 > i
      BY <2>1, <2>2, <2>3, Behead
    <2> QED  BY <2>2, <2>4
  <1> HIDE DEF p
  <1>4. Tracks(p, u, known, up, phase)
    BY <1>1, <1>2, <1>3 DEF Tracks
  <1> QED  BY <1>4 DEF p

\* Reading u's introduction makes it known, and it was not known before.
LEMMA TracksLearned ==
    ASSUME NEW q \in Seq(Line), q # <<>>, NEW u, NEW known \in BOOLEAN,
           NEW up \in BOOLEAN, NEW phase, Tracks(q, u, known, up, phase),
           Bears(Head(q), "UID", u)
    PROVE  ~known /\ Tracks(Tail(q), u, TRUE, up, phase)
  <1> DEFINE p == Tail(q)
  <1>1. Says(q, "UID", u) /\ Bears(q[1], "UID", u) /\ 1 \in DOMAIN q
    BY Behead DEF Says
  <1>2. ~known /\ up /\ phase \in {"reg", "gone"}
    BY <1>1 DEF Tracks
  <1>3. ASSUME NEW i \in DOMAIN p, Bears(p[i], "UID", u) PROVE FALSE
    <2>1. i + 1 = 1
      BY <1>1, <1>3, Behead DEF Tracks
    <2> QED  BY <2>1, <1>3, Behead
  <1>4. ~Says(p, "UID", u)
    BY <1>3 DEF Says
  <1>5. phase = "reg" => ~Says(p, "QUIT", u)
    BY <1>2, Behead DEF Tracks, Says
  <1>6. ASSUME phase = "gone" PROVE Says(p, "QUIT", u)
    <2>1. PICK j \in DOMAIN q : j > 1 /\ Bears(q[j], "QUIT", u)
      BY <1>1, <1>2, <1>6 DEF Tracks
    <2>2. j - 1 \in DOMAIN p /\ p[j - 1] = q[j]
      BY <2>1, Behead
    <2> QED  BY <2>1, <2>2 DEF Says
  <1> HIDE DEF p
  <1>7. Tracks(p, u, TRUE, up, phase)
    BY <1>2, <1>3, <1>4, <1>5, <1>6 DEF Tracks
  <1> QED  BY <1>2, <1>7 DEF p

\* Reading u's QUIT makes it unknown, and u is gone.
LEMMA TracksForgotten ==
    ASSUME NEW q \in Seq(Line), q # <<>>, NEW u, NEW known \in BOOLEAN,
           NEW up \in BOOLEAN, NEW phase, Tracks(q, u, known, up, phase),
           Bears(Head(q), "QUIT", u)
    PROVE  Tracks(Tail(q), u, FALSE, up, phase)
  <1> DEFINE p == Tail(q)
  <1>1. Says(q, "QUIT", u)
    BY Behead DEF Says
  <1>2. up /\ phase = "gone"
    BY <1>1 DEF Tracks
  <1>3. ASSUME NEW i \in DOMAIN p, NEW j \in DOMAIN p,
               Bears(p[i], "UID", u), Bears(p[j], "UID", u)
        PROVE  i = j
    <2>1. i + 1 = j + 1
      BY <1>3, Behead DEF Tracks
    <2> QED  BY <2>1, Behead
  <1>4. ASSUME NEW i \in DOMAIN p, Bears(p[i], "UID", u)
        PROVE  \E j \in DOMAIN p : j > i /\ Bears(p[j], "QUIT", u)
    <2>1. i + 1 \in DOMAIN q /\ p[i] = q[i + 1] /\ i \in Nat
      BY Behead
    <2>2. PICK j \in DOMAIN q : j > i + 1 /\ Bears(q[j], "QUIT", u)
      BY <1>2, <1>4, <2>1 DEF Tracks
    <2>3. j \in Nat /\ j # 1
      BY <2>1, <2>2, Behead
    <2>4. j - 1 \in DOMAIN p /\ p[j - 1] = q[j] /\ j - 1 > i
      BY <2>1, <2>2, <2>3, Behead
    <2> QED  BY <2>2, <2>4
  <1> HIDE DEF p
  <1>5. Tracks(p, u, FALSE, up, phase)
    BY <1>2, <1>3, <1>4 DEF Tracks
  <1> QED  BY <1>5 DEF p

\* What the peer calls u, its unread lines q and its own unread lines r fit
\* together with u's nick n and timestamp ts: the last line that gives u's nick
\* gives n; when there is none the peer calls u by n or by its uuid, or has asked
\* u to give n up.
Follows(q, r, u, n, ts, c) ==
    /\ \A i \in DOMAIN q :
          Calls(q[i], u) /\ (\A j \in DOMAIN q : j > i => ~Calls(q[j], u)) =>
             q[i].nick = n /\ (q[i].cmd = "NICK" => q[i].ts = ts)
    /\ (\A i \in DOMAIN q : ~Calls(q[i], u)) =>
          \/ c \in {n, u}
          \/ \E k \in DOMAIN r : r[k] = SAVELine(u, ts)

\* Lines that say nothing of u.
LEMMA FollowsAppended ==
    ASSUME NEW q \in Seq(Line), NEW o \in Seq(Line), NEW u, Clear(o, u),
           NEW r, NEW n, NEW ts, NEW c, Follows(q, r, u, n, ts, c)
    PROVE  Follows(q \o o, r, u, n, ts, c)
  <1> DEFINE p == q \o o
  <1>1. ASSUME NEW i \in DOMAIN p, Calls(p[i], u)
        PROVE  i \in DOMAIN q /\ p[i] = q[i]
    BY <1>1, ClearAppended, Appended DEF Calls
  <1>2. \A i \in DOMAIN q : i \in DOMAIN p /\ p[i] = q[i]
    BY Appended
  <1> HIDE DEF p
  <1>3. Follows(p, r, u, n, ts, c)
    BY <1>1, <1>2 DEF Follows
  <1> QED  BY <1>3 DEF p

\* More lines in the other direction, and a copy that falls back to the uuid.
LEMMA FollowsAnswer ==
    ASSUME NEW r \in Seq(Line), NEW o \in Seq(Line), NEW q, NEW u, NEW n, NEW ts,
           NEW c, NEW d \in {c, u}, Follows(q, r, u, n, ts, c)
    PROVE  Follows(q, r \o o, u, n, ts, d)
  <1>1. \A k \in DOMAIN r : k \in DOMAIN (r \o o) /\ (r \o o)[k] = r[k]
    BY Appended
  <1> DEFINE p == r \o o
  <1> HIDE DEF p
  <1>2. Follows(q, p, u, n, ts, d)
    BY <1>1 DEF Follows, p
  <1> QED  BY <1>2 DEF p

\* One line that gives u's nick, after everything else: whatever came before and
\* whatever the copy is.
LEMMA FollowsCalled ==
    ASSUME NEW q \in Seq(Line), NEW o \in Seq(Line), NEW u, NEW n, NEW ts,
           NEW k \in DOMAIN o, Calls(o[k], u), o[k].nick = n,
           o[k].cmd = "NICK" => o[k].ts = ts,
           \A j \in DOMAIN o : j # k => ~Calls(o[j], u),
           NEW r, NEW c
    PROVE  Follows(q \o o, r, u, n, ts, c)
  <1> DEFINE p == q \o o
             h == Len(q) + k
  <1>1. h \in DOMAIN p /\ p[h] = o[k] /\ h \in Nat /\ h > Len(q)
    BY Appended
  <1>2. ASSUME NEW i \in DOMAIN p, Calls(p[i], u), i # h
        PROVE  h > i
    <2>1. CASE i \in DOMAIN q
      BY <1>1, <2>1, Appended
    <2>2. CASE i \notin DOMAIN q
      <3>1. i - Len(q) \in DOMAIN o /\ p[i] = o[i - Len(q)]
        BY <2>2, Appended
      <3>2. i - Len(q) = k
        BY <1>2, <3>1
      <3>3. i \in Int /\ Len(q) \in Int /\ k \in Int
        OBVIOUS
      <3> QED  BY <1>2, <3>2, <3>3
    <2> QED  BY <2>1, <2>2
  <1> HIDE DEF p, h
  <1>3. Follows(p, r, u, n, ts, c)
    BY <1>1, <1>2 DEF Follows
  <1> QED  BY <1>3 DEF p

\* Reading a line that gives somebody else's nick, or none.
LEMMA FollowsRead ==
    ASSUME NEW q \in Seq(Line), q # <<>>, NEW u, ~Calls(Head(q), u),
           NEW r, NEW n, NEW ts, NEW c, Follows(q, r, u, n, ts, c)
    PROVE  Follows(Tail(q), r, u, n, ts, c)
  <1> DEFINE p == Tail(q)
  <1>1. ASSUME NEW i \in DOMAIN p, Calls(p[i], u),
               \A j \in DOMAIN p : j > i => ~Calls(p[j], u)
        PROVE  p[i].nick = n /\ (p[i].cmd = "NICK" => p[i].ts = ts)
    <2>1. i + 1 \in DOMAIN q /\ p[i] = q[i + 1] /\ i \in Nat
      BY Behead
    <2>2. ASSUME NEW j \in DOMAIN q, j > i + 1 PROVE ~Calls(q[j], u)
      <3>1. j \in Nat /\ j # 1
        BY <2>1, <2>2, Behead
      <3>2. j - 1 \in DOMAIN p /\ p[j - 1] = q[j] /\ j - 1 > i
        BY <2>1, <2>2, <3>1, Behead
      <3> QED  BY <1>1, <3>2
    <2> QED  BY <1>1, <2>1, <2>2 DEF Follows
  <1>2. ASSUME \A i \in DOMAIN p : ~Calls(p[i], u)
        PROVE  \A i \in DOMAIN q : ~Calls(q[i], u)
    <2> SUFFICES ASSUME NEW i \in DOMAIN q PROVE ~Calls(q[i], u)
      OBVIOUS
    <2>1. CASE i = 1
      BY <2>1, Behead
    <2>2. CASE i # 1
      <3>1. i - 1 \in DOMAIN p /\ p[i - 1] = q[i]
        BY <2>2, Behead
      <3> QED  BY <1>2, <3>1
    <2> QED  BY <2>1, <2>2
  <1> HIDE DEF p
  <1>3. Follows(p, r, u, n, ts, c)
    BY <1>1, <1>2 DEF Follows
  <1> QED  BY <1>3 DEF p

\* Reading a line that gives u's nick: the peer adopts it or falls back to the
\* uuid, or asks u to give it up; or an introduction is still to come.
LEMMA FollowsHeard ==
    ASSUME NEW q \in Seq(Line), q # <<>>, NEW u, Calls(Head(q), u),
           NEW r, NEW n, NEW ts, NEW c, Follows(q, r, u, n, ts, c),
           NEW p, NEW d,
           \/ d \in {Head(q).nick, u}
           \/ /\ Head(q).cmd = "NICK"
              /\ \E k \in DOMAIN p : p[k] = SAVELine(u, Head(q).ts)
           \/ Says(Tail(q), "UID", u)
    PROVE  Follows(Tail(q), p, u, n, ts, d)
  <1> DEFINE x == Tail(q)
  <1>1. ASSUME NEW i \in DOMAIN x, Calls(x[i], u),
               \A j \in DOMAIN x : j > i => ~Calls(x[j], u)
        PROVE  x[i].nick = n /\ (x[i].cmd = "NICK" => x[i].ts = ts)
    <2>1. i + 1 \in DOMAIN q /\ x[i] = q[i + 1] /\ i \in Nat
      BY Behead
    <2>2. ASSUME NEW j \in DOMAIN q, j > i + 1 PROVE ~Calls(q[j], u)
      <3>1. j \in Nat /\ j # 1
        BY <2>1, <2>2, Behead
      <3>2. j - 1 \in DOMAIN x /\ x[j - 1] = q[j] /\ j - 1 > i
        BY <2>1, <2>2, <3>1, Behead
      <3> QED  BY <1>1, <3>2
    <2> QED  BY <1>1, <2>1, <2>2 DEF Follows
  <1>2. ASSUME \A i \in DOMAIN x : ~Calls(x[i], u)
        PROVE  d \in {n, u} \/ \E k \in DOMAIN p : p[k] = SAVELine(u, ts)
    <2>1. 1 \in DOMAIN q /\ Calls(q[1], u) /\ Head(q) = q[1]
      BY Behead
    <2>2. ASSUME NEW j \in DOMAIN q, j > 1 PROVE ~Calls(q[j], u)
      <3>1. j - 1 \in DOMAIN x /\ x[j - 1] = q[j]
        BY <2>2, Behead
      <3> QED  BY <1>2, <3>1
    <2>3. q[1].nick = n /\ (q[1].cmd = "NICK" => q[1].ts = ts)
      BY <2>1, <2>2 DEF Follows
    <2>4. ~Says(x, "UID", u)
      BY <1>2 DEF Says, Calls
    <2> QED  BY <2>1, <2>3, <2>4
  <1> HIDE DEF x
  <1>3. Follows(x, p, u, n, ts, d)
    BY <1>1, <1>2 DEF Follows
  <1> QED  BY <1>3 DEF x

\* u's server reads a line of the peer other than the request that counts.
LEMMA FollowsAnswered ==
    ASSUME NEW r \in Seq(Line), r # <<>>, NEW q, NEW u, NEW n, NEW ts, NEW c,
           Follows(q, r, u, n, ts, c), Head(r) # SAVELine(u, ts)
    PROVE  Follows(q, Tail(r), u, n, ts, c)
  <1> DEFINE p == Tail(r)
  <1>1. ASSUME NEW k \in DOMAIN r, r[k] = SAVELine(u, ts)
        PROVE  \E j \in DOMAIN p : p[j] = SAVELine(u, ts)
    <2>1. k # 1
      BY <1>1, Behead
    <2>2. k - 1 \in DOMAIN p /\ p[k - 1] = r[k]
      BY <2>1, Behead
    <2> QED  BY <1>1, <2>2
  <1> HIDE DEF p
  <1>2. Follows(q, p, u, n, ts, c)
    BY <1>1 DEF Follows
  <1> QED  BY <1>2 DEF p

-----------------------------------------------------------------------------
(* The inductive invariant                                                  *)

Open(s, t) == link[s][t] # "none" /\ link[t][s] # "none"

Known(s, u) == remote_users[s][u].via = Home[u]

\* What is on its way from a user's server fits what the peer knows of the user.
Tracked ==
    \A s \in Server, u \in User : LET t == Home[u] IN
        s # t /\ Open(s, t) =>
            Tracks(net[t][s], u, Known(s, u), link[t][s] = "up", users[u].phase)

\* ... and what the peer calls it.
Followed ==
    \A s \in Server, u \in User : LET t == Home[u] IN
        s # t /\ Open(s, t) /\ link[t][s] = "up" /\ users[u].phase = "reg" =>
            Follows(net[t][s], net[s][t], u, users[u].nick, users[u].nick_ts,
                    remote_users[s][u].nick)

\* A user that is reached through no link is not in the map at all.
Forgotten ==
    \A s \in Server, u \in User :
        remote_users[s][u].via = None => remote_users[s][u] = Absent

-----------------------------------------------------------------------------
(* What a step does with a user                                             *)

\* u's server renames it and writes to y: the news first, then nothing of u.
RenameStep(u, n, o, y) ==
    \E ts \in Stamp, rest \in Seq(Line) :
        /\ users'[u].phase = users[u].phase
        /\ users'[u].nick = n /\ users'[u].nick_ts = now
        /\ NickNews(u, n, ts)[y] \in Seq(Line)
        /\ o = NickNews(u, n, ts)[y] \o rest
        /\ Clear(rest, u)

RegisterStep(u, o, y) ==
    /\ users[u].phase = "named" /\ users'[u].phase = "reg"
    /\ users'[u].nick = users[u].nick /\ users'[u].nick_ts = users[u].nick_ts
    /\ o = propagate(Home[u], None, <<uid_line(u)>>)[y]

\* u's server takes a step and writes o to y: u is left alone, still registering,
\* renamed, registered or removed.
OwnStep(u, o, y) ==
    \/ users'[u] = users[u] /\ Clear(o, u)
    \/ /\ users[u].phase \notin {"reg", "gone"}
       /\ users'[u].phase \notin {"reg", "gone"}
       /\ Clear(o, u)
    \/ \E n \in Nick : RenameStep(u, n, o, y)
    \/ RegisterStep(u, o, y)
    \/ Connected(u) /\ users'[u].phase = "gone" /\ o = QuitNews(u)[y]

\* s reads m from v, answers o, and its copy of u changes with it.
CopyStep(s, v, u, m, o) ==
    LET c == remote_users[s][u]
        d == remote_users'[s][u]
        learns == Bears(m, "UID", u) /\ Home[u] = v /\ c.via # v
        forgets == Bears(m, "QUIT", u) /\ c.via = v
        hears == Bears(m, "NICK", u) /\ c.via = v
    IN  /\ d.via = None => d \in {c, Absent}
        /\ learns => d.via = v /\ d.nick \in {m.nick, u}
        /\ forgets => d.via # v
        /\ hears => /\ d.via = v
                    /\ \/ d.nick = m.nick
                       \/ \E k \in DOMAIN o : o[k] = SAVELine(u, m.ts)
        /\ ~learns /\ ~forgets /\ ~hears =>
              d.via = c.via /\ d.nick \in {c.nick, u}

\* s reads the first line from v: what happens to its users, to its copies, and
\* to a user that a SAVE is about.
Reads(s, v) ==
    \E out \in Outs :
        /\ Receive(s, v, out)
        /\ \A u \in User : Home[u] # s => users'[u] = users[u]
        /\ \A u \in User, y \in Server : Home[u] = s => OwnStep(u, out[y], y)
        /\ \A u \in User, y \in Server :
              /\ Home[u] = s /\ users[u].phase = "reg"
              /\ Head(net[v][s]) = SAVELine(u, users[u].nick_ts)
              => RenameStep(u, u, out[y], y)
        /\ \A x \in Server : x # s => remote_users'[x] = remote_users[x]
        /\ \A u \in User : CopyStep(s, v, u, Head(net[v][s]), out[v])

\* Lines that are about nobody's introduction, nick or departure, or not about u.
LEMMA ClearLines ==
    /\ \A u : Clear(<<>>, u)
    /\ \A u : \A m : m.cmd \notin {"UID", "NICK", "QUIT"} => Clear(<<m>>, u)
    /\ \A u : \A m : m.u # u => Clear(<<m>>, u)
  BY DEF Clear, Calls, Bears

LEMMA ClearTogether ==
    ASSUME NEW u, NEW o1 \in Seq(Line), NEW o2 \in Seq(Line),
           Clear(o1, u), Clear(o2, u)
    PROVE  Clear(o1 \o o2, u)
  <1> SUFFICES ASSUME NEW i \in DOMAIN (o1 \o o2)
               PROVE  /\ ~Calls((o1 \o o2)[i], u)
                      /\ ~Bears((o1 \o o2)[i], "QUIT", u)
    BY DEF Clear
  <1>1. CASE i \in DOMAIN o1
    BY <1>1, Appended DEF Clear
  <1>2. CASE i \notin DOMAIN o1
    <2>1. i - Len(o1) \in DOMAIN o2 /\ (o1 \o o2)[i] = o2[i - Len(o1)]
      BY <1>2, Appended
    <2> QED  BY <2>1 DEF Clear
  <1> QED  BY <1>1, <1>2

\* Fan-outs whose every line is clear of u.
ClearOut(out, u) == \A y \in Server : Clear(out[y], u)

LEMMA ClearOuts ==
    ASSUME NEW u
    PROVE  /\ ClearOut(Nothing, u)
           /\ \A o1, o2 \in Outs : ClearOut(o1, u) /\ ClearOut(o2, u) =>
                 ClearOut(Both(o1, o2), u)
           /\ \A v \in Server : \A q : Clear(q, u) => ClearOut(link_out(v, q), u)
           /\ \A s \in Server : \A v, q : Clear(q, u) =>
                 ClearOut(propagate(s, v, q), u)
  <1>1. Clear(<<>>, u)
    BY ClearLines
  <1>2. ASSUME NEW o1 \in Outs, NEW o2 \in Outs, ClearOut(o1, u), ClearOut(o2, u)
        PROVE  ClearOut(Both(o1, o2), u)
    <2> SUFFICES ASSUME NEW y \in Server PROVE Clear(Both(o1, o2)[y], u)
      BY DEF ClearOut
    <2>1. Both(o1, o2)[y] = o1[y] \o o2[y] /\ o1[y] \in Seq(Line)
          /\ o2[y] \in Seq(Line)
      BY DEF Both, Outs
    <2>2. Clear(o1[y], u) /\ Clear(o2[y], u)
      BY <1>2 DEF ClearOut
    <2> QED  BY <2>1, <2>2, ClearTogether
  <1> QED  BY <1>1, <1>2 DEF ClearOut, Nothing, link_out, propagate

\* The two resolvers send SAVE requests, and the news of the local user that
\* yields before them; the incoming user that lost is sent one.
LEMMA CollisionLines ==
    ASSUME LocalOK, RemoteOK, now \in Time,
           NEW s \in Server, NEW v \in Server, NEW u \in User, NEW n \in Nick,
           NEW k \in Nick, NEW ts \in Time, NEW stamp \in Stamp,
           NEW e, e = None \/ e = remote_nick[s][k],
           NEW fwd \in Outs,
           \A w \in User : Home[w] = s => ClearOut(fwd, w),
           LET l  == find_nick(s, n)
               lv == LocalVerdict(l, u, ts)
           IN  yield_local(l, lv, stamp)
    PROVE  LET l  == find_nick(s, n)
               lv == LocalVerdict(l, u, ts)
               rv == RemoteVerdict(s, e, u, ts)
               out == Both(CollisionNews(v, l, lv, u, ts, stamp),
                      Both(RemoteCollisionNews(s, v, e, rv, u, ts), fwd))
           IN  /\ out \in Outs
               /\ \A w \in User : Home[w] # s => users'[w] = users[w]
               /\ \A w \in User, y \in Server :
                     Home[w] = s => OwnStep(w, out[y], y)
               /\ lv[2] \/ rv[2] =>
                     \E i \in DOMAIN out[v] : out[v][i] = SAVELine(u, ts)
  <1> DEFINE l  == find_nick(s, n)
             lv == LocalVerdict(l, u, ts)
             rv == RemoteVerdict(s, e, u, ts)
             yields == IF lv[1] THEN NickNews(l, l, stamp) ELSE Nothing
             asks == IF lv[2] THEN link_out(v, <<SAVELine(u, ts)>>) ELSE Nothing
             saves == RemoteCollisionNews(s, v, e, rv, u, ts)
             col == CollisionNews(v, l, lv, u, ts, stamp)
             out == Both(col, Both(saves, fwd))
  <1>1. col \in Outs /\ saves \in Outs
    BY ArbitrationNews
  <1>2. col = Both(yields, asks)
    BY DEF CollisionNews
  <1>3. lv[1] => l \in User /\ Home[l] = s /\ Connected(l)
    <2>1. l = None => ~lv[1]
      BY DEF LocalVerdict
    <2>2. l # None => l \in User /\ Home[l] = s /\ Connected(l)
      BY Holder
    <2> HIDE DEF l, lv
    <2> QED  BY <2>1, <2>2
  <1>4. stamp \in Time
    BY StampType
  <1>5. yields \in Outs /\ asks \in Outs
    <2>1. lv[1] => NickNews(l, l, stamp) \in Outs
      BY <1>3, <1>4, NewsTypes
    <2>2. <<SAVELine(u, ts)>> \in Seq(Line)
      BY LineTypes
    <2> QED  BY <2>1, <2>2, OutTypes
  <1>6. \A w : ClearOut(asks, w) /\ ClearOut(saves, w)
    <2> TAKE w
    <2>1. Clear(<<SAVELine(u, ts)>>, w)
          /\ Clear(<<SAVELine(e, remote_users[s][e].nick_ts)>>, w)
      BY ClearLines DEF SAVELine
    <2>2. ClearOut(asks, w)
      BY <2>1, ClearOuts
    <2> DEFINE o1 == IF rv[1] THEN propagate(s, None,
                               <<SAVELine(e, remote_users[s][e].nick_ts)>>)
                     ELSE Nothing
               o2 == IF rv[2] THEN link_out(v, <<SAVELine(u, ts)>>) ELSE Nothing
    <2>3. saves = Both(o1, o2)
      BY DEF RemoteCollisionNews
    <2>4. ClearOut(o1, w) /\ ClearOut(o2, w)
      BY <2>1, ClearOuts
    <2>5. o1 \in Outs /\ o2 \in Outs
      <3>1. <<SAVELine(u, ts)>> \in Seq(Line)
        BY LineTypes
      <3>2. rv[1] => <<SAVELine(e, remote_users[s][e].nick_ts)>> \in Seq(Line)
        <4>1. e = None => ~rv[1]
          BY DEF RemoteVerdict
        <4>2. e \in User \cup {None}
          BY DEF RemoteOK, Table
        <4>3. e \in User => remote_users[s][e].nick_ts \in Time
          BY DEF RemoteOK, RemoteRec
        <4>4. e \in User =>
                 SAVELine(e, remote_users[s][e].nick_ts) \in Line
          BY <4>3, LineTypes
        <4> HIDE DEF rv
        <4> QED  BY <4>1, <4>2, <4>4
      <3> QED  BY <3>1, <3>2, OutTypes
    <2> HIDE DEF o1, o2, saves
    <2> QED  BY <2>2, <2>3, <2>4, <2>5, ClearOuts
  <1> HIDE DEF saves, col, asks, rv
  <1>7. Both(saves, fwd) \in Outs /\ out \in Outs
    BY <1>1, OutTypes
  \* each queue: the news, then what is clear
  <1> DEFINE rest(y) == asks[y] \o (saves[y] \o fwd[y])
  <1>8. ASSUME NEW y \in Server
        PROVE  /\ out[y] = yields[y] \o rest(y)
               /\ yields[y] \in Seq(Line) /\ rest(y) \in Seq(Line)
               /\ \A w \in User : Home[w] = s => Clear(rest(y), w)
    <2>1. /\ yields[y] \in Seq(Line) /\ asks[y] \in Seq(Line)
          /\ saves[y] \in Seq(Line) /\ fwd[y] \in Seq(Line)
      BY <1>1, <1>5 DEF Outs
    <2> HIDE DEF yields
    <2>2. saves[y] \o fwd[y] \in Seq(Line)
      BY <2>1
    <2>3. out[y] = (yields[y] \o asks[y]) \o (saves[y] \o fwd[y])
      BY <1>2 DEF Both
    <2>4. (yields[y] \o asks[y]) \o (saves[y] \o fwd[y])
             = yields[y] \o (asks[y] \o (saves[y] \o fwd[y]))
      BY <2>1, <2>2, LinesTogether
    <2>5. ASSUME NEW w \in User, Home[w] = s PROVE Clear(rest(y), w)
      <3>1. Clear(asks[y], w) /\ Clear(saves[y], w) /\ Clear(fwd[y], w)
        BY <1>6, <2>5 DEF ClearOut
      <3> QED  BY <2>1, <2>2, <3>1, ClearTogether
    <2> QED  BY <2>1, <2>2, <2>3, <2>4, <2>5
  <1>9. ASSUME NEW w \in User, Home[w] # s PROVE users'[w] = users[w]
    BY <1>3, <1>9 DEF yield_local, set_nick, Renamed, LocalOK
  <1>10. ASSUME NEW w \in User, Home[w] = s, NEW y \in Server
         PROVE  OwnStep(w, out[y], y)
    <2>1. CASE lv[1] /\ w = l
      <3>1. users' = [users EXCEPT ![w].nick = w, ![w].nick_ts = now]
        BY <2>1 DEF yield_local, set_nick, Renamed
      <3>2. /\ users'[w].phase = users[w].phase
            /\ users'[w].nick = w /\ users'[w].nick_ts = now
        BY <3>1 DEF LocalOK, UserRec
      <3>3. yields[y] = NickNews(w, w, stamp)[y]
        BY <2>1
      <3>4. Clear(rest(y), w) /\ rest(y) \in Seq(Line)
            /\ out[y] = yields[y] \o rest(y) /\ yields[y] \in Seq(Line)
        BY <1>8, <1>10
      <3> HIDE DEF out, rest, yields
      <3>5. RenameStep(w, w, out[y], y)
        BY <3>2, <3>3, <3>4 DEF RenameStep
      <3> QED  BY <3>5 DEF OwnStep, Nick
    <2>2. CASE ~(lv[1] /\ w = l)
      <3>1. users'[w] = users[w]
        BY <1>3, <2>2 DEF yield_local, set_nick, Renamed, LocalOK
      <3>2. Clear(yields[y], w)
        <4>1. CASE lv[1]
          <5>1. Clear(<<NICKLine(l, l, stamp)>>, w)
            BY <2>2, <4>1, ClearLines DEF NICKLine
          <5>2. Home[l] \in Server
            BY <1>3, <4>1
          <5>3. ClearOut(NickNews(l, l, stamp), w)
            BY <5>1, <5>2, ClearOuts DEF NickNews
          <5> QED  BY <4>1, <5>3 DEF ClearOut
        <4>2. CASE ~lv[1]
          BY <4>2, ClearLines DEF Nothing
        <4> QED  BY <4>1, <4>2
      <3>3. Clear(rest(y), w) /\ rest(y) \in Seq(Line)
            /\ out[y] = yields[y] \o rest(y) /\ yields[y] \in Seq(Line)
        BY <1>8, <1>10
      <3> HIDE DEF out, rest, yields
      <3> QED  BY <3>1, <3>2, <3>3, ClearTogether DEF OwnStep
    <2> QED  BY <2>1, <2>2
  <1>11. ASSUME lv[2] \/ rv[2]
         PROVE  \E i \in DOMAIN out[v] : out[v][i] = SAVELine(u, ts)
    <2> DEFINE m == SAVELine(u, ts)
    <2>0. /\ yields[v] \in Seq(Line) /\ asks[v] \in Seq(Line)
          /\ saves[v] \in Seq(Line) /\ fwd[v] \in Seq(Line)
      BY <1>1, <1>5 DEF Outs
    <2>1. out[v] = yields[v] \o (asks[v] \o (saves[v] \o fwd[v]))
      BY <1>8
    <2>2. lv[2] => asks[v] = <<m>>
      BY DEF asks, link_out
    <2>3. rv[2] => \E i \in DOMAIN saves[v] : saves[v][i] = m
      <3> DEFINE o1 == IF rv[1] THEN propagate(s, None,
                               <<SAVELine(e, remote_users[s][e].nick_ts)>>)
                       ELSE Nothing
      <3>1. rv[2] => saves[v] = o1[v] \o <<m>>
        BY DEF saves, rv, RemoteCollisionNews, Both, link_out
      <3>2. o1[v] = <<>> \/ o1[v] = <<SAVELine(e, remote_users[s][e].nick_ts)>>
        BY DEF propagate, Nothing
      <3> HIDE DEF o1, m
      <3> QED  BY <3>1, <3>2
    <2> HIDE DEF m, out, yields
    <2>4. \E i \in DOMAIN (asks[v] \o (saves[v] \o fwd[v])) :
             (asks[v] \o (saves[v] \o fwd[v]))[i] = m
      <3>1. CASE lv[2]
        <4>1. 1 \in DOMAIN asks[v] /\ asks[v][1] = m
          BY <2>2, <3>1
        <4> DEFINE p == saves[v] \o fwd[v]
        <4>2. p \in Seq(Line)
          BY <2>0
        <4> HIDE DEF p
        <4>3. 1 \in DOMAIN (asks[v] \o p) /\ (asks[v] \o p)[1] = m
          BY <2>0, <4>1, <4>2, Appended
        <4> QED  BY <4>3 DEF p
      <3>2. CASE rv[2]
        <4>1. PICK i \in DOMAIN saves[v] : saves[v][i] = m
          BY <2>3, <3>2
        <4> DEFINE p == saves[v] \o fwd[v]
        <4>2. i \in DOMAIN p /\ p[i] = m /\ p \in Seq(Line)
          BY <2>0, <4>1, Appended
        <4> HIDE DEF p
        <4>3. Len(asks[v]) + i \in DOMAIN (asks[v] \o p)
              /\ (asks[v] \o p)[Len(asks[v]) + i] = m
          BY <2>0, <4>2, Appended
        <4> QED  BY <4>3 DEF p
      <3> QED  BY <1>11, <3>1, <3>2
    <2> DEFINE p == asks[v] \o (saves[v] \o fwd[v])
    <2>5. p \in Seq(Line)
      BY <2>0
    <2>6. PICK i \in DOMAIN p : p[i] = m
      BY <2>4
    <2> HIDE DEF p
    <2>7. Len(yields[v]) + i \in DOMAIN (yields[v] \o p)
          /\ (yields[v] \o p)[Len(yields[v]) + i] = m
      BY <2>0, <2>5, <2>6, Appended
    <2> QED  BY <2>1, <2>7 DEF p, m
  <1> QED  BY <1>7, <1>9, <1>10, <1>11 DEF rv, saves, col

\* save_remote_user renames a copy to its uuid at most.
LEMMA SavedCopies ==
    ASSUME RemoteOK, NEW s \in Server, NEW u \in User, NEW n \in Nick,
           n \in Name \cup {u}, NEW ts \in Time,
           NEW e, e = None \/ e = remote_nick[s][n], NEW w \in User
    PROVE  LET d == Saved(s, e, RemoteVerdict(s, e, u, ts))[w]
               c == remote_users[s][w]
           IN  /\ d.via = c.via /\ d.nick \in {c.nick, w}
               /\ d.via = None => d = c
               /\ w = u => d = c
  <1> DEFINE rv == RemoteVerdict(s, e, u, ts)
             d == Saved(s, e, rv)[w]
             c == remote_users[s][w]
  <1>0. SideOK(remote_users[s], remote_nick[s])
    BY DEF RemoteOK
  <1>1. d.via = c.via /\ (w = u => d = c)
    BY SaveRemote
  <1>2. CASE rv[1] /\ e = w
    <2>1. e # None
      BY <1>2, NoneApart
    <2>2. c.nick = n
      BY <1>0, <1>2, <2>1 DEF SideOK, Table, Indexes, NickOf
    <2>3. c.via # None
      BY <1>0, <2>2, NoneApart DEF SideOK
    <2>4. d = [c EXCEPT !.nick = w]
      BY <1>0, <1>2 DEF Saved, SideOK
    <2>5. c \in RemoteRec
      BY <1>0 DEF SideOK
    <2> QED  BY <1>1, <2>3, <2>4, <2>5 DEF RemoteRec
  <1>3. CASE ~(rv[1] /\ e = w)
    <2>1. d = c
      BY <1>0, <1>3 DEF Saved, SideOK
    <2> QED  BY <1>1, <2>1
  <1> QED  BY <1>2, <1>3

\* A line that is ignored, and rightly so.
LEMMA DiscardReads ==
    ASSUME IInv, NEW s \in Server, NEW v \in Server, Discard(s, v),
           LET m == Head(net[v][s])
           IN  \A u \in User :
                  /\ ~(Bears(m, "UID", u) /\ Home[u] = v
                       /\ remote_users[s][u].via # v)
                  /\ ~(Bears(m, "QUIT", u) /\ remote_users[s][u].via = v)
                  /\ ~(Bears(m, "NICK", u) /\ remote_users[s][u].via = v)
                  /\ ~(/\ Home[u] = s /\ users[u].phase = "reg"
                       /\ m = SAVELine(u, users[u].nick_ts))
    PROVE  Reads(s, v)
  <1>1. Nothing \in Outs /\ Receive(s, v, Nothing)
        /\ users' = users /\ remote_users' = remote_users
    BY OutTypes DEF Discard
  <1>2. ASSUME NEW u \in User, NEW y \in Server PROVE OwnStep(u, Nothing[y], y)
    BY <1>1, ClearLines DEF OwnStep, Nothing
  <1>3. ASSUME NEW u \in User
        PROVE  CopyStep(s, v, u, Head(net[v][s]), Nothing[v])
    BY <1>1 DEF CopyStep
  <1>4. \A u \in User, y \in Server :
           /\ Home[u] = s /\ users[u].phase = "reg"
           /\ Head(net[v][s]) = SAVELine(u, users[u].nick_ts)
           => RenameStep(u, u, Nothing[y], y)
    OBVIOUS
  <1> QED  BY <1>1, <1>2, <1>3, <1>4 DEF Reads

\* link_uid_recv: the newcomer is learnt under the nick it brings or its uuid.
LEMMA UidReads ==
    ASSUME IInv, Forgotten, NEW s \in Server, NEW v \in Server,
           link_uid_recv(s, v)
    PROVE  Reads(s, v)
  <1> USE DEF IInv
  <1> DEFINE m == Head(net[v][s])
  <1>1. /\ m \in Line /\ m.cmd = "UID" /\ net[v][s] # <<>> /\ v # s
        /\ link[s][v] = "up"
    BY FirstLine DEF link_uid_recv, First
  <1>2. /\ m.u \in User /\ m.ts \in Time
        /\ m.nick \in Name \cup {m.u} /\ m.nick \in Nick
    BY <1>1, LineFields
  <1> DEFINE u == m.u
             ts == m.ts
             l  == find_nick(s, m.nick)
             lv == LocalVerdict(l, u, ts)
             n1 == IF lv[2] THEN u ELSE m.nick
             e  == remote_nick[s][n1]
             rv == RemoteVerdict(s, e, u, ts)
             n2 == IF rv[2] THEN u ELSE n1
             copies == Saved(s, e, rv)
             rec == [nick |-> n2, nick_ts |-> ts, via |-> v]
             fwd == propagate(s, v, <<UIDLine(u, n2, ts)>>)
  <1>3. CASE ~server_behind(s, Home[u], v) \/ remote_users[s][u] # Absent
    <2>1. Discard(s, v)
      BY <1>3 DEF link_uid_recv
    <2>2. ASSUME Home[u] = v, remote_users[s][u].via # v PROVE FALSE
      <3>1. server_behind(s, Home[u], v)
        BY <1>1, <2>2 DEF server_behind
      <3>2. remote_users[s][u].via = None
        BY <1>2, <2>2 DEF NoRoutingGhost
      <3> QED  BY <1>2, <1>3, <3>1, <3>2 DEF Forgotten
    <2>3. \A w \in User, cmd \in {"QUIT", "NICK"} : ~Bears(m, cmd, w)
      BY <1>1 DEF Bears
    <2>4. \A w \in User : m # SAVELine(w, users[w].nick_ts)
      BY <1>1 DEF SAVELine
    <2>5. \A w \in User : Bears(m, "UID", w) => w = u
      BY DEF Bears
    <2> HIDE DEF m
    <2> QED  BY <2>1, <2>2, <2>3, <2>4, <2>5, DiscardReads DEF m
  <1>4. CASE server_behind(s, Home[u], v) /\ remote_users[s][u] = Absent
    <2>1. PICK stamp \in Stamp :
             /\ yield_local(l, lv, stamp)
             /\ remote_users' = [remote_users EXCEPT ![s] =
                                    [copies EXCEPT ![u] = rec]]
             /\ Receive(s, v,
                   Both(CollisionNews(v, l, lv, u, ts, stamp),
                   Both(RemoteCollisionNews(s, v, e, rv, u, ts), fwd)))
      BY <1>4 DEF link_uid_recv
    <2> DEFINE out == Both(CollisionNews(v, l, lv, u, ts, stamp),
                      Both(RemoteCollisionNews(s, v, e, rv, u, ts), fwd))
    <2>2. Home[u] = v /\ Home[u] # s
      BY <1>1, <1>4 DEF server_behind
    <2>3. /\ n1 \in Name \cup {u} /\ n1 \in Nick
          /\ n2 \in Name \cup {u} /\ n2 \in {m.nick, u}
      BY <1>2 DEF Nick
    <2>0. /\ u \in User /\ ts \in Time /\ e = remote_nick[s][n1]
          /\ m.nick \in Nick /\ u = m.u /\ m.cmd = "UID"
      BY <1>1, <1>2
    <2> HIDE DEF m, u, ts, n1, e, n2
    <2>4. fwd \in Outs
      <3>1. UIDLine(u, n2, ts) \in Line
        BY <2>0, <2>3, LineTypes
      <3>2. <<UIDLine(u, n2, ts)>> \in Seq(Line)
        BY <3>1
      <3> QED  BY <3>2, OutTypes
    <2>5. \A w \in User : Home[w] = s => ClearOut(fwd, w)
      <3> SUFFICES ASSUME NEW w \in User, Home[w] = s PROVE ClearOut(fwd, w)
        OBVIOUS
      <3>1. UIDLine(u, n2, ts).u # w
        BY <2>2 DEF UIDLine
      <3>2. Clear(<<UIDLine(u, n2, ts)>>, w)
        BY <3>1, ClearLines
      <3> QED  BY <3>2, ClearOuts
    <2>6. now \in Time
      BY DEF CountersOK
    <2> HIDE DEF fwd
    <2>7. /\ out \in Outs
          /\ \A w \in User : Home[w] # s => users'[w] = users[w]
          /\ \A w \in User, y \in Server : Home[w] = s => OwnStep(w, out[y], y)
      BY <2>0, <2>1, <2>3, <2>4, <2>5, <2>6, CollisionLines
    <2>8. ASSUME NEW w \in User
          PROVE  LET d == copies[w]
                     c == remote_users[s][w]
                 IN  /\ d.via = c.via /\ d.nick \in {c.nick, w}
                     /\ d.via = None => d = c
      BY <2>0, <2>3, SavedCopies
    <2>9. copies \in [User -> RemoteRec]
      <3>1. SideOK(copies, SavedIndex(s, e, rv))
        BY <2>0, <2>3, SaveRemote
      <3> QED  BY <3>1 DEF SideOK
    <2>10. rec.via = v /\ rec.nick = n2
      OBVIOUS
    <2>11. remote_users \in [Server -> [User -> RemoteRec]]
      BY DEF RemoteOK
    <2> HIDE DEF copies, rec, out
    <2>12. ASSUME NEW w \in User
           PROVE  CopyStep(s, v, w, m, out[v])
      <3>1. CASE w = u
        <4>1. remote_users'[s][w] = rec /\ remote_users[s][w].via = None
          BY <2>0, <1>4, <2>1, <2>9, <2>11, <3>1 DEF Absent
        <4>2. Bears(m, "UID", w) /\ Home[w] = v /\ ~Bears(m, "QUIT", w)
              /\ ~Bears(m, "NICK", w)
          BY <2>0, <2>2, <3>1 DEF Bears
        <4>3. None # v
          BY NoneApart
        <4> QED  BY <2>3, <2>10, <3>1, <4>1, <4>2, <4>3 DEF CopyStep
      <3>2. CASE w # u
        <4>1. remote_users'[s][w] = copies[w]
          BY <2>1, <2>9, <2>11, <3>2
        <4>2. \A cmd : ~Bears(m, cmd, w)
          BY <2>0, <3>2 DEF Bears
        <4> QED  BY <2>8, <4>1, <4>2 DEF CopyStep
      <3> QED  BY <3>1, <3>2
    <2>13. \A w \in User : m # SAVELine(w, users[w].nick_ts)
      BY <2>0 DEF SAVELine
    <2>14. \A x \in Server : x # s => remote_users'[x] = remote_users[x]
      BY <2>1, <2>11
    <2>15. Receive(s, v, out)
      BY <2>1 DEF out
    <2> QED  BY <2>7, <2>12, <2>13, <2>14, <2>15 DEF Reads, m
  <1> QED  BY <1>3, <1>4

\* link_nick_recv: the change is adopted, or the changer is asked to give it up.
LEMMA NickReads ==
    ASSUME IInv, NEW s \in Server, NEW v \in Server, link_nick_recv(s, v)
    PROVE  Reads(s, v)
  <1> USE DEF IInv
  <1> DEFINE m == Head(net[v][s])
  <1>1. /\ m \in Line /\ m.cmd = "NICK" /\ net[v][s] # <<>> /\ v # s
        /\ link[s][v] = "up"
    BY FirstLine DEF link_nick_recv, First
  <1>2. /\ m.u \in User /\ m.ts \in Time
        /\ m.nick \in Name \cup {m.u} /\ m.nick \in Nick
    BY <1>1, LineFields
  <1> DEFINE u == m.u
             ts == m.ts
             n == m.nick
             l  == find_nick(s, n)
             lv == LocalVerdict(l, u, ts)
             e  == IF lv[2] THEN None ELSE remote_nick[s][n]
             rv == RemoteVerdict(s, e, u, ts)
             lost == lv[2] \/ rv[2]
             copies == Saved(s, e, rv)
             copies2 == IF lost THEN copies
                        ELSE [copies EXCEPT ![u].nick = n, ![u].nick_ts = ts]
             fwd == IF lost THEN Nothing ELSE propagate(s, v, <<m>>)
  <1>3. CASE ~sourced_via(s, u, v)
    <2>1. Discard(s, v)
      BY <1>3 DEF link_nick_recv
    <2>2. \A w \in User, cmd \in {"QUIT", "UID"} : ~Bears(m, cmd, w)
      BY <1>1 DEF Bears
    <2>3. \A w \in User : m # SAVELine(w, users[w].nick_ts)
      BY <1>1 DEF SAVELine
    <2>4. \A w \in User : Bears(m, "NICK", w) => remote_users[s][w].via # v
      BY <1>3 DEF Bears, sourced_via
    <2> HIDE DEF m
    <2> QED  BY <2>1, <2>2, <2>3, <2>4, DiscardReads DEF m
  <1>4. CASE sourced_via(s, u, v)
    <2>1. PICK stamp \in Stamp :
             /\ yield_local(l, lv, stamp)
             /\ remote_users' = [remote_users EXCEPT ![s] = copies2]
             /\ Receive(s, v,
                   Both(CollisionNews(v, l, lv, u, ts, stamp),
                   Both(RemoteCollisionNews(s, v, e, rv, u, ts), fwd)))
      BY <1>4 DEF link_nick_recv
    <2> DEFINE out == Both(CollisionNews(v, l, lv, u, ts, stamp),
                      Both(RemoteCollisionNews(s, v, e, rv, u, ts), fwd))
    <2>2. /\ remote_users[s][u].via = v
          /\ Home[u] = v /\ Home[u] # s
      BY <1>1, <1>2, <1>4, NoneApart DEF sourced_via, NoRoutingGhost
    <2>0. /\ u \in User /\ ts \in Time /\ n \in Nick /\ n \in Name \cup {u}
          /\ e = None \/ e = remote_nick[s][n]
          /\ u = m.u /\ m.cmd = "NICK" /\ n = m.nick /\ ts = m.ts /\ m \in Line
      BY <1>1, <1>2
    <2> HIDE DEF m, u, ts, n, e
    <2>4. fwd \in Outs
      <3>1. <<m>> \in Seq(Line)
        BY <2>0
      <3> QED  BY <3>1, OutTypes
    <2>5. \A w \in User : Home[w] = s => ClearOut(fwd, w)
      <3> SUFFICES ASSUME NEW w \in User, Home[w] = s PROVE ClearOut(fwd, w)
        OBVIOUS
      <3>1. m.u # w
        BY <2>0, <2>2
      <3>2. Clear(<<m>>, w)
        BY <3>1, ClearLines
      <3> QED  BY <3>2, ClearOuts
    <2>6. now \in Time
      BY DEF CountersOK
    <2> HIDE DEF fwd
    <2>7. /\ out \in Outs
          /\ \A w \in User : Home[w] # s => users'[w] = users[w]
          /\ \A w \in User, y \in Server : Home[w] = s => OwnStep(w, out[y], y)
          /\ lv[2] \/ rv[2] =>
                \E i \in DOMAIN out[v] : out[v][i] = SAVELine(u, ts)
      BY <2>0, <2>1, <2>4, <2>5, <2>6, CollisionLines
    <2>8. ASSUME NEW w \in User
          PROVE  LET d == copies[w]
                     c == remote_users[s][w]
                 IN  /\ d.via = c.via /\ d.nick \in {c.nick, w}
                     /\ d.via = None => d = c
                     /\ w = u => d = c
      BY <2>0, SavedCopies
    <2>9. copies \in [User -> RemoteRec]
      <3>1. SideOK(copies, SavedIndex(s, e, rv))
        BY <2>0, SaveRemote
      <3> QED  BY <3>1 DEF SideOK
    <2>11. remote_users \in [Server -> [User -> RemoteRec]]
      BY DEF RemoteOK
    <2>10. lost => \E i \in DOMAIN out[v] : out[v][i] = SAVELine(u, ts)
      BY <2>7
    <2> HIDE DEF copies, out, lost
    <2>12. /\ \A w \in User : w # u => copies2[w] = copies[w]
           /\ lost => copies2[u] = copies[u]
           /\ ~lost => copies2[u].nick = n /\ copies2[u].via = v
      <3>1. copies[u] \in RemoteRec /\ copies[u].via = v
        BY <2>0, <2>2, <2>8, <2>9
      <3> DEFINE c == copies[u]
      <3> HIDE DEF c
      <3>4. c \in RemoteRec /\ c.via = v /\ n \in Nick /\ ts \in Time
        BY <2>0, <3>1 DEF c
      <3>5. [c EXCEPT !.nick = n, !.nick_ts = ts]
               = [nick |-> n, nick_ts |-> ts, via |-> c.via]
        BY <3>4, RenamedCopy
      <3>2. [copies[u] EXCEPT !.nick = n, !.nick_ts = ts]
               = [nick |-> n, nick_ts |-> ts, via |-> v]
        BY <3>4, <3>5 DEF c
      <3>3. ~lost => copies2[u] = [copies[u] EXCEPT !.nick = n, !.nick_ts = ts]
        BY <2>0, <2>9
      <3> QED  BY <2>0, <2>9, <3>2, <3>3
    <2>13. ASSUME NEW w \in User PROVE remote_users'[s][w] = copies2[w]
      BY <2>1, <2>11
    <2> HIDE DEF copies2
    <2>14. ASSUME NEW w \in User
           PROVE  CopyStep(s, v, w, m, out[v])
      <3>1. CASE w = u
        <4>1. Bears(m, "NICK", w) /\ ~Bears(m, "QUIT", w) /\ ~Bears(m, "UID", w)
          BY <2>0, <3>1 DEF Bears
        <4>2. v # None
          BY NoneApart
        <4>3. remote_users'[s][w].via = v
          BY <2>2, <2>8, <2>12, <2>13, <3>1
        <4>4. \/ remote_users'[s][w].nick = m.nick
              \/ \E i \in DOMAIN out[v] : out[v][i] = SAVELine(w, m.ts)
          BY <2>0, <2>10, <2>12, <2>13, <3>1
        <4>5. remote_users[s][w].via = v
          BY <2>2, <3>1
        <4> QED  BY <4>1, <4>2, <4>3, <4>4, <4>5 DEF CopyStep
      <3>2. CASE w # u
        <4>1. remote_users'[s][w] = copies[w]
          BY <2>12, <2>13, <3>2
        <4>2. \A cmd : ~Bears(m, cmd, w)
          BY <2>0, <3>2 DEF Bears
        <4> QED  BY <2>8, <4>1, <4>2 DEF CopyStep
      <3> QED  BY <3>1, <3>2
    <2>15. \A w \in User : m # SAVELine(w, users[w].nick_ts)
      BY <2>0 DEF SAVELine
    <2>16. \A x \in Server : x # s => remote_users'[x] = remote_users[x]
      BY <2>1, <2>11
    <2>17. Receive(s, v, out)
      BY <2>1 DEF out
    <2> QED  BY <2>7, <2>14, <2>15, <2>16, <2>17 DEF Reads, m
  <1> QED  BY <1>3, <1>4

\* link_save_recv: the user's own server renames it when the timestamp matches.
LEMMA SaveReads ==
    ASSUME IInv, NEW s \in Server, NEW v \in Server, link_save_recv(s, v)
    PROVE  Reads(s, v)
  <1> USE DEF IInv
  <1> DEFINE m == Head(net[v][s])
             w == link_toward(s, m.u)
  <1>1. m \in Line /\ m.cmd = "SAVE" /\ net[v][s] # <<>>
    BY FirstLine DEF link_save_recv
  <1>2. m.u \in User /\ m.ts \in Time
    BY <1>1, LineFields
  <1>3. \A z \in User : ~Bears(m, "UID", z) /\ ~Bears(m, "NICK", z)
                        /\ ~Bears(m, "QUIT", z)
    BY <1>1 DEF Bears
  <1>0. \A z \in User : m = SAVELine(z, users[z].nick_ts) =>
           m.u = z /\ m.ts = users[z].nick_ts
    BY DEF SAVELine
  <1>4. CASE Home[m.u] = s /\ Connected(m.u) /\ users[m.u].nick_ts = m.ts
    <2>1. PICK stamp \in Stamp :
             /\ set_nick(m.u, m.u, stamp)
             /\ Receive(s, v, NickNews(m.u, m.u, stamp))
             /\ UNCHANGED <<remote_users, remote_nick>>
      BY <1>4 DEF link_save_recv
    <2> DEFINE u == m.u
               out == NickNews(u, u, stamp)
    <2>2. u \in User /\ stamp \in Time /\ u \in Nick /\ Home[u] = s
      BY <1>2, <1>4, StampType DEF CountersOK, Nick
    <2>3. out \in Outs
      BY <2>2, NewsTypes
    <2>4. /\ \A z \in User : z # u => users'[z] = users[z]
          /\ users'[u].phase = users[u].phase
          /\ users'[u].nick = u /\ users'[u].nick_ts = now
      <3>1. users' = [users EXCEPT ![u].nick = u, ![u].nick_ts = now]
        BY <2>1 DEF set_nick, Renamed
      <3> HIDE DEF u
      <3> QED  BY <2>2, <3>1 DEF LocalOK, UserRec
    <2>5. Receive(s, v, out) /\ remote_users' = remote_users
      BY <2>1
    <2>6. \A z \in User : m = SAVELine(z, users[z].nick_ts) => z = u
      BY <1>0
    <2> HIDE DEF u, m, out
    <2>7. ASSUME NEW y \in Server PROVE RenameStep(u, u, out[y], y)
      <3>1. out[y] \in Seq(Line) /\ <<>> \in Seq(Line)
        BY <2>3 DEF Outs
      <3>2. out[y] = out[y] \o <<>> /\ Clear(<<>>, u)
        BY <3>1, ClearLines
      <3> QED  BY <2>4, <3>1, <3>2 DEF RenameStep, out
    <2>8. ASSUME NEW z \in User, z # u, NEW y \in Server
          PROVE  OwnStep(z, out[y], y)
      <3>1. Clear(<<NICKLine(u, u, stamp)>>, z)
        BY <2>8, ClearLines DEF NICKLine
      <3>2. ClearOut(out, z)
        BY <2>2, <3>1, ClearOuts DEF out, NickNews
      <3> QED  BY <2>4, <2>8, <3>2 DEF OwnStep, ClearOut
    <2>9. ASSUME NEW z \in User, NEW y \in Server PROVE OwnStep(z, out[y], y)
      BY <2>2, <2>7, <2>8 DEF OwnStep
    <2>10. ASSUME NEW z \in User PROVE CopyStep(s, v, z, m, out[v])
      BY <1>3, <2>5 DEF CopyStep
    <2> QED  BY <2>2, <2>3, <2>4, <2>5, <2>6, <2>7, <2>9, <2>10 DEF Reads, m
  <1>5. CASE Home[m.u] = s /\ Connected(m.u) /\ users[m.u].nick_ts # m.ts
    <2>1. Discard(s, v)
      BY <1>5 DEF link_save_recv
    <2>2. \A z \in User : m # SAVELine(z, users[z].nick_ts)
      BY <1>0, <1>5
    <2> HIDE DEF m
    <2> QED  BY <1>3, <2>1, <2>2, DiscardReads DEF m
  <1>6. CASE ~(Home[m.u] = s /\ Connected(m.u))
    <2> DEFINE out == IF w \in {None, v} THEN Nothing ELSE link_out(w, <<m>>)
    <2>1. /\ Receive(s, v, out)
          /\ UNCHANGED <<users, nick_index, remote_users, remote_nick, now>>
      BY <1>6 DEF link_save_recv
    <2>2. <<m>> \in Seq(Line) /\ w \in Server \cup {None}
      BY <1>1, <1>2 DEF link_toward, RemoteOK, RemoteRec
    <2>3. out \in Outs
      BY <2>2, OutTypes
    <2>4. \A z \in User : ~(/\ Home[z] = s /\ users[z].phase = "reg"
                            /\ m = SAVELine(z, users[z].nick_ts))
      BY <1>0, <1>6 DEF Connected
    <2>5. \A z : ClearOut(out, z)
      <3> TAKE z
      <3>1. Clear(<<m>>, z)
        BY <1>1, ClearLines
      <3> QED  BY <2>2, <3>1, ClearOuts
    <2> HIDE DEF out, m
    <2>6. ASSUME NEW z \in User, NEW y \in Server PROVE OwnStep(z, out[y], y)
      BY <2>1, <2>5 DEF OwnStep, ClearOut
    <2>7. ASSUME NEW z \in User PROVE CopyStep(s, v, z, m, out[v])
      BY <1>3, <2>1 DEF CopyStep
    <2>8. users' = users /\ remote_users' = remote_users
      BY <2>1
    <2> QED  BY <2>1, <2>3, <2>4, <2>6, <2>7, <2>8 DEF Reads, m
  <1> QED  BY <1>4, <1>5, <1>6

\* link_quit_recv: the copy is dropped.
LEMMA QuitReads ==
    ASSUME IInv, NEW s \in Server, NEW v \in Server, link_quit_recv(s, v)
    PROVE  Reads(s, v)
  <1> USE DEF IInv
  <1> DEFINE m == Head(net[v][s])
             copies == [z \in User |-> IF z \in {m.u} THEN Absent
                                       ELSE remote_users[s][z]]
             out == propagate(s, v, <<m>>)
  <1>1. m \in Line /\ m.cmd = "QUIT" /\ net[v][s] # <<>> /\ v # s
    BY FirstLine DEF link_quit_recv
  <1>2. m.u \in User
    BY <1>1, LineFields
  <1>3. \A z \in User : ~Bears(m, "UID", z) /\ ~Bears(m, "NICK", z)
    BY <1>1 DEF Bears
  <1>4. \A z \in User : m # SAVELine(z, users[z].nick_ts)
    BY <1>1 DEF SAVELine
  <1>5. CASE ~sourced_via(s, m.u, v)
    <2>1. Discard(s, v)
      BY <1>5 DEF link_quit_recv
    <2>2. \A z \in User : Bears(m, "QUIT", z) => remote_users[s][z].via # v
      BY <1>5 DEF Bears, sourced_via
    <2> HIDE DEF m
    <2> QED  BY <1>3, <1>4, <2>1, <2>2, DiscardReads DEF m
  <1>6. CASE sourced_via(s, m.u, v)
    <2>1. /\ drop_remote_users(s, {m.u})
          /\ Receive(s, v, out)
          /\ UNCHANGED <<users, nick_index, now>>
      BY <1>6 DEF link_quit_recv
    <2>2. remote_users' = [remote_users EXCEPT ![s] = copies]
      BY <2>1 DEF drop_remote_users, RemoteOK
    <2>3. remote_users \in [Server -> [User -> RemoteRec]]
      BY DEF RemoteOK
    <2>4. Home[m.u] = v
      BY <1>2, <1>6, NoneApart DEF sourced_via, NoRoutingGhost
    <2>5. out \in Outs
      <3>1. <<m>> \in Seq(Line)
        BY <1>1
      <3> QED  BY <3>1, OutTypes
    <2>6. ASSUME NEW z \in User, Home[z] = s PROVE ClearOut(out, z)
      <3>1. m.u # z
        BY <1>1, <2>4, <2>6
      <3>2. Clear(<<m>>, z)
        BY <3>1, ClearLines
      <3> QED  BY <3>2, ClearOuts
    <2>7. ASSUME NEW z \in User
          PROVE  remote_users'[s][z]
                    = IF z = m.u THEN Absent ELSE remote_users[s][z]
      BY <2>2, <2>3
    <2> HIDE DEF out, copies
    <2>8. ASSUME NEW z \in User PROVE CopyStep(s, v, z, m, out[v])
      <3>1. CASE z = m.u
        <4>1. Bears(m, "QUIT", z) /\ remote_users[s][z].via = v
          BY <1>1, <1>6, <3>1 DEF Bears, sourced_via
        <4>2. remote_users'[s][z] = Absent /\ Absent.via = None /\ v # None
          BY <2>7, <3>1, NoneApart DEF Absent
        <4> HIDE DEF m
        <4> QED  BY <1>3, <4>1, <4>2 DEF CopyStep
      <3>2. CASE z # m.u
        <4>1. ~Bears(m, "QUIT", z)
          BY <3>2 DEF Bears
        <4>2. remote_users'[s][z] = remote_users[s][z]
          BY <2>7, <3>2
        <4> HIDE DEF m
        <4> QED  BY <1>3, <4>1, <4>2 DEF CopyStep
      <3> QED  BY <3>1, <3>2
    <2>9. ASSUME NEW z \in User, Home[z] = s, NEW y \in Server
          PROVE  OwnStep(z, out[y], y)
      BY <2>1, <2>6, <2>9 DEF OwnStep, ClearOut
    <2>10. \A x \in Server : x # s => remote_users'[x] = remote_users[x]
      BY <2>2, <2>3
    <2> HIDE DEF m
    <2> QED  BY <1>4, <2>1, <2>5, <2>8, <2>9, <2>10 DEF Reads, m
  <1> QED  BY <1>5, <1>6

\* link_kill_recv: the target's own server removes it.
LEMMA KillReads ==
    ASSUME IInv, NEW s \in Server, NEW v \in Server, link_kill_recv(s, v)
    PROVE  Reads(s, v)
  <1> USE DEF IInv
  <1> DEFINE m == Head(net[v][s])
             w == link_toward(s, m.u)
  <1>1. m \in Line /\ m.cmd = "KILL" /\ net[v][s] # <<>>
    BY FirstLine DEF link_kill_recv
  <1>2. m.u \in User /\ m.src \in User
    BY <1>1, LineFields
  <1>3. \A z \in User : ~Bears(m, "UID", z) /\ ~Bears(m, "NICK", z)
                        /\ ~Bears(m, "QUIT", z)
    BY <1>1 DEF Bears
  <1>0. \A z \in User : m # SAVELine(z, users[z].nick_ts)
    BY <1>1 DEF SAVELine
  <1>4. CASE ~sourced_via(s, m.src, v)
    <2>1. Discard(s, v)
      BY <1>4 DEF link_kill_recv
    <2> HIDE DEF m
    <2> QED  BY <1>0, <1>3, <2>1, DiscardReads DEF m
  <1>5. CASE sourced_via(s, m.src, v) /\ Home[m.u] = s /\ Connected(m.u)
    <2> DEFINE u == m.u
               out == QuitNews(u)
    <2>1. /\ remove_user(u)
          /\ Receive(s, v, out)
          /\ remote_users' = remote_users
      BY <1>5 DEF link_kill_recv
    <2>2. u \in User /\ Home[u] = s /\ Connected(u)
      BY <1>2, <1>5
    <2>3. out \in Outs
      BY <1>2, NewsTypes
    <2> HIDE DEF u, m
    <2>4. /\ users'[u].phase = "gone"
          /\ \A z \in User : z # u => users'[z] = users[z]
      BY <2>1, <2>2 DEF remove_user, LocalOK, UserRec
    <2>5. ASSUME NEW z \in User, Home[z] = s, NEW y \in Server
          PROVE  OwnStep(z, out[y], y)
      <3>1. CASE z = u
        BY <2>2, <2>4, <3>1 DEF OwnStep
      <3>2. CASE z # u
        <4>1. Clear(<<QUITLine(u)>>, z)
          BY <3>2, ClearLines DEF QUITLine
        <4>2. ClearOut(out, z)
          BY <2>2, <4>1, ClearOuts DEF QuitNews
        <4> QED  BY <2>4, <3>2, <4>2 DEF OwnStep, ClearOut
      <3> QED  BY <3>1, <3>2
    <2> HIDE DEF out
    <2>6. ASSUME NEW z \in User PROVE CopyStep(s, v, z, m, out[v])
      BY <1>3, <2>1 DEF CopyStep
    <2> QED  BY <1>0, <2>1, <2>2, <2>3, <2>4, <2>5, <2>6 DEF Reads, m
  <1>6. CASE sourced_via(s, m.src, v) /\ ~(Home[m.u] = s /\ Connected(m.u))
    <2> DEFINE out == IF w \in {None, v} THEN Nothing ELSE link_out(w, <<m>>)
    <2>1. /\ Receive(s, v, out)
          /\ UNCHANGED <<users, nick_index, remote_users, remote_nick, now>>
      BY <1>6 DEF link_kill_recv
    <2>2. <<m>> \in Seq(Line) /\ w \in Server \cup {None}
      BY <1>1, <1>2 DEF link_toward, RemoteOK, RemoteRec
    <2>3. out \in Outs
      BY <2>2, OutTypes
    <2>5. \A z : ClearOut(out, z)
      <3> TAKE z
      <3>1. Clear(<<m>>, z)
        BY <1>1, ClearLines
      <3> QED  BY <2>2, <3>1, ClearOuts
    <2> HIDE DEF out, m
    <2>6. ASSUME NEW z \in User, NEW y \in Server PROVE OwnStep(z, out[y], y)
      BY <2>1, <2>5 DEF OwnStep, ClearOut
    <2>7. ASSUME NEW z \in User PROVE CopyStep(s, v, z, m, out[v])
      BY <1>3, <2>1 DEF CopyStep
    <2>8. users' = users /\ remote_users' = remote_users
      BY <2>1
    <2> QED  BY <1>0, <2>1, <2>3, <2>6, <2>7, <2>8 DEF Reads, m
  <1> QED  BY <1>4, <1>5, <1>6

-----------------------------------------------------------------------------
(* A step of the user's own server                                          *)

\* A user that has not registered, or over a link that has not, is tracked
\* whatever becomes of it.
LEMMA TracksUntold ==
    ASSUME NEW q, NEW u, NEW known \in BOOLEAN, NEW up \in BOOLEAN, NEW phase,
           Tracks(q, u, known, up, phase), ~(up /\ phase \in {"reg", "gone"}),
           NEW later, up => later # "reg"
    PROVE  Tracks(q, u, known, up, later)
  BY DEF Tracks, Says

\* What u's server does with u and writes to s keeps s's view of u on track.
LEMMA OwnTracks ==
    ASSUME IInv, NEW u \in User, NEW s \in Server, NEW q \in Seq(Line),
           NEW o \in Seq(Line), OwnStep(u, o, s), NEW known \in BOOLEAN,
           Tracks(q, u, known, link[Home[u]][s] = "up", users[u].phase)
    PROVE  Tracks(q \o o, u, known, link[Home[u]][s] = "up", users'[u].phase)
  <1> DEFINE t == Home[u]
             up == link[t][s] = "up"
             phase == users[u].phase
             later == users'[u].phase
  <1>0. t \in Server /\ up \in BOOLEAN /\ s # None
    BY ConstantsAssumption, NoneApart
  <1>1. CASE users'[u] = users[u] /\ Clear(o, u)
    BY <1>0, <1>1, TracksAppended DEF Clear, Silent, Calls
  <1>2. CASE /\ phase \notin {"reg", "gone"} /\ later \notin {"reg", "gone"}
             /\ Clear(o, u)
    <2>1. Silent(o, u)
      BY <1>2 DEF Clear, Silent, Calls
    <2> HIDE DEF up, phase, later
    <2>2. Tracks(q \o o, u, known, up, phase)
      BY <1>0, <2>1, TracksAppended DEF up, phase
    <2>3. phase \notin {"reg", "gone"} /\ later # "reg"
      BY <1>2
    <2>4. Tracks(q \o o, u, known, up, later)
      BY <1>0, <2>2, <2>3, TracksUntold
    <2> QED  BY <2>4 DEF up, later
  <1>3. ASSUME NEW n \in Nick, RenameStep(u, n, o, s)
        PROVE  Tracks(q \o o, u, known, up, later)
    <2>1. PICK ts \in Stamp, rest \in Seq(Line) :
             /\ users'[u].phase = users[u].phase
             /\ NickNews(u, n, ts)[s] \in Seq(Line)
             /\ o = NickNews(u, n, ts)[s] \o rest
             /\ Clear(rest, u)
      BY <1>3 DEF RenameStep
    <2> DEFINE news == NickNews(u, n, ts)[s]
    <2>2. news = <<>> \/ news = <<NICKLine(u, n, ts)>>
      BY DEF NickNews, propagate, Nothing
    <2>3. Silent(news, u)
      BY <2>2 DEF Silent, Bears, NICKLine
    <2>4. Silent(rest, u)
      BY <2>1 DEF Clear, Silent, Calls
    <2>0. news \in Seq(Line) /\ o = news \o rest
      BY <2>1
    <2> HIDE DEF up, phase, later, news
    <2>5. Tracks(q \o news, u, known, up, phase)
      BY <1>0, <2>0, <2>3, TracksAppended DEF up, phase
    <2> DEFINE p == q \o news
    <2>6. p \in Seq(Line) /\ Tracks(p, u, known, up, phase)
      BY <2>0, <2>5
    <2>9. (q \o news) \o rest = q \o (news \o rest)
      BY <2>0, LinesTogether
    <2>7. p \o rest = q \o o
      BY <2>0, <2>9
    <2> HIDE DEF p
    <2>8. Tracks(p \o rest, u, known, up, phase)
      BY <1>0, <2>4, <2>6, TracksAppended
    <2> QED  BY <2>1, <2>7, <2>8 DEF phase, later
  <1>4. CASE RegisterStep(u, o, s)
    <2>1. ~known /\ ~Says(q, "UID", u) /\ ~Says(q, "QUIT", u)
      BY <1>4 DEF RegisterStep, Tracks
    <2>2. o = IF up THEN <<uid_line(u)>> ELSE <<>>
      BY <1>0, <1>4 DEF RegisterStep, propagate
    <2>3. later = "reg"
      BY <1>4 DEF RegisterStep
    <2>4. CASE up
      <3>1. o = <<uid_line(u)>> /\ DOMAIN o = {1}
        BY <2>2, <2>4
      <3>2. Bears(o[1], "UID", u) /\ ~Bears(o[1], "QUIT", u)
        BY <3>1 DEF Bears, uid_line, UIDLine
      <3>3. Says(o, "UID", u) /\ ~Says(o, "QUIT", u)
        BY <3>1, <3>2 DEF Says
      <3>4. Tracks(q \o o, u, FALSE, TRUE, "reg")
        BY <2>1, <3>1, <3>3, TracksIntroduced
      <3> HIDE DEF up, later
      <3>5. known = FALSE /\ up = TRUE /\ later = "reg"
        BY <1>0, <2>1, <2>3, <2>4
      <3>6. Tracks(q \o o, u, known, up, later)
        BY <3>4, <3>5
      <3> QED  BY <3>6 DEF up, later
    <2>5. CASE ~up
      <3>1. q \o o = q
        BY <2>2, <2>5
      <3> HIDE DEF up, phase, later
      <3>2. Tracks(q, u, known, up, phase)
        BY DEF up, phase
      <3>3. Tracks(q, u, known, up, later)
        BY <1>0, <2>5, <3>2, TracksUntold
      <3> QED  BY <3>1, <3>3 DEF up, later
    <2> QED  BY <2>4, <2>5
  <1>5. CASE Connected(u) /\ later = "gone" /\ o = QuitNews(u)[s]
    <2>1. CASE phase = "reg" /\ up
      <3>1. o = <<QUITLine(u)>>
        BY <1>0, <1>5, <2>1 DEF QuitNews, propagate
      <3> HIDE DEF up, phase, later
      <3>0. up = TRUE /\ phase = "reg" /\ later = "gone"
        BY <1>0, <1>5, <2>1
      <3>2. Tracks(q, u, known, TRUE, "reg")
        BY <3>0 DEF up, phase
      <3>3. Tracks(q \o o, u, known, TRUE, "gone")
        BY <3>1, <3>2, TracksQuit
      <3> QED  BY <3>0, <3>3 DEF up, later
    <2>2. CASE ~(phase = "reg" /\ up)
      <3>1. o = <<>> /\ q \o o = q
        BY <1>0, <1>5, <2>2 DEF QuitNews, propagate, Nothing
      <3>2. phase # "gone"
        BY <1>5 DEF Connected
      <3> HIDE DEF up, phase, later
      <3>3. Tracks(q, u, known, up, phase)
        BY DEF up, phase
      <3>4. Tracks(q, u, known, up, later)
        BY <1>0, <1>5, <2>2, <3>2, <3>3, TracksUntold
      <3> QED  BY <3>1, <3>4 DEF up, later
    <2> QED  BY <2>1, <2>2
  <1> QED  BY <1>1, <1>2, <1>3, <1>4, <1>5 DEF OwnStep

\* The clock is read once in a handler: the news of a rename carries the timestamp
\* u is given.
LEMMA RenameFollows ==
    ASSUME ~Straddle, NEW u \in User, NEW s \in Server, NEW q \in Seq(Line),
           NEW n \in Nick, NEW o \in Seq(Line), RenameStep(u, n, o, s),
           link[Home[u]][s] = "up", users[u].phase = "reg", NEW r, NEW c
    PROVE  Follows(q \o o, r, u, users'[u].nick, users'[u].nick_ts, c)
  <1>0. s # None
    BY NoneApart
  <1>1. PICK ts \in Stamp, rest \in Seq(Line) :
           /\ users'[u].nick = n /\ users'[u].nick_ts = now
           /\ NickNews(u, n, ts)[s] \in Seq(Line)
           /\ o = NickNews(u, n, ts)[s] \o rest
           /\ Clear(rest, u)
    BY DEF RenameStep
  <1>2. ts = now
    BY DEF Stamp
  <1> DEFINE news == <<NICKLine(u, n, ts)>>
  <1>3. news = NickNews(u, n, ts)[s]
    BY <1>0 DEF NickNews, propagate
  <1>4. news \in Seq(Line) /\ o = news \o rest
    BY <1>1, <1>3
  <1>5. /\ 1 \in DOMAIN news /\ DOMAIN news = {1} /\ Calls(news[1], u)
        /\ news[1].nick = n /\ (news[1].cmd = "NICK" => news[1].ts = ts)
    BY DEF Calls, Bears, NICKLine
  <1> HIDE DEF news
  <1>6. Follows(q \o news, r, u, n, ts, c)
    BY <1>4, <1>5, FollowsCalled
  <1> DEFINE p == q \o news
  <1>7. p \in Seq(Line) /\ p \o rest = q \o o
    BY <1>1, <1>4, LinesTogether
  <1>8. Follows(p, r, u, n, ts, c)
    BY <1>6
  <1> HIDE DEF p
  <1>9. Follows(p \o rest, r, u, n, ts, c)
    BY <1>1, <1>7, <1>8, FollowsAppended
  <1> QED  BY <1>1, <1>2, <1>7, <1>9

\* What u's server does with u and writes to s tells s the nick u has.
LEMMA OwnFollows ==
    ASSUME ~Straddle, NEW u \in User, NEW s \in Server, NEW q \in Seq(Line),
           NEW o \in Seq(Line), OwnStep(u, o, s),
           link[Home[u]][s] = "up", users'[u].phase = "reg", NEW r, NEW c,
           users[u].phase = "reg" =>
              Follows(q, r, u, users[u].nick, users[u].nick_ts, c)
    PROVE  Follows(q \o o, r, u, users'[u].nick, users'[u].nick_ts, c)
  <1>1. CASE users'[u] = users[u] /\ Clear(o, u)
    BY <1>1, FollowsAppended
  <1>2. ASSUME NEW n \in Nick, RenameStep(u, n, o, s)
        PROVE  Follows(q \o o, r, u, users'[u].nick, users'[u].nick_ts, c)
    <2>1. users[u].phase = "reg"
      BY <1>2 DEF RenameStep
    <2> QED  BY <1>2, <2>1, RenameFollows
  <1>3. CASE RegisterStep(u, o, s)
    <2>0. s # None
      BY NoneApart
    <2>1. o = <<uid_line(u)>>
      BY <1>3, <2>0 DEF RegisterStep, propagate
    <2>2. /\ 1 \in DOMAIN o /\ DOMAIN o = {1} /\ Calls(o[1], u)
          /\ o[1].nick = users[u].nick /\ o[1].cmd # "NICK"
      BY <2>1 DEF Calls, Bears, uid_line, UIDLine
    <2>3. Follows(q \o o, r, u, users[u].nick, users[u].nick_ts, c)
      BY <2>2, FollowsCalled
    <2> QED  BY <1>3, <2>3 DEF RegisterStep
  <1> QED  BY <1>1, <1>2, <1>3 DEF OwnStep

-----------------------------------------------------------------------------
(* The queues after a step                                                  *)

LEMMA ReceiveQueues ==
    ASSUME net \in Queues, NEW s \in Server, NEW v \in Server, s # v,
           NEW out \in Outs, Receive(s, v, out),
           NEW x \in Server, NEW y \in Server
    PROVE  net'[x][y] = IF x = v /\ y = s THEN Tail(net[x][y])
                        ELSE IF x = s /\ link[y][x] # "none"
                        THEN net[x][y] \o out[y] ELSE net[x][y]
  <1> DEFINE read == [net EXCEPT ![v][s] = Tail(@)]
  <1>1. net' = Written(read, s, out)
    BY DEF Receive
  <1>2. /\ read[v][s] = Tail(net[v][s])
        /\ ~(x = v /\ y = s) => read[x][y] = net[x][y]
    BY DEF Queues
  <1>3. DOMAIN read = Server
    BY DEF Queues
  <1> HIDE DEF read
  <1>4. net'[x][y] = IF x = s /\ link[y][x] # "none"
                     THEN read[x][y] \o out[y] ELSE read[x][y]
    BY <1>1, <1>3 DEF Written
  <1> QED  BY <1>2, <1>4

LEMMA SendQueues ==
    ASSUME net \in Queues, NEW s \in Server, NEW out \in Outs, Send(s, out),
           NEW x \in Server, NEW y \in Server
    PROVE  net'[x][y] = IF x = s /\ link[y][x] # "none"
                        THEN net[x][y] \o out[y] ELSE net[x][y]
  BY DEF Send, Written, Queues

\* What the reader writes to a peer that has not closed its end arrives.
LEMMA ReceiveWrites ==
    ASSUME net \in Queues, NEW s \in Server, NEW v \in Server, s # v,
           NEW out \in Outs, Receive(s, v, out),
           NEW y \in Server, link[y][s] # "none"
    PROVE  net'[s][y] = net[s][y] \o out[y]
  <1> DEFINE read == [net EXCEPT ![v][s] = Tail(@)]
  <1>1. net' = Written(read, s, out)
    BY DEF Receive
  <1>2. read[s] = net[s] /\ DOMAIN read = Server
    BY DEF Queues
  <1> HIDE DEF read
  <1> QED  BY <1>1, <1>2 DEF Written

-----------------------------------------------------------------------------
(* Lines read from a peer keep everybody on track                           *)

\* A line is read from a link, and links stay as they are.
LEMMA ReadsTracked ==
    ASSUME IInv, Tracked, Forgotten, NEW a \in Server, NEW v \in Server, a # v,
           net[v][a] # <<>>, Reads(a, v), link' = link
    PROVE  Tracked' /\ Forgotten'
  <1> USE DEF IInv
  <1>1. PICK out \in Outs :
        /\ Receive(a, v, out)
        /\ \A u \in User : Home[u] # a => users'[u] = users[u]
        /\ \A u \in User, y \in Server : Home[u] = a => OwnStep(u, out[y], y)
        /\ \A x \in Server : x # a => remote_users'[x] = remote_users[x]
        /\ \A u \in User : CopyStep(a, v, u, Head(net[v][a]), out[v])
    BY DEF Reads
  <1>2. Forgotten'
    <2> SUFFICES ASSUME NEW s \in Server, NEW u \in User,
                        remote_users'[s][u].via = None
                 PROVE  remote_users'[s][u] = Absent
      BY DEF Forgotten
    <2>1. CASE s # a
      BY <1>1, <2>1 DEF Forgotten
    <2>2. CASE s = a
      <3>1. remote_users'[s][u] \in {remote_users[s][u], Absent}
        BY <1>1, <2>2 DEF CopyStep
      <3> QED  BY <3>1 DEF Forgotten
    <2> QED  BY <2>1, <2>2
  <1>3. ASSUME NEW s \in Server, NEW u \in User, s # Home[u],
               Open(s, Home[u])
        PROVE  Tracks(net'[Home[u]][s], u, Known(s, u)', link[Home[u]][s] = "up",
                      users'[u].phase)
    <2> DEFINE t == Home[u]
               q == net[t][s]
               up == link[t][s] = "up"
    <2>1. /\ t \in Server /\ q \in Seq(Line) /\ out[s] \in Seq(Line)
          /\ Known(s, u) \in BOOLEAN /\ Known(s, u)' \in BOOLEAN
          /\ up \in BOOLEAN
      BY ConstantsAssumption DEF Queues, Outs, Known
    <2>2. Tracks(q, u, Known(s, u), up, users[u].phase)
      BY <1>3 DEF Tracked
    <2>3. CASE a = t
      <3>0. Receive(a, v, out) /\ link[s][t] # "none" /\ t # s /\ net \in Queues
        BY <1>1, <1>3 DEF Open
      <3>1. net'[t][s] = q \o out[s]
        BY <2>1, <2>3, <3>0, ReceiveWrites
      <3>2. Known(s, u)' = Known(s, u)
        BY <1>1, <1>3, <2>3 DEF Known
      <3>3. OwnStep(u, out[s], s)
        BY <1>1, <2>3
      <3>4. Tracks(q \o out[s], u, Known(s, u), up, users'[u].phase)
        BY <2>1, <2>2, <3>3, OwnTracks
      <3> QED  BY <3>1, <3>2, <3>4
    <2>4. CASE a = s /\ v = t
      <3> DEFINE m == Head(q)
      <3>0. q # <<>> /\ users'[u] = users[u] /\ CopyStep(s, t, u, m, out[t])
        BY <1>1, <1>3, <2>4
      <3>1. net'[t][s] = Tail(q)
        BY <1>1, <1>3, <2>1, <2>4, ReceiveQueues
      <3>2. ~(Bears(m, "UID", u) /\ Bears(m, "QUIT", u))
            /\ ~(Bears(m, "UID", u) /\ Bears(m, "NICK", u))
            /\ ~(Bears(m, "NICK", u) /\ Bears(m, "QUIT", u))
        BY DEF Bears
      <3> HIDE DEF q, m, up
      <3>3. CASE Bears(m, "UID", u)
        <4>1. ~Known(s, u) /\ Tracks(Tail(q), u, TRUE, up, users[u].phase)
          BY <2>1, <2>2, <3>0, <3>3, TracksLearned DEF m
        <4>2. Known(s, u)' = TRUE
          BY <3>0, <3>3, <4>1 DEF CopyStep, Known
        <4> QED  BY <3>0, <3>1, <4>1, <4>2 DEF up
      <3>4. CASE Bears(m, "QUIT", u)
        <4>1. Tracks(Tail(q), u, FALSE, up, users[u].phase)
          BY <2>1, <2>2, <3>0, <3>4, TracksForgotten DEF m
        <4>2. Known(s, u)' = FALSE
          BY <3>0, <3>2, <3>4 DEF CopyStep, Known
        <4> QED  BY <3>0, <3>1, <4>1, <4>2 DEF up
      <3>5. CASE ~Bears(m, "UID", u) /\ ~Bears(m, "QUIT", u)
        <4>1. Tracks(Tail(q), u, Known(s, u), up, users[u].phase)
          BY <2>1, <2>2, <3>0, <3>5, TracksRead DEF m
        <4>2. Known(s, u)' = Known(s, u)
          BY <3>0, <3>5 DEF CopyStep, Known
        <4> QED  BY <3>0, <3>1, <4>1, <4>2 DEF up
      <3> QED  BY <3>3, <3>4, <3>5
    <2>5. CASE a # t /\ ~(a = s /\ v = t)
      <3>1. net'[t][s] = q /\ users'[u] = users[u]
        BY <1>1, <1>3, <2>1, <2>5, ReceiveQueues
      <3>2. Known(s, u)' = Known(s, u)
        <4>1. CASE a # s
          BY <1>1, <4>1 DEF Known
        <4>2. CASE a = s
          <5>1. Home[u] # v /\ remote_users[s][u].via # v
            BY <2>5, <4>2, NoneApart DEF NoRoutingGhost
          <5>2. remote_users'[s][u].via = remote_users[s][u].via
            BY <1>1, <4>2, <5>1 DEF CopyStep
          <5> QED  BY <5>2 DEF Known
        <4> QED  BY <4>1, <4>2
      <3> QED  BY <2>2, <3>1, <3>2
    <2> QED  BY <2>3, <2>4, <2>5
  <1>4. Tracked'
    BY <1>3 DEF Tracked, Open
  <1> QED  BY <1>2, <1>4

\* ... and in step with the nicks.
LEMMA ReadsFollowed ==
    ASSUME IInv, Tracked, Followed, ~Straddle,
           NEW a \in Server, NEW v \in Server, a # v,
           net[v][a] # <<>>, Reads(a, v), link' = link
    PROVE  Followed'
  <1> USE DEF IInv
  <1>1. PICK out \in Outs :
        /\ Receive(a, v, out)
        /\ \A u \in User : Home[u] # a => users'[u] = users[u]
        /\ \A u \in User, y \in Server : Home[u] = a => OwnStep(u, out[y], y)
        /\ \A u \in User, y \in Server :
              /\ Home[u] = a /\ users[u].phase = "reg"
              /\ Head(net[v][a]) = SAVELine(u, users[u].nick_ts)
              => RenameStep(u, u, out[y], y)
        /\ \A x \in Server : x # a => remote_users'[x] = remote_users[x]
        /\ \A u \in User : CopyStep(a, v, u, Head(net[v][a]), out[v])
    BY DEF Reads
  <1>2. ASSUME NEW s \in Server, NEW u \in User, s # Home[u],
               Open(s, Home[u]), link[Home[u]][s] = "up", users'[u].phase = "reg"
        PROVE  Follows(net'[Home[u]][s], net'[s][Home[u]], u, users'[u].nick,
                       users'[u].nick_ts, remote_users'[s][u].nick)
    <2> DEFINE t == Home[u]
               q == net[t][s]
               r == net[s][t]
               c == remote_users[s][u].nick
               d == remote_users'[s][u].nick
               n == users[u].nick
               ts == users[u].nick_ts
    <2>1. /\ t \in Server /\ q \in Seq(Line) /\ out[s] \in Seq(Line)
          /\ r \in Seq(Line) /\ out[t] \in Seq(Line) /\ u \in Nick
      BY ConstantsAssumption DEF Queues, Outs, Nick
    <2>2. users[u].phase = "reg" => Follows(q, r, u, n, ts, c)
      BY <1>2 DEF Followed
    <2>3. CASE a = t
      <3>0. Receive(a, v, out) /\ link[s][t] # "none" /\ t # s /\ net \in Queues
        BY <1>1, <1>2 DEF Open
      <3>1. net'[t][s] = q \o out[s]
        BY <2>1, <2>3, <3>0, ReceiveWrites
      <3>2. d = c
        BY <1>1, <1>2, <2>3
      <3>3. OwnStep(u, out[s], s)
        BY <1>1, <2>3
      <3>4. CASE v # s
        <4>1. net'[s][t] = r
          BY <1>1, <1>2, <2>1, <2>3, <3>4, ReceiveQueues
        <4>2. Follows(q \o out[s], r, u, users'[u].nick, users'[u].nick_ts, c)
          BY <1>2, <2>1, <2>2, <3>3, OwnFollows
        <4> QED  BY <3>1, <3>2, <4>1, <4>2
      <3>5. CASE v = s
        <4>1. net'[s][t] = Tail(r) /\ r # <<>>
          BY <1>1, <1>2, <2>1, <2>3, <3>5, ReceiveQueues
        <4>2. CASE users[u].phase = "reg" /\ Head(r) = SAVELine(u, ts)
          <5>1. RenameStep(u, u, out[s], s)
            BY <1>1, <2>3, <3>5, <4>2
          <5>2. Follows(q \o out[s], Tail(r), u, users'[u].nick,
                        users'[u].nick_ts, c)
            BY <1>2, <2>1, <4>2, <5>1, RenameFollows
          <5> QED  BY <3>1, <3>2, <4>1, <5>2
        <4>3. CASE ~(users[u].phase = "reg" /\ Head(r) = SAVELine(u, ts))
          <5>1. users[u].phase = "reg" => Follows(q, Tail(r), u, n, ts, c)
            BY <2>1, <2>2, <4>1, <4>3, FollowsAnswered
          <5>2. Follows(q \o out[s], Tail(r), u, users'[u].nick,
                        users'[u].nick_ts, c)
            BY <1>2, <2>1, <3>3, <5>1, OwnFollows
          <5> QED  BY <3>1, <3>2, <4>1, <5>2
        <4> QED  BY <4>2, <4>3
      <3> QED  BY <3>4, <3>5
    <2>4. CASE a = s /\ v = t
      <3> DEFINE m == Head(q)
                 p == r \o out[t]
      <3>0. q # <<>> /\ users'[u] = users[u] /\ CopyStep(s, t, u, m, out[t])
        BY <1>1, <1>2, <2>4
      <3>8. Receive(a, v, out) /\ link[t][s] # "none" /\ t # s /\ net \in Queues
        BY <1>1, <1>2 DEF Open
      <3>9. net'[s][t] = p
        BY <2>1, <2>4, <3>8, ReceiveWrites
      <3>1. net'[t][s] = Tail(q) /\ net'[s][t] = p
        BY <2>1, <2>4, <3>8, <3>9, ReceiveQueues
      <3>2. Follows(q, r, u, n, ts, c)
        BY <1>2, <2>2, <3>0
      <3>3. Tracks(q, u, Known(s, u), TRUE, "reg")
        <4>1. Tracks(q, u, Known(s, u), link[t][s] = "up", users[u].phase)
          BY <1>2 DEF Tracked
        <4>2. (link[t][s] = "up") = TRUE /\ users[u].phase = "reg"
          BY <1>2, <3>0
        <4> QED  BY <4>1, <4>2
      <3> HIDE DEF q, m, p
      <3>4. CASE Bears(m, "UID", u)
        <4>0. Known(s, u) \in BOOLEAN
          BY DEF Known
        <4>1. ~Known(s, u)
          BY <2>1, <3>0, <3>3, <3>4, <4>0, TracksLearned DEF m
        <4>2. d \in {m.nick, u}
          BY <3>0, <3>4, <4>1 DEF CopyStep, Known
        <4>3. Calls(m, u)
          BY <3>4 DEF Calls
        <4>4. Follows(Tail(q), p, u, n, ts, d)
          BY <2>1, <3>0, <3>2, <4>2, <4>3, FollowsHeard DEF m
        <4> QED  BY <3>0, <3>1, <4>4
      <3>5. CASE Bears(m, "NICK", u) /\ Known(s, u)
        <4>1. d = m.nick \/ \E k \in DOMAIN out[t] : out[t][k] = SAVELine(u, m.ts)
          BY <3>0, <3>5 DEF CopyStep, Known
        <4>2. d = m.nick \/ \E k \in DOMAIN p : p[k] = SAVELine(u, m.ts)
          <5>1. ASSUME NEW k \in DOMAIN out[t], out[t][k] = SAVELine(u, m.ts)
                PROVE  \E j \in DOMAIN p : p[j] = SAVELine(u, m.ts)
            <6>1. Len(r) + k \in DOMAIN p /\ p[Len(r) + k] = out[t][k]
              BY <2>1, Appended DEF p
            <6> QED  BY <5>1, <6>1
          <5> QED  BY <4>1, <5>1
        <4>3. Calls(m, u) /\ m.cmd = "NICK"
          BY <3>5 DEF Calls, Bears
        <4>4. Follows(Tail(q), p, u, n, ts, d)
          BY <2>1, <3>0, <3>2, <4>2, <4>3, FollowsHeard DEF m
        <4> QED  BY <3>0, <3>1, <4>4
      <3>6. CASE Bears(m, "NICK", u) /\ ~Known(s, u)
        <4>1. Says(q, "UID", u)
          BY <3>3, <3>6 DEF Tracks
        <4>2. PICK i \in DOMAIN q : Bears(q[i], "UID", u)
          BY <4>1 DEF Says
        <4>3. i # 1
          BY <2>1, <3>0, <3>6, <4>2, Behead DEF Bears, m
        <4>4. i - 1 \in DOMAIN Tail(q) /\ Tail(q)[i - 1] = q[i]
          BY <2>1, <3>0, <4>3, Behead
        <4>5. Says(Tail(q), "UID", u)
          BY <4>2, <4>4 DEF Says
        <4>6. Calls(m, u)
          BY <3>6 DEF Calls
        <4>7. Follows(Tail(q), p, u, n, ts, d)
          BY <2>1, <3>0, <3>2, <4>5, <4>6, FollowsHeard DEF m
        <4> QED  BY <3>0, <3>1, <4>7
      <3>7. CASE ~Calls(m, u)
        <4>1. ~Bears(m, "QUIT", u)
          BY <2>1, <3>0, <3>3, Behead DEF Tracks, Says, m
        <4>2. d \in {c, u}
          BY <3>0, <3>7, <4>1 DEF CopyStep, Calls
        <4>3. Follows(Tail(q), r, u, n, ts, c)
          BY <2>1, <3>0, <3>2, <3>7, FollowsRead DEF m
        <4>4. Follows(Tail(q), p, u, n, ts, d)
          BY <2>1, <4>2, <4>3, FollowsAnswer DEF p
        <4> QED  BY <3>0, <3>1, <4>4
      <3> QED  BY <3>4, <3>5, <3>6, <3>7 DEF Calls
    <2>5. CASE a # t /\ ~(a = s /\ v = t)
      <3>1. net'[t][s] = q /\ users'[u] = users[u]
        BY <1>1, <1>2, <2>1, <2>5, ReceiveQueues
      <3>2. Follows(q, r, u, n, ts, c)
        BY <1>2, <2>2, <3>1
      <3>3. CASE a # s
        <4>1. net'[s][t] = r /\ d = c
          BY <1>1, <1>2, <2>1, <2>5, <3>3, ReceiveQueues
        <4> QED  BY <3>1, <3>2, <4>1
      <3>4. CASE a = s
        <4>0. /\ Receive(a, v, out) /\ link[t][s] # "none" /\ t # s
              /\ net \in Queues
          BY <1>1, <1>2 DEF Open
        <4>1. net'[s][t] = r \o out[t]
          BY <2>1, <2>5, <3>4, <4>0, ReceiveWrites
        <4>2. Home[u] # v /\ remote_users[s][u].via # v
          BY <2>5, <3>4, NoneApart DEF NoRoutingGhost
        <4>3. d \in {c, u}
          BY <1>1, <3>4, <4>2 DEF CopyStep
        <4>4. Follows(q, r \o out[t], u, n, ts, d)
          BY <2>1, <3>2, <4>3, FollowsAnswer
        <4> QED  BY <3>1, <4>1, <4>4
      <3> QED  BY <3>3, <3>4
    <2> QED  BY <2>3, <2>4, <2>5
  <1> QED  BY <1>2 DEF Followed, Open

-----------------------------------------------------------------------------
(* Commands of clients                                                      *)

\* A client of t does something: its server tells its links.
Tells(t) ==
    \E out \in Outs :
        /\ Send(t, out)
        /\ \A u \in User : Home[u] # t => users'[u] = users[u]
        /\ \A u \in User, y \in Server : Home[u] = t => OwnStep(u, out[y], y)

\* Sending nothing changes no queue.
LEMMA SendNothing ==
    ASSUME net \in Queues, NEW t \in Server, net' = net
    PROVE  Send(t, Nothing)
  <1>1. \A y \in Server : net[t][y] \o <<>> = net[t][y]
    BY DEF Queues
  <1>2. [y \in Server |-> IF link[y][t] = "none" THEN net[t][y]
                          ELSE net[t][y] \o Nothing[y]] = net[t]
    BY <1>1 DEF Nothing, Queues
  <1> QED  BY <1>2 DEF Send, Written, Queues

\* Every command of a client is such a step, and touches no copy and no link.
LEMMA ClientTells ==
    ASSUME IInv, NEW u \in User, Client(u)
    PROVE  /\ Tells(Home[u])
           /\ UNCHANGED <<remote_users, link>>
  <1> USE DEF IInv
  <1> DEFINE t == Home[u]
  <1>0. t \in Server /\ Nothing \in Outs
    BY ConstantsAssumption, OutTypes
  <1>1. UNCHANGED <<remote_users, link>>
    BY DEF Client, Connect, UserCmd, NickCmd, Register, Quit, route_kill
  <1>2. ASSUME net' = net,
               \A w \in User : w # u => users'[w] = users[w],
               users[u].phase \notin {"reg", "gone"},
               users'[u].phase \notin {"reg", "gone"}
        PROVE  Tells(t)
    <2>1. Send(t, Nothing)
      BY <1>0, <1>2, SendNothing
    <2>2. ASSUME NEW w \in User, NEW y \in Server
          PROVE  OwnStep(w, Nothing[y], y)
      <3>1. Clear(Nothing[y], w)
        BY ClearLines DEF Nothing
      <3> QED  BY <1>2, <3>1 DEF OwnStep
    <2> QED  BY <1>0, <1>2, <2>1, <2>2 DEF Tells
  <1>3. CASE Connect(u)
    <2>1. /\ net' = net /\ users[u].phase = "away" /\ users'[u].phase = "conn"
          /\ \A w \in User : w # u => users'[w] = users[w]
      BY <1>3 DEF Connect, LocalOK
    <2> QED  BY <1>1, <1>2, <2>1
  <1>4. CASE UserCmd(u)
    <2>1. /\ net' = net /\ users[u].phase = "conn" /\ users'[u].phase = "named"
          /\ \A w \in User : w # u => users'[w] = users[w]
      BY <1>4 DEF UserCmd, LocalOK, UserRec
    <2> QED  BY <1>1, <1>2, <2>1
  <1>5. ASSUME NEW n \in Name, NickCmd(u, n) PROVE Tells(t)
    <2>1. PICK ts \in Stamp : /\ set_nick(u, n, ts)
                              /\ Send(t, NickNews(u, n, ts))
      BY <1>5 DEF NickCmd
    <2> DEFINE out == NickNews(u, n, ts)
    <2>2. ts \in Time /\ n \in Nick
      BY StampType DEF CountersOK, Nick
    <2>3. out \in Outs
      BY <2>2, NewsTypes
    <2>4. /\ \A z \in User : z # u => users'[z] = users[z]
          /\ users'[u].phase = users[u].phase
          /\ users'[u].nick = n /\ users'[u].nick_ts = now
      <3>1. users' = [users EXCEPT ![u].nick = n, ![u].nick_ts = now]
        BY <2>1 DEF set_nick, Renamed
      <3> QED  BY <3>1 DEF LocalOK, UserRec
    <2>5. Send(t, out)
      BY <2>1
    <2> HIDE DEF out
    <2>6. ASSUME NEW y \in Server PROVE RenameStep(u, n, out[y], y)
      <3>1. out[y] \in Seq(Line) /\ <<>> \in Seq(Line)
        BY <2>3 DEF Outs
      <3>2. out[y] = out[y] \o <<>> /\ Clear(<<>>, u)
        BY <3>1, ClearLines
      <3> QED  BY <2>4, <3>1, <3>2 DEF RenameStep, out
    <2>7. ASSUME NEW z \in User, z # u, NEW y \in Server
          PROVE  OwnStep(z, out[y], y)
      <3>1. Clear(<<NICKLine(u, n, ts)>>, z)
        BY <2>7, ClearLines DEF NICKLine
      <3>2. ClearOut(out, z)
        BY <1>0, <3>1, ClearOuts DEF out, NickNews
      <3> QED  BY <2>4, <2>7, <3>2 DEF OwnStep, ClearOut
    <2>8. ASSUME NEW z \in User, NEW y \in Server PROVE OwnStep(z, out[y], y)
      BY <2>2, <2>6, <2>7 DEF OwnStep
    <2> QED  BY <2>3, <2>4, <2>5, <2>8 DEF Tells
  <1>6. CASE Register(u)
    <2> DEFINE out == propagate(t, None, <<uid_line(u)>>)
    <2>1. /\ users[u].phase = "named" /\ users'[u].phase = "reg"
          /\ users'[u].nick = users[u].nick
          /\ users'[u].nick_ts = users[u].nick_ts
          /\ \A w \in User : w # u => users'[w] = users[w]
      BY <1>6 DEF Register, LocalOK, UserRec
    <2>2. users[u].nick \in Name \cup {u} /\ users[u].signon \in Time
      BY <1>6 DEF Register, LocalOK, UserRec
    <2>3. <<uid_line(u)>> \in Seq(Line)
      BY <2>2, LineTypes DEF uid_line
    <2>4. out \in Outs /\ Send(t, out)
      BY <1>0, <1>6, <2>3, OutTypes DEF Register
    <2>5. ASSUME NEW z \in User, NEW y \in Server PROVE OwnStep(z, out[y], y)
      <3>1. CASE z = u
        <4>1. RegisterStep(u, out[y], y)
          BY <2>1 DEF RegisterStep
        <4> QED  BY <3>1, <4>1 DEF OwnStep
      <3>2. CASE z # u
        <4>1. Clear(<<uid_line(u)>>, z)
          BY <3>2, ClearLines DEF uid_line, UIDLine
        <4>2. ClearOut(out, z)
          BY <1>0, <4>1, ClearOuts
        <4> QED  BY <2>1, <3>2, <4>2 DEF OwnStep, ClearOut
      <3> QED  BY <3>1, <3>2
    <2>6. \A w \in User : Home[w] # t => users'[w] = users[w]
      BY <2>1
    <2> HIDE DEF out
    <2> QED  BY <1>1, <2>4, <2>5, <2>6 DEF Tells
  <1>7. CASE Quit(u)
    <2> DEFINE out == QuitNews(u)
    <2>1. /\ Connected(u) /\ users'[u].phase = "gone"
          /\ \A z \in User : z # u => users'[z] = users[z]
      BY <1>7 DEF Quit, remove_user, LocalOK, UserRec
    <2>2. out \in Outs /\ Send(t, out)
      BY <1>7, NewsTypes DEF Quit
    <2>3. ASSUME NEW z \in User, NEW y \in Server PROVE OwnStep(z, out[y], y)
      <3>1. CASE z = u
        BY <2>1, <3>1 DEF OwnStep
      <3>2. CASE z # u
        <4>1. Clear(<<QUITLine(u)>>, z)
          BY <3>2, ClearLines DEF QUITLine
        <4>2. ClearOut(out, z)
          BY <1>0, <4>1, ClearOuts DEF QuitNews
        <4> QED  BY <2>1, <3>2, <4>2 DEF OwnStep, ClearOut
      <3> QED  BY <3>1, <3>2
    <2>4. \A w \in User : Home[w] # t => users'[w] = users[w]
      BY <2>1
    <2> HIDE DEF out
    <2> QED  BY <1>1, <2>2, <2>3, <2>4 DEF Tells
  <1>8. ASSUME NEW w \in User, route_kill(u, w) PROVE Tells(t)
    <2> DEFINE v == link_toward(t, w)
               out == link_out(v, <<KILLLine(u, w)>>)
    <2>1. users' = users /\ Send(t, out) /\ v \in Server
      BY <1>0, <1>8 DEF route_kill, link_toward, RemoteOK, RemoteRec
    <2>2. <<KILLLine(u, w)>> \in Seq(Line)
      BY LineTypes
    <2>3. out \in Outs
      BY <2>1, <2>2, OutTypes
    <2>4. ASSUME NEW z \in User, NEW y \in Server PROVE OwnStep(z, out[y], y)
      <3>1. Clear(<<KILLLine(u, w)>>, z)
        BY ClearLines DEF KILLLine
      <3>2. ClearOut(out, z)
        BY <2>1, <3>1, ClearOuts
      <3> QED  BY <2>1, <3>2 DEF OwnStep, ClearOut
    <2> HIDE DEF out
    <2> QED  BY <2>1, <2>3, <2>4 DEF Tells
  <1> QED  BY <1>1, <1>3, <1>4, <1>5, <1>6, <1>7, <1>8 DEF Client

\* So that everybody stays on track, and in step with the nicks.
LEMMA ClientTracked ==
    ASSUME IInv, Tracked, Forgotten, NEW b \in User, Client(b)
    PROVE  /\ Tracked' /\ Forgotten'
           /\ ~Straddle /\ Followed => Followed'
  <1> USE DEF IInv
  <1> DEFINE a == Home[b]
  <1>0. a \in Server
    BY ConstantsAssumption
  <1>1. remote_users' = remote_users /\ link' = link
    BY ClientTells
  <1>2. PICK out \in Outs :
        /\ Send(a, out)
        /\ \A u \in User : Home[u] # a => users'[u] = users[u]
        /\ \A u \in User, y \in Server : Home[u] = a => OwnStep(u, out[y], y)
    BY ClientTells DEF Tells
  <1>3. Forgotten'
    BY <1>1 DEF Forgotten
  <1> HIDE DEF a
  <1>4. ASSUME NEW s \in Server, NEW u \in User, s # Home[u],
               Open(s, Home[u])
        PROVE  LET t == Home[u]
               IN  /\ Home[u] = a => net'[t][s] = net[t][s] \o out[s]
                   /\ Home[u] # a => net'[t][s] = net[t][s]
                   /\ net'[s][t] = net[s][t] \/ s = a
                   /\ \E o \in Seq(Line) : net'[s][t] = net[s][t] \o o
                   /\ t \in Server /\ net[t][s] \in Seq(Line)
                   /\ net[s][t] \in Seq(Line) /\ out[s] \in Seq(Line)
    <2> DEFINE t == Home[u]
    <2>1. /\ t \in Server /\ net[t][s] \in Seq(Line) /\ net[s][t] \in Seq(Line)
          /\ out[s] \in Seq(Line) /\ out[t] \in Seq(Line)
      BY ConstantsAssumption DEF Queues, Outs
    <2>2. Send(a, out) /\ link[s][t] # "none" /\ net \in Queues
      BY <1>2, <1>4 DEF Open
    <2> HIDE DEF t
    <2>3. /\ t = a => net'[t][s] = net[t][s] \o out[s]
          /\ t # a => net'[t][s] = net[t][s]
      BY <1>0, <2>1, <2>2 DEF Send, Written, Queues
    <2>4. /\ s # a => net'[s][t] = net[s][t]
          /\ s = a => \/ net'[s][t] = net[s][t]
                      \/ net'[s][t] = net[s][t] \o out[t]
      BY <1>0, <2>1, <2>2 DEF Send, Written, Queues
    <2>5. net[s][t] = net[s][t] \o <<>> /\ <<>> \in Seq(Line)
      BY <2>1
    <2> QED  BY <2>1, <2>3, <2>4, <2>5 DEF t
  <1>5. Tracked'
    <2>1. ASSUME NEW s \in Server, NEW u \in User, s # Home[u],
                 Open(s, Home[u])
          PROVE  Tracks(net'[Home[u]][s], u, Known(s, u),
                        link[Home[u]][s] = "up", users'[u].phase)
      <3> DEFINE t == Home[u]
                 q == net[t][s]
      <3>1. Tracks(q, u, Known(s, u), link[t][s] = "up", users[u].phase)
        BY <2>1 DEF Tracked
      <3>2. q \in Seq(Line) /\ out[s] \in Seq(Line) /\ Known(s, u) \in BOOLEAN
        BY <1>4, <2>1 DEF Known
      <3>3. CASE t = a
        <4>1. OwnStep(u, out[s], s) /\ net'[t][s] = q \o out[s]
          BY <1>2, <1>4, <2>1, <3>3
        <4>2. Tracks(q \o out[s], u, Known(s, u), link[t][s] = "up",
                     users'[u].phase)
          BY <3>1, <3>2, <4>1, OwnTracks
        <4> QED  BY <4>1, <4>2
      <3>4. CASE t # a
        <4>1. users'[u] = users[u] /\ net'[t][s] = q
          BY <1>2, <1>4, <2>1, <3>4
        <4> QED  BY <3>1, <4>1
      <3> QED  BY <3>3, <3>4
    <2> QED  BY <1>1, <2>1 DEF Tracked, Open, Known
  <1>6. ASSUME ~Straddle, Followed PROVE Followed'
    <2>1. ASSUME NEW s \in Server, NEW u \in User, s # Home[u],
                 Open(s, Home[u]), link[Home[u]][s] = "up",
                 users'[u].phase = "reg"
          PROVE  Follows(net'[Home[u]][s], net'[s][Home[u]], u, users'[u].nick,
                         users'[u].nick_ts, remote_users[s][u].nick)
      <3> DEFINE t == Home[u]
                 q == net[t][s]
                 r == net[s][t]
                 c == remote_users[s][u].nick
      <3>1. users[u].phase = "reg" =>
               Follows(q, r, u, users[u].nick, users[u].nick_ts, c)
        BY <1>6, <2>1 DEF Followed
      <3>2. q \in Seq(Line) /\ out[s] \in Seq(Line) /\ r \in Seq(Line)
        BY <1>4, <2>1
      <3>3. CASE t = a
        <4>1. OwnStep(u, out[s], s) /\ net'[t][s] = q \o out[s]
              /\ net'[s][t] = r
          BY <1>2, <1>4, <2>1, <3>3
        <4>2. Follows(q \o out[s], r, u, users'[u].nick, users'[u].nick_ts, c)
          BY <1>6, <2>1, <3>1, <3>2, <4>1, OwnFollows
        <4> QED  BY <4>1, <4>2
      <3>4. CASE t # a
        <4>1. users'[u] = users[u] /\ net'[t][s] = q
          BY <1>2, <1>4, <2>1, <3>4
        <4>2. PICK o \in Seq(Line) : net'[s][t] = r \o o
          BY <1>4, <2>1
        <4>3. Follows(q, r, u, users[u].nick, users[u].nick_ts, c)
          BY <2>1, <3>1, <4>1
        <4>4. Follows(q, r \o o, u, users[u].nick, users[u].nick_ts, c)
          BY <3>2, <4>3, FollowsAnswer
        <4> QED  BY <4>1, <4>2, <4>4
      <3> QED  BY <3>3, <3>4
    <2> QED  BY <1>1, <2>1 DEF Followed, Open
  <1> QED  BY <1>3, <1>5, <1>6

-----------------------------------------------------------------------------
(* Links                                                                    *)

\* Nothing is known of the users behind a link that is not up.
LEMMA UnknownUnlinked ==
    ASSUME IInv, NEW s \in Server, NEW u \in User, link[s][Home[u]] # "up"
    PROVE  Known(s, u) = FALSE
  BY ConstantsAssumption, NoneApart DEF IInv, NoRoutingGhost, Known

\* A new connection starts with empty hands on both sides.
LEMMA AddLinkTracked ==
    ASSUME IInv, Tracked, Forgotten, NEW a \in Server, NEW b \in Server,
           add_link(a, b)
    PROVE  /\ Tracked' /\ Forgotten'
           /\ Followed => Followed'
  <1> USE DEF IInv
  <1>1. /\ users' = users /\ remote_users' = remote_users /\ a # b
        /\ link[a][b] = "none" /\ link[b][a] = "none"
        /\ link' = [link EXCEPT ![a][b] = "out", ![b][a] = "in"]
        /\ net' = [net EXCEPT ![a][b] = <<SERVERLine>>, ![b][a] = <<>>]
    BY DEF add_link
  <1>2. ASSUME NEW x \in Server, NEW y \in Server
        PROVE  IF {x, y} = {a, b}
               THEN /\ link'[x][y] \in {"in", "out"} /\ link[x][y] = "none"
                    /\ net'[x][y] \in {<<>>, <<SERVERLine>>}
               ELSE link'[x][y] = link[x][y] /\ net'[x][y] = net[x][y]
    <2>1. (x = a /\ y = b) \/ (x = b /\ y = a) <=> {x, y} = {a, b}
      BY <1>1
    <2>2. CASE x = a /\ y = b
      BY <1>1, <2>1, <2>2 DEF LinkOK, Queues
    <2>3. CASE x = b /\ y = a
      BY <1>1, <2>1, <2>3 DEF LinkOK, Queues
    <2>4. CASE ~(x = a /\ y = b) /\ ~(x = b /\ y = a)
      <3>1. link'[x][y] = link[x][y]
        BY <1>1, <2>4 DEF LinkOK
      <3>2. net'[x][y] = net[x][y]
        BY <1>1, <2>4 DEF Queues
      <3> QED  BY <2>1, <2>4, <3>1, <3>2
    <2> QED  BY <2>2, <2>3, <2>4
  <1>3. Forgotten'
    BY <1>1 DEF Forgotten
  <1>4. ASSUME NEW s \in Server, NEW u \in User, s # Home[u], Open(s, Home[u])'
        PROVE  Tracks(net'[Home[u]][s], u, Known(s, u),
                      link'[Home[u]][s] = "up", users[u].phase)
    <2> DEFINE t == Home[u]
    <2>0. t \in Server
      BY ConstantsAssumption
    <2>1. CASE {s, t} = {a, b}
      <3>1. {t, s} = {a, b}
        BY <2>1
      <3>2. /\ link'[t][s] \in {"in", "out"} /\ link[s][t] = "none"
            /\ net'[t][s] \in {<<>>, <<SERVERLine>>}
        BY <1>2, <2>0, <2>1, <3>1
      <3>3. Known(s, u) = FALSE /\ (link'[t][s] = "up") = FALSE
        BY <3>2, UnknownUnlinked
      <3>4. \A i \in DOMAIN net'[t][s] : net'[t][s][i].cmd = "SERVER"
        BY <3>2 DEF SERVERLine
      <3>5. ~Says(net'[t][s], "UID", u) /\ ~Says(net'[t][s], "QUIT", u)
        BY <3>4 DEF Says, Bears
      <3>6. Tracks(net'[t][s], u, FALSE, FALSE, users[u].phase)
        BY <3>4, <3>5 DEF Tracks, Bears
      <3> QED  BY <3>3, <3>6
    <2>2. CASE {s, t} # {a, b}
      <3>1. {t, s} # {a, b}
        BY <2>2
      <3>2. /\ link'[t][s] = link[t][s] /\ link'[s][t] = link[s][t]
            /\ net'[t][s] = net[t][s]
        BY <1>2, <2>0, <2>2, <3>1
      <3> QED  BY <1>4, <3>2 DEF Tracked, Open
    <2> QED  BY <2>1, <2>2
  <1>5. Tracked'
    BY <1>1, <1>4 DEF Tracked, Known
  <1>6. ASSUME Followed, NEW s \in Server, NEW u \in User, s # Home[u],
               Open(s, Home[u])', link'[Home[u]][s] = "up",
               users[u].phase = "reg"
        PROVE  Follows(net'[Home[u]][s], net'[s][Home[u]], u, users[u].nick,
                       users[u].nick_ts, remote_users[s][u].nick)
    <2> DEFINE t == Home[u]
    <2>0. t \in Server
      BY ConstantsAssumption
    <2>1. {t, s} # {a, b}
      BY <1>2, <1>6, <2>0
    <2>2. {s, t} # {a, b}
      BY <2>1
    <2>3. /\ link'[t][s] = link[t][s] /\ link'[s][t] = link[s][t]
          /\ net'[t][s] = net[t][s] /\ net'[s][t] = net[s][t]
      BY <1>2, <2>0, <2>1, <2>2
    <2> QED  BY <1>6, <2>3 DEF Followed, Open
  <1>7. Followed => Followed'
    BY <1>1, <1>6 DEF Followed
  <1> QED  BY <1>3, <1>5, <1>7

\* Closing a link forgets what came over it and touches nothing else.
LEMMA CloseLinkTracked ==
    ASSUME IInv, Tracked, Forgotten, NEW a \in Server, NEW b \in Server,
           close_link(a, b)
    PROVE  /\ Tracked' /\ Forgotten'
           /\ Followed => Followed'
  <1> USE DEF IInv
  <1>1. /\ users' = users
        /\ link' = [link EXCEPT ![a][b] = "none"]
        /\ net' = [net EXCEPT ![b][a] = <<>>]
        /\ remote_users' = [remote_users EXCEPT ![a] =
              [u \in User |-> IF u \in Behind(a, b) THEN Absent ELSE @[u]]]
    BY DEF close_link, drop_remote_users
  <1>2. ASSUME NEW s \in Server, NEW u \in User
        PROVE  remote_users'[s][u] =
                  IF s = a /\ remote_users[s][u].via = b THEN Absent
                  ELSE remote_users[s][u]
    BY <1>1 DEF Behind, RemoteOK
  <1>3. Forgotten'
    BY <1>2 DEF Forgotten
  <1>4. ASSUME NEW s \in Server, NEW u \in User, s # Home[u], Open(s, Home[u])'
        PROVE  LET t == Home[u]
               IN  /\ Open(s, t) /\ link'[t][s] = link[t][s]
                   /\ net'[t][s] = net[t][s] /\ net'[s][t] = net[s][t]
                   /\ remote_users'[s][u] = remote_users[s][u]
    <2> DEFINE t == Home[u]
    <2>0. t \in Server
      BY ConstantsAssumption
    <2>1. ~(s = a /\ t = b) /\ ~(t = a /\ s = b)
      BY <1>1, <1>4, <2>0 DEF Open, LinkOK
    <2>2. link'[s][t] = link[s][t] /\ link'[t][s] = link[t][s]
      BY <1>1, <2>0, <2>1 DEF LinkOK
    <2>3. net'[t][s] = net[t][s] /\ net'[s][t] = net[s][t]
      BY <1>1, <2>0, <2>1 DEF Queues
    <2>4. ~(s = a /\ remote_users[s][u].via = b)
      BY <2>1, NoneApart DEF NoRoutingGhost
    <2>5. Open(s, t)
      BY <1>4, <2>2 DEF Open
    <2> QED  BY <1>2, <2>2, <2>3, <2>4, <2>5
  <1>5. Tracked'
    BY <1>1, <1>4 DEF Tracked, Known
  <1>6. Followed => Followed'
    BY <1>1, <1>4 DEF Followed
  <1> QED  BY <1>3, <1>5, <1>6

\* The burst introduces every registered user of s, once each.
LEMMA Burst ==
    ASSUME IInv, NEW s \in Server, NEW q \in BurstOrders(s), NEW g \in Seq(Line),
           \A i \in DOMAIN g : g[i].cmd = "SERVER"
    PROVE  LET o == g \o [i \in DOMAIN q |-> uid_line(q[i])]
           IN  /\ o \in Seq(Line)
               /\ \A i \in DOMAIN o : \/ o[i].cmd = "SERVER"
                                      \/ \E u \in Registered(s) : o[i] = uid_line(u)
               /\ \A u \in Registered(s) : \E i \in DOMAIN o : o[i] = uid_line(u)
               /\ \A i, j \in DOMAIN o : \A u : Bears(o[i], "UID", u) /\ Bears(o[j], "UID", u) => i = j
  <1> USE DEF IInv
  <1> DEFINE k == Cardinality(Registered(s))
             intro == [i \in DOMAIN q |-> uid_line(q[i])]
             o == g \o intro
  <1>1. IsFiniteSet(Registered(s)) /\ k \in Nat
    <2>1. IsFiniteSet(Registered(s))
      BY FS_Subset, ConstantsAssumption DEF Registered
    <2> QED  BY <2>1, FS_CardinalityType
  <1>2. q \in [1 .. k -> Registered(s)]
        /\ \A i, j \in DOMAIN q : q[i] = q[j] => i = j
    BY DEF BurstOrders
  <1>3. \A i \in 1 .. k : uid_line(q[i]) \in Line
    <2> SUFFICES ASSUME NEW i \in 1 .. k PROVE uid_line(q[i]) \in Line
      OBVIOUS
    <2>1. q[i] \in User /\ users[q[i]].phase = "reg" /\ Home[q[i]] = s
      BY <1>2 DEF Registered
    <2>2. users[q[i]].nick \in Name \cup {q[i]} /\ users[q[i]].signon \in Time
      BY <2>1 DEF LocalOK, UserRec
    <2> QED  BY <2>1, <2>2, LineTypes DEF uid_line
  <1>4. intro \in Seq(Line) /\ DOMAIN intro = 1 .. k /\ DOMAIN q = 1 .. k
    <2>1. intro \in [1 .. k -> Line] /\ DOMAIN q = 1 .. k
      BY <1>2, <1>3
    <2> QED  BY <1>1, <2>1
  \* an injection into a set of the same size reaches everybody
  <1>5. \A u \in Registered(s) : \E i \in 1 .. k : q[i] = u
    <2>1. q \in Injection(1 .. k, Registered(s))
      BY <1>2 DEF Injection, IsInjective
    <2>2. Cardinality(1 .. k) = k
      BY <1>1, FS_Interval
    <2>3. q \in Surjection(1 .. k, Registered(s))
      BY <1>1, <2>1, <2>2, FS_Injection
    <2> QED  BY <2>3 DEF Surjection
  <1>6. \A i \in 1 .. k : intro[i] = uid_line(q[i])
    BY <1>4
  <1> HIDE DEF k, intro
  <1>7. o \in Seq(Line)
    BY <1>4
  <1>8. ASSUME NEW i \in DOMAIN o
        PROVE  \/ i \in DOMAIN g /\ o[i] = g[i]
               \/ /\ i \notin DOMAIN g
                  /\ i - Len(g) \in 1 .. k /\ o[i] = uid_line(q[i - Len(g)])
    <2>1. CASE i \in DOMAIN g
      BY <1>4, <2>1, Appended
    <2>2. CASE i \notin DOMAIN g
      <3>0. intro \in Seq(Line) /\ DOMAIN intro = 1 .. Len(intro)
        BY <1>4
      <3>2. i > Len(g) /\ i - Len(g) \in DOMAIN intro
        BY <2>2, <3>0, Appended
      <3>1. i - Len(g) \in DOMAIN intro /\ o[i] = intro[i - Len(g)]
        BY <3>0, <3>2
      <3> QED  BY <1>4, <1>6, <2>2, <3>1
    <2> QED  BY <2>1, <2>2
  <1>9. ASSUME NEW i \in DOMAIN o
        PROVE  \/ o[i].cmd = "SERVER"
               \/ \E u \in Registered(s) : o[i] = uid_line(u)
    BY <1>2, <1>4, <1>8
  <1>10. ASSUME NEW u \in Registered(s)
         PROVE  \E i \in DOMAIN o : o[i] = uid_line(u)
    <2>1. PICK i \in 1 .. k : q[i] = u
      BY <1>5
    <2>0. intro \in Seq(Line) /\ i \in DOMAIN intro
      BY <1>4
    <2>2. Len(g) + i \in DOMAIN o /\ o[Len(g) + i] = intro[i]
      BY <2>0, Appended
    <2> QED  BY <1>6, <2>1, <2>2
  <1>11. ASSUME NEW i \in DOMAIN o, NEW j \in DOMAIN o, NEW u,
                Bears(o[i], "UID", u), Bears(o[j], "UID", u)
         PROVE  i = j
    <2>1. /\ i - Len(g) \in 1 .. k /\ o[i] = uid_line(q[i - Len(g)])
          /\ j - Len(g) \in 1 .. k /\ o[j] = uid_line(q[j - Len(g)])
      BY <1>8, <1>11 DEF Bears
    <2>2. q[i - Len(g)] = u /\ q[j - Len(g)] = u
      BY <1>11, <2>1 DEF Bears, uid_line, UIDLine
    <2>3. i - Len(g) = j - Len(g)
      BY <1>2, <1>4, <2>1, <2>2
    <2>4. i \in Int /\ j \in Int /\ Len(g) \in Int
      BY <1>7
    <2> QED  BY <2>3, <2>4
  <1> QED  BY <1>7, <1>9, <1>10, <1>11 DEF intro

\* SERVER and its burst: the peer is about to learn of exactly the registered
\* users, and by the nicks they have.
LEMMA ServerTracked ==
    ASSUME IInv, Tracked, Forgotten, NEW a \in Server, NEW v \in Server,
           link_server(a, v)
    PROVE  /\ Tracked' /\ Forgotten'
           /\ Followed => Followed'
  <1> USE DEF IInv
  <1>1. /\ users' = users /\ remote_users' = remote_users
        /\ link[a][v] \in {"in", "out"} /\ net[v][a] # <<>>
        /\ Head(net[v][a]).cmd = "SERVER"
        /\ link' = [link EXCEPT ![a][v] = "up"]
    BY DEF link_server
  <1>2. a # v
    BY <1>1 DEF LinkOK
  <1> DEFINE g == IF link[a][v] = "in" THEN <<SERVERLine>> ELSE <<>>
  <1>3. PICK w \in BurstOrders(a) :
           Receive(a, v, link_out(v, g \o [i \in DOMAIN w |-> uid_line(w[i])]))
    BY DEF link_server
  <1> DEFINE o == g \o [i \in DOMAIN w |-> uid_line(w[i])]
             out == link_out(v, o)
  <1>4. g \in Seq(Line) /\ \A i \in DOMAIN g : g[i].cmd = "SERVER"
    BY LineTypes DEF SERVERLine
  <1> HIDE DEF g
  <1>5. /\ o \in Seq(Line)
        /\ \A i \in DOMAIN o : \/ o[i].cmd = "SERVER"
                               \/ \E u \in Registered(a) : o[i] = uid_line(u)
        /\ \A u \in Registered(a) : \E i \in DOMAIN o : o[i] = uid_line(u)
        /\ \A i, j \in DOMAIN o : \A u :
              Bears(o[i], "UID", u) /\ Bears(o[j], "UID", u) => i = j
    BY <1>4, Burst
  <1>6. out \in Outs /\ Receive(a, v, out)
    BY <1>3, <1>5, OutTypes
  <1>7. out[v] = o /\ \A y \in Server : y # v => out[y] = <<>>
    BY DEF link_out
  <1> HIDE DEF o, out
  <1>8. Forgotten'
    BY <1>1 DEF Forgotten
  <1>9. \A x, y \in Server : ~(x = a /\ y = v) => link'[x][y] = link[x][y]
    BY <1>1 DEF LinkOK
  <1>10. ASSUME NEW s \in Server, NEW u \in User, s # Home[u],
                Open(s, Home[u])'
         PROVE  Open(s, Home[u])
    BY <1>1, <1>10, ConstantsAssumption DEF Open, LinkOK
  \* what u's server has just burst to s
  <1>11. ASSUME NEW s \in Server, NEW u \in User, a = Home[u], s = v,
                Open(s, Home[u])
         PROVE  /\ net'[a][s] = net[a][s] \o o
                /\ Tracks(net[a][s] \o o, u, Known(s, u), TRUE, users[u].phase)
                /\ \A r, c : users[u].phase = "reg" =>
                      Follows(net[a][s] \o o, r, u, users[u].nick,
                              users[u].nick_ts, c)
    <2> DEFINE q == net[a][s]
    <2>0. q \in Seq(Line) /\ link[s][a] # "none" /\ net \in Queues
      BY <1>11 DEF Queues, Open
    <2>1. net'[a][s] = q \o o
      BY <1>2, <1>6, <1>7, <1>11, <2>0, ReceiveWrites
    <2>2. ~Known(s, u) /\ ~Says(q, "UID", u) /\ ~Says(q, "QUIT", u)
      <3>1. Tracks(q, u, Known(s, u), link[a][s] = "up", users[u].phase)
        BY <1>2, <1>11 DEF Tracked
      <3>2. link[a][s] # "up"
        BY <1>1, <1>11
      <3> QED  BY <3>1, <3>2 DEF Tracks
    <2>3. Known(s, u) = FALSE
      BY <2>2 DEF Known
    <2>4. ASSUME NEW i \in DOMAIN o
          PROVE  ~Bears(o[i], "QUIT", u) /\ ~Bears(o[i], "NICK", u)
      BY <1>5 DEF Bears, uid_line, UIDLine
    <2>5. CASE users[u].phase = "reg"
      <3>1. u \in Registered(a)
        BY <1>11, <2>5 DEF Registered
      <3>2. PICK k \in DOMAIN o : o[k] = uid_line(u)
        BY <1>5, <3>1
      <3>3. /\ Bears(o[k], "UID", u) /\ o[k].nick = users[u].nick
            /\ o[k].cmd # "NICK"
        BY <3>2 DEF Bears, uid_line, UIDLine
      <3>4. Says(o, "UID", u) /\ ~Says(o, "QUIT", u)
        BY <2>4, <3>3 DEF Says
      <3>5. Tracks(q \o o, u, FALSE, TRUE, "reg")
        BY <1>5, <2>0, <2>2, <3>4, TracksIntroduced
      <3>6. \A j \in DOMAIN o : j # k => ~Calls(o[j], u)
        BY <1>5, <2>4, <3>3 DEF Calls
      <3>7. Calls(o[k], u)
        BY <3>3 DEF Calls
      <3>8. ASSUME NEW r, NEW c
            PROVE  Follows(q \o o, r, u, users[u].nick, users[u].nick_ts, c)
        BY <1>5, <2>0, <3>3, <3>6, <3>7, FollowsCalled
      <3> QED  BY <2>1, <2>3, <2>5, <3>5, <3>8
    <2>6. CASE users[u].phase # "reg"
      <3>1. ASSUME NEW i \in DOMAIN o PROVE ~Bears(o[i], "UID", u)
        BY <1>5, <2>6 DEF Bears, uid_line, UIDLine, Registered
      <3>2. Silent(o, u)
        BY <2>4, <3>1 DEF Silent
      <3>3. Tracks(q, u, FALSE, TRUE, users[u].phase)
        BY <2>2, <2>6 DEF Tracks, Says
      <3>4. Tracks(q \o o, u, FALSE, TRUE, users[u].phase)
        BY <1>5, <2>0, <3>2, <3>3, TracksAppended
      <3> QED  BY <2>1, <2>3, <2>6, <3>4
    <2> QED  BY <2>5, <2>6
  \* what the others see
  <1>12. ASSUME NEW s \in Server, NEW u \in User, s # Home[u],
                Open(s, Home[u]), ~(a = Home[u] /\ s = v)
         PROVE  LET t == Home[u]
                    q == net[t][s]
                IN  /\ \/ net'[t][s] = q
                       \/ /\ q # <<>> /\ Head(q).cmd = "SERVER"
                          /\ net'[t][s] = Tail(q)
                    /\ \E p \in Seq(Line) : net'[s][t] = net[s][t] \o p
                    /\ link'[t][s] = link[t][s]
                    /\ q \in Seq(Line) /\ net[s][t] \in Seq(Line)
    <2> DEFINE t == Home[u]
               q == net[t][s]
               r == net[s][t]
    <2>0. /\ t \in Server /\ q \in Seq(Line) /\ r \in Seq(Line)
          /\ net \in Queues /\ link[t][s] # "none" /\ link[s][t] # "none"
          /\ <<>> \in Seq(Line)
      BY <1>12, ConstantsAssumption DEF Queues, Open
    <2>1. link'[t][s] = link[t][s]
      BY <1>9, <1>12, <2>0
    <2>2. net'[t][s] = q \/ (/\ q # <<>> /\ Head(q).cmd = "SERVER"
                             /\ net'[t][s] = Tail(q))
      <3>1. CASE a = t
        <4>1. net'[t][s] = q \o out[s]
          BY <1>2, <1>6, <2>0, <3>1, ReceiveWrites
        <4>2. out[s] = <<>>
          BY <1>7, <1>12, <3>1
        <4> QED  BY <2>0, <4>1, <4>2
      <3>2. CASE a = s /\ v = t
        BY <1>1, <1>2, <1>6, <2>0, <3>2, ReceiveQueues
      <3>3. CASE a # t /\ ~(a = s /\ v = t)
        BY <1>2, <1>6, <2>0, <3>3, ReceiveQueues
      <3> QED  BY <3>1, <3>2, <3>3
    <2>3. \E p \in Seq(Line) : net'[s][t] = r \o p
      <3>1. CASE a = s
        <4>1. net'[s][t] = r \o out[t] /\ out[t] \in Seq(Line)
          BY <1>2, <1>6, <2>0, <3>1, ReceiveWrites DEF Outs
        <4> QED  BY <4>1
      <3>2. CASE a # s
        <4>1. ~(s = v /\ t = a)
          BY <1>12
        <4>2. net'[s][t] = r
          BY <1>2, <1>6, <2>0, <3>2, <4>1, ReceiveQueues
        <4>3. r = r \o <<>>
          BY <2>0
        <4> QED  BY <2>0, <4>2, <4>3
      <3> QED  BY <3>1, <3>2
    <2> QED  BY <2>0, <2>1, <2>2, <2>3
  <1>13. ASSUME NEW s \in Server, NEW u \in User, s # Home[u],
                Open(s, Home[u])'
         PROVE  Tracks(net'[Home[u]][s], u, Known(s, u),
                       link'[Home[u]][s] = "up", users[u].phase)
    <2> DEFINE t == Home[u]
               q == net[t][s]
    <2>1. Open(s, t)
      BY <1>10, <1>13
    <2>2. CASE a = t /\ s = v
      <3>1. (link'[t][s] = "up") = TRUE
        BY <1>1, <2>2 DEF LinkOK
      <3>2. /\ net'[a][s] = net[a][s] \o o
            /\ Tracks(net[a][s] \o o, u, Known(s, u), TRUE, users[u].phase)
        BY <1>11, <2>1, <2>2
      <3> QED  BY <2>2, <3>1, <3>2
    <2>3. CASE ~(a = t /\ s = v)
      <3>0. Known(s, u) \in BOOLEAN /\ (link[t][s] = "up") \in BOOLEAN
        BY DEF Known
      <3>1. Tracks(q, u, Known(s, u), link[t][s] = "up", users[u].phase)
        BY <1>13, <2>1 DEF Tracked
      <3>2. /\ \/ net'[t][s] = q
               \/ /\ q # <<>> /\ Head(q).cmd = "SERVER"
                  /\ net'[t][s] = Tail(q)
            /\ link'[t][s] = link[t][s] /\ q \in Seq(Line)
        BY <1>12, <1>13, <2>1, <2>3
      <3>3. CASE net'[t][s] = q
        BY <3>1, <3>2, <3>3
      <3>4. CASE /\ q # <<>> /\ Head(q).cmd = "SERVER"
                 /\ net'[t][s] = Tail(q)
        <4>1. ~Bears(Head(q), "UID", u) /\ ~Bears(Head(q), "QUIT", u)
          BY <3>4 DEF Bears
        <4>2. Tracks(Tail(q), u, Known(s, u), link[t][s] = "up", users[u].phase)
          BY <3>0, <3>1, <3>2, <3>4, <4>1, TracksRead
        <4> QED  BY <3>2, <3>4, <4>2
      <3> QED  BY <3>2, <3>3, <3>4
    <2> QED  BY <2>2, <2>3
  <1>14. Tracked'
    BY <1>1, <1>13 DEF Tracked, Known
  <1>15. ASSUME Followed, NEW s \in Server, NEW u \in User, s # Home[u],
                Open(s, Home[u])', link'[Home[u]][s] = "up",
                users[u].phase = "reg"
         PROVE  Follows(net'[Home[u]][s], net'[s][Home[u]], u, users[u].nick,
                        users[u].nick_ts, remote_users[s][u].nick)
    <2> DEFINE t == Home[u]
               q == net[t][s]
               r == net[s][t]
               n == users[u].nick
               ts == users[u].nick_ts
               c == remote_users[s][u].nick
    <2>1. Open(s, t)
      BY <1>10, <1>15
    <2>2. CASE a = t /\ s = v
      <3>1. net'[a][s] = net[a][s] \o o
        BY <1>11, <2>1, <2>2
      <3>2. \A p, d : Follows(net[a][s] \o o, p, u, n, ts, d)
        BY <1>11, <1>15, <2>1, <2>2
      <3> QED  BY <2>2, <3>1, <3>2
    <2>3. CASE ~(a = t /\ s = v)
      <3>2. /\ \/ net'[t][s] = q
               \/ /\ q # <<>> /\ Head(q).cmd = "SERVER"
                  /\ net'[t][s] = Tail(q)
            /\ link'[t][s] = link[t][s] /\ q \in Seq(Line) /\ r \in Seq(Line)
        BY <1>12, <1>15, <2>1, <2>3
      <3>1. Follows(q, r, u, n, ts, c)
        BY <1>15, <2>1, <3>2 DEF Followed
      <3>3. PICK p \in Seq(Line) : net'[s][t] = r \o p
        BY <1>12, <1>15, <2>1, <2>3
      <3>4. Follows(net'[t][s], r, u, n, ts, c)
        <4>1. CASE net'[t][s] = q
          BY <3>1, <4>1
        <4>2. CASE /\ q # <<>> /\ Head(q).cmd = "SERVER"
                   /\ net'[t][s] = Tail(q)
          <5>1. ~Calls(Head(q), u)
            BY <4>2 DEF Calls, Bears
          <5>2. Follows(Tail(q), r, u, n, ts, c)
            BY <3>1, <3>2, <4>2, <5>1, FollowsRead
          <5> QED  BY <4>2, <5>2
        <4> QED  BY <3>2, <4>1, <4>2
      <3>5. Follows(net'[t][s], r \o p, u, n, ts, c)
        BY <3>2, <3>4, FollowsAnswer
      <3> QED  BY <3>3, <3>5
    <2> QED  BY <2>2, <2>3
  <1>16. Followed => Followed'
    BY <1>1, <1>15 DEF Followed
  <1> QED  BY <1>8, <1>14, <1>16

-----------------------------------------------------------------------------
(* Theorems                                                                 *)

CInv == IInv /\ Tracked /\ Forgotten

\* Nobody is connected and nothing is linked at the start.
LEMMA ConvergeInit == Init => CInv /\ Followed
  <1> SUFFICES ASSUME Init PROVE Tracked /\ Forgotten /\ Followed
    BY InitInv DEF CInv
  <1>1. \A s, t \in Server : ~Open(s, t)
    BY DEF Init, Open
  <1>2. \A u \in User : Home[u] \in Server
    BY ConstantsAssumption
  <1>3. Forgotten
    BY DEF Init, Forgotten
  <1> QED  BY <1>1, <1>2, <1>3 DEF Tracked, Followed

\* Every line of the network but SERVER is read by one of five handlers.
LEMMA HandlerStep ==
    ASSUME CInv, NEW s \in Server, NEW v \in Server,
           \/ link_uid_recv(s, v) \/ link_nick_recv(s, v)
           \/ link_save_recv(s, v) \/ link_quit_recv(s, v)
           \/ link_kill_recv(s, v)
    PROVE  Reads(s, v) /\ link' = link /\ net[v][s] # <<>> /\ s # v
  <1> USE DEF CInv
  <1>1. CASE link_uid_recv(s, v)
    BY <1>1, UidReads, FirstLine DEF link_uid_recv
  <1>2. CASE link_nick_recv(s, v)
    BY <1>2, NickReads, FirstLine DEF link_nick_recv
  <1>3. CASE link_save_recv(s, v)
    BY <1>3, SaveReads, FirstLine DEF link_save_recv
  <1>4. CASE link_quit_recv(s, v)
    BY <1>4, QuitReads, FirstLine DEF link_quit_recv
  <1>5. CASE link_kill_recv(s, v)
    BY <1>5, KillReads, FirstLine DEF link_kill_recv
  <1> QED  BY <1>1, <1>2, <1>3, <1>4, <1>5

\* Every step of the network keeps everybody on track, and in step with the nicks
\* when a handler reads the clock once.
LEMMA ConvergeStep ==
    ASSUME CInv, [Next]_vars
    PROVE  CInv' /\ (~Straddle /\ Followed => Followed')
  <1> USE DEF CInv
  <1>0. IInv'
    BY InvStep
  <1>1. CASE \E u \in User : Client(u)
    BY <1>0, <1>1, ClientTracked
  <1>2. ASSUME NEW s \in Server, NEW v \in Server, on_link(s, v)
        PROVE  CInv' /\ (~Straddle /\ Followed => Followed')
    <2>1. CASE link_server(s, v)
      BY <1>0, <2>1, ServerTracked
    <2>2. CASE ~link_server(s, v)
      <3>1. Reads(s, v) /\ link' = link /\ net[v][s] # <<>> /\ s # v
        BY <1>2, <2>2, HandlerStep DEF on_link
      <3> QED  BY <1>0, <3>1, ReadsTracked, ReadsFollowed
    <2> QED  BY <2>1, <2>2
  <1>3. ASSUME NEW s \in Server, NEW v \in Server, add_link(s, v)
        PROVE  CInv' /\ (~Straddle /\ Followed => Followed')
    BY <1>0, <1>3, AddLinkTracked
  <1>4. ASSUME NEW s \in Server, NEW v \in Server, close_link(s, v)
        PROVE  CInv' /\ (~Straddle /\ Followed => Followed')
    BY <1>0, <1>4, CloseLinkTracked
  <1>5. CASE Tick \/ UNCHANGED vars
    <2>1. /\ users' = users /\ remote_users' = remote_users
          /\ link' = link /\ net' = net
      BY <1>5 DEF Tick, vars
    <2>2. Tracked' /\ Forgotten'
      BY <2>1 DEF Tracked, Forgotten, Open, Known
    <2>3. Followed => Followed'
      BY <2>1 DEF Followed, Open
    <2> QED  BY <1>0, <2>2, <2>3
  <1> QED  BY <1>1, <1>2, <1>3, <1>4, <1>5 DEF Next

\* For any servers, links, users and bounds, with netsplits, KILLs, collisions and
\* registrations in any order: once the lines of a link have been read, each end
\* has a copy of exactly the registered users of the other.
THEOREM DirectoryCorrect == Spec => []DirectoryConverges
  <1>1. Init => CInv
    BY ConvergeInit
  <1>2. CInv /\ [Next]_vars => CInv'
    BY ConvergeStep
  <1>3. CInv => DirectoryConverges
    <2> SUFFICES ASSUME CInv, NEW s \in Server, NEW t \in Server, Quiet(s, t),
                        NEW u \in User, Home[u] = t
                 PROVE  remote_users[s][u].via = t <=> users[u].phase = "reg"
      BY DEF DirectoryConverges
    <2>1. s # t
      BY DEF Quiet, CInv, IInv, LinkOK
    <2>2. Tracks(<<>>, u, Known(s, u), TRUE, users[u].phase)
      <3>1. Tracks(net[t][s], u, Known(s, u), link[t][s] = "up", users[u].phase)
        BY <2>1 DEF CInv, Tracked, Open, Quiet
      <3>2. net[t][s] = <<>> /\ (link[t][s] = "up") = TRUE
        BY DEF Quiet
      <3> QED  BY <3>1, <3>2
    <2>3. ~Says(<<>>, "UID", u) /\ ~Says(<<>>, "QUIT", u)
      BY DEF Says
    <2> QED  BY <2>2, <2>3 DEF Tracks, Known
  <1> QED  BY <1>1, <1>2, <1>3, PTL DEF Spec

\* ... and calls each of them by the nick it has or by its uuid, when every
\* handler reads the clock once (two reads in one handler may straddle a second,
\* and the peer's SAVE then names a timestamp the user does not have).
THEOREM NicksFollow == ~Straddle => (Spec => []NoStaleNick)
  <1> SUFFICES ASSUME ~Straddle PROVE Spec => []NoStaleNick
    OBVIOUS
  <1>1. Init => CInv /\ Followed
    BY ConvergeInit
  <1>2. (CInv /\ Followed) /\ [Next]_vars => (CInv /\ Followed)'
    BY ConvergeStep
  <1>3. CInv /\ Followed => NoStaleNick
    <2> SUFFICES ASSUME CInv, Followed, NEW s \in Server, NEW t \in Server,
                        Quiet(s, t), NEW u \in Registered(t)
                 PROVE  remote_users[s][u].nick \in {users[u].nick, u}
      BY DEF NoStaleNick
    <2>1. s # t
      BY DEF Quiet, CInv, IInv, LinkOK
    <2>2. u \in User /\ Home[u] = t /\ users[u].phase = "reg"
      BY DEF Registered
    <2>3. Follows(net[t][s], net[s][t], u, users[u].nick, users[u].nick_ts,
                  remote_users[s][u].nick)
      BY <2>1, <2>2 DEF Followed, Open, Quiet
    <2>4. net[t][s] = <<>> /\ net[s][t] = <<>>
      BY DEF Quiet
    <2> QED  BY <2>3, <2>4 DEF Follows
  <1> QED  BY <1>1, <1>2, <1>3, PTL DEF Spec
=============================================================================
