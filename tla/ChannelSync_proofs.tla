-------------------------- MODULE ChannelSync_proofs --------------------------
(***************************************************************************)
(* What holds of the channel of ChannelSync in a network of any shape: its *)
(* members have a record wherever they are listed, and its timestamp never *)
(* rises while it exists.                                                  *)
(***************************************************************************)
EXTENDS ChannelSync, FiniteSetTheorems, TLAPS

\* No server has a link with itself.
NoSelfLink == \A s \in Server : link[s][s] = "none"

\* A remote user is known through its own server, which is another one.
RemoteFromHome ==
    \A s \in Server, u \in User :
        remote[s][u] # None => remote[s][u] = Home[u] /\ Home[u] # s

\* The inductive invariant.
IInv == TypeOK /\ NoSelfLink /\ RemoteFromHome /\ MembersHaveRecords

Queues == [Server -> [Server -> Seq(Line)]]

-----------------------------------------------------------------------------
(* Lines                                                                    *)

\* What a line of each kind carries.
LEMMA LineFields ==
    ASSUME NEW l \in Line
    PROVE  /\ l.cmd \in {"UID", "QUIT", "PART"} => l.u \in User
           /\ l.cmd = "FJOIN" => /\ l.ts \in Time
                                 /\ l.modes \subseteq Flag
                                 /\ l.mem \in [User -> Status]
           /\ l.cmd = "IJOIN" => l.u \in User /\ l.ts \in Time
           /\ l.cmd = "KICK" => l.src \in User /\ l.u \in User
           /\ l.cmd = "FMODE" => /\ l.src \in User \cup Server
                                 /\ l.ts \in Time
                                 /\ l.change \in Change
           /\ l.cmd = "FTOPIC" => /\ l.src \in User
                                  /\ l.ts \in Time
                                  /\ l.topic \in Topic
BY DEF Line

\* The lines that are built are lines.
LEMMA LineTypes ==
    /\ \A u \in User : UIDLine(u) \in Line /\ QUITLine(u) \in Line /\ PARTLine(u) \in Line
    /\ \A ts \in Time, ms \in SUBSET Flag, mem \in [User -> Status] :
          FJOINLine(ts, ms, mem) \in Line
    /\ \A u \in User, ts \in Time : IJOINLine(u, ts) \in Line
    /\ \A k, u \in User : KICKLine(k, u) \in Line
    /\ \A src \in User \cup Server, ts \in Time, ch \in Change :
          FMODELine(src, ts, ch) \in Line
    /\ \A u \in User, ts \in Time, tp \in Topic : FTOPICLine(u, ts, tp) \in Line
    /\ SERVERLine \in Line
BY DEF Line, UIDLine, QUITLine, PARTLine, FJOINLine, IJOINLine, KICKLine,
       FMODELine, FTOPICLine, SERVERLine

\* The first line of a queue is a line and the others are a queue.
LEMMA HeadTail ==
    ASSUME NEW q \in Seq(Line), q # <<>>
    PROVE  Head(q) \in Line /\ Tail(q) \in Seq(Line)
OBVIOUS

\* Writing appends lines to queues.
LEMMA WrittenType ==
    ASSUME NEW queues \in Queues, NEW s \in Server, NEW out \in [Server -> Seq(Line)]
    PROVE  Written(queues, s, out) \in Queues
<1>1. ASSUME NEW t \in Server PROVE queues[s][t] \o out[t] \in Seq(Line)
  BY DEF Queues
<1> QED BY <1>1 DEF Written, Queues

\* The lines told to the links are lines.
LEMMA PropagateType ==
    ASSUME NEW s \in Server, NEW except, NEW lines \in Seq(Line)
    PROVE  /\ propagate(s, except, lines) \in [Server -> Seq(Line)]
           /\ Nothing \in [Server -> Seq(Line)]
BY DEF propagate, Nothing

\* A server that sends lines keeps the queues typed.
LEMMA SendType ==
    ASSUME TypeOK, NEW s \in Server, NEW except, NEW lines \in Seq(Line),
           Send(s, propagate(s, except, lines))
    PROVE  net' \in Queues
BY PropagateType, WrittenType DEF Send, TypeOK, Queues

\* So does a server that reads one.
LEMMA ReceiveType ==
    ASSUME TypeOK, NEW s \in Server, NEW v \in Server, net[v][s] # <<>>,
           NEW out \in [Server -> Seq(Line)], Receive(s, v, out)
    PROVE  net' \in Queues
<1> DEFINE q == [net EXCEPT ![v][s] = Tail(@)]
<1>1. net \in Queues BY DEF TypeOK, Queues
<1>2. Tail(net[v][s]) \in Seq(Line) BY <1>1, HeadTail DEF Queues
<1>3. q \in Queues BY <1>1, <1>2 DEF Queues
<1> QED BY <1>3, WrittenType DEF Receive

\* A line that is read is a line, and telling it or not keeps the queues typed.
LEMMA LineRead ==
    ASSUME TypeOK, NEW s \in Server, NEW v \in Server, net[v][s] # <<>>
    PROVE  /\ Head(net[v][s]) \in Line
           /\ Forward(s, v) \/ Swallow(s, v) => net' \in Queues
<1>1. Head(net[v][s]) \in Line BY HeadTail DEF TypeOK
<1>2. <<Head(net[v][s])>> \in Seq(Line) BY <1>1
<1> QED BY <1>1, <1>2, PropagateType, ReceiveType DEF Forward, Swallow

-----------------------------------------------------------------------------
(* The channel                                                              *)

Chans == [Server -> Channel \cup {None}]

\* None is no channel and no topic.
LEMMA NoneIsNothing == None \notin Channel /\ None \notin Topic /\ None \notin Server
BY ChannelAssumption

\* A channel is known by its fields.
LEMMA ChannelFields ==
    ASSUME NEW ch \in Channel
    PROVE  /\ ch.created \in Time /\ ch.modes \subseteq Flag /\ ch.bans \subseteq Mask
           /\ ch.topic \in Topic \cup {None} /\ ch.mem \in [User -> Status]
BY DEF Channel

\* A new channel is a channel nobody is in.
LEMMA NewChannelType ==
    ASSUME NEW ts \in Time
    PROVE  /\ NewChannel(ts) \in Channel
           /\ NewChannel(ts).created = ts
           /\ NewChannel(ts).modes \subseteq Flag
           /\ NewChannel(ts).mem = Nobody
           /\ Nobody \in [User -> Status]
           /\ \A u \in User : NewChannel(ts).mem[u] = "out"
BY ChannelAssumption DEF NewChannel, Channel, Nobody, Status

\* Leaving removes those who leave and nobody else; the timestamp stays.
LEMMA LeftEffect ==
    ASSUME chan \in Chans, NEW s \in Server, NEW gone \in SUBSET User
    PROVE  /\ Left(s, gone) \in Chans
           /\ \A t \in Server : t # s => Left(s, gone)[t] = chan[t]
           /\ Left(s, gone)[s] # None =>
                 /\ chan[s] # None
                 /\ Left(s, gone)[s].created = chan[s].created
                 /\ \A u \in User : Left(s, gone)[s].mem[u] # "out" =>
                       u \notin gone /\ chan[s].mem[u] # "out"
<1>1. CASE chan[s] = None BY <1>1 DEF Left, Chans
<1>2. CASE chan[s] # None
  <2>1. chan[s] \in Channel BY <1>2 DEF Chans
  <2>2. /\ Without(chan[s], gone) \in Channel
        /\ Without(chan[s], gone).created = chan[s].created
        /\ \A u \in User : Without(chan[s], gone).mem[u] # "out" =>
              u \notin gone /\ chan[s].mem[u] # "out"
    BY <2>1 DEF Without, Channel, Status
  <2> QED BY <1>2, <2>1, <2>2 DEF Left, Retained, Chans
<1> QED BY <1>1, <1>2

\* What joining does: one more member, of a channel that is made if need be.
LEMMA JoinedEffect ==
    ASSUME TypeOK, NEW u \in User
    PROVE  /\ Joined(u) \in Chans
           /\ propagate_join(u) \in Line
           /\ \A t \in Server : t # Home[u] => Joined(u)[t] = chan[t]
           /\ Joined(u)[Home[u]] \in Channel
           /\ \A w \in User : w # u /\ Joined(u)[Home[u]].mem[w] # "out" =>
                 chan[Home[u]] # None /\ chan[Home[u]].mem[w] # "out"
           /\ chan[Home[u]] # None =>
                 Joined(u)[Home[u]].created = chan[Home[u]].created
<1> DEFINE s == Home[u]
<1>0. s \in Server /\ chan \in Chans /\ now \in Time
  BY ChannelAssumption DEF TypeOK, Chans
<1>1. CASE chan[s] = None
  <2> DEFINE ch == [NewChannel(now) EXCEPT !.mem[u] = "op"]
  <2>1. ch \in Channel /\ \A w \in User : w # u => ch.mem[w] = "out"
    BY <1>0, NewChannelType, ChannelFields DEF Channel, Status
  <2>2. Joined(u) = [chan EXCEPT ![s] = ch] BY <1>1 DEF Joined
  <2>3. [Nobody EXCEPT ![u] = "op"] \in [User -> Status] BY DEF Nobody, Status
  <2>4. propagate_join(u) \in Line
    BY <1>0, <1>1, <2>3, LineTypes, ChannelAssumption DEF propagate_join
  <2> HIDE DEF ch
  <2> QED BY <1>0, <1>1, <2>1, <2>2, <2>4 DEF Chans
<1>2. CASE chan[s] # None
  <2> DEFINE ch == [chan[s] EXCEPT !.mem[u] = "in"]
  <2>1. chan[s] \in Channel BY <1>0, <1>2 DEF Chans
  <2>2. /\ ch \in Channel /\ ch.created = chan[s].created
        /\ \A w \in User : w # u => ch.mem[w] = chan[s].mem[w]
    BY <2>1 DEF Channel, Status
  <2>3. Joined(u) = [chan EXCEPT ![s] = ch] BY <1>2 DEF Joined
  <2>4. propagate_join(u) \in Line
    BY <1>0, <1>2, <2>1, LineTypes, ChannelFields DEF propagate_join
  <2> HIDE DEF ch
  <2> QED BY <1>0, <1>2, <2>1, <2>2, <2>3, <2>4 DEF Chans
<1> QED BY <1>1, <1>2

\* What a mode change does: nobody joins and the timestamp stays.
LEMMA AppliedEffect ==
    ASSUME NEW ch \in Channel, NEW c \in Change
    PROVE  /\ Applied(ch, c) \in Channel
           /\ Applied(ch, c).created = ch.created
           /\ \A u \in User : Applied(ch, c).mem[u] # "out" => ch.mem[u] # "out"
<1>1. CASE c.kind = "flag"
  <2>1. c.flag \in Flag BY <1>1 DEF Change, FlagChange, BanChange, OpChange
  <2> QED BY <1>1, <2>1 DEF Applied, Channel
<1>2. CASE c.kind = "ban"
  <2>1. c.mask \in Mask BY <1>2 DEF Change, FlagChange, BanChange, OpChange
  <2> QED BY <1>2, <2>1 DEF Applied, Channel
<1>3. CASE c.kind = "op"
  <2>1. c.u \in User BY <1>3 DEF Change, FlagChange, BanChange, OpChange
  <2> QED BY <1>3, <2>1 DEF Applied, Channel, Status
<1> QED BY <1>1, <1>2, <1>3 DEF Change, FlagChange, BanChange, OpChange

-----------------------------------------------------------------------------
(* The invariant, action by action.  Every lemma also has the timestamps.   *)

AgeKept == \A s \in Server : chan[s] # None /\ chan'[s] # None
              => chan'[s].created <= chan[s].created

\* A timestamp is a number of seconds.
LEMMA AgeRefl ==
    ASSUME TypeOK, NEW s \in Server, chan[s] # None
    PROVE  chan[s] \in Channel /\ chan[s].created \in Time
           /\ chan[s].created <= chan[s].created
BY DEF TypeOK, Channel, Time

\* Init makes it true.
LEMMA InitIInv == Init => IInv
<1> SUFFICES ASSUME Init PROVE IInv OBVIOUS
<1>1. /\ MaxTime \in Nat /\ MaxCmds \in Nat /\ MaxLinks \in Nat BY ChannelAssumption
<1>2. TypeOK
  <2>1. dropped \in BOOLEAN BY Zenon DEF Init
  <2>2. net \in [Server -> [Server -> Seq(Line)]] BY DEF Init
  <2>3. chan \in [Server -> Channel \cup {None}] BY DEF Init
  <2> QED BY <1>1, <2>1, <2>2, <2>3 DEF Init, TypeOK, LinkState, Time
<1>3. NoSelfLink /\ RemoteFromHome BY DEF Init, NoSelfLink, RemoteFromHome
<1>4. MembersHaveRecords BY DEF Init, MembersHaveRecords, Status_at
<1> QED BY <1>2, <1>3, <1>4 DEF IInv

\* The history variable keeps its type.
LEMMA DroppingType == Dropping => dropped' \in BOOLEAN
BY DEF Dropping

\* A client registers, and may be joined to the channel at once.
LEMMA RegisterPreserves ==
    ASSUME IInv, NEW u \in User, Register(u), dropped' \in BOOLEAN
    PROVE  IInv' /\ AgeKept
<1> DEFINE s == Home[u]
           lines == (IF u \in Autojoin THEN <<propagate_join(u)>> ELSE <<>>) \o <<UIDLine(u)>>
<1>0. s \in Server /\ chan \in Chans /\ TypeOK
  BY ChannelAssumption DEF IInv, TypeOK, Chans
<1>1. propagate_join(u) \in Line /\ UIDLine(u) \in Line
  BY <1>0, JoinedEffect, LineTypes
<1>2. lines \in Seq(Line) BY <1>1
<1>3. net' \in Queues BY <1>0, <1>2, SendType DEF Register
<1>4. chan' \in Chans BY <1>0, JoinedEffect DEF Register
<1>5. TypeOK'
  BY <1>0, <1>3, <1>4 DEF Register, TypeOK, Queues, Chans
<1>6. (NoSelfLink /\ RemoteFromHome)'
  BY DEF IInv, NoSelfLink, RemoteFromHome, Register
<1>7. MembersHaveRecords'
  <2> SUFFICES ASSUME NEW t \in Server, NEW w \in User, Status_at(t, w)' # "out"
               PROVE  (IF Home[w] = t THEN phase[w] = "reg" ELSE remote[t][w] # None)'
    BY DEF MembersHaveRecords
  <2>1. (w = u /\ t = s) \/ Status_at(t, w) # "out"
    BY <1>0, JoinedEffect DEF Register, Status_at
  <2> QED BY <1>0, <2>1 DEF IInv, MembersHaveRecords, Register, TypeOK
<1>8. AgeKept
  BY <1>0, JoinedEffect, AgeRefl DEF Register, AgeKept
<1> QED BY <1>5, <1>6, <1>7, <1>8 DEF IInv

\* A registered client joins.
LEMMA JoinPreserves ==
    ASSUME IInv, NEW u \in User, join(u), dropped' \in BOOLEAN
    PROVE  IInv' /\ AgeKept
<1> DEFINE s == Home[u]
<1>0. s \in Server /\ chan \in Chans /\ TypeOK
  BY ChannelAssumption DEF IInv, TypeOK, Chans
<1>1. <<propagate_join(u)>> \in Seq(Line) BY <1>0, JoinedEffect
<1>2. net' \in Queues BY <1>0, <1>1, SendType DEF join
<1>3. chan' \in Chans BY <1>0, JoinedEffect DEF join
<1>4. TypeOK'
  BY <1>0, <1>2, <1>3, ChannelAssumption DEF join, Ask, TypeOK, Queues, Chans
<1>5. (NoSelfLink /\ RemoteFromHome)' BY DEF IInv, NoSelfLink, RemoteFromHome, join
<1>6. MembersHaveRecords'
  <2> SUFFICES ASSUME NEW t \in Server, NEW w \in User, Status_at(t, w)' # "out"
               PROVE  (IF Home[w] = t THEN phase[w] = "reg" ELSE remote[t][w] # None)'
    BY DEF MembersHaveRecords
  <2>1. (w = u /\ t = s) \/ Status_at(t, w) # "out"
    BY <1>0, JoinedEffect DEF join, Status_at
  <2> QED BY <1>0, <2>1 DEF IInv, MembersHaveRecords, join, TypeOK
<1>7. AgeKept BY <1>0, JoinedEffect, AgeRefl DEF join, AgeKept
<1> QED BY <1>4, <1>5, <1>6, <1>7 DEF IInv

\* Leaving can only empty the member list, so records may go with their members.
LEMMA LeftPreserves ==
    ASSUME IInv, NEW s \in Server, NEW gone \in SUBSET User, chan' = Left(s, gone),
           \A t \in Server, w \in User :
              \/ t = s /\ w \in gone
              \/ phase'[w] = phase[w] /\ remote'[t][w] = remote[t][w]
    PROVE  MembersHaveRecords' /\ AgeKept /\ chan' \in Chans
<1>0. chan \in Chans /\ TypeOK BY DEF IInv, TypeOK, Chans
<1>1. ASSUME NEW t \in Server, NEW w \in User, Status_at(t, w)' # "out"
      PROVE  Status_at(t, w) # "out" /\ ~(t = s /\ w \in gone)
  BY <1>0, <1>1, LeftEffect DEF Status_at
<1>2. MembersHaveRecords' BY <1>1 DEF IInv, MembersHaveRecords
<1>3. AgeKept BY <1>0, LeftEffect, AgeRefl DEF AgeKept
<1> QED BY <1>0, <1>2, <1>3, LeftEffect

\* A member leaves the channel.
LEMMA PartPreserves ==
    ASSUME IInv, NEW u \in User, part(u), dropped' \in BOOLEAN
    PROVE  IInv' /\ AgeKept
<1>0. Home[u] \in Server /\ TypeOK BY ChannelAssumption DEF IInv
<1>1. <<PARTLine(u)>> \in Seq(Line) BY LineTypes
<1>2. net' \in Queues BY <1>0, <1>1, SendType DEF part
<1>3. MembersHaveRecords' /\ AgeKept /\ chan' \in Chans
  BY <1>0, LeftPreserves, {u} \in SUBSET User DEF part
<1>a. chan' \in Chans BY <1>3
<1>b. UNCHANGED <<phase, remote, link, now, opened>> /\ asked' \in 0 .. MaxCmds
  BY <1>0, ChannelAssumption DEF part, Ask, TypeOK
<1>4. TypeOK' BY <1>0, <1>2, <1>a, <1>b DEF TypeOK, Queues, Chans
<1> QED BY <1>3, <1>4 DEF IInv, NoSelfLink, RemoteFromHome, part

\* A client quits: its own server forgets its membership with it.
LEMMA QuitPreserves ==
    ASSUME IInv, NEW u \in User, Quit(u), dropped' \in BOOLEAN
    PROVE  IInv' /\ AgeKept
<1> DEFINE s == Home[u]
<1>0. s \in Server /\ TypeOK /\ chan \in Chans BY ChannelAssumption DEF IInv, TypeOK, Chans
<1>1. <<QUITLine(u)>> \in Seq(Line) BY LineTypes
<1>2. net' \in Queues BY <1>0, <1>1, SendType DEF Quit
<1>3. chan' \in Chans BY <1>0, LeftEffect, {u} \in SUBSET User DEF Quit
<1>4. TypeOK' BY <1>0, <1>2, <1>3 DEF Quit, TypeOK, Queues, Chans
<1>5. MembersHaveRecords'
  <2> SUFFICES ASSUME NEW t \in Server, NEW w \in User, Status_at(t, w)' # "out"
               PROVE  (IF Home[w] = t THEN phase[w] = "reg" ELSE remote[t][w] # None)'
    BY DEF MembersHaveRecords
  <2>1. Status_at(t, w) # "out" /\ ~(t = s /\ w = u)
    BY <1>0, LeftEffect, {u} \in SUBSET User DEF Quit, Status_at
  <2> QED BY <1>0, <2>1 DEF IInv, MembersHaveRecords, Quit, TypeOK
<1>6. AgeKept BY <1>0, LeftEffect, AgeRefl, {u} \in SUBSET User DEF Quit, AgeKept
<1> QED BY <1>4, <1>5, <1>6 DEF IInv, NoSelfLink, RemoteFromHome, Quit

\* An operator kicks a member.
LEMMA KickPreserves ==
    ASSUME IInv, NEW k \in User, NEW u \in User, Kick(k, u), dropped' \in BOOLEAN
    PROVE  IInv' /\ AgeKept
<1>0. Home[k] \in Server /\ TypeOK BY ChannelAssumption DEF IInv
<1>1. <<KICKLine(k, u)>> \in Seq(Line) BY LineTypes
<1>2. net' \in Queues BY <1>0, <1>1, SendType DEF Kick
<1>3. MembersHaveRecords' /\ AgeKept /\ chan' \in Chans
  BY <1>0, LeftPreserves, {u} \in SUBSET User DEF Kick
<1>a. chan' \in Chans BY <1>3
<1>b. UNCHANGED <<phase, remote, link, now, opened>> /\ asked' \in 0 .. MaxCmds
  BY <1>0, ChannelAssumption DEF Kick, Ask, TypeOK
<1>4. TypeOK' BY <1>0, <1>2, <1>a, <1>b DEF TypeOK, Queues, Chans
<1> QED BY <1>3, <1>4 DEF IInv, NoSelfLink, RemoteFromHome, Kick

\* A change of one server's channel that adds no member and no age.
LEMMA TouchPreserves ==
    ASSUME IInv, NEW s \in Server, chan[s] # None, NEW ch \in Channel,
           ch.created = chan[s].created,
           \A u \in User : ch.mem[u] # "out" => chan[s].mem[u] # "out",
           chan' = [chan EXCEPT ![s] = ch],
           UNCHANGED <<phase, remote>>
    PROVE  MembersHaveRecords' /\ AgeKept /\ chan' \in Chans
<1>0. chan \in Chans /\ TypeOK BY DEF IInv, TypeOK, Chans
<1>1. chan' \in Chans BY <1>0 DEF Chans
<1>2. ASSUME NEW t \in Server, NEW w \in User, Status_at(t, w)' # "out"
      PROVE  Status_at(t, w) # "out"
  BY <1>0, <1>2, NoneIsNothing DEF Status_at, Chans
<1>3. MembersHaveRecords' BY <1>2 DEF IInv, MembersHaveRecords
<1>4. AgeKept BY <1>0, AgeRefl DEF AgeKept, Chans
<1> QED BY <1>1, <1>3, <1>4

\* An operator changes a mode.
LEMMA ModePreserves ==
    ASSUME IInv, NEW u \in User, NEW c \in Changes, Mode(u, c), dropped' \in BOOLEAN
    PROVE  IInv' /\ AgeKept
<1> DEFINE s == Home[u]
<1>0. s \in Server /\ TypeOK /\ c \in Change BY ChannelAssumption DEF IInv
<1>1. chan[s] # None /\ chan[s] \in Channel
  BY <1>0 DEF Mode, Oper, Status_at, TypeOK
<1>2. <<FMODELine(u, chan[s].created, c)>> \in Seq(Line)
  BY <1>0, <1>1, LineTypes, ChannelFields
<1>3. net' \in Queues BY <1>0, <1>2, SendType DEF Mode
<1>4. MembersHaveRecords' /\ AgeKept /\ chan' \in Chans
  <2> DEFINE ch == Applied(chan[s], c)
  <2>1. /\ ch \in Channel /\ ch.created = chan[s].created
        /\ \A w \in User : ch.mem[w] # "out" => chan[s].mem[w] # "out"
    BY <1>0, <1>1, AppliedEffect
  <2>2. chan' = [chan EXCEPT ![s] = ch] /\ UNCHANGED <<phase, remote>> BY DEF Mode
  <2> HIDE DEF ch, s
  <2> QED BY <1>0, <1>1, <2>1, <2>2, TouchPreserves
<1>a. chan' \in Chans BY <1>4
<1>5. TypeOK'
  BY <1>0, <1>3, <1>a, ChannelAssumption DEF Mode, Ask, TypeOK, Queues, Chans
<1> QED BY <1>4, <1>5 DEF IInv, NoSelfLink, RemoteFromHome, Mode

\* A topic does neither.
LEMMA TopicEffect ==
    ASSUME NEW ch \in Channel, NEW tp \in Topic
    PROVE  /\ [ch EXCEPT !.topic = tp] \in Channel
           /\ [ch EXCEPT !.topic = tp].created = ch.created
           /\ [ch EXCEPT !.topic = tp].mem = ch.mem
BY DEF Channel

\* An operator sets the topic.
LEMMA TopicPreserves ==
    ASSUME IInv, NEW u \in User, NEW text \in Text, TopicCmd(u, text), dropped' \in BOOLEAN
    PROVE  IInv' /\ AgeKept
<1> DEFINE s  == Home[u]
           tp == [text |-> text, ts |-> now]
<1>0. s \in Server /\ TypeOK /\ tp \in Topic BY ChannelAssumption DEF IInv, Topic, TypeOK
<1>1. chan[s] # None /\ chan[s] \in Channel
  BY <1>0 DEF TopicCmd, Oper, Status_at, TypeOK
<1>2. <<FTOPICLine(u, chan[s].created, tp)>> \in Seq(Line)
  BY <1>0, <1>1, LineTypes, ChannelFields
<1>3. net' \in Queues BY <1>0, <1>2, SendType DEF TopicCmd
<1>4. chan' = [chan EXCEPT ![s] = [chan[s] EXCEPT !.topic = tp]] BY DEF TopicCmd
<1>5. MembersHaveRecords' /\ AgeKept /\ chan' \in Chans
  <2> DEFINE ch == [chan[s] EXCEPT !.topic = tp]
  <2>1. ch \in Channel /\ ch.created = chan[s].created /\ ch.mem = chan[s].mem
    BY <1>0, <1>1, TopicEffect
  <2>2. chan' = [chan EXCEPT ![s] = ch] /\ UNCHANGED <<phase, remote>>
    BY <1>4 DEF TopicCmd
  <2> HIDE DEF ch, s
  <2> QED BY <1>0, <1>1, <2>1, <2>2, TouchPreserves
<1>a. chan' \in Chans BY <1>5
<1>6. TypeOK'
  BY <1>0, <1>3, <1>a, ChannelAssumption DEF TopicCmd, Ask, TypeOK, Queues, Chans
<1> QED BY <1>5, <1>6 DEF IInv, NoSelfLink, RemoteFromHome, TopicCmd

\* An empty channel is dropped.
LEMMA SweepPreserves ==
    ASSUME IInv, NEW s \in Server, Sweep(s), dropped' \in BOOLEAN
    PROVE  IInv' /\ AgeKept
<1>0. TypeOK BY DEF IInv
<1>1. TypeOK' BY <1>0 DEF Sweep, TypeOK
<1>2. MembersHaveRecords' BY <1>0 DEF IInv, MembersHaveRecords, Sweep, Status_at, TypeOK
<1>3. AgeKept BY <1>0, AgeRefl DEF AgeKept, Sweep, TypeOK
<1> QED BY <1>1, <1>2, <1>3 DEF IInv, NoSelfLink, RemoteFromHome, Sweep

-----------------------------------------------------------------------------
(* Links                                                                    *)

\* A connection is accepted.
LEMMA AddLinkPreserves ==
    ASSUME IInv, NEW s \in Server, NEW t \in Server, add_link(s, t), dropped' \in BOOLEAN
    PROVE  IInv' /\ AgeKept
<1>0. TypeOK /\ s # t BY DEF IInv, add_link
<1>1. <<SERVERLine>> \in Seq(Line) /\ <<>> \in Seq(Line) BY LineTypes
<1>2. net' \in Queues BY <1>0, <1>1 DEF add_link, TypeOK, Queues
<1>3. link' \in [Server -> [Server -> LinkState]] BY <1>0 DEF add_link, TypeOK, LinkState
<1>4. opened' \in 0 .. MaxLinks BY <1>0, ChannelAssumption DEF add_link, TypeOK
<1>5. TypeOK' BY <1>0, <1>2, <1>3, <1>4 DEF add_link, TypeOK, Queues
<1>6. NoSelfLink' BY <1>0 DEF IInv, add_link, NoSelfLink, TypeOK
<1>7. (RemoteFromHome /\ MembersHaveRecords)'
  BY DEF IInv, RemoteFromHome, MembersHaveRecords, Status_at, add_link
<1>8. AgeKept BY <1>0, AgeRefl DEF AgeKept, add_link
<1> QED BY <1>5, <1>6, <1>7, <1>8 DEF IInv

\* An order of a finite set is a sequence of its elements.
LEMMA OrdersType ==
    ASSUME NEW set, IsFiniteSet(set), NEW q \in Orders(set)
    PROVE  q \in Seq(set) /\ DOMAIN q = 1 .. Len(q) /\ Len(q) \in Nat
BY FS_CardinalityType DEF Orders

\* The burst is a sequence of lines.
LEMMA BurstType ==
    ASSUME TypeOK, NEW s \in Server, NEW us \in burst_users(s), NEW cs \in burst_channels(s)
    PROVE  us \in Seq(Line) /\ cs \in Seq(Line)
<1>1. us \in Seq(Line)
  <2> DEFINE mine == { u \in User : Home[u] = s /\ phase[u] = "reg" }
  <2>1. IsFiniteSet(mine) BY FS_Subset, ChannelAssumption
  <2>2. PICK q \in Orders(mine) : us = [i \in DOMAIN q |-> UIDLine(q[i])]
    BY DEF burst_users
  <2>3. q \in Seq(mine) /\ DOMAIN q = 1 .. Len(q) /\ Len(q) \in Nat
    BY <2>1, <2>2, OrdersType
  <2>4. \A i \in 1 .. Len(q) : UIDLine(q[i]) \in Line
    BY <2>3, LineTypes
  <2> HIDE DEF mine
  <2> QED BY <2>2, <2>3, <2>4
<1>2. cs \in Seq(Line)
  <2>1. CASE chan[s] = None \/ is_empty(chan[s])
    <3>1. cs = <<>> BY <2>1 DEF burst_channels
    <3> QED BY <3>1
  <2>2. CASE ~(chan[s] = None \/ is_empty(chan[s]))
    <3> DEFINE ban(m) == FMODELine(s, chan[s].created, [kind |-> "ban", mask |-> m, on |-> TRUE])
    <3>1. chan[s] \in Channel BY <2>2 DEF TypeOK
    <3>2. IsFiniteSet(chan[s].bans) /\ chan[s].bans \subseteq Mask
      BY <3>1, ChannelFields, FS_Subset, ChannelAssumption
    <3>3. PICK q \in Orders(chan[s].bans) :
             cs = <<FJOINLine(chan[s].created, chan[s].modes, chan[s].mem)>>
                  \o [i \in DOMAIN q |-> ban(q[i])]
      BY <2>2 DEF burst_channels
    <3>4. q \in Seq(chan[s].bans) /\ DOMAIN q = 1 .. Len(q) /\ Len(q) \in Nat
      BY <3>2, <3>3, OrdersType
    <3>5. \A m \in Mask : [kind |-> "ban", mask |-> m, on |-> TRUE] \in Change
      BY DEF Change, BanChange
    <3>6. \A m \in Mask : ban(m) \in Line
      BY <3>1, <3>5, ChannelFields, LineTypes
    <3>7. \A i \in 1 .. Len(q) : ban(q[i]) \in Line BY <3>2, <3>4, <3>6
    <3>8. FJOINLine(chan[s].created, chan[s].modes, chan[s].mem) \in Line
      BY <3>1, ChannelFields, LineTypes
    <3> HIDE DEF ban
    <3>9. [i \in DOMAIN q |-> ban(q[i])] \in Seq(Line) BY <3>4, <3>7
    <3> QED BY <3>3, <3>8, <3>9
  <2> QED BY <2>1, <2>2
<1> QED BY <1>1, <1>2

\* A SERVER line registers the link.
LEMMA LinkServerPreserves ==
    ASSUME IInv, NEW s \in Server, NEW v \in Server, link_server(s, v), dropped' \in BOOLEAN
    PROVE  IInv' /\ AgeKept
<1>0. TypeOK /\ s # v BY DEF IInv, link_server, NoSelfLink
<1>1. net' \in Queues
  <2>1. PICK us \in burst_users(s), cs \in burst_channels(s) :
          Receive(s, v, [Nothing EXCEPT ![v] =
              (IF link[s][v] = "in" THEN <<SERVERLine>> ELSE <<>>) \o us \o cs])
    BY DEF link_server
  <2> DEFINE first == IF link[s][v] = "in" THEN <<SERVERLine>> ELSE <<>>
  <2>2. first \in Seq(Line) BY LineTypes
  <2>3. us \in Seq(Line) /\ cs \in Seq(Line) BY <1>0, BurstType
  <2> HIDE DEF first
  <2> DEFINE all == first \o us \o cs
  <2>4. all \in Seq(Line) BY <2>2, <2>3
  <2> HIDE DEF all
  <2>5. [Nothing EXCEPT ![v] = all] \in [Server -> Seq(Line)]
    BY <2>2, <2>4, PropagateType
  <2>6. net[v][s] # <<>> BY DEF link_server
  <2> QED BY <1>0, <2>1, <2>5, <2>6, ReceiveType DEF first, all
<1>2. link' \in [Server -> [Server -> LinkState]]
  BY <1>0 DEF link_server, TypeOK, LinkState
<1>3. UNCHANGED <<phase, remote, chan, now, asked, opened>> BY DEF link_server
<1>4. TypeOK' BY <1>0, <1>1, <1>2, <1>3 DEF TypeOK, Queues
<1>5. NoSelfLink' BY <1>0 DEF IInv, link_server, NoSelfLink, TypeOK
<1>6. (RemoteFromHome /\ MembersHaveRecords)'
  BY <1>3 DEF IInv, RemoteFromHome, MembersHaveRecords, Status_at
<1>7. AgeKept BY <1>0, <1>3, AgeRefl DEF AgeKept
<1> QED BY <1>4, <1>5, <1>6, <1>7 DEF IInv

\* Users that are dropped leave the tables and the channel together.
LEMMA DropPreserves ==
    ASSUME IInv, NEW s \in Server, NEW gone \in SUBSET User,
           drop_remote_users(s, gone), phase' = phase
    PROVE  /\ MembersHaveRecords' /\ RemoteFromHome' /\ AgeKept
           /\ chan' \in Chans
           /\ remote' \in [Server -> [User -> Server \cup {None}]]
<1>0. TypeOK BY DEF IInv
<1>1. remote' \in [Server -> [User -> Server \cup {None}]]
  BY <1>0 DEF drop_remote_users, TypeOK
<1>2. \A t \in Server, w \in User :
         IF t = s /\ w \in gone THEN remote'[t][w] = None
         ELSE remote'[t][w] = remote[t][w]
  BY <1>0 DEF drop_remote_users, TypeOK
<1>3. RemoteFromHome' BY <1>2 DEF IInv, RemoteFromHome
<1>4. MembersHaveRecords' /\ AgeKept /\ chan' \in Chans
  <2>1. CASE gone = {}
    <3>1. chan' = chan BY <2>1 DEF drop_remote_users
    <3>2. MembersHaveRecords'
      BY <1>2, <2>1, <3>1 DEF IInv, MembersHaveRecords, Status_at
    <3>3. AgeKept BY <1>0, <3>1, AgeRefl DEF AgeKept
    <3> QED BY <1>0, <3>1, <3>2, <3>3 DEF TypeOK, Chans
  <2>2. CASE gone # {}
    BY <1>2, <2>2, LeftPreserves DEF drop_remote_users
  <2> QED BY <2>1, <2>2
<1> QED BY <1>1, <1>3, <1>4

\* A connection ends.
LEMMA CloseLinkPreserves ==
    ASSUME IInv, NEW s \in Server, NEW v \in Server, close_link(s, v), dropped' \in BOOLEAN
    PROVE  IInv' /\ AgeKept
<1>0. TypeOK BY DEF IInv
<1>1. /\ MembersHaveRecords' /\ RemoteFromHome' /\ AgeKept
      /\ chan' \in Chans
      /\ remote' \in [Server -> [User -> Server \cup {None}]]
  <2> DEFINE gone == { u \in User : remote[s][u] = v }
  <2>1. gone \in SUBSET User /\ drop_remote_users(s, gone) /\ phase' = phase
    BY DEF close_link
  <2> HIDE DEF gone
  <2> QED BY <2>1, DropPreserves
<1>2. net' \in Queues BY <1>0 DEF close_link, TypeOK, Queues
<1>3. link' \in [Server -> [Server -> LinkState]]
  BY <1>0 DEF close_link, TypeOK, LinkState
<1>4. UNCHANGED <<phase, now, asked, opened>> BY DEF close_link
<1>5. TypeOK'
  <2>1. chan' \in Chans /\ remote' \in [Server -> [User -> Server \cup {None}]] BY <1>1
  <2> QED BY <1>0, <1>2, <1>3, <1>4, <2>1 DEF TypeOK, Queues, Chans
<1>6. NoSelfLink' BY <1>0 DEF IInv, close_link, NoSelfLink, TypeOK
<1> QED BY <1>1, <1>5, <1>6 DEF IInv

-----------------------------------------------------------------------------
(* Lines received                                                           *)

\* What on_link leaves alone.
Rest == UNCHANGED <<phase, link, now, asked, opened>>

\* The parts of the invariant, put together after a line has been read.
LEMMA ReadPreserves ==
    ASSUME IInv, Rest, dropped' \in BOOLEAN,
           net' \in Queues, chan' \in Chans,
           remote' \in [Server -> [User -> Server \cup {None}]],
           RemoteFromHome', MembersHaveRecords'
    PROVE  IInv'
<1>1. TypeOK' BY DEF IInv, TypeOK, Rest, Queues, Chans
<1>2. NoSelfLink' BY DEF IInv, NoSelfLink, Rest
<1> QED BY <1>1, <1>2 DEF IInv

\* The same, of a line that changes no table.
LEMMA SwallowPreserves ==
    ASSUME IInv, Rest, dropped' \in BOOLEAN, net' \in Queues, UNCHANGED <<chan, remote>>
    PROVE  IInv' /\ AgeKept
<1>1. TypeOK BY DEF IInv
<1>2. chan' \in Chans /\ remote' \in [Server -> [User -> Server \cup {None}]]
  BY <1>1 DEF TypeOK, Chans
<1>3. RemoteFromHome' /\ MembersHaveRecords'
  BY DEF IInv, RemoteFromHome, MembersHaveRecords, Status_at, Rest
<1>4. AgeKept BY <1>1, AgeRefl DEF AgeKept
<1> QED BY <1>2, <1>3, <1>4, ReadPreserves

\* UID: the user is known through its own server, which is not this one.
LEMMA UidPreserves ==
    ASSUME IInv, NEW s \in Server, NEW v \in Server, link_uid_recv(s, v),
           Rest, dropped' \in BOOLEAN
    PROVE  IInv' /\ AgeKept
<1> DEFINE l == Head(net[v][s])
<1>0. TypeOK /\ s # v /\ net[v][s] # <<>> /\ l.cmd = "UID" /\ chan' = chan
  BY DEF IInv, NoSelfLink, link_uid_recv, First
<1>1. net' \in Queues BY <1>0, LineRead DEF link_uid_recv
<1>2. l.u \in User BY <1>0, LineRead, LineFields
<1> HIDE DEF l
<1>3. CASE source_behind(s, Home[l.u], v) /\ remote[s][l.u] = None
  <2>1. Home[l.u] = v BY <1>2, <1>3, ChannelAssumption DEF source_behind
  <2>2. remote' = [remote EXCEPT ![s][l.u] = v] BY <1>3 DEF link_uid_recv, l
  <2>3. /\ remote' \in [Server -> [User -> Server \cup {None}]]
        /\ \A t \in Server, w \in User :
              remote'[t][w] = IF t = s /\ w = l.u THEN v ELSE remote[t][w]
    BY <1>0, <1>2, <2>2 DEF TypeOK
  <2>4. RemoteFromHome' BY <1>0, <2>1, <2>3 DEF IInv, RemoteFromHome
  <2>5. MembersHaveRecords'
    BY <1>0, <2>3, NoneIsNothing DEF IInv, MembersHaveRecords, Status_at, Rest
  <2>6. AgeKept BY <1>0, AgeRefl DEF AgeKept
  <2>7. chan' \in Chans BY <1>0 DEF TypeOK, Chans
  <2> QED BY <1>1, <2>3, <2>4, <2>5, <2>6, <2>7, ReadPreserves
<1>4. CASE ~(source_behind(s, Home[l.u], v) /\ remote[s][l.u] = None)
  <2>1. remote' = remote BY <1>4 DEF link_uid_recv, l
  <2> QED BY <1>0, <1>1, <2>1, SwallowPreserves
<1> QED BY <1>3, <1>4

\* QUIT: a user that quits is dropped.
LEMMA QuitRecvPreserves ==
    ASSUME IInv, NEW s \in Server, NEW v \in Server, link_quit_recv(s, v),
           Rest, dropped' \in BOOLEAN
    PROVE  IInv' /\ AgeKept
<1> DEFINE l == Head(net[v][s])
<1>0. TypeOK /\ net[v][s] # <<>> /\ l.cmd = "QUIT"
  BY DEF IInv, link_quit_recv, First
<1>1. net' \in Queues BY <1>0, LineRead DEF link_quit_recv
<1>2. l.u \in User BY <1>0, LineRead, LineFields
<1>3. CASE sourced_via(s, l.u, v)
  <2>1. drop_remote_users(s, {l.u}) /\ {l.u} \in SUBSET User /\ phase' = phase
    BY <1>2, <1>3 DEF link_quit_recv, Rest
  <2> HIDE DEF l
  <2>2. /\ MembersHaveRecords' /\ RemoteFromHome' /\ AgeKept
        /\ chan' \in Chans
        /\ remote' \in [Server -> [User -> Server \cup {None}]]
    BY <2>1, DropPreserves
  <2> QED BY <1>1, <2>2, ReadPreserves
<1>4. CASE ~sourced_via(s, l.u, v)
  BY <1>1, <1>4, SwallowPreserves DEF link_quit_recv
<1> QED BY <1>3, <1>4

\* The side with the lower timestamp prevails; arbitration adds no member.
LEMMA ArbitratedEffect ==
    ASSUME TypeOK, NEW s \in Server, NEW l \in Line, l.cmd = "FJOIN"
    PROVE  /\ Arbitrated(s, l) \in Channel
           /\ chan[s] # None => Arbitrated(s, l).created <= chan[s].created
           /\ \A u \in User : Arbitrated(s, l).mem[u] # "out" =>
                 chan[s] # None /\ chan[s].mem[u] # "out"
<1>0. l.ts \in Time /\ l.modes \subseteq Flag /\ chan \in Chans
  BY LineFields DEF TypeOK, Chans
<1>1. CASE chan[s] = None
  BY <1>0, <1>1, NewChannelType DEF Arbitrated, Channel
<1>2. CASE chan[s] # None
  <2>1. chan[s] \in Channel /\ chan[s].created \in Int /\ l.ts \in Int
    BY <1>0, <1>2, ChannelFields DEF Chans, Time
  <2>2. CASE l.ts < chan[s].created
    BY <1>0, <1>2, <2>1, <2>2 DEF Arbitrated, Channel, Status
  <2>3. CASE l.ts = chan[s].created
    BY <1>0, <1>2, <2>1, <2>3 DEF Arbitrated, Channel
  <2>4. CASE l.ts > chan[s].created
    BY <1>0, <1>2, <2>1, <2>4 DEF Arbitrated
  <2> QED BY <2>1, <2>2, <2>3, <2>4
<1> QED BY <1>1, <1>2

\* FJOIN: the members it adds are remote users that this server knows.
LEMMA FjoinPreserves ==
    ASSUME IInv, NEW s \in Server, NEW v \in Server, link_fjoin_recv(s, v),
           Rest, dropped' \in BOOLEAN
    PROVE  IInv' /\ AgeKept
<1> DEFINE l    == Head(net[v][s])
           base == Arbitrated(s, l)
           mem  == [u \in User |-> IF u \notin Taken(s, l) THEN base.mem[u]
                      ELSE IF chan[s] # None /\ l.ts > chan[s].created THEN "in"
                      ELSE l.mem[u]]
           ch   == [base EXCEPT !.mem = mem]
<1>0. /\ TypeOK /\ net[v][s] # <<>> /\ l.cmd = "FJOIN" /\ remote' = remote
      /\ chan \in Chans
  BY DEF IInv, link_fjoin_recv, First, TypeOK, Chans
<1>1. net' \in Queues BY <1>0, LineRead DEF link_fjoin_recv
<1>2. l \in Line BY <1>0, LineRead
<1>3. chan' = [chan EXCEPT ![s] = ch] BY DEF link_fjoin_recv
<1>4. l.mem \in [User -> Status] BY <1>0, <1>2, LineFields
<1> HIDE DEF l
<1>5. /\ base \in Channel
      /\ chan[s] # None => base.created <= chan[s].created
      /\ \A u \in User : base.mem[u] # "out" => chan[s] # None /\ chan[s].mem[u] # "out"
  BY <1>0, <1>2, ArbitratedEffect
<1> HIDE DEF base
<1>6. mem \in [User -> Status] BY <1>4, <1>5, ChannelFields DEF Status
<1>7. \A u \in User : mem[u] # "out" => remote[s][u] # None \/ base.mem[u] # "out"
  BY DEF Taken
<1> HIDE DEF mem
<1>8. ch \in Channel /\ ch.created = base.created /\ ch.mem = mem
  BY <1>5, <1>6 DEF Channel
<1> HIDE DEF ch
<1>9. chan' \in Chans BY <1>0, <1>3, <1>8 DEF Chans
<1>10. MembersHaveRecords'
  <2> SUFFICES ASSUME NEW t \in Server, NEW w \in User, Status_at(t, w)' # "out"
               PROVE  (IF Home[w] = t THEN phase[w] = "reg" ELSE remote[t][w] # None)'
    BY DEF MembersHaveRecords
  <2>0. chan'[t] = IF t = s THEN ch ELSE chan[t] BY <1>0, <1>3 DEF Chans
  <2>1. Status_at(t, w) # "out" \/ (t = s /\ remote[s][w] # None)
    BY <1>5, <1>7, <1>8, <2>0 DEF Status_at
  <2>2. remote[t][w] # None => Home[w] # t BY DEF IInv, RemoteFromHome
  <2> QED BY <1>0, <2>1, <2>2 DEF IInv, MembersHaveRecords, Rest
<1>11. AgeKept BY <1>0, <1>3, <1>5, <1>8, AgeRefl DEF AgeKept, Chans
<1>12. RemoteFromHome' /\ remote' \in [Server -> [User -> Server \cup {None}]]
  BY <1>0 DEF IInv, RemoteFromHome, TypeOK
<1> QED BY <1>1, <1>9, <1>10, <1>11, <1>12, ReadPreserves

\* IJOIN: a remote user that this server knows joins.
LEMMA IjoinPreserves ==
    ASSUME IInv, NEW s \in Server, NEW v \in Server, link_ijoin_recv(s, v),
           Rest, dropped' \in BOOLEAN
    PROVE  IInv' /\ AgeKept
<1> DEFINE l    == Head(net[v][s])
           base == IF chan[s] = None THEN NewChannel(l.ts) ELSE chan[s]
           ch   == [base EXCEPT !.mem[l.u] = "in"]
<1>0. /\ TypeOK /\ net[v][s] # <<>> /\ l.cmd = "IJOIN" /\ remote' = remote
      /\ chan \in Chans
  BY DEF IInv, link_ijoin_recv, First, TypeOK, Chans
<1>1. net' \in Queues BY <1>0, LineRead DEF link_ijoin_recv
<1>2. l.u \in User /\ l.ts \in Time BY <1>0, LineRead, LineFields
<1>3. CASE sourced_via(s, l.u, v)
  <2>1. chan' = [chan EXCEPT ![s] = ch] BY <1>3 DEF link_ijoin_recv
  <2>2. remote[s][l.u] # None BY <1>3, NoneIsNothing DEF sourced_via
  <2> HIDE DEF l
  <2>3. /\ base \in Channel
        /\ chan[s] # None => base.created = chan[s].created
        /\ \A u \in User : base.mem[u] # "out" => chan[s] # None /\ chan[s].mem[u] # "out"
    BY <1>0, <1>2, NewChannelType DEF Chans
  <2> HIDE DEF base
  <2>4. /\ ch \in Channel /\ ch.created = base.created
        /\ \A u \in User : u # l.u => ch.mem[u] = base.mem[u]
    BY <1>2, <2>3 DEF Channel, Status
  <2> HIDE DEF ch
  <2>5. chan' \in Chans BY <1>0, <2>1, <2>4 DEF Chans
  <2>6. MembersHaveRecords'
    <3> SUFFICES ASSUME NEW t \in Server, NEW w \in User, Status_at(t, w)' # "out"
                 PROVE  (IF Home[w] = t THEN phase[w] = "reg" ELSE remote[t][w] # None)'
      BY DEF MembersHaveRecords
    <3>0. chan'[t] = IF t = s THEN ch ELSE chan[t] BY <1>0, <2>1 DEF Chans
    <3>1. Status_at(t, w) # "out" \/ (t = s /\ remote[s][w] # None)
      BY <2>2, <2>3, <2>4, <3>0 DEF Status_at
    <3>2. remote[t][w] # None => Home[w] # t BY DEF IInv, RemoteFromHome
    <3> QED BY <1>0, <3>1, <3>2 DEF IInv, MembersHaveRecords, Rest
  <2>7. AgeKept BY <1>0, <2>1, <2>3, <2>4, AgeRefl DEF AgeKept, Chans
  <2>8. RemoteFromHome' /\ remote' \in [Server -> [User -> Server \cup {None}]]
    BY <1>0 DEF IInv, RemoteFromHome, TypeOK
  <2> QED BY <1>1, <2>5, <2>6, <2>7, <2>8, ReadPreserves
<1>4. CASE ~sourced_via(s, l.u, v)
  BY <1>0, <1>1, <1>4, SwallowPreserves DEF link_ijoin_recv
<1> QED BY <1>3, <1>4

\* PART and KICK: a member leaves, or the line is ignored.
LEMMA LeaveRecvPreserves ==
    ASSUME IInv, NEW s \in Server, NEW v \in Server,
           link_part_recv(s, v) \/ link_kick_recv(s, v),
           Rest, dropped' \in BOOLEAN
    PROVE  IInv' /\ AgeKept
<1> DEFINE l == Head(net[v][s])
<1>0. /\ TypeOK /\ net[v][s] # <<>> /\ l.cmd \in {"PART", "KICK"} /\ remote' = remote
  BY DEF IInv, link_part_recv, link_kick_recv, First
<1>1. net' \in Queues BY <1>0, LineRead DEF link_part_recv, link_kick_recv
<1>2. {l.u} \in SUBSET User BY <1>0, LineRead, LineFields
<1>3. chan' = chan \/ chan' = Left(s, {l.u}) BY DEF link_part_recv, link_kick_recv
<1>4. CASE chan' = Left(s, {l.u})
  <2>1. MembersHaveRecords' /\ AgeKept /\ chan' \in Chans
    BY <1>0, <1>2, <1>4, LeftPreserves DEF Rest
  <2>2. RemoteFromHome' /\ remote' \in [Server -> [User -> Server \cup {None}]]
    BY <1>0 DEF IInv, RemoteFromHome, TypeOK
  <2> QED BY <1>1, <2>1, <2>2, ReadPreserves
<1>5. CASE chan' = chan BY <1>0, <1>1, <1>5, SwallowPreserves
<1> QED BY <1>3, <1>4, <1>5

\* FMODE: a mode changes, or nothing does.
LEMMA ModeRecvPreserves ==
    ASSUME IInv, NEW s \in Server, NEW v \in Server, link_mode_recv(s, v),
           Rest, dropped' \in BOOLEAN
    PROVE  IInv' /\ AgeKept
<1> DEFINE l  == Head(net[v][s])
           ch == Applied(chan[s], l.change)
<1>0. TypeOK /\ net[v][s] # <<>> /\ l.cmd = "FMODE" /\ remote' = remote
  BY DEF IInv, link_mode_recv, First
<1>1. net' \in Queues BY <1>0, LineRead DEF link_mode_recv
<1>2. l.change \in Change BY <1>0, LineRead, LineFields
<1>3. chan' = chan \/ (chan[s] # None /\ chan' = [chan EXCEPT ![s] = ch])
  <2>1. CASE ~source_behind(s, l.src, v) \/ chan[s] = None BY <2>1 DEF link_mode_recv
  <2>2. CASE ~(~source_behind(s, l.src, v) \/ chan[s] = None)
    <3>1. chan' = IF l.ts > chan[s].created THEN chan
                  ELSE [chan EXCEPT ![s] = Applied(@, l.change)]
      BY <2>2 DEF link_mode_recv
    <3> QED BY <2>2, <3>1
  <2> QED BY <2>1, <2>2
<1> HIDE DEF l
<1>4. CASE chan[s] # None /\ chan' = [chan EXCEPT ![s] = ch]
  <2>1. chan[s] \in Channel BY <1>0, <1>4 DEF TypeOK
  <2>2. /\ ch \in Channel /\ ch.created = chan[s].created
        /\ \A u \in User : ch.mem[u] # "out" => chan[s].mem[u] # "out"
    BY <1>2, <2>1, AppliedEffect
  <2> HIDE DEF ch
  <2>3. MembersHaveRecords' /\ AgeKept /\ chan' \in Chans
    BY <1>0, <1>4, <2>2, TouchPreserves DEF Rest
  <2>4. RemoteFromHome' /\ remote' \in [Server -> [User -> Server \cup {None}]]
    BY <1>0 DEF IInv, RemoteFromHome, TypeOK
  <2> QED BY <1>1, <2>3, <2>4, ReadPreserves
<1>5. CASE chan' = chan BY <1>0, <1>1, <1>5, SwallowPreserves
<1> QED BY <1>3, <1>4, <1>5

\* FTOPIC: the topic changes, or nothing does.
LEMMA TopicRecvPreserves ==
    ASSUME IInv, NEW s \in Server, NEW v \in Server, link_ftopic_recv(s, v),
           Rest, dropped' \in BOOLEAN
    PROVE  IInv' /\ AgeKept
<1> DEFINE l  == Head(net[v][s])
           ch == [chan[s] EXCEPT !.topic = l.topic]
<1>0. TypeOK /\ net[v][s] # <<>> /\ l.cmd = "FTOPIC" /\ remote' = remote
  BY DEF IInv, link_ftopic_recv, First
<1>1. net' \in Queues BY <1>0, LineRead DEF link_ftopic_recv
<1>2. l.topic \in Topic BY <1>0, LineRead, LineFields
<1>3. chan' = chan \/ (chan[s] # None /\ chan' = [chan EXCEPT ![s] = ch])
  <2>1. CASE ~source_behind(s, l.src, v) \/ chan[s] = None BY <2>1 DEF link_ftopic_recv
  <2>2. CASE ~(~source_behind(s, l.src, v) \/ chan[s] = None)
    <3>1. chan' \in {chan, [chan EXCEPT ![s].topic = l.topic]}
      BY <2>2 DEF link_ftopic_recv
    <3> QED BY <2>2, <3>1
  <2> QED BY <2>1, <2>2
<1> HIDE DEF l
<1>4. CASE chan[s] # None /\ chan' = [chan EXCEPT ![s] = ch]
  <2>1. chan[s] \in Channel BY <1>0, <1>4 DEF TypeOK
  <2>2. ch \in Channel /\ ch.created = chan[s].created /\ ch.mem = chan[s].mem
    BY <1>2, <2>1, TopicEffect
  <2> HIDE DEF ch
  <2>3. MembersHaveRecords' /\ AgeKept /\ chan' \in Chans
    BY <1>0, <1>4, <2>2, TouchPreserves DEF Rest
  <2>4. RemoteFromHome' /\ remote' \in [Server -> [User -> Server \cup {None}]]
    BY <1>0 DEF IInv, RemoteFromHome, TypeOK
  <2> QED BY <1>1, <2>3, <2>4, ReadPreserves
<1>5. CASE chan' = chan BY <1>0, <1>1, <1>5, SwallowPreserves
<1> QED BY <1>3, <1>4, <1>5

-----------------------------------------------------------------------------
(* The theorems                                                             *)

\* Every step preserves the invariant and raises no timestamp.
LEMMA NextIInv == IInv /\ [Next]_vars => IInv' /\ AgeKept
<1> SUFFICES ASSUME IInv, [Next]_vars PROVE IInv' /\ AgeKept OBVIOUS
<1>1. CASE Next
  <2>0. Step /\ dropped' \in BOOLEAN BY <1>1, DroppingType DEF Next
  <2>1. ASSUME NEW u \in User, Client(u) PROVE IInv' /\ AgeKept
    BY <2>0, <2>1, RegisterPreserves, JoinPreserves, PartPreserves, QuitPreserves,
       KickPreserves, ModePreserves, TopicPreserves DEF Client
  <2>2. ASSUME NEW s \in Server, NEW t \in Server, on_link(s, t)
        PROVE  IInv' /\ AgeKept
    <3>1. Rest BY <2>2 DEF on_link, Rest
    <3> QED BY <2>0, <2>2, <3>1, UidPreserves, QuitRecvPreserves, FjoinPreserves,
               IjoinPreserves, LeaveRecvPreserves, ModeRecvPreserves,
               TopicRecvPreserves DEF on_link
  <2>3. ASSUME NEW s \in Server, NEW t \in Server,
               add_link(s, t) \/ link_server(s, t) \/ close_link(s, t)
        PROVE  IInv' /\ AgeKept
    BY <2>0, <2>3, AddLinkPreserves, LinkServerPreserves, CloseLinkPreserves
  <2>4. ASSUME Tick PROVE IInv' /\ AgeKept
    <3>1. TypeOK BY DEF IInv
    <3>2. TypeOK' BY <2>0, <2>4, <3>1, ChannelAssumption DEF Tick, TypeOK, Time
    <3>3. AgeKept BY <2>4, <3>1, AgeRefl DEF AgeKept, Tick
    <3> QED BY <2>4, <3>2, <3>3
            DEF Tick, IInv, NoSelfLink, RemoteFromHome, MembersHaveRecords, Status_at
  <2> QED BY <2>0, <2>1, <2>2, <2>3, <2>4, SweepPreserves DEF Step
<1>2. CASE UNCHANGED vars
  <2>1. TypeOK BY DEF IInv
  <2>2. AgeKept BY <1>2, <2>1, AgeRefl DEF AgeKept, vars
  <2>3. TypeOK' BY <1>2, <2>1 DEF TypeOK, vars
  <2> QED BY <1>2, <2>2, <2>3
          DEF vars, IInv, NoSelfLink, RemoteFromHome, MembersHaveRecords, Status_at
<1> QED BY <1>1, <1>2

\* Whatever servers, links, clients and modes there are, every variable keeps its
\* type: no line of a kind that no handler reads is ever sent, and a timestamp is
\* always one that the clock has shown.
THEOREM TypeCorrect == Spec => []TypeOK
<1>1. IInv => TypeOK BY DEF IInv
<1> QED BY <1>1, InitIInv, NextIInv, PTL DEF Spec

\* In a network of any shape, a channel's member list never names a user whose
\* record is gone: the handlers that drop a user (remove_user, drop_remote_user,
\* close_link) drop its memberships, and those that add a member (join,
\* link_fjoin_recv, link_ijoin_recv) only add a user with a record.
THEOREM MembersRecorded == Spec => []MembersHaveRecords
<1>1. IInv => MembersHaveRecords BY DEF IInv
<1> QED BY <1>1, InitIInv, NextIInv, PTL DEF Spec

\* In a network of any shape, the timestamp of a channel never rises while the
\* channel exists: link_fjoin_recv's arbitration, and every other handler, keeps or
\* lowers it.
THEOREM AgeMonotone == Spec => AgeNeverRises
<1>1. IInv /\ [Next]_vars => [AgeKept]_vars BY NextIInv
<1>2. Spec => [][AgeKept]_vars BY <1>1, InitIInv, NextIInv, PTL DEF Spec
<1> QED BY <1>2 DEF AgeNeverRises, AgeKept
=============================================================================
