---------------------------- MODULE SchedulesProofs ----------------------------
(***************************************************************************)
(* Theorems of Schedules, for any clients, schedules and contents.  What   *)
(* a client was shown may be out of date, and may combine a row with       *)
(* participants written after it; the invariant says that whatever still   *)
(* has the version of the row stored is what is stored.                    *)
(*                                                                         *)
(* The theorems about times have a hypothesis, WholeSeconds: the contents  *)
(* that clients send have times in whole seconds, as those of the web      *)
(* client do.  The server itself takes fractions as well.                  *)
(***************************************************************************)
EXTENDS Schedules, FiniteSetTheorems, WellFoundedInduction, TLAPS

WholeSeconds == \A c \in Content : c.starts % Fractions = 0 /\ c.ends % Fractions = 0

Item == [id : Id, starts : Nat, ends : Nat, visibility : Visibility, place : BOOLEAN,
         created : Nat, version : 1..MaxVersion, participants : SUBSET Member]
View == {NoView} \cup Item
Request ==
  {Free} \cup [op : {"store"}, id : Id, content : {c \in Content : Valid(c)},
               base : View]
         \cup [op : {"read"}, id : Id] \cup [op : {"join"}, id : Id, row : Row]

TablesOK ==
  /\ schedule \in [Id -> {NoRow} \cup Row]
  /\ participants \in [Id -> SUBSET Member]
  /\ \A id \in Id : Stored(id) <=> participants[id] # {}
  /\ IsFiniteSet({id \in Id : Stored(id)})

ClientOK == client \in [Client -> [request : Request, view : View]]

\* v was read of the tables s and p: it is older than its schedule, or all of it.
ReadOf(v, s, p) ==
  /\ v \in Item /\ s[v.id] # NoRow
  /\ v.version <= s[v.id].version
  /\ v.version = s[v.id].version => v = ItemOf(v.id, s[v.id], p[v.id])

\* What a request knows of the tables: an update was shown what it edits, a creation
\* has an unused id, and a read in progress has a row that may be out of date.
Informed(r, s, p) ==
  /\ r.op = "store" /\ r.base = NoView => s[r.id] = NoRow
  /\ r.op = "store" /\ r.base # NoView =>
       ReadOf(r.base, s, p) /\ r.base.id = r.id /\ r.base.version < MaxVersion
  /\ r.op = "read" => s[r.id] # NoRow
  /\ r.op = "join" =>
       /\ s[r.id] # NoRow /\ r.row.version <= s[r.id].version
       /\ r.row.version = s[r.id].version => r.row = s[r.id]

ClientsInformed ==
  \A c \in Client :
    /\ client[c].view # NoView => ReadOf(client[c].view, schedule, participants)
    /\ Informed(client[c].request, schedule, participants)

\* The id of a schedule about to be created is nobody else's.
IdsDiffer ==
  \A c, x \in Client :
    LET r == client[c].request
        q == client[x].request IN
    c # x /\ r.op = "store" /\ r.base = NoView /\ q.op = "store" => q.id # r.id

\* Every row has the times of a content somebody sent.
TimesSent ==
  \A id \in Id : Stored(id) =>
    \E c \in Content : /\ Valid(c)
                       /\ schedule[id].starts = c.starts /\ schedule[id].ends = c.ends

Inv == TablesOK /\ ClientOK /\ ClientsInformed /\ IdsDiffer /\ TimesSent

-----------------------------------------------------------------------------
(* Rows and requests. *)

\* A row is stored or it has no version.
LEMMA RowKinds ==
  ASSUME TablesOK, NEW id \in Id
  PROVE  /\ Stored(id) => schedule[id] \in Row /\ schedule[id].version \in 1..MaxVersion
         /\ ~Stored(id) => schedule[id] = NoRow /\ schedule[id].version = 0
         /\ schedule[id].version \in Nat
  BY BoundsAssumption DEF TablesOK, Stored, Row, NoRow

\* What a request holds.
LEMMA RequestKinds ==
  ASSUME NEW r \in Request
  PROVE  /\ r.op = "store" =>
              r \in [op : {"store"}, id : Id, content : {c \in Content : Valid(c)},
                     base : View]
         /\ r.op = "read" => r \in [op : {"read"}, id : Id]
         /\ r.op = "join" => r \in [op : {"join"}, id : Id, row : Row]
         /\ r.op \notin {"store", "read", "join"} => r = Free
  BY DEF Request, Free

\* What a client holds.
LEMMA ClientFields ==
  ASSUME ClientOK, NEW c \in Client
  PROVE  client[c].request \in Request /\ client[c].view \in View
  BY DEF ClientOK

\* A view is an item or nothing.
LEMMA ViewKinds ==
  ASSUME NEW v \in View, v # NoView
  PROVE  v \in Item /\ v.id \in Id /\ v.version \in 1..MaxVersion
  BY DEF View, Item

\* No item is mistaken for nothing: identifiers are not 0.
LEMMA ItemIsView ==
  ASSUME NEW v \in Item
  PROVE  v # NoView /\ v \in View
  BY IdAssumption DEF Item, View, NoView

\* What a row and participants are put together to is an item.
LEMMA ItemOfIsItem ==
  ASSUME NEW id \in Id, NEW row \in Row, NEW ps \in SUBSET Member
  PROVE  /\ ItemOf(id, row, ps) \in Item
         /\ ItemOf(id, row, ps).id = id /\ ItemOf(id, row, ps).version = row.version
  BY DEF ItemOf, Item, Row

-----------------------------------------------------------------------------
(* A transaction that writes a schedule. *)

\* The tables after it.
LEMMA WriteEffect ==
  ASSUME TablesOK, NEW id \in Id, NEW content \in Content, Valid(content),
         ParticipantsKnown(content), NEW created \in Nat,
         NEW version \in 1..MaxVersion, Write(id, content, created, version)
  PROVE  /\ TablesOK'
         /\ schedule'[id] \in Row /\ schedule'[id] # NoRow
         /\ schedule'[id].version = version
         /\ schedule'[id].starts = content.starts /\ schedule'[id].ends = content.ends
         /\ \A x \in Id : x # id => /\ schedule'[x] = schedule[x]
                                    /\ participants'[x] = participants[x]
  <1> DEFINE row == [starts |-> content.starts, ends |-> content.ends,
                     visibility |-> content.visibility, place |-> content.place,
                     created |-> created, version |-> version]
  <1>1. /\ row \in Row /\ row # NoRow /\ row.version = version
        /\ row.starts = content.starts /\ row.ends = content.ends
    BY ContentAssumption, BoundsAssumption DEF Row, NoRow
  <1>2. schedule' = [schedule EXCEPT ![id] = row]
        /\ participants' = [participants EXCEPT ![id] = content.participants]
    BY DEF Write
  <1> HIDE DEF row
  <1>3. schedule'[id] = row /\ \A x \in Id : x # id => schedule'[x] = schedule[x]
    BY <1>2 DEF TablesOK
  <1>4. /\ participants'[id] = content.participants
        /\ \A x \in Id : x # id => participants'[x] = participants[x]
    BY <1>2 DEF TablesOK
  <1>5. schedule' \in [Id -> {NoRow} \cup Row]
    BY <1>1, <1>2 DEF TablesOK
  <1>6. participants' \in [Id -> SUBSET Member]
    BY <1>2 DEF TablesOK, ParticipantsKnown
  <1>7. \A x \in Id : Stored(x)' <=> participants'[x] # {}
    BY <1>1, <1>3, <1>4 DEF TablesOK, Stored, Valid
  <1>8. IsFiniteSet({x \in Id : Stored(x)})'
    <2>1. {x \in Id : Stored(x)}' = {x \in Id : Stored(x)} \cup {id}
      BY <1>1, <1>3 DEF Stored
    <2>2. IsFiniteSet({x \in Id : Stored(x)})
      BY DEF TablesOK
    <2>3. IsFiniteSet({x \in Id : Stored(x)} \cup {id})
      BY <2>2, FS_AddElement
    <2> QED  BY <2>1, <2>3
  <1>9. TablesOK'  BY <1>5, <1>6, <1>7, <1>8 DEF TablesOK
  <1> QED  BY <1>1, <1>3, <1>4, <1>9

\* A new version leaves older what was read before it.
LEMMA WriteKeepsReads ==
  ASSUME TablesOK, NEW id \in Id, TablesOK', schedule'[id] # NoRow,
         schedule'[id].version = schedule[id].version + 1,
         \A x \in Id : x # id => /\ schedule'[x] = schedule[x]
                                 /\ participants'[x] = participants[x]
  PROVE  /\ \A v : ReadOf(v, schedule, participants) => ReadOf(v, schedule', participants')
         /\ \A r \in Request :
              /\ Informed(r, schedule, participants)
              /\ r.op = "store" /\ r.base = NoView => r.id # id
              => Informed(r, schedule', participants')
  <1>1. schedule[id].version \in Nat
    BY RowKinds
  <1>2. ASSUME NEW v, ReadOf(v, schedule, participants)
        PROVE  ReadOf(v, schedule', participants')
    <2>1. v.id \in Id /\ v.version \in Nat
      BY <1>2, BoundsAssumption DEF ReadOf, Item
    <2>2. CASE v.id = id  BY <1>1, <1>2, <2>1, <2>2 DEF ReadOf
    <2>3. CASE v.id # id  BY <1>2, <2>1, <2>3 DEF ReadOf
    <2> QED  BY <2>2, <2>3
  <1>3. ASSUME NEW r \in Request, Informed(r, schedule, participants),
               r.op = "store" /\ r.base = NoView => r.id # id
        PROVE  Informed(r, schedule', participants')
    <2>1. CASE r.op = "store"
      BY <1>2, <1>3, <2>1, RequestKinds DEF Informed
    <2>2. CASE r.op = "read"
      BY <1>3, <2>2, RequestKinds DEF Informed
    <2>3. CASE r.op = "join"
      <3>1. r.id \in Id /\ r.row.version \in Nat
        BY <2>3, RequestKinds, BoundsAssumption DEF Row
      <3> QED  BY <1>1, <1>3, <2>3, <3>1 DEF Informed
    <2>4. CASE r.op \notin {"store", "read", "join"}
      BY <2>4 DEF Informed
    <2> QED  BY <2>1, <2>2, <2>3, <2>4
  <1> QED  BY <1>2, <1>3

-----------------------------------------------------------------------------
(* What a step does to its client. *)

\* One client moves on; what the others know must hold of the new tables.
LEMMA ClientMoves ==
  ASSUME ClientOK, ClientsInformed, NEW c \in Client, NEW r \in Request, NEW v \in View,
         client' = [client EXCEPT ![c] = [request |-> r, view |-> v]],
         \A x : ReadOf(x, schedule, participants) => ReadOf(x, schedule', participants'),
         \A x \in Client : x # c =>
           Informed(client[x].request, schedule', participants'),
         Informed(r, schedule', participants'),
         v = client[c].view \/ ReadOf(v, schedule', participants')
  PROVE  ClientOK' /\ ClientsInformed'
  <1>1. ClientOK'
    BY DEF ClientOK
  <1>2. ASSUME NEW x \in Client
        PROVE  /\ client'[x].view # NoView => ReadOf(client'[x].view, schedule', participants')
               /\ Informed(client'[x].request, schedule', participants')
    <2>1. CASE x = c
      <3>1. client'[x].request = r /\ client'[x].view = v
        BY <2>1 DEF ClientOK
      <3> QED  BY <3>1, <2>1 DEF ClientsInformed
    <2>2. CASE x # c
      <3>1. client'[x] = client[x]  BY <2>2 DEF ClientOK
      <3> QED  BY <3>1, <2>2 DEF ClientsInformed
    <2> QED  BY <2>1, <2>2
  <1>3. ClientsInformed'
    BY <1>2 DEF ClientsInformed
  <1> QED  BY <1>1, <1>3

\* The ids of two creations still differ when a client sends a request that keeps
\* them so.
LEMMA IdsStayDifferent ==
  ASSUME ClientOK, IdsDiffer, NEW c \in Client, NEW r \in Request, NEW v \in View,
         client' = [client EXCEPT ![c] = [request |-> r, view |-> v]],
         r.op = "store" =>
           \A x \in Client :
             LET q == client[x].request IN
             x # c /\ q.op = "store" /\ (r.base = NoView \/ q.base = NoView) => q.id # r.id
  PROVE  IdsDiffer'
  <1>1. client'[c].request = r /\ \A x \in Client : x # c => client'[x] = client[x]
    BY DEF ClientOK
  <1> QED  BY <1>1 DEF IdsDiffer

\* SetRequest leaves what its client was shown.
LEMMA SetRequestIs ==
  ASSUME ClientOK, NEW c \in Client, NEW r, SetRequest(c, r)
  PROVE  client' = [client EXCEPT ![c] = [request |-> r, view |-> client[c].view]]
  <1>1. client[c] = [request |-> client[c].request, view |-> client[c].view]
    BY DEF ClientOK
  <1>2. [client[c] EXCEPT !.request = r] = [request |-> r, view |-> client[c].view]
    BY <1>1
  <1>3. client' = [client EXCEPT ![c] = [client[c] EXCEPT !.request = r]]
    BY DEF SetRequest
  <1> QED  BY <1>2, <1>3

\* The request it makes is there after the step.
LEMMA SetRequestOf ==
  ASSUME ClientOK, NEW c \in Client, NEW r, SetRequest(c, r)
  PROVE  /\ client'[c].request = r /\ client'[c].view = client[c].view
         /\ \A x \in Client : x # c => client'[x] = client[x]
  BY SetRequestIs DEF ClientOK

\* A step that does not write, of a client that knows what it says.
LEMMA ReadingStep ==
  ASSUME Inv, NEW c \in Client, NEW r \in Request, NEW v \in View,
         UNCHANGED <<schedule, participants>>,
         client' = [client EXCEPT ![c] = [request |-> r, view |-> v]],
         Informed(r, schedule, participants),
         v = client[c].view \/ ReadOf(v, schedule, participants),
         r.op = "store" =>
           \A x \in Client :
             LET q == client[x].request IN
             x # c /\ q.op = "store" /\ (r.base = NoView \/ q.base = NoView) => q.id # r.id
  PROVE  Inv'
  <1>1. TablesOK' /\ TimesSent'
    BY DEF Inv, TablesOK, TimesSent, Stored
  <1>2. \A x \in Client : Informed(client[x].request, schedule', participants')
    BY DEF Inv, ClientsInformed
  <1>3. schedule' = schedule /\ participants' = participants
    OBVIOUS
  <1>4. /\ \A x : ReadOf(x, schedule, participants) => ReadOf(x, schedule', participants')
        /\ Informed(r, schedule', participants')
        /\ v = client[c].view \/ ReadOf(v, schedule', participants')
    BY <1>3
  <1>5. ClientOK' /\ ClientsInformed'
    BY <1>2, <1>4, ClientMoves DEF Inv
  <1>6. IdsDiffer'
    BY IdsStayDifferent DEF Inv
  <1> QED  BY <1>1, <1>5, <1>6 DEF Inv

\* A transaction that writes the next version of a schedule its client alone names.
LEMMA WritingStep ==
  ASSUME Inv, NEW c \in Client, NEW id \in Id, NEW content \in Content, Valid(content),
         ParticipantsKnown(content), NEW created \in Nat, NEW version \in 1..MaxVersion,
         Write(id, content, created, version),
         version = schedule[id].version + 1,
         SetRequest(c, Reading(id)),
         \A x \in Client : x # c /\ client[x].request.op = "store"
                              /\ client[x].request.base = NoView
           => client[x].request.id # id
  PROVE  Inv'
  <1>1. /\ TablesOK' /\ schedule'[id] # NoRow /\ schedule'[id].version = version
        /\ schedule'[id].starts = content.starts /\ schedule'[id].ends = content.ends
        /\ \A x \in Id : x # id => /\ schedule'[x] = schedule[x]
                                   /\ participants'[x] = participants[x]
    BY WriteEffect DEF Inv
  <1>2. /\ \A v : ReadOf(v, schedule, participants) => ReadOf(v, schedule', participants')
        /\ \A r \in Request :
             /\ Informed(r, schedule, participants)
             /\ r.op = "store" /\ r.base = NoView => r.id # id
             => Informed(r, schedule', participants')
    BY <1>1, WriteKeepsReads DEF Inv
  <1>3. Reading(id) \in Request /\ Reading(id).op = "read" /\ Reading(id).id = id
    BY DEF Reading, Request
  <1>4. client' = [client EXCEPT ![c] = [request |-> Reading(id), view |-> client[c].view]]
    BY <1>3, SetRequestIs DEF Inv
  <1>5. client[c].view \in View
    BY ClientFields DEF Inv
  <1>6. \A x \in Client : x # c => Informed(client[x].request, schedule', participants')
    BY <1>2, ClientFields DEF Inv, ClientsInformed
  <1>7. Informed(Reading(id), schedule', participants')
    BY <1>1, <1>3 DEF Informed
  <1>8. ClientOK' /\ ClientsInformed'
    BY <1>2, <1>3, <1>4, <1>5, <1>6, <1>7, ClientMoves DEF Inv
  <1>9. IdsDiffer'
    BY <1>3, <1>4, <1>5, IdsStayDifferent DEF Inv
  <1>10. TimesSent'
    BY <1>1 DEF Inv, TimesSent, Stored
  <1> QED  BY <1>1, <1>8, <1>9, <1>10 DEF Inv

-----------------------------------------------------------------------------
(* The operations. *)

\* A request that is over, or that was lost, leaves its client free.
LEMMA FreedStep ==
  ASSUME Inv, NEW c \in Client, SetRequest(c, Free), UNCHANGED <<schedule, participants>>
  PROVE  Inv'
  <1>1. Free \in Request /\ Free.op = "free" /\ Informed(Free, schedule, participants)
    BY DEF Request, Free, Informed
  <1>2. client[c].view \in View
    BY ClientFields DEF Inv
  <1>3. client' = [client EXCEPT ![c] = [request |-> Free, view |-> client[c].view]]
    BY SetRequestIs DEF Inv
  <1> QED  BY <1>1, <1>2, <1>3, ReadingStep

\* What the checks of both handlers let through.
LEMMA CheckStep ==
  ASSUME Inv, NEW c \in Client, NEW id \in Id, NEW content \in Content,
         NEW base \in View, NEW confirm \in BOOLEAN, Check(c, id, content, base, confirm),
         base = NoView => /\ ~Stored(id)
                          /\ \A x \in Client : client[x].request.op = "store" =>
                               client[x].request.id # id,
         base # NoView => base = client[c].view /\ base.id = id /\ base.version < MaxVersion
  PROVE  Inv'
  <1> DEFINE r == Store(id, content, base)
  <1>1. Valid(content) /\ SetRequest(c, r) /\ UNCHANGED <<schedule, participants>>
    BY DEF Check
  <1>2. /\ r \in Request /\ r.op = "store" /\ r.id = id /\ r.base = base
    BY <1>1 DEF Store, Request
  <1> HIDE DEF r
  <1>3. base # NoView => ReadOf(base, schedule, participants)
    BY DEF Inv, ClientsInformed
  <1>4. Informed(r, schedule, participants)
    BY <1>2, <1>3 DEF Informed, Stored
  <1>5. client[c].view \in View
    BY ClientFields DEF Inv
  <1>6. client' = [client EXCEPT ![c] = [request |-> r, view |-> client[c].view]]
    BY <1>1, SetRequestIs DEF Inv
  <1>7. ASSUME NEW x \in Client, x # c, client[x].request.op = "store",
               base = NoView \/ client[x].request.base = NoView
        PROVE  client[x].request.id # id
    <2>1. CASE base = NoView  BY <1>7, <2>1
    <2>2. CASE base # NoView
      <3>1. schedule[id] # NoRow  BY <1>3, <2>2 DEF ReadOf
      <3> QED  BY <1>7, <2>2, <3>1 DEF Inv, ClientsInformed, Informed
    <2> QED  BY <2>1, <2>2
  <1> QED  BY <1>1, <1>2, <1>4, <1>5, <1>6, <1>7, ReadingStep

\* The transaction of createSchedule writes version 1 where there was no row.
LEMMA CreateStep ==
  ASSUME Inv, NEW c \in Client, NEW created \in Created, CreateSchedule(c, created)
  PROVE  Inv'
  <1> DEFINE r == client[c].request
  <1>1. /\ r.op = "store" /\ r.base = NoView /\ r.id \in Id
        /\ r.content \in Content /\ Valid(r.content)
    BY ClientFields, RequestKinds DEF CreateSchedule, Inv
  <1>2. CASE ParticipantsKnown(r.content)
    <2>1. Write(r.id, r.content, created, 1) /\ SetRequest(c, Reading(r.id))
      BY <1>2 DEF CreateSchedule
    <2>2. schedule[r.id].version = 0
      BY <1>1 DEF Inv, ClientsInformed, Informed, NoRow
    <2>3. \A x \in Client : x # c /\ client[x].request.op = "store" => client[x].request.id # r.id
      BY <1>1 DEF Inv, IdsDiffer
    <2>4. 1 \in 1..MaxVersion /\ created \in Nat
      BY BoundsAssumption
    <2> HIDE DEF r
    <2> QED  BY <1>1, <1>2, <2>1, <2>2, <2>3, <2>4, WritingStep
  <1>3. CASE ~ParticipantsKnown(r.content)
    BY <1>3, FreedStep DEF CreateSchedule
  <1> QED  BY <1>2, <1>3

\* What the transaction of updateSchedule knows of its request.
LEMMA UpdateKnows ==
  ASSUME Inv, NEW c \in Client, client[c].request.op = "store",
         client[c].request.base # NoView
  PROVE  LET r == client[c].request IN
         /\ r.id \in Id /\ r.content \in Content /\ Valid(r.content)
         /\ ReadOf(r.base, schedule, participants)
         /\ r.base.id = r.id /\ r.base.version < MaxVersion /\ r.base.version \in Nat
  <1> DEFINE r == client[c].request
  <1>1. r.id \in Id /\ r.content \in Content /\ Valid(r.content) /\ r.base \in View
    BY ClientFields, RequestKinds DEF Inv
  <1>2. r.base.version \in Nat
    BY <1>1, ViewKinds, BoundsAssumption
  <1>3. /\ ReadOf(r.base, schedule, participants)
        /\ r.base.id = r.id /\ r.base.version < MaxVersion
    BY DEF Inv, ClientsInformed, Informed
  <1> QED  BY <1>1, <1>2, <1>3

\* The transaction of updateSchedule writes the version after the one it replaces.
LEMMA UpdateStep ==
  ASSUME Inv, NEW c \in Client, UpdateSchedule(c)
  PROVE  Inv'
  <1> DEFINE r == client[c].request
  <1>1. r.op = "store" /\ r.base # NoView
    BY DEF UpdateSchedule
  <1>2. /\ r.id \in Id /\ r.content \in Content /\ Valid(r.content)
        /\ ReadOf(r.base, schedule, participants)
        /\ r.base.id = r.id /\ r.base.version < MaxVersion /\ r.base.version \in Nat
    BY <1>1, UpdateKnows
  <1>3. CASE ParticipantsKnown(r.content) /\ Unchanged(r.id, r.base.version)
    <2>1. /\ Write(r.id, r.content, schedule[r.id].created, NextVersion(r.id))
          /\ SetRequest(c, Reading(r.id))
      BY <1>3 DEF UpdateSchedule
    <2>2. schedule[r.id] \in Row
      BY <1>2, RowKinds DEF ReadOf, Inv, Stored
    <2>3. schedule[r.id].created \in Nat
      BY <2>2 DEF Row
    <2>4. /\ NextVersion(r.id) \in 1..MaxVersion
          /\ NextVersion(r.id) = schedule[r.id].version + 1
      BY <1>2, <1>3, BoundsAssumption DEF Unchanged, NextVersion
    <2>5. ASSUME NEW x \in Client, client[x].request.op = "store",
                 client[x].request.base = NoView
          PROVE  client[x].request.id # r.id
      BY <1>2, <2>5 DEF Inv, ClientsInformed, Informed, ReadOf
    <2> HIDE DEF r
    <2> QED  BY <1>2, <1>3, <2>1, <2>3, <2>4, <2>5, WritingStep
  <1>4. CASE ~(ParticipantsKnown(r.content) /\ Unchanged(r.id, r.base.version))
    BY <1>4, FreedStep DEF UpdateSchedule
  <1> QED  BY <1>3, <1>4

\* A read has the row as it is.
LEMMA RowStep ==
  ASSUME Inv, NEW c \in Client, NEW id \in Id, Stored(id), SetRequest(c, Joining(id)),
         UNCHANGED <<schedule, participants>>
  PROVE  Inv'
  <1> DEFINE r == Joining(id)
  <1>1. schedule[id] \in Row /\ schedule[id] # NoRow /\ schedule[id].version \in Nat
    BY RowKinds DEF Inv, Stored
  <1>2. r \in Request /\ r.op = "join" /\ r.id = id /\ r.row = schedule[id]
    BY <1>1 DEF Joining, Request
  <1> HIDE DEF r
  <1>3. Informed(r, schedule, participants)
    BY <1>1, <1>2 DEF Informed
  <1>4. client[c].view \in View
    BY ClientFields DEF Inv
  <1>5. client' = [client EXCEPT ![c] = [request |-> r, view |-> client[c].view]]
    BY SetRequestIs DEF Inv, r
  <1> QED  BY <1>2, <1>3, <1>4, <1>5, ReadingStep

\* What is put together of a row and later participants is older than the schedule,
\* or all of it.
LEMMA JoinStep ==
  ASSUME Inv, NEW c \in Client, ReadParticipants(c)
  PROVE  Inv'
  <1> DEFINE r == client[c].request
             v == Joined(r)
  <1>1. /\ r.op = "join"
        /\ client' = [client EXCEPT ![c] = [request |-> Free, view |-> v]]
        /\ UNCHANGED <<schedule, participants>>
    BY DEF ReadParticipants
  <1>2. r.id \in Id /\ r.row \in Row
    BY <1>1, ClientFields, RequestKinds DEF Inv
  <1>3. participants[r.id] \in SUBSET Member
    BY <1>2 DEF Inv, TablesOK
  <1>4. v \in Item /\ v.id = r.id /\ v.version = r.row.version
    BY <1>2, <1>3, ItemOfIsItem DEF Joined
  <1>5. Informed(r, schedule, participants)
    BY DEF Inv, ClientsInformed
  <1>6. ReadOf(v, schedule, participants)
    <2>1. /\ schedule[r.id] # NoRow /\ r.row.version <= schedule[r.id].version
          /\ r.row.version = schedule[r.id].version => r.row = schedule[r.id]
      BY <1>1, <1>5 DEF Informed
    <2>2. v = ItemOf(r.id, r.row, participants[r.id])
      BY DEF Joined
    <2> HIDE DEF v, r
    <2> QED  BY <1>4, <2>1, <2>2 DEF ReadOf
  <1>7. v \in View
    BY <1>4, ItemIsView
  <1>8. Free \in Request /\ Free.op = "free" /\ Informed(Free, schedule, participants)
    BY DEF Request, Free, Informed
  <1> HIDE DEF v
  <1> QED  BY <1>1, <1>6, <1>7, <1>8, ReadingStep

-----------------------------------------------------------------------------
\* There is nothing at the start.
LEMMA InitInv == Init => Inv
  <1> SUFFICES ASSUME Init PROVE Inv
    OBVIOUS
  <1>1. \A id \in Id : ~Stored(id)
    BY DEF Init, Stored
  <1>2. IsFiniteSet({id \in Id : Stored(id)})
    <2>1. {id \in Id : Stored(id)} = {}  BY <1>1
    <2> QED  BY <2>1, FS_EmptySet
  <1>3. TablesOK
    BY <1>1, <1>2 DEF Init, TablesOK
  <1>4. \A c \in Client : client[c].request = Free /\ client[c].view = NoView
    BY DEF Init
  <1>5. ClientOK
    BY DEF Init, ClientOK, Request, View
  <1>6. Free.op = "free"
    BY DEF Free
  <1>7. ClientsInformed
    BY <1>4, <1>6 DEF ClientsInformed, Informed
  <1>8. IdsDiffer
    BY <1>4, <1>6 DEF IdsDiffer
  <1>9. TimesSent
    BY <1>1 DEF TimesSent
  <1> QED  BY <1>3, <1>5, <1>7, <1>8, <1>9 DEF Inv

\* Every step preserves the invariant.
LEMMA NextInv == Inv /\ [Next]_vars => Inv'
  <1> SUFFICES ASSUME Inv, [Next]_vars PROVE Inv'
    OBVIOUS
  <1>1. ASSUME NEW c \in Client, NEW id \in Id, NEW content \in Content,
               NEW confirm \in BOOLEAN, CheckCreate(c, id, content, confirm)
        PROVE  Inv'
    <2>1. NoView \in View  BY DEF View
    <2> QED  BY <1>1, <2>1, CheckStep DEF CheckCreate
  <1>2. ASSUME NEW c \in Client, NEW content \in Content, NEW confirm \in BOOLEAN,
               CheckUpdate(c, content, confirm)
        PROVE  Inv'
    <2> DEFINE v == client[c].view
    <2>1. /\ v # NoView /\ v.version < MaxVersion
          /\ Check(c, v.id, content, v, confirm)
      BY <1>2 DEF CheckUpdate
    <2>2. v \in View
      BY ClientFields DEF Inv
    <2>3. v.id \in Id
      BY <2>1, <2>2, ViewKinds
    <2> QED  BY <2>1, <2>2, <2>3, CheckStep
  <1>3. ASSUME NEW c \in Client, NEW created \in Created, CreateSchedule(c, created)
        PROVE  Inv'
    BY <1>3, CreateStep
  <1>4. ASSUME NEW c \in Client, UpdateSchedule(c)
        PROVE  Inv'
    BY <1>4, UpdateStep
  <1>5. ASSUME NEW c \in Client, NEW id \in Id, Get(c, id)
        PROVE  Inv'
    BY <1>5, RowStep DEF Get
  <1>6. ASSUME NEW c \in Client, ReadRow(c)
        PROVE  Inv'
    <2> DEFINE r == client[c].request
    <2>1. r.op = "read" /\ r.id \in Id
      BY <1>6, ClientFields, RequestKinds DEF ReadRow, Inv
    <2>2. Stored(r.id)
      BY <2>1 DEF Inv, ClientsInformed, Informed, Stored
    <2> QED  BY <1>6, <2>1, <2>2, RowStep DEF ReadRow
  <1>7. ASSUME NEW c \in Client, ReadParticipants(c)
        PROVE  Inv'
    BY <1>7, JoinStep
  <1>8. ASSUME NEW c \in Client, Lose(c)
        PROVE  Inv'
    BY <1>8, FreedStep DEF Lose
  <1>9. CASE UNCHANGED vars
    BY <1>9
    DEF vars, Inv, TablesOK, Stored, ClientOK, ClientsInformed, IdsDiffer, TimesSent
  <1> QED
    BY <1>1, <1>2, <1>3, <1>4, <1>5, <1>6, <1>7, <1>8, <1>9 DEF Next

\* The invariant holds in every state.
THEOREM Invariance == Spec => []Inv
  BY InitInv, NextInv, PTL DEF Spec

\* Tables and views keep their types; the versions shown count up to the stored one.
THEOREM TypeCorrect == Spec => []TypeOK
  <1>1. ASSUME Inv, NEW c \in Client, client[c].view # NoView
        PROVE  client[c].view.version \in 1..schedule[client[c].view.id].version
    <2> DEFINE v == client[c].view
    <2>1. v \in Item /\ v.id \in Id /\ v.version \in 1..MaxVersion
      BY <1>1, ClientFields, ViewKinds DEF Inv
    <2>2. v.version <= schedule[v.id].version
      BY <1>1 DEF Inv, ClientsInformed, ReadOf
    <2>3. schedule[v.id].version \in Nat
      BY <1>1, <2>1, RowKinds DEF Inv
    <2> QED  BY <2>1, <2>2, <2>3, BoundsAssumption
  <1>2. Inv => TypeOK
    BY <1>1 DEF Inv, TablesOK, TypeOK
  <1> QED  BY <1>2, Invariance, PTL

\* Whoever replaces a schedule replaces exactly what it was shown.
THEOREM UpdateReplacesShown == Spec => NoLostUpdate
  <1>1. ASSUME Inv, Next, NEW c \in Client, Writes(c), client[c].request.base # NoView
        PROVE  client[c].request.base =
                 ItemOf(client[c].request.id, schedule[client[c].request.id],
                        participants[client[c].request.id])
    <2> DEFINE r == client[c].request
    <2>1. r.op = "store" /\ schedule' # schedule /\ client'[c].request # r
      BY <1>1 DEF Writes
    <2>2. ReadOf(r.base, schedule, participants) /\ r.base.id = r.id
      BY <1>1, <2>1, UpdateKnows
    <2>3. ASSUME NEW x \in Client, NEW q, SetRequest(x, q) PROVE x = c
      BY <1>1, <2>1, <2>3 DEF SetRequest, Inv, ClientOK
    <2>4. UpdateSchedule(c)
      <3>1. ASSUME NEW x \in Client, NEW created \in Created, CreateSchedule(x, created)
            PROVE  FALSE
        <4>1. x = c  BY <2>3, <3>1 DEF CreateSchedule
        <4> QED  BY <1>1, <3>1, <4>1 DEF CreateSchedule
      <3>2. ASSUME NEW x \in Client, UpdateSchedule(x) PROVE x = c
        BY <2>3, <3>2 DEF UpdateSchedule
      <3> QED
        BY <1>1, <2>1, <3>1, <3>2
        DEF Next, CheckCreate, CheckUpdate, Check, Get, ReadRow, ReadParticipants, Lose
    <2>5. Unchanged(r.id, r.base.version)
      BY <2>1, <2>4 DEF UpdateSchedule
    <2> QED  BY <2>2, <2>5 DEF ReadOf, Unchanged
  <1>2. Inv /\ [Next]_vars =>
          [\A c \in Client :
             LET r == client[c].request IN
             Writes(c) /\ r.base # NoView =>
               r.base = ItemOf(r.id, schedule[r.id], participants[r.id])]_vars
    BY <1>1
  <1> QED  BY <1>2, Invariance, PTL DEF Spec, NoLostUpdate

-----------------------------------------------------------------------------
(* The text order of times. *)

\* A whole second comes after all other times of its second; these keep their place.
LEMMA OrderOfTime ==
  ASSUME NEW t \in Nat
  PROVE  /\ TextOrder(t) = IF t % Fractions = 0 THEN t + Fractions ELSE t
         /\ TextOrder(t) \in Nat /\ t <= TextOrder(t)
  <1>1. t % Fractions \in Nat /\ t % Fractions <= t /\ Fractions \in Nat
    BY FractionsAssumption
  <1> QED  BY <1>1 DEF TextOrder

\* Multiples of a number are that number apart.
LEMMA MultiplesApart ==
  ASSUME NEW f \in Nat \ {0}, NEW q \in Nat, NEW p \in Nat, q < p
  PROVE  f * q + f <= f * p
  <1>1. PICK d \in Nat : p = q + 1 + d
    <2>1. p - q - 1 \in Nat /\ p = q + 1 + (p - q - 1)  OBVIOUS
    <2> QED  BY <2>1
  <1>2. f * p = f * q + f + f * d
    BY <1>1
  <1>3. f * d \in Nat /\ f * q \in Nat /\ f * p \in Nat
    OBVIOUS
  <1> QED  BY <1>2, <1>3

\* Whole seconds are a second apart.
LEMMA WholeApart ==
  ASSUME NEW a \in Nat, NEW b \in Nat, a % Fractions = 0, b % Fractions = 0, a < b
  PROVE  a + Fractions <= b
  <1> DEFINE q == a \div Fractions
             p == b \div Fractions
  <1>1. Fractions \in Nat \ {0}
    BY FractionsAssumption
  <1>2. a = Fractions * q /\ q \in Nat /\ b = Fractions * p /\ p \in Nat
    BY <1>1
  <1> HIDE DEF q, p
  <1>3. q < p
    <2>1. CASE p < q
      <3>1. Fractions * p + Fractions <= Fractions * q
        BY <1>1, <1>2, <2>1, MultiplesApart
      <3> QED  BY <1>1, <1>2, <3>1
    <2>2. CASE p = q  BY <1>2, <2>2
    <2> QED  BY <1>2, <2>1, <2>2
  <1>4. Fractions * q + Fractions <= Fractions * p
    BY <1>1, <1>2, <1>3, MultiplesApart
  <1> QED  BY <1>1, <1>2, <1>4

\* An end that is still to come is after the bound of a query; what is after it has
\* not ended, or ended in the second of a bound with a fraction.
LEMMA EndAfter ==
  ASSUME NEW t \in Nat, NEW end \in Nat, end % Fractions = 0
  PROVE  /\ t < end => TextBefore(t, end)
         /\ TextBefore(t, end) => t < end + Fractions
         /\ TextBefore(t, end) /\ t % Fractions = 0 => t < end
  BY OrderOfTime, FractionsAssumption DEF TextBefore

\* A start before the bound of a query is past, and past by a second for all later
\* times; it is found once it is past by a second, or by a bound in whole seconds.
LEMMA StartBefore ==
  ASSUME NEW t \in Nat, NEW start \in Nat, start % Fractions = 0
  PROVE  /\ TextBefore(start, t) => start < t /\ start + Fractions <= t
         /\ start + Fractions < t => TextBefore(start, t)
         /\ start < t /\ t % Fractions = 0 => TextBefore(start, t)
  <1>1. Fractions \in Nat /\ Fractions > 0
    BY FractionsAssumption
  <1>2. CASE t % Fractions = 0
    <2>1. start < t => start + Fractions <= t
      BY <1>2, WholeApart
    <2> QED  BY <1>1, <1>2, <2>1, OrderOfTime DEF TextBefore
  <1>3. CASE t % Fractions # 0
    BY <1>1, <1>3, OrderOfTime DEF TextBefore
  <1> QED  BY <1>2, <1>3

\* Two stretches that meet have together what the whole stretch has, and what ended
\* just when it began.
LEMMA StretchesMeet ==
  ASSUME NEW i, i.starts \in Nat, i.ends \in Nat, i.starts < i.ends,
         i.starts % Fractions = 0, i.ends % Fractions = 0,
         NEW from \in Nat, NEW mid \in Nat, NEW to \in Nat, from < mid, mid < to
  PROVE  /\ Within(i, from, to) => Within(i, from, mid) \/ Within(i, mid, to)
         /\ Within(i, from, mid) => Within(i, from, to)
         /\ Within(i, mid, to) => Within(i, from, to) \/ i.ends = from
  <1>1. Fractions \in Nat /\ Fractions > 0
    BY FractionsAssumption
  <1>2. ASSUME Within(i, from, to), ~Within(i, from, mid)
        PROVE  Within(i, mid, to)
    <2>1. TextOrder(i.starts) < TextOrder(i.ends)
      BY <1>1, OrderOfTime
    <2>2. TextOrder(mid) <= TextOrder(i.starts)
      BY <1>2, OrderOfTime DEF Within, TextBefore
    <2> QED  BY <1>2, <2>1, <2>2, OrderOfTime DEF Within, TextBefore
  <1>3. ASSUME Within(i, from, mid)
        PROVE  Within(i, from, to)
    <2>1. i.starts + Fractions <= mid
      BY <1>3, StartBefore DEF Within
    <2>2. i.starts + Fractions < to
      BY <1>1, <2>1
    <2> QED  BY <1>3, <2>2, StartBefore DEF Within
  <1>4. ASSUME Within(i, mid, to), i.ends # from
        PROVE  Within(i, from, to)
    <2>1. mid < i.ends + Fractions
      BY <1>4, EndAfter DEF Within
    <2>2. TextBefore(from, i.ends)
      <3>1. CASE from % Fractions = 0
        <4>1. i.ends < from => i.ends + Fractions <= from
          BY <3>1, WholeApart
        <4>2. from < i.ends
          BY <1>1, <1>4, <2>1, <4>1
        <4> QED  BY <4>2, EndAfter
      <3>2. CASE from % Fractions # 0
        <4>1. TextOrder(from) = from /\ TextOrder(i.ends) = i.ends + Fractions
          BY <3>2, OrderOfTime
        <4> QED  BY <1>1, <2>1, <4>1 DEF TextBefore
      <3> QED  BY <3>1, <3>2
    <2> QED  BY <1>4, <2>2 DEF Within
  <1> QED  BY <1>2, <1>3, <1>4

-----------------------------------------------------------------------------
(* What is stored, as items. *)

\* Items have the types of their rows and, where contents do, whole seconds.
LEMMA StoredItems ==
  ASSUME Inv, NEW i \in Items
  PROVE  /\ i \in Item /\ i.id \in Id /\ Stored(i.id)
         /\ i = ItemOf(i.id, schedule[i.id], participants[i.id])
         /\ i.starts \in Nat /\ i.ends \in Nat /\ i.starts < i.ends
         /\ i.participants # {} /\ i.participants \subseteq Member
         /\ WholeSeconds => i.starts % Fractions = 0 /\ i.ends % Fractions = 0
  <1>1. PICK id \in Id : Stored(id) /\ i = ItemOf(id, schedule[id], participants[id])
    BY DEF Items
  <1>2. /\ schedule[id] \in Row /\ participants[id] \in SUBSET Member
        /\ participants[id] # {}
    BY <1>1, RowKinds DEF Inv, TablesOK
  <1>3. i \in Item /\ i.id = id
    BY <1>1, <1>2, ItemOfIsItem
  <1>4. /\ i.starts = schedule[id].starts /\ i.ends = schedule[id].ends
        /\ i.participants = participants[id]
    BY <1>1 DEF ItemOf
  <1>5. PICK c \in Content : /\ Valid(c)
                            /\ schedule[id].starts = c.starts /\ schedule[id].ends = c.ends
    BY <1>1 DEF Inv, TimesSent
  <1>6. i.starts \in Nat /\ i.ends \in Nat /\ i.starts < i.ends
    BY <1>4, <1>5, ContentAssumption DEF Valid
  <1>7. WholeSeconds => i.starts % Fractions = 0 /\ i.ends % Fractions = 0
    BY <1>4, <1>5 DEF WholeSeconds
  <1> QED  BY <1>1, <1>2, <1>3, <1>4, <1>6, <1>7

\* A request gets past the check without confirmation only if it overlaps nothing.
THEOREM NothingOverlapsUnasked == WholeSeconds /\ Spec => WarnedOfStored
  <1> SUFFICES ASSUME WholeSeconds PROVE Spec => WarnedOfStored
    OBVIOUS
  <1>1. ASSUME Inv, Next, NEW c \in Client,
               client'[c].request.op = "store",
               Check(c, client'[c].request.id, client'[c].request.content,
                     client'[c].request.base, FALSE),
               NEW i \in Items, i.id # client'[c].request.id
        PROVE  ~Overlap(i, client'[c].request.content)
    <2>1. PICK r \in Request : r = client'[c].request
      BY <1>1, NextInv DEF Inv, ClientOK
    <2>2. r.content \in Content
      BY <1>1, <2>1, RequestKinds
    <2>3. /\ r.content.starts \in Nat /\ r.content.ends \in Nat
          /\ r.content.starts % Fractions = 0 /\ r.content.ends % Fractions = 0
      BY <2>2, ContentAssumption DEF WholeSeconds
    <2>4. OverlappingSchedules(r.id, r.content) = {}
      BY <1>1, <2>1 DEF Check
    <2>5. ASSUME Overlap(i, r.content) PROVE FALSE
      <3>1. Within(i, r.content.starts, r.content.ends)
        BY <1>1, <2>3, <2>5, StoredItems, EndAfter, StartBefore DEF Overlap, Within
      <3> QED  BY <1>1, <2>1, <2>4, <2>5, <3>1 DEF OverlappingSchedules, Overlap
    <2> QED  BY <2>1, <2>5
  <1>2. Inv /\ [Next]_vars =>
          [\A c \in Client :
             LET r == client'[c].request IN
             r.op = "store" /\ Check(c, r.id, r.content, r.base, FALSE) =>
               \A i \in Items : i.id # r.id => ~Overlap(i, r.content)]_vars
    BY <1>1
  <1> QED  BY <1>2, Invariance, PTL DEF Spec, WarnedOfStored

-----------------------------------------------------------------------------
(* What a stretch of time is answered with. *)

\* Every schedule has participants, all of the family: asking for all of it excludes none.
LEMMA BetweenIs ==
  ASSUME Inv, NEW from, NEW to
  PROVE  SchedulesBetween(from, to, Member) = {i \in Items : Within(i, from, to)}
  <1>1. \A i \in Items : i.participants \cap Member # {}
    BY StoredItems
  <1> QED  BY <1>1 DEF SchedulesBetween

\* Stretches that follow one another miss nothing and repeat only what had just ended;
\* whole seconds have what overlaps them.
THEOREM StretchesCover == WholeSeconds /\ Spec => []OccurrencesTile
  <1> SUFFICES ASSUME WholeSeconds PROVE Spec => []OccurrencesTile
    OBVIOUS
  <1>1. ASSUME Inv, NEW audience \in Audience,
               NEW from \in Clock, NEW mid \in Clock, NEW to \in Clock,
               from < mid, mid < to
        PROVE  LET whole == Occurrences(from, to, Member, audience)
                   parts == Occurrences(from, mid, Member, audience)
                              \cup Occurrences(mid, to, Member, audience) IN
               /\ whole \subseteq parts
               /\ parts \ whole \subseteq Projected({i \in Items : i.ends = from}, audience)
    <2>1. from \in Nat /\ mid \in Nat /\ to \in Nat
      BY BoundsAssumption
    <2>2. \A i \in Items :
            /\ Within(i, from, to) => Within(i, from, mid) \/ Within(i, mid, to)
            /\ Within(i, from, mid) => Within(i, from, to)
            /\ Within(i, mid, to) => Within(i, from, to) \/ i.ends = from
      BY <1>1, <2>1, StoredItems, StretchesMeet
    <2> QED  BY <1>1, <2>2, BetweenIs DEF Occurrences, Projected
  <1>2. ASSUME Inv, NEW audience \in Audience, NEW from \in Clock, NEW to \in Clock,
               from % Fractions = 0, to % Fractions = 0
        PROVE  Occurrences(from, to, Member, audience) =
                 Projected({i \in Items : i.starts < to /\ from < i.ends}, audience)
    <2>1. from \in Nat /\ to \in Nat
      BY BoundsAssumption
    <2>2. ASSUME NEW i \in Items
          PROVE  Within(i, from, to) <=> i.starts < to /\ from < i.ends
      BY <1>2, <2>1, StoredItems, EndAfter, StartBefore DEF Within
    <2>3. {i \in Items : Within(i, from, to)} = {i \in Items : i.starts < to /\ from < i.ends}
      BY <2>2
    <2> QED  BY <1>2, <2>3, BetweenIs DEF Occurrences
  <1>3. ASSUME Inv PROVE OccurrencesTile
    <2> SUFFICES ASSUME NEW audience \in Audience, NEW r \in Ranges
                 PROVE
          LET listed == [x \in Ranges |-> Occurrences(x[1], x[2], Member, audience)] IN
          /\ \A mid \in Clock : r[1] < mid /\ mid < r[2] =>
               LET parts == listed[<<r[1], mid>>] \cup listed[<<mid, r[2]>>] IN
               /\ listed[r] \subseteq parts
               /\ parts \ listed[r] \subseteq Projected({i \in Items : i.ends = r[1]}, audience)
          /\ r[1] % Fractions = 0 /\ r[2] % Fractions = 0 =>
               listed[r] = Projected({i \in Items : i.starts < r[2] /\ r[1] < i.ends}, audience)
      BY DEF OccurrencesTile
    <2> DEFINE listed == [x \in Ranges |-> Occurrences(x[1], x[2], Member, audience)]
    <2>1. /\ r[1] \in Clock /\ r[2] \in Clock /\ r = <<r[1], r[2]>>
          /\ r[2] - r[1] <= MaxRange
      BY DEF Ranges
    <2>2. listed[r] = Occurrences(r[1], r[2], Member, audience)
      OBVIOUS
    <2>3. ASSUME NEW mid \in Clock, r[1] < mid, mid < r[2]
          PROVE  /\ listed[<<r[1], mid>>] = Occurrences(r[1], mid, Member, audience)
                 /\ listed[<<mid, r[2]>>] = Occurrences(mid, r[2], Member, audience)
      <3>1. /\ r[1] \in Nat /\ mid \in Nat /\ r[2] \in Nat /\ MaxRange \in Nat
        BY <2>1, BoundsAssumption
      <3>2. mid - r[1] <= MaxRange /\ r[2] - mid <= MaxRange
        BY <2>1, <2>3, <3>1
      <3>3. <<r[1], mid>> \in Ranges /\ <<mid, r[2]>> \in Ranges
        BY <2>1, <2>3, <3>2 DEF Ranges
      <3> QED  BY <3>3
    <2> HIDE DEF listed
    <2>4. ASSUME NEW mid \in Clock, r[1] < mid, mid < r[2]
          PROVE  LET parts == listed[<<r[1], mid>>] \cup listed[<<mid, r[2]>>] IN
                 /\ listed[r] \subseteq parts
                 /\ parts \ listed[r] \subseteq
                      Projected({i \in Items : i.ends = r[1]}, audience)
      BY <1>1, <1>3, <2>1, <2>2, <2>3, <2>4
    <2>5. ASSUME r[1] % Fractions = 0, r[2] % Fractions = 0
          PROVE  listed[r] =
                   Projected({i \in Items : i.starts < r[2] /\ r[1] < i.ends}, audience)
      BY <1>2, <1>3, <2>1, <2>2, <2>5
    <2> QED  BY <2>4, <2>5 DEF listed
  <1> QED  BY <1>3, Invariance, PTL

-----------------------------------------------------------------------------
(* The status of a member. *)

\* ActiveStatus has a first candidate: the order is strict and there are finitely many.
LEMMA FirstCandidate ==
  ASSUME Inv, NEW C, C \subseteq Items, C # {}
  PROVE  \E i \in C : \A x \in C \ {i} : Precedes(i, x)
  <1> DEFINE Ids == {id \in Id : Stored(id)}
             UpTo(x) == {id \in Ids : \E y \in C : y.id = id /\ (y = x \/ Precedes(y, x))}
             T == {UpTo(x) : x \in C}
  <1>1. IsFiniteSet(Ids) /\ \A y \in C : y.id \in Ids
    BY StoredItems DEF Inv, TablesOK
  <1>2. \A x, y \in C : x # y => x.id # y.id
    BY StoredItems
  <1>3. \A y \in C : y.starts \in Nat /\ y.created \in Nat /\ y.id \in Nat
    BY StoredItems, IdAssumption DEF Item
  <1>4. /\ \A x, y \in C : x # y => Precedes(x, y) \/ Precedes(y, x)
        /\ \A x, y \in C : ~(Precedes(x, y) /\ Precedes(y, x))
        /\ \A x, y, z \in C : Precedes(x, y) /\ Precedes(y, z) => Precedes(x, z)
    BY <1>2, <1>3 DEF Precedes
  <1> HIDE DEF Ids
  <1>5. T # {} /\ \A V \in T : V \subseteq Ids
    OBVIOUS
  <1>6. \A V \in T : IsFiniteSet(V)
    BY <1>1, <1>5, FS_Subset
  <1> HIDE DEF T
  <1>7. T \subseteq FiniteSubsetsOf(Ids)
    BY <1>5, <1>6 DEF FiniteSubsetsOf
  <1>8. PICK U \in T : \A V \in T : ~(<<V, U>> \in StrictSubsetOrdering(Ids))
    BY <1>5, <1>7, FS_StrictSubsetOrderingWellFounded, WFMin
  <1> USE DEF T
  <1>9. PICK i \in C : U = UpTo(i)
    OBVIOUS
  <1>10. ASSUME NEW x \in C \ {i}, ~Precedes(i, x)
         PROVE  FALSE
    <2>1. Precedes(x, i)
      BY <1>4, <1>10
    <2>2. UpTo(x) \subseteq UpTo(i)
      BY <1>4, <2>1
    <2>3. i.id \in UpTo(i) /\ i.id \notin UpTo(x)
      BY <1>1, <1>2, <1>10
    <2>4. UpTo(x) \in T /\ UpTo(x) \subseteq Ids /\ UpTo(i) \subseteq Ids
      OBVIOUS
    <2> HIDE DEF UpTo
    <2>5. <<UpTo(x), UpTo(i)>> \in StrictSubsetOrdering(Ids)
      BY <2>2, <2>3, <2>4 DEF StrictSubsetOrdering
    <2> QED  BY <1>8, <1>9, <2>4, <2>5
  <1> QED  BY <1>10

\* The one query for an instant finds what is under way then, but for some of what is
\* in its first second.
LEMMA UnderWayIsFound ==
  ASSUME Inv, WholeSeconds, NEW at \in Clock, NEW member \in Member
  PROVE  LET current == UnderWay(Items, member, at)
             found == Candidates(SchedulesBetween(at, at + 1, Member), member, at) IN
         found \subseteq current /\ Settled(current, at) \subseteq found
  <1>1. at \in Nat /\ at + 1 \in Nat /\ Fractions \in Nat
    BY BoundsAssumption, FractionsAssumption
  <1>2. ASSUME NEW i \in Items, i.starts + Fractions <= at, at < i.ends
        PROVE  Within(i, at, at + 1)
    <2>1. TextBefore(at, i.ends)
      BY <1>1, <1>2, StoredItems, EndAfter
    <2>2. i.starts + Fractions < at + 1
      BY <1>1, <1>2, StoredItems
    <2>3. TextBefore(i.starts, at + 1)
      BY <1>1, <2>2, StoredItems, StartBefore
    <2> QED  BY <2>1, <2>3 DEF Within
  <1> QED  BY <1>2, BetweenIs DEF Candidates, UnderWay, Settled

\* What ActiveStatus says of the first candidate.
LEMMA StatusOfFirst ==
  ASSUME Inv, NEW items, NEW member, NEW at, NEW audience \in Audience,
         Candidates(items, member, at) \subseteq Items,
         Candidates(items, member, at) # {}
  PROVE  LET C == Candidates(items, member, at)
             status == ActiveStatus(items, member, at, audience) IN
         \E i \in C :
           /\ \A x \in C \ {i} : Precedes(i, x)
           /\ status = [shown |-> TRUE, overlap |-> Cardinality(C) > 1,
                        id |-> IF audience = "parent" \/ i.visibility = "family"
                               THEN i.id ELSE 0]
  <1> DEFINE C == Candidates(items, member, at)
             i == CHOOSE x \in C : \A y \in C \ {x} : Precedes(x, y)
             view == IF i.visibility = "parents_only" /\ audience # "parent"
                     THEN Summary ELSE Project(i, audience)
             many == Cardinality(C) > 1
             status == ActiveStatus(items, member, at, audience)
  <1>1. i \in C /\ \A x \in C \ {i} : Precedes(i, x)
    <2>1. \E x \in C : \A y \in C \ {x} : Precedes(x, y)
      BY FirstCandidate
    <2> QED  BY <2>1
  <1>2. status = [view EXCEPT !.overlap = many]
    BY DEF ActiveStatus
  <1>3. i.visibility \in Visibility
    BY <1>1, StoredItems DEF Item
  <1> HIDE DEF i, C, many
  <1>4. \E id : /\ view = [shown |-> TRUE, id |-> id, overlap |-> FALSE]
                /\ id = IF audience = "parent" \/ i.visibility = "family" THEN i.id ELSE 0
    BY <1>3 DEF Project, Summary, Full, Nothing, Visibility, Audience
  <1>5. PICK id : /\ view = [shown |-> TRUE, id |-> id, overlap |-> FALSE]
                  /\ id = IF audience = "parent" \/ i.visibility = "family" THEN i.id ELSE 0
    BY <1>4
  <1> HIDE DEF view, status
  <1>6. status = [shown |-> TRUE, id |-> id, overlap |-> many]
    BY <1>2, <1>5
  <1> QED  BY <1>1, <1>5, <1>6 DEF C, many, status

\* So the status tells of the candidates what is to be told of them.
LEMMA CandidatesAreTold ==
  ASSUME Inv, NEW items, NEW member, NEW at, NEW audience \in Audience,
         Candidates(items, member, at) \subseteq Items
  PROVE  Tells(ActiveStatus(items, member, at, audience),
               Candidates(items, member, at), audience)
  <1>1. PICK found : found = Candidates(items, member, at)
    OBVIOUS
  <1>2. PICK status : status = ActiveStatus(items, member, at, audience)
    OBVIOUS
  <1>3. CASE found = {}
    <2>1. status = Nothing
      BY <1>1, <1>2, <1>3 DEF ActiveStatus
    <2> QED  BY <1>1, <1>2, <1>3, <2>1 DEF Tells
  <1>4. CASE found # {}
    <2>1. PICK i \in found :
             /\ \A x \in found \ {i} : Precedes(i, x)
             /\ status = [shown |-> TRUE, overlap |-> Cardinality(found) > 1,
                          id |-> IF audience = "parent" \/ i.visibility = "family"
                                 THEN i.id ELSE 0]
      BY <1>1, <1>2, <1>4, StatusOfFirst
    <2>2. Chosen(i, found)
      BY <2>1 DEF Chosen, Precedes
    <2>3. Tells(status, found, audience)
      BY <1>4, <2>1, <2>2 DEF Tells
    <2> QED  BY <1>1, <1>2, <2>3
  <1> QED  BY <1>3, <1>4

\* Everybody's status is the one that ADR-005, ADR-006 and ADR-027 demand of what is
\* under way, with or without what is in its first second.
THEOREM StatusIsRight == WholeSeconds /\ Spec => []StatusFollowsSchedule
  <1> SUFFICES ASSUME WholeSeconds PROVE Spec => []StatusFollowsSchedule
    OBVIOUS
  <1>1. ASSUME Inv, NEW at \in Clock, NEW audience \in Audience, NEW member \in Member
        PROVE  LET current == UnderWay(Items, member, at) IN
               \E late \in SUBSET (current \ Settled(current, at)) :
                 Tells(FamilyStatus(at, audience)[member], current \ late, audience)
    <2>1. PICK items : items = SchedulesBetween(at, at + 1, Member)
      OBVIOUS
    <2>2. PICK current : current = UnderWay(Items, member, at)
      OBVIOUS
    <2>3. PICK found : found = Candidates(items, member, at)
      OBVIOUS
    <2>4. FamilyStatus(at, audience)[member] = ActiveStatus(items, member, at, audience)
      BY <2>1 DEF FamilyStatus
    <2>5. found \subseteq current /\ Settled(current, at) \subseteq found
      BY <1>1, <2>1, <2>2, <2>3, UnderWayIsFound
    <2>6. found \subseteq Items
      BY <2>2, <2>5 DEF UnderWay
    <2>7. Tells(FamilyStatus(at, audience)[member], found, audience)
      BY <1>1, <2>3, <2>4, <2>6, CandidatesAreTold
    <2>8. /\ current \ found \in SUBSET (current \ Settled(current, at))
          /\ current \ (current \ found) = found
      BY <2>5
    <2> QED  BY <2>2, <2>7, <2>8
  <1>2. Inv => StatusFollowsSchedule
    BY <1>1 DEF StatusFollowsSchedule
  <1> QED  BY <1>2, Invariance, PTL

=============================================================================
