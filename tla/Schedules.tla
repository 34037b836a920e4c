------------------------------ MODULE Schedules ------------------------------
(***************************************************************************)
(* The tables `schedules` and `schedule_participants` and the handlers     *)
(* that read and write them.                                               *)
(*                                                                         *)
(* createSchedule and updateSchedule look for overlaps before they open    *)
(* their transaction, and read the schedule again after it; every read     *)
(* takes the rows first and each row's participants later (querySchedules) *)
(* without a transaction.  Other handlers run in between.                  *)
(*                                                                         *)
(* A client is an administrator's page with one request at a time; it      *)
(* edits what it was last answered.  Texts are left out: an item's version *)
(* identifies them.  Nothing in the server deletes a schedule.             *)
(***************************************************************************)
EXTENDS ScheduleDomain

CONSTANTS
  Client,      \* administrators' pages, each with at most one request in flight
  Id,          \* identifiers of schedules: numbers, for their order as texts
  Member,      \* the active family members
  Content,     \* what a request may say of a schedule
  Created,     \* the times at which schedules are created
  Clock,       \* the times at which the status is asked for
  MaxRange,    \* how long a range may be that is listed: 62 days
  MaxVersion   \* bound of the versions

ASSUME IdAssumption == Id \subseteq Nat \ {0}
ASSUME BoundsAssumption ==
  /\ MaxVersion \in Nat \ {0} /\ MaxRange \in Nat
  /\ Created \subseteq Nat /\ Clock \subseteq Nat
ASSUME ContentAssumption ==
  \A c \in Content :
    /\ c.starts \in Nat /\ c.ends \in Nat
    /\ c.visibility \in Visibility /\ c.place \in BOOLEAN

VARIABLES
  schedule,      \* the table schedules: schedule[id] is a row or NoRow
  participants,  \* the table schedule_participants, by schedule_id
  client         \* client[c]: the request of c, and what it was last answered

vars == <<schedule, participants, client>>

-----------------------------------------------------------------------------
\* A row.
Row == [starts : Nat, ends : Nat, visibility : Visibility, place : BOOLEAN,
        created : Nat, version : 1..MaxVersion]
NoRow == [version |-> 0]

Stored(id) == schedule[id] # NoRow

\* The item that row r with participants ps stands for.
ItemOf(id, r, ps) ==
  [id |-> id, starts |-> r.starts, ends |-> r.ends, visibility |-> r.visibility,
   place |-> r.place, created |-> r.created, version |-> r.version,
   participants |-> ps]

Items == {ItemOf(id, schedule[id], participants[id]) : id \in {x \in Id : Stored(x)}}

\* Mutant: whoever is named takes part.
Anybody(content) == TRUE

\* What Validate and validateParticipants demand, in a handler and a transaction.
Valid(content) == content.ends > content.starts /\ content.participants # {}
ParticipantsKnown(content) == content.participants \subseteq Member

\* Requests and answers.  base is the answer an update edits.
NoView == [id |-> 0]
Free == [op |-> "free"]
Store(id, content, base) ==
  [op |-> "store", id |-> id, content |-> content, base |-> base]
Reading(id) == [op |-> "read", id |-> id]
Joining(id) == [op |-> "join", id |-> id, row |-> schedule[id]]

SetRequest(c, r) == client' = [client EXCEPT ![c].request = r]

Init ==
  /\ schedule = [id \in Id |-> NoRow]
  /\ participants = [id \in Id |-> {}]
  /\ client = [c \in Client |-> [request |-> Free, view |-> NoView]]

-----------------------------------------------------------------------------
\* OverlappingSchedules: other schedules in the text order of times.
OverlappingSchedules(id, content) ==
  {i \in Items : /\ i.id # id
                 /\ Within(i, content.starts, content.ends)
                 /\ i.participants \cap content.participants # {}}

\* The handlers up to the transaction: an overlap that is not confirmed is answered
\* with a warning.
Check(c, id, content, base, confirm) ==
  /\ client[c].request = Free
  /\ Valid(content)
  /\ OverlappingSchedules(id, content) = {} \/ confirm
  /\ SetRequest(c, Store(id, content, base))
  /\ UNCHANGED <<schedule, participants>>

\* createSchedule: the identifier is a random token.
CheckCreate(c, id, content, confirm) ==
  /\ ~Stored(id)
  /\ \A x \in Client : client[x].request.op = "store" => client[x].request.id # id
  /\ Check(c, id, content, NoView, confirm)

\* updateSchedule, of the version the client was shown.
CheckUpdate(c, content, confirm) ==
  /\ client[c].view # NoView /\ client[c].view.version < MaxVersion
  /\ Check(c, client[c].view.id, content, client[c].view, confirm)

\* Both tables after the transaction has written content as version of id.
Write(id, content, created, version) ==
  /\ schedule' = [schedule EXCEPT ![id] =
       [starts |-> content.starts, ends |-> content.ends,
        visibility |-> content.visibility, place |-> content.place,
        created |-> created, version |-> version]]
  /\ participants' = [participants EXCEPT ![id] = content.participants]

\* CreateSchedule.
CreateSchedule(c, created) ==
  LET r == client[c].request IN
  /\ r.op = "store" /\ r.base = NoView
  /\ IF ParticipantsKnown(r.content)
     THEN Write(r.id, r.content, created, 1) /\ SetRequest(c, Reading(r.id))
     ELSE UNCHANGED <<schedule, participants>> /\ SetRequest(c, Free)

\* Mutant: the UPDATE misses its version = ?.
AnyVersion(id, version) == TRUE

\* The condition of the UPDATE on the row it writes.
Unchanged(id, version) == schedule[id].version = version

\* version + 1.
NextVersion(id) == schedule[id].version + 1

\* UpdateSchedule; a version that was replaced meanwhile is a conflict.
UpdateSchedule(c) ==
  LET r == client[c].request IN
  /\ r.op = "store" /\ r.base # NoView
  /\ IF ParticipantsKnown(r.content) /\ Unchanged(r.id, r.base.version)
     THEN /\ Write(r.id, r.content, schedule[r.id].created, NextVersion(r.id))
          /\ SetRequest(c, Reading(r.id))
     ELSE UNCHANGED <<schedule, participants>> /\ SetRequest(c, Free)

\* getSchedule for an administrator: querySchedules reads the row.
Get(c, id) ==
  /\ client[c].request = Free
  /\ Stored(id)
  /\ SetRequest(c, Joining(id))
  /\ UNCHANGED <<schedule, participants>>

\* The same read at the end of the two handlers that write.
ReadRow(c) ==
  LET r == client[c].request IN
  /\ r.op = "read"
  /\ SetRequest(c, Joining(r.id))
  /\ UNCHANGED <<schedule, participants>>

\* The item querySchedules puts together of the row and today's participants.
Joined(r) == ItemOf(r.id, r.row, participants[r.id])

\* scheduleParticipants; the answer becomes what the client edits.
ReadParticipants(c) ==
  /\ client[c].request.op = "join"
  /\ client' = [client EXCEPT ![c] = [request |-> Free, view |-> Joined(client[c].request)]]
  /\ UNCHANGED <<schedule, participants>>

\* The request or its answer is lost; the client keeps what it was shown.
Lose(c) ==
  /\ client[c].request # Free
  /\ SetRequest(c, Free)
  /\ UNCHANGED <<schedule, participants>>

Next ==
  \/ \E c \in Client, id \in Id, content \in Content, confirm \in BOOLEAN :
       CheckCreate(c, id, content, confirm)
  \/ \E c \in Client, content \in Content, confirm \in BOOLEAN :
       CheckUpdate(c, content, confirm)
  \/ \E c \in Client, created \in Created : CreateSchedule(c, created)
  \/ \E c \in Client : UpdateSchedule(c)
  \/ \E c \in Client, id \in Id : Get(c, id)
  \/ \E c \in Client : ReadRow(c)
  \/ \E c \in Client : ReadParticipants(c)
  \/ \E c \in Client : Lose(c)

Spec == Init /\ [][Next]_vars

-----------------------------------------------------------------------------
\* SchedulesBetween, for the members asked for.
SchedulesBetween(from, to, who) ==
  {i \in Items : Within(i, from, to) /\ i.participants \cap who # {}}

\* familyStatus: one query for the instant, from which every member's status is taken.
FamilyStatus(at, audience) ==
  LET items == SchedulesBetween(at, at + 1, Member) IN
  [member \in Member |-> ActiveStatus(items, member, at, audience)]

\* projectSchedules leaves out what the audience may not see.
Projected(items, audience) == {Project(i, audience) : i \in items} \ {Nothing}

\* The ranges that parseScheduleRange accepts.
Ranges == {r \in Clock \X Clock : r[1] < r[2] /\ r[2] - r[1] <= MaxRange}

\* listScheduleOccurrences.
Occurrences(from, to, who, audience) ==
  Projected(SchedulesBetween(from, to, who), audience)

\* Rows of the schema, each with participants of the family; versions count up from
\* what the clients were shown.
TypeOK ==
  /\ schedule \in [Id -> {NoRow} \cup Row]
  /\ participants \in [Id -> SUBSET Member]
  /\ \A id \in Id : Stored(id) <=> participants[id] # {}
  /\ \A c \in Client : client[c].view # NoView =>
       client[c].view.version \in 1..schedule[client[c].view.id].version

\* The step in which client c's request writes the schedule it names.
Writes(c) ==
  /\ client[c].request.op = "store"
  /\ schedule'[client[c].request.id] # schedule[client[c].request.id]
  /\ client'[c].request # client[c].request

\* An update replaces exactly the schedule its client was shown: nobody's change
\* is lost, although an answer may combine a row with participants written after
\* it (schedule.go:105-109, 205-256).
NoLostUpdate ==
  [][\A c \in Client :
       LET r == client[c].request IN
       Writes(c) /\ r.base # NoView =>
         r.base = ItemOf(r.id, schedule[r.id], participants[r.id])]_vars

\* A request without confirmation gets past the check only if its schedule overlaps
\* no other one stored then: for times in whole seconds the text comparison of the
\* query agrees with Overlap (FR-SCH-016).
WarnedOfStored ==
  [][\A c \in Client :
       LET r == client'[c].request IN
       r.op = "store" /\ Check(c, r.id, r.content, r.base, FALSE) =>
         \A i \in Items : i.id # r.id => ~Overlap(i, r.content)]_vars

\* Of schedules under way, the one the status is taken from: the last to start, then
\* the last to be created, then the first by its identifier (ADR-005, ADR-027).
Chosen(i, items) ==
  \A x \in items \ {i} :
    \/ x.starts < i.starts
    \/ x.starts = i.starts /\ x.created < i.created
    \/ x.starts = i.starts /\ x.created = i.created /\ i.id < x.id

\* What an audience is to be told of these schedules: nothing if there are none, and
\* the content of the chosen one, or only that there is one where the content is not
\* for the audience (ADR-006); marked if there are several.
Tells(status, items, audience) ==
  IF items = {} THEN status = Nothing
  ELSE \E i \in items :
         /\ Chosen(i, items)
         /\ status = [shown |-> TRUE, overlap |-> Cardinality(items) > 1,
                      id |-> IF audience = "parent" \/ i.visibility = "family"
                             THEN i.id ELSE 0]

\* The schedules with a place that keep a member busy, and those among them that have
\* lasted for a second.
UnderWay(items, member, at) ==
  {i \in items : /\ i.place /\ member \in i.participants
                 /\ i.starts <= at /\ at < i.ends}
Settled(items, at) == {i \in items : i.starts + Fractions <= at}

\* What anybody is told of a member follows from the schedules that are under way,
\* with or without those in the second of their start: see StatusFromStart.
StatusFollowsSchedule ==
  LET items == Items IN
  \A at \in Clock, audience \in Audience :
    LET answer == FamilyStatus(at, audience) IN
    \A member \in Member :
      LET current == UnderWay(items, member, at) IN
      \E late \in SUBSET (current \ Settled(current, at)) :
        Tells(answer[member], current \ late, audience)

\* Pages that ask for one stretch of time after the other miss no schedule between
\* two of them, wherever in a second they meet, and are shown nothing that the
\* whole stretch has not but what ended as it began, for in the text order of the
\* query a schedule lasts through the second in which it ends.  A range of whole
\* seconds has exactly what overlaps it (ADR-027).
OccurrencesTile ==
  LET items == Items IN
  \A audience \in Audience :
    LET listed == [r \in Ranges |-> Occurrences(r[1], r[2], Member, audience)] IN
    \A r \in Ranges :
      /\ \A mid \in Clock : r[1] < mid /\ mid < r[2] =>
           LET parts == listed[<<r[1], mid>>] \cup listed[<<mid, r[2]>>] IN
           /\ listed[r] \subseteq parts
           /\ parts \ listed[r] \subseteq Projected({i \in items : i.ends = r[1]}, audience)
      /\ r[1] % Fractions = 0 /\ r[2] % Fractions = 0 =>
           listed[r] = Projected({i \in items : i.starts < r[2] /\ r[1] < i.ends}, audience)

\* The documented interval: a schedule includes its start (ADR-027).
StatusFromStart ==
  \A i \in Items : i.place => \A member \in i.participants :
    FamilyStatus(i.starts, "parent")[member].shown

=============================================================================
