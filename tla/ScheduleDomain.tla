---------------------------- MODULE ScheduleDomain ----------------------------
(***************************************************************************)
(* What the server computes of schedules: the text order of stored times,  *)
(* overlaps, the status of a family member and what an audience is shown.  *)
(*                                                                         *)
(* A time is a number of ticks, Fractions of them to the second; a tick is *)
(* the program's nanosecond.  Fractions are single digits, so none is a    *)
(* prefix of another: the stored times are whole seconds, and only the     *)
(* bounds of a query may have a fraction.  An item is a record with the    *)
(* fields id, starts, ends, created, participants, visibility and place    *)
(* (does it have a location_name?).                                        *)
(***************************************************************************)
EXTENDS Integers, FiniteSets

CONSTANT Fractions   \* ticks per second

ASSUME FractionsAssumption == Fractions \in 1..10

Visibility == {"family", "tv_summary", "parents_only"}
Audience == {"parent", "shared", "tv"}

-----------------------------------------------------------------------------
\* The place of t in the text order of databaseTime.  RFC3339Nano writes no
\* fraction for a whole second, and 'Z' follows '.': a whole second comes after
\* all the other times of its second.
TextOrder(t) ==
  LET fraction == t % Fractions IN
  t - fraction + (IF fraction = 0 THEN Fractions ELSE fraction)

TextBefore(a, b) == TextOrder(a) < TextOrder(b)

\* Mutant: the bounds of the range are swapped.
WithinSwapped(item, from, to) ==
  TextBefore(to, item.ends) /\ TextBefore(item.starts, from)

\* Mutant: only what lies within the range.
WithinContained(item, from, to) ==
  TextBefore(from, item.starts) /\ TextBefore(item.ends, to)

\* The WHERE clause shared by SchedulesBetween and OverlappingSchedules.
Within(item, from, to) == TextBefore(from, item.ends) /\ TextBefore(item.starts, to)

\* Overlap: half-open intervals with a participant in common.
Overlap(left, right) ==
  /\ left.starts < right.ends /\ right.starts < left.ends
  /\ left.participants \cap right.participants # {}

-----------------------------------------------------------------------------
\* What an answer shows of an item: its content, identified by the item's id, or
\* the words for a private schedule, for which id is 0.
Nothing == [shown |-> FALSE, id |-> 0, overlap |-> FALSE]
Full(item) == [shown |-> TRUE, id |-> item.id, overlap |-> FALSE]
Summary == [shown |-> TRUE, id |-> 0, overlap |-> FALSE]

\* Project.
Project(item, audience) ==
  CASE item.visibility = "parents_only" /\ audience # "parent" -> Nothing
    [] item.visibility = "tv_summary" /\ audience # "parent" -> Summary
    [] OTHER -> Full(item)

\* Mutant: the earliest start comes first.
EarliestFirst(a, b) ==
  \/ a.starts < b.starts
  \/ a.starts = b.starts /\ a.created > b.created
  \/ a.starts = b.starts /\ a.created = b.created /\ a.id < b.id

\* The order in which ActiveStatus sorts its candidates.
Precedes(a, b) ==
  \/ a.starts > b.starts
  \/ a.starts = b.starts /\ a.created > b.created
  \/ a.starts = b.starts /\ a.created = b.created /\ a.id < b.id

\* The items with a place in which the member takes part at that time.
Candidates(items, member, at) ==
  {i \in items : i.place /\ i.starts <= at /\ at < i.ends /\ member \in i.participants}

\* ActiveStatus: the first candidate, as a summary where it must not be shown.
ActiveStatus(items, member, at, audience) ==
  LET candidates == Candidates(items, member, at)
      selected == CHOOSE i \in candidates :
                    \A x \in candidates \ {i} : Precedes(i, x)
      view == IF selected.visibility = "parents_only" /\ audience # "parent"
              THEN Summary ELSE Project(selected, audience) IN
  IF candidates = {} THEN Nothing
  ELSE [view EXCEPT !.overlap = Cardinality(candidates) > 1]

=============================================================================
