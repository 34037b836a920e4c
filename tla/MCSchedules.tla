----------------------------- MODULE MCSchedules -----------------------------
(* Instances of Schedules for TLC: what requests may say. *)
EXTENDS Schedules, TLC

CONSTANTS m1, m2, stranger

Says(from, to, who, visible, located) ==
  [starts |-> from, ends |-> to, participants |-> who,
   visibility |-> visible, place |-> located]

\* Whole seconds of three ticks each: schedules that overlap, start together or touch,
\* every visibility (the parents' one lasts two seconds, so that others are told of it
\* after the second of its start), a person who is not an active member, and an interval
\* that Validate refuses.
MCContent ==
  {Says(0, 12, {m1}, "family", TRUE),
   Says(0, 6, {m1, m2}, "parents_only", TRUE),
   Says(6, 12, {m1}, "tv_summary", TRUE),
   Says(6, 12, {stranger}, "family", FALSE),
   Says(3, 3, {m2}, "family", TRUE)}
MCMember == {m1, m2}

\* Whole seconds, and the last tick of the one that starts or ends at 6.
MCClock == {3, 6, 8, 9}

\* Two schedules, with and without a place, that only the start of the day tells
\* from one another.
MCContentNarrow ==
  {Says(3, 9, {m1}, "family", TRUE), Says(0, 6, {m1}, "family", FALSE)}

Symmetry == Permutations(Client)
=============================================================================
