\* Two administrators, two schedules, two versions of each, so that one of them may
\* edit what the other has replaced.
CONSTANTS
  Fractions = 3
  Client = {c1, c2}
  Id = {1, 2}
  m1 = m1
  m2 = m2
  stranger = stranger
  Member <- MCMember
  Content <- MCContent
  Created = {0, 1}
  Clock <- MCClock
  MaxRange = 5
  MaxVersion = 2
SPECIFICATION Spec
SYMMETRY Symmetry
INVARIANTS TypeOK StatusFollowsSchedule OccurrencesTile
PROPERTIES NoLostUpdate WarnedOfStored
