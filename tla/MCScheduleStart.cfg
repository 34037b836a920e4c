\* One schedule, asked for at the whole second in which it starts.
CONSTANTS
  Fractions = 3
  Client = {c1}
  Id = {1, 2}
  m1 = m1
  m2 = m2
  stranger = stranger
  Member <- MCMember
  Content <- MCContentNarrow
  Created = {0}
  Clock <- MCClock
  MaxRange = 5
  MaxVersion = 2
SPECIFICATION Spec
INVARIANT StatusFromStart
