\* The PC and one other device, two requests in flight, two sessions, a block
\* after two failures.  A unit of time is five minutes: a block lasts one, an idle
\* session two, and unlocking no time at all.  The clock passes the block and the
\* idle limit and comes as close to the absolute one as extensions are capped.
\* With the sessions used up and the clock at its bound only refused requests are
\* left, which is not a deadlock.
CONSTANTS
  PC = pc
  Device = {pc, phone}
  Session = {s1, s2}
  None = None
  Handler = {h1, h2}
  MaxFailures = 2
  BlockTime = 1
  Slowest = 0
  IdleTime = 2
  AbsoluteTime = 3
  MaxTime = 2
SPECIFICATION Spec
SYMMETRY Symmetry
INVARIANTS TypeOK OneLiveSession IdleLimit FailureBudget ShutOutStops
PROPERTY RevokedIsFrozen
CHECK_DEADLOCK FALSE
