\* Two requests, two handlers in flight, two setup codes, one stop of the server,
\* and time for a code to expire and be replaced.  Three devices: the PC and one
\* for each request.  At the end of the clock a household at rest has nothing to
\* do, so deadlock is not checked.
CONSTANTS
  Device = {d1, d2, d3}
  Pair = {p1, p2, p3}
  None = None
  AccessLifetime = 1
  RefreshLifetime = 2
  MaxTime = 2
  Code = {c1, c2}
  Request = {e1, e2}
  Handler = {h1, h2}
  CodeLifetime = 1
  MaxStops = 1
SPECIFICATION EnrollSpec
INVARIANTS EnrollTypeOK SetupMatchesDevice OneDevicePerApproval
PROPERTIES DecisionStands RegistersAsAssumed ApprovedIsRegistered
CHECK_DEADLOCK FALSE
