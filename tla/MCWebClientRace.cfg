\* The same household at home on a reliable network, with two tabs per device.
CONSTANTS
  Device = {d1}
  Pair = {p1, p2, p3}
  None = None
  Call = {c1, c2}
  AccessLifetime = 1
  RefreshLifetime = 2
  MaxTime = 2
  MayFail = {}
  MaxFails = 0
  Roaming = FALSE
SPECIFICATION ClientSpec
INVARIANT RenewalKeepsRegistration
