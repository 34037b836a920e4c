\* One phone that enables notifications a second time with the same endpoint.
CONSTANTS
  Browser = {b1}
  Device = {d1, d2}
  Endpoint = {e1, e2}
  Handler = {h1}
  None = None
SPECIFICATION Spec
INVARIANT NewRegistrationReplaces
CHECK_DEADLOCK FALSE
