\* One browser that is enrolled again after its revocation or lockout, as two
\* devices in turn; two requests in flight, which may belong to the two devices;
\* three endpoints.  When devices and endpoints are used up, the household may
\* have nothing left to do.
CONSTANTS
  Browser = {b1}
  Device = {d1, d2}
  Endpoint = {e1, e2, e3}
  Handler = {h1, h2}
  None = None
SPECIFICATION Spec
SYMMETRY Symmetry
INVARIANTS TypeOK OneActiveSubscription
PROPERTIES LostOnlyAsAsked SilentForGood
CHECK_DEADLOCK FALSE
