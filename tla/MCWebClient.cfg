\* Two devices used at home, each with one run at a time, one of which may fail
\* anywhere but between an exchange and the arrival of its answer.  Time 1 is
\* past the access credentials of time 0, time 2 past their refresh credentials;
\* four couples allow two renewals.
CONSTANTS
  Device = {d1, d2}
  Pair = {p1, p2, p3, p4}
  None = None
  Call = {c1}
  AccessLifetime = 1
  RefreshLifetime = 2
  MaxTime = 2
  MayFail = {"asking", "granted", "refused", "exchanging", "renewed"}
  MaxFails = 1
  Roaming = FALSE
SPECIFICATION ClientSpec
INVARIANTS ClientTypeOK RenewalKeepsRegistration BrowserHoldsCredential
PROPERTY RenewedUnaided
