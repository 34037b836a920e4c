\* One phone that is revoked while its PUT is between authentication and the table.
CONSTANTS
  Browser = {b1}
  Device = {d1, d2}
  Endpoint = {e1, e2}
  Handler = {h1}
  None = None
SPECIFICATION Spec
INVARIANT RevokedIsUnsubscribed
CHECK_DEADLOCK FALSE
