\* Three devices and four couples: a PC and up to two enrolled devices that rotate,
\* reuse and are revoked.  More couples than devices, so that one is consumed when
\* none is left; the clock passes both lifetimes.
CONSTANTS
  Device = {d1, d2, d3}
  Pair = {p1, p2, p3, p4}
  None = None
  AccessLifetime = 1
  RefreshLifetime = 2
  MaxTime = 3
SPECIFICATION Spec
SYMMETRY Symmetry
INVARIANTS TypeOK OneCurrentPair NoCredentialAfterShutdown RegisteredUntilShutdown OneTrustedPC ExchangedOnce
PROPERTIES OthersUnaffected ShutdownIsFinal LifecycleSpec
