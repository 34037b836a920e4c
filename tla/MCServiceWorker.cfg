\* Three builds, so that the cached shell, the serving build and a build that was
\* rolled back to may all differ.
CONSTANTS
  Build = {e3, c1, c2}
  Down = down
SPECIFICATION Spec
INVARIANT WorkerTypeOK
PROPERTIES OnlineIsCurrent OfflineForGood
