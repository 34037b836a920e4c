\* Three runs of c1-deploy.sh, and rollbacks between them, each of which may break
\* off anywhere.  When the changes and the backups are used up the instance stops.
CONSTANTS
  Backup = {b1, b2, b3}
  MaxWrites = 3
  RepeatsRollback = TRUE
SPECIFICATION DeploySpec
SYMMETRY Symmetry
INVARIANTS DeployTypeOK BackupKept ServesWhatIsDue
CHECK_DEADLOCK FALSE
