----------------------------- MODULE MCBackupSync -----------------------------
(* Instances of BackupSync for TLC: settings under which a sync takes       *)
(* different ways, each with bounds of its own.                             *)
EXTENDS BackupSync

\* The default settings, with two copies, fewer to keep in Proton Drive, and one
\* more backup to make.
Default ==
  [existing |-> 2, maxBackups |-> 3, maxHa |-> 2, maxProton |-> 1,
   before |-> FALSE, after |-> FALSE, confirm |-> TRUE, precaching |-> FALSE,
   pinning |-> FALSE, others |-> TRUE, faults |-> 1, signOuts |-> 0, requests |-> 1]

\* Both settings that save space, no confirmation, and a session that is lost.
Space ==
  [existing |-> 2, maxBackups |-> 3, maxHa |-> 1, maxProton |-> 2,
   before |-> TRUE, after |-> TRUE, confirm |-> FALSE, precaching |-> FALSE,
   pinning |-> FALSE, others |-> TRUE, faults |-> 1, signOuts |-> 1, requests |-> 1]

\* Everything that runs beside a sync: the precache, pins, requests.
Busy ==
  [existing |-> 1, maxBackups |-> 3, maxHa |-> 1, maxProton |-> 1,
   before |-> FALSE, after |-> FALSE, confirm |-> TRUE, precaching |-> TRUE,
   pinning |-> TRUE, others |-> FALSE, faults |-> 1, signOuts |-> 0, requests |-> 1]

\* delete_after_upload while the precache runs.
Stale ==
  [existing |-> 2, maxBackups |-> 3, maxHa |-> 1, maxProton |-> 2,
   before |-> FALSE, after |-> TRUE, confirm |-> TRUE, precaching |-> TRUE,
   pinning |-> FALSE, others |-> FALSE, faults |-> 0, signOuts |-> 0, requests |-> 1]

AllScenarios == {Default, Space, Busy}
StaleScenario == {Stale}
=============================================================================
