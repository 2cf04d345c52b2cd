-------------------------- MODULE OtaInstallProofs --------------------------
(***************************************************************************)
(* The update transaction is the atomic switch of FirmwareSwitch, for any  *)
(* set of files and releases, any limit and any number of faults.          *)
(***************************************************************************)
EXTENDS OtaInstall, TLAPS

\* Where the application and the boot code may be, by the phase of the journal.
Stages ==
    /\ up # "run" => phase = "idle" /\ ~reboot /\ ~healthy
    /\ phase # "commit" /\ up # "restore" => hole = Missing
    /\ up = "ready" => Settled \/ journal.phase = "pending"
    /\ up = "condemn" => ~Settled /\ (journal.phase = "pending" => journal.boots >= Limit)
    /\ up = "restore" => journal.phase = "rolling_back"
    /\ journal.phase = "committing" => journal.boots = 0
    /\ up = "run" =>
        /\ journal.phase # "rolling_back"
        /\ journal.phase = "committing" => phase = "commit" \/ reboot
        /\ reboot => phase = "idle" /\ ~Settled
        /\ phase \in {"cleanup", "download", "backup"} => Settled
        /\ phase = "commit" => journal.phase = "committing"

\* What the application that runs was loaded from.
Loaded ==
    up = "run" =>
        running = IF journal.phase = "stable" \/ (journal.phase = "pending" /\ ~reboot)
                  THEN goal ELSE base

\* The loops of the updater: what they have treated is done, what is left can be.
Backups ==
    phase = "backup" =>
        /\ \A n \in changed : fresh[n] = version
        /\ todo \subseteq Entries
        /\ \A n \in Entries \ todo : old[n] = file[n]
Commits ==
    phase = "commit" =>
        /\ journal.names = Entries /\ todo \subseteq Entries
        /\ hole # Missing => hole \in changed \ todo
        /\ \A n \in deletions : goal[n] = Missing
        /\ \A n \in changed : goal[n] = version
        /\ \A n \in Entries \ todo : n # hole => file[n] = goal[n]
        /\ \A n \in changed : n \in todo \/ n = hole => fresh[n] = version

\* The loop of boot_guard.
Restores ==
    up = "restore" =>
        /\ todo \subseteq journal.names
        /\ hole # Missing => hole \in journal.was \ todo
        /\ \A n \in journal.names \ todo : n # hole => file[n] = base[n]

OtaInv ==
    /\ TypeOK /\ Recoverable /\ WholeFirmware
    /\ journal.was \subseteq journal.names /\ changed \cap deletions = {}
    /\ Stages /\ Loaded /\ Backups /\ Commits /\ Restores

-----------------------------------------------------------------------------
(* The inductive step, one action at a time. *)

\* Moving a journal to another phase leaves its other fields alone.
LEMMA WithFields ==
    ASSUME journal \in Journals, NEW ph \in Phases
    PROVE  /\ With(ph) \in Journals /\ With(ph).phase = ph
           /\ With(ph).boots = journal.boots /\ With(ph).version = journal.version
           /\ With(ph).names = journal.names /\ With(ph).was = journal.was
BY DEF With, Journals

\* Every action keeps the types.
LEMMA TypeStep ==
    ASSUME OtaAssumption, TypeOK, [Next]_vars
    PROVE  TypeOK'
<1> USE DEF TypeOK, Files, Contents, Journals, Phases, With, NoFiles, flash, loop, release,
            status, history, bounds
<1>1. ASSUME NEW v \in Versions, NEW chg \in SUBSET Names, NEW del \in SUBSET Names,
            RequestInstall(v, chg, del)
      PROVE TypeOK'
  BY <1>1, OtaAssumption DEF RequestInstall, OtaAssumption
<1>2. ASSUME NEW n \in Names, Cleanup(n) PROVE TypeOK'
  BY <1>2, OtaAssumption DEF Cleanup, OtaAssumption
<1>3. ASSUME NEW n \in Names, Download(n) PROVE TypeOK'
  BY <1>3, OtaAssumption DEF Download, OtaAssumption
<1>4. ASSUME NEW n \in Names, Backup(n) PROVE TypeOK'
  BY <1>4, OtaAssumption DEF Backup, OtaAssumption
<1>5. ASSUME NEW n \in Names, CommitRemove(n) PROVE TypeOK'
  BY <1>5, OtaAssumption DEF CommitRemove, OtaAssumption
<1>6. ASSUME Prepare PROVE TypeOK'
  BY <1>6, OtaAssumption DEF Prepare, Entries, OtaAssumption
<1>7. ASSUME Discard PROVE TypeOK'
  BY <1>7, OtaAssumption DEF Discard, OtaAssumption
<1>8. ASSUME BeginCommit PROVE TypeOK'
  <2>1. journal' \in Journals
    BY <1>8 DEF BeginCommit, Entries
  <2>2. goal' \in Files
    BY <1>8 DEF BeginCommit
  <2>3. base' \in Files
    BY <1>8 DEF BeginCommit
  <2>4. phase' \in {"idle", "commit"} /\ todo' \subseteq Names
    BY <1>8 DEF BeginCommit, Entries
  <2>5. faults' \in Nat
    BY <1>8 DEF BeginCommit
  <2>6. reboot' \in BOOLEAN
    BY <1>8, Zenon DEF BeginCommit
  <2>7. QED
    BY <1>8, <2>1, <2>2, <2>3, <2>4, <2>5, <2>6 DEF BeginCommit
<1>9. ASSUME CommitRename PROVE TypeOK'
  BY <1>9, OtaAssumption DEF CommitRename, OtaAssumption
<1>10. ASSUME EndCommit PROVE TypeOK'
  <2>1. journal' \in Journals
    <3> HIDE DEF With, Journals
    <3>1. With("pending") \in Journals
      BY WithFields
    <3>2. QED
      BY <1>10, <3>1 DEF EndCommit
  <2>2. reboot' \in BOOLEAN
    BY <1>10, Zenon DEF EndCommit
  <2>3. QED
    <3> HIDE DEF With, Journals
    <3>1. QED
      BY <1>10, <2>1, <2>2 DEF EndCommit
<1>11. ASSUME Fail PROVE TypeOK'
  BY <1>11, OtaAssumption DEF Fail, MustReset, OtaAssumption
<1>12. ASSUME Reset PROVE TypeOK'
  BY <1>12, OtaAssumption DEF Reset, Boots, OtaAssumption
<1>13. ASSUME PowerLoss PROVE TypeOK'
  <2>1. faults' \in Nat
    BY <1>13 DEF PowerLoss
  <2>2. reboot' \in BOOLEAN /\ healthy' \in BOOLEAN
    BY <1>13, Zenon DEF PowerLoss, Boots
  <2>3. QED
    <3> HIDE DEF Journals, Files
    <3>1. QED
      BY <1>13, <2>1, <2>2 DEF PowerLoss, Boots
<1>14. ASSUME Guard PROVE TypeOK'
  BY <1>14, OtaAssumption DEF Guard, OnTrial, OtaAssumption
<1>15. ASSUME Condemn PROVE TypeOK'
  BY <1>15, OtaAssumption DEF Condemn, OtaAssumption
<1>16. ASSUME NEW n \in Names, RestoreRemove(n) PROVE TypeOK'
  BY <1>16, OtaAssumption DEF RestoreRemove, OtaAssumption
<1>17. ASSUME RestoreRename PROVE TypeOK'
  BY <1>17, OtaAssumption DEF RestoreRename, Kept, OtaAssumption
<1>18. ASSUME EndRestore PROVE TypeOK'
  BY <1>18, OtaAssumption DEF EndRestore, OtaAssumption
<1>19. ASSUME Start PROVE TypeOK'
  BY <1>19, OtaAssumption DEF Start, WithoutUpdater, OtaAssumption
<1>20. ASSUME Survive PROVE TypeOK'
  BY <1>20, OtaAssumption DEF Survive, OtaAssumption
<1>21. ASSUME MarkStable PROVE TypeOK'
  BY <1>21, OtaAssumption DEF MarkStable, OtaAssumption
<1>22. ASSUME Rest \/ UNCHANGED vars PROVE TypeOK'
  BY <1>22 DEF Rest, vars
<1>23. QED
  BY <1>1, <1>2, <1>3, <1>4, <1>5, <1>6, <1>7, <1>8, <1>9, <1>10, <1>11, <1>12, <1>13, <1>14, <1>15, <1>16, <1>17, <1>18, <1>19, <1>20, <1>21, <1>22
     DEF Next, UpdaterStep, BootStep

\* Every action keeps the invariant.
LEMMA OtaInvStep ==
    ASSUME OtaAssumption, OtaInv, [Next]_vars
    PROVE  OtaInv'
<1>0. TypeOK'
  BY TypeStep DEF OtaInv
<1> USE OtaAssumption DEF OtaAssumption, OtaInv, TypeOK, Files, Contents, Journals, Phases, NoFiles, flash, loop, release,
            status, history, bounds, Recoverable, WholeFirmware, Stages, Loaded, Backups, Commits, Restores, Settled, Busy, Entries
<1>1. ASSUME NEW v \in Versions, NEW chg \in SUBSET Names, NEW del \in SUBSET Names,
            RequestInstall(v, chg, del)
      PROVE OtaInv'
  BY <1>1, <1>0 DEF RequestInstall
<1>2. ASSUME NEW n \in Names, Cleanup(n) PROVE OtaInv'
  BY <1>2, <1>0 DEF Cleanup
<1>3. ASSUME NEW n \in Names, Download(n) PROVE OtaInv'
  BY <1>3, <1>0 DEF Download
<1>4. ASSUME Prepare PROVE OtaInv'
  BY <1>4, <1>0 DEF Prepare, Verified
<1>5. ASSUME Discard PROVE OtaInv'
  BY <1>5, <1>0 DEF Discard
<1>6. ASSUME NEW n \in Names, Backup(n) PROVE OtaInv'
  BY <1>6, <1>0 DEF Backup
<1>7. ASSUME BeginCommit PROVE OtaInv'
  BY <1>7, <1>0 DEF BeginCommit, BackedUp
<1>8. ASSUME NEW n \in Names, CommitRemove(n) PROVE OtaInv'
  BY <1>8, <1>0 DEF CommitRemove
<1>9. ASSUME CommitRename PROVE OtaInv'
  BY <1>9, <1>0 DEF CommitRename
<1>10. ASSUME EndCommit PROVE OtaInv'
  BY <1>10, <1>0 DEF EndCommit, With
<1>11. ASSUME Fail PROVE OtaInv'
  BY <1>11, <1>0 DEF Fail, MustReset
<1>12. ASSUME Reset PROVE OtaInv'
  BY <1>12, <1>0 DEF Reset, Boots
<1>13. ASSUME PowerLoss PROVE OtaInv'
  BY <1>13, <1>0 DEF PowerLoss, Boots
<1>14. ASSUME Guard PROVE OtaInv'
  BY <1>14, <1>0 DEF Guard, OnTrial
<1>15. ASSUME Condemn PROVE OtaInv'
  BY <1>15, <1>0 DEF Condemn, With
<1>16. ASSUME NEW n \in Names, RestoreRemove(n) PROVE OtaInv'
  BY <1>16, <1>0 DEF RestoreRemove
<1>17. ASSUME RestoreRename PROVE OtaInv'
  BY <1>17, <1>0 DEF RestoreRename, Kept
<1>18. ASSUME EndRestore PROVE OtaInv'
  BY <1>18, <1>0 DEF EndRestore, With
<1>19. ASSUME Start PROVE OtaInv'
  BY <1>19, <1>0 DEF Start, WithoutUpdater
<1>20. ASSUME Survive PROVE OtaInv'
  BY <1>20, <1>0 DEF Survive
<1>21. ASSUME MarkStable PROVE OtaInv'
  BY <1>21, <1>0 DEF MarkStable, MayMark, With
<1>22. ASSUME Rest \/ UNCHANGED vars PROVE OtaInv'
  BY <1>22, <1>0 DEF Rest, vars
<1>23. QED
  BY <1>1, <1>2, <1>3, <1>4, <1>5, <1>6, <1>7, <1>8, <1>9, <1>10, <1>11, <1>12, <1>13, <1>14, <1>15, <1>16, <1>17, <1>18, <1>19, <1>20, <1>21, <1>22
     DEF Next, UpdaterStep, BootStep

\* A machine as installed over USB satisfies the invariant.
LEMMA OtaInvInit ==
    ASSUME OtaAssumption, Init PROVE OtaInv
BY DEF OtaAssumption, Init, OtaInv, TypeOK, Files, Contents, Journals, Phases, NoFiles,
       Recoverable, WholeFirmware, Stages, Loaded, Backups, Commits, Restores, Settled, Entries

-----------------------------------------------------------------------------
(* The theorems. *)

\* Whatever fails and whenever: the copies and the journal give back every file while a
\* transaction can be undone, a settled journal names a whole firmware, and the loops of
\* the updater and of boot_guard have done what they have passed.
THEOREM AlwaysConsistent == Spec => []OtaInv
<1>1. Init => OtaInv
  BY OtaInvInit, OtaAssumption
<1>2. OtaInv /\ [Next]_vars => OtaInv'
  BY OtaInvStep, OtaAssumption
<1>3. QED
  BY <1>1, <1>2, PTL DEF Spec

\* boot_guard can undo a commit from its first removed file to its last trial boot, also
\* after it was itself cut short.
THEOREM AlwaysRecoverable == Spec => []Recoverable
<1>1. OtaInv => Recoverable
  BY DEF OtaInv
<1>2. QED
  BY <1>1, AlwaysConsistent, PTL

\* No journal that lets the application start goes with a mixture of two firmwares.
THEOREM AlwaysWhole == Spec => []WholeFirmware
<1>1. OtaInv => WholeFirmware
  BY DEF OtaInv
<1>2. QED
  BY <1>1, AlwaysConsistent, PTL

\* The transaction starts as the switch does.
LEMMA SwitchInit ==
    ASSUME OtaAssumption, Init PROVE Switch!Init
BY DEF OtaAssumption, Init, Switch!Init, Files, Contents

\* Every action is a step of the switch or leaves it alone.
LEMMA SwitchStep ==
    ASSUME OtaAssumption, OtaInv, OtaInv', [Next]_vars
    PROVE  [Switch!Next]_Switch!vars
<1> DEFINE Stutter == UNCHANGED Switch!vars
<1> USE OtaAssumption DEF OtaAssumption, OtaInv, TypeOK, Journals, Phases, flash, loop, release, status,
            history, bounds, WholeFirmware, Stages, Loaded, Settled, Busy, Switch!vars
<1>1. ASSUME NEW v \in Versions, NEW chg \in SUBSET Names, NEW del \in SUBSET Names,
            RequestInstall(v, chg, del) PROVE Stutter
  BY <1>1 DEF RequestInstall
<1>2. ASSUME NEW n \in Names, Cleanup(n) PROVE Stutter
  BY <1>2 DEF Cleanup
<1>3. ASSUME NEW n \in Names, Download(n) PROVE Stutter
  BY <1>3 DEF Download
<1>4. ASSUME Prepare PROVE Stutter
  BY <1>4 DEF Prepare
<1>5. ASSUME Discard PROVE Stutter
  BY <1>5 DEF Discard
<1>6. ASSUME NEW n \in Names, Backup(n) PROVE Stutter
  BY <1>6 DEF Backup
<1>7. ASSUME BeginCommit PROVE Stutter
  BY <1>7 DEF BeginCommit
<1>8. ASSUME NEW n \in Names, CommitRemove(n) PROVE Stutter
  BY <1>8 DEF CommitRemove
<1>9. ASSUME CommitRename PROVE Stutter
  BY <1>9 DEF CommitRename
<1>10. ASSUME EndCommit PROVE Switch!Install(goal)
  BY <1>10 DEF EndCommit, With, Switch!Install
<1>11. ASSUME Fail PROVE Stutter
  BY <1>11 DEF Fail
<1>12. ASSUME Reset PROVE Stutter
  BY <1>12 DEF Reset, Boots
<1>13. ASSUME PowerLoss PROVE Switch!Waste \/ Stutter
  BY <1>13 DEF PowerLoss, Boots, Switch!Waste
<1>14. ASSUME Guard PROVE Switch!Grant \/ Stutter
  BY <1>14 DEF Guard, OnTrial, Switch!Grant
<1>15. ASSUME Condemn PROVE Switch!GiveUp \/ Stutter
  BY <1>15 DEF Condemn, With, Switch!GiveUp
<1>16. ASSUME NEW n \in Names, RestoreRemove(n) PROVE Stutter
  BY <1>16 DEF RestoreRemove
<1>17. ASSUME RestoreRename PROVE Stutter
  BY <1>17 DEF RestoreRename, Kept
<1>18. ASSUME EndRestore PROVE Stutter
  BY <1>18 DEF EndRestore, With
<1>19. ASSUME Start PROVE Switch!StartCandidate \/ Switch!StartTrusted
  BY <1>19 DEF Start, Switch!StartCandidate, Switch!StartTrusted
<1>20. ASSUME Survive PROVE Stutter
  BY <1>20 DEF Survive
<1>21. ASSUME MarkStable PROVE Switch!Accept
  BY <1>21 DEF MarkStable, MayMark, With, Switch!Accept
<1>22. ASSUME Rest \/ UNCHANGED vars PROVE Stutter
  BY <1>22 DEF Rest, vars
<1>23. goal \in Files
  OBVIOUS
<1>24. QED
  BY <1>1, <1>2, <1>3, <1>4, <1>5, <1>6, <1>7, <1>8, <1>9, <1>10, <1>11, <1>12, <1>13, <1>14, <1>15, <1>16, <1>17, <1>18, <1>19, <1>20, <1>21, <1>22, <1>23
     DEF Next, UpdaterStep, BootStep, Switch!Next

\* The transaction is an atomic switch: the application starts from the trusted firmware
\* or from one whole candidate, which gets Limit - 1 boots at most, and only the candidate
\* itself, running, becomes trusted.
THEOREM TransactionIsSwitch == Spec => IsSwitch
<1>1. Init => Switch!Init
  BY SwitchInit, OtaAssumption
<1>2. OtaInv /\ OtaInv' /\ [Next]_vars => [Switch!Next]_Switch!vars
  BY SwitchStep, OtaAssumption
<1>3. QED
  BY <1>1, <1>2, AlwaysConsistent, PTL DEF Spec, IsSwitch, Switch!Spec

-----------------------------------------------------------------------------
(* Versions that were undone. *)

\* A version that was rolled back is in the policy, or in a journal that keeps the
\* updater from replacing it: no updater runs, or its constructor raised.
Remembered ==
    \A v \in undone : \/ v \in rejected
                      \/ /\ journal.phase = "rolled_back" /\ journal.version = v
                         /\ up # "run" \/ phase = "absent"

LEMMA RememberedStep ==
    ASSUME OtaAssumption, OtaInv, OtaInv', Remembered, [Next]_vars
    PROVE  Remembered'
<1> USE DEF Remembered, OtaInv, TypeOK, Journals, Phases, flash, loop, release, status,
            history, bounds, Stages, Settled, Busy
<1>1. ASSUME NEW v \in Versions, NEW chg \in SUBSET Names, NEW del \in SUBSET Names,
            RequestInstall(v, chg, del) PROVE Remembered'
  BY <1>1 DEF RequestInstall
<1>2. ASSUME NEW n \in Names, Cleanup(n) \/ Download(n) \/ Backup(n) \/ CommitRemove(n)
      PROVE Remembered'
  BY <1>2 DEF Cleanup, Download, Backup, CommitRemove
<1>3. ASSUME Prepare \/ Discard \/ CommitRename \/ Fail PROVE Remembered'
  BY <1>3 DEF Prepare, Discard, CommitRename, Fail
<1>4. ASSUME BeginCommit PROVE Remembered'
  BY <1>4 DEF BeginCommit
<1>5. ASSUME EndCommit PROVE Remembered'
  BY <1>5 DEF EndCommit, With
<1>6. ASSUME Reset \/ PowerLoss PROVE Remembered'
  BY <1>6 DEF Reset, PowerLoss, Boots
<1>7. ASSUME Guard PROVE Remembered'
  BY <1>7 DEF Guard, OnTrial
<1>8. ASSUME Condemn PROVE Remembered'
  BY <1>8 DEF Condemn, With
<1>9. ASSUME (\E n \in Names : RestoreRemove(n)) \/ RestoreRename PROVE Remembered'
  BY <1>9 DEF RestoreRemove, RestoreRename, Kept
<1>10. ASSUME EndRestore PROVE Remembered'
  BY <1>10 DEF EndRestore, With
<1>11. ASSUME Start PROVE Remembered'
  BY <1>11 DEF Start, WithoutUpdater
<1>12. ASSUME Survive \/ MarkStable PROVE Remembered'
  BY <1>12 DEF Survive, MarkStable, MayMark, With
<1>13. ASSUME Rest \/ UNCHANGED vars PROVE Remembered'
  BY <1>13 DEF Rest, vars
<1>14. QED
  BY <1>1, <1>2, <1>3, <1>4, <1>5, <1>6, <1>7, <1>8, <1>9, <1>10, <1>11, <1>12, <1>13
     DEF Next, UpdaterStep, BootStep

\* Only a request begins an installation, and it looks at the policy.
LEMMA RequestedOnly ==
    ASSUME OtaInv, Remembered, [Next]_vars, phase' = "cleanup", phase # "cleanup"
    PROVE  version' \notin undone
<1>1. PICK v \in Versions, chg \in SUBSET Names, del \in SUBSET Names : RequestInstall(v, chg, del)
  BY DEF Next, UpdaterStep, BootStep, Cleanup, Download, Prepare, Discard, Backup, BeginCommit,
         CommitRemove, CommitRename, EndCommit, Fail, Reset, PowerLoss, Boots, Guard, Condemn,
         RestoreRemove, RestoreRename, EndRestore, Start, WithoutUpdater, Survive, MarkStable,
         Rest, vars, flash, loop, release, status, history, bounds
<1>2. QED
  BY <1>1 DEF RequestInstall, Remembered

\* No version that was rolled back is installed again by the channel, though the policy
\* is written a boot later and may fail to be.
THEOREM UndoneStayUndone == Spec => UndoneNotRepeated
<1>1. Init => Remembered
  BY DEF Init, Remembered
<1>2. OtaInv /\ OtaInv' /\ Remembered /\ [Next]_vars => Remembered'
  BY RememberedStep, OtaAssumption
<1>3. OtaInv /\ Remembered /\ [Next]_vars
        => [phase' = "cleanup" /\ phase # "cleanup" => version' \notin undone]_vars
  BY RequestedOnly
<1>4. QED
  BY <1>1, <1>2, <1>3, AlwaysConsistent, PTL DEF Spec, UndoneNotRepeated
=============================================================================
