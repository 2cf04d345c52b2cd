----------------------------- MODULE OtaInstall -----------------------------
(***************************************************************************)
(* Installing an update: the transaction of updater.py from request_install*)
(* to the reset, boot_guard of boot.py, which finishes or undoes it, and   *)
(* mark_stable, which ends the trial of the new firmware.  Power may be    *)
(* lost, and calls may raise, between any two file system calls.           *)
(*                                                                         *)
(* The contents of a file are the version that wrote it.  Journals are     *)
(* read and written by the protocol of module DurableFile, hence atomic.   *)
(***************************************************************************)
EXTENDS Integers, FiniteSets

CONSTANTS
    Names,        \* the root files an update may add, replace or delete
    Shipped,      \* those of the version installed over USB
    Factory,      \* that version
    Versions,     \* the releases offered by the channel
    Missing, Torn,   \* no such file; contents that fail their hash
    Limit,        \* boot_guard's limit: boots before a pending release is undone
    MaxFaults,    \* bound: power losses and raising calls
    MaxInstalls   \* bound: installations requested

ASSUME OtaAssumption ==
    /\ Shipped \subseteq Names
    /\ Limit \in Nat \ {0} /\ MaxFaults \in Nat /\ MaxInstalls \in Nat
    /\ Missing \notin Versions \cup {Factory, Torn} \cup Names
    /\ Torn \notin Versions \cup {Factory}

VARIABLES
    file,       \* [Names -> contents of the root file]
    fresh,      \* [Names -> contents of .ota/new-NAME]
    old,        \* [Names -> contents of .ota/old-NAME]
    journal,    \* .ota-journal.json
    rejected,   \* .ota-policy.json: the versions the channel may not offer again
    up,         \* what runs: a stage of boot_guard or the application
    todo,       \* the entries its loop has still to treat
    hole,       \* the entry removed and not yet put in place, or Missing
    phase,      \* Updater.phase; "absent" if there is no updater
    changed, deletions, version,   \* the release the updater is working on
    reboot,     \* reboot_required
    healthy,    \* has the application run for 60 s?
    base, goal, \* history: the files before the last commit began, and those it makes
    running,    \* history: the files the application started from
    undone,     \* history: the versions that were rolled back
    faults, installs   \* bounds

flash == <<file, fresh, old, journal, rejected>>
release == <<changed, deletions, version>>
loop == <<todo, hole>>
status == <<reboot, healthy>>
history == <<base, goal, running, undone>>
bounds == <<faults, installs>>
vars == <<flash, up, loop, phase, release, status, history, bounds>>

Contents == Versions \cup {Factory, Missing, Torn}
Files == [Names -> Contents]
NoFiles == [n \in Names |-> Missing]
Phases == {"none", "committing", "pending", "stable", "rolling_back", "rolled_back"}
Journals == [phase : Phases, boots : Nat, version : Versions \cup {Factory},
             names : SUBSET Names, was : SUBSET Names]

Settled == journal.phase \in {"none", "stable", "rolled_back"}
With(ph) == [journal EXCEPT !.phase = ph]

-----------------------------------------------------------------------------
(* The updater, in the main loop of the application. *)

Busy == up = "run" /\ phase \notin {"idle", "absent"}

\* request_install for a checked release that changes chg and deletes del: the
\* staging directory is emptied, one entry at a time.
RequestInstall(v, chg, del) ==
    /\ up = "run" /\ phase = "idle" /\ ~reboot /\ Settled
    /\ v \notin rejected /\ installs < MaxInstalls
    /\ chg \cup del # {} /\ chg \cap del = {}
    /\ \A n \in chg : file[n] # v
    /\ \A n \in del : file[n] # Missing
    /\ version' = v /\ changed' = chg /\ deletions' = del
    /\ phase' = "cleanup" /\ todo' = Names /\ installs' = installs + 1
    /\ UNCHANGED <<flash, up, hole, status, history, faults>>

Cleanup(n) ==
    /\ Busy /\ phase = "cleanup" /\ n \in todo
    /\ fresh' = [fresh EXCEPT ![n] = Missing] /\ old' = [old EXCEPT ![n] = Missing]
    /\ todo' = IF todo = {n} THEN changed ELSE todo \ {n}
    /\ phase' = IF todo = {n} THEN "download" ELSE phase
    /\ UNCHANGED <<file, journal, rejected, up, hole, release, status, history, bounds>>

\* What is received has the right hash; what the flash took may not.
Download(n) ==
    /\ Busy /\ phase = "download" /\ n \in todo
    /\ \E c \in {version, Torn} : fresh' = [fresh EXCEPT ![n] = c]
    /\ todo' = todo \ {n}
    /\ UNCHANGED <<file, old, journal, rejected, up, hole, phase, release, status, history, bounds>>

Entries == changed \cup deletions
\* Every staged file is read back; then _prepare computes the entries.
\* Mutant of Verified: the staged files are not read back.
VerifiedNever == TRUE
Verified == \A n \in changed : fresh[n] = version
Prepare ==
    /\ Busy /\ phase = "download" /\ todo = {} /\ Verified
    /\ phase' = "backup" /\ todo' = Entries
    /\ UNCHANGED <<flash, up, hole, release, status, history, bounds>>

\* A staged file that failed its readback raises.
Discard ==
    /\ Busy /\ phase = "download" /\ todo = {} /\ ~Verified
    /\ phase' = "idle"
    /\ UNCHANGED <<flash, up, loop, release, status, history, bounds>>

Backup(n) ==
    /\ Busy /\ phase = "backup" /\ n \in todo
    /\ old' = [old EXCEPT ![n] = file[n]]
    /\ todo' = todo \ {n}
    /\ UNCHANGED <<file, fresh, journal, rejected, up, hole, phase, release, status, history, bounds>>

\* Mutant of BackedUp: the journal is written before the copies are complete.
BackedUpEarly == TRUE
BackedUp == todo = {}
\* The journal makes the transaction durable; the commit may raise after its effect.
BeginCommit ==
    /\ Busy /\ phase = "backup" /\ BackedUp
    /\ journal' = [phase |-> "committing", boots |-> 0, version |-> version,
                   names |-> Entries, was |-> {n \in Entries : file[n] # Missing}]
    /\ base' = file
    /\ goal' = [n \in Names |-> IF n \in deletions THEN Missing
                                ELSE IF n \in changed THEN version ELSE file[n]]
    /\ \/ phase' = "commit" /\ todo' = Entries /\ UNCHANGED <<reboot, faults>>
       \/ /\ faults < MaxFaults /\ faults' = faults + 1
          /\ phase' = "idle" /\ reboot' = TRUE /\ UNCHANGED todo
    /\ UNCHANGED <<file, fresh, old, rejected, up, hole, release, healthy, running, undone, installs>>

\* One entry of the commit: the destination is removed, then replaced.
CommitRemove(n) ==
    /\ Busy /\ phase = "commit" /\ hole = Missing /\ n \in todo
    /\ file' = [file EXCEPT ![n] = Missing]
    /\ hole' = IF n \in deletions THEN Missing ELSE n
    /\ todo' = todo \ {n}
    /\ UNCHANGED <<fresh, old, journal, rejected, up, phase, release, status, history, bounds>>
CommitRename ==
    /\ Busy /\ phase = "commit" /\ hole # Missing
    /\ file' = [file EXCEPT ![hole] = fresh[hole]]
    /\ fresh' = [fresh EXCEPT ![hole] = Missing]
    /\ hole' = Missing
    /\ UNCHANGED <<old, journal, rejected, up, todo, phase, release, status, history, bounds>>

EndCommit ==
    /\ Busy /\ phase = "commit" /\ todo = {} /\ hole = Missing
    /\ journal' = With("pending")
    /\ reboot' = TRUE /\ phase' = "idle"
    /\ UNCHANGED <<file, fresh, old, rejected, up, loop, release, healthy, history, bounds>>

\* poll's handler of any exception: with a transaction under way, the machine is reset.
\* Mutant of MustReset: an updater that failed just goes idle.
NeverReset == FALSE
MustReset == ~Settled
Fail ==
    /\ Busy /\ faults < MaxFaults /\ faults' = faults + 1
    /\ phase' = "idle" /\ reboot' = MustReset /\ hole' = Missing
    /\ UNCHANGED <<flash, up, todo, release, healthy, history, installs>>

-----------------------------------------------------------------------------
(* Boots and trials. *)

Boots ==
    /\ up' = "guard" /\ todo' = {} /\ hole' = Missing /\ phase' = "idle"
    /\ changed' = {} /\ deletions' = {} /\ version' = Factory
    /\ reboot' = FALSE /\ healthy' = FALSE
    /\ UNCHANGED <<flash, history, installs>>

\* The main loop resets the machine in the iteration that finds reboot_required.
Reset == up = "run" /\ reboot /\ Boots /\ UNCHANGED faults
\* Power is lost, or an exception ends boot_guard or the application, which resets.
PowerLoss == faults < MaxFaults /\ faults' = faults + 1 /\ Boots

\* boot_guard reads the journal.
\* Mutant of OnTrial: one boot more.
OnTrialLonger(boots) == boots < Limit + 1
OnTrial(boots) == boots < Limit
Guard ==
    /\ up = "guard"
    /\ IF journal.phase = "pending" THEN journal' = [journal EXCEPT !.boots = @ + 1]
                                    ELSE UNCHANGED journal
    /\ up' = IF Settled \/ (journal.phase = "pending" /\ OnTrial(journal.boots + 1))
             THEN "ready" ELSE "condemn"
    /\ UNCHANGED <<file, fresh, old, rejected, loop, phase, release, status, history, bounds>>

Condemn ==
    /\ up = "condemn"
    /\ journal' = With("rolling_back")
    /\ up' = "restore" /\ todo' = journal.names
    /\ UNCHANGED <<file, fresh, old, rejected, hole, phase, release, status, history, bounds>>

\* One entry of the rollback: from the copy, which stays, or removed if it was new.
RestoreRemove(n) ==
    /\ up = "restore" /\ hole = Missing /\ n \in todo
    /\ n \in journal.was => old[n] # Missing
    /\ file' = [file EXCEPT ![n] = Missing]
    /\ hole' = IF n \in journal.was THEN n ELSE Missing
    /\ todo' = todo \ {n}
    /\ UNCHANGED <<fresh, old, journal, rejected, up, phase, release, status, history, bounds>>
\* Mutant of Kept: the copy is moved, not copied.
KeptNot(n) == [old EXCEPT ![n] = Missing]
Kept(n) == old
RestoreRename ==
    /\ up = "restore" /\ hole # Missing
    /\ file' = [file EXCEPT ![hole] = old[hole]]
    /\ old' = Kept(hole)
    /\ hole' = Missing
    /\ UNCHANGED <<fresh, journal, rejected, up, todo, phase, release, status, history, bounds>>
EndRestore ==
    /\ up = "restore" /\ todo = {} /\ hole = Missing
    /\ journal' = With("rolled_back")
    /\ up' = "ready"
    /\ undone' = undone \cup {journal.version}
    /\ UNCHANGED <<file, fresh, old, rejected, loop, phase, release, status>>
    /\ UNCHANGED <<base, goal, running, bounds>>

\* Mutant of WithoutUpdater: a constructor that raises still leaves an updater.
WithUpdater == phase' = "idle"
WithoutUpdater == phase' = "absent"

\* The application starts; Updater.__init__ rejects a version that was rolled back,
\* unless it raises and leaves the application without an updater.
Start ==
    /\ up = "ready" /\ up' = "run"
    /\ running' = file
    /\ \/ /\ rejected' = rejected \cup (IF journal.phase = "rolled_back"
                                      THEN {journal.version} ELSE {})
          /\ UNCHANGED <<phase, faults>>
       \/ /\ faults < MaxFaults /\ faults' = faults + 1
          /\ WithoutUpdater /\ UNCHANGED rejected
    /\ UNCHANGED <<file, fresh, old, journal, loop, release, status, base, goal, undone, installs>>

\* 60 s of safety-loop iterations.
Survive ==
    /\ up = "run" /\ ~healthy /\ healthy' = TRUE
    /\ UNCHANGED <<flash, up, loop, phase, release, reboot, history, bounds>>

\* mark_stable, called by the main loop until it succeeds.
\* Mutant of MayMark: the reset that ends an installation is not waited for.
MayMarkAnyone == healthy /\ ~Busy
MayMark == healthy /\ ~Busy /\ ~reboot
MarkStable ==
    /\ up = "run" /\ MayMark /\ journal.phase = "pending"
    /\ journal' = With("stable")
    /\ UNCHANGED <<file, fresh, old, rejected, up, loop, phase, release, status, history, bounds>>

\* The main loop goes round with nothing left to do.
Rest ==
    /\ up = "run" /\ ~Busy /\ ~reboot /\ healthy /\ journal.phase # "pending"
    /\ UNCHANGED vars

-----------------------------------------------------------------------------
Init ==
    /\ file = [n \in Names |-> IF n \in Shipped THEN Factory ELSE Missing]
    /\ fresh = NoFiles /\ old = NoFiles
    /\ journal = [phase |-> "none", boots |-> 0, version |-> Factory,
                  names |-> {}, was |-> {}]
    /\ rejected = {}
    /\ up = "guard" /\ todo = {} /\ hole = Missing /\ phase = "idle"
    /\ changed = {} /\ deletions = {} /\ version = Factory
    /\ reboot = FALSE /\ healthy = FALSE
    /\ base = file /\ goal = file /\ running = file /\ undone = {}
    /\ faults = 0 /\ installs = 0

BootStep == Guard \/ Condemn \/ (\E n \in Names : RestoreRemove(n)) \/ RestoreRename
            \/ EndRestore \/ Start
UpdaterStep == \/ \E n \in Names : Cleanup(n) \/ Download(n) \/ Backup(n) \/ CommitRemove(n)
               \/ Prepare \/ Discard \/ BeginCommit \/ CommitRename \/ EndCommit
Next ==
    \/ \E v \in Versions, chg, del \in SUBSET Names : RequestInstall(v, chg, del)
    \/ UpdaterStep \/ Fail
    \/ Reset \/ PowerLoss \/ BootStep
    \/ Survive \/ MarkStable \/ Rest

Spec == Init /\ [][Next]_vars
\* The boot code runs on, the main loop polls the updater, resets when it has to and
\* calls mark_stable when it may, and an application that is left alone gets there.
FairSpec == Spec /\ WF_vars(BootStep) /\ WF_vars(UpdaterStep) /\ WF_vars(Reset)
                 /\ WF_vars(Survive) /\ WF_vars(MarkStable)

-----------------------------------------------------------------------------
(* Properties. *)

TypeOK ==
    /\ file \in Files /\ fresh \in Files /\ old \in Files
    /\ journal \in Journals /\ rejected \subseteq Versions \cup {Factory}
    /\ up \in {"guard", "condemn", "restore", "ready", "run"}
    /\ todo \subseteq Names /\ hole \in Names \cup {Missing}
    /\ phase \in {"idle", "absent", "cleanup", "download", "backup", "commit"}
    /\ changed \subseteq Names /\ deletions \subseteq Names
    /\ version \in Versions \cup {Factory}
    /\ reboot \in BOOLEAN /\ healthy \in BOOLEAN
    /\ base \in Files /\ goal \in Files /\ running \in Files
    /\ undone \subseteq Versions \cup {Factory}
    /\ faults \in Nat /\ installs \in Nat

\* While a transaction can still be undone, the copies and the journal give back every
\* file as it was, also the added and the deleted ones, and nothing else was touched.
Recoverable ==
    ~Settled => \A n \in Names :
        /\ n \in journal.was => old[n] = base[n]
        /\ n \in journal.names \ journal.was => base[n] = Missing
        /\ n \notin journal.names => file[n] = base[n] /\ goal[n] = base[n]

\* A journal that lets the application start names a whole firmware: the release, or
\* what it replaced.
WholeFirmware ==
    /\ journal.phase \in {"pending", "stable"} => file = goal
    /\ journal.phase \in {"none", "rolled_back"} => file = base

\* The transaction is an atomic switch with a bounded trial ("an interrupted commit is
\* never allowed to start mixed firmware"; "also undo newly added modules").
Switch == INSTANCE FirmwareSwitch WITH
    Firmwares <- Files,
    Chances <- Limit - 1,
    trusted <- IF journal.phase = "stable" THEN goal ELSE base,
    candidate <- IF journal.phase = "pending" THEN {goal} ELSE {},
    left <- IF journal.phase = "pending" /\ journal.boots < Limit
            THEN Limit - 1 - journal.boots ELSE 0,
    granted <- up = "ready" /\ journal.phase = "pending"
IsSwitch == Switch!Spec

\* Once faults cease, every transaction ends: the release is stable or rolled back.
Settles == ~Settled ~> Settled

\* A version that was rolled back is never installed by the channel again, though the
\* policy that says so is written one boot later, may fail to be, and the journal it is
\* written from is replaced by the next installation.
UndoneNotRepeated == [][phase' = "cleanup" /\ phase # "cleanup" => version' \notin undone]_vars
=============================================================================
