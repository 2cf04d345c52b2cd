---------------------------- MODULE Maintenance ----------------------------
(***************************************************************************)
(* Who may hold watering, and for how long: uploads (web.py, updater.py),  *)
(* update checks and installations, on request or by UpdateSchedule,       *)
(* calibration (application.py, moisture.py), pending reboots, and the     *)
(* step of runtime.run that releases the hold.  Handlers run one at a time *)
(* in one thread; an upload spreads over many polls of the web server.     *)
(***************************************************************************)
EXTENDS Naturals, FiniteSets

CONSTANTS
    Clients,      \* the connections the server serves at a time
    FlashFaults,  \* may opening, closing, removing or listing staged files raise?
    MaxRequests   \* bound: requests of the users

ASSUME MaintenanceAssumption ==
    IsFiniteSet(Clients) /\ FlashFaults \in BOOLEAN /\ MaxRequests \in Nat

VARIABLES
    watering,   \* ~controller.idle()
    paused,     \* controller.paused
    \* Updater
    busy, state, available,   \* status
    phase,      \* idle, or the operation its polls carry on
    automatic,  \* automatic_check
    eligible,   \* auto_eligible
    staged,     \* uploads # {}
    trial,      \* the journal holds firmware not yet stable
    \* the other users of the hold
    client,     \* by connection: none, an upload between files, with an open
                \* sink, or being answered
    calibrating,
    rebootAt,   \* a reboot is pending
    \* UpdateSchedule
    pending, applyPending, completed, waiting,
    chosenBy,   \* history: who chose what is available
    requests    \* bound

updater == <<busy, state, available, phase, automatic, eligible, staged, trial>>
schedule == <<pending, applyPending, completed, waiting>>
others == <<client, calibrating, rebootAt>>
vars == <<watering, paused, updater, others, schedule, chosenBy, requests>>

-----------------------------------------------------------------------------
(* The controller, as far as the hold concerns it. *)

StartWatering ==
    /\ ~paused /\ ~watering /\ watering' = TRUE
    /\ UNCHANGED <<paused, updater, others, schedule, chosenBy, requests>>
EndWatering ==
    /\ watering /\ watering' = FALSE
    /\ UNCHANGED <<paused, updater, others, schedule, chosenBy, requests>>

\* runtime.run releases the hold when nothing it looks at is under way.
\* Mutant of Maintaining: a running calibration is not looked at.
MaintainingUpdates == rebootAt \/ busy \/ \E c \in Clients : client[c] \in {"parts", "sink"}
\* Mutant of Maintaining: the updater's state is looked at in place of its busy flag.
MaintainingByState == rebootAt \/ state \in {"uploading", "checking", "downloading"} \/ calibrating
                      \/ \E c \in Clients : client[c] \in {"parts", "sink"}
Maintaining == rebootAt \/ busy \/ calibrating
               \/ \E c \in Clients : client[c] \in {"parts", "sink"}
Release ==
    /\ paused /\ ~Maintaining /\ paused' = FALSE
    /\ UNCHANGED <<watering, updater, others, schedule, chosenBy, requests>>

\* A reset: RAM is lost, and the boot guard may have settled the trial.
Boot ==
    /\ watering' = FALSE /\ paused' = FALSE
    /\ busy' = FALSE /\ state' = "idle" /\ available' = FALSE /\ phase' = "idle"
    /\ automatic' = FALSE /\ eligible' = FALSE /\ staged' = FALSE
    /\ client' = [c \in Clients |-> "none"] /\ calibrating' = FALSE /\ rebootAt' = FALSE
    /\ pending' = "none" /\ applyPending' = FALSE /\ completed' = FALSE /\ waiting' = FALSE
    /\ chosenBy' = "none"
    /\ UNCHANGED requests

-----------------------------------------------------------------------------
(* Uploads: one multipart body per connection, with any number of files.  *)

\* _require_idle
\* Mutant of Ready: another operation under way is not looked at.
ReadyBusy == ~trial
Ready == ~busy /\ ~trial

Request == requests < MaxRequests /\ requests' = requests + 1

Connect(c) ==
    /\ client[c] = "none" /\ Request
    /\ client' = [client EXCEPT ![c] = "parts"]
    /\ UNCHANGED <<watering, paused, updater, calibrating, rebootAt, schedule, chosenBy>>

\* upload_factory and begin_upload, for the header of a part.  What it sets before
\* the sink fails to open stays; the hold it had taken is given back.
BeginFile(c) ==
    /\ client[c] = "parts"
    /\ \/ /\ watering \/ ~Ready
          /\ client' = [client EXCEPT ![c] = "reply"]
          /\ UNCHANGED <<paused, busy, state, available, eligible, chosenBy>>
       \/ /\ ~watering /\ Ready
          /\ eligible' = FALSE /\ busy' = TRUE /\ state' = "uploading"
          /\ available' = (available /\ staged)
          /\ chosenBy' = IF staged THEN chosenBy ELSE "none"
          /\ \/ paused' = TRUE /\ client' = [client EXCEPT ![c] = "sink"]
             \/ FlashFaults /\ UNCHANGED paused /\ client' = [client EXCEPT ![c] = "none"]
    /\ UNCHANGED <<watering, phase, automatic, staged, trial, calibrating, rebootAt,
                   schedule, requests>>

\* sink.finish; then another part, or the end of the body.
FinishFile(c) ==
    /\ client[c] = "sink"
    /\ busy' = FALSE /\ state' = "uploaded" /\ available' = TRUE /\ staged' = TRUE
    /\ chosenBy' = "user"
    /\ \E next \in {"parts", "reply"} : client' = [client EXCEPT ![c] = next]
    /\ UNCHANGED <<watering, paused, phase, automatic, eligible, trial, calibrating,
                   rebootAt, schedule, requests>>

\* The upload ends early: it is malformed, or the connection is lost or too slow.  An
\* open sink is aborted, which raises half-way if the flash does.
AfterAbort == {FALSE} \cup (IF FlashFaults THEN {TRUE} ELSE {})
EndUpload(c) ==
    /\ client[c] \in {"parts", "sink"}
    /\ \E next \in {"none", "reply"} : client' = [client EXCEPT ![c] = next]
    /\ IF client[c] = "sink" THEN busy' \in AfterAbort ELSE UNCHANGED busy
    /\ UNCHANGED <<watering, paused, state, available, phase, automatic, eligible, staged,
                   trial, calibrating, rebootAt, schedule, chosenBy, requests>>

Reply(c) ==
    /\ client[c] = "reply" /\ client' = [client EXCEPT ![c] = "none"]
    /\ UNCHANGED <<watering, paused, updater, calibrating, rebootAt, schedule, chosenBy, requests>>

-----------------------------------------------------------------------------
(* Checks and installations. *)

\* update_action lets the request through to the updater.
MayUpdate == ~watering /\ ~calibrating

\* request_check; listing the staging directory comes after busy is set.
RequestCheck(auto) ==
    /\ MayUpdate /\ Ready
    /\ automatic' = auto /\ eligible' = FALSE /\ staged' = FALSE
    /\ busy' = TRUE /\ state' = "checking" /\ available' = FALSE
    /\ chosenBy' = "none"
    /\ \/ phase' = "check" /\ paused' = TRUE
       \/ FlashFaults /\ UNCHANGED <<phase, paused>>
    /\ UNCHANGED <<watering, trial, others>>

\* The polls of a check end in a list of changed files or in an error.
\* Mutant of Eligible: any successful check may be installed unattended.
EligibleAny(found) == found
Eligible(found) == automatic /\ found
EndCheck ==
    /\ phase = "check" /\ ~watering
    /\ phase' = "idle" /\ busy' = FALSE
    /\ \/ /\ state' = "checked" /\ available' \in BOOLEAN
          /\ eligible' = Eligible(available')
          /\ chosenBy' = IF automatic THEN "schedule" ELSE "user"
       \/ /\ state' = "error" /\ available' = FALSE /\ eligible' = FALSE
          /\ UNCHANGED chosenBy
    /\ UNCHANGED <<watering, paused, automatic, staged, trial, others, schedule, requests>>

\* request_install
RequestInstall(auto) ==
    /\ MayUpdate /\ (auto => eligible) /\ Ready /\ available
    /\ eligible' = FALSE /\ busy' = TRUE /\ state' = "downloading"
    /\ phase' = "install" /\ paused' = TRUE
    /\ UNCHANGED <<watering, available, automatic, staged, trial, others, chosenBy>>

\* The polls of an installation end in an error, or in a reset (module OtaInstall).
EndInstall ==
    /\ phase = "install" /\ ~watering
    /\ \/ /\ phase' = "idle" /\ busy' = FALSE /\ state' = "error"
          /\ available' = FALSE /\ eligible' = FALSE
          /\ UNCHANGED <<watering, paused, automatic, staged, trial, others, schedule,
                         chosenBy, requests>>
       \/ Boot /\ trial' \in BOOLEAN

UserUpdate ==
    /\ Request
    /\ RequestCheck(FALSE) \/ RequestInstall(FALSE)
    /\ UNCHANGED schedule

\* mark_stable, called when nothing is busy.
MarkStable ==
    /\ trial /\ ~watering /\ ~busy /\ trial' = FALSE
    /\ UNCHANGED <<watering, paused, busy, state, available, phase, automatic, eligible,
                   staged, others, schedule, chosenBy, requests>>

-----------------------------------------------------------------------------
(* UpdateSchedule.poll, called by an idle controller after the trial. *)

Succeeded == state = "checked"
\* The conditions of its long early return, those outside this module holding.
Allowed == /\ ~paused /\ ~rebootAt /\ ~busy /\ ~calibrating
           /\ \A c \in Clients : client[c] \notin {"parts", "sink"}
           /\ ~staged /\ (available => eligible)

SchedulePoll ==
    LET settled == pending # "none" /\ ~busy
        done == IF settled THEN Succeeded ELSE completed
        delayed == IF settled THEN ~Succeeded ELSE waiting
        apply == IF settled THEN Succeeded /\ pending = "check" /\ eligible ELSE applyPending
    IN
    /\ ~trial /\ ~watering
    /\ pending # "none" => ~busy
    /\ \/ /\ ~Allowed \/ (~apply /\ (done \/ delayed))
          /\ pending' = "none" /\ completed' = done /\ waiting' = delayed
          /\ applyPending' = apply
          /\ UNCHANGED <<watering, paused, updater, others, chosenBy>>
       \/ /\ Allowed /\ apply /\ applyPending' = FALSE
          /\ \/ /\ RequestInstall(TRUE)
                /\ pending' = "apply" /\ completed' = done /\ waiting' = delayed
             \/ /\ ~(eligible /\ available)     \* update_action raises
                /\ pending' = "none" /\ completed' = FALSE /\ waiting' = TRUE
                /\ UNCHANGED <<watering, paused, updater, others, chosenBy>>
       \/ /\ Allowed /\ ~apply /\ ~done /\ ~delayed /\ applyPending' = FALSE
          /\ RequestCheck(TRUE)
          /\ IF phase' = "check"
             THEN pending' = "check" /\ completed' = done /\ waiting' = FALSE
             ELSE pending' = "none" /\ completed' = FALSE /\ waiting' = TRUE
    /\ UNCHANGED requests

\* Time passes: the next slot begins; the retry delay is over.
NextSlot ==
    /\ completed /\ completed' = FALSE
    /\ UNCHANGED <<watering, paused, updater, others, pending, applyPending, waiting,
                   chosenBy, requests>>
RetryDue ==
    /\ waiting /\ waiting' = FALSE
    /\ UNCHANGED <<watering, paused, updater, others, pending, applyPending, completed,
                   chosenBy, requests>>

-----------------------------------------------------------------------------
(* Calibration and reboots. *)

Calibrate ==
    /\ Request /\ ~watering /\ ~calibrating
    /\ calibrating' = TRUE /\ paused' = TRUE
    /\ UNCHANGED <<watering, updater, client, rebootAt, schedule, chosenBy>>
\* The capture ends; saving its result stops all valves and leaves the hold alone.
EndCalibration ==
    /\ calibrating /\ ~watering /\ calibrating' = FALSE
    /\ UNCHANGED <<watering, paused, updater, client, rebootAt, schedule, chosenBy, requests>>

\* A reboot, by itself or after a saved setting, first stops all valves.
Reboot ==
    /\ Request
    /\ watering' = FALSE /\ paused' = TRUE /\ rebootAt' = TRUE
    /\ UNCHANGED <<updater, client, calibrating, schedule, chosenBy>>
Reset == rebootAt /\ Boot /\ trial' \in {trial, FALSE}
PowerLoss == Boot /\ trial' \in {trial, FALSE}

-----------------------------------------------------------------------------
Init ==
    /\ watering = FALSE /\ paused = FALSE
    /\ busy = FALSE /\ state = "idle" /\ available = FALSE /\ phase = "idle"
    /\ automatic = FALSE /\ eligible = FALSE /\ staged = FALSE /\ trial \in BOOLEAN
    /\ client = [c \in Clients |-> "none"] /\ calibrating = FALSE /\ rebootAt = FALSE
    /\ pending = "none" /\ applyPending = FALSE /\ completed = FALSE /\ waiting = FALSE
    /\ chosenBy = "none" /\ requests = 0

Serve(c) == BeginFile(c) \/ FinishFile(c) \/ EndUpload(c) \/ Reply(c)
Next ==
    \/ StartWatering \/ EndWatering \/ Release
    \/ \E c \in Clients : Connect(c) \/ Serve(c)
    \/ UserUpdate \/ EndCheck \/ EndInstall \/ MarkStable
    \/ SchedulePoll \/ NextSlot \/ RetryDue
    \/ Calibrate \/ EndCalibration \/ Reboot \/ Reset \/ PowerLoss

Spec == Init /\ [][Next]_vars
\* The loop of runtime.run polls everything in turn; uploads, answers, transfers and
\* captures have absolute deadlines.
FairSpec ==
    /\ Spec
    /\ WF_vars(Release) /\ WF_vars(EndCheck) /\ WF_vars(EndInstall)
    /\ WF_vars(EndCalibration) /\ WF_vars(Reset)
    /\ \A c \in Clients : WF_vars(EndUpload(c)) /\ WF_vars(Reply(c))

-----------------------------------------------------------------------------
(* Properties. *)

TypeOK ==
    /\ {watering, paused, busy, available, automatic, eligible, staged, trial, calibrating,
        rebootAt, applyPending, completed, waiting} \subseteq BOOLEAN
    /\ state \in {"idle", "uploading", "uploaded", "checking", "checked", "downloading", "error"}
    /\ phase \in {"idle", "check", "install"}
    /\ client \in [Clients -> {"none", "parts", "sink", "reply"}]
    /\ pending \in {"none", "check", "apply"}
    /\ chosenBy \in {"none", "user", "schedule"} /\ requests \in 0 .. MaxRequests

\* Maintenance never overlaps watering: while a file is received, an update or a
\* calibration runs, or a reboot is pending, no valve is open, queued or awaited.
Working == phase # "idle" \/ calibrating \/ rebootAt \/ \E c \in Clients : client[c] = "sink"
MaintenanceIsDry == Working => paused /\ ~watering

\* An operation of the updater and an open sink never work at the same time: who works
\* owns the busy flag alone.
Owners == {c \in Clients : client[c] = "sink"}
          \cup (IF phase = "idle" THEN {} ELSE {"updater"})
BusyOwned == Owners # {} => busy /\ Cardinality(Owners) = 1

\* architecture.md: only a successful automatic check can lead to automatic installation.
AutoInstallsChecked ==
    [][SchedulePoll /\ phase' = "install" => chosenBy = "schedule" /\ ~staged]_vars

\* Watering is held during maintenance, not for ever, as long as no raising call leaves
\* the busy flag set without an owner.
Orphaned == busy /\ Owners = {}
HoldReleased == []~Orphaned => (paused ~> ~paused)
=============================================================================
