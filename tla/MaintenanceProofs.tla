-------------------------- MODULE MaintenanceProofs --------------------------
(***************************************************************************)
(* Maintenance never overlaps watering, the busy flag has one owner, and   *)
(* nothing a user chose is installed unattended, for any number of         *)
(* connections and requests.                                               *)
(*                                                                         *)
(* The releasing step looks at busy, not at who works.  It is right        *)
(* because whoever works is busy (Sole), which makes MaintenanceIsDry      *)
(* inductive only together with Sole.                                      *)
(***************************************************************************)
EXTENDS Maintenance, FiniteSetTheorems, TLAPS

Sinks(c) == client[c] = "sink"

\* At most one owner, who is busy.
Sole ==
    /\ DOMAIN client = Clients
    /\ phase # "idle" => busy
    /\ \A c \in Clients : Sinks(c) => busy /\ phase = "idle"
    /\ \A c, d \in Clients : Sinks(c) /\ Sinks(d) => c = d

\* What may be installed unattended is what an automatic check found.
Chosen ==
    /\ eligible => chosenBy = "schedule"
    /\ \A c \in Clients : Sinks(c) => ~eligible

HoldInv == Sole /\ MaintenanceIsDry /\ Chosen

-----------------------------------------------------------------------------
(* Steps. *)

LEMMA HoldInit == Init => HoldInv
BY DEF Init, HoldInv, Sole, Sinks, MaintenanceIsDry, Working, Chosen

LEMMA BootHolds == ASSUME Boot PROVE HoldInv'
BY DEF Boot, HoldInv, Sole, Sinks, MaintenanceIsDry, Working, Chosen

LEMMA CheckHolds ==
    ASSUME HoldInv, NEW auto, RequestCheck(auto)
    PROVE  HoldInv'
BY DEF RequestCheck, MayUpdate, Ready, others, HoldInv, Sole, Sinks, MaintenanceIsDry,
       Working, Chosen

LEMMA InstallHolds ==
    ASSUME HoldInv, NEW auto, RequestInstall(auto)
    PROVE  HoldInv'
BY DEF RequestInstall, MayUpdate, Ready, others, HoldInv, Sole, Sinks, MaintenanceIsDry,
       Working, Chosen

\* An upload's connection takes, keeps or gives up the flag.
LEMMA ServeHolds ==
    ASSUME HoldInv, NEW c \in Clients, Connect(c) \/ Serve(c)
    PROVE  HoldInv'
<1> USE DEF HoldInv, Sole, Sinks, MaintenanceIsDry, Working, Chosen
<1>1. CASE Connect(c)
  BY <1>1 DEF Connect, updater
<1>2. CASE BeginFile(c)
  BY <1>2 DEF BeginFile, Ready
<1>3. CASE FinishFile(c)
  BY <1>3 DEF FinishFile
<1>4. CASE EndUpload(c)
  BY <1>4 DEF EndUpload
<1>5. CASE Reply(c)
  BY <1>5 DEF Reply, updater
<1> QED BY <1>1, <1>2, <1>3, <1>4, <1>5 DEF Serve

\* Steps that leave the invariant's variables alone.
LEMMA QuietHolds ==
    ASSUME HoldInv, UNCHANGED <<watering, paused, busy, phase, eligible, client, calibrating,
                                rebootAt, chosenBy>>
    PROVE  HoldInv'
BY DEF HoldInv, Sole, Sinks, MaintenanceIsDry, Working, Chosen

LEMMA ScheduleHolds ==
    ASSUME HoldInv, SchedulePoll
    PROVE  HoldInv'
<1>1. CASE UNCHANGED <<watering, paused, updater, others, chosenBy>>
  BY <1>1, QuietHolds DEF updater, others
<1>2. CASE RequestInstall(TRUE)
  BY <1>2, InstallHolds
<1>3. CASE RequestCheck(TRUE)
  BY <1>3, CheckHolds
<1> QED BY <1>1, <1>2, <1>3 DEF SchedulePoll

LEMMA HoldNext == HoldInv /\ [Next]_vars => HoldInv'
<1> SUFFICES ASSUME HoldInv, [Next]_vars PROVE HoldInv'
  OBVIOUS
<1>1. CASE StartWatering \/ EndWatering
  BY <1>1 DEF StartWatering, EndWatering, updater, others,
              HoldInv, Sole, Sinks, MaintenanceIsDry, Working, Chosen
<1>2. CASE Release
  BY <1>2 DEF Release, Maintaining, updater, others,
              HoldInv, Sole, Sinks, MaintenanceIsDry, Working, Chosen
<1>3. CASE \E c \in Clients : Connect(c) \/ Serve(c)
  BY <1>3, ServeHolds
<1>4. CASE UserUpdate
  BY <1>4, CheckHolds, InstallHolds DEF UserUpdate
<1>5. CASE EndCheck
  BY <1>5 DEF EndCheck, Eligible, others, HoldInv, Sole, Sinks, MaintenanceIsDry, Working,
              Chosen
<1>6. CASE EndInstall
  <2>1. CASE Boot
    BY <2>1, BootHolds
  <2>2. CASE ~Boot
    <3>1. /\ phase = "install" /\ phase' = "idle" /\ eligible' = FALSE
          /\ UNCHANGED <<watering, paused, client, calibrating, rebootAt, chosenBy>>
      BY <1>6, <2>2, Zenon DEF EndInstall, others
    <3> QED BY <3>1 DEF HoldInv, Sole, Sinks, MaintenanceIsDry, Working, Chosen
  <2> QED BY <2>1, <2>2
<1>7. CASE MarkStable \/ NextSlot \/ RetryDue \/ UNCHANGED vars
  BY <1>7, QuietHolds DEF MarkStable, NextSlot, RetryDue, vars, updater, others
<1>8. CASE SchedulePoll
  BY <1>8, ScheduleHolds
<1>9. CASE Calibrate \/ EndCalibration \/ Reboot
  BY <1>9 DEF Calibrate, EndCalibration, Reboot, updater,
              HoldInv, Sole, Sinks, MaintenanceIsDry, Working, Chosen
<1>10. CASE Reset \/ PowerLoss
  BY <1>10, BootHolds DEF Reset, PowerLoss
<1> QED BY <1>1, <1>2, <1>3, <1>4, <1>5, <1>6, <1>7, <1>8, <1>9, <1>10 DEF Next

\* The inductive invariant of the hold and of the busy flag.
THEOREM HoldKept == Spec => []HoldInv
BY HoldInit, HoldNext, PTL DEF Spec

-----------------------------------------------------------------------------
\* No valve is open, queued or awaited while files are received, updates or calibrations
\* run, or a reboot is pending (runtime.py:155).
THEOREM MaintenanceAlwaysDry == Spec => []MaintenanceIsDry
<1>1. HoldInv => MaintenanceIsDry
  BY DEF HoldInv
<1> QED BY <1>1, HoldKept, PTL

\* The busy flag of the updater has one owner at a time (updater.py:416-421).
THEOREM BusyAlwaysOwned == Spec => []BusyOwned
<1>1. HoldInv => BusyOwned
  <2> SUFFICES ASSUME HoldInv, NEW o \in Owners PROVE busy /\ Cardinality(Owners) = 1
    BY DEF BusyOwned
  <2>1. busy
    BY DEF HoldInv, Sole, Sinks, Owners
  <2>2. Owners = {o}
    BY DEF HoldInv, Sole, Sinks, Owners
  <2> QED BY <2>1, <2>2, FS_Singleton
<1> QED BY <1>1, HoldKept, PTL

\* The schedule installs only what its own check found (updater.py:702, 836-848).
THEOREM AutoInstallsAlwaysChecked == Spec => AutoInstallsChecked
<1>1. HoldInv /\ [Next]_vars =>
          [SchedulePoll /\ phase' = "install" => chosenBy = "schedule" /\ ~staged]_vars
  <2> SUFFICES ASSUME HoldInv, SchedulePoll, phase' = "install", ~UNCHANGED vars
               PROVE  chosenBy = "schedule" /\ ~staged
    OBVIOUS
  <2>1. CASE RequestInstall(TRUE) /\ Allowed
    BY <2>1 DEF RequestInstall, Allowed, HoldInv, Chosen
  <2>2. CASE RequestCheck(TRUE)
    BY <2>2 DEF RequestCheck, Ready, HoldInv, Sole
  <2>3. CASE UNCHANGED <<watering, paused, updater, others, chosenBy>>
    <3>1. phase = "install" /\ busy
      BY <2>3 DEF updater, HoldInv, Sole
    <3>2. pending = "none" /\ ~Allowed
      BY <3>1 DEF SchedulePoll, Allowed
    <3>3. UNCHANGED <<schedule, requests>>
      BY <2>3, <3>1, <3>2 DEF SchedulePoll, schedule, updater
    <3> QED BY <2>3, <3>3 DEF vars
  <2> QED BY <2>1, <2>2, <2>3 DEF SchedulePoll
<1> QED BY <1>1, HoldKept, PTL DEF Spec, AutoInstallsChecked
=============================================================================
