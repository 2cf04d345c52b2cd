--------------------------- MODULE RomCacheProofs ---------------------------
(***************************************************************************)
(* The application runs from the image of the modules it was started with, *)
(* and no boot damages the image that is committed, for any set of images, *)
(* any of which may be too large, and any number of updates and faults.    *)
(***************************************************************************)
EXTENDS RomCache, TLAPS

\* A trial has one candidate, and only a boot under way may be given to it.
Trial == /\ candidate = {} \/ \E f \in Images : candidate = {f}
         /\ granted => candidate # {} /\ step \notin {"off", "run"}

\* What the bank a boot works on has to do with the marker and with the modules: it is
\* the one the marker does not name until the marker is stored, and has their image from
\* the readback on.
Working ==
    /\ step = "mark" <=> pc # "idle"
    /\ step \in {"write", "readback"} => target = Other
    /\ step = "mark" => data = [active |-> target, image |-> Root]
    /\ step \in {"mark", "mount"} => bank[target] = Root
    /\ step = "run" => mounted \in Banks /\ bank[mounted] = running

RomInv == TypeOK /\ Marker!ProtocolInv /\ Trial /\ Working

LEMMA Distinct == Torn \notin Records /\ Nothing \notin Records /\ Torn # Nothing /\ Torn \notin Images
  BY RomAssumption DEF RomAssumption

LEMMA RootIsImage == ASSUME RomInv PROVE Root \in Images
  BY DEF RomInv, TypeOK, Trial, Root

LEMMA ActiveIsBank == ASSUME RomInv PROVE Active \in Banks /\ Other \in Banks /\ Other # Active
  <1>1. Marker!ReadJson = Nothing \/ Marker!ReadJson \in Records
    BY DEF Marker!ReadJson, Marker!Parses
  <1>2. Active \in Banks
    BY <1>1 DEF Active, Banks, Records
  <1>3. QED
    BY <1>2 DEF Other, Banks

-----------------------------------------------------------------------------
(* The marker file. *)

\* Every call of the protocol finds what the calls before it established.
Calls == Marker!Write \/ Marker!Readback \/ Marker!RemovePrev \/ Marker!Retire \/ Marker!RemovePath
LEMMA OpenProtects ==
    ASSUME Marker!ProtocolInv, NEW v \in Records, Marker!Open(v)
    PROVE  Marker!ProtocolInv'
  BY Distinct DEF Marker!ProtocolInv, Marker!TypeOK, Marker!Contents, Marker!Parses, Marker!Open
LEMMA CallsProtect ==
    ASSUME Marker!ProtocolInv, Calls \/ Marker!Replace
    PROVE  Marker!ProtocolInv'
  <1> USE Distinct DEF Marker!ProtocolInv, Marker!TypeOK, Marker!Contents, Marker!Parses
  <1>1. CASE Marker!Write  BY <1>1 DEF Marker!Write
  <1>2. CASE Marker!Readback  BY <1>2 DEF Marker!Readback, Marker!Accepted
  <1>3. CASE Marker!RemovePrev  BY <1>3 DEF Marker!RemovePrev
  <1>4. CASE Marker!Retire  BY <1>4 DEF Marker!Retire
  <1>5. CASE Marker!RemovePath  BY <1>5 DEF Marker!RemovePath
  <1>6. CASE Marker!Replace  BY <1>6 DEF Marker!Replace
  <1>7. QED
    BY <1>1, <1>2, <1>3, <1>4, <1>5, <1>6 DEF Calls
LEMMA HaltProtects ==
    ASSUME Marker!ProtocolInv, pc' = "idle", UNCHANGED <<path, prev, temp, data>>
    PROVE  Marker!ProtocolInv'
  BY DEF Marker!ProtocolInv, Marker!TypeOK
LEMMA MediaProtects == ASSUME Marker!ProtocolInv, Marker!MediaFault PROVE Marker!ProtocolInv'
  BY Distinct DEF Marker!ProtocolInv, Marker!TypeOK, Marker!Contents, Marker!Parses, Marker!MediaFault

\* Until the last call of a store a reader finds the marker of before, and then the new one.
LEMMA CallsInvisible ==
    ASSUME Marker!ProtocolInv, Calls
    PROVE  Marker!ReadJson' = Marker!ReadJson /\ data' = data /\ pc # "idle" /\ pc' # "idle"
  <1> USE Distinct DEF Marker!ProtocolInv, Marker!TypeOK, Marker!Contents, Marker!Parses, Marker!ReadJson
  <1>1. CASE Marker!Write  BY <1>1 DEF Marker!Write
  <1>2. CASE Marker!Readback  BY <1>2 DEF Marker!Readback, Marker!Accepted
  <1>3. CASE Marker!RemovePrev  BY <1>3 DEF Marker!RemovePrev
  <1>4. CASE Marker!Retire  BY <1>4 DEF Marker!Retire
  <1>5. CASE Marker!RemovePath  BY <1>5 DEF Marker!RemovePath
  <1>6. QED
    BY <1>1, <1>2, <1>3, <1>4, <1>5 DEF Calls
LEMMA ReplaceStores ==
    ASSUME Marker!ProtocolInv, Marker!Replace
    PROVE  Marker!ReadJson' = data /\ data \in Records /\ pc # "idle" /\ pc' = "idle"
  BY Distinct DEF Marker!ProtocolInv, Marker!TypeOK, Marker!Contents, Marker!Parses, Marker!ReadJson,
                  Marker!Replace

\* A step of the store is one of its calls, whatever the flash takes.
LEMMA MarkIsCall ==
    ASSUME Mark
    PROVE  \/ Calls /\ step' = step
           \/ Marker!Replace /\ step' = "mount"
  BY DEF Mark, Calls

-----------------------------------------------------------------------------
(* The invariant. *)

LEMMA RomInit == Init => RomInv
  <1> SUFFICES ASSUME Init PROVE RomInv
    OBVIOUS
  <1> USE RomAssumption DEF RomAssumption, Init, Marker!Init, Firmware!Init
  <1>1. Marker!ProtocolInv
    BY DEF Marker!ProtocolInv, Marker!TypeOK, Marker!Contents
  <1>2. TypeOK
    BY <1>1 DEF TypeOK, Marker!ProtocolInv, Banks
  <1>3. Trial
    BY DEF Trial
  <1>4. Working
    BY DEF Working
  <1>5. QED
    BY <1>1, <1>2, <1>3, <1>4 DEF RomInv

\* The parts of an action that leave the marker or the firmware alone.
LEMMA FileKept == ASSUME RomInv, UNCHANGED file
                  PROVE  Marker!ProtocolInv' /\ Marker!ReadJson' = Marker!ReadJson
  BY DEF RomInv, file, Marker!ProtocolInv, Marker!TypeOK, Marker!ReadJson
LEMMA FirmwareKept == ASSUME UNCHANGED firmware PROVE Root' = Root
  BY DEF firmware, Root

LEMMA GuardKeeps == ASSUME RomInv, Guard PROVE RomInv'
  <1>1. Marker!ProtocolInv'
    BY FileKept DEF Guard
  <1>2. step = "off" /\ step' = "select" /\ ~granted /\ pc = "idle" /\ pc' = "idle"
    BY DEF Guard, RomInv, Trial, Working, file
  <1>3. Trial' /\ candidate' \subseteq Images /\ left' \in Nat /\ granted' \in BOOLEAN
    <2>1. CASE Firmware!Grant
      BY <1>2, <2>1 DEF RomInv, TypeOK, Trial, Firmware!Grant
    <2>2. CASE Firmware!GiveUp
      BY <1>2, <2>2 DEF RomInv, TypeOK, Trial, Firmware!GiveUp
    <2>3. CASE UNCHANGED firmware
      BY <1>2, <2>3 DEF RomInv, TypeOK, Trial, firmware
    <2>4. QED
      BY <2>1, <2>2, <2>3 DEF Guard
  <1>4. TypeOK'
    BY <1>1, <1>2, <1>3
       DEF Guard, RomInv, TypeOK, Marker!ProtocolInv, Firmware!Grant, Firmware!GiveUp, firmware, bounds
  <1>5. Working'
    BY <1>2 DEF Working
  <1>6. QED
    BY <1>1, <1>3, <1>4, <1>5 DEF RomInv

LEMMA SelectReadyKeeps == ASSUME RomInv, SelectReady PROVE RomInv'
  <1>1. Marker!ProtocolInv'
    BY FileKept DEF SelectReady
  <1>2. TypeOK' /\ Trial'
    BY <1>1, ActiveIsBank DEF SelectReady, RomInv, TypeOK, Trial, Marker!ProtocolInv, firmware, bounds
  <1>3. bank'[target'] = Root'
    BY FirmwareKept DEF SelectReady, Ready
  <1>4. Working'
    BY <1>3 DEF SelectReady, RomInv, Working, file
  <1>5. QED
    BY <1>1, <1>2, <1>4 DEF RomInv

LEMMA EraseKeeps == ASSUME RomInv, Erase PROVE RomInv'
  <1>1. Marker!ProtocolInv' /\ Marker!ReadJson' = Marker!ReadJson
    BY FileKept DEF Erase
  <1>2. TypeOK' /\ Trial'
    BY <1>1, ActiveIsBank DEF Erase, RomInv, TypeOK, Trial, Marker!ProtocolInv, firmware, bounds
  <1>3. target' = Other'
    BY <1>1 DEF Erase, Other, Active
  <1>4. Working'
    BY <1>3 DEF Erase, RomInv, Working, file
  <1>5. QED
    BY <1>1, <1>2, <1>4 DEF RomInv

LEMMA RefuseKeeps == ASSUME RomInv, Refuse PROVE RomInv'
  <1>1. Marker!ProtocolInv'
    BY FileKept DEF Refuse
  <1>2. TypeOK' /\ Trial'
    BY <1>1 DEF Refuse, RomInv, TypeOK, Trial, Marker!ProtocolInv, bounds
  <1>3. Working'
    BY DEF Refuse, RomInv, Working, file
  <1>4. QED
    BY <1>1, <1>2, <1>3 DEF RomInv

LEMMA WriteKeeps == ASSUME RomInv, Write PROVE RomInv'
  <1>1. Marker!ProtocolInv' /\ Marker!ReadJson' = Marker!ReadJson
    BY FileKept DEF Write
  <1>2. TypeOK' /\ Trial'
    BY <1>1, RootIsImage, RomAssumption
       DEF Write, Fault, RomInv, TypeOK, Trial, Marker!ProtocolInv, firmware, RomAssumption
  <1>3. target' = Other'
    BY <1>1 DEF Write, RomInv, Working, Other, Active
  <1>4. Working'
    BY <1>3 DEF Write, RomInv, Working, file
  <1>5. QED
    BY <1>1, <1>2, <1>4 DEF RomInv

LEMMA ReadbackKeeps == ASSUME RomInv, Readback PROVE RomInv'
  <1>1. [active |-> target, image |-> Root] \in Records
    BY RootIsImage DEF RomInv, TypeOK, Records
  <1>2. Marker!ProtocolInv'
    BY <1>1, OpenProtects DEF Readback, RomInv
  <1>3. TypeOK' /\ Trial'
    BY <1>2 DEF Readback, RomInv, TypeOK, Trial, Marker!ProtocolInv, firmware, bounds
  <1>4. Root' = Root
    BY FirmwareKept DEF Readback
  <1>5. Working'
    BY <1>4 DEF Readback, ReadsBack, RomInv, Working, Marker!Open
  <1>6. QED
    BY <1>2, <1>3, <1>5 DEF RomInv

LEMMA MarkKeeps == ASSUME RomInv, Mark PROVE RomInv'
  <1>1. Marker!ProtocolInv'
    BY MarkIsCall, CallsProtect DEF RomInv
  <1>2. TypeOK' /\ Trial'
    BY <1>1, MarkIsCall, RomAssumption
       DEF Mark, Fault, RomInv, TypeOK, Trial, Marker!ProtocolInv, firmware, RomAssumption
  <1>3. Root' = Root /\ bank' = bank /\ target' = target /\ step = "mark"
    BY FirmwareKept DEF Mark
  <1>4. Working'
    <2>1. CASE Calls /\ step' = step
      BY <1>3, <2>1, CallsInvisible DEF RomInv, Working
    <2>2. CASE Marker!Replace /\ step' = "mount"
      BY <1>3, <2>2, ReplaceStores DEF RomInv, Working
    <2>3. QED
      BY <2>1, <2>2, MarkIsCall
  <1>5. QED
    BY <1>1, <1>2, <1>4 DEF RomInv

\* The boot starts the firmware whose modules were the root's, trusted or on trial.
LEMMA MountStartsRoot == ASSUME RomInv, Mount PROVE running' = Root
  <1>1. CASE Firmware!StartCandidate
    BY <1>1 DEF Firmware!StartCandidate, RomInv, TypeOK, Trial, Root
  <1>2. CASE ~granted /\ Firmware!StartTrusted
    BY <1>2 DEF Firmware!StartTrusted, Root
  <1>3. QED
    BY <1>1, <1>2 DEF Mount

LEMMA MountKeeps == ASSUME RomInv, Mount PROVE RomInv'
  <1>1. Marker!ProtocolInv'
    BY FileKept DEF Mount
  <1>2. granted' = FALSE /\ UNCHANGED <<trusted, candidate, left>>
    BY DEF Mount, Firmware!StartCandidate, Firmware!StartTrusted, RomInv, TypeOK
  <1>3. TypeOK' /\ Trial'
    BY <1>1, <1>2, MountStartsRoot, RootIsImage
       DEF Mount, RomInv, TypeOK, Trial, Marker!ProtocolInv, bounds
  <1>4. Working'
    BY <1>2, MountStartsRoot DEF Mount, RomInv, TypeOK, Working, file
  <1>5. QED
    BY <1>1, <1>3, <1>4 DEF RomInv

LEMMA InstallKeeps == ASSUME RomInv, Install PROVE RomInv'
  <1>1. Marker!ProtocolInv'
    BY FileKept DEF Install
  <1>2. PICK f \in Images : Firmware!Install(f)
    BY DEF Install
  <1>3. TypeOK' /\ Trial'
    BY <1>1, <1>2, RomAssumption
       DEF Install, Firmware!Install, RomInv, TypeOK, Trial, Marker!ProtocolInv, RomAssumption
  <1>4. Working'
    BY DEF Install, RomInv, Working, file
  <1>5. QED
    BY <1>1, <1>3, <1>4 DEF RomInv

LEMMA AcceptKeeps == ASSUME RomInv, Accept PROVE RomInv'
  <1>1. Marker!ProtocolInv'
    BY FileKept DEF Accept
  <1>2. TypeOK' /\ Trial'
    BY <1>1 DEF Accept, Firmware!Accept, RomInv, TypeOK, Trial, Marker!ProtocolInv, bounds
  <1>3. Working'
    BY DEF Accept, Firmware!Accept, RomInv, Working, file
  <1>4. QED
    BY <1>1, <1>2, <1>3 DEF RomInv

LEMMA HaltKeeps == ASSUME RomInv, Halt, faults' \in Nat PROVE RomInv'
  <1>1. Marker!ProtocolInv'
    BY HaltProtects DEF Halt, RomInv
  <1>2. TypeOK' /\ Trial'
    BY <1>1 DEF Halt, RomInv, TypeOK, Trial, Marker!ProtocolInv
  <1>3. Working'
    BY DEF Halt, Working
  <1>4. QED
    BY <1>1, <1>2, <1>3 DEF RomInv

LEMMA DecayKeeps == ASSUME RomInv, Decay PROVE RomInv'
  <1>1. Marker!ProtocolInv' /\ pc' = pc
    BY FileKept, MediaProtects DEF Decay, RomInv, Marker!MediaFault, file
  <1>2. TypeOK' /\ Trial'
    BY <1>1, RomAssumption
       DEF Decay, Fault, RomInv, TypeOK, Trial, Marker!ProtocolInv, firmware, RomAssumption
  <1>3. Working'
    BY <1>1 DEF Decay, RomInv, Working
  <1>4. QED
    BY <1>1, <1>2, <1>3 DEF RomInv

LEMMA RomNext == ASSUME RomInv, [Next]_vars PROVE RomInv'
  <1>1. CASE Reset \/ Raise
    <2>1. Halt /\ faults' \in Nat
      BY <1>1, RomAssumption DEF Reset, Raise, Fault, RomInv, TypeOK, RomAssumption
    <2>2. QED
      BY <2>1, HaltKeeps
  <1>2. CASE UNCHANGED vars
    <2>1. Marker!ProtocolInv' /\ Marker!ReadJson' = Marker!ReadJson
      BY <1>2, FileKept DEF vars
    <2>2. TypeOK' /\ Trial'
      BY <1>2, <2>1 DEF vars, RomInv, TypeOK, Trial, Marker!ProtocolInv, firmware, bounds
    <2>3. Working'
      BY <1>2, <2>1, FirmwareKept DEF vars, RomInv, Working, file, Other, Active, firmware
    <2>4. QED
      BY <2>1, <2>2, <2>3 DEF RomInv
  <1>3. QED
    BY <1>1, <1>2, GuardKeeps, SelectReadyKeeps, EraseKeeps, RefuseKeeps, WriteKeeps, ReadbackKeeps,
       MarkKeeps, MountKeeps, InstallKeeps, AcceptKeeps, DecayKeeps
    DEF Next, Prepare, Rest

-----------------------------------------------------------------------------
\* The invariant of the boots: whose image the bank at work has, and that the marker's
\* store finds the file in order (romboot.py:288-329).
THEOREM BootsHold == Spec => []RomInv
<1>1. Init => RomInv
  BY RomInit
<1>2. RomInv /\ [Next]_vars => RomInv'
  BY RomNext
<1>3. QED
  BY <1>1, <1>2, PTL DEF Spec

\* Banks, marker and firmware keep their types.
THEOREM RomTypes == Spec => []TypeOK
<1>1. RomInv => TypeOK
  BY DEF RomInv
<1>2. QED
  BY <1>1, BootsHold, PTL

\* The mounted image is that of the modules the application was started with, after
\* updates, rollbacks, cut rebuilds and damage of either bank or marker (romboot.py:299-329).
THEOREM AlwaysRunsFromRoot == Spec => []RunsFromRoot
<1>1. RomInv => RunsFromRoot
  BY DEF RomInv, Working, RunsFromRoot
<1>2. QED
  BY <1>1, BootsHold, PTL

-----------------------------------------------------------------------------
(* The committed image. *)

\* Steps that change neither bank nor marker.
LEMMA Untouched ==
    ASSUME RomInv, Intact, UNCHANGED <<bank, path, prev>>
    PROVE  Intact'
  BY DEF Intact, Marker!ReadJson, Marker!Parses

LEMMA IntactKept ==
    ASSUME RomInv, [Next]_vars, step # "off", Intact
    PROVE  Intact'
  <1>0. /\ Marker!ReadJson \in Records /\ Active = Marker!ReadJson.active
        /\ Other # Marker!ReadJson.active /\ bank \in [Banks -> Images \cup {Torn}]
    BY ActiveIsBank DEF Intact, Marker!ReadJson, Marker!Parses, Active, RomInv, TypeOK
  <1>1. CASE Erase
    <2>1. Marker!ReadJson' = Marker!ReadJson /\ bank' = [bank EXCEPT ![Other] = Torn]
      BY <1>1, FileKept DEF Erase
    <2>2. QED
      BY <1>0, <2>1 DEF Intact, Records
  \* The bank written to is not the committed one.
  <1>2. CASE Write
    <2>1. Marker!ReadJson' = Marker!ReadJson /\ target = Other
      BY <1>2, FileKept DEF Write, RomInv, Working
    <2>2. bank' = bank \/ bank' = [bank EXCEPT ![Other] = Root]
      BY <1>2, <2>1 DEF Write
    <2>3. QED
      BY <1>0, <2>1, <2>2 DEF Intact, Records
  \* A marker that is replaced names the bank that was read back.
  <1>3. CASE Mark
    <2>1. bank' = bank /\ step = "mark"
      BY <1>3 DEF Mark
    <2>2. CASE Calls
      BY <2>1, <2>2, CallsInvisible DEF Intact, RomInv
    <2>3. CASE Marker!Replace
      <3>1. Marker!ReadJson' = [active |-> target, image |-> Root] /\ bank[target] = Root
        BY <2>1, <2>3, ReplaceStores DEF RomInv, Working
      <3>2. Marker!ReadJson' # Nothing
        BY <2>3, ReplaceStores, Distinct DEF RomInv
      <3>3. QED
        BY <2>1, <3>1, <3>2 DEF Intact
    <2>4. QED
      BY <1>3, <2>2, <2>3, MarkIsCall
  <1>4. CASE Readback
    BY <1>4, Untouched DEF Readback, Marker!Open
  <1>5. CASE SelectReady \/ Refuse \/ Mount \/ Install \/ Accept
    BY <1>5, Untouched DEF SelectReady, Refuse, Mount, Install, Accept, file
  <1>6. CASE Reset \/ Raise
    BY <1>6, Untouched DEF Reset, Raise, Halt
  <1>7. CASE Rest \/ UNCHANGED vars
    BY <1>7, Untouched DEF Rest, vars, file
  <1>8. QED
    BY <1>1, <1>2, <1>3, <1>4, <1>5, <1>6, <1>7 DEF Next, Prepare, Guard, Decay

\* Cut wherever it is, a boot never damages an image the marker vouches for
\* (romboot.py:3, 301-325).
THEOREM CommittedAlwaysIntact == Spec => CommittedIntact
<1>1. RomInv /\ [Next]_vars => [step # "off" /\ Intact => Intact']_vars
  BY IntactKept
<1>2. QED
  BY <1>1, BootsHold, PTL DEF Spec, CommittedIntact

-----------------------------------------------------------------------------
(* The abstract specifications. *)

LEMMA MarkerStep ==
    ASSUME RomInv, [Next]_vars
    PROVE  [Marker!Register!Next]_(Marker!Register!vars)
  <1> USE Distinct DEF RomInv, Marker!ProtocolInv, Marker!TypeOK, Marker!Contents, Marker!Parses,
                       Marker!ReadJson, Marker!Register!vars
  <1>1. CASE UNCHANGED <<path, prev>>
    BY <1>1
  <1>2. CASE Marker!RemovePrev
    BY <1>2 DEF Marker!RemovePrev, Marker!Register!LoseOlder, Marker!Register!Next
  <1>3. CASE Marker!Retire \/ Marker!RemovePath
    BY <1>3 DEF Marker!Retire, Marker!RemovePath
  <1>4. CASE Marker!Replace
    <2>1. Marker!Register!Store(data) /\ data \in Records
      BY <1>4 DEF Marker!Replace, Marker!Register!Store
    <2>2. QED
      BY <2>1 DEF Marker!Register!Next
  <1>5. CASE Marker!MediaFault
    BY <1>5 DEF Marker!MediaFault, Marker!Register!LoseValue, Marker!Register!LoseOlder,
                Marker!Register!Next
  <1>6. CASE Mark
    BY <1>1, <1>2, <1>3, <1>4, <1>6, MarkIsCall DEF Calls, Marker!Write, Marker!Readback
  <1>7. QED
    BY <1>1, <1>5, <1>6
       DEF Next, Prepare, Guard, SelectReady, Erase, Refuse, Write, Readback, Marker!Open, Mount,
           Install, Accept, Rest, Reset, Raise, Halt, Decay, vars, file

\* For the boots that read it the marker is a register whose stores are atomic, resets and
\* lost generations included (_atomic_json and _read_state, romboot.py).
THEOREM MarkerIsRegister == Spec => Marker!IsRegister
<1>1. Init => Marker!Register!Init
  BY Distinct DEF Init, Marker!Init, Marker!Register!Init, Marker!ReadJson, Marker!Parses
<1>2. RomInv /\ [Next]_vars => [Marker!Register!Next]_(Marker!Register!vars)
  BY MarkerStep
<1>3. QED
  BY <1>1, <1>2, BootsHold, PTL DEF Spec, Marker!IsRegister, Marker!Register!Spec

LEMMA SwitchStep ==
    ASSUME RomInv, [Next]_vars
    PROVE  [Firmware!Next]_(Firmware!vars)
  <1> USE DEF Firmware!Next, Firmware!vars
  <1>1. CASE UNCHANGED firmware
    BY <1>1 DEF firmware
  <1>2. CASE granted' = FALSE /\ UNCHANGED <<running, trusted, candidate, left>>
    BY <1>2 DEF RomInv, TypeOK, Firmware!Waste
  <1>3. CASE Guard
    BY <1>1, <1>3 DEF Guard
  <1>4. CASE Mount
    BY <1>4 DEF Mount
  <1>5. CASE Install \/ Accept
    BY <1>5 DEF Install, Accept
  <1>6. QED
    BY <1>1, <1>2, <1>3, <1>4, <1>5
       DEF Next, Prepare, SelectReady, Erase, Refuse, Write, Readback, Mark, Rest, Reset, Raise,
           Halt, Decay, vars, firmware

\* With the cache between the boot guard and the application, updates still keep the
\* promise of FirmwareSwitch: a refused, cut or raising boot costs the candidate the chance
\* it was given and nothing else (romboot.py:288-329 after boot.py's boot_guard).
THEOREM CacheKeepsSwitch == Spec => Firmware!Spec
<1>1. Init => Firmware!Init
  BY DEF Init
<1>2. RomInv /\ [Next]_vars => [Firmware!Next]_(Firmware!vars)
  BY SwitchStep
<1>3. QED
  BY <1>1, <1>2, BootsHold, PTL DEF Spec, Firmware!Spec
=============================================================================
