------------------------------ MODULE RomCache ------------------------------
(***************************************************************************)
(* The ROM cache of romboot.py: every boot runs the application from an    *)
(* image of the root modules in one of two flash banks, named by a marker  *)
(* file, and rebuilds the other bank when the modules have changed.        *)
(*                                                                         *)
(* It composes the protocol of the marker file (DurableFile) with what an  *)
(* update transaction does to the root modules between boots               *)
(* (FirmwareSwitch, which OtaInstall implements).                          *)
(***************************************************************************)
EXTENDS Naturals

CONSTANTS
    Images,         \* the possible contents of the root modules, and their images
    Oversized,      \* those whose image exceeds a bank
    Chances,        \* boots an update may be given
    Nothing, Torn,  \* no marker; contents that fail their hash or do not parse
    MediaFaults,    \* may the flash lose a bank or a marker between boots?
    MaxFaults,      \* bound: resets, raising calls and media faults
    MaxInstalls     \* bound: updates

Banks == {0, 1}
Records == [active : Banks, image : Images]

ASSUME RomAssumption ==
    /\ Oversized \subseteq Images /\ Images # Oversized /\ Chances \in Nat
    /\ Torn \notin Images /\ Nothing \notin Images /\ Torn # Nothing
    /\ Torn \notin Records /\ Nothing \notin Records
    /\ MediaFaults \in BOOLEAN /\ MaxFaults \in Nat /\ MaxInstalls \in Nat

VARIABLES
    bank,       \* [Banks -> an image, or Torn while erased or partly written]
    mounted,    \* the bank mounted at /rom, or Nothing
    step,       \* of prepare, or what goes on before and after it
    target,     \* its variable active: the bank it will mount
    path, prev, temp, data, pc,                     \* the marker file
    running, trusted, candidate, left, granted,     \* the firmware
    faults, installs                                \* bounds

file == <<path, prev, temp, data, pc>>
firmware == <<running, trusted, candidate, left, granted>>
bounds == <<faults, installs>>
vars == <<bank, mounted, step, target, file, firmware, bounds>>

Marker == INSTANCE DurableFile WITH Values <- Records, Verify <- TRUE
Firmware == INSTANCE FirmwareSwitch WITH Firmwares <- Images

\* The modules in the root directory: the fingerprint tells any two of them apart.
Root == IF granted THEN CHOOSE f \in Images : f \in candidate ELSE trusted

Fault == faults < MaxFaults /\ faults' = faults + 1

-----------------------------------------------------------------------------
\* boot_guard grants, gives up or has nothing to do; then prepare detaches a bank the
\* platform may have mounted by itself.
Guard ==
    /\ step = "off" /\ step' = "select" /\ mounted' = Nothing
    /\ \/ Firmware!Grant \/ Firmware!GiveUp
       \/ candidate = {} /\ UNCHANGED firmware
    /\ UNCHANGED <<bank, target, file, bounds>>

Active == IF Marker!ReadJson = Nothing THEN 1 ELSE Marker!ReadJson.active
\* Mutant of Ready: the bank is not hashed.
ReadyUnhashed == Marker!ReadJson # Nothing /\ Marker!ReadJson.image = Root
Ready == /\ Marker!ReadJson # Nothing /\ Marker!ReadJson.image = Root
         /\ bank[Active] = Marker!ReadJson.image
\* Mutant of Other: a rebuild overwrites the bank in use.
OtherSame == Active
Other == 1 - Active

SelectReady ==
    /\ step = "select" /\ Ready
    /\ target' = Active /\ step' = "mount"
    /\ UNCHANGED <<bank, mounted, file, firmware, bounds>>
\* _write_image first erases the blocks it needs.
Erase ==
    /\ step = "select" /\ ~Ready /\ Root \notin Oversized
    /\ target' = Other /\ bank' = [bank EXCEPT ![Other] = Torn] /\ step' = "write"
    /\ UNCHANGED <<mounted, file, firmware, bounds>>
\* "Application exceeds ROM cache partition": the boot is refused and repeated.
\* Mutant of Refuse: prepare is tried again without a reset.
RefuseAgain == step = "select" /\ ~Ready /\ Root \in Oversized /\ UNCHANGED vars
Refuse ==
    /\ step = "select" /\ ~Ready /\ Root \in Oversized
    /\ step' = "off" /\ granted' = FALSE
    /\ UNCHANGED <<bank, mounted, target, file, running, trusted, candidate, left, bounds>>

\* The flash may take the image wrongly without saying so.
Write ==
    /\ step = "write" /\ step' = "readback"
    /\ \/ bank' = [bank EXCEPT ![target] = Root] /\ UNCHANGED faults
       \/ Fault /\ UNCHANGED bank
    /\ UNCHANGED <<mounted, target, file, firmware, installs>>
ReadsBack == bank[target] = Root
\* The image is read back and the marker is stored, one call at a time.
Readback ==
    /\ step = "readback" /\ ReadsBack
    /\ step' = "mark" /\ Marker!Open([active |-> target, image |-> Root])
    /\ UNCHANGED <<bank, mounted, target, firmware, bounds>>
Mark ==
    /\ step = "mark"
    /\ \/ /\ \/ Marker!Write /\ temp' = data
             \/ Marker!Readback \/ Marker!RemovePrev \/ Marker!Retire \/ Marker!RemovePath
          /\ UNCHANGED <<step, faults>>
       \/ Marker!Write /\ temp' = Torn /\ Fault /\ UNCHANGED step
       \/ Marker!Replace /\ step' = "mount" /\ UNCHANGED faults
    /\ UNCHANGED <<bank, mounted, target, firmware, installs>>

\* The bank is mounted and the application starts from it.
Mount ==
    /\ step = "mount" /\ step' = "run" /\ mounted' = target
    /\ Firmware!StartCandidate \/ (~granted /\ Firmware!StartTrusted)
    /\ UNCHANGED <<bank, target, file, bounds>>

-----------------------------------------------------------------------------
\* The running application installs an update, which ends in a reset, or accepts the
\* one it runs from.
Install ==
    /\ step = "run" /\ installs < MaxInstalls /\ installs' = installs + 1
    /\ \E f \in Images : Firmware!Install(f)
    /\ step' = "off" /\ UNCHANGED <<bank, mounted, target, file, faults>>
Accept ==
    /\ step = "run" /\ Firmware!Accept
    /\ UNCHANGED <<bank, mounted, step, target, file, bounds>>
\* The application runs on.
Rest == step = "run" /\ candidate = {} /\ UNCHANGED vars

\* Reset: power is lost, a call or a readback raises, or the application resets.
Halt ==
    /\ step' = "off" /\ granted' = FALSE /\ pc' = "idle"
    /\ UNCHANGED <<bank, mounted, target, path, prev, temp, data,
                   running, trusted, candidate, left, installs>>
Reset == step # "off" /\ Fault /\ Halt
Raise == /\ \/ step = "readback" /\ ~ReadsBack
            \/ step = "mark" /\ pc = "readback" /\ temp # data
         /\ Halt /\ UNCHANGED faults

\* The flash loses a bank or one generation of the marker.
Decay ==
    /\ MediaFaults /\ step = "off" /\ Fault
    /\ \/ \E b \in Banks : bank' = [bank EXCEPT ![b] = Torn] /\ UNCHANGED file
       \/ Marker!MediaFault /\ UNCHANGED bank
    /\ UNCHANGED <<mounted, step, target, firmware, installs>>

Init ==
    /\ bank = [b \in Banks |-> Torn] /\ mounted = Nothing /\ step = "off" /\ target = 1
    /\ Marker!Init /\ Firmware!Init /\ running \notin Oversized
    /\ faults = 0 /\ installs = 0

Prepare == SelectReady \/ Erase \/ Refuse \/ Write \/ Readback \/ Mark \/ Raise \/ Mount
Next == Guard \/ Prepare \/ Install \/ Accept \/ Rest \/ Reset \/ Decay

Spec == Init /\ [][Next]_vars
\* The boot code runs on, and a refused boot is repeated.
FairSpec == Spec /\ WF_vars(Guard) /\ WF_vars(Prepare)

-----------------------------------------------------------------------------
(* Properties. *)

TypeOK ==
    /\ bank \in [Banks -> Images \cup {Torn}] /\ mounted \in Banks \cup {Nothing}
    /\ step \in {"off", "select", "write", "readback", "mark", "mount", "run"}
    /\ target \in Banks
    /\ Marker!TypeOK
    /\ running \in Images /\ trusted \in Images /\ candidate \subseteq Images
    /\ left \in Nat /\ granted \in BOOLEAN
    /\ faults \in Nat /\ installs \in Nat

\* The application never runs stale or damaged cached modules: the mounted image is the
\* image of the root modules it started from, after updates, rollbacks and faults.
RunsFromRoot == step = "run" => bank[mounted] = running

\* romboot.py: two banks allow interrupted cache builds to leave the previously
\* committed image untouched.  Once the marker a reader finds names a bank that holds the
\* image it says, no call of a boot, completed or cut, takes that back.
Intact == LET committed == Marker!ReadJson
          IN committed # Nothing /\ bank[committed.active] = committed.image
CommittedIntact == [][step # "off" /\ Intact => Intact']_vars

\* An update too large for a bank, a damaged bank or a damaged marker delay the start
\* of the application; once faults cease it starts.
Starts == step # "run" ~> step = "run"
=============================================================================
