------------------------- MODULE SettingsStoreProofs -------------------------
(***************************************************************************)
(* The file protocol is an atomic register, for any set of documents and   *)
(* with or without the readback.  Over it, renames keep the records of     *)
(* watered valves, the next boot closes what is driven, and settings that  *)
(* cannot be read are kept, for every set of names and documents.          *)
(*                                                                         *)
(* The invariant has five parts: what the file's protocol relies on        *)
(* (ProtocolInv), which request is under way (Handling), where records     *)
(* are (Records), which settings the outputs belong to (Pinned), and what  *)
(* damaged settings exclude (Kept).                                        *)
(***************************************************************************)
EXTENDS SettingsStore, TLAPS

-----------------------------------------------------------------------------
(* The file. *)

\* Every step of the protocol finds what the steps before it established.
LEMMA ProtocolStep == FileAssumption /\ ProtocolInv /\ [Next]_vars => ProtocolInv'
<1> SUFFICES ASSUME FileAssumption, ProtocolInv, [Next]_vars
             PROVE  ProtocolInv'
  OBVIOUS
<1> USE DEF FileAssumption, ProtocolInv, TypeOK, Contents, Parses
<1>1. ASSUME NEW v \in Values, Open(v) PROVE ProtocolInv'
  BY <1>1 DEF Open
<1>2. CASE Write
  BY <1>2 DEF Write
<1>3. CASE Readback
  BY <1>3 DEF Readback, Accepted
<1>4. CASE RemovePrev
  BY <1>4 DEF RemovePrev
<1>5. CASE Retire
  BY <1>5 DEF Retire
<1>6. CASE RemovePath
  BY <1>6 DEF RemovePath
<1>7. CASE Replace
  BY <1>7 DEF Replace
<1>8. CASE Interrupt
  BY <1>8 DEF Interrupt
<1>9. CASE MediaFault
  BY <1>9 DEF MediaFault
<1>10. CASE UNCHANGED vars
  BY <1>10 DEF vars
<1>11. QED
  BY <1>1, <1>2, <1>3, <1>4, <1>5, <1>6, <1>7, <1>8, <1>9, <1>10 DEF Next

\* The protocol invariant holds throughout, whatever is interrupted or lost.
THEOREM ProtocolHolds == Spec => []ProtocolInv
<1>1. Init => ProtocolInv
  BY DEF Init, ProtocolInv, TypeOK, Contents
<1>2. QED
  BY <1>1, ProtocolStep, FileAssumption, PTL DEF Spec

\* Every step stores the data, loses a generation, or is invisible to readers.
LEMMA RegisterStep ==
    FileAssumption /\ ProtocolInv /\ [Next]_vars => [Register!Next]_(Register!vars)
<1> SUFFICES ASSUME FileAssumption, ProtocolInv, [Next]_vars
             PROVE  [Register!Next]_(Register!vars)
  OBVIOUS
<1> USE DEF FileAssumption, ProtocolInv, TypeOK, Contents, Parses, ReadJson, Register!vars
<1>1. ASSUME NEW v \in Values, Open(v) PROVE UNCHANGED Register!vars
  BY <1>1 DEF Open
<1>2. ASSUME Write \/ Readback \/ Interrupt \/ UNCHANGED vars
      PROVE  UNCHANGED Register!vars
  BY <1>2 DEF Write, Readback, Interrupt, vars
<1>3. ASSUME RemovePrev PROVE UNCHANGED Register!vars \/ Register!LoseOlder
  BY <1>3 DEF RemovePrev, Register!LoseOlder
<1>4. ASSUME Retire \/ RemovePath PROVE UNCHANGED Register!vars
  BY <1>4 DEF Retire, RemovePath
<1>5. ASSUME Replace PROVE UNCHANGED Register!vars \/ \E v \in Values : Register!Store(v)
  <2>1. CASE temp \in Values
    <3>1. Register!Store(temp)
      BY <1>5, <2>1 DEF Replace, Register!Store
    <3>2. QED
      BY <2>1, <3>1
  <2>2. CASE temp = Torn
    BY <1>5, <2>2 DEF Replace
  <2>3. QED
    BY <1>5, <2>1, <2>2 DEF Replace
<1>6. ASSUME MediaFault PROVE Register!LoseValue \/ Register!LoseOlder
  BY <1>6 DEF MediaFault, Register!LoseValue, Register!LoseOlder
<1>7. QED
  BY <1>1, <1>2, <1>3, <1>4, <1>5, <1>6 DEF Next, Register!Next

\* For its readers the file is a register whose stores are atomic and whose previous
\* value survives the loss of the last one.
THEOREM FileIsRegister == Spec => IsRegister
<1>1. Init => Register!Init
  BY FileAssumption DEF Init, Register!Init, ReadJson, Parses, FileAssumption
<1>2. QED
  BY <1>1, RegisterStep, ProtocolHolds, FileAssumption, PTL DEF Spec, IsRegister, Register!Spec

\* A call that returns has stored its data, where the temporary is read back.
THEOREM ReturnIsStored == Spec => ReturnStores
<1>1. ProtocolInv => (Replace /\ Verify => ReadJson' = data)
  BY FileAssumption DEF ProtocolInv, TypeOK, Replace, ReadJson, Parses, FileAssumption
<1>2. QED
  BY <1>1, ProtocolHolds, PTL DEF Spec, ReturnStores

-----------------------------------------------------------------------------
(* The settings. *)

Handling ==
    /\ request = [step |-> request.step, doc |-> request.doc,
                  moves |-> request.moves, reboot |-> request.reboot]
    /\ request.step \in {"none", "record", "store", "reboot"} /\ request.doc \in Values
    /\ mode \in {"off", "starting", "up"}
    /\ pc # "idle" => request.step = "store" /\ data = request.doc
    /\ mode = "off" => request.step = "none"
    /\ mode = "starting" => request.step = "store" /\ request.moves = <<>> /\ ~request.reboot

\* Records that a rename needs are in RAM before, and on flash after the journal is stored.
Records ==
    /\ wet \subseteq journal
    /\ mode # "off" => journal \subseteq ledger
    /\ request.step = "record" => \A n \in DOMAIN request.moves \cap wet : request.moves[n] \in ledger
    /\ request.step = "store" => \A n \in DOMAIN request.moves \cap wet : request.moves[n] \in journal

\* The controller that may drive outputs has those of the settings that will be read.
Current == mode = "up" /\ request.step # "reboot" /\ ~rebooting /\ ~inhibited
Pinned ==
    /\ valves \in Values
    /\ rebooting => paused
    /\ mode = "starting" => valves = request.doc
    /\ ~lost =>
        /\ open \subseteq BootPins
        /\ request.step # "none" => open = {}
        /\ Current => settings = ReadJson /\ valves = ReadJson
        /\ Current /\ request.step # "none" /\ ~request.reboot => request.doc = ReadJson

Kept == ReadJson = Nothing /\ Torn \in {path, prev} => mode = "off" /\ open = {} /\ pc = "idle"

StoreInv == ProtocolInv /\ Handling /\ Records /\ Pinned /\ Kept

LEMMA Documents == /\ Nothing \notin Values /\ Torn \notin Values /\ Torn # Nothing
                   /\ Config \in Values /\ Verify = TRUE
  BY FileAssumption, SettingsAssumption DEF FileAssumption, SettingsAssumption

-----------------------------------------------------------------------------
(* The file. *)

\* What the calls of atomic_json before the last one leave to readers.
Calls == \/ \E v \in Values : Open(v)
         \/ Write \/ Readback \/ RemovePrev \/ Retire \/ RemovePath \/ Interrupt
         \/ UNCHANGED file
LEMMA CallsInvisible == ASSUME ProtocolInv, Calls PROVE ReadJson' = ReadJson
  <1> USE FileAssumption DEF FileAssumption, ProtocolInv, TypeOK, Contents, ReadJson, Parses
  <1>1. CASE \E v \in Values : Open(v)  BY <1>1 DEF Open
  <1>2. CASE Write \/ Readback \/ RemovePrev \/ Interrupt \/ UNCHANGED file
    BY <1>2 DEF Write, Readback, RemovePrev, Interrupt, file
  <1>3. CASE Retire \/ RemovePath  BY <1>3 DEF Retire, RemovePath
  <1> QED  BY <1>1, <1>2, <1>3 DEF Calls

LEMMA ReplaceStores == ASSUME ProtocolInv, Replace PROVE ReadJson' = data /\ data \in Values
  BY Documents DEF ProtocolInv, TypeOK, Replace, ReadJson, Parses

\* Every step of the planter is one of the file, or leaves it alone.
LEMMA FileStep == ASSUME Handling, [StoreNext]_all PROVE [Next]_vars
  <1>1. CASE StoreStep  BY <1>1 DEF StoreStep, Next, Handling
  <1>2. CASE Stored  BY <1>2 DEF Stored, Next
  <1>3. CASE StoreRaises \/ Off  BY <1>3 DEF StoreRaises, Off, Next, file, vars
  <1>4. CASE Lose  BY <1>4 DEF Lose, Next
  <1>5. CASE UNCHANGED file  BY <1>5 DEF file, vars
  <1>6. CASE Boot \/ Record \/ Reboot \/ Close \/ Release
    BY <1>5, <1>6 DEF Boot, Record, Reboot, Close, Release
  <1>7. ASSUME NEW doc, NEW moves, NEW reboot, Edit(doc, moves, reboot) PROVE UNCHANGED file
    BY <1>7 DEF Edit
  <1>8. ASSUME NEW n, Water(n) PROVE UNCHANGED file  BY <1>8 DEF Water
  <1>9. CASE UNCHANGED all  BY <1>5, <1>9 DEF all
  <1> QED  BY <1>1, <1>2, <1>3, <1>4, <1>5, <1>6, <1>7, <1>8, <1>9 DEF StoreNext

-----------------------------------------------------------------------------
(* Each part of the invariant is preserved. *)

LEMMA HandlingStep == ASSUME StoreInv, [StoreNext]_all PROVE Handling'
  <1> USE DEF StoreInv, Handling, NoRequest
  <1>1. CASE Boot
    <2>1. CASE Damaged  BY <1>1, <2>1 DEF Boot, app, file
    <2>2. CASE ~Damaged
      <3>1. (IF ReadJson = Nothing THEN Config ELSE ReadJson) \in Values
        BY Documents DEF ReadJson, Parses
      <3> QED  BY <1>1, <2>2, <3>1 DEF Boot, app, file, ProtocolInv
    <2> QED  BY <2>1, <2>2
  <1>2. CASE Off  BY <1>2, Documents DEF Off, Interrupt, file
  <1>3. ASSUME NEW doc \in Values, NEW reboot \in BOOLEAN, NEW moves, Edit(doc, moves, reboot)
        PROVE  Handling'
    BY <1>3 DEF Edit, file, StopFails, StopAll
  <1>4. CASE Record  BY <1>4, Documents DEF Record, file
  <1>5. CASE StoreStep
    BY <1>5 DEF StoreStep, Open, Write, Readback, RemovePrev, Retire, RemovePath, app
  <1>6. CASE Stored  BY <1>6, Documents DEF Stored, Replace
  <1>7. CASE StoreRaises  BY <1>7, Documents DEF StoreRaises, Interrupt, file, app
  <1>8. CASE Reboot  BY <1>8, Documents DEF Reboot, file
  <1>9. ASSUME NEW n, Water(n) PROVE Handling'  BY <1>9 DEF Water, file
  <1>10. CASE Close \/ Release \/ Lose
    BY <1>10 DEF Close, Release, Lose, MediaFault, file, app
  <1>11. CASE UNCHANGED all  BY <1>11 DEF all, file, app
  <1> QED
    BY <1>1, <1>2, <1>3, <1>4, <1>5, <1>6, <1>7, <1>8, <1>9, <1>10, <1>11 DEF StoreNext

\* Copying keeps every record, and adds one under each new name.
LEMMA CopiesKeep ==
    ASSUME NEW l, NEW moves, NEW k \in Copies(l, moves)
    PROVE  l \subseteq k /\ \A n \in l \cap DOMAIN moves : moves[n] \in k
  BY DEF Copies, Copied

LEMMA RecordsStep == ASSUME StoreInv, [StoreNext]_all PROVE Records'
  <1> USE DEF StoreInv, Handling, Records, NoRequest
  <1>1. CASE Boot
    <2>1. CASE Damaged  BY <1>1, <2>1 DEF Boot, app
    <2>2. CASE ~Damaged
      <3>1. DOMAIN <<>> = {}  OBVIOUS
      <3>2. \A d : /\ [NoRequest EXCEPT !.step = "store", !.doc = d].moves = <<>>
                   /\ [NoRequest EXCEPT !.step = "store", !.doc = d].step = "store"
        OBVIOUS
      <3>3. request' = request
            \/ \E d : request' = [NoRequest EXCEPT !.step = "store", !.doc = d]
        BY <1>1, <2>2 DEF Boot
      <3> QED  BY <1>1, <2>2, <3>1, <3>2, <3>3 DEF Boot
    <2> QED  BY <2>1, <2>2
  <1>2. CASE Off
    <2>1. request'.step = "none" /\ mode' = "off" /\ UNCHANGED <<journal, wet>>
      BY <1>2 DEF Off
    <2> QED  BY <2>1
  <1>3. ASSUME NEW doc \in Values, NEW reboot \in BOOLEAN, NEW moves, Edit(doc, moves, reboot)
        PROVE  Records'
    <2>1. CASE UNCHANGED <<ledger, request>>  BY <1>3, <2>1 DEF Edit
    <2>2. CASE ledger' \in Copies(ledger, moves)
      <3>1. ledger \subseteq ledger' /\ \A n \in ledger \cap DOMAIN moves : moves[n] \in ledger'
        BY <2>2, CopiesKeep
      <3> QED  BY <1>3, <3>1 DEF Edit
    <2>3. ASSUME NEW tried, ledger' \in Copies(ledger, Restrict(moves, tried)), UNCHANGED request
          PROVE  Records'
      <3>1. ledger \subseteq ledger'  BY <2>3, CopiesKeep
      <3> QED  BY <1>3, <2>3, <3>1 DEF Edit
    <2> QED  BY <1>3, <2>1, <2>2, <2>3 DEF Edit
  <1>4. CASE Record  BY <1>4 DEF Record, Persisted, PersistRaises
  <1>5. CASE StoreStep  BY <1>5 DEF StoreStep, app
  <1>6. CASE Stored
    <2>1. wet' \subseteq journal  BY <1>6 DEF Stored, Renamed
    <2>2. mode # "off"  BY <1>6 DEF Stored
    <2> QED  BY <1>6, <2>1, <2>2 DEF Stored
  <1>7. CASE StoreRaises  BY <1>7 DEF StoreRaises, app
  <1>8. CASE Reboot  BY <1>8 DEF Reboot, Persisted, PersistRaises
  <1>9. ASSUME NEW n, Water(n) PROVE Records'
    BY <1>9 DEF Water, Persisted, PersistRaises
  <1>10. CASE Close \/ Release \/ Lose  BY <1>10 DEF Close, Release, Lose, app
  <1>11. CASE UNCHANGED all  BY <1>11 DEF all, file, app
  <1> QED
    BY <1>1, <1>2, <1>3, <1>4, <1>5, <1>6, <1>7, <1>8, <1>9, <1>10, <1>11 DEF StoreNext

\* What the files' names for the pins rest on.
LEMMA PinsSame == ASSUME UNCHANGED <<path, prev>> PROVE BootPins' = BootPins
  BY DEF BootPins, HasValves, Parses
LEMMA PinsOfCurrent ==
    ASSUME ReadJson \in Values, NEW n \in DOMAIN ReadJson PROVE ReadJson[n] \in BootPins
  BY Documents DEF BootPins, HasValves, ReadJson, Parses, Pins

LEMMA PinnedStep == ASSUME StoreInv, [StoreNext]_all PROVE Pinned'
  <1> USE DEF StoreInv, Handling, Pinned, Current, NoRequest
  <1>1. CASE Boot
    <2>1. UNCHANGED <<path, prev>> /\ BootPins' = BootPins /\ ReadJson' = ReadJson
      BY <1>1, PinsSame DEF Boot, file, ReadJson, Parses
    <2>2. CASE Damaged  BY <1>1, <2>1, <2>2 DEF Boot, app
    <2>3. CASE ~Damaged
      <3>1. ReadJson # Nothing => ReadJson \in Values  BY DEF ReadJson, Parses
      <3> QED  BY <1>1, <2>1, <2>3, <3>1, Documents DEF Boot
    <2> QED  BY <2>2, <2>3
  <1>2. CASE Off
    <2>1. UNCHANGED <<path, prev>> /\ BootPins' = BootPins
      BY <1>2, PinsSame DEF Off, Interrupt, file
    <2> QED  BY <1>2, <2>1, Documents DEF Off
  <1>3. ASSUME NEW doc \in Values, NEW reboot \in BOOLEAN, NEW moves, Edit(doc, moves, reboot)
        PROVE  Pinned'
    <2>1. BootPins' = BootPins /\ ReadJson' = ReadJson
      BY <1>3, PinsSame DEF Edit, file, ReadJson, Parses
    <2>2. CASE StopFails /\ UNCHANGED request
      <3>1. inhibited' /\ open' = open /\ request'.step = "none" /\ mode' = "up"
            /\ UNCHANGED <<valves, rebooting, paused, lost>>
        BY <1>3, <2>2 DEF Edit, StopFails
      <3> QED  BY <2>1, <3>1
    <2>3. CASE StopAll  BY <1>3, <2>1, <2>3 DEF Edit, StopAll
    <2> QED  BY <1>3, <2>2, <2>3 DEF Edit
  <1>4. CASE Record
    <2>1. BootPins' = BootPins /\ ReadJson' = ReadJson
      BY <1>4, PinsSame DEF Record, file, ReadJson, Parses
    <2> QED  BY <1>4, <2>1 DEF Record, Persisted, PersistRaises
  <1>5. CASE StoreStep
    <2>1. ReadJson' = ReadJson  BY <1>5, CallsInvisible DEF StoreStep, Calls
    <2> QED  BY <1>5, <2>1 DEF StoreStep, app
  <1>6. CASE Stored
    <2>1. ReadJson' = request.doc  BY <1>6, ReplaceStores DEF Stored, Replace
    <2> QED  BY <1>6, <2>1 DEF Stored
  <1>7. CASE StoreRaises
    <2>1. ReadJson' = ReadJson  BY <1>7, CallsInvisible DEF StoreRaises, Calls
    <2>2. UNCHANGED <<path, prev>>  BY <1>7 DEF StoreRaises, Interrupt, file
    <2> QED  BY <1>7, <2>1, <2>2, PinsSame DEF StoreRaises, app
  <1>8. CASE Reboot
    <2>1. BootPins' = BootPins /\ ReadJson' = ReadJson
      BY <1>8, PinsSame DEF Reboot, file, ReadJson, Parses
    <2> QED  BY <1>8, <2>1 DEF Reboot, Persisted, PersistRaises
  <1>9. ASSUME NEW n \in DOMAIN valves, Water(n) PROVE Pinned'
    <2>1. BootPins' = BootPins /\ ReadJson' = ReadJson
      BY <1>9, PinsSame DEF Water, file, ReadJson, Parses
    <2>2. ~lost => valves[n] \in BootPins  BY <1>9, PinsOfCurrent DEF Water
    <2> QED  BY <1>9, <2>1, <2>2 DEF Water, Persisted, PersistRaises
  <1>10. CASE Close \/ Release
    <2>1. BootPins' = BootPins /\ ReadJson' = ReadJson
      BY <1>10, PinsSame DEF Close, Release, file, ReadJson, Parses
    <2> QED  BY <1>10, <2>1 DEF Close, Release, StopAll
  <1>11. CASE Lose  BY <1>11 DEF Lose, app
  <1>12. CASE UNCHANGED all
    <2>1. BootPins' = BootPins /\ ReadJson' = ReadJson
      BY <1>12, PinsSame DEF all, file, ReadJson, Parses
    <2> QED  BY <1>12, <2>1 DEF all, app
  <1> QED
    BY <1>1, <1>2, <1>3, <1>4, <1>5, <1>6, <1>7, <1>8, <1>9, <1>10, <1>11, <1>12 DEF StoreNext

\* Nothing that is read is ever lost, and damaged settings let nothing but Boot happen.
LEMMA KeptStep ==
    ASSUME StoreInv, [StoreNext]_all
    PROVE  /\ Kept'
           /\ ReadJson = Nothing /\ Torn \in {path, prev} => UNCHANGED <<path, prev>> /\ open' = {}
  <1> USE DEF StoreInv, Handling, Kept
  <1>1. CASE UNCHANGED <<path, prev>>
    <2>1. ReadJson' = ReadJson  BY <1>1 DEF ReadJson, Parses
    <2>2. CASE ReadJson = Nothing /\ Torn \in {path, prev}
      <3>1. Damaged /\ mode = "off" /\ request.step = "none"  BY <2>2, Documents DEF Damaged
      <3>2. ~Lose  BY <2>2, Documents DEF Lose, MediaFault, ReadJson, Parses
      <3>3. ~Off /\ ~Record /\ ~StoreStep /\ ~Stored /\ ~StoreRaises /\ ~Reboot
        BY <3>1 DEF Off, Record, StoreStep, Stored, StoreRaises, Reboot
      <3>4. ~Close /\ ~Release /\ (\A n : ~Water(n)) /\ \A d, m, r : ~Edit(d, m, r)
        BY <3>1 DEF Close, Release, Water, Edit
      <3>5. Boot \/ UNCHANGED all  BY <3>2, <3>3, <3>4 DEF StoreNext
      <3> QED  BY <1>1, <2>2, <3>1, <3>5 DEF Boot, all, file, app
    <2> QED  BY <1>1, <2>1, <2>2
  <1>2. CASE Stored
    <2>1. ReadJson' \in Values  BY <1>2, ReplaceStores DEF Stored
    <2>2. mode # "off"  BY <1>2 DEF Stored
    <2> QED  BY <2>1, <2>2, Documents
  <1>3. CASE StoreStep /\ (RemovePrev \/ Retire \/ RemovePath)
    <2>1. ReadJson' = ReadJson  BY <1>3, CallsInvisible DEF Calls
    <2>2. pc # "idle"  BY <1>3 DEF RemovePrev, Retire, RemovePath
    <2>3. RemovePath \/ Parses(path)  BY <1>3 DEF ProtocolInv, RemovePrev, Retire
    <2>4. RemovePath => path = Torn  BY DEF RemovePath, ProtocolInv
    <2>5. ReadJson # Nothing  BY <2>2, <2>3, <2>4, Documents DEF ReadJson, Parses
    <2> QED  BY <2>1, <2>5
  <1>4. CASE Lose
    <2>1. ReadJson' # Nothing /\ ReadJson # Nothing
      BY <1>4, Documents DEF Lose, MediaFault, ReadJson, Parses
    <2> QED  BY <2>1
  <1>5. UNCHANGED <<path, prev>> \/ Stored \/ Lose
        \/ (StoreStep /\ (RemovePrev \/ Retire \/ RemovePath))
    <2> DEFINE same == UNCHANGED <<path, prev>>
    <2>1. Boot \/ Record \/ Reboot \/ Close \/ Release \/ UNCHANGED all => same
      BY DEF Boot, Record, Reboot, Close, Release, all, file
    <2>2. Off \/ StoreRaises => same  BY DEF Off, StoreRaises, Interrupt, file
    <2>5. Open(request.doc) \/ Write \/ Readback => same  BY DEF Open, Write, Readback
    <2>6. StoreStep => same \/ (StoreStep /\ (RemovePrev \/ Retire \/ RemovePath))
      BY <2>5 DEF StoreStep
    <2>3. ASSUME NEW n, Water(n) PROVE UNCHANGED <<path, prev>>  BY <2>3 DEF Water, file
    <2>4. ASSUME NEW d, NEW m, NEW r, Edit(d, m, r) PROVE UNCHANGED <<path, prev>>
      BY <2>4 DEF Edit, file
    <2> QED  BY <2>1, <2>2, <2>3, <2>4, <2>6 DEF StoreNext
  <1> QED  BY <1>1, <1>2, <1>3, <1>4, <1>5

LEMMA StoreStarts == StoreInit => StoreInv
  BY Documents
  DEF StoreInit, StoreInv, ProtocolInv, TypeOK, Contents, Handling, NoRequest, Records, Pinned,
      Current, Kept

LEMMA StoreInvStep == StoreInv /\ [StoreNext]_all => StoreInv'
  <1> SUFFICES ASSUME StoreInv, [StoreNext]_all PROVE StoreInv'  OBVIOUS
  <1>1. ProtocolInv'  BY FileStep, ProtocolStep, FileAssumption DEF StoreInv
  <1> QED  BY <1>1, HandlingStep, RecordsStep, PinnedStep, KeptStep DEF StoreInv

THEOREM StoreHolds == StoreSpec => []StoreInv
  BY StoreStarts, StoreInvStep, PTL DEF StoreSpec

\* A watered valve keeps its record through every rename, power cut and failing write.
THEOREM RecordsAlwaysFollow == StoreSpec => []RecordsFollow
  <1>1. StoreInv => RecordsFollow  BY DEF StoreInv, Records, RecordsFollow
  <1> QED  BY <1>1, StoreHolds, PTL

\* The next boot closes whatever is driven.
THEOREM BootAlwaysCloses == StoreSpec => []BootCloses
  <1>1. StoreInv => BootCloses  BY DEF StoreInv, Pinned, BootCloses
  <1> QED  BY <1>1, StoreHolds, PTL

\* Settings that cannot be read are never replaced, and nothing is driven meanwhile.
THEOREM DamagedAlwaysKept == StoreSpec => DamagedKept
  <1>1. StoreInv /\ [StoreNext]_all =>
            [ReadJson = Nothing /\ Torn \in {path, prev} =>
                UNCHANGED <<path, prev>> /\ open' = {}]_all
    BY KeptStep
  <1> QED  BY <1>1, StoreHolds, PTL DEF StoreSpec, DamagedKept

\* With boots, requests and restarts in between, the settings are still an atomic register.
THEOREM SettingsAreRegister == StoreSpec => IsRegister
  <1>1. StoreInit => Register!Init
    BY Documents DEF StoreInit, Register!Init, ReadJson, Parses
  <1>2. StoreInv /\ [StoreNext]_all => [Register!Next]_(Register!vars)
    BY FileStep, RegisterStep, FileAssumption DEF StoreInv
  <1> QED  BY <1>1, <1>2, StoreHolds, PTL DEF StoreSpec, IsRegister, Register!Spec
=============================================================================
