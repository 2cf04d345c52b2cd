---------------------------- MODULE SettingsStore ----------------------------
(***************************************************************************)
(* The settings of the planter: settings_store.py over the file of         *)
(* DurableFile, the methods of Application that edit settings, and         *)
(* boot.py's close_boot_valves, which has to find the pins that were       *)
(* driven.  The cooldown journal is a recoverable file as well, but one    *)
(* whose every store is a single step here (DurableFile shows it is).      *)
(*                                                                         *)
(* A document is the part of the settings that says which valves there     *)
(* are: a function of their names to their pins.  Saving anything else     *)
(* saves the same document.  Validation, which precedes every change, is   *)
(* what makes it a document.                                               *)
(***************************************************************************)
EXTENDS DurableFile, Functions

CONSTANTS
    Names,     \* names of valves
    Config     \* the document config.py gives, for a device without settings

ASSUME SettingsAssumption ==
    /\ \A d \in Values : IsInjective(d) /\ DOMAIN d \subseteq Names
    /\ Config \in Values /\ Verify

VARIABLES
    mode,      \* "off", "starting" (SettingsStore rewrites its file) or "up"
    settings,  \* settings of Application, of the store and of the controller
    valves,    \* the controller's outputs, which are made at its start
    open,      \* the pins that are driven
    ledger,    \* the controller's journal in RAM: names of valves with a record
    journal,   \* the same on flash
    inhibited, paused,   \* of the controller
    rebooting, \* reboot_at is set
    request,   \* the call of _save under way
    wet,       \* history: names the last settings give to valves that have been watered
    lost       \* history: the medium has lost a generation
file == <<path, prev, temp, data, pc>>
app == <<settings, valves, ledger, inhibited, paused, rebooting>>
all == <<file, app, mode, open, journal, request, wet, lost>>

Pins(d) == {d[n] : n \in DOMAIN d}
NoRequest == [step |-> "none", doc |-> Config, moves |-> <<>>, reboot |-> FALSE]

-----------------------------------------------------------------------------
(* Start. *)

\* close_boot_valves: the first generation that has valves, or else config.py.
HasValves(c) == Parses(c) /\ DOMAIN c # {}
BootPins == Pins(IF HasValves(path) THEN path ELSE IF HasValves(prev) THEN prev ELSE Config)

\* SettingsStore: settings of which no generation can be read are not a fresh install.
\* Mutant of Damaged: only the current generation is looked for.
DamagedCurrent == ReadJson = Nothing /\ path # Nothing
Damaged == ReadJson = Nothing /\ (path # Nothing \/ prev # Nothing)

\* boot.py, main.py, and runtime.run as far as the controller.  SettingsStore raises if
\* its file is damaged, and main.py resets.  It saves the settings if there were none, or
\* if migrate has changed them.
Boot ==
    /\ mode = "off"
    /\ open' = open \ BootPins
    /\ IF Damaged THEN UNCHANGED <<app, mode, request>>
       ELSE LET doc == IF ReadJson = Nothing THEN Config ELSE ReadJson
            IN /\ settings' = doc /\ valves' = doc
               /\ ledger' = journal
               /\ inhibited' = FALSE /\ paused' = FALSE /\ rebooting' = FALSE
               /\ \/ /\ ReadJson # Nothing
                     /\ mode' = "up" /\ UNCHANGED request
                  \/ /\ mode' = "starting"
                     /\ request' = [NoRequest EXCEPT !.step = "store", !.doc = doc]
    /\ UNCHANGED <<file, journal, wet, lost>>

\* Power is lost, or the watchdog or machine.reset resets, which may leave outputs as they
\* are.  RAM is lost.
Off ==
    /\ mode # "off" /\ mode' = "off" /\ request' = NoRequest
    /\ settings' = Config /\ valves' = Config /\ ledger' = {}
    /\ inhibited' = FALSE /\ paused' = FALSE /\ rebooting' = FALSE
    /\ Interrupt \/ (pc = "idle" /\ UNCHANGED file)
    /\ UNCHANGED <<open, journal, wet, lost>>

-----------------------------------------------------------------------------
(* Requests.  They are handled one at a time, between two turns of the controller. *)

\* save_valves: copies records to the new names.  Renames are applied one by one, so that a
\* record may be copied on if a valve takes the name of another that is renamed too.
Copied(l, moves) == l \cup {moves[n] : n \in l \cap DOMAIN moves}
Copies(l, moves) == {Copied(l, moves), Copied(Copied(l, moves), moves)}

\* The valves that are renamed, with their new names: the controller must have them, and the
\* new settings these names.
Renames ==
    {m \in UNION {[S -> Names] : S \in SUBSET Names} : IsInjective(m)}
Valid(doc, moves) == DOMAIN moves \subseteq DOMAIN valves /\ Range(moves) \subseteq DOMAIN doc

\* stop_all closes every output, or inhibits the controller; its records are there since
\* the outputs were opened.
StopAll == open' = {} /\ UNCHANGED inhibited
StopFails == open # {} /\ inhibited' = TRUE /\ UNCHANGED open

\* save_valves, with renames; save_hardware and an import, without; and every other method
\* that saves, which keeps the valves.  An invalid rename is noticed when some records may
\* have been copied in RAM.
Edit(doc, moves, reboot) ==
    /\ mode = "up" /\ request = NoRequest
    /\ ~reboot => doc = settings /\ moves = <<>>
    /\ \/ StopFails /\ UNCHANGED <<ledger, request>>
       \/ /\ StopAll /\ Valid(doc, moves)
          /\ ledger' \in Copies(ledger, moves)
          /\ request' = [step |-> "record", doc |-> doc, moves |-> moves, reboot |-> reboot]
       \/ /\ StopAll /\ ~Valid(doc, moves)
          /\ \E tried \in SUBSET DOMAIN moves : ledger' \in Copies(ledger, Restrict(moves, tried))
          /\ UNCHANGED request
    /\ UNCHANGED <<file, settings, valves, paused, rebooting, mode, journal, wet, lost>>

\* _persist stores the journal, or raises, the journal having been replaced or not, and
\* inhibits the controller.
Persisted == journal' = ledger' /\ UNCHANGED inhibited
PersistRaises == inhibited' = TRUE /\ journal' \in {journal, ledger'}

\* _save persists the journal, and holds watering if it is to restart.
\* Mutant of Record: the settings are saved even if the journal was not.
RecordIgnored ==
    /\ request.step = "record" /\ request' = [request EXCEPT !.step = "store"]
    /\ UNCHANGED ledger /\ (Persisted \/ PersistRaises) /\ paused' = (paused \/ request.reboot)
    /\ UNCHANGED <<file, settings, valves, rebooting, mode, open, wet, lost>>
Record ==
    /\ request.step = "record"
    /\ UNCHANGED ledger
    /\ \/ /\ Persisted
          /\ paused' = (paused \/ request.reboot)
          /\ request' = [request EXCEPT !.step = "store"]
       \/ /\ PersistRaises /\ request' = NoRequest /\ UNCHANGED paused
    /\ UNCHANGED <<file, settings, valves, rebooting, mode, open, wet, lost>>

\* save_owned: atomic_json, call by call.
StoreStep ==
    /\ request.step = "store"
    /\ \/ (pc = "idle" /\ Open(request.doc))
       \/ Write \/ Readback \/ RemovePrev \/ Retire \/ RemovePath
    /\ UNCHANGED <<app, mode, open, journal, request, wet, lost>>

\* The names of watered valves, once the new settings are those that will be read: a valve
\* keeps its name, unless another takes it, or is renamed.
Renamed(names, doc, moves) ==
    {n \in DOMAIN doc : \/ \E m \in DOMAIN moves \cap names : moves[m] = n
                        \/ n \in names \ (DOMAIN moves \cup Range(moves))}

\* atomic_json returns: the settings in RAM are replaced, or the start goes on.
Stored ==
    /\ request.step = "store" /\ Replace
    /\ settings' = request.doc
    /\ mode' = "up"
    /\ wet' = Renamed(wet, request.doc, request.moves)
    /\ request' = IF request.reboot THEN [request EXCEPT !.step = "reboot"] ELSE NoRequest
    /\ UNCHANGED <<valves, ledger, inhibited, paused, rebooting, open, journal, lost>>

\* atomic_json raises: the request fails; at the start, main.py resets.
StoreRaises ==
    /\ request.step = "store"
    /\ Interrupt \/ (pc = "idle" /\ UNCHANGED file)
    /\ mode' = IF mode = "starting" THEN "off" ELSE mode
    /\ request' = NoRequest
    /\ UNCHANGED <<app, open, journal, wet, lost>>

\* reboot persists the journal again; the main loop resets a second later (Off).
Reboot ==
    /\ request.step = "reboot" /\ request' = NoRequest
    /\ UNCHANGED ledger
    /\ \/ Persisted /\ paused' = TRUE /\ rebooting' = TRUE
       \/ PersistRaises /\ UNCHANGED <<paused, rebooting>>
    /\ UNCHANGED <<file, settings, valves, mode, open, wet, lost>>

-----------------------------------------------------------------------------
(* The controller and the main loop. *)

\* A run: recorded before its output is driven.
Water(n) ==
    /\ mode = "up" /\ request = NoRequest /\ ~inhibited /\ ~paused /\ open = {}
    /\ ledger' = ledger \cup {n}
    /\ \/ Persisted /\ open' = {valves[n]} /\ wet' = wet \cup {n}
       \/ PersistRaises /\ UNCHANGED <<open, wet>>
    /\ UNCHANGED <<file, settings, valves, paused, rebooting, mode, request, lost>>

Close ==
    /\ mode = "up" /\ request = NoRequest /\ open # {} /\ StopAll
    /\ UNCHANGED <<file, settings, valves, ledger, paused, rebooting, mode, journal, request,
                   wet, lost>>

\* The main loop releases the hold of a request that failed.
\* Mutant of Release: it does not wait for the restart.
ReleaseAnyway ==
    /\ mode = "up" /\ request = NoRequest /\ paused /\ paused' = FALSE
    /\ UNCHANGED <<file, settings, valves, ledger, inhibited, rebooting, mode, open, journal,
                   request, wet, lost>>
Release ==
    /\ mode = "up" /\ request = NoRequest /\ paused /\ ~rebooting /\ paused' = FALSE
    /\ UNCHANGED <<file, settings, valves, ledger, inhibited, rebooting, mode, open, journal,
                   request, wet, lost>>

Lose ==
    /\ MediaFault /\ lost' = TRUE
    /\ UNCHANGED <<app, mode, open, journal, request, wet>>

\* A new device, or one whose settings are damaged.
StoreInit ==
    /\ path \in {Nothing, Torn} /\ prev \in {Nothing, Torn} /\ temp = Nothing
    /\ data = Nothing /\ pc = "idle"
    /\ mode = "off" /\ settings = Config /\ valves = Config /\ open = {}
    /\ ledger = {} /\ journal = {} /\ inhibited = FALSE /\ paused = FALSE
    /\ rebooting = FALSE /\ request = NoRequest /\ wet = {} /\ lost = FALSE

StoreNext ==
    \/ Boot \/ Off
    \/ \E doc \in Values, reboot \in BOOLEAN : \E moves \in Renames : Edit(doc, moves, reboot)
    \/ Record \/ StoreStep \/ Stored \/ StoreRaises \/ Reboot
    \/ (\E n \in DOMAIN valves : Water(n)) \/ Close \/ Release \/ Lose

StoreSpec == StoreInit /\ [][StoreNext]_all

-----------------------------------------------------------------------------
(* Properties. *)

StoreTypeOK ==
    /\ TypeOK
    /\ mode \in {"off", "starting", "up"} /\ settings \in Values /\ valves \in Values
    /\ open \subseteq UNION {Pins(d) : d \in Values}
    /\ ledger \subseteq Names /\ journal \subseteq Names /\ wet \subseteq Names
    /\ inhibited \in BOOLEAN /\ paused \in BOOLEAN /\ rebooting \in BOOLEAN /\ lost \in BOOLEAN
    /\ request.step \in {"none", "record", "store", "reboot"} /\ request.doc \in Values

\* A valve that has been watered has a record under the name the settings give it, at every
\* moment of a rename, whenever power is lost and whichever write fails.
RecordsFollow == wet \subseteq journal

\* Whatever resets the planter, and at whatever moment of a change of its valves, the next
\* boot closes every output that is driven: it finds the pins of the outputs, not those of
\* the new or of the previous settings.
BootCloses == ~lost => open \subseteq BootPins

\* Settings that cannot be read are kept for repair: nothing replaces them, and no output
\* is driven.
DamagedKept ==
    [][ReadJson = Nothing /\ Torn \in {path, prev} => UNCHANGED <<path, prev>> /\ open' = {}]_all
=============================================================================
