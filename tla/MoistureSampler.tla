-------------------------- MODULE MoistureSampler ---------------------------
(***************************************************************************)
(* MoistureManager of moisture.py, its ADS1115 converters, and the saving  *)
(* of a captured calibration by the main loop and application.py.          *)
(*                                                                         *)
(* A poll makes at most one transaction with a converter, so that a        *)
(* measurement spans several turns of the main loop, between which the     *)
(* settings may change.  The manager is one record; its methods map it to  *)
(* the set of the records they may leave behind.                           *)
(***************************************************************************)
EXTENDS Naturals, FiniteSets

CONSTANTS
    Zones, Boards, Inputs,   \* inputs: the converters' channels
    Wirings,        \* the zone_channels the settings may have
    Needed,         \* samples a calibration needs
    Sites,          \* the installations: which board has an input (board), may a
                    \* transaction raise and a board be unplugged (faults), may a
                    \* conversion outlast its nominal time (slow)?  (limit, a bound: what
                    \* users ask for there)
    SaveFaults,     \* may saving a calibration raise?
    None            \* no zone, no conversion, no calibration

\* A conversion that is waited for; zone is None once it is cancelled.
Conversions == [zone : Zones \cup {None}, board : Boards, capture : BOOLEAN, ready : BOOLEAN]

ASSUME SamplerAssumption ==
    /\ IsFiniteSet(Zones) /\ None \notin Zones /\ None \notin Conversions
    /\ Wirings \subseteq [Zones -> Inputs]
    /\ Sites \subseteq [board : [Inputs -> Boards], faults : BOOLEAN, slow : BOOLEAN, limit : Nat]
    /\ Needed \in Nat \ {0} /\ SaveFaults \in BOOLEAN

VARIABLES
    site,     \* the installation, which stays the same
    m,        \* the manager
    present,  \* the boards on the bus
    requests  \* bound: settings saved, scans and calibrations asked for
vars == <<site, m, present, requests>>

Waiting == [kind |-> "waiting"]
Error == [kind |-> "error"]
\* A measurement: the input it was taken from and the calibration it was scaled by.
Measured(input, cal) == [kind |-> "value", input |-> input, cal |-> cal]

\* Fields: wiring and cal (settings), readings, found, pending (one of Conversions
\* or None), queue, scan (scan_requested), active and success of the
\* cycle, wait (next_cycle lies ahead), capture (calibration), changed, and adc: what each
\* board converts.
Fresh(wiring) ==
    [wiring |-> wiring, cal |-> [z \in Zones |-> 0], readings |-> [z \in Zones |-> Waiting],
     found |-> {}, pending |-> None, queue |-> {}, scan |-> TRUE, active |-> FALSE,
     success |-> FALSE, wait |-> FALSE, capture |-> None, changed |-> FALSE,
     adc |-> [b \in Boards |-> [input |-> CHOOSE i \in Inputs : TRUE, busy |-> FALSE]]]

-----------------------------------------------------------------------------
(* Methods: from a record to the set of its successors. *)

\* configure drops every reading; a conversion under way is waited for and discarded.
\* Mutant of Cancelled: it is forgotten at once.
CancelledAtOnce(s) == None
\* Mutant of Cancelled: it is published.
CancelledNever(s) == s.pending
Cancelled(s) == IF s.pending = None THEN None ELSE [s.pending EXCEPT !.zone = None]
Configured(s) == [s EXCEPT !.readings = [z \in Zones |-> Waiting], !.queue = {},
                           !.pending = Cancelled(s), !.active = FALSE, !.success = FALSE,
                           !.wait = FALSE, !.scan = TRUE]

\* _finish_calibration: too few samples, a span too small, or a new limit.
Finished(s) ==
    LET ended == [s EXCEPT !.capture = None]
        z == s.capture.zone
    IN {ended} \cup IF s.capture.samples < Needed THEN {}
                    ELSE {[ended EXCEPT !.cal[z] = 1 - @, !.changed = TRUE]}

\* _start: a board that is already converting ignores it.  A conversion of nominal length
\* is over before the next turn of the loop.
Started(s, z, is_capture) ==
    LET b == site.board[s.wiring[z]]
        asked == IF s.adc[b].busy THEN s.adc
                 ELSE [s.adc EXCEPT ![b] = [input |-> s.wiring[z], busy |-> site.slow]]
        failed == [s EXCEPT !.readings[z] = Error, !.found = @ \ {b}]
    IN IF b \notin s.found THEN {[s EXCEPT !.readings[z] = Error]}
       ELSE (IF b \in present
             THEN {[s EXCEPT !.adc = asked,
                             !.pending = [zone |-> z, board |-> b, capture |-> is_capture,
                                          ready |-> FALSE]]}
             ELSE {failed})
            \cup (IF site.faults THEN {failed, [failed EXCEPT !.adc = asked]} ELSE {})

\* The end of a measurement: published, or an error that needs a new scan of the board.
Abandoned(s) ==
    LET p == s.pending
    IN [s EXCEPT !.pending = None, !.found = @ \ {p.board},
                 !.readings = IF p.zone = None THEN @ ELSE [@ EXCEPT ![p.zone] = Error]]
\* A sample of a calibration; those beyond Needed are alike.
Sampled(c, input) == [c EXCEPT !.samples = IF c.samples < Needed THEN c.samples + 1 ELSE c.samples,
                               !.inputs = c.inputs \cup {input}]
Published(s) ==
    LET p == s.pending
        input == s.adc[p.board].input
    IN [s EXCEPT !.pending = None, !.success = TRUE,
                 !.readings[p.zone] = Measured(input, s.cal[p.zone]),
                 !.capture = IF s.capture # None /\ p.capture /\ s.capture.zone = p.zone
                             THEN Sampled(s.capture, input) ELSE s.capture]
\* Mutant of Discarded: the cancelled conversion is kept.
DiscardedNot(s) == s
Discarded(s) == [s EXCEPT !.pending = None]
\* One transaction: the status, then, in a later poll, the value, which may be invalid.  Only
\* a board that fails lets the deadline of a conversion pass.
Converted(s) ==
    LET p == s.pending
    IN IF ~p.ready
       THEN IF p.board \notin present THEN {Abandoned(s)}
            ELSE {IF s.adc[p.board].busy THEN s ELSE [s EXCEPT !.pending.ready = TRUE]}
                 \cup (IF site.faults THEN {Abandoned(s)} ELSE {})
       ELSE IF p.zone = None THEN {Discarded(s)}
            ELSE IF p.board \notin present THEN {Abandoned(s)} ELSE {Abandoned(s), Published(s)}

\* The work of one poll after a calibration that is over has been finished.
Worked(s) ==
    IF s.pending # None THEN Converted(s)
    ELSE IF s.scan THEN {[s EXCEPT !.scan = FALSE, !.found = f]
                         : f \in {present} \cup (IF site.faults THEN {{}} ELSE {})}
    ELSE IF s.capture # None /\ s.capture.due
         THEN Started([s EXCEPT !.capture.due = FALSE], s.capture.zone, TRUE)
    ELSE IF s.queue # {}
         THEN UNION {Started([s EXCEPT !.queue = @ \ {z}], z, FALSE) : z \in s.queue}
    ELSE IF s.active THEN {[s EXCEPT !.active = FALSE, !.wait = TRUE]}
    ELSE IF s.wait THEN {s}
    ELSE {[s EXCEPT !.success = FALSE, !.active = TRUE, !.queue = Zones, !.scan = TRUE]}

Polled(s) ==
    UNION {Worked(f) : f \in IF s.capture # None /\ s.capture.over
                             THEN Finished(s) ELSE {s}}

\* commit_calibration, in the same turn: the changed limits are saved, and every reading
\* dropped, or the previous limits are put back.
Committed(s, before) ==
    IF ~s.changed THEN {s}
    ELSE {Configured([s EXCEPT !.changed = FALSE])}
         \cup (IF SaveFaults THEN {[s EXCEPT !.changed = FALSE, !.cal = before]} ELSE {})

-----------------------------------------------------------------------------
Turn ==
    /\ m' \in UNION {Committed(s, m.cal) : s \in Polled(m)}
    /\ UNCHANGED <<site, present, requests>>

Request == requests < site.limit /\ requests' = requests + 1

\* A save of other settings, refused during a calibration.
Save ==
    /\ m.capture = None /\ Request
    /\ \/ \E w \in Wirings : m' = Configured([m EXCEPT !.wiring = w])
       \/ \E z \in Zones : m' = Configured([m EXCEPT !.cal[z] = 1 - @])
    /\ UNCHANGED <<site, present>>

StartCalibration(z) ==
    /\ m.capture = None /\ Request
    /\ m' = [m EXCEPT !.scan = TRUE,
                      !.capture = [zone |-> z, samples |-> 0, inputs |-> {},
                                   due |-> TRUE, over |-> FALSE]]
    /\ UNCHANGED <<site, present>>

RequestScan ==
    /\ ~m.scan /\ Request /\ m' = [m EXCEPT !.scan = TRUE]
    /\ UNCHANGED <<site, present>>

\* Time passes: for the next cycle, the next sample, the end of a calibration.
CycleDue ==
    /\ m.wait /\ m' = [m EXCEPT !.wait = FALSE]
    /\ UNCHANGED <<site, present, requests>>
SampleDue ==
    /\ m.capture # None /\ ~m.capture.due /\ ~m.capture.over
    /\ m' = [m EXCEPT !.capture.due = TRUE]
    /\ UNCHANGED <<site, present, requests>>
CaptureOver ==
    /\ m.capture # None /\ ~m.capture.over
    /\ m' = [m EXCEPT !.capture.over = TRUE]
    /\ UNCHANGED <<site, present, requests>>
EndConversion ==
    /\ \E b \in Boards : m.adc[b].busy /\ m' = [m EXCEPT !.adc[b].busy = FALSE]
    /\ UNCHANGED <<site, present, requests>>
\* A board is unplugged or plugged in.
Plug ==
    /\ site.faults
    /\ \E b \in Boards : present' = IF b \in present THEN present \ {b} ELSE present \cup {b}
    /\ UNCHANGED <<site, m, requests>>

Init == /\ site \in Sites
        /\ m \in {Fresh(w) : w \in Wirings} /\ present = Boards
        /\ requests = 0
Next == \/ Turn \/ Save \/ (\E z \in Zones : StartCalibration(z)) \/ RequestScan
        \/ CycleDue \/ SampleDue \/ CaptureOver \/ EndConversion \/ Plug
Spec == Init /\ [][Next]_vars
\* The main loop turns, time passes, conversions end.
FairSpec == Spec /\ WF_vars(Turn) /\ WF_vars(CycleDue) /\ WF_vars(CaptureOver)
                 /\ WF_vars(EndConversion)

-----------------------------------------------------------------------------
(* Properties. *)

\* Neither the controller nor the dashboard may use a previous input's reading: each is a
\* measurement of the input its zone now has, scaled by the calibration it now has.
ReadingsCurrent ==
    \A z \in Zones : m.readings[z].kind = "value" =>
        m.readings[z] = Measured(m.wiring[z], m.cal[z])

\* A calibration only averages samples of its own zone's input.
CaptureOwn == m.capture # None => m.capture.inputs \subseteq {m.wiring[m.capture.zone]}

\* After every change of the settings each zone is measured, or in error, again.
Resampled == \A z \in Zones : m.readings[z] = Waiting ~> m.readings[z] # Waiting
=============================================================================
