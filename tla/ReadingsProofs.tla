--------------------------- MODULE ReadingsProofs ---------------------------
(***************************************************************************)
(* The proofs about moisture readings.  Those of MoistureSampler, and the  *)
(* calibrations, are of the input and the limits a zone has now, for any   *)
(* zones, wirings, boards and requests.                                    *)
(*                                                                         *)
(* A saved point of HistoryStore stays readable for the retention period,  *)
(* for every retention, pruning interval and number of faults, unless one  *)
(* ends the reading of a copy early or falls between its renames.  Between *)
(* turns the readable file has all points that have not expired; while     *)
(* records are copied, those not yet copied are still to come; from the    *)
(* last record on the copy has them all.                                   *)
(***************************************************************************)
EXTENDS MoistureSampler, HistoryStore, TLAPS

\* A board may fail, or its conversions may outlast a turn of the loop, but not both.
NotBoth == \A s \in Sites : ~(s.faults /\ s.slow)

Limits == {0, 1}
Captures == [zone : Zones, samples : 0 .. Needed, inputs : SUBSET Inputs,
             due : BOOLEAN, over : BOOLEAN]
Readings == {Waiting, Error} \cup {Measured(i, c) : i \in Inputs, c \in Limits}
AnyInput == Inputs \cup {CHOOSE i \in Inputs : TRUE}
Managers ==
    [wiring : Wirings, cal : [Zones -> Limits], readings : [Zones -> Readings],
     found : SUBSET Boards, pending : Conversions \cup {None}, queue : SUBSET Zones,
     scan : BOOLEAN, active : BOOLEAN, success : BOOLEAN, wait : BOOLEAN,
     capture : Captures \cup {None}, changed : BOOLEAN,
     adc : [Boards -> [input : AnyInput, busy : BOOLEAN]]]

\* Only the conversion that is waited for may be under way, until it is found ready.
Alone(s) ==
    \A b \in Boards : s.adc[b].busy =>
        site.slow /\ s.pending # None /\ s.pending.board = b /\ ~s.pending.ready
\* What is converted for a zone is the input the zone has.
Matched(s) == s.pending # None /\ s.pending.zone # None =>
                 s.adc[s.pending.board].input = s.wiring[s.pending.zone]
\* A capture has samples of its zone's input only.
Own(s) == s.capture # None => s.capture.inputs \subseteq {s.wiring[s.capture.zone]}
Sound(s) == s \in Managers /\ Alone(s) /\ Matched(s) /\ Own(s)

\* Readings are current, unless they are about to be dropped.
Fits(s) == ~s.changed =>
               \A z \in Zones : s.readings[z] \in {Waiting, Error, Measured(s.wiring[z], s.cal[z])}

Installed == site \in Sites /\ present \subseteq Boards /\ (~site.faults => present = Boards)
SamplerInv == Installed /\ Sound(m) /\ ~m.changed

LEMMA Assumed == /\ None \notin Zones /\ None \notin Conversions
                 /\ Wirings \subseteq [Zones -> Inputs] /\ Needed \in Nat \ {0}
                 /\ Sites \subseteq [board : [Inputs -> Boards], faults : BOOLEAN, slow : BOOLEAN, limit : Nat]
  BY SamplerAssumption DEF SamplerAssumption

\* The fields a method does not name keep their values and types.
LEMMA ConfiguredSound ==
    ASSUME NEW s \in Managers, Alone(s), Own(s)
    PROVE  Sound(Configured(s)) /\ Fits(Configured(s)) /\ Configured(s).changed = s.changed
           /\ Configured(s).capture = s.capture
  <1> DEFINE c == Configured(s)
  <1>1. Cancelled(s) \in Conversions \cup {None}
    BY Assumed DEF Cancelled, Managers, Conversions
  <1>2. c \in Managers
    <2>1. [z \in Zones |-> Waiting] \in [Zones -> Readings]
      BY DEF Readings
    <2>2. QED
      BY <1>1, <2>1 DEF Configured, Managers
  <1>3. Alone(c)
    BY <1>1, Assumed DEF Alone, Configured, Cancelled, Managers, Conversions
  <1>4. Matched(c)
    BY <1>1, Assumed DEF Matched, Configured, Cancelled, Managers, Conversions
  <1>5. Own(c)
    BY DEF Own, Configured, Managers
  <1>6. Fits(c)
    BY DEF Fits, Configured, Managers
  <1>7. c.changed = s.changed /\ c.capture = s.capture
    BY DEF Configured, Managers
  <1>8. QED
    BY <1>2, <1>3, <1>4, <1>5, <1>6, <1>7 DEF Sound

\* A calibration that is over leaves new limits only if every reading is about to be dropped.
LEMMA FinishedSound ==
    ASSUME NEW s, Sound(s), s.capture # None, NEW r \in Finished(s)
    PROVE  Sound(r) /\ (Fits(s) => Fits(r))
  <1> DEFINE ended == [s EXCEPT !.capture = None]
  <1> DEFINE z == s.capture.zone
  <1>1. s \in Managers /\ z \in Zones
    BY DEF Sound, Managers, Captures
  <1>2. Sound(ended) /\ (Fits(s) => Fits(ended))
    BY <1>1 DEF Sound, Fits, Managers, Alone, Matched, Own
  <1>3. ASSUME r = [ended EXCEPT !.cal[z] = 1 - @, !.changed = TRUE] PROVE Sound(r) /\ (Fits(s) => Fits(r))
    <2>1. s.cal \in [Zones -> Limits] /\ 1 - s.cal[z] \in Limits
      BY <1>1 DEF Managers, Limits
    <2>2. [s.cal EXCEPT ![z] = 1 - @] \in [Zones -> Limits]
      BY <2>1
    <2>3. r = [s EXCEPT !.capture = None, !.cal = [s.cal EXCEPT ![z] = 1 - @], !.changed = TRUE]
      BY <1>1, <1>3 DEF Managers
    <2>4. r \in Managers
      BY <1>1, <2>2, <2>3 DEF Managers
    <2>5. /\ r.changed = TRUE /\ r.capture = None /\ r.adc = s.adc /\ r.pending = s.pending
          /\ r.wiring = s.wiring
      BY <1>1, <2>3 DEF Managers
    <2>6. QED
      BY <2>4, <2>5 DEF Sound, Fits, Alone, Matched, Own
  <1>4. QED
    BY <1>2, <1>3 DEF Finished

\* What starting a conversion leaves: the reading an error, or the conversion waited for.
LEMMA StartedSound ==
    ASSUME NotBoth, Installed, NEW s, Sound(s), s.pending = None,
           NEW z \in Zones, NEW c \in BOOLEAN, NEW r \in Started(s, z, c)
    PROVE  Sound(r) /\ (Fits(s) => Fits(r)) /\ r.changed = s.changed
  <1> DEFINE i == s.wiring[z]
  <1> DEFINE b == site.board[i]
  <1> DEFINE adc == [s.adc EXCEPT ![b] = [input |-> i, busy |-> site.slow]]
  <1> DEFINE failed == [s EXCEPT !.readings[z] = Error, !.found = @ \ {b}]
  <1> DEFINE p == [zone |-> z, board |-> b, capture |-> c, ready |-> FALSE]
  <1>1. s \in Managers /\ Alone(s) /\ Own(s)
    BY DEF Sound
  <1>2. s.wiring \in [Zones -> Inputs] /\ i \in Inputs /\ b \in Boards /\ site.slow \in BOOLEAN
    BY <1>1, Assumed DEF Installed, Managers
  <1>3. ~s.adc[b].busy
    BY <1>1, <1>2 DEF Alone
  <1>4. adc \in [Boards -> [input : AnyInput, busy : BOOLEAN]]
    BY <1>1, <1>2 DEF Managers, AnyInput
  <1>5. ASSUME NEW found \in SUBSET Boards, NEW a \in [Boards -> [input : AnyInput, busy : BOOLEAN]],
               a = s.adc \/ (a = adc /\ ~site.slow),
               r = [s EXCEPT !.readings[z] = Error, !.found = found, !.adc = a]
        PROVE  Sound(r) /\ (Fits(s) => Fits(r)) /\ r.changed = s.changed
    <2>0. s.readings \in [Zones -> Readings] /\ [s.readings EXCEPT ![z] = Error] \in [Zones -> Readings]
      BY <1>1 DEF Managers, Readings
    <2>1. r \in Managers
      BY <1>1, <1>5, <2>0 DEF Managers
    <2>2. /\ r.adc = a /\ r.pending = None /\ r.capture = s.capture /\ r.wiring = s.wiring
          /\ r.changed = s.changed /\ r.cal = s.cal
          /\ r.readings = [s.readings EXCEPT ![z] = Error]
      BY <1>1, <1>5 DEF Managers
    <2>3. Alone(r)
      BY <1>1, <1>2, <1>5, <2>2 DEF Alone, Managers
    <2>4. Fits(s) => Fits(r)
      BY <1>1, <2>2 DEF Fits, Managers
    <2>5. QED
      BY <1>1, <2>1, <2>2, <2>3, <2>4 DEF Sound, Own, Matched
  <1>6. ASSUME r = [s EXCEPT !.adc = adc, !.pending = p]
        PROVE  Sound(r) /\ (Fits(s) => Fits(r)) /\ r.changed = s.changed
    <2>1. p \in Conversions /\ p # None
      <3>1. p \in Conversions
        BY <1>2 DEF Conversions
      <3>2. QED
        BY Zenon, <3>1, Assumed
    <2>2. r \in Managers
      BY <1>1, <1>4, <1>6, <2>1 DEF Managers
    <2>3. /\ r.adc = adc /\ r.pending = p /\ r.capture = s.capture /\ r.wiring = s.wiring
          /\ r.changed = s.changed /\ r.cal = s.cal /\ r.readings = s.readings
      BY <1>1, <1>6 DEF Managers
    <2>4. Alone(r)
      BY <1>1, <1>2, <2>1, <2>3 DEF Alone, Managers
    <2>5. Matched(r)
      BY <1>1, <1>2, <2>1, <2>3 DEF Matched, Managers
    <2>6. QED
      BY <1>1, <2>2, <2>3, <2>4, <2>5 DEF Sound, Own, Fits
  <1>7. r = [s EXCEPT !.readings[z] = Error]
        => r = [s EXCEPT !.readings[z] = Error, !.found = s.found, !.adc = s.adc]
    BY <1>1 DEF Managers
  <1>8. /\ r = failed => r = [s EXCEPT !.readings[z] = Error, !.found = s.found \ {b}, !.adc = s.adc]
        /\ r = [failed EXCEPT !.adc = adc]
           => r = [s EXCEPT !.readings[z] = Error, !.found = s.found \ {b}, !.adc = adc]
    BY <1>1 DEF Managers
  <1>9. s.found \in SUBSET Boards /\ s.found \ {b} \in SUBSET Boards
        /\ s.adc \in [Boards -> [input : AnyInput, busy : BOOLEAN]]
    BY <1>1 DEF Managers
  <1>10. site.faults => ~site.slow
    BY DEF NotBoth, Installed
  <1>11. \/ r = [s EXCEPT !.readings[z] = Error]
         \/ r = [s EXCEPT !.adc = adc, !.pending = p]
         \/ r = failed
         \/ site.faults /\ r = [failed EXCEPT !.adc = adc]
    BY <1>3 DEF Started
  <1> HIDE DEF i, b, adc, failed, p
  <1>12. QED
    BY <1>4, <1>5, <1>6, <1>7, <1>8, <1>9, <1>10, <1>11

\* The end of a measurement that failed, of a converter that is at rest.
LEMMA AbandonedSound ==
    ASSUME NEW s, Sound(s), s.pending # None, \A b \in Boards : ~s.adc[b].busy
    PROVE  Sound(Abandoned(s)) /\ (Fits(s) => Fits(Abandoned(s))) /\ Abandoned(s).changed = s.changed
  <1> DEFINE r == Abandoned(s)
  <1> DEFINE read == IF s.pending.zone = None THEN s.readings
                     ELSE [s.readings EXCEPT ![s.pending.zone] = Error]
  <1>1. s \in Managers /\ s.pending \in Conversions
    BY DEF Sound, Managers
  <1>2. s.readings \in [Zones -> Readings] /\ read \in [Zones -> Readings]
    <2>1. s.readings \in [Zones -> Readings] /\ Error \in Readings
      BY <1>1 DEF Managers, Readings
    <2>2. QED
      BY <2>1
  <1>3. r = [s EXCEPT !.pending = None, !.found = s.found \ {s.pending.board}, !.readings = read]
    BY <1>1 DEF Abandoned, Managers
  <1>4. \A z \in Zones : read[z] \in {s.readings[z], Error}
    BY <1>2
  <1> HIDE DEF read
  <1>5. r \in Managers
    <2>1. s.found \ {s.pending.board} \in SUBSET Boards
      BY <1>1 DEF Managers
    <2>2. QED
      BY <1>1, <1>2, <1>3, <2>1 DEF Managers
  <1>6. /\ r.pending = None /\ r.adc = s.adc /\ r.capture = s.capture /\ r.wiring = s.wiring
        /\ r.changed = s.changed /\ r.cal = s.cal /\ r.readings = read
    BY <1>1, <1>3 DEF Managers
  <1>7. Alone(r) /\ Matched(r) /\ Own(r)
    BY <1>6 DEF Alone, Matched, Own, Sound
  <1>8. Fits(s) => Fits(r)
    BY <1>4, <1>6 DEF Fits
  <1>9. QED
    BY <1>5, <1>6, <1>7, <1>8 DEF Sound

\* The measurement that is published is of the input the zone has, by the limits it has.
LEMMA PublishedSound ==
    ASSUME NEW s, Sound(s), s.pending # None, s.pending.zone # None, s.pending.ready
    PROVE  Sound(Published(s)) /\ (Fits(s) => Fits(Published(s))) /\ Published(s).changed = s.changed
  <1> DEFINE r == Published(s)
  <1> DEFINE p == s.pending
  <1> DEFINE z == p.zone
  <1> DEFINE input == s.adc[p.board].input
  <1> DEFINE read == [s.readings EXCEPT ![z] = Measured(input, s.cal[z])]
  <1> DEFINE capture == IF s.capture # None /\ p.capture /\ s.capture.zone = z
                        THEN Sampled(s.capture, input) ELSE s.capture
  <1>1. s \in Managers /\ p \in Conversions /\ z \in Zones /\ p.board \in Boards
    BY DEF Sound, Managers, Conversions
  <1>2. input = s.wiring[z] /\ input \in Inputs
    <2>1. input = s.wiring[z]
      BY DEF Sound, Matched
    <2>2. s.wiring \in [Zones -> Inputs]
      BY <1>1, Assumed DEF Managers
    <2>3. QED
      BY <1>1, <2>1, <2>2
  <1>3. s.readings \in [Zones -> Readings] /\ Measured(input, s.cal[z]) \in Readings
    <2>1. s.cal[z] \in Limits /\ s.readings \in [Zones -> Readings]
      BY <1>1 DEF Managers
    <2>2. QED
      BY <1>2, <2>1 DEF Readings
  <1>4. read \in [Zones -> Readings] /\ \A y \in Zones :
            read[y] = IF y = z THEN Measured(s.wiring[z], s.cal[z]) ELSE s.readings[y]
    BY <1>2, <1>3
  <1>5. capture \in Captures \cup {None}
    <2>1. CASE capture = s.capture
      BY <1>1, <2>1 DEF Managers
    <2>2. CASE s.capture # None
      <3>1. s.capture \in Captures
        BY <1>1, <2>2 DEF Managers
      <3>2. s.capture.samples \in 0 .. Needed /\ Needed \in Nat
        BY <3>1, Assumed DEF Captures
      <3>3. (IF s.capture.samples < Needed THEN s.capture.samples + 1 ELSE s.capture.samples) \in 0 .. Needed
        BY <3>2
      <3>4. s.capture.inputs \cup {input} \in SUBSET Inputs
        BY <1>2, <3>1 DEF Captures
      <3>5. Sampled(s.capture, input) \in Captures
        BY <3>1, <3>3, <3>4 DEF Captures, Sampled
      <3>6. QED
        BY <2>1, <3>5
    <2>3. QED
      BY <2>1, <2>2
  <1>6. capture # None => capture.inputs \subseteq {s.wiring[capture.zone]}
    <2>1. CASE capture = s.capture
      BY <2>1 DEF Sound, Own
    <2>2. CASE s.capture # None /\ s.capture.zone = z /\ capture = Sampled(s.capture, input)
      <3>1. s.capture \in Captures /\ s.capture.inputs \subseteq {s.wiring[z]}
        BY <1>1, <2>2 DEF Managers, Sound, Own
      <3>2. capture.zone = z /\ capture.inputs = s.capture.inputs \cup {input}
        BY <2>2, <3>1 DEF Captures, Sampled
      <3>3. QED
        BY <1>2, <3>1, <3>2
    <2>3. QED
      BY <2>1, <2>2
  <1>7. r = [s EXCEPT !.pending = None, !.success = TRUE, !.readings = read, !.capture = capture]
    BY <1>1 DEF Published, Managers
  <1>8. \A b \in Boards : ~s.adc[b].busy
    BY DEF Sound, Alone
  <1> HIDE DEF read, capture, input, z, p
  <1>9. r \in Managers
    BY <1>1, <1>4, <1>5, <1>7 DEF Managers
  <1>10. /\ r.pending = None /\ r.adc = s.adc /\ r.capture = capture /\ r.wiring = s.wiring
         /\ r.changed = s.changed /\ r.cal = s.cal /\ r.readings = read
    BY <1>1, <1>7 DEF Managers
  <1>11. Alone(r) /\ Matched(r) /\ Own(r)
    BY <1>6, <1>8, <1>10 DEF Alone, Matched, Own
  <1>12. Fits(s) => Fits(r)
    BY <1>4, <1>10 DEF Fits
  <1>13. QED
    BY <1>9, <1>10, <1>11, <1>12 DEF Sound

\* One transaction with a converter.
LEMMA ConvertedSound ==
    ASSUME NotBoth, Installed, NEW s, Sound(s), s.pending # None, NEW r \in Converted(s)
    PROVE  Sound(r) /\ (Fits(s) => Fits(r))
  <1> DEFINE p == s.pending
  <1>1. s \in Managers /\ p \in Conversions /\ p.board \in Boards
    BY DEF Sound, Managers, Conversions
  <1>2. CASE r = s
    BY <1>2
  <1>3. CASE r = Abandoned(s) /\ (p.ready \/ p.board \notin present \/ site.faults)
    <2>1. \A b \in Boards : ~s.adc[b].busy
      BY <1>1, <1>3 DEF Sound, Alone, NotBoth, Installed
    <2>2. QED
      BY <1>3, <2>1, AbandonedSound
  <1>4. CASE ~p.ready /\ ~s.adc[p.board].busy /\ r = [s EXCEPT !.pending.ready = TRUE]
    <2>1. [p EXCEPT !.ready = TRUE] \in Conversions /\ [p EXCEPT !.ready = TRUE] # None
      <3>1. [p EXCEPT !.ready = TRUE] \in Conversions
        BY <1>1 DEF Conversions
      <3>2. QED
        BY Zenon, <3>1, Assumed
    <2>2. r = [s EXCEPT !.pending = [p EXCEPT !.ready = TRUE]]
      BY <1>1, <1>4 DEF Managers
    <2>3. r \in Managers
      BY <1>1, <2>1, <2>2 DEF Managers
    <2>4. /\ r.pending.zone = p.zone /\ r.pending.board = p.board /\ r.pending # None
          /\ r.adc = s.adc /\ r.capture = s.capture /\ r.wiring = s.wiring
          /\ r.changed = s.changed /\ r.cal = s.cal /\ r.readings = s.readings
      BY <1>1, <2>1, <2>2 DEF Managers, Conversions
    <2>5. Alone(r)
      BY <1>4, <2>4 DEF Sound, Alone
    <2>6. QED
      BY <2>3, <2>4, <2>5 DEF Sound, Matched, Own, Fits
  <1>5. CASE p.zone = None /\ p.ready /\ r = [s EXCEPT !.pending = None]
    <2>1. r \in Managers
      BY <1>1, <1>5 DEF Managers
    <2>2. /\ r.pending = None /\ r.adc = s.adc /\ r.capture = s.capture /\ r.wiring = s.wiring
          /\ r.changed = s.changed /\ r.cal = s.cal /\ r.readings = s.readings
      BY <1>1, <1>5 DEF Managers
    <2>3. Alone(r)
      BY <1>5, <2>2 DEF Sound, Alone
    <2>4. QED
      BY <2>1, <2>2, <2>3 DEF Sound, Matched, Own, Fits
  <1>6. CASE p.zone # None /\ p.ready /\ r = Published(s)
    BY <1>6, PublishedSound
  <1>7. QED
    BY <1>2, <1>3, <1>4, <1>5, <1>6 DEF Converted, Discarded

\* Fields that say only when to measure may change as they like.
LEMMA TimingSound ==
    ASSUME NEW s, Sound(s), NEW r \in Managers,
           r.pending = s.pending, r.adc = s.adc, r.wiring = s.wiring, r.cal = s.cal,
           r.readings = s.readings, r.changed = s.changed,
           \/ r.capture = s.capture
           \/ r.capture # None /\ s.capture # None
              /\ r.capture.zone = s.capture.zone /\ r.capture.inputs = s.capture.inputs
    PROVE  Sound(r) /\ (Fits(s) => Fits(r))
  BY DEF Sound, Alone, Matched, Own, Fits

LEMMA DueSound ==
    ASSUME NEW s, Sound(s), s.capture # None, NEW c \in Captures,
           c.zone = s.capture.zone, c.inputs = s.capture.inputs
    PROVE  LET r == [s EXCEPT !.capture = c]
           IN  Sound(r) /\ (Fits(s) => Fits(r)) /\ r.pending = s.pending
  <1> DEFINE r == [s EXCEPT !.capture = c]
  <1>1. s \in Managers
    BY DEF Sound
  <1>2. r \in Managers
    BY <1>1 DEF Managers
  <1>3. /\ r.pending = s.pending /\ r.adc = s.adc /\ r.wiring = s.wiring /\ r.cal = s.cal
        /\ r.readings = s.readings /\ r.changed = s.changed /\ r.capture = c
    BY <1>1 DEF Managers
  <1>4. Own(r)
    BY <1>3 DEF Sound, Own
  <1>5. QED
    BY <1>2, <1>3, <1>4 DEF Sound, Alone, Matched, Fits

\* The work of one poll.
LEMMA WorkedSound ==
    ASSUME NotBoth, Installed, NEW s, Sound(s), NEW r \in Worked(s)
    PROVE  Sound(r) /\ (Fits(s) => Fits(r))
  <1>1. s \in Managers
    BY DEF Sound
  <1>2. CASE s.pending # None
    BY <1>2, ConvertedSound DEF Worked
  <1>3. CASE \E found \in SUBSET Boards : r = [s EXCEPT !.scan = FALSE, !.found = found]
    <2>1. PICK found \in SUBSET Boards : r = [s EXCEPT !.scan = FALSE, !.found = found]
      BY <1>3
    <2>2. r \in Managers
      BY <1>1, <2>1 DEF Managers
    <2>3. /\ r.pending = s.pending /\ r.adc = s.adc /\ r.wiring = s.wiring /\ r.cal = s.cal
          /\ r.readings = s.readings /\ r.changed = s.changed /\ r.capture = s.capture
      BY <1>1, <2>1 DEF Managers
    <2>4. QED
      BY <2>2, <2>3, TimingSound
  <1>4. CASE /\ s.pending = None /\ s.capture # None
             /\ r \in Started([s EXCEPT !.capture.due = FALSE], s.capture.zone, TRUE)
    <2> DEFINE c == [s.capture EXCEPT !.due = FALSE]
    <2> DEFINE t == [s EXCEPT !.capture = c]
    <2>1. s.capture \in Captures
      BY <1>1, <1>4 DEF Managers
    <2>2. c \in Captures /\ c.zone = s.capture.zone /\ c.inputs = s.capture.inputs
      BY <2>1 DEF Captures
    <2>3. s.capture.zone \in Zones
      BY <2>1 DEF Captures
    <2>4. r \in Started(t, s.capture.zone, TRUE)
      BY <1>4
    <2> HIDE DEF c
    <2>5. Sound(t) /\ (Fits(s) => Fits(t)) /\ t.pending = None
      BY <1>4, <2>2, DueSound
    <2> HIDE DEF t
    <2>6. QED
      BY <2>3, <2>4, <2>5, StartedSound
  <1>5. CASE s.pending = None /\ \E z \in s.queue : r \in Started([s EXCEPT !.queue = @ \ {z}], z, FALSE)
    <2>1. PICK z \in s.queue : r \in Started([s EXCEPT !.queue = @ \ {z}], z, FALSE)
      BY <1>5
    <2> DEFINE t == [s EXCEPT !.queue = @ \ {z}]
    <2>2. t \in Managers /\ z \in Zones
      BY <1>1 DEF Managers
    <2>3. /\ t.pending = s.pending /\ t.adc = s.adc /\ t.wiring = s.wiring /\ t.cal = s.cal
          /\ t.readings = s.readings /\ t.changed = s.changed /\ t.capture = s.capture
      BY <1>1 DEF Managers
    <2>4. r \in Started(t, z, FALSE)
      BY <2>1
    <2> HIDE DEF t
    <2>5. Sound(t) /\ (Fits(s) => Fits(t))
      BY <2>2, <2>3, TimingSound
    <2>6. QED
      BY <1>5, <2>2, <2>3, <2>4, <2>5, StartedSound
  <1>6. CASE r = [s EXCEPT !.active = FALSE, !.wait = TRUE]
    <2>1. r \in Managers
      BY <1>1, <1>6 DEF Managers
    <2>2. /\ r.pending = s.pending /\ r.adc = s.adc /\ r.wiring = s.wiring /\ r.cal = s.cal
          /\ r.readings = s.readings /\ r.changed = s.changed /\ r.capture = s.capture
      BY <1>1, <1>6 DEF Managers
    <2>3. QED
      BY <2>1, <2>2, TimingSound
  <1>7. CASE r = [s EXCEPT !.success = FALSE, !.active = TRUE, !.queue = Zones, !.scan = TRUE]
    <2>1. r \in Managers
      BY <1>1, <1>7 DEF Managers
    <2>2. /\ r.pending = s.pending /\ r.adc = s.adc /\ r.wiring = s.wiring /\ r.cal = s.cal
          /\ r.readings = s.readings /\ r.changed = s.changed /\ r.capture = s.capture
      BY <1>1, <1>7 DEF Managers
    <2>3. QED
      BY <2>1, <2>2, TimingSound
  <1>8. \/ s.pending # None
        \/ \E found \in SUBSET Boards : r = [s EXCEPT !.scan = FALSE, !.found = found]
        \/ s.pending = None /\ s.capture # None
           /\ r \in Started([s EXCEPT !.capture.due = FALSE], s.capture.zone, TRUE)
        \/ s.pending = None /\ \E z \in s.queue : r \in Started([s EXCEPT !.queue = @ \ {z}], z, FALSE)
        \/ r = [s EXCEPT !.active = FALSE, !.wait = TRUE]
        \/ r = s
        \/ r = [s EXCEPT !.success = FALSE, !.active = TRUE, !.queue = Zones, !.scan = TRUE]
    BY DEF Worked, Installed
  <1>9. QED
    BY <1>2, <1>3, <1>4, <1>5, <1>6, <1>7, <1>8

LEMMA PolledSound ==
    ASSUME NotBoth, Installed, NEW s, Sound(s), NEW r \in Polled(s)
    PROVE  Sound(r) /\ (Fits(s) => Fits(r))
  <1>1. PICK f \in IF s.capture # None /\ s.capture.over THEN Finished(s) ELSE {s} : r \in Worked(f)
    BY DEF Polled
  <1>2. Sound(f) /\ (Fits(s) => Fits(f))
    BY <1>1, FinishedSound
  <1>3. QED
    BY <1>1, <1>2, WorkedSound

-----------------------------------------------------------------------------
(* The steps. *)

\* The installation stays the same.
LEMMA SameSite ==
    ASSUME UNCHANGED site, NEW w, w = m', Sound(w) /\ w.changed = FALSE, Installed'
    PROVE  SamplerInv'
  <1>1. Sound(m)'
    BY DEF Sound, Alone, Matched, Own
  <1>2. QED
    BY <1>1 DEF SamplerInv

LEMMA SameReadings == ASSUME NEW w, w = m', Fits(w) PROVE Fits(m)'
  BY DEF Fits

\* A turn ends with limits that are saved and no reading, or the limits of before; only a
\* save that raises leaves readings of limits that were put back.
LEMMA TurnKeeps ==
    ASSUME NotBoth, SamplerInv, Turn
    PROVE  SamplerInv' /\ (~SaveFaults /\ Fits(m) => Fits(m)')
  <1>0. Installed /\ Installed' /\ Sound(m) /\ m \in Managers /\ UNCHANGED site
    BY DEF SamplerInv, Sound, Installed, Turn
  <1>1. PICK s \in Polled(m) : m' \in Committed(s, m.cal)
    BY DEF Turn
  <1>2. Sound(s) /\ (Fits(m) => Fits(s)) /\ s \in Managers
    BY <1>0, <1>1, PolledSound DEF Sound
  <1>3. CASE ~s.changed /\ m' = s
    <2>1. s.changed = FALSE
      BY <1>2, <1>3 DEF Managers
    <2>2. QED
      BY <1>0, <1>2, <1>3, <2>1, SameSite, SameReadings
  <1>4. CASE m' = Configured([s EXCEPT !.changed = FALSE])
    <2> DEFINE t == [s EXCEPT !.changed = FALSE]
    <2>1. t \in Managers /\ Alone(t) /\ Own(t) /\ t.changed = FALSE
      BY <1>2 DEF Managers, Sound, Alone, Own
    <2>2. m' = Configured(t)
      BY <1>4
    <2> HIDE DEF t
    <2>3. Sound(Configured(t)) /\ Fits(Configured(t)) /\ Configured(t).changed = FALSE
      BY <2>1, ConfiguredSound
    <2>4. QED
      BY <1>0, <2>2, <2>3, SameSite, SameReadings
  <1>5. CASE SaveFaults /\ m' = [s EXCEPT !.changed = FALSE, !.cal = m.cal]
    <2> DEFINE t == [s EXCEPT !.changed = FALSE, !.cal = m.cal]
    <2>1. m.cal \in [Zones -> Limits]
      BY <1>0 DEF Managers
    <2>2. t \in Managers
      BY <1>2, <2>1 DEF Managers
    <2>3. /\ t.pending = s.pending /\ t.adc = s.adc /\ t.capture = s.capture
          /\ t.wiring = s.wiring /\ t.changed = FALSE
      BY <1>2 DEF Managers
    <2>4. Sound(t) /\ t = m'
      BY <1>2, <1>5, <2>2, <2>3 DEF Sound, Alone, Matched, Own
    <2> HIDE DEF t
    <2>5. QED
      BY <1>0, <1>5, <2>3, <2>4, SameSite
  <1>6. QED
    BY <1>1, <1>3, <1>4, <1>5 DEF Committed

LEMMA SaveKeeps ==
    ASSUME SamplerInv, Save
    PROVE  SamplerInv' /\ Fits(m)'
  <1>0. /\ Installed' /\ Sound(m) /\ m \in Managers /\ UNCHANGED site
        /\ m.capture = None /\ m.changed = FALSE
    BY DEF SamplerInv, Sound, Installed, Save, Managers
  <1>1. ASSUME NEW t \in Managers, Alone(t), t.capture = None, t.changed = FALSE, m' = Configured(t)
        PROVE  SamplerInv' /\ Fits(m)'
    <2>1. Sound(Configured(t)) /\ Fits(Configured(t)) /\ Configured(t).changed = FALSE
      BY <1>1, ConfiguredSound DEF Own
    <2>2. QED
      BY <1>0, <1>1, <2>1, SameSite, SameReadings
  <1>2. ASSUME NEW w \in Wirings, m' = Configured([m EXCEPT !.wiring = w])
        PROVE  SamplerInv' /\ Fits(m)'
    <2> DEFINE t == [m EXCEPT !.wiring = w]
    <2>1. t \in Managers /\ Alone(t) /\ t.capture = None /\ t.changed = FALSE
      BY <1>0 DEF Managers, Sound, Alone
    <2>2. m' = Configured(t)
      BY <1>2
    <2> HIDE DEF t
    <2>3. QED
      BY <1>1, <2>1, <2>2
  <1>3. ASSUME NEW z \in Zones, m' = Configured([m EXCEPT !.cal[z] = 1 - @])
        PROVE  SamplerInv' /\ Fits(m)'
    <2> DEFINE cal == [m.cal EXCEPT ![z] = 1 - @]
    <2> DEFINE t == [m EXCEPT !.cal = cal]
    <2>1. cal \in [Zones -> Limits]
      BY <1>0 DEF Managers, Limits
    <2>2. m' = Configured(t)
      BY <1>0, <1>3 DEF Managers
    <2> HIDE DEF cal
    <2>3. t \in Managers /\ Alone(t) /\ t.capture = None /\ t.changed = FALSE
      BY <1>0, <2>1 DEF Managers, Sound, Alone
    <2> HIDE DEF t
    <2>4. QED
      BY <1>1, <2>2, <2>3
  <1>4. QED
    BY <1>2, <1>3 DEF Save

LEMMA StartCalibrationKeeps ==
    ASSUME SamplerInv, NEW z \in Zones, StartCalibration(z)
    PROVE  SamplerInv' /\ (Fits(m) => Fits(m)')
  <1> DEFINE c == [zone |-> z, samples |-> 0, inputs |-> {}, due |-> TRUE, over |-> FALSE]
  <1> DEFINE w == [m EXCEPT !.scan = TRUE, !.capture = c]
  <1>1. /\ Installed' /\ Sound(m) /\ m \in Managers /\ UNCHANGED site /\ m.changed = FALSE
        /\ w = m'
    BY DEF SamplerInv, Sound, Installed, StartCalibration, Managers
  <1>2. c \in Captures /\ c.inputs = {}
    BY Assumed DEF Captures
  <1> HIDE DEF c
  <1>3. w \in Managers
    BY <1>1, <1>2 DEF Managers
  <1>4. /\ w.pending = m.pending /\ w.adc = m.adc /\ w.wiring = m.wiring /\ w.cal = m.cal
        /\ w.readings = m.readings /\ w.changed = m.changed /\ w.capture = c
    BY <1>1 DEF Managers
  <1>5. Sound(w) /\ (Fits(m) => Fits(w))
    BY <1>1, <1>2, <1>3, <1>4 DEF Sound, Alone, Matched, Own, Fits
  <1> HIDE DEF w
  <1>6. QED
    BY <1>1, <1>4, <1>5, SameSite, SameReadings

\* Requests and timers change only when to measure.
LEMMA TimersKeep ==
    ASSUME SamplerInv, RequestScan \/ CycleDue \/ SampleDue \/ CaptureOver
    PROVE  SamplerInv' /\ (Fits(m) => Fits(m)')
  <1>0. Installed' /\ Sound(m) /\ m \in Managers /\ UNCHANGED site /\ m.changed = FALSE
    BY DEF SamplerInv, Sound, Installed, RequestScan, CycleDue, SampleDue, CaptureOver, Managers
  <1>1. ASSUME NEW w \in Managers, w = m',
               /\ w.pending = m.pending /\ w.adc = m.adc /\ w.wiring = m.wiring /\ w.cal = m.cal
               /\ w.readings = m.readings /\ w.changed = m.changed,
               \/ w.capture = m.capture
               \/ w.capture # None /\ m.capture # None
                  /\ w.capture.zone = m.capture.zone /\ w.capture.inputs = m.capture.inputs
        PROVE  SamplerInv' /\ (Fits(m) => Fits(m)')
    <2>1. Sound(w) /\ (Fits(m) => Fits(w))
      BY <1>0, <1>1, TimingSound
    <2>2. QED
      BY <1>0, <1>1, <2>1, SameSite, SameReadings
  <1>2. ASSUME m' = [m EXCEPT !.scan = TRUE] \/ m' = [m EXCEPT !.wait = FALSE]
        PROVE  SamplerInv' /\ (Fits(m) => Fits(m)')
    <2>1. m' \in Managers
      <3>1. [m EXCEPT !.scan = TRUE] \in Managers
        BY <1>0 DEF Managers
      <3>2. [m EXCEPT !.wait = FALSE] \in Managers
        BY <1>0 DEF Managers
      <3>3. QED
        BY Zenon, <1>2, <3>1, <3>2
    <2>2. /\ m'.pending = m.pending /\ m'.adc = m.adc /\ m'.wiring = m.wiring /\ m'.cal = m.cal
          /\ m'.readings = m.readings /\ m'.changed = m.changed /\ m'.capture = m.capture
      BY <1>0, <1>2 DEF Managers
    <2>3. QED
      BY <1>1, <2>1, <2>2
  <1>3. ASSUME NEW c \in Captures, m.capture # None, m' = [m EXCEPT !.capture = c],
               c.zone = m.capture.zone, c.inputs = m.capture.inputs
        PROVE  SamplerInv' /\ (Fits(m) => Fits(m)')
    <2>1. m' \in Managers
      BY <1>0, <1>3 DEF Managers
    <2>2. /\ m'.pending = m.pending /\ m'.adc = m.adc /\ m'.wiring = m.wiring /\ m'.cal = m.cal
          /\ m'.readings = m.readings /\ m'.changed = m.changed /\ m'.capture = c
      BY <1>0, <1>3 DEF Managers
    <2>3. Sound([m EXCEPT !.capture = c]) /\ (Fits(m) => Fits([m EXCEPT !.capture = c]))
      BY <1>0, <1>3, DueSound
    <2>4. QED
      BY <1>0, <1>3, <2>2, <2>3, SameSite, SameReadings
  <1>4. CASE SampleDue
    <2>1. m.capture # None /\ m.capture \in Captures
      BY <1>0, <1>4 DEF SampleDue, Managers
    <2> DEFINE c == [m.capture EXCEPT !.due = TRUE]
    <2>2. c \in Captures /\ c.zone = m.capture.zone /\ c.inputs = m.capture.inputs
      BY <2>1 DEF Captures
    <2>3. m' = [m EXCEPT !.capture = c]
      BY <1>4 DEF SampleDue
    <2> HIDE DEF c
    <2>4. QED
      BY <1>3, <2>1, <2>2, <2>3
  <1>5. CASE CaptureOver
    <2>1. m.capture # None /\ m.capture \in Captures
      BY <1>0, <1>5 DEF CaptureOver, Managers
    <2> DEFINE c == [m.capture EXCEPT !.over = TRUE]
    <2>2. c \in Captures /\ c.zone = m.capture.zone /\ c.inputs = m.capture.inputs
      BY <2>1 DEF Captures
    <2>3. m' = [m EXCEPT !.capture = c]
      BY <1>5 DEF CaptureOver
    <2> HIDE DEF c
    <2>4. QED
      BY <1>3, <2>1, <2>2, <2>3
  <1>6. QED
    BY <1>2, <1>4, <1>5 DEF RequestScan, CycleDue

LEMMA EndConversionKeeps ==
    ASSUME SamplerInv, EndConversion
    PROVE  SamplerInv' /\ (Fits(m) => Fits(m)')
  <1>1. PICK b \in Boards : m' = [m EXCEPT !.adc[b].busy = FALSE]
    BY DEF EndConversion
  <1> DEFINE adc == [m.adc EXCEPT ![b].busy = FALSE]
  <1> DEFINE w == [m EXCEPT !.adc = adc]
  <1>2. Installed' /\ Sound(m) /\ m \in Managers /\ UNCHANGED site /\ m.changed = FALSE /\ w = m'
    BY <1>1 DEF SamplerInv, Sound, Installed, EndConversion, Managers
  <1>3. /\ adc \in [Boards -> [input : AnyInput, busy : BOOLEAN]]
        /\ \A c \in Boards : adc[c].input = m.adc[c].input /\ (adc[c].busy => m.adc[c].busy)
    <2>1. m.adc \in [Boards -> [input : AnyInput, busy : BOOLEAN]]
      BY <1>2 DEF Managers
    <2>2. QED
      BY <2>1
  <1> HIDE DEF adc
  <1>4. w \in Managers
    BY <1>2, <1>3 DEF Managers
  <1>5. /\ w.pending = m.pending /\ w.adc = adc /\ w.wiring = m.wiring /\ w.cal = m.cal
        /\ w.readings = m.readings /\ w.changed = m.changed /\ w.capture = m.capture
    BY <1>2 DEF Managers
  <1> HIDE DEF w
  <1>6. Matched(w)
    <2>1. m.pending # None => m.pending.board \in Boards
      BY <1>2 DEF Managers, Conversions
    <2>2. QED
      BY <1>2, <1>3, <1>5, <2>1 DEF Sound, Matched
  <1>7. Sound(w) /\ (Fits(m) => Fits(w))
    BY <1>2, <1>3, <1>4, <1>5, <1>6 DEF Sound, Alone, Own, Fits
  <1>8. QED
    BY <1>2, <1>5, <1>7, SameSite, SameReadings

LEMMA PlugKeeps ==
    ASSUME SamplerInv, Plug
    PROVE  SamplerInv' /\ (Fits(m) => Fits(m)')
  BY DEF SamplerInv, Installed, Plug, Sound, Alone, Matched, Own, Fits

LEMMA InitSound == Init => SamplerInv /\ Fits(m)
  <1> SUFFICES ASSUME Init PROVE SamplerInv /\ Fits(m)
    OBVIOUS
  <1>1. PICK w \in Wirings : m = Fresh(w)
    BY DEF Init
  <1>2. Fresh(w) \in Managers
    <2> DEFINE any == CHOOSE i \in Inputs : TRUE
    <2>1. [z \in Zones |-> Waiting] \in [Zones -> Readings]
      BY DEF Readings
    <2>2. [b \in Boards |-> [input |-> any, busy |-> FALSE]] \in [Boards -> [input : AnyInput, busy : BOOLEAN]]
      BY DEF AnyInput
    <2>3. [z \in Zones |-> 0] \in [Zones -> Limits]
      BY DEF Limits
    <2>4. QED
      BY <2>1, <2>2, <2>3 DEF Fresh, Managers
  <1>3. /\ m.pending = None /\ m.capture = None /\ m.changed = FALSE
        /\ \A b \in Boards : ~m.adc[b].busy
        /\ \A z \in Zones : m.readings[z] = Waiting
    BY <1>1 DEF Fresh
  <1>4. Installed
    BY Assumed DEF Init, Installed
  <1>5. QED
    BY <1>1, <1>2, <1>3, <1>4 DEF SamplerInv, Sound, Alone, Matched, Own, Fits

LEMMA SamplerNext ==
    ASSUME NotBoth, SamplerInv, [Next]_vars
    PROVE  SamplerInv' /\ (~SaveFaults /\ Fits(m) => Fits(m)')
  <1>1. CASE UNCHANGED vars
    BY <1>1 DEF vars, SamplerInv, Installed, Sound, Alone, Matched, Own, Fits
  <1>2. QED
    BY <1>1, TurnKeeps, SaveKeeps, StartCalibrationKeeps, TimersKeep, EndConversionKeeps, PlugKeeps
    DEF Next

-----------------------------------------------------------------------------
\* What converters, the conversion waited for and a calibration have to do with the
\* wiring: at most one conversion is under way, and it is of its zone's input.
THEOREM ConversionsHold == NotBoth => (Spec => []SamplerInv)
<1> SUFFICES ASSUME NotBoth PROVE Spec => []SamplerInv
  OBVIOUS
<1>1. Init => SamplerInv
  BY InitSound
<1>2. SamplerInv /\ [Next]_vars => SamplerInv'
  BY SamplerNext
<1>3. QED
  BY <1>1, <1>2, PTL DEF Spec

\* A calibration only averages samples of its own zone's input, whatever is asked for and
\* saved before and after it (moisture.py:109-131, 219-224).
THEOREM CapturesAlwaysOwn == NotBoth => (Spec => []CaptureOwn)
<1> SUFFICES ASSUME NotBoth PROVE Spec => []CaptureOwn
  OBVIOUS
<1>1. SamplerInv => CaptureOwn
  BY DEF SamplerInv, Sound, Own, CaptureOwn
<1>2. QED
  BY <1>1, ConversionsHold, PTL

\* Where calibrations can be saved, a reading is of the input its zone has, scaled by the
\* limits it has, after every change of the settings (moisture.py:96-107, 188, 200-235).
THEOREM ReadingsAlwaysCurrent == NotBoth /\ ~SaveFaults => (Spec => []ReadingsCurrent)
<1> SUFFICES ASSUME NotBoth, ~SaveFaults PROVE Spec => []ReadingsCurrent
  OBVIOUS
<1> DEFINE CurrentInv == SamplerInv /\ Fits(m)
<1>1. Init => CurrentInv
  BY InitSound
<1>2. CurrentInv /\ [Next]_vars => CurrentInv'
  BY SamplerNext
<1>3. CurrentInv => ReadingsCurrent
  <2> SUFFICES ASSUME CurrentInv, NEW z \in Zones, m.readings[z].kind = "value"
               PROVE  m.readings[z] = Measured(m.wiring[z], m.cal[z])
    BY DEF ReadingsCurrent
  <2>1. m.readings[z] \in {Waiting, Error, Measured(m.wiring[z], m.cal[z])}
    BY DEF SamplerInv, Fits
  <2>2. Waiting.kind # "value" /\ Error.kind # "value"
    BY DEF Waiting, Error
  <2>3. QED
    BY <2>1, <2>2
<1> HIDE DEF CurrentInv
<1>4. QED
  BY <1>1, <1>2, <1>3, PTL DEF Spec

-----------------------------------------------------------------------------
(* The saved history. *)

\* The saved points that must still be readable, among the points S.
KeptIn(S) == \A p \in saved : clock - p <= Retention => p \in S

ClocksKept ==
    /\ clock \in Nat /\ Retention \in Nat
    /\ saved \subseteq Nat /\ \A p \in saved : p <= clock
    /\ pending # Never => pending \in Nat /\ pending <= clock
    /\ job # "none" => jobNow \in Nat /\ jobNow <= clock /\ \A p \in saved : p <= jobNow

IsFile(f) ==
    f = [exists |-> f.exists, points |-> f.points, torn |-> f.torn] /\ f.exists \in BOOLEAN

FilesKept ==
    /\ IsFile(path) /\ IsFile(prev) /\ IsFile(temp)
    /\ ~prev.exists => prev.points = {}
    /\ job \in {"none", "copy", "remove", "retire", "replace"}
    /\ job # "none" => temp.exists
    /\ job \in {"remove", "retire"} => path.exists
    /\ ~cut =>
        /\ BetweenTurns => KeptIn(Source.points) /\ (prev.exists => path.exists)
        /\ job = "copy" => KeptIn(temp.points \cup todo)
        /\ ~BetweenTurns => KeptIn(temp.points)

HistoryInv == ClocksKept /\ FilesKept

-----------------------------------------------------------------------------
(* Steps: the clocks first, which do not depend on the files. *)

LEMMA InitKeeps == HistoryInit => HistoryInv
BY HistoryAssumption DEF HistoryInit, HistoryInv, ClocksKept, FilesKept, IsFile, Missing, Source, KeptIn,
                         BetweenTurns

LEMMA ClocksNext == ClocksKept /\ [HistoryNext]_all => ClocksKept'
<1> SUFFICES ASSUME ClocksKept, [HistoryNext]_all PROVE ClocksKept'
  OBVIOUS
<1> USE DEF ClocksKept
<1>1. ASSUME NEW idle, Sample(idle) PROVE ClocksKept'
  <2> DEFINE point == IF PointDue THEN clock ELSE pending
             write == idle /\ point # Never /\ MayAppend
  <2>1. point # Never => point \in Nat /\ point <= clock
    BY DEF Never
  <2> HIDE DEF point
  <2>2. /\ UNCHANGED <<clock, job, jobNow>> /\ pending' \in {point, Never}
        /\ saved' \in {saved, saved \cup {point}}
        /\ saved' # saved => point # Never /\ job = "none"
    BY <1>1 DEF Sample, history, pruning, MayAppend, point
  <2>3. QED
    BY <2>1, <2>2
<1>2. CASE Advance
  BY <1>2 DEF Advance, sampling, pruning, history
<1>3. CASE BeginPrune
  BY <1>3 DEF BeginPrune, sampling, history
<1>4. CASE PowerLoss
  BY <1>4 DEF PowerLoss
<1>5. CASE Synchronize \/ UNCHANGED all
  BY <1>5 DEF Synchronize, all, sampling, pruning, history
<1>6. CASE PruneRecord \/ EndRecords \/ RemovePrev \/ Retire \/ Replace \/ PruneRaises
  <2>1. UNCHANGED <<clock, saved, pending, jobNow>> /\ (job' # "none" => job # "none")
    BY <1>6 DEF PruneRecord, EndRecords, RemovePrev, Retire, Replace, PruneRaises, sampling,
                history
  <2>2. QED
    BY <2>1
<1>7. QED
  BY <1>1, <1>2, <1>3, <1>4, <1>5, <1>6 DEF HistoryNext, Prune, Rest

\* Time only expires points.
LEMMA KeptLater ==
    ASSUME ClocksKept, clock' \in Nat, clock' >= clock, UNCHANGED saved, NEW S, KeptIn(S)
    PROVE  KeptIn(S)'
<1> SUFFICES ASSUME NEW p \in saved, clock' - p <= Retention PROVE p \in S
  BY DEF KeptIn
<1>1. p \in Int /\ clock \in Int /\ Retention \in Int
  BY DEF ClocksKept
<1>2. clock - p <= Retention
  <2> DEFINE c == clock
             d == clock'
             r == Retention
  <2>1. p \in Int /\ c \in Int /\ d \in Int /\ r \in Int
    BY <1>1
  <2>2. d >= c /\ d - p <= r
    OBVIOUS
  <2> HIDE DEF c, d, r
  <2>3. c - p <= r
    BY <2>1, <2>2
  <2>4. QED
    BY <2>3 DEF c, r
<1>3. QED
  BY <1>2 DEF KeptIn

\* A fault between the renames is remembered; so is one that ends the records (EndRecords).
LEMMA FaultCuts == Fault => (~cut' => ~cut /\ BetweenTurns)
BY DEF Fault

LEMMA SampleKeeps ==
    ASSUME HistoryInv, NEW idle \in BOOLEAN, Sample(idle)
    PROVE  FilesKept'
<1> DEFINE point == IF PointDue THEN clock ELSE pending
           write == idle /\ point # Never /\ MayAppend
<1>1. /\ BetweenTurns /\ UNCHANGED <<clock, job, todo>>
      /\ IsFile(path) /\ IsFile(prev) /\ IsFile(temp) /\ prev' = prev /\ temp' = temp
  BY DEF Sample, pruning, HistoryInv, FilesKept, files
<1>2. CASE UNCHANGED <<path, saved, cut>>
  BY <1>1, <1>2 DEF HistoryInv, FilesKept, KeptIn, Source, BetweenTurns, IsFile
<1>3. CASE write /\ path' = Appended(path, point) /\ cut' = cut
           /\ saved' = (IF path.torn THEN saved ELSE saved \cup {point})
  <2>1. job = "none"
    BY <1>3 DEF MayAppend
  <2>2. /\ IsFile(path') /\ path'.exists
        /\ path'.points = IF path.torn THEN path.points ELSE path.points \cup {point}
    <3>1. CASE path.torn
      <4>1. path' = [exists |-> TRUE, points |-> path.points, torn |-> FALSE]
        BY <1>1, <1>3, <3>1 DEF Appended, IsFile
      <4>2. QED
        BY <3>1, <4>1 DEF IsFile
    <3>2. CASE ~path.torn
      BY <1>3, <3>2 DEF Appended, IsFile
    <3>3. QED
      BY <3>1, <3>2
  <2> HIDE DEF point, write
  <2>3. ~cut => KeptIn(Source.points) /\ (prev.exists => path.exists)
    BY <1>1 DEF HistoryInv, FilesKept
  <2>4. ~cut => \A p \in saved : clock - p <= Retention => p \in path.points
    BY <2>3 DEF KeptIn, Source, HistoryInv, FilesKept
  <2>5. ~cut => KeptIn(Source.points)'
    BY <1>1, <1>3, <2>2, <2>4 DEF KeptIn, Source
  <2>6. QED
    BY <1>1, <1>3, <2>1, <2>2, <2>5 DEF HistoryInv, FilesKept, BetweenTurns
<1>4. CASE /\ Fault /\ saved' = saved
           /\ path' = [path EXCEPT !.exists = TRUE, !.torn = TRUE]
  <2>1. path' = [exists |-> TRUE, points |-> path.points, torn |-> TRUE]
    BY <1>1, <1>4 DEF IsFile
  <2>2. ~cut' => ~cut
    BY <1>4, FaultCuts
  <2>3. ~cut => \A p \in saved : clock - p <= Retention => p \in path.points
    BY <1>1 DEF KeptIn, Source, HistoryInv, FilesKept
  <2>4. IsFile(path') /\ path'.exists /\ path'.points = path.points
    BY <2>1 DEF IsFile
  <2>5. ~cut => KeptIn(Source.points)'
    BY <1>1, <1>4, <2>3, <2>4 DEF KeptIn, Source
  <2>6. job' = "copy" /\ ~cut => KeptIn(temp.points \cup todo)'
    BY <1>1, <1>4 DEF KeptIn, HistoryInv, FilesKept
  <2>7. QED
    BY <1>1, <2>2, <2>4, <2>5, <2>6 DEF HistoryInv, FilesKept, BetweenTurns
<1>5. CASE Fault /\ saved' = saved /\ path' = path
  BY <1>1, <1>5, FaultCuts DEF HistoryInv, FilesKept, KeptIn, Source, BetweenTurns, IsFile
<1>6. QED
  BY <1>2, <1>3, <1>4, <1>5 DEF Sample, files, history

\* A job copies what has not expired.
LEMMA UnexpiredCurrent ==
    ASSUME HistoryInv, job = "copy", NEW q \in saved, clock - q <= Retention
    PROVE  Current(q)
<1>1. q \in Nat /\ clock \in Nat /\ jobNow \in Nat /\ jobNow <= clock /\ q <= jobNow
      /\ Retention \in Nat
  BY DEF HistoryInv, ClocksKept
<1>2. QED
  BY <1>1 DEF Current

\* The copy is complete with the last record, or with the last that has not expired.
LEMMA EndRecordsKeeps ==
    ASSUME HistoryInv, EndRecords
    PROVE  FilesKept'
<1>1. /\ job = "copy" /\ UNCHANGED <<clock, saved, path, prev, temp>>
      /\ job' \in {"remove", "retire", "replace"}
      /\ job' # "replace" => path.exists
  BY DEF EndRecords, files
<1> DEFINE skipped == \E p \in todo : Current(p)
<1>2. ~cut' => ~cut /\ \A p \in todo : ~Current(p)
  <2>1. (todo = {} /\ cut' = cut) \/ (cut' = (cut \/ skipped))
    BY DEF EndRecords
  <2> HIDE DEF skipped
  <2>2. cut' = (cut \/ skipped) => (~cut' => ~cut /\ ~skipped)
    BY Zenon
  <2>3. QED
    BY <2>1, <2>2 DEF skipped
<1>3. ~cut' => KeptIn(temp.points)'
  <2>1. ~cut => KeptIn(temp.points \cup todo)
    BY <1>1 DEF HistoryInv, FilesKept
  <2>2. QED
    BY <1>1, <1>2, <2>1, UnexpiredCurrent DEF KeptIn
<1>4. QED
  BY <1>1, <1>2, <1>3 DEF HistoryInv, FilesKept, BetweenTurns, IsFile

\* The other calls of a job: what was to be copied is copied, and replaces the file.
LEMMA PruneKeeps ==
    ASSUME HistoryInv, BeginPrune \/ PruneRecord \/ RemovePrev \/ Retire \/ Replace
    PROVE  FilesKept'
<1> USE DEF HistoryInv
<1>1. UNCHANGED <<clock, saved, cut>>
  BY DEF BeginPrune, PruneRecord, RemovePrev, Retire, Replace, history
<1>2. CASE BeginPrune
  <2>1. job = "none" /\ UNCHANGED <<path, prev>>
    BY <1>2 DEF BeginPrune
  <2>2. CASE temp' = Empty /\ todo' = Source.points /\ job' = "copy"
    BY <1>1, <2>1, <2>2 DEF FilesKept, IsFile, Empty, KeptIn, Source, BetweenTurns
  <2>3. CASE UNCHANGED <<temp, todo, job>>
    BY <1>1, <2>1, <2>3 DEF FilesKept, IsFile, KeptIn, Source, BetweenTurns
  <2>4. QED
    BY <1>2, <2>2, <2>3 DEF BeginPrune
<1>3. CASE PruneRecord
  <2> DEFINE p == Min(todo)
  <2>1. /\ job = "copy" /\ job' = "copy" /\ UNCHANGED <<path, prev>> /\ todo' = todo \ {p}
        /\ temp' = IF Current(p) THEN [temp EXCEPT !.points = temp.points \cup {p}] ELSE temp
    BY <1>3 DEF PruneRecord
  <2> HIDE DEF p
  <2>2. /\ IsFile(temp') /\ temp'.exists
        /\ temp'.points = IF Current(p) THEN temp.points \cup {p} ELSE temp.points
    <3>1. CASE Current(p)
      <4>1. temp' = [exists |-> temp.exists, points |-> temp.points \cup {p}, torn |-> temp.torn]
        BY <2>1, <3>1 DEF FilesKept, IsFile
      <4>2. QED
        BY <2>1, <3>1, <4>1 DEF FilesKept, IsFile
    <3>2. CASE ~Current(p)
      BY <2>1, <3>2 DEF FilesKept, IsFile
    <3>3. QED
      BY <3>1, <3>2
  <2>4. ~cut => KeptIn(temp.points \cup todo)'
    <3>1. ~cut => KeptIn(temp.points \cup todo)
      BY <2>1 DEF FilesKept
    <3>2. QED
      BY <1>1, <2>1, <2>2, UnexpiredCurrent, <3>1 DEF KeptIn
  <2>5. ~cut => KeptIn(Source.points)' /\ (prev'.exists => path'.exists)
    BY <1>1, <2>1 DEF FilesKept, KeptIn, Source, BetweenTurns
  <2>6. QED
    BY <1>1, <2>1, <2>2, <2>4, <2>5 DEF FilesKept, BetweenTurns
<1>4. CASE RemovePrev \/ Retire
  <2>1. /\ job \in {"remove", "retire"} /\ job' \in {"retire", "replace"} /\ temp' = temp
        /\ \/ prev' = Missing /\ path' = path
           \/ prev' = path /\ path' = Missing /\ job' = "replace"
        /\ path.exists
    BY <1>4 DEF RemovePrev, Retire, FilesKept, IsFile
  <2>2. IsFile(path') /\ IsFile(prev') /\ (~prev'.exists => prev'.points = {})
    <3>1. IsFile(path) /\ IsFile(Missing) /\ Missing.points = {}
      BY DEF FilesKept, IsFile, Missing
    <3>2. CASE prev' = Missing /\ path' = path
      BY <3>1, <3>2
    <3>3. CASE prev' = path /\ path' = Missing
      BY <2>1, <3>1, <3>3
    <3>4. QED
      BY <2>1, <3>2, <3>3
  <2>3. ~cut => KeptIn(temp.points)'
    BY <1>1, <2>1 DEF FilesKept, BetweenTurns, KeptIn
  <2>4. temp'.exists /\ (job' = "retire" => path'.exists)
    BY <2>1 DEF FilesKept
  <2>5. QED
    BY <1>1, <2>1, <2>2, <2>3, <2>4 DEF FilesKept, BetweenTurns
<1>5. CASE Replace
  BY <1>1, <1>5 DEF Replace, FilesKept, BetweenTurns, IsFile, Missing, KeptIn, Source
<1>6. QED
  BY <1>2, <1>3, <1>4, <1>5

\* Whatever ends a job early between turns leaves the file as it was.
LEMMA FaultKeeps ==
    ASSUME HistoryInv, PruneRaises \/ PowerLoss
    PROVE  FilesKept'
<1>1. Fault /\ UNCHANGED <<clock, saved, path, prev, temp>> /\ job' = "none"
  BY DEF PruneRaises, PowerLoss, files
<1>2. ~cut' => ~cut /\ BetweenTurns
  BY <1>1, FaultCuts
<1>3. ~cut' => KeptIn(Source.points)' /\ (prev'.exists => path'.exists)
  BY <1>1, <1>2 DEF HistoryInv, FilesKept, KeptIn, Source
<1>4. QED
  BY <1>1, <1>3 DEF HistoryInv, FilesKept, IsFile, BetweenTurns

LEMMA AdvanceKeeps ==
    ASSUME HistoryInv, Advance
    PROVE  FilesKept'
<1>1. /\ UNCHANGED <<saved, cut, path, prev, temp, job, todo>>
      /\ clock' \in Nat /\ clock' >= clock
  BY DEF Advance, files, history, pruning, HistoryInv, ClocksKept
<1>2. \A S : KeptIn(S) => KeptIn(S)'
  BY <1>1, KeptLater DEF HistoryInv
<1>3. /\ KeptIn(Source.points) => KeptIn(Source.points)'
      /\ KeptIn(temp.points \cup todo) => KeptIn(temp.points \cup todo)'
      /\ KeptIn(temp.points) => KeptIn(temp.points)'
  <2> DEFINE kept(S) == \A p \in saved' : clock' - p <= Retention => p \in S
  <2>1. \A S : KeptIn(S) => kept(S)
    BY <1>2 DEF KeptIn
  <2>2. /\ KeptIn(Source.points)' <=> kept(Source.points)
        /\ KeptIn(temp.points \cup todo)' <=> kept(temp.points \cup todo)
        /\ KeptIn(temp.points)' <=> kept(temp.points)
    BY <1>1 DEF KeptIn, Source
  <2> HIDE DEF kept
  <2>3. QED
    BY <2>1, <2>2
<1>4. QED
  BY <1>1, <1>3 DEF HistoryInv, FilesKept, IsFile, BetweenTurns

LEMMA NextKeeps == HistoryInv /\ [HistoryNext]_all => HistoryInv'
<1> SUFFICES ASSUME HistoryInv, [HistoryNext]_all PROVE HistoryInv'
  OBVIOUS
<1>1. ClocksKept'
  BY ClocksNext DEF HistoryInv
<1>2. ASSUME Synchronize \/ UNCHANGED all PROVE FilesKept'
  <2>1. UNCHANGED <<clock, saved, cut, path, prev, temp, job, todo>>
    BY <1>2 DEF Synchronize, all, files, pruning, history
  <2>2. Source' = Source /\ (BetweenTurns' <=> BetweenTurns)
    BY <2>1 DEF Source, BetweenTurns
  <2>3. QED
    BY <2>1, <2>2 DEF HistoryInv, FilesKept, KeptIn, IsFile
<1>3. FilesKept'
  BY <1>2, SampleKeeps, AdvanceKeeps, PruneKeeps, EndRecordsKeeps, FaultKeeps
  DEF HistoryNext, Prune, Rest, HistoryInv
<1>4. QED
  BY <1>1, <1>3 DEF HistoryInv

\* The inductive invariant of the saved history.
THEOREM HistoryHolds == HistorySpec => []HistoryInv
BY InitKeeps, NextKeeps, PTL DEF HistorySpec

\* A saved point is readable for its retention period, unless a read that raised ended the
\* records of a prune early or a fault fell between the renames that end it (state.py
\* _records, _prune_records).
THEOREM SavedAlwaysKept == HistorySpec => []SavedKept
<1>1. HistoryInv => SavedKept
  BY DEF HistoryInv, FilesKept, KeptIn, SavedKept
<1>2. QED
  BY <1>1, HistoryHolds, PTL
=============================================================================
