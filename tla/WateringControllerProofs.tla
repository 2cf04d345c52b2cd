---------------------- MODULE WateringControllerProofs ----------------------
(***************************************************************************)
(* What the runs of WateringController check on small instances, proved    *)
(* for every value of its constants: types; outputs and intents; quiet     *)
(* after a fault or under a hold; the cutoff; the lockouts; the soak;      *)
(* the priority of scheduled runs; and the order of occurrences.  Each     *)
(* part states its inductive invariant first.                              *)
(***************************************************************************)
EXTENDS WateringController, TLAPS, FiniteSetTheorems, SequenceTheorems

Snapshots == [vs : [Valves -> ValveObjects], ps : [Valves -> BOOLEAN], L : Journals,
              cd : [Valves -> [Categories -> Nat]],
              ends : [Valves -> [Categories -> Times]]]

\* Stamping the runs of some valves yields a journal.
LEMMA RecordedType ==
    ASSUME NEW L \in Journals, NEW vs, NEW S, NEW stamp \in Stamps
    PROVE  Recorded(L, vs, S, stamp) \in Journals
<1> DEFINE new(v, k) == IF v \in S /\ k = Category(vs[v].reason) THEN stamp ELSE L.stamp[v][k]
           news == [v \in Valves |-> [k \in Categories |-> new(v, k)]]
<1>1. L.stamp \in [Valves -> [Categories -> Stamps]]
  BY DEF Journals
<1>2. \A v \in Valves, k \in Categories : new(v, k) \in Stamps
  BY <1>1
<1>3. news \in [Valves -> [Categories -> Stamps]]
  <2> HIDE DEF new
  <2>1. QED
    BY <1>2
<1>4. [L EXCEPT !.stamp = news] \in Journals
  <2> HIDE DEF news
  <2>1. QED
    BY <1>3 DEF Journals
<1>5. QED
  BY <1>4 DEF Recorded

\* Restarting cooldowns and noting times keep their types.
LEMMA CooledType ==
    ASSUME ControllerAssumption, NEW cd \in [Valves -> [Categories -> Nat]], NEW vs, NEW S
    PROVE  Cooled(cd, vs, S) \in [Valves -> [Categories -> Nat]]
BY DEF Cooled, ControllerAssumption

\* Noting a time in the history keeps its type.
LEMMA MarkedType ==
    ASSUME NEW h \in [Valves -> [Categories -> Times]], NEW vs, NEW S, NEW t \in Nat
    PROVE  Marked(h, vs, S, t) \in [Valves -> [Categories -> Times]]
BY DEF Marked, Times

\* What is written for a run is a stamp, whether or not the clock is synchronized.
LEMMA StampOfType ==
    ASSUME NEW sy \in BOOLEAN, NEW ep \in Nat
    PROVE  StampOf(sy, ep) \in Stamps
BY DEF StampOf, Stamps

\* The journal of a fresh install is a journal.
LEMMA EmptyJournalType == EmptyJournal \in Journals
BY DEF EmptyJournal, Journals, Stamps, Times, Absent, Never

\* The absence of a session is a session value.
LEMMA NoSessionType == NoSession \in Sessions
BY DEF NoSession, Sessions, Times, Never

\* A closed valve object is a valve object.
LEMMA ClosedValveType == ControllerAssumption => ClosedValve \in ValveObjects
BY DEF ClosedValve, ValveObjects, Times, Never, Reasons, ControllerAssumption

\* A handler begins with a typed snapshot.
LEMMA SnapshotType == TypeOK => Snapshot \in Snapshots
BY DEF TypeOK, Snapshot, Snapshots

\* The typed part of what stop_all changes.
LEMMA StopAllType ==
    ASSUME ControllerAssumption, TypeOK, NEW a \in Snapshots, NEW bad, NEW t \in Nat,
           NEW stamp \in Stamps, NEW fault, StopAll(a, bad, t, stamp, fault)
    PROVE  /\ queue' \in Seq(Entries) /\ session' \in Sessions
           /\ valve' \in [Valves -> ValveObjects] /\ pin' \in [Valves -> BOOLEAN]
           /\ ledger' \in Journals
           /\ cooldown' \in [Valves -> [Categories -> Nat]]
           /\ stopped' \in [Valves -> [Categories -> Times]]
           /\ closeFault' \in BOOLEAN /\ inhibited' \in BOOLEAN
<1> DEFINE shut == Open(a.vs) \ bad
<1>1. /\ a.vs \in [Valves -> ValveObjects] /\ a.ps \in [Valves -> BOOLEAN]
      /\ a.L \in Journals /\ a.cd \in [Valves -> [Categories -> Nat]]
      /\ a.ends \in [Valves -> [Categories -> Times]]
  BY DEF Snapshots
<1>2. Recorded(a.L, a.vs, shut, stamp) \in Journals
  BY <1>1, RecordedType
<1>3. Cooled(a.cd, a.vs, shut) \in [Valves -> [Categories -> Nat]]
  BY <1>1, CooledType
<1>4. Marked(a.ends, a.vs, shut, t) \in [Valves -> [Categories -> Times]]
  BY <1>1, MarkedType
<1>5. /\ queue' = <<>> /\ session' = NoSession
      /\ valve' = [v \in Valves |-> IF v \in bad THEN a.vs[v] ELSE ClosedValve]
      /\ pin' = [v \in Valves |-> v \in bad /\ a.ps[v]]
      /\ ledger' = Recorded(a.L, a.vs, shut, stamp)
      /\ cooldown' = Cooled(a.cd, a.vs, shut)
      /\ stopped' = Marked(a.ends, a.vs, shut, t)
      /\ closeFault' = (bad # {})
      /\ inhibited' = (inhibited \/ fault \/ bad # {})
  BY DEF StopAll
<1>6. valve' \in [Valves -> ValveObjects]
  BY <1>1, <1>5, ClosedValveType
<1>7. pin' \in [Valves -> BOOLEAN]
  BY <1>5
<1>8. queue' \in Seq(Entries) /\ session' \in Sessions
  BY <1>5, NoSessionType
<1>9. closeFault' \in BOOLEAN /\ inhibited' \in BOOLEAN
  BY <1>5
<1>10. QED
  BY <1>2, <1>3, <1>4, <1>5, <1>6, <1>7, <1>8, <1>9

\* Booting yields typed values from a typed journal.
LEMMA BootType ==
    ASSUME ControllerAssumption, TypeOK, NEW t \in Nat, NEW D \in Journals,
           NEW unreadable \in BOOLEAN, Boot(t, D, unreadable)
    PROVE  TypeOK'
<1> PICK off \in 0 .. MaxOutage, watchdog \in BOOLEAN : Boot(t, D, unreadable)!(off, watchdog)
  BY DEF Boot
<1>1. now' \in Nat
  BY DEF ControllerAssumption
<1>2. ledger' \in Journals /\ disk' \in Journals
  BY EmptyJournalType
<1>3. cooldown' \in [Valves -> [Categories -> Nat]]
  BY DEF ControllerAssumption
<1>4. stopped' \in [Valves -> [Categories -> Times]]
  BY MarkedType DEF TypeOK
<1>5. valve' \in [Valves -> ValveObjects] /\ pin' \in [Valves -> BOOLEAN]
  BY ClosedValveType
<1>6. /\ inhibited' \in BOOLEAN /\ paused' \in BOOLEAN /\ closeFault' \in BOOLEAN
      /\ synced' \in BOOLEAN /\ restored' \in BOOLEAN /\ damaged' \in BOOLEAN
  OBVIOUS
<1>7. queue' \in Seq(Entries) /\ session' \in Sessions
  BY NoSessionType
<1>8. grace' \in Nat /\ nowEpoch' \in Nat
  BY DEF ControllerAssumption
<1>9. /\ started' \in [Valves -> [Categories -> Times]]
      /\ served' \in [Valves -> [Schedules -> Times]]
  BY DEF TypeOK
<1>10. QED
  BY <1>1, <1>2, <1>3, <1>4, <1>5, <1>6, <1>7, <1>8, <1>9 DEF TypeOK

-----------------------------------------------------------------------------
(* The variables the body of a handler writes, and the clocks a tick sets. *)

BodyTyped ==
    /\ queue \in Seq(Entries) /\ session \in Sessions
    /\ cooldown \in [Valves -> [Categories -> Nat]]
    /\ ledger \in Journals /\ disk \in Journals
    /\ inhibited \in BOOLEAN /\ closeFault \in BOOLEAN /\ damaged \in BOOLEAN
    /\ valve \in [Valves -> ValveObjects] /\ pin \in [Valves -> BOOLEAN]
    /\ started \in [Valves -> [Categories -> Times]]
    /\ stopped \in [Valves -> [Categories -> Times]]
    /\ served \in [Valves -> [Schedules -> Times]]
ClocksTyped ==
    /\ now \in Nat /\ grace \in Nat /\ nowEpoch \in Nat
    /\ paused \in BOOLEAN /\ synced \in BOOLEAN /\ restored \in BOOLEAN

\* The type invariant is that of the body and that of the clocks.
LEMMA TypeParts == TypeOK <=> BodyTyped /\ ClocksTyped
BY DEF TypeOK, BodyTyped, ClocksTyped

\* The head of a nonempty queue is an entry, the rest a queue.
LEMMA HeadType ==
    ASSUME queue \in Seq(Entries), queue # <<>>
    PROVE  /\ Head(queue) \in Entries /\ Tail(queue) \in Seq(Entries)
           /\ Head(queue).name \in Valves /\ Head(queue).dur \in 1 .. MaxOpen
           /\ Head(queue).reason \in Reasons
           /\ Head(queue).occ # <<>> => Head(queue).occ \in Schedules \X Nat
<1>1. Head(queue) \in Entries /\ Tail(queue) \in Seq(Entries)
  OBVIOUS
<1>2. QED
  BY <1>1 DEF Entries

\* Opening a valve object keeps the type of the map.
LEMMA OpenedType ==
    ASSUME ControllerAssumption, NEW vs \in [Valves -> ValveObjects],
           queue \in Seq(Entries), queue # <<>>, NEW t \in Nat
    PROVE  Opened(vs, Head(queue), t) \in [Valves -> ValveObjects]
<1>1. [open |-> TRUE, at |-> t, dur |-> Head(queue).dur, reason |-> Head(queue).reason]
        \in ValveObjects
  BY HeadType DEF ValveObjects, Times, ControllerAssumption
<1>2. QED
  BY <1>1, HeadType DEF Opened

\* The two sides of a failed commit leave a typed journal.
LEMMA FlashType ==
    ASSUME BodyTyped, NEW L \in Journals, Commit(L) \/ CommitFails(L)
    PROVE  disk' \in Journals /\ damaged' \in BOOLEAN
BY DEF BodyTyped, Commit, CommitFails, flash

\* The history of an energized entry is typed.
LEMMA NoteType ==
    ASSUME BodyTyped, queue # <<>>, NEW t \in Nat, Note(Head(queue), t)
    PROVE  /\ started' \in [Valves -> [Categories -> Times]]
           /\ served' \in [Valves -> [Schedules -> Times]]
<1>1. Category(Head(queue).reason) \in Categories /\ t \in Times
  BY DEF Category, Categories, Times
<1>2. started' \in [Valves -> [Categories -> Times]]
  BY <1>1 DEF Note, BodyTyped
<1>3. CASE Head(queue).occ = <<>>
  BY <1>2, <1>3 DEF Note, BodyTyped
<1>4. CASE Head(queue).occ # <<>>
  <2>1. Head(queue).occ[1] \in Schedules /\ Head(queue).occ[2] \in Times
    BY <1>4, HeadType DEF BodyTyped, Times
  <2>2. QED
    BY <1>2, <1>4, <2>1 DEF Note, BodyTyped
<1>5. QED
  BY <1>3, <1>4

\* A tick that starts nothing types what its body writes.
LEMMA HoldType ==
    ASSUME BodyTyped, NEW a \in Snapshots, NEW D \in Journals, NEW unreadable \in BOOLEAN,
           NEW t \in Nat, NEW g, Hold(a, D, unreadable, t, g)
    PROVE  BodyTyped'
<1>1. session' \in Sessions
  BY DEF Hold, BodyTyped, Sessions, Times
<1>2. /\ valve' \in [Valves -> ValveObjects] /\ pin' \in [Valves -> BOOLEAN]
      /\ ledger' \in Journals /\ cooldown' \in [Valves -> [Categories -> Nat]]
      /\ stopped' \in [Valves -> [Categories -> Times]]
      /\ disk' \in Journals /\ damaged' \in BOOLEAN
  BY DEF Hold, Snapshots
<1>3. QED
  BY <1>1, <1>2 DEF Hold, BodyTyped

\* The snapshot once the start record has been made.
LEMMA StartRecordType ==
    ASSUME ControllerAssumption, BodyTyped, NEW a \in Snapshots, queue # <<>>,
           NEW t \in Nat, NEW stamp \in Stamps
    PROVE  LET vs == Opened(a.vs, Head(queue), t)
               L == StartRecord(a, t, stamp)
               cd == Cooled(a.cd, vs, {Head(queue).name})
           IN  /\ vs \in [Valves -> ValveObjects] /\ L \in Journals
               /\ cd \in [Valves -> [Categories -> Nat]]
               /\ [a EXCEPT !.L = L, !.cd = cd] \in Snapshots
               /\ \A lit \in BOOLEAN :
                    [[a EXCEPT !.L = L, !.cd = cd]
                        EXCEPT !.vs = vs, !.ps[Head(queue).name] = lit] \in Snapshots
<1> DEFINE vs == Opened(a.vs, Head(queue), t)
           L == StartRecord(a, t, stamp)
           cd == Cooled(a.cd, vs, {Head(queue).name})
<1>1. vs \in [Valves -> ValveObjects]
  BY OpenedType DEF BodyTyped, Snapshots
<1>2. L \in Journals
  BY RecordedType DEF StartRecord, Snapshots
<1>3. cd \in [Valves -> [Categories -> Nat]]
  BY CooledType DEF Snapshots
<1>4. QED
  BY <1>1, <1>2, <1>3, HeadType DEF Snapshots, BodyTyped

\* So does a tick that starts the head of the queue, whichever way that ends.
LEMMA StartHeadType ==
    ASSUME ControllerAssumption, BodyTyped, ClocksTyped, NEW a \in Snapshots, NEW bad,
           NEW t \in Nat, NEW stamp \in Stamps, NEW g, StartHead(a, bad, t, stamp, g)
    PROVE  BodyTyped'
<1> DEFINE e == Head(queue)
           vs == Opened(a.vs, e, t)
           b == [a EXCEPT !.L = StartRecord(a, t, stamp), !.cd = Cooled(a.cd, vs, {e.name})]
<1>1. queue # <<>>
  BY DEF StartHead, MayStart
<1>2. /\ vs \in [Valves -> ValveObjects] /\ b \in Snapshots
      /\ \A lit \in BOOLEAN : [b EXCEPT !.vs = vs, !.ps[e.name] = lit] \in Snapshots
  BY <1>1, StartRecordType
<1>3. b.L \in Journals /\ b.cd \in [Valves -> [Categories -> Nat]]
      /\ b.ends \in [Valves -> [Categories -> Times]]
  BY <1>2 DEF Snapshots
<1>4. TypeOK
  BY TypeParts
<1> HIDE DEF b, vs
<1>5. CASE /\ Commit(b.L)
           /\ valve' = vs /\ pin' = [a.ps EXCEPT ![e.name] = TRUE]
           /\ ledger' = b.L /\ cooldown' = b.cd /\ stopped' = b.ends
           /\ queue' = Tail(queue)
           /\ Note(e, t)
           /\ UNCHANGED <<session, inhibited, closeFault>>
  <2>1. pin' \in [Valves -> BOOLEAN]
    BY <1>5, <1>1, HeadType DEF Snapshots, BodyTyped
  <2>2. disk' \in Journals /\ damaged' \in BOOLEAN
    BY <1>5, <1>3, FlashType
  <2>3. started' \in [Valves -> [Categories -> Times]] /\ served' \in [Valves -> [Schedules -> Times]]
    BY <1>5, <1>1, NoteType
  <2>4. queue' \in Seq(Entries)
    BY <1>5, <1>1, HeadType DEF BodyTyped
  <2>5. QED
    BY <1>2, <1>3, <1>5, <2>1, <2>2, <2>3, <2>4 DEF BodyTyped
<1>6. CASE /\ CommitFails(b.L)
           /\ StopAll(b, bad, t, stamp, TRUE)
           /\ UNCHANGED <<started, served>>
  <2>1. disk' \in Journals /\ damaged' \in BOOLEAN
    BY <1>6, <1>3, FlashType
  <2>2. QED
    BY <1>2, <1>4, <1>6, <2>1, StopAllType DEF BodyTyped
<1>7. CASE /\ Commit(b.L)
           /\ \E lit \in BOOLEAN :
                /\ StopAll([b EXCEPT !.vs = vs, !.ps[e.name] = lit], bad, t, stamp, TRUE)
                /\ IF lit THEN Note(e, t) ELSE UNCHANGED <<started, served>>
  <2>1. disk' \in Journals /\ damaged' \in BOOLEAN
    BY <1>7, <1>3, FlashType
  <2>2. PICK lit \in BOOLEAN :
            /\ StopAll([b EXCEPT !.vs = vs, !.ps[e.name] = lit], bad, t, stamp, TRUE)
            /\ IF lit THEN Note(e, t) ELSE UNCHANGED <<started, served>>
    BY <1>7
  <2>3. started' \in [Valves -> [Categories -> Times]] /\ served' \in [Valves -> [Schedules -> Times]]
    BY <2>2, <1>1, NoteType DEF BodyTyped
  <2>4. [b EXCEPT !.vs = vs, !.ps[e.name] = lit] \in Snapshots
    BY <1>2
  <2>5. QED
    BY <2>2, <2>4, <1>4, <2>1, <2>3, StopAllType DEF BodyTyped
<1>8. QED
  BY <1>5, <1>6, <1>7 DEF StartHead, b, vs

\* Countdowns restored from stamps are naturals.
LEMMA RestoreClockType ==
    ASSUME ControllerAssumption, ledger \in Journals, NEW ep \in Nat,
           NEW cd \in [Valves -> [Categories -> Nat]]
    PROVE  RestoreClock(cd, ep) \in [Valves -> [Categories -> Nat]]
<1>1. ASSUME NEW v \in Valves, NEW k \in Categories
      PROVE  (IF ledger.stamp[v][k] >= 0 /\ ep - ledger.stamp[v][k] \in 0 .. StampHorizon
              THEN AtLeast0(Interval[k] - (ep - ledger.stamp[v][k]))
              ELSE cd[v][k]) \in Nat
  <2>1. ledger.stamp[v][k] \in Stamps
    BY <1>1 DEF Journals
  <2>2. ledger.stamp[v][k] \in Int
    BY <2>1 DEF Stamps, Unknown, Absent
  <2>3. Interval[k] \in Nat /\ StampHorizon \in Nat /\ cd[v][k] \in Nat
    BY <1>1 DEF ControllerAssumption
  <2>4. \A i \in Int : AtLeast0(i) \in Nat
    BY DEF AtLeast0
  <2>5. Interval[k] - (ep - ledger.stamp[v][k]) \in Int
    BY <2>2, <2>3
  <2>6. AtLeast0(Interval[k] - (ep - ledger.stamp[v][k])) \in Nat
    BY <2>4, <2>5
  <2>7. QED
    BY <2>3, <2>6, Zenon
<1>2. QED
  BY <1>1 DEF RestoreClock

(***************************************************************************)
(* A tick that runs to its end is one of three: no valve is due, the due   *)
(* ones close and are committed, or closing or committing them raises.     *)
(* The other two disjuncts are a boot.                                     *)
(***************************************************************************)
Shut(bad, t) == {v \in Valves : Expired(v, t)} \ bad
Counted(d) == [v \in Valves |-> [k \in Categories |-> AtLeast0(cooldown[v][k] - d)]]
TickCooldown(d, sync, ep) ==
    IF sync /\ ~restored THEN RestoreClock(Counted(d), ep) ELSE Counted(d)
NoneDue(d, sync, ep) == [Snapshot EXCEPT !.cd = TickCooldown(d, sync, ep)]
SomeDue(bad, d, sync, ep) ==
    LET t == now + d
        shut == Shut(bad, t)
    IN  [vs |-> [v \in Valves |-> IF v \in shut THEN ClosedValve ELSE valve[v]],
         ps |-> [v \in Valves |-> pin[v] /\ v \notin shut],
         L |-> Recorded(ledger, valve, shut, StampOf(sync, ep)),
         cd |-> Cooled(TickCooldown(d, sync, ep), valve, shut),
         ends |-> Marked(stopped, valve, shut, t)]
TickRuns(d, bad, sync, ep) ==
    LET t == now + d
        stamp == StampOf(sync, ep)
        g == AtLeast0(grace - d)
        due == {v \in Valves : Expired(v, t)}
        a == NoneDue(d, sync, ep)
        b == SomeDue(bad, d, sync, ep)
    IN
    /\ now' = t /\ grace' = g /\ paused' = paused
    /\ synced' = sync /\ nowEpoch' = ep /\ restored' = (restored \/ sync)
    /\ \/ /\ due = {}
          /\ Hold(a, disk, damaged, t, g) \/ StartHead(a, bad, t, stamp, g)
       \/ /\ due # {} /\ Shut(bad, t) = due
          /\ Hold(b, b.L, FALSE, t, g) \/ StartHead(b, bad, t, stamp, g)
       \/ /\ due # {}
          /\ IF Shut(bad, t) = {} THEN UNCHANGED flash ELSE CommitFails(b.L)
          /\ StopAll(b, bad, t, stamp, TRUE)
          /\ UNCHANGED <<started, served>>
TickBoots(d, bad, sync, ep) ==
    LET t == now + d
        due == {v \in Valves : Expired(v, t)}
        stamp == StampOf(sync, ep)
        b == SomeDue(bad, d, sync, ep)
        c == IF due = {} THEN NoneDue(d, sync, ep) ELSE b
    IN  \/ due # {} /\ Shut(bad, t) = due /\ Boot(t, b.L, FALSE)
        \/ Shut(bad, t) = due /\ MayStart(c, AtLeast0(grace - d))
           /\ Boot(t, StartRecord(c, t, stamp), FALSE)

\* Every tick is one of those, for some choice of faults, synchronization and clock error.
LEMMA TickCases ==
    ASSUME NEW d, Tick(d)
    PROVE  \E bad \in SUBSET Faulty, sync \in {synced, TRUE}, skew \in Skews :
              LET ep == IF sync THEN (now + d) + skew ELSE 0
              IN  ep >= 0 /\ (TickRuns(d, bad, sync, ep) \/ TickBoots(d, bad, sync, ep))
<1> PICK bad \in SUBSET Faulty, sync \in {synced, TRUE}, skew \in Skews :
        Tick(d)!(bad, sync, skew)
  BY DEF Tick
<1> DEFINE ep == IF sync THEN (now + d) + skew ELSE 0
<1>1. ep >= 0 /\ (TickRuns(d, bad, sync, ep) \/ TickBoots(d, bad, sync, ep))
  BY DEF TickRuns, TickBoots, NoneDue, SomeDue, Shut, TickCooldown, Counted
<1>2. QED
  BY <1>1

\* The snapshots of a tick are typed, with no valve due and with some.
LEMMA SnapshotsTyped ==
    ASSUME ControllerAssumption, TypeOK, NEW d \in Nat, NEW bad, NEW sync \in BOOLEAN,
           NEW ep \in Nat
    PROVE  /\ NoneDue(d, sync, ep) \in Snapshots
           /\ SomeDue(bad, d, sync, ep) \in Snapshots
           /\ SomeDue(bad, d, sync, ep).L \in Journals
           /\ StampOf(sync, ep) \in Stamps
<1>1. Counted(d) \in [Valves -> [Categories -> Nat]]
  BY DEF Counted, AtLeast0, TypeOK
<1>2. TickCooldown(d, sync, ep) \in [Valves -> [Categories -> Nat]]
  BY <1>1, RestoreClockType DEF TickCooldown, TypeOK
<1>3. StampOf(sync, ep) \in Stamps
  BY StampOfType
<1>4. NoneDue(d, sync, ep) \in Snapshots
  BY <1>2, SnapshotType DEF NoneDue, Snapshots
<1>5. now + d \in Nat
  BY DEF TypeOK
<1>6. Recorded(ledger, valve, Shut(bad, now + d), StampOf(sync, ep)) \in Journals
  BY <1>3, RecordedType DEF TypeOK
<1>7. Cooled(TickCooldown(d, sync, ep), valve, Shut(bad, now + d)) \in [Valves -> [Categories -> Nat]]
  BY <1>2, CooledType
<1>8. Marked(stopped, valve, Shut(bad, now + d), now + d) \in [Valves -> [Categories -> Times]]
  BY <1>5, MarkedType DEF TypeOK
<1>9. [v \in Valves |-> IF v \in Shut(bad, now + d) THEN ClosedValve ELSE valve[v]]
        \in [Valves -> ValveObjects]
  BY ClosedValveType DEF TypeOK
<1>10. [v \in Valves |-> pin[v] /\ v \notin Shut(bad, now + d)] \in [Valves -> BOOLEAN]
  OBVIOUS
<1>11. SomeDue(bad, d, sync, ep) \in Snapshots
  BY <1>6, <1>7, <1>8, <1>9, <1>10 DEF SomeDue, Snapshots
<1>12. SomeDue(bad, d, sync, ep).L \in Journals
  BY <1>11 DEF Snapshots
<1>13. QED
  BY <1>3, <1>4, <1>11, <1>12

\* A tick that runs to its end, from typed snapshots.
LEMMA TickRunsType ==
    ASSUME ControllerAssumption, TypeOK, NEW d \in Nat, NEW bad, NEW sync \in BOOLEAN,
           NEW ep \in Nat, TickRuns(d, bad, sync, ep)
    PROVE  TypeOK'
<1> DEFINE t == now + d
           g == AtLeast0(grace - d)
           stamp == StampOf(sync, ep)
           a == NoneDue(d, sync, ep)
           b == SomeDue(bad, d, sync, ep)
<1>1. t \in Nat /\ g \in Nat
  BY DEF TypeOK, AtLeast0
<1>2. BodyTyped /\ ClocksTyped
  BY TypeParts
<1>3. a \in Snapshots /\ b \in Snapshots /\ b.L \in Journals /\ stamp \in Stamps
  BY SnapshotsTyped
<1>4. ClocksTyped'
  <2>1. now' = t /\ grace' = g /\ nowEpoch' = ep
    BY DEF TickRuns
  <2>2. paused' = paused /\ synced' = sync /\ restored' = (restored \/ sync)
    BY DEF TickRuns
  <2>3. paused' \in BOOLEAN /\ synced' \in BOOLEAN /\ restored' \in BOOLEAN
    BY <1>2, <2>2 DEF ClocksTyped
  <2>4. QED
    BY <1>1, <2>1, <2>3 DEF ClocksTyped
<1>5. BodyTyped'
  <2>1. ASSUME Hold(a, disk, damaged, t, g) PROVE BodyTyped'
    BY <1>1, <1>2, <1>3, <2>1, HoldType DEF BodyTyped
  <2>2. ASSUME StartHead(a, bad, t, stamp, g) PROVE BodyTyped'
    BY <1>1, <1>2, <1>3, <2>2, StartHeadType
  <2>3. ASSUME Hold(b, b.L, FALSE, t, g) PROVE BodyTyped'
    BY <1>1, <1>2, <1>3, <2>3, HoldType
  <2>4. ASSUME StartHead(b, bad, t, stamp, g) PROVE BodyTyped'
    BY <1>1, <1>2, <1>3, <2>4, StartHeadType
  <2>5. ASSUME UNCHANGED flash \/ CommitFails(b.L),
               StopAll(b, bad, t, stamp, TRUE), UNCHANGED <<started, served>>
        PROVE  BodyTyped'
    <3>1. disk' \in Journals /\ damaged' \in BOOLEAN
      BY <2>5, <1>2, <1>3, FlashType DEF BodyTyped, flash
    <3>2. /\ queue' \in Seq(Entries) /\ session' \in Sessions
          /\ valve' \in [Valves -> ValveObjects] /\ pin' \in [Valves -> BOOLEAN]
          /\ ledger' \in Journals
          /\ cooldown' \in [Valves -> [Categories -> Nat]]
          /\ stopped' \in [Valves -> [Categories -> Times]]
          /\ closeFault' \in BOOLEAN /\ inhibited' \in BOOLEAN
      BY <1>1, <1>3, <2>5, StopAllType
    <3>3. QED
      BY <1>2, <2>5, <3>1, <3>2 DEF BodyTyped
  <2>6. QED
    BY <2>1, <2>2, <2>3, <2>4, <2>5 DEF TickRuns
<1>6. QED
  BY <1>4, <1>5, TypeParts, PTL

\* Every tick keeps the type invariant.
LEMMA TickType ==
    ASSUME ControllerAssumption, TypeOK, NEW d \in Nat, Tick(d)
    PROVE  TypeOK'
<1> PICK bad \in SUBSET Faulty, sync \in {synced, TRUE}, skew \in Skews :
        LET ep == IF sync THEN (now + d) + skew ELSE 0
        IN  ep >= 0 /\ (TickRuns(d, bad, sync, ep) \/ TickBoots(d, bad, sync, ep))
  BY TickCases
<1> DEFINE ep == IF sync THEN (now + d) + skew ELSE 0
           t == now + d
           g == AtLeast0(grace - d)
           stamp == StampOf(sync, ep)
           a == NoneDue(d, sync, ep)
           b == SomeDue(bad, d, sync, ep)
<1>1. ep >= 0 /\ (TickRuns(d, bad, sync, ep) \/ TickBoots(d, bad, sync, ep))
  OBVIOUS
<1>2. ep \in Nat
  <2>1. now + d \in Int /\ skew \in Int
    BY DEF TypeOK, ControllerAssumption
  <2>2. QED
    BY <1>1, <2>1
<1>3. sync \in BOOLEAN /\ t \in Nat
  <2>1. synced \in BOOLEAN
    BY DEF TypeOK
  <2>2. sync \in BOOLEAN
    BY <2>1, Zenon
  <2>3. QED
    BY <2>2 DEF TypeOK
<1> HIDE DEF ep, stamp, a, b
<1>4. a \in Snapshots /\ b \in Snapshots /\ b.L \in Journals /\ stamp \in Stamps
  BY <1>2, <1>3, SnapshotsTyped DEF stamp, a, b
<1>5. ASSUME TickBoots(d, bad, sync, ep)
      PROVE  TypeOK'
  <2>1. ASSUME NEW c \in Snapshots, MayStart(c, g)
        PROVE  StartRecord(c, t, stamp) \in Journals
    BY <1>3, <1>4, <2>1, StartRecordType, TypeParts DEF MayStart
  <2>2. QED
    BY <1>3, <1>4, <1>5, <2>1, BootType DEF TickBoots, stamp, a, b
<1>6. QED
  BY <1>1, <1>2, <1>3, <1>5, TickRunsType

-----------------------------------------------------------------------------
(* The other handlers. *)

\* The body of a stop that does not boot the machine, typed.
LEMMA StopBody ==
    ASSUME ControllerAssumption, TypeOK, NEW a \in Snapshots, NEW bad,
           NEW stamp \in Stamps, NEW fault, StopAll(a, bad, now, stamp, fault),
           disk' \in Journals, damaged' \in BOOLEAN, paused' \in BOOLEAN,
           UNCHANGED <<now, grace, clock, started, served>>
    PROVE  TypeOK'
<1>1. now \in Nat
  BY DEF TypeOK
<1>2. /\ queue' \in Seq(Entries) /\ session' \in Sessions
      /\ valve' \in [Valves -> ValveObjects] /\ pin' \in [Valves -> BOOLEAN]
      /\ ledger' \in Journals
      /\ cooldown' \in [Valves -> [Categories -> Nat]]
      /\ stopped' \in [Valves -> [Categories -> Times]]
      /\ closeFault' \in BOOLEAN /\ inhibited' \in BOOLEAN
  BY <1>1, StopAllType
<1>3. QED
  BY <1>2 DEF TypeOK, clock

\* An order of a set of valves is a sequence, a batch of it a queue.
LEMMA OrderType ==
    ASSUME ControllerAssumption, NEW S \in SUBSET Valves, NEW names \in Orders(S)
    PROVE  names \in Seq(Valves)
<1>1. Cardinality(S) \in Nat
  BY FS_Subset, FS_CardinalityType DEF ControllerAssumption
<1>2. QED
  BY <1>1, SMTT(40) DEF Orders

\* It names every member.
LEMMA OrderCovers ==
    ASSUME ControllerAssumption, NEW S \in SUBSET Valves, NEW names \in Orders(S), NEW v \in S
    PROVE  \E i \in DOMAIN names : names[i] = v
<1>1. IsFiniteSet(S) /\ Cardinality(S) \in Nat
  BY FS_Subset, FS_CardinalityType DEF ControllerAssumption
<1>2. names \in Injection(1 .. Cardinality(S), S) /\ DOMAIN names = 1 .. Cardinality(S)
  BY DEF Orders, Injection, IsInjective
<1>3. IsFiniteSet(1 .. Cardinality(S)) /\ Cardinality(1 .. Cardinality(S)) = Cardinality(S)
  BY <1>1, FS_Interval
<1>4. names \in Surjection(1 .. Cardinality(S), S)
  BY <1>1, <1>2, <1>3, FS_Injection
<1>5. QED
  BY <1>2, <1>4 DEF Surjection

\* A batch over a sequence of valves is a queue.
LEMMA BatchType ==
    ASSUME NEW names \in Seq(Valves), NEW dur \in 1 .. MaxOpen, NEW reason \in Reasons,
           NEW occ \in {<<>>} \cup (Schedules \X Nat)
    PROVE  Batch(names, dur, reason, occ) \in Seq(Entries)
<1>1. DOMAIN names = 1 .. Len(names) /\ Len(names) \in Nat
  OBVIOUS
<1>2. \A i \in 1 .. Len(names) :
        [name |-> names[i], dur |-> dur, reason |-> reason, occ |-> occ] \in Entries
  BY DEF Entries
<1>3. QED
  BY <1>1, <1>2 DEF Batch

\* enqueue takes the batch of an occurrence that fits.
LEMMA FireEnqueues ==
    ASSUME ControllerAssumption, NEW s \in Schedules, queue \in Seq(Entries), Fits(s),
           NEW names \in Orders(Targets[s]), NEW dur, NEW reason, NEW occ
    PROVE  Enqueued(Batch(names, dur, reason, occ)) = queue \o Batch(names, dur, reason, occ)
<1>1. Cardinality(Targets[s]) \in Nat
  BY FS_Subset, FS_CardinalityType DEF ControllerAssumption
<1>2. DOMAIN names = 1 .. Cardinality(Targets[s])
  BY DEF Orders
<1>3. Len(Batch(names, dur, reason, occ)) = Cardinality(Targets[s])
  BY <1>1, <1>2 DEF Batch
<1>4. QED
  BY <1>3 DEF Enqueued, Fits

\* A run asked for by the API keeps the type invariant.
LEMMA WaterType ==
    ASSUME ControllerAssumption, TypeOK, NEW r \in Requests, Water(r.names, r.dur)
    PROVE  TypeOK'
<1>1. r.names \in Seq(Valves) /\ r.dur \in 1 .. MaxOpen
  BY DEF ControllerAssumption
<1>2. Batch(r.names, r.dur, "manual", <<>>) \in Seq(Entries)
  BY <1>1, BatchType DEF Reasons
<1>3. queue' \in Seq(Entries)
  BY <1>2 DEF Water, TypeOK
<1>4. session' \in Sessions
  BY NoSessionType DEF Water
<1>5. QED
  BY <1>3, <1>4 DEF Water, TypeOK, control, world, books, clock, outputs, flash, history

\* Firing a schedule keeps the type invariant, committed, refused or cut by a power loss.
LEMMA FireScheduleType ==
    ASSUME ControllerAssumption, TypeOK, NEW s \in Schedules, FireSchedule(s)
    PROVE  TypeOK'
<1> DEFINE L == [ledger EXCEPT !.fired[s] = nowEpoch]
           a == [Snapshot EXCEPT !.L = L]
           stamp == StampOf(synced, nowEpoch)
<1>1. L \in Journals
  BY DEF TypeOK, Journals, Times
<1>2. a \in Snapshots
  BY <1>1, SnapshotType DEF Snapshots
<1>3. stamp \in Stamps
  BY StampOfType DEF TypeOK
<1>4. BodyTyped
  BY TypeParts
<1> HIDE DEF L, a, stamp
<1>5. ASSUME UNCHANGED flash \/ Commit(L),
             ledger' = L,
             NEW names \in Orders(Targets[s]),
             queue' = queue \o Batch(names, RunLength, "schedule", <<s, nowEpoch>>),
             session' = IF Targets[s] = {} THEN session ELSE NoSession,
             UNCHANGED <<now, cooldown, control, clock, outputs, history>>
      PROVE  TypeOK'
  <2>1. names \in Seq(Valves)
    BY OrderType DEF ControllerAssumption
  <2>2. Batch(names, RunLength, "schedule", <<s, nowEpoch>>) \in Seq(Entries)
    BY <2>1, BatchType DEF Reasons, TypeOK, ControllerAssumption
  <2>3. queue' \in Seq(Entries)
    BY <1>5, <2>2 DEF TypeOK
  <2>4. session' \in Sessions
    BY <1>5, NoSessionType DEF TypeOK
  <2>5. disk' \in Journals /\ damaged' \in BOOLEAN
    BY <1>1, <1>4, <1>5, FlashType DEF BodyTyped, flash
  <2>6. QED
    BY <1>1, <1>5, <2>3, <2>4, <2>5 DEF TypeOK, control, clock, outputs, history
<1>6. ASSUME CommitFails(L), NEW bad, StopAll(a, bad, now, stamp, TRUE),
             UNCHANGED <<now, paused, grace, clock, started, served>>
      PROVE  TypeOK'
  <2>1. disk' \in Journals /\ damaged' \in BOOLEAN
    BY <1>1, <1>4, <1>6, FlashType
  <2>2. paused' \in BOOLEAN
    BY <1>6 DEF TypeOK
  <2>3. QED
    BY <1>2, <1>3, <1>6, <2>1, <2>2, StopBody
<1>7. ASSUME Boot(now, L, FALSE)
      PROVE  TypeOK'
  BY <1>1, <1>7, BootType DEF TypeOK
<1>8. QED
  BY <1>5, <1>6, <1>7, FireEnqueues DEF FireSchedule, TypeOK, L, a, stamp

\* Another moisture cycle keeps the type invariant.
LEMMA NextCycleType ==
    ASSUME ControllerAssumption, TypeOK, NextCycle
    PROVE  TypeOK'
<1>1. session' \in Sessions
  <2>1. session' = [session EXCEPT !.cycles = @ + 1, !.closed = Never]
    BY DEF NextCycle
  <2>2. session \in Sessions
    BY DEF TypeOK
  <2>3. session.valves \in Seq(Valves) /\ session.cycles + 1 \in Nat /\ Never \in Times
    BY <2>2 DEF Sessions, Times
  <2>4. session' = [valves |-> session.valves, cycles |-> session.cycles + 1, closed |-> Never]
    BY <2>1, <2>2 DEF Sessions
  <2>5. QED
    BY <2>3, <2>4 DEF Sessions
<1>2. session.valves \in Seq(Valves)
  BY DEF TypeOK, Sessions
<1>3. queue' \in Seq(Entries)
  BY <1>2, BatchType DEF NextCycle, Reasons, ControllerAssumption
<1>4. QED
  BY <1>1, <1>3 DEF NextCycle, TypeOK, control, world, books, clock, outputs, flash, history

\* A new moisture session keeps the type invariant.
LEMMA NewSessionType ==
    ASSUME ControllerAssumption, TypeOK, NEW z \in Zones, NewSession(z)
    PROVE  TypeOK'
<1> PICK names \in Orders(Runnable(z)) :
        /\ session' = [valves |-> names, cycles |-> 1, closed |-> Never]
        /\ queue' = Batch(names, RunLength, "moisture", <<>>)
  BY DEF NewSession
<1>1. Runnable(z) \in SUBSET Valves
  BY DEF Runnable, ControllerAssumption
<1>2. names \in Seq(Valves)
  BY <1>1, OrderType
<1>3. session' \in Sessions
  BY <1>2 DEF Sessions, Times
<1>4. queue' \in Seq(Entries)
  BY <1>2, BatchType DEF Reasons, ControllerAssumption
<1>5. QED
  BY <1>3, <1>4 DEF NewSession, TypeOK, control, world, books, clock, outputs, flash, history

\* Stopping everything keeps the type invariant.
LEMMA StopType ==
    ASSUME ControllerAssumption, TypeOK, Stop
    PROVE  TypeOK'
<1> DEFINE stamp == StampOf(synced, nowEpoch)
           L == Recorded(ledger, valve, Open(valve), stamp)
<1>1. stamp \in Stamps
  BY StampOfType DEF TypeOK
<1>2. L \in Journals
  BY <1>1, RecordedType DEF TypeOK
<1>3. BodyTyped /\ Snapshot \in Snapshots /\ now \in Nat
  BY TypeParts, SnapshotType DEF TypeOK
<1> HIDE DEF L, stamp
<1>4. ASSUME NEW bad, StopAll(Snapshot, bad, now, stamp, FALSE),
             UNCHANGED <<now, paused, grace, clock, flash, started, served>>
      PROVE  TypeOK'
  <2>1. disk' \in Journals /\ damaged' \in BOOLEAN
    BY <1>3, <1>4 DEF BodyTyped, flash
  <2>2. paused' \in BOOLEAN
    BY <1>4 DEF TypeOK
  <2>3. QED
    BY <1>1, <1>3, <1>4, <2>1, <2>2, StopBody
<1>5. ASSUME NEW fault, StopAll(Snapshot, {}, now, stamp, fault),
             Commit(L) \/ CommitFails(L), paused' \in {paused, TRUE},
             UNCHANGED <<now, grace, clock, started, served>>
      PROVE  TypeOK'
  <2>1. disk' \in Journals /\ damaged' \in BOOLEAN
    BY <1>2, <1>3, <1>5, FlashType
  <2>2. paused \in BOOLEAN
    BY DEF TypeOK
  <2>3. paused' \in BOOLEAN
    BY <1>5, <2>2, Zenon
  <2>4. QED
    BY <1>1, <1>3, <1>5, <2>1, <2>3, StopBody
<1>6. ASSUME Boot(now, L, FALSE)
      PROVE  TypeOK'
  BY <1>2, <1>3, <1>6, BootType
<1>7. QED
  BY <1>4, <1>5, <1>6 DEF Stop, L, stamp

\* Every step keeps the type invariant.
LEMMA NextType ==
    ASSUME ControllerAssumption, TypeOK, [Next]_vars
    PROVE  TypeOK'
<1>1. ASSUME NEW d \in 0 .. MaxSlice, Tick(d) PROVE TypeOK'
  BY <1>1, TickType DEF ControllerAssumption
<1>2. ASSUME MoistureHeld \/ EndSession PROVE TypeOK'
  BY <1>2, NoSessionType DEF MoistureHeld, EndSession, TypeOK, control, world, books,
     clock, outputs, flash, history
<1>3. ASSUME Pause \/ Resume PROVE TypeOK'
  BY <1>3 DEF Pause, Resume, TypeOK, world, books, clock, outputs, flash, history
<1>4. ASSUME PowerLoss PROVE TypeOK'
  BY <1>4, BootType DEF PowerLoss, TypeOK
<1>5. ASSUME MediaFault PROVE TypeOK'
  BY <1>5 DEF MediaFault, TypeOK, control, books, clock, outputs, history
<1>6. ASSUME UNCHANGED vars PROVE TypeOK'
  BY <1>6 DEF TypeOK, vars, control, world, books, clock, outputs, flash, history
<1>7. QED
  BY <1>1, <1>2, <1>3, <1>4, <1>5, <1>6, WaterType, FireScheduleType, NextCycleType,
     NewSessionType, StopType DEF Next

\* Power-up on a fresh flash is typed.
LEMMA InitType == ControllerAssumption /\ Init => TypeOK
<1> SUFFICES ASSUME ControllerAssumption, Init
             PROVE  TypeOK
  OBVIOUS
<1>1. now \in Nat /\ grace \in Nat /\ nowEpoch \in Nat
  BY DEF Init, ControllerAssumption
<1>2. /\ inhibited \in BOOLEAN /\ paused \in BOOLEAN /\ closeFault \in BOOLEAN
      /\ synced \in BOOLEAN /\ restored \in BOOLEAN /\ damaged \in BOOLEAN
  BY DEF Init
<1>3. queue \in Seq(Entries) /\ session \in Sessions
  BY NoSessionType DEF Init
<1>4. ledger \in Journals /\ disk \in Journals
  BY EmptyJournalType DEF Init
<1>5. valve \in [Valves -> ValveObjects] /\ pin \in [Valves -> BOOLEAN]
  BY ClosedValveType DEF Init
<1>6. /\ cooldown \in [Valves -> [Categories -> Nat]]
      /\ started \in [Valves -> [Categories -> Times]]
      /\ stopped \in [Valves -> [Categories -> Times]]
      /\ served \in [Valves -> [Schedules -> Times]]
  BY DEF Init, Times
<1>7. QED
  BY <1>1, <1>2, <1>3, <1>4, <1>5, <1>6 DEF TypeOK

\* Every variable of the controller keeps its type, whatever the configuration.
THEOREM TypeCorrect == Spec => []TypeOK
<1>1. ControllerAssumption
  BY ControllerAssumption
<1>2. QED
  BY <1>1, InitType, NextType, PTL DEF Spec

-----------------------------------------------------------------------------
(***************************************************************************)
(* The outputs are accounted for: only an open valve object is energized,  *)
(* one at most is open, and the journal in RAM, with the one on flash if   *)
(* it parses, has a record of its run.  OneAtATime and IntentDurable speak *)
(* of outputs; the handlers look at valve objects and write the journal of *)
(* RAM, so neither is inductive without the other parts of this one.       *)
(***************************************************************************)
Known(vs, D) == \A v \in Valves : vs[v].open => D.stamp[v][Category(vs[v].reason)] # Absent
Accounted(vs, ps, L, D, unreadable) ==
    /\ \A v \in Valves : ps[v] => vs[v].open
    /\ \A v, w \in Valves : vs[v].open /\ vs[w].open => v = w
    /\ Known(vs, L)
    /\ unreadable \/ Known(vs, D)
OutputsAccounted == Accounted(valve, pin, ledger, disk, damaged)

\* Recording a run never removes a record.
LEMMA RecordedKeeps ==
    ASSUME NEW vs, NEW L \in Journals, NEW rs, NEW S, NEW stamp,
           stamp # Absent, Known(vs, L)
    PROVE  Known(vs, Recorded(L, rs, S, stamp))
BY DEF Known, Recorded, Journals, Category, Categories

\* A stamp that is recorded is never the absence of one.
LEMMA StampPresent ==
    ASSUME NEW sy, NEW ep \in Nat
    PROVE  StampOf(sy, ep) # Absent
BY DEF StampOf, Unknown, Absent

\* What is on flash after a commit that succeeds, or fails, knows the open valves.
LEMMA FlashKnows ==
    ASSUME NEW vs, NEW L, Known(vs, L), damaged \/ Known(vs, disk),
           Commit(L) \/ CommitFails(L) \/ UNCHANGED flash
    PROVE  damaged' \/ Known(vs, disk')
<1>1. CASE Commit(L)
  BY <1>1 DEF Commit, Known
<1>2. CASE UNCHANGED flash
  BY <1>2 DEF flash, Known
<1>3. QED
  BY <1>1, <1>2 DEF CommitFails

\* stop_all leaves open only valves that were open.
LEMMA StopAllAccounts ==
    ASSUME NEW a \in Snapshots, NEW bad, NEW t, NEW stamp, NEW fault, stamp # Absent,
           Accounted(a.vs, a.ps, a.L, disk', damaged'), StopAll(a, bad, t, stamp, fault)
    PROVE  OutputsAccounted'
<1>1. /\ valve' = [v \in Valves |-> IF v \in bad THEN a.vs[v] ELSE ClosedValve]
      /\ pin' = [v \in Valves |-> v \in bad /\ a.ps[v]]
      /\ ledger' = Recorded(a.L, a.vs, Open(a.vs) \ bad, stamp)
  BY DEF StopAll
<1>2. \A v \in Valves : valve'[v].open => v \in bad /\ valve'[v] = a.vs[v]
  BY <1>1 DEF ClosedValve
<1>3. Known(a.vs, ledger')
  BY <1>1, RecordedKeeps DEF Snapshots, Accounted
<1>4. \A v \in Valves : pin'[v] => valve'[v].open
  BY <1>1 DEF Accounted
<1>5. \A v, w \in Valves : valve'[v].open /\ valve'[w].open => v = w
  BY <1>2 DEF Accounted
<1>6. Known(valve', ledger') /\ (damaged' \/ Known(valve', disk'))
  BY <1>2, <1>3 DEF Known, Accounted
<1>7. QED
  BY <1>4, <1>5, <1>6 DEF OutputsAccounted, Accounted

\* Power-up closes every output.
LEMMA BootAccounts ==
    ASSUME NEW t, NEW D, NEW unreadable, Boot(t, D, unreadable)
    PROVE  OutputsAccounted'
BY DEF Boot, OutputsAccounted, Accounted, Known, ClosedValve

\* A tick in which nothing starts.
LEMMA HoldAccounts ==
    ASSUME NEW a, NEW D, NEW unreadable, NEW t, NEW g,
           Accounted(a.vs, a.ps, a.L, D, unreadable), Hold(a, D, unreadable, t, g)
    PROVE  OutputsAccounted'
BY DEF Hold, OutputsAccounted, Accounted, Known

\* Starting the head of the queue: nothing is open, and its record precedes it.
LEMMA StartHeadAccounts ==
    ASSUME ControllerAssumption, BodyTyped, NEW a \in Snapshots, NEW bad,
           NEW t \in Nat, NEW stamp \in Stamps, NEW g, stamp # Absent,
           Accounted(a.vs, a.ps, a.L, disk, damaged) \/ Known(a.vs, a.L),
           \A v \in Valves : a.ps[v] => a.vs[v].open,
           StartHead(a, bad, t, stamp, g)
    PROVE  OutputsAccounted'
<1> DEFINE e == Head(queue)
           vs == Opened(a.vs, e, t)
           b == [a EXCEPT !.L = StartRecord(a, t, stamp), !.cd = Cooled(a.cd, vs, {e.name})]
           lit(x) == [b EXCEPT !.vs = vs, !.ps[e.name] = x]
<1>1. queue # <<>> /\ \A v \in Valves : ~a.vs[v].open /\ ~a.ps[v]
  BY DEF StartHead, MayStart, AnyOpen, Open
<1>2. e.name \in Valves /\ e.reason \in Reasons
  BY <1>1, HeadType DEF BodyTyped
<1>3. /\ b \in Snapshots /\ b.vs = a.vs /\ b.ps = a.ps /\ b.L = StartRecord(a, t, stamp)
      /\ \A x \in BOOLEAN : lit(x) \in Snapshots
  BY <1>1, StartRecordType DEF Snapshots
<1>4. \A v \in Valves : vs[v].open => v = e.name
  BY <1>1, <1>2 DEF Opened, Snapshots
<1>5. Known(vs, b.L)
  <2>1. vs[e.name].reason = e.reason
    BY <1>2 DEF Opened, Snapshots
  <2>2. b.L.stamp[e.name][Category(e.reason)] = stamp
    BY <1>2, <1>3, <2>1 DEF StartRecord, Recorded, Snapshots, Journals, Category, Categories
  <2>3. QED
    BY <1>4, <2>1, <2>2 DEF Known
<1> HIDE DEF b, vs
<1>6. ASSUME Commit(b.L), valve' = vs, pin' = [a.ps EXCEPT ![e.name] = TRUE], ledger' = b.L
      PROVE  OutputsAccounted'
  <2>1. \A v \in Valves : pin'[v] => v = e.name
    BY <1>1, <1>2, <1>6 DEF Snapshots
  <2>2. vs[e.name].open
    BY <1>2 DEF vs, Opened, Snapshots
  <2>3. disk' = b.L
    BY <1>6 DEF Commit
  <2>4. QED
    BY <1>4, <1>5, <1>6, <2>1, <2>2, <2>3 DEF OutputsAccounted, Accounted
<1>7. ASSUME CommitFails(b.L), StopAll(b, bad, t, stamp, TRUE)
      PROVE  OutputsAccounted'
  <2>1. Accounted(b.vs, b.ps, b.L, disk', damaged')
    BY <1>1, <1>3 DEF Accounted, Known
  <2>2. QED
    BY <1>3, <1>7, <2>1, StopAllAccounts
<1>8. ASSUME Commit(b.L), NEW x \in BOOLEAN, StopAll(lit(x), bad, t, stamp, TRUE)
      PROVE  OutputsAccounted'
  <2>1. lit(x).vs = vs /\ lit(x).L = b.L /\ lit(x).ps = [b.ps EXCEPT ![e.name] = x]
    <3> DEFINE r == [b EXCEPT !.vs = vs]
    <3>1. r.vs = vs /\ r.L = b.L /\ r.ps = b.ps /\ DOMAIN r = {"vs", "ps", "L", "cd", "ends"}
      BY <1>3 DEF Snapshots
    <3>2. lit(x) = [r EXCEPT !.ps = [b.ps EXCEPT ![e.name] = x]]
      BY <3>1
    <3> HIDE DEF r, lit
    <3>3. QED
      BY <3>1, <3>2
  <2>2. \A v \in Valves : lit(x).ps[v] => v = e.name
    <3> HIDE DEF lit
    <3>1. lit(x).ps = [a.ps EXCEPT ![e.name] = x] /\ a.ps \in [Valves -> BOOLEAN]
      BY <1>3, <2>1 DEF Snapshots
    <3>2. QED
      BY <1>1, <1>2, <3>1
  <2>3. vs[e.name].open
    BY <1>2 DEF vs, Opened, Snapshots
  <2>4. disk' = b.L
    BY <1>8 DEF Commit
  <2>5. Accounted(lit(x).vs, lit(x).ps, lit(x).L, disk', damaged')
    BY <1>4, <1>5, <2>1, <2>2, <2>3, <2>4 DEF Accounted
  <2>6. QED
    BY <1>3, <1>8, <2>5, StopAllAccounts
<1>9. QED
  BY <1>6, <1>7, <1>8 DEF StartHead, b, vs


\* A tick: closing the expired valves, and then a start, keeps the account.
LEMMA TickAccounts ==
    ASSUME ControllerAssumption, TypeOK, OutputsAccounted, NEW d \in Nat, Tick(d)
    PROVE  OutputsAccounted'
<1> PICK bad \in SUBSET Faulty, sync \in {synced, TRUE}, skew \in Skews :
        LET ep == IF sync THEN (now + d) + skew ELSE 0
        IN  ep >= 0 /\ (TickRuns(d, bad, sync, ep) \/ TickBoots(d, bad, sync, ep))
  BY TickCases
<1> DEFINE ep == IF sync THEN (now + d) + skew ELSE 0
           t == now + d
           g == AtLeast0(grace - d)
           stamp == StampOf(sync, ep)
           shut == Shut(bad, t)
           a == NoneDue(d, sync, ep)
           b == SomeDue(bad, d, sync, ep)
<1>1. ep >= 0 /\ (TickRuns(d, bad, sync, ep) \/ TickBoots(d, bad, sync, ep))
  OBVIOUS
<1>2. ep \in Nat /\ t \in Nat
  <2>1. now \in Nat /\ skew \in Int
    BY DEF TypeOK, ControllerAssumption
  <2>2. QED
    BY <1>1, <2>1
<1>3. sync \in BOOLEAN
  <2>1. synced \in BOOLEAN
    BY DEF TypeOK
  <2>2. QED
    BY <2>1, Zenon
<1> HIDE DEF ep
<1>4. a \in Snapshots /\ b \in Snapshots /\ stamp \in Stamps /\ stamp # Absent
  BY <1>2, <1>3, SnapshotsTyped, StampPresent
<1>5. a.vs = valve /\ a.ps = pin /\ a.L = ledger
  BY DEF NoneDue, Snapshot
<1>6. /\ b.vs = [v \in Valves |-> IF v \in shut THEN ClosedValve ELSE valve[v]]
      /\ b.ps = [v \in Valves |-> pin[v] /\ v \notin shut]
      /\ b.L = Recorded(ledger, valve, shut, stamp)
  BY DEF SomeDue
<1> HIDE DEF a, b, stamp, shut
<1>7. Accounted(a.vs, a.ps, a.L, disk, damaged)
  BY <1>5 DEF OutputsAccounted
<1>8. Known(valve, b.L)
  BY <1>4, <1>6, <1>7, RecordedKeeps DEF OutputsAccounted, Accounted, TypeOK
<1>9. \A v \in Valves : b.vs[v].open => b.vs[v] = valve[v]
  BY <1>6 DEF ClosedValve
<1>10. /\ \A v \in Valves : b.ps[v] => b.vs[v].open
       /\ \A v, w \in Valves : b.vs[v].open /\ b.vs[w].open => v = w
       /\ Known(b.vs, b.L)
  BY <1>6, <1>8, <1>9 DEF OutputsAccounted, Accounted, Known
<1>11. Accounted(b.vs, b.ps, b.L, b.L, FALSE)
  BY <1>10 DEF Accounted
<1>12. BodyTyped
  BY TypeParts
<1>13. ASSUME Hold(a, disk, damaged, t, g) PROVE OutputsAccounted'
  BY <1>7, <1>13, HoldAccounts
<1>14. ASSUME StartHead(a, bad, t, stamp, g) PROVE OutputsAccounted'
  BY <1>2, <1>4, <1>7, <1>12, <1>14, StartHeadAccounts DEF Accounted
<1>15. ASSUME Hold(b, b.L, FALSE, t, g) PROVE OutputsAccounted'
  BY <1>11, <1>15, HoldAccounts
<1>16. ASSUME StartHead(b, bad, t, stamp, g) PROVE OutputsAccounted'
  BY <1>2, <1>4, <1>10, <1>12, <1>16, StartHeadAccounts
<1>17. ASSUME UNCHANGED flash \/ CommitFails(b.L), StopAll(b, bad, t, stamp, TRUE)
       PROVE  OutputsAccounted'
  <2>1. damaged \/ Known(b.vs, disk)
    BY <1>9 DEF OutputsAccounted, Accounted, Known
  <2>2. damaged' \/ Known(b.vs, disk')
    BY <1>10, <1>17, <2>1, FlashKnows
  <2>3. Accounted(b.vs, b.ps, b.L, disk', damaged')
    BY <1>10, <2>2 DEF Accounted
  <2>4. QED
    BY <1>4, <1>17, <2>3, StopAllAccounts
<1>18. ASSUME TickBoots(d, bad, sync, ep) PROVE OutputsAccounted'
  BY <1>18, BootAccounts DEF TickBoots
<1>19. ASSUME TickRuns(d, bad, sync, ep) PROVE OutputsAccounted'
  BY <1>13, <1>14, <1>15, <1>16, <1>17, <1>19 DEF TickRuns, a, b, stamp, shut
<1>20. QED
  BY <1>1, <1>18, <1>19 DEF ep

\* Firing a schedule commits a journal with the stamps of the one in RAM.
LEMMA FireScheduleAccounts ==
    ASSUME ControllerAssumption, TypeOK, OutputsAccounted, NEW s \in Schedules,
           FireSchedule(s)
    PROVE  OutputsAccounted'
<1> DEFINE L == [ledger EXCEPT !.fired[s] = nowEpoch]
           a == [Snapshot EXCEPT !.L = L]
           stamp == StampOf(synced, nowEpoch)
<1>1. L \in Journals /\ L.stamp = ledger.stamp
  BY DEF TypeOK, Journals, Times
<1>2. a \in Snapshots /\ a.vs = valve /\ a.ps = pin /\ a.L = L
  BY <1>1, SnapshotType DEF Snapshots, Snapshot
<1>3. stamp # Absent
  BY StampPresent DEF TypeOK
<1> HIDE DEF L, a, stamp
<1>4. Known(valve, L)
  BY <1>1 DEF OutputsAccounted, Accounted, Known
<1>5. ASSUME Commit(L) \/ CommitFails(L) \/ UNCHANGED flash
      PROVE  Accounted(valve, pin, L, disk', damaged')
  BY <1>4, <1>5, FlashKnows DEF OutputsAccounted, Accounted
<1>6. ASSUME UNCHANGED flash \/ Commit(L), ledger' = L, UNCHANGED outputs
      PROVE  OutputsAccounted'
  <2>1. valve' = valve /\ pin' = pin
    BY <1>6 DEF outputs
  <2>2. Accounted(valve, pin, L, disk', damaged')
    BY <1>5, <1>6
  <2>3. QED
    BY <1>6, <2>1, <2>2 DEF OutputsAccounted
<1>7. ASSUME CommitFails(L), NEW bad, StopAll(a, bad, now, stamp, TRUE)
      PROVE  OutputsAccounted'
  BY <1>2, <1>3, <1>5, <1>7, StopAllAccounts
<1>8. QED
  BY <1>6, <1>7, BootAccounts DEF FireSchedule, L, a, stamp

\* Stopping everything, committed or not.
LEMMA StopAccounts ==
    ASSUME ControllerAssumption, TypeOK, OutputsAccounted, Stop
    PROVE  OutputsAccounted'
<1> DEFINE stamp == StampOf(synced, nowEpoch)
           L == Recorded(ledger, valve, Open(valve), stamp)
<1>1. stamp # Absent
  BY StampPresent DEF TypeOK
<1>2. Snapshot \in Snapshots /\ Snapshot.vs = valve /\ Snapshot.ps = pin /\ Snapshot.L = ledger
  BY SnapshotType DEF Snapshot
<1>3. Known(valve, ledger) /\ Known(valve, L)
  BY <1>1, RecordedKeeps DEF OutputsAccounted, Accounted, TypeOK
<1> HIDE DEF L, stamp
<1>4. ASSUME Commit(L) \/ CommitFails(L) \/ UNCHANGED flash, NEW bad, NEW fault,
             StopAll(Snapshot, bad, now, stamp, fault)
      PROVE  OutputsAccounted'
  <2>1. damaged' \/ Known(valve, disk')
    BY <1>3, <1>4, FlashKnows DEF OutputsAccounted, Accounted
  <2>2. Accounted(valve, pin, ledger, disk', damaged')
    BY <1>3, <2>1 DEF OutputsAccounted, Accounted
  <2>3. QED
    BY <1>1, <1>2, <1>4, <2>2, StopAllAccounts
<1>5. QED
  BY <1>4, BootAccounts DEF Stop, L, stamp

\* Every step keeps the outputs accounted for.
LEMMA NextAccounts ==
    ASSUME ControllerAssumption, TypeOK, OutputsAccounted, [Next]_vars
    PROVE  OutputsAccounted'
<1>1. ASSUME NEW d \in 0 .. MaxSlice, Tick(d) PROVE OutputsAccounted'
  BY <1>1, TickAccounts DEF ControllerAssumption
<1>2. ASSUME UNCHANGED <<ledger, outputs, flash>> PROVE OutputsAccounted'
  BY <1>2 DEF OutputsAccounted, Accounted, Known, outputs, flash
<1>3. ASSUME \/ \E r \in Requests : Water(r.names, r.dur)
             \/ MoistureHeld \/ EndSession \/ NextCycle
             \/ \E z \in Zones : NewSession(z)
             \/ Pause \/ Resume \/ UNCHANGED vars
      PROVE  UNCHANGED <<ledger, outputs, flash>>
  BY <1>3 DEF Water, MoistureHeld, EndSession, NextCycle, NewSession, Pause, Resume, vars,
     world, books
<1>4. ASSUME PowerLoss PROVE OutputsAccounted'
  BY <1>4, BootAccounts DEF PowerLoss
<1>5. ASSUME MediaFault PROVE OutputsAccounted'
  BY <1>5 DEF MediaFault, OutputsAccounted, Accounted, Known, outputs, books
<1>6. QED
  BY <1>1, <1>2, <1>3, <1>4, <1>5, FireScheduleAccounts, StopAccounts DEF Next

\* The outputs are accounted for in every state of every configuration.
THEOREM AlwaysAccounted == Spec => []OutputsAccounted
<1>1. ControllerAssumption
  BY ControllerAssumption
<1>2. Init => OutputsAccounted
  BY DEF Init, OutputsAccounted, Accounted, Known, ClosedValve
<1>3. TypeOK /\ OutputsAccounted /\ [Next]_vars => OutputsAccounted'
  BY <1>1, NextAccounts
<1>4. QED
  BY <1>2, <1>3, TypeCorrect, PTL DEF Spec

\* Never are two solenoids energized at once.
THEOREM OneValveAtATime == Spec => []OneAtATime
<1>1. OutputsAccounted => OneAtATime
  BY DEF OutputsAccounted, Accounted, OneAtATime
<1>2. QED
  BY <1>1, AlwaysAccounted, PTL

\* A run is on flash before its output is energized.
THEOREM DurableBeforeEnergized == Spec => []IntentDurable
<1>1. OutputsAccounted => IntentDurable
  BY DEF OutputsAccounted, Accounted, Known, IntentDurable
<1>2. QED
  BY <1>1, AlwaysAccounted, PTL

-----------------------------------------------------------------------------
(* Faults and holds: what quiets the controller. *)

\* Nothing is queued, and only an output that failed to close is energized.
Quiet == /\ queue = <<>> /\ session = NoSession
         /\ \A v \in Valves : pin[v] => closeFault
Calm == /\ inhibited \/ paused => Quiet
        /\ closeFault => inhibited

\* stop_all and a restart quiet the controller.
LEMMA StopAllCalms ==
    ASSUME NEW a, NEW bad, NEW t, NEW stamp, NEW fault, closeFault => inhibited,
           StopAll(a, bad, t, stamp, fault)
    PROVE  Calm'
BY DEF StopAll, Calm, Quiet

LEMMA BootCalms ==
    ASSUME NEW t, NEW D, NEW unreadable, Boot(t, D, unreadable)
    PROVE  Calm'
BY DEF Boot, Calm, Quiet

\* A tick starts runs only if nothing holds it.
LEMMA HoldCalms ==
    ASSUME Calm, NEW a, NEW D, NEW unreadable, NEW t, NEW g,
           \A v \in Valves : a.ps[v] => pin[v],
           Hold(a, D, unreadable, t, g), paused' = paused
    PROVE  Calm'
BY DEF Hold, Drained, Calm, Quiet

LEMMA StartCalms ==
    ASSUME Calm, NEW a, NEW bad, NEW t, NEW stamp, NEW g,
           StartHead(a, bad, t, stamp, g), paused' = paused
    PROVE  Calm'
<1>1. ~inhibited /\ ~paused
  BY DEF StartHead, MayStart
<1>2. CASE UNCHANGED <<session, inhibited, closeFault>>
  BY <1>1, <1>2 DEF Calm
<1>3. CASE \E b : StopAll(b, bad, t, stamp, TRUE)
  BY <1>3, StopAllCalms DEF Calm
<1>4. QED
  BY <1>2, <1>3, Zenon DEF StartHead

LEMMA TickCalms ==
    ASSUME Calm, NEW d, Tick(d)
    PROVE  Calm'
<1> PICK bad \in SUBSET Faulty, sync \in {synced, TRUE}, skew \in Skews :
        LET ep == IF sync THEN (now + d) + skew ELSE 0
        IN  ep >= 0 /\ (TickRuns(d, bad, sync, ep) \/ TickBoots(d, bad, sync, ep))
  BY TickCases
<1> DEFINE ep == IF sync THEN (now + d) + skew ELSE 0
           t == now + d
           g == AtLeast0(grace - d)
           stamp == StampOf(sync, ep)
           a == NoneDue(d, sync, ep)
           b == SomeDue(bad, d, sync, ep)
<1> HIDE DEF ep
<1>1. TickRuns(d, bad, sync, ep) \/ TickBoots(d, bad, sync, ep)
  BY DEF ep
<1>2. CASE TickBoots(d, bad, sync, ep)
  BY <1>2, BootCalms DEF TickBoots
<1>3. \A v \in Valves : (a.ps[v] => pin[v]) /\ (b.ps[v] => pin[v])
  BY DEF NoneDue, SomeDue, Snapshot
<1>4. CASE TickRuns(d, bad, sync, ep)
  <2> HIDE DEF a, b
  <2>1. paused' = paused
    BY <1>4 DEF TickRuns
  <2>2. \/ Hold(a, disk, damaged, t, g) \/ StartHead(a, bad, t, stamp, g)
        \/ Hold(b, b.L, FALSE, t, g) \/ StartHead(b, bad, t, stamp, g)
        \/ StopAll(b, bad, t, stamp, TRUE)
    BY <1>4 DEF TickRuns, a, b
  <2>3. closeFault => inhibited
    BY DEF Calm
  <2>4. QED
    BY <1>3, <2>1, <2>2, <2>3, HoldCalms, StartCalms, StopAllCalms
<1>5. QED
  BY <1>1, <1>2, <1>4

LEMMA NextCalms ==
    ASSUME TypeOK, OutputsAccounted, Calm, [Next]_vars
    PROVE  Calm'
<1>1. ASSUME NEW d \in 0 .. MaxSlice, Tick(d) PROVE Calm'
  BY <1>1, TickCalms
<1>2. ASSUME NEW bad, NEW t, NEW stamp, NEW fault, NEW a, StopAll(a, bad, t, stamp, fault)
      PROVE  Calm'
  BY <1>2, StopAllCalms DEF Calm
<1>3. ASSUME ~inhibited, ~paused, UNCHANGED control PROVE Calm'
  BY <1>3 DEF Calm, control
<1>4. CASE \/ \E r \in Requests : Water(r.names, r.dur)
           \/ NextCycle \/ \E z \in Zones : NewSession(z)
  BY <1>3, <1>4 DEF Water, NextCycle, NewSession, MoistureReady
<1>5. ASSUME NEW s \in Schedules, FireSchedule(s) PROVE Calm'
  BY <1>2, <1>3, <1>5, BootCalms DEF FireSchedule
<1>6. CASE Stop
  BY <1>2, <1>6, BootCalms DEF Stop
<1>7. CASE PowerLoss
  BY <1>7, BootCalms DEF PowerLoss
<1>8. CASE Pause
  <2>1. \A v \in Valves : ~pin[v]
    BY <1>8 DEF Pause, Idle, AnyOpen, Open, OutputsAccounted, Accounted
  <2>2. QED
    BY <1>8, <2>1 DEF Pause, Idle, Calm, Quiet, world, outputs
<1>9. CASE MoistureHeld \/ EndSession \/ Resume \/ MediaFault \/ UNCHANGED vars
  BY <1>9 DEF MoistureHeld, EndSession, Resume, MediaFault, vars, Calm, Quiet, control, world,
              outputs
<1>10. QED
  BY <1>1, <1>4, <1>5, <1>6, <1>7, <1>8, <1>9 DEF Next

THEOREM AlwaysCalm == Spec => []Calm
<1>1. Init => Calm
  BY DEF Init, Calm
<1>2. TypeOK /\ OutputsAccounted /\ Calm /\ [Next]_vars => Calm'
  BY NextCalms
<1>3. QED
  BY <1>1, <1>2, TypeCorrect, AlwaysAccounted, PTL DEF Spec

\* After a fault nothing runs or is queued until the next boot (controller.py:113, 166).
THEOREM FaultsQuiet == Spec => []InhibitedIsQuiet
<1>1. Calm => InhibitedIsQuiet
  BY DEF Calm, Quiet, InhibitedIsQuiet
<1>2. QED
  BY <1>1, AlwaysCalm, PTL

\* A controller that is held waters nothing and has nothing to start.
THEOREM HoldsQuiet == Spec => []PausedIsQuiet
<1>1. Calm => PausedIsQuiet
  BY DEF Calm, Quiet, PausedIsQuiet
<1>2. QED
  BY <1>1, AlwaysCalm, PTL

-----------------------------------------------------------------------------
(* The cutoff: what a snapshot's open valves have left to run at time t. *)

Within(vs, t) == \A v \in Valves : vs[v].open => t - vs[v].at < Least(vs[v].dur, MaxOpen)

LEMMA CutoffStop ==
    ASSUME NEW a, NEW bad, NEW t, NEW stamp, NEW fault, StopAll(a, bad, t, stamp, fault)
    PROVE  CutoffRespected'
BY DEF StopAll, CutoffRespected, ClosedValve

LEMMA CutoffBoot ==
    ASSUME NEW t, NEW D, NEW unreadable, Boot(t, D, unreadable)
    PROVE  CutoffRespected'
BY DEF Boot, CutoffRespected, ClosedValve

LEMMA CutoffHold ==
    ASSUME NEW a, NEW D, NEW unreadable, NEW t, NEW g, Within(a.vs, t),
           Hold(a, D, unreadable, t, g), now' = t
    PROVE  CutoffRespected'
BY DEF Hold, Within, CutoffRespected

\* A run has some time left when it starts, since durations are positive.
LEMMA CutoffStart ==
    ASSUME ControllerAssumption, TypeOK, NEW a \in Snapshots, NEW bad, NEW t \in Nat,
           NEW stamp, NEW g, StartHead(a, bad, t, stamp, g), now' = t
    PROVE  CutoffRespected'
<1> DEFINE e == Head(queue)
           vs == Opened(a.vs, e, t)
<1>1. queue # <<>> /\ \A v \in Valves : ~a.vs[v].open
  BY DEF StartHead, MayStart, AnyOpen, Open
<1>2. e.name \in Valves /\ e.dur \in Nat /\ e.dur > 0 /\ MaxOpen \in Nat /\ MaxOpen > 0
  <2>1. e.name \in Valves /\ e.dur \in 1 .. MaxOpen
    BY <1>1, HeadType DEF TypeOK
  <2>2. QED
    BY <2>1 DEF ControllerAssumption
<1>3. Within(vs, t)
  <2>1. \A v \in Valves : vs[v].open => v = e.name /\ vs[v].at = t /\ vs[v].dur = e.dur
    BY <1>1, <1>2 DEF Opened, Snapshots
  <2>2. QED
    BY <1>2, <2>1 DEF Within, Least
<1>4. CASE valve' = vs
  BY <1>3, <1>4 DEF Within, CutoffRespected
<1>5. CASE \E b : StopAll(b, bad, t, stamp, TRUE)
  BY <1>5, CutoffStop
<1>6. QED
  BY <1>4, <1>5, Zenon DEF StartHead

LEMMA TickCutoff ==
    ASSUME ControllerAssumption, TypeOK, NEW d \in Nat, Tick(d)
    PROVE  CutoffRespected'
<1> PICK bad \in SUBSET Faulty, sync \in {synced, TRUE}, skew \in Skews :
        LET ep == IF sync THEN (now + d) + skew ELSE 0
        IN  ep >= 0 /\ (TickRuns(d, bad, sync, ep) \/ TickBoots(d, bad, sync, ep))
  BY TickCases
<1> DEFINE ep == IF sync THEN (now + d) + skew ELSE 0
           t == now + d
           g == AtLeast0(grace - d)
           stamp == StampOf(sync, ep)
           a == NoneDue(d, sync, ep)
           b == SomeDue(bad, d, sync, ep)
           due == {v \in Valves : Expired(v, t)}
<1>1. t \in Nat /\ ep \in Nat /\ sync \in BOOLEAN
  <2>1. now \in Nat /\ skew \in Int /\ synced \in BOOLEAN
    BY DEF TypeOK, ControllerAssumption
  <2>2. sync \in BOOLEAN
    BY <2>1, Zenon
  <2>3. QED
    BY <2>1, <2>2
<1> HIDE DEF ep
<1>2. TickRuns(d, bad, sync, ep) \/ TickBoots(d, bad, sync, ep)
  BY DEF ep
<1>3. CASE TickBoots(d, bad, sync, ep)
  BY <1>3, CutoffBoot DEF TickBoots
<1>4. a \in Snapshots /\ b \in Snapshots
  BY <1>1, SnapshotsTyped
<1>5. \A v \in Valves \ due : valve[v].open => t - valve[v].at < Least(valve[v].dur, MaxOpen)
  <2> SUFFICES ASSUME NEW v \in Valves, ~Expired(v, t), valve[v].open
               PROVE  t - valve[v].at < Least(valve[v].dur, MaxOpen)
    OBVIOUS
  <2>1. valve[v].at \in Int /\ valve[v].dur \in Int /\ MaxOpen \in Int
    BY DEF TypeOK, ValveObjects, Times, Never, ControllerAssumption
  <2>2. QED
    BY <1>1, <2>1 DEF Expired, Least
<1>6. due = {} => Within(a.vs, t)
  <2>1. a.vs = valve
    BY DEF NoneDue, Snapshot
  <2>2. QED
    BY <1>5, <2>1 DEF Within
<1>7. Shut(bad, t) = due => Within(b.vs, t)
  <2> SUFFICES ASSUME Shut(bad, t) = due PROVE Within(b.vs, t)
    OBVIOUS
  <2>1. b.vs = [v \in Valves |-> IF v \in due THEN ClosedValve ELSE valve[v]]
    BY DEF SomeDue
  <2>2. QED
    BY <1>5, <2>1 DEF Within, ClosedValve
<1>8. CASE TickRuns(d, bad, sync, ep)
  <2> HIDE DEF a, b
  <2>1. now' = t
    BY <1>8 DEF TickRuns
  <2>2. \/ due = {} /\ Hold(a, disk, damaged, t, g)
        \/ StartHead(a, bad, t, stamp, g)
        \/ Shut(bad, t) = due /\ Hold(b, b.L, FALSE, t, g)
        \/ StartHead(b, bad, t, stamp, g)
        \/ StopAll(b, bad, t, stamp, TRUE)
    BY <1>8 DEF TickRuns, a, b
  <2>3. QED
    BY <1>1, <1>4, <1>6, <1>7, <2>1, <2>2, CutoffHold, CutoffStart, CutoffStop
<1>9. QED
  BY <1>2, <1>3, <1>8

LEMMA NextCutoff ==
    ASSUME ControllerAssumption, TypeOK, CutoffRespected, [Next]_vars
    PROVE  CutoffRespected'
<1>1. ASSUME NEW d \in 0 .. MaxSlice, Tick(d) PROVE CutoffRespected'
  BY <1>1, TickCutoff DEF ControllerAssumption
<1>2. ASSUME UNCHANGED <<now, valve, closeFault>> PROVE CutoffRespected'
  BY <1>2 DEF CutoffRespected
<1>3. CASE \/ \E r \in Requests : Water(r.names, r.dur)
           \/ NextCycle \/ \E z \in Zones : NewSession(z)
           \/ MoistureHeld \/ EndSession \/ Pause \/ Resume \/ MediaFault \/ UNCHANGED vars
  BY <1>2, <1>3 DEF Water, NextCycle, NewSession, MoistureHeld, EndSession, Pause, Resume,
                    MediaFault, vars, control, world, outputs
<1>4. ASSUME NEW s \in Schedules, FireSchedule(s) PROVE CutoffRespected'
  BY <1>2, <1>4, CutoffBoot, CutoffStop DEF FireSchedule, control, outputs
<1>5. CASE Stop \/ PowerLoss
  BY <1>5, CutoffBoot, CutoffStop DEF Stop, PowerLoss
<1>6. QED
  BY <1>1, <1>3, <1>4, <1>5 DEF Next

\* No output outlasts its run by a tick, unless closing it failed (valve.py:35, controller.py:158).
THEOREM CutoffAlwaysRespected == Spec => []CutoffRespected
<1>1. ControllerAssumption
  BY ControllerAssumption
<1>2. Init => CutoffRespected
  BY DEF Init, CutoffRespected, ClosedValve
<1>3. TypeOK /\ CutoffRespected /\ [Next]_vars => CutoffRespected'
  BY <1>1, NextCutoff
<1>4. QED
  BY <1>2, <1>3, TypeCorrect, PTL DEF Spec

-----------------------------------------------------------------------------
(***************************************************************************)
(* The lockouts.  A countdown may be ahead of the journal or the other way *)
(* round, depending on what was restored last; what carries CooldownCovers *)
(* over restarts is that every kind of run ever energized has a stamp in   *)
(* both journals, one not older than the run if the clock is accurate.     *)
(***************************************************************************)

Accurate == Skews = {0}

Kept(L, st) ==
    \A v \in Valves, k \in Categories : st[v][k] # Never =>
        /\ L.stamp[v][k] # Absent
        /\ Accurate /\ L.stamp[v][k] >= 0 => L.stamp[v][k] >= st[v][k]
Covers(cd, st, t) ==
    \A v \in Valves, k \in Categories : st[v][k] # Never =>
        cd[v][k] + (t - st[v][k]) >= Interval[k]
Past(st, t) == \A v \in Valves, k \in Categories : st[v][k] <= t
Books(L, cd, st, t) == Kept(L, st) /\ Past(st, t) /\ (Accurate => Covers(cd, st, t))

\* What may be recorded at time t.
Dates(stamp, t) == stamp \in Stamps \ {Absent} /\ (Accurate /\ stamp >= 0 => stamp = t)

LockoutsHold ==
    /\ ~damaged
    /\ Books(ledger, cooldown, started, now)
    /\ Kept(disk, started)
    /\ Accurate /\ synced => nowEpoch = now

StampMap == [Valves -> [Categories -> Stamps]]
Marks == [Valves -> [Categories -> Times]]
Countdowns == [Valves -> [Categories -> Nat]]

LEMMA StampDates ==
    ASSUME NEW sy \in BOOLEAN, NEW ep \in Nat, NEW t, Accurate /\ sy => ep = t
    PROVE  Dates(StampOf(sy, ep), t)
BY DEF Dates, StampOf, Stamps, Unknown, Absent

\* Recording the runs of some valves and restarting their countdowns.
LEMMA RecordBooks ==
    ASSUME ControllerAssumption, NEW L \in Journals, NEW cd \in Countdowns, NEW st \in Marks,
           NEW t \in Nat, NEW vs, NEW S, NEW stamp, Dates(stamp, t), Books(L, cd, st, t)
    PROVE  Books(Recorded(L, vs, S, stamp), Cooled(cd, vs, S), st, t)
<1> SUFFICES ASSUME NEW v \in Valves, NEW k \in Categories, st[v][k] # Never
             PROVE  LET s == Recorded(L, vs, S, stamp).stamp[v][k]
                    IN  /\ s # Absent
                        /\ Accurate /\ s >= 0 => s >= st[v][k]
                        /\ Accurate => Cooled(cd, vs, S)[v][k] + (t - st[v][k]) >= Interval[k]
  BY Zenon DEF Books, Kept, Covers
<1>1. /\ st[v][k] \in Nat /\ st[v][k] <= t /\ Interval[k] \in Nat /\ cd[v][k] \in Nat
      /\ Accurate => cd[v][k] + (t - st[v][k]) >= Interval[k]
  BY DEF Marks, Times, Books, Past, Covers, ControllerAssumption, Countdowns
<1>2. /\ L.stamp[v][k] # Absent
      /\ Accurate /\ L.stamp[v][k] >= 0 => L.stamp[v][k] >= st[v][k]
  BY DEF Books, Kept
<1>3. stamp # Absent /\ (Accurate /\ stamp >= 0 => stamp >= st[v][k])
  BY <1>1 DEF Dates
<1>4. Recorded(L, vs, S, stamp).stamp[v][k] \in {stamp, L.stamp[v][k]}
  BY DEF Recorded, Journals
<1>5. Cooled(cd, vs, S)[v][k] \in {Interval[k], cd[v][k]}
  BY DEF Cooled
<1>6. QED
  BY <1>1, <1>2, <1>3, <1>4, <1>5

\* Recording a run that starts at t.
LEMMA StartBooks ==
    ASSUME ControllerAssumption, NEW L \in Journals, NEW cd \in Countdowns, started \in Marks,
           NEW t \in Nat, NEW vs, NEW e, e.name \in Valves, vs[e.name].reason = e.reason,
           NEW stamp, Dates(stamp, t), Books(L, cd, started, t), Note(e, t)
    PROVE  Books(Recorded(L, vs, {e.name}, stamp), Cooled(cd, vs, {e.name}), started', t)
<1> SUFFICES ASSUME NEW v \in Valves, NEW k \in Categories
             PROVE  LET s == Recorded(L, vs, {e.name}, stamp).stamp[v][k]
                    IN  /\ started'[v][k] <= t
                        /\ started'[v][k] # Never =>
                           /\ s # Absent
                           /\ Accurate /\ s >= 0 => s >= started'[v][k]
                           /\ Accurate => Cooled(cd, vs, {e.name})[v][k] + (t - started'[v][k])
                                           >= Interval[k]
  BY Zenon DEF Books, Kept, Covers, Past
<1>1. started' = [started EXCEPT ![e.name][Category(e.reason)] = t]
  BY DEF Note
<1>2. Books(Recorded(L, vs, {e.name}, stamp), Cooled(cd, vs, {e.name}), started, t)
  BY RecordBooks
<1>3. CASE v = e.name /\ k = Category(e.reason)
  <2>1. started'[v][k] = t
    BY <1>1, <1>3 DEF Marks
  <2>2. Recorded(L, vs, {e.name}, stamp).stamp[v][k] = stamp
    BY <1>3 DEF Recorded, Journals
  <2>3. Cooled(cd, vs, {e.name})[v][k] = Interval[k] /\ Interval[k] \in Nat
    BY <1>3 DEF Cooled, ControllerAssumption
  <2>4. QED
    BY <2>1, <2>2, <2>3 DEF Dates
<1>4. CASE ~(v = e.name /\ k = Category(e.reason))
  <2>1. started'[v][k] = started[v][k]
    BY <1>1, <1>4 DEF Marks
  <2>2. QED
    BY <1>2, <2>1 DEF Books, Kept, Covers, Past
<1>5. QED
  BY <1>3, <1>4

\* stop_all records what it closes and restarts its countdowns.
LEMMA StopAllLocks ==
    ASSUME ControllerAssumption, NEW a \in Snapshots, NEW bad, NEW t \in Nat, NEW stamp,
           NEW fault, Dates(stamp, t), started' \in Marks, Books(a.L, a.cd, started', t),
           StopAll(a, bad, t, stamp, fault)
    PROVE  Books(ledger', cooldown', started', t)
BY RecordBooks DEF StopAll, Snapshots, Countdowns

\* The two sides of a failed commit.
LEMMA FlashLocks ==
    ASSUME NEW L, NEW st, Kept(L, st), Kept(disk, st), ~damaged,
           Commit(L) \/ CommitFails(L) \/ UNCHANGED flash
    PROVE  ~damaged' /\ Kept(disk', st)
<1>1. CASE Commit(L)
  BY <1>1 DEF Commit
<1>2. CASE UNCHANGED flash
  BY <1>2 DEF flash
<1>3. QED
  BY <1>1, <1>2 DEF CommitFails

\* A restart locks out for the full interval whatever the journal has a record of.
LEMMA BootLocks ==
    ASSUME ControllerAssumption, TypeOK, NEW t \in Nat, NEW D \in Journals, Kept(D, started),
           Past(started, t), Boot(t, D, FALSE)
    PROVE  LockoutsHold'
<1> PICK off \in 0 .. MaxOutage, watchdog \in BOOLEAN : Boot(t, D, FALSE)!(off, watchdog)
  BY DEF Boot
<1>1. /\ now' = t + off /\ disk' = D /\ ledger' = D /\ ~damaged' /\ started' = started
      /\ synced' = FALSE /\ off \in Nat
      /\ \A v \in Valves, k \in Categories :
            cooldown'[v][k] = IF D.stamp[v][k] # Absent THEN Interval[k] ELSE 0
  BY DEF ControllerAssumption
<1>2. \A v \in Valves, k \in Categories :
         started[v][k] \in Int /\ started[v][k] <= t /\ Interval[k] \in Nat
  BY DEF TypeOK, Times, Never, Past, ControllerAssumption
<1>3. Past(started', now')
  BY <1>1, <1>2 DEF Past
<1>4. Covers(cooldown', started', now')
  <2> SUFFICES ASSUME NEW v \in Valves, NEW k \in Categories, started[v][k] # Never
               PROVE  cooldown'[v][k] + (now' - started[v][k]) >= Interval[k]
    BY <1>1 DEF Covers
  <2>1. cooldown'[v][k] = Interval[k]
    BY <1>1 DEF Kept
  <2>2. QED
    BY <1>1, <1>2, <2>1
<1>5. Kept(ledger', started') /\ Kept(disk', started')
  BY <1>1, Zenon
<1>6. QED
  BY <1>1, <1>3, <1>4, <1>5 DEF LockoutsHold, Books

\* A tick that starts nothing.
LEMMA HoldLocks ==
    ASSUME NEW a, NEW D, NEW t, NEW g, Books(a.L, a.cd, started, t), Kept(D, started),
           now' = t, Accurate /\ synced' => nowEpoch' = t, Hold(a, D, FALSE, t, g)
    PROVE  LockoutsHold'
<1>1. ledger' = a.L /\ cooldown' = a.cd /\ started' = started /\ disk' = D /\ ~damaged'
  BY DEF Hold
<1>2. QED
  BY <1>1 DEF LockoutsHold, Accurate

\* A tick that energizes the head of the queue, or fails to.
LEMMA StartHeadLocks ==
    ASSUME ControllerAssumption, TypeOK, TypeOK', NEW a \in Snapshots, NEW bad, NEW t \in Nat,
           NEW stamp, NEW g, Dates(stamp, t), Books(a.L, a.cd, started, t), ~damaged,
           Kept(disk, started), now' = t, Accurate /\ synced' => nowEpoch' = t,
           StartHead(a, bad, t, stamp, g)
    PROVE  LockoutsHold'
<1> DEFINE e == Head(queue)
           vs == Opened(a.vs, e, t)
           b == [a EXCEPT !.L = StartRecord(a, t, stamp), !.cd = Cooled(a.cd, vs, {e.name})]
           lit(x) == [b EXCEPT !.vs = vs, !.ps[e.name] = x]
<1>1. queue # <<>> /\ stamp \in Stamps /\ BodyTyped
  BY TypeParts DEF StartHead, MayStart, Dates
<1>2. e.name \in Valves /\ vs[e.name].reason = e.reason
  BY <1>1, HeadType DEF BodyTyped, Opened, Snapshots
<1>3. b \in Snapshots /\ \A x \in BOOLEAN : lit(x) \in Snapshots
  BY <1>1, StartRecordType
<1>4. /\ b.L = Recorded(a.L, vs, {e.name}, stamp) /\ b.cd = Cooled(a.cd, vs, {e.name})
      /\ \A x : lit(x).L = b.L /\ lit(x).cd = b.cd
  BY DEF StartRecord, Snapshots
<1>5. a.L \in Journals /\ a.cd \in Countdowns /\ started \in Marks /\ started' \in Marks
  BY DEF Snapshots, Countdowns, Marks, TypeOK
<1> HIDE DEF e, vs, b, lit
<1>6. Books(b.L, b.cd, started, t)
  BY <1>4, <1>5, RecordBooks
<1>7. ASSUME Note(e, t) PROVE Books(b.L, b.cd, started', t)
  <2>1. Books(Recorded(a.L, vs, {e.name}, stamp), Cooled(a.cd, vs, {e.name}), started', t)
    BY <1>2, <1>5, <1>7, StartBooks
  <2>2. QED
    BY <1>4, <2>1
<1>8. ASSUME Commit(b.L), ledger' = b.L, cooldown' = b.cd, Note(e, t)
      PROVE  LockoutsHold'
  BY <1>7, <1>8 DEF LockoutsHold, Books, Commit, Accurate
<1>9. ASSUME CommitFails(b.L), StopAll(b, bad, t, stamp, TRUE), UNCHANGED started
      PROVE  LockoutsHold'
  <2>1. Books(ledger', cooldown', started', t)
    BY <1>3, <1>5, <1>6, <1>9, StopAllLocks
  <2>2. ~damaged' /\ Kept(disk', started)
    BY <1>6, <1>9, FlashLocks DEF Books
  <2>3. QED
    BY <1>9, <2>1, <2>2 DEF LockoutsHold, Accurate
<1>10. ASSUME Commit(b.L), NEW x \in BOOLEAN, StopAll(lit(x), bad, t, stamp, TRUE),
              IF x THEN Note(e, t) ELSE UNCHANGED <<started, served>>
       PROVE  LockoutsHold'
  <2>1. Books(b.L, b.cd, started', t)
    BY <1>6, <1>7, <1>10
  <2>2. Books(ledger', cooldown', started', t)
    BY <1>3, <1>4, <1>5, <1>10, <2>1, StopAllLocks
  <2>3. ~damaged' /\ Kept(disk', started')
    BY <1>10, <2>1 DEF Commit, Books
  <2>4. QED
    BY <2>2, <2>3 DEF LockoutsHold, Accurate
<1>11. QED
  BY <1>8, <1>9, <1>10 DEF StartHead, e, vs, b, lit

\* Counting down, and replacing a countdown by what a stamp has left, cover no less.
LEMMA TickBooks ==
    ASSUME ControllerAssumption, TypeOK, LockoutsHold, NEW d \in Nat, NEW sync \in BOOLEAN,
           NEW ep \in Nat, Accurate /\ sync => ep = now + d
    PROVE  /\ Books(ledger, TickCooldown(d, sync, ep), started, now + d)
           /\ Kept(disk, started)
<1> SUFFICES ASSUME NEW v \in Valves, NEW k \in Categories
             PROVE  /\ started[v][k] <= now + d
                    /\ Accurate /\ started[v][k] # Never =>
                          TickCooldown(d, sync, ep)[v][k] + ((now + d) - started[v][k])
                              >= Interval[k]
  BY Zenon DEF LockoutsHold, Books, Past, Covers
<1>1. /\ now \in Nat /\ started[v][k] \in Int /\ started[v][k] <= now
      /\ cooldown[v][k] \in Nat /\ Interval[k] \in Nat
      /\ ledger.stamp[v][k] \in Int
  BY DEF TypeOK, Times, Never, LockoutsHold, Books, Past, ControllerAssumption, Journals,
         Stamps, Unknown, Absent
<1>2. CASE ~Accurate \/ started[v][k] = Never
  BY <1>1, <1>2
<1>3. CASE Accurate /\ started[v][k] # Never
  <2>1. cooldown[v][k] + (now - started[v][k]) >= Interval[k]
    BY <1>3 DEF LockoutsHold, Books, Covers
  <2>2. ledger.stamp[v][k] >= 0 => ledger.stamp[v][k] >= started[v][k]
    BY <1>3 DEF LockoutsHold, Books, Kept
  <2>3. \A i \in Int : AtLeast0(i) \in Nat /\ AtLeast0(i) >= i
    BY DEF AtLeast0
  <2>4. Counted(d)[v][k] + ((now + d) - started[v][k]) >= Interval[k] /\ Counted(d)[v][k] \in Nat
    <3>1. Counted(d)[v][k] = AtLeast0(cooldown[v][k] - d)
      BY DEF Counted
    <3>2. cooldown[v][k] - d \in Int
      BY <1>1
    <3>3. Counted(d)[v][k] \in Nat /\ Counted(d)[v][k] >= cooldown[v][k] - d
      BY <2>3, <3>1, <3>2
    <3>4. Counted(d)[v][k] + ((now + d) - started[v][k]) >= Interval[k]
      <4> DEFINE x == Counted(d)[v][k]
                 c == cooldown[v][k]
                 s == started[v][k]
                 i == Interval[k]
      <4>1. x \in Int /\ c \in Int /\ s \in Int /\ i \in Int /\ now \in Int
            /\ x >= c - d /\ c + (now - s) >= i
        BY <1>1, <2>1, <3>3
      <4> HIDE DEF x, c, s, i
      <4>2. x + ((now + d) - s) >= i
        BY <4>1
      <4>3. QED
        BY <4>2 DEF x, s, i
    <3>5. QED
      BY <3>3, <3>4
  <2>5. CASE sync /\ ~restored
    <3>1. TickCooldown(d, sync, ep)[v][k] =
             IF ledger.stamp[v][k] >= 0 /\ ep - ledger.stamp[v][k] \in 0 .. StampHorizon
             THEN AtLeast0(Interval[k] - (ep - ledger.stamp[v][k]))
             ELSE Counted(d)[v][k]
      BY <2>5 DEF TickCooldown, RestoreClock
    <3>2. ep = now + d
      BY <1>3, <2>5
    <3>3. CASE ledger.stamp[v][k] >= 0 /\ ep - ledger.stamp[v][k] \in 0 .. StampHorizon
      <4>1. TickCooldown(d, sync, ep)[v][k] = AtLeast0(Interval[k] - (ep - ledger.stamp[v][k]))
        BY <3>1, <3>3
      <4>2. Interval[k] - (ep - ledger.stamp[v][k]) \in Int
        BY <1>1
      <4>3. /\ TickCooldown(d, sync, ep)[v][k] >= Interval[k] - (ep - ledger.stamp[v][k])
            /\ TickCooldown(d, sync, ep)[v][k] \in Nat
        BY <2>3, <4>1, <4>2
      <4>4. ledger.stamp[v][k] >= started[v][k]
        BY <2>2, <3>3
      <4>5. QED
        BY <1>1, <3>2, <4>3, <4>4
    <3>4. CASE ~(ledger.stamp[v][k] >= 0 /\ ep - ledger.stamp[v][k] \in 0 .. StampHorizon)
      <4>1. TickCooldown(d, sync, ep)[v][k] = Counted(d)[v][k]
        BY <3>1, <3>4, Zenon
      <4>2. QED
        BY <1>1, <2>4, <4>1
    <3>5. QED
      BY <3>3, <3>4
  <2>6. CASE ~(sync /\ ~restored)
    <3>1. TickCooldown(d, sync, ep) = Counted(d)
      BY <2>6 DEF TickCooldown
    <3>2. QED
      BY <1>1, <2>4, <3>1
  <2>7. QED
    BY <2>5, <2>6
<1>4. QED
  BY <1>2, <1>3

\* A tick closes, starts, is cut short or raises.
LEMMA TickLocks ==
    ASSUME ControllerAssumption, TypeOK, TypeOK', LockoutsHold, NEW d \in Nat, Tick(d)
    PROVE  LockoutsHold'
<1> PICK bad \in SUBSET Faulty, sync \in {synced, TRUE}, skew \in Skews :
        LET ep == IF sync THEN (now + d) + skew ELSE 0
        IN  ep >= 0 /\ (TickRuns(d, bad, sync, ep) \/ TickBoots(d, bad, sync, ep))
  BY TickCases
<1> DEFINE ep == IF sync THEN (now + d) + skew ELSE 0
           t == now + d
           g == AtLeast0(grace - d)
           stamp == StampOf(sync, ep)
           shut == Shut(bad, t)
           cd == TickCooldown(d, sync, ep)
           a == NoneDue(d, sync, ep)
           b == SomeDue(bad, d, sync, ep)
<1>1. t \in Nat /\ ep \in Nat /\ sync \in BOOLEAN
  <2>1. now \in Nat /\ skew \in Int /\ synced \in BOOLEAN
    BY DEF TypeOK, ControllerAssumption
  <2>2. sync \in BOOLEAN
    BY <2>1, Zenon
  <2>3. QED
    BY <2>1, <2>2
<1>2. Accurate /\ sync => ep = now + d
  <2>1. now \in Nat
    BY DEF TypeOK
  <2>2. QED
    BY <2>1 DEF Accurate
<1> HIDE DEF ep
<1>3. TickRuns(d, bad, sync, ep) \/ TickBoots(d, bad, sync, ep)
  BY DEF ep
<1>4. a \in Snapshots /\ b \in Snapshots /\ started \in Marks /\ started' \in Marks
  BY <1>1, SnapshotsTyped DEF TypeOK, Marks
<1>5. Dates(stamp, t)
  BY <1>1, <1>2, StampDates
<1>6. Books(ledger, cd, started, t) /\ Kept(disk, started) /\ ~damaged
  BY <1>1, <1>2, TickBooks DEF LockoutsHold
<1>7. /\ a.L = ledger /\ a.cd = cd
      /\ b.L = Recorded(ledger, valve, shut, stamp) /\ b.cd = Cooled(cd, valve, shut)
  BY DEF NoneDue, SomeDue, Snapshot
<1>8. Books(a.L, a.cd, started, t)
  BY <1>6, <1>7
<1>9. Books(b.L, b.cd, started, t)
  <2>1. ledger \in Journals /\ cd \in Countdowns
    BY <1>4, <1>7 DEF Snapshots, Countdowns
  <2> HIDE DEF cd, stamp, shut, t, b
  <2>2. Books(Recorded(ledger, valve, shut, stamp), Cooled(cd, valve, shut), started, t)
    BY <1>1, <1>4, <1>5, <1>6, <2>1, RecordBooks
  <2>3. QED
    BY <1>7, <2>2
<1>10. a.L \in Journals /\ b.L \in Journals
  BY <1>4 DEF Snapshots
<1>11. \A c \in {a, b} : MayStart(c, g) =>
          /\ StartRecord(c, t, stamp) \in Journals
          /\ Kept(StartRecord(c, t, stamp), started)
  <2> HIDE DEF a, b, stamp, t, g
  <2> SUFFICES ASSUME NEW c \in {a, b}
               PROVE  /\ StartRecord(c, t, stamp) \in Journals
                      /\ Kept(StartRecord(c, t, stamp), started)
    OBVIOUS
  <2> DEFINE vs == Opened(c.vs, Head(queue), t)
             S == {Head(queue).name}
  <2>1. /\ c.L \in Journals /\ c.cd \in Countdowns /\ Books(c.L, c.cd, started, t)
        /\ stamp \in Stamps
    BY <1>4, <1>5, <1>8, <1>9 DEF Snapshots, Countdowns, Dates
  <2>2. StartRecord(c, t, stamp) = Recorded(c.L, vs, S, stamp)
    BY DEF StartRecord
  <2> HIDE DEF vs, S
  <2>3. Books(Recorded(c.L, vs, S, stamp), Cooled(c.cd, vs, S), started, t)
    BY <1>1, <1>4, <1>5, <2>1, RecordBooks
  <2>4. Recorded(c.L, vs, S, stamp) \in Journals
    BY <2>1, RecordedType
  <2>5. QED
    BY <2>2, <2>3, <2>4 DEF Books
<1> HIDE DEF a, b, stamp, t, g, cd, shut
<1>12. ASSUME NEW D \in Journals, Kept(D, started), Boot(t, D, FALSE) PROVE LockoutsHold'
  BY <1>1, <1>6, <1>12, BootLocks DEF Books
<1>13. CASE TickBoots(d, bad, sync, ep)
  <2>1. \/ Boot(t, b.L, FALSE)
        \/ \E c \in {a, b} : MayStart(c, g) /\ Boot(t, StartRecord(c, t, stamp), FALSE)
    BY <1>13 DEF TickBoots, a, b, t, g, stamp
  <2>2. QED
    BY <1>9, <1>10, <1>11, <1>12, <2>1 DEF Books
<1>14. CASE TickRuns(d, bad, sync, ep)
  <2>1. now' = t /\ (Accurate /\ synced' => nowEpoch' = t)
    BY <1>2, <1>14 DEF TickRuns, t
  <2>2. ASSUME Hold(a, disk, damaged, t, g) PROVE LockoutsHold'
    <3>1. damaged = FALSE
      BY <1>6 DEF TypeOK
    <3>2. QED
      BY <1>6, <1>8, <2>1, <2>2, <3>1, HoldLocks
  <2>3. ASSUME Hold(b, b.L, FALSE, t, g) PROVE LockoutsHold'
    BY <1>9, <2>1, <2>3, HoldLocks DEF Books
  <2>4. ASSUME NEW c \in {a, b}, StartHead(c, bad, t, stamp, g) PROVE LockoutsHold'
    <3>1. c \in Snapshots /\ Books(c.L, c.cd, started, t)
      BY <1>4, <1>8, <1>9
    <3>2. QED
      BY <1>1, <1>5, <1>6, <2>1, <2>4, <3>1, StartHeadLocks
  <2>5. ASSUME UNCHANGED flash \/ CommitFails(b.L), StopAll(b, bad, t, stamp, TRUE),
               UNCHANGED started
        PROVE  LockoutsHold'
    <3>1. Books(ledger', cooldown', started', t)
      BY <1>1, <1>4, <1>5, <1>9, <2>5, StopAllLocks
    <3>2. ~damaged' /\ Kept(disk', started)
      BY <1>6, <1>9, <2>5, FlashLocks DEF Books
    <3>3. QED
      BY <2>1, <2>5, <3>1, <3>2 DEF LockoutsHold, Accurate
  <2>6. QED
    BY <1>14, <2>2, <2>3, <2>4, <2>5 DEF TickRuns, a, b, t, g, stamp
<1>15. QED
  BY <1>3, <1>13, <1>14

\* The other handlers stop, commit, or leave the books alone.
LEMMA NextLocks ==
    ASSUME ControllerAssumption, ~MediaFaults, TypeOK, TypeOK', LockoutsHold, [Next]_vars
    PROVE  LockoutsHold'
<1> DEFINE stamp == StampOf(synced, nowEpoch)
<1>1. ASSUME NEW d \in 0 .. MaxSlice, Tick(d) PROVE LockoutsHold'
  BY <1>1, TickLocks DEF ControllerAssumption
<1>2. ASSUME UNCHANGED <<now, ledger, cooldown, flash, started, clock>> PROVE LockoutsHold'
  BY <1>2 DEF LockoutsHold, Accurate, flash, clock
<1>3. CASE \/ \E r \in Requests : Water(r.names, r.dur)
           \/ NextCycle \/ \E z \in Zones : NewSession(z)
           \/ MoistureHeld \/ EndSession \/ Pause \/ Resume \/ MediaFault \/ UNCHANGED vars
  BY <1>2, <1>3 DEF Water, NextCycle, NewSession, MoistureHeld, EndSession, Pause, Resume,
                    MediaFault, vars, world, books, history
<1>4. now \in Nat /\ started \in Marks /\ started' \in Marks /\ ledger \in Journals
      /\ cooldown \in Countdowns /\ disk \in Journals /\ damaged = FALSE
  BY DEF TypeOK, Marks, Countdowns, LockoutsHold
<1>5. Dates(stamp, now)
  BY StampDates DEF TypeOK, LockoutsHold
<1> HIDE DEF stamp
<1>6. Books(ledger, cooldown, started, now) /\ Kept(disk, started)
  BY DEF LockoutsHold
<1>7. ASSUME NEW L \in Journals, Kept(L, started), NEW a \in Snapshots, a.L \in {ledger, L},
             a.cd = cooldown, NEW bad, NEW fault, StopAll(a, bad, now, stamp, fault),
             Commit(L) \/ CommitFails(L) \/ UNCHANGED flash, UNCHANGED <<now, clock, started>>
      PROVE  LockoutsHold'
  <2>1. Books(a.L, a.cd, started', now)
    BY <1>6, <1>7 DEF Books
  <2>2. Books(ledger', cooldown', started', now)
    BY <1>4, <1>5, <1>7, <2>1, StopAllLocks
  <2>3. ~damaged' /\ Kept(disk', started)
    BY <1>4, <1>6, <1>7, FlashLocks
  <2>4. QED
    BY <1>7, <2>2, <2>3 DEF LockoutsHold, Accurate, clock
<1>8. ASSUME NEW s \in Schedules, FireSchedule(s) PROVE LockoutsHold'
  <2> DEFINE L == [ledger EXCEPT !.fired[s] = nowEpoch]
             a == [Snapshot EXCEPT !.L = L]
  <2>1. L \in Journals /\ L.stamp = ledger.stamp
    BY DEF TypeOK, Journals, Times
  <2>2. a \in Snapshots /\ a.L = L /\ a.cd = cooldown
    BY <2>1, SnapshotType DEF Snapshots, Snapshot
  <2>3. Kept(L, started) /\ Past(started, now)
    BY <1>6, <2>1 DEF Books, Kept
  <2> HIDE DEF L, a
  <2>4. ASSUME Commit(L) \/ UNCHANGED flash, ledger' = L, UNCHANGED <<now, cooldown, clock, started>>
        PROVE  LockoutsHold'
    <3>1. ~damaged' /\ Kept(disk', started)
      BY <1>4, <1>6, <2>3, <2>4, FlashLocks
    <3>2. Books(L, cooldown, started, now)
      BY <1>6, <2>3 DEF Books
    <3>3. QED
      BY <2>4, <3>1, <3>2 DEF LockoutsHold, Accurate, clock
  <2>5. ASSUME CommitFails(L), NEW bad, StopAll(a, bad, now, stamp, TRUE),
               UNCHANGED <<now, clock, started>>
        PROVE  LockoutsHold'
    BY <1>7, <2>1, <2>2, <2>3, <2>5
  <2>6. ASSUME Boot(now, L, FALSE) PROVE LockoutsHold'
    BY <1>4, <2>1, <2>3, <2>6, BootLocks
  <2>7. QED
    BY <1>8, <2>4, <2>5, <2>6 DEF FireSchedule, history, L, a, stamp
<1>9. CASE Stop
  <2> DEFINE L == Recorded(ledger, valve, Open(valve), stamp)
  <2>1. L \in Journals
    BY <1>4, <1>5, RecordedType DEF Dates
  <2>2. Kept(L, started) /\ Past(started, now)
    <3>1. Books(L, Cooled(cooldown, valve, Open(valve)), started, now)
      BY <1>4, <1>5, <1>6, RecordBooks
    <3>2. QED
      BY <3>1 DEF Books
  <2> HIDE DEF L
  <2>3. Snapshot \in Snapshots /\ Snapshot.L = ledger /\ Snapshot.cd = cooldown
    BY SnapshotType DEF Snapshot
  <2>4. ASSUME NEW bad, NEW fault, StopAll(Snapshot, bad, now, stamp, fault),
               Commit(L) \/ CommitFails(L) \/ UNCHANGED flash, UNCHANGED <<now, clock, started>>
        PROVE  LockoutsHold'
    BY <1>7, <2>1, <2>2, <2>3, <2>4
  <2>5. ASSUME Boot(now, L, FALSE) PROVE LockoutsHold'
    BY <1>4, <2>1, <2>2, <2>5, BootLocks
  <2>6. QED
    BY <1>9, <2>4, <2>5 DEF Stop, L, stamp
<1>10. CASE PowerLoss
  BY <1>4, <1>6, <1>10, BootLocks DEF PowerLoss, Books
<1>11. QED
  BY <1>1, <1>3, <1>8, <1>9, <1>10 DEF Next

\* With a readable flash the journals know every kind of run that was ever made, and with an
\* accurate clock too, when.
THEOREM LockoutsAlwaysHold == ~MediaFaults => (Spec => []LockoutsHold)
<1> SUFFICES ASSUME ~MediaFaults PROVE Spec => []LockoutsHold
  OBVIOUS
<1>1. ControllerAssumption
  BY ControllerAssumption
<1>2. Init => LockoutsHold
  BY DEF Init, LockoutsHold, Books, Kept, Past, Covers, Never
<1>3. TypeOK /\ TypeOK' /\ LockoutsHold /\ [Next]_vars => LockoutsHold'
  BY <1>1, NextLocks
<1>4. QED
  BY <1>2, <1>3, TypeCorrect, PTL DEF Spec

\* A controller that accepts watering has a record of every kind of run it made, as long
\* as the flash keeps one generation of the journal.
THEOREM RunsAlwaysRecorded == ~MediaFaults => (Spec => []RunsRecorded)
<1>1. LockoutsHold => RunsRecorded
  BY DEF LockoutsHold, Books, Kept, RunsRecorded
<1>2. QED
  BY <1>1, LockoutsAlwaysHold, PTL

\* No lockout ends early, across any number of restarts, outages, faults and late
\* synchronizations, if the clock is accurate and the flash keeps the journal.
THEOREM LockoutsCover == Skews = {0} /\ ~MediaFaults => (Spec => []CooldownCovers)
<1> SUFFICES ASSUME Skews = {0}, ~MediaFaults PROVE Spec => []CooldownCovers
  OBVIOUS
<1>1. LockoutsHold => CooldownCovers
  BY DEF LockoutsHold, Books, Covers, CooldownCovers, Accurate
<1>2. QED
  BY <1>1, LockoutsAlwaysHold, PTL

-----------------------------------------------------------------------------
(***************************************************************************)
(* What the steps do to queue, session and history, for the properties     *)
(* that speak of which run is energized when.                              *)
(***************************************************************************)

\* Every valve object is as it was, closed, or runs the head of the queue.
HeadOnly ==
    \A v \in Valves :
        \/ valve'[v] = valve[v] \/ valve'[v] = ClosedValve
        \/ queue # <<>> /\ v = Head(queue).name /\ valve'[v].reason = Head(queue).reason

Emptied == queue' = <<>> /\ session' = NoSession
Unserved == UNCHANGED <<started, served>>
Served == queue # <<>> /\ Note(Head(queue), now') /\ disk'.fired = ledger.fired
TickEffect ==
    /\ now' \in Nat /\ now' >= now
    /\ ledger'.fired = ledger.fired /\ disk'.fired \in {disk.fired, ledger.fired}
    /\ HeadOnly
    /\ \/ Emptied /\ (Unserved \/ Served)
       \/ /\ queue' = queue /\ Unserved
          /\ session' = session \/ session' = [session EXCEPT !.closed = now']
       \/ queue' = Tail(queue) /\ session' = session /\ Served

\* A snapshot of a tick differs from the state by closed valves and records.
Near(c) ==
    /\ c \in Snapshots /\ c.L.fired = ledger.fired
    /\ \A v \in Valves : c.vs[v] = valve[v] \/ c.vs[v] = ClosedValve

\* Records are not occurrences.
LEMMA RecordedFired ==
    ASSUME NEW L \in Journals, NEW vs, NEW S, NEW stamp
    PROVE  Recorded(L, vs, S, stamp).fired = L.fired
BY DEF Recorded, Journals

LEMMA StopAllEffect ==
    ASSUME NEW c \in Snapshots, c.L.fired = ledger.fired, NEW bad, NEW t, NEW stamp, NEW fault,
           StopAll(c, bad, t, stamp, fault)
    PROVE  /\ Emptied /\ ledger'.fired = ledger.fired
           /\ \A v \in Valves : valve'[v] = c.vs[v] \/ valve'[v] = ClosedValve
BY RecordedFired DEF StopAll, Snapshots, Emptied

LEMMA BootEffect ==
    ASSUME ControllerAssumption, NEW t \in Nat, NEW D \in Journals, Boot(t, D, FALSE)
    PROVE  /\ now' \in Nat /\ now' >= t /\ Emptied /\ Unserved
           /\ ledger' = D /\ disk' = D
           /\ \A v \in Valves : valve'[v] = ClosedValve
BY DEF Boot, Emptied, Unserved, ControllerAssumption

LEMMA FlashEffect ==
    ASSUME NEW L, L.fired = ledger.fired, Commit(L) \/ CommitFails(L) \/ UNCHANGED flash
    PROVE  disk'.fired \in {disk.fired, ledger.fired}
<1>1. disk' = L \/ disk' = disk
  BY Zenon DEF Commit, CommitFails, flash
<1>2. QED
  BY <1>1

LEMMA StartHeadEffect ==
    ASSUME ControllerAssumption, TypeOK, NEW c, Near(c), NEW bad, NEW t \in Nat,
           NEW stamp \in Stamps, NEW g, t >= now, now' = t, StartHead(c, bad, t, stamp, g)
    PROVE  TickEffect
<1> DEFINE e == Head(queue)
           vs == Opened(c.vs, e, t)
           b == [c EXCEPT !.L = StartRecord(c, t, stamp), !.cd = Cooled(c.cd, vs, {e.name})]
           lit(x) == [b EXCEPT !.vs = vs, !.ps[e.name] = x]
<1>1. queue # <<>> /\ BodyTyped /\ c \in Snapshots
  BY TypeParts DEF StartHead, MayStart, Near
<1>2. b \in Snapshots /\ \A x \in BOOLEAN : lit(x) \in Snapshots
  BY <1>1, StartRecordType
<1>3. b.vs = c.vs /\ b.L = StartRecord(c, t, stamp)
      /\ \A x : lit(x).vs = vs /\ lit(x).L = b.L
  BY <1>1 DEF Snapshots
<1>4. b.L.fired = ledger.fired
  BY <1>1, <1>3, RecordedFired DEF StartRecord, Near, Snapshots
<1>5. \A v \in Valves : /\ v # e.name => vs[v] = c.vs[v]
                        /\ v = e.name => vs[v].reason = e.reason
  BY <1>1 DEF Opened, Snapshots
<1> HIDE DEF e, vs, b, lit
<1>6. ASSUME Commit(b.L), valve' = vs, ledger' = b.L, queue' = Tail(queue), Note(e, t),
             UNCHANGED session
      PROVE  TickEffect
  <2>1. HeadOnly
    BY <1>1, <1>5, <1>6 DEF HeadOnly, Near, e
  <2>2. Served
    BY <1>1, <1>4, <1>6 DEF Served, Commit, e
  <2>3. QED
    BY <1>4, <1>6, <2>1, <2>2 DEF TickEffect, Served
<1>7. ASSUME CommitFails(b.L), StopAll(b, bad, t, stamp, TRUE), Unserved
      PROVE  TickEffect
  <2>1. Emptied /\ ledger'.fired = ledger.fired
        /\ \A v \in Valves : valve'[v] = c.vs[v] \/ valve'[v] = ClosedValve
    BY <1>2, <1>3, <1>4, <1>7, StopAllEffect
  <2>2. disk'.fired \in {disk.fired, ledger.fired}
    BY <1>4, <1>7, FlashEffect
  <2>3. HeadOnly
    BY <2>1 DEF HeadOnly, Near
  <2>4. QED
    BY <1>7, <2>1, <2>2, <2>3 DEF TickEffect
<1>8. ASSUME Commit(b.L), NEW x \in BOOLEAN, StopAll(lit(x), bad, t, stamp, TRUE),
             IF x THEN Note(e, t) ELSE Unserved
      PROVE  TickEffect
  <2>1. Emptied /\ ledger'.fired = ledger.fired
        /\ \A v \in Valves : valve'[v] = vs[v] \/ valve'[v] = ClosedValve
    BY <1>2, <1>3, <1>4, <1>8, StopAllEffect
  <2>2. disk'.fired = ledger.fired
    BY <1>4, <1>8 DEF Commit
  <2>3. HeadOnly
    BY <1>1, <1>5, <2>1 DEF HeadOnly, Near, e
  <2>4. Unserved \/ Served
    BY <1>1, <1>8, <2>2 DEF Served, e
  <2>5. QED
    BY <2>1, <2>2, <2>3, <2>4 DEF TickEffect
<1>9. QED
  BY <1>6, <1>7, <1>8 DEF StartHead, Unserved, e, vs, b, lit

LEMMA HoldEffect ==
    ASSUME TypeOK, NEW c, Near(c), NEW D, NEW unreadable, NEW t \in Nat, NEW g,
           D.fired \in {disk.fired, ledger.fired}, t >= now, now' = t,
           Hold(c, D, unreadable, t, g)
    PROVE  TickEffect
<1>1. /\ queue' = queue /\ Unserved /\ valve' = c.vs /\ ledger' = c.L /\ disk' = D
      /\ session' = session \/ session' = [session EXCEPT !.closed = now']
  BY DEF Hold, Unserved
<1>2. QED
  BY <1>1 DEF TickEffect, HeadOnly, Near

LEMMA TickHasEffect ==
    ASSUME ControllerAssumption, TypeOK, NEW d \in Nat, Tick(d)
    PROVE  TickEffect
<1> PICK bad \in SUBSET Faulty, sync \in {synced, TRUE}, skew \in Skews :
        LET ep == IF sync THEN (now + d) + skew ELSE 0
        IN  ep >= 0 /\ (TickRuns(d, bad, sync, ep) \/ TickBoots(d, bad, sync, ep))
  BY TickCases
<1> DEFINE ep == IF sync THEN (now + d) + skew ELSE 0
           t == now + d
           g == AtLeast0(grace - d)
           stamp == StampOf(sync, ep)
           a == NoneDue(d, sync, ep)
           b == SomeDue(bad, d, sync, ep)
<1>1. t \in Nat /\ t >= now /\ ep \in Nat /\ sync \in BOOLEAN
  <2>1. now \in Nat /\ skew \in Int /\ synced \in BOOLEAN
    BY DEF TypeOK, ControllerAssumption
  <2>2. sync \in BOOLEAN
    BY <2>1, Zenon
  <2>3. QED
    BY <2>1, <2>2
<1> HIDE DEF ep
<1>2. TickRuns(d, bad, sync, ep) \/ TickBoots(d, bad, sync, ep)
  BY DEF ep
<1>3. a \in Snapshots /\ b \in Snapshots /\ stamp \in Stamps
  BY <1>1, SnapshotsTyped
<1>4. Near(a) /\ Near(b)
  <2>1. a.vs = valve /\ a.L = ledger
    BY DEF NoneDue, Snapshot
  <2>2. /\ b.L = Recorded(ledger, valve, Shut(bad, t), stamp)
        /\ \A v \in Valves : b.vs[v] = valve[v] \/ b.vs[v] = ClosedValve
    BY DEF SomeDue
  <2> HIDE DEF a, b, stamp, t
  <2>3. b.L.fired = ledger.fired
    BY <2>2, RecordedFired DEF TypeOK
  <2>4. QED
    BY <1>3, <2>1, <2>2, <2>3 DEF Near
<1> HIDE DEF a, b, stamp, t, g
<1>5. CASE TickRuns(d, bad, sync, ep)
  <2>1. now' = t
    BY <1>5 DEF TickRuns, t
  <2>2. ASSUME NEW c \in {a, b}, StartHead(c, bad, t, stamp, g) PROVE TickEffect
    BY <1>1, <1>3, <1>4, <2>1, <2>2, StartHeadEffect
  <2>3. ASSUME NEW c \in {a, b}, NEW D \in {disk, c.L}, NEW unreadable,
               Hold(c, D, unreadable, t, g)
        PROVE  TickEffect
    <3>1. D.fired \in {disk.fired, ledger.fired} /\ Near(c)
      BY <1>4, <2>3 DEF Near
    <3>2. QED
      BY <1>1, <2>1, <2>3, <3>1, HoldEffect
  <2>4. ASSUME UNCHANGED flash \/ CommitFails(b.L), StopAll(b, bad, t, stamp, TRUE), Unserved
        PROVE  TickEffect
    <3>1. Emptied /\ ledger'.fired = ledger.fired
          /\ \A v \in Valves : valve'[v] = b.vs[v] \/ valve'[v] = ClosedValve
      BY <1>3, <1>4, <2>4, StopAllEffect DEF Near
    <3>2. disk'.fired \in {disk.fired, ledger.fired}
      BY <1>4, <2>4, FlashEffect DEF Near
    <3>3. HeadOnly
      BY <1>4, <3>1 DEF HeadOnly, Near
    <3>4. QED
      BY <1>1, <2>1, <2>4, <3>1, <3>2, <3>3 DEF TickEffect
  <2>5. QED
    BY <1>5, <2>2, <2>3, <2>4 DEF TickRuns, Unserved, a, b, t, g, stamp
<1>6. CASE TickBoots(d, bad, sync, ep)
  <2>1. ASSUME NEW D \in Journals, D.fired = ledger.fired, Boot(t, D, FALSE) PROVE TickEffect
    <3>1. /\ now' \in Nat /\ now' >= t /\ Emptied /\ Unserved /\ ledger' = D /\ disk' = D
          /\ \A v \in Valves : valve'[v] = ClosedValve
      BY <1>1, <2>1, BootEffect
    <3>2. now' >= now
      BY <1>1, <3>1 DEF TypeOK
    <3>3. QED
      BY <2>1, <3>1, <3>2 DEF TickEffect, HeadOnly
  <2>2. \A c \in {a, b} : /\ c.L \in Journals /\ StartRecord(c, t, stamp) \in Journals
                           /\ c.L.fired = ledger.fired
                           /\ StartRecord(c, t, stamp).fired = ledger.fired
    <3>1. \A c \in {a, b} : c.L \in Journals /\ c.L.fired = ledger.fired
      BY <1>3, <1>4 DEF Near, Snapshots
    <3>2. QED
      BY <1>3, <3>1, RecordedType, RecordedFired DEF StartRecord
  <2>3. \/ Boot(t, b.L, FALSE)
        \/ \E c \in {a, b} : Boot(t, StartRecord(c, t, stamp), FALSE)
    BY <1>6 DEF TickBoots, a, b, t, stamp
  <2>4. QED
    BY <2>1, <2>2, <2>3
<1>7. QED
  BY <1>2, <1>5, <1>6

\* Only a tick energizes an output, and only the head's.
LEMMA StartsHead ==
    ASSUME ControllerAssumption, TypeOK, [Next]_vars, NEW v \in Valves, Starts(v)
    PROVE  /\ TickEffect /\ queue # <<>> /\ v = Head(queue).name
           /\ valve'[v].reason = Head(queue).reason
<1>1. valve'[v] # valve[v] /\ valve'[v] # ClosedValve
  BY DEF Starts, ClosedValve
<1>2. ASSUME NEW d \in 0 .. MaxSlice, Tick(d) PROVE TickEffect
  BY <1>2, TickHasEffect DEF ControllerAssumption
<1>3. ASSUME NEW t, NEW D, NEW unreadable, Boot(t, D, unreadable) PROVE FALSE
  BY <1>1, <1>3 DEF Boot
<1>4. ASSUME NEW c \in Snapshots, c.vs = valve, NEW bad, NEW t, NEW stamp, NEW fault,
             StopAll(c, bad, t, stamp, fault)
      PROVE  FALSE
  BY <1>1, <1>4 DEF StopAll
<1>5. Snapshot \in Snapshots /\ Snapshot.vs = valve
  BY SnapshotType DEF Snapshot
<1>6. ASSUME NEW s \in Schedules, FireSchedule(s) PROVE FALSE
  <2> DEFINE L == [ledger EXCEPT !.fired[s] = nowEpoch]
             c == [Snapshot EXCEPT !.L = L]
  <2>1. L \in Journals
    BY DEF TypeOK, Journals, Times
  <2>2. c \in Snapshots /\ c.vs = valve
    BY <1>5, <2>1 DEF Snapshots
  <2> HIDE DEF c
  <2>3. ASSUME NEW bad, NEW stamp, StopAll(c, bad, now, stamp, TRUE) PROVE FALSE
    BY <1>4, <2>2, <2>3
  <2>4. valve' # valve
    BY <1>1
  <2>5. QED
    BY <1>3, <1>6, <2>3, <2>4 DEF FireSchedule, c, outputs
<1>7. CASE Stop
  BY <1>3, <1>4, <1>5, <1>7 DEF Stop
<1>8. CASE PowerLoss
  BY <1>3, <1>8 DEF PowerLoss
<1>9. UNCHANGED valve => FALSE
  BY <1>1
<1>10. TickEffect
  BY <1>2, <1>6, <1>7, <1>8, <1>9 DEF Next, Water, MoistureHeld, EndSession, NextCycle, NewSession,
     Pause, Resume, MediaFault, vars, world, outputs
<1>11. QED
  BY <1>1, <1>10 DEF TickEffect, HeadOnly

-----------------------------------------------------------------------------
(* The soak: a closed batch has nothing open, queued or closed since. *)

Soaking ==
    /\ \A v \in Valves : stopped[v]["moisture"] <= now
    /\ session.closed # Never =>
        /\ queue = <<>>
        /\ \A v \in Valves : ~valve[v].open /\ stopped[v]["moisture"] <= session.closed

LEMMA MarkedPast ==
    ASSUME NEW h \in Marks, NEW vs, NEW S, NEW t \in Nat, NEW u \in Nat, u <= t,
           \A v \in Valves : h[v]["moisture"] <= u
    PROVE  \A v \in Valves : Marked(h, vs, S, t)[v]["moisture"] <= t
BY DEF Marked, Marks, Times, Never, Categories

\* A session that is over, or not yet drained, has no soak.
LEMMA BusySoaks ==
    ASSUME \A v \in Valves : stopped'[v]["moisture"] <= now', session'.closed = Never
    PROVE  Soaking'
BY DEF Soaking

LEMMA StopAllSoaks ==
    ASSUME TypeOK, NEW c \in Snapshots, NEW bad, NEW t \in Nat, NEW stamp, NEW fault, now <= t,
           \A v \in Valves : c.ends[v]["moisture"] <= t, StopAll(c, bad, t, stamp, fault),
           now' = t
    PROVE  Soaking'
<1>1. /\ stopped' = Marked(c.ends, c.vs, Open(c.vs) \ bad, t) /\ session' = NoSession
      /\ c.ends \in Marks
  BY DEF StopAll, Snapshots, Marks
<1>2. \A v \in Valves : stopped'[v]["moisture"] <= t
  BY <1>1, MarkedPast
<1>3. QED
  BY <1>1, <1>2, BusySoaks DEF NoSession

LEMMA BootEnds ==
    ASSUME ControllerAssumption, NEW t \in Nat, NEW D, NEW unreadable, Boot(t, D, unreadable)
    PROVE  /\ stopped' = Marked(stopped, valve, {v \in Valves : pin[v]}, t)
           /\ session' = NoSession /\ now' \in Nat /\ t <= now'
BY DEF Boot, ControllerAssumption

LEMMA BootSoaks ==
    ASSUME ControllerAssumption, TypeOK, Soaking, NEW t \in Nat, now <= t, NEW D,
           NEW unreadable, Boot(t, D, unreadable)
    PROVE  Soaking'
<1> DEFINE ends == Marked(stopped, valve, {v \in Valves : pin[v]}, t)
<1>1. /\ stopped' = ends /\ session' = NoSession /\ now' \in Nat /\ t <= now'
  BY BootEnds
<1>2. stopped \in Marks /\ now \in Nat /\ \A v \in Valves : stopped[v]["moisture"] <= now
  BY DEF TypeOK, Marks, Soaking
<1>3. ends \in Marks /\ \A v \in Valves : ends[v]["moisture"] <= t
  BY <1>2, MarkedType, MarkedPast DEF Marks
<1> HIDE DEF ends
<1>4. \A v \in Valves : ends[v]["moisture"] \in Int
  BY <1>3 DEF Marks, Times, Never, Categories
<1>5. \A v \in Valves : ends[v]["moisture"] <= now'
  BY <1>1, <1>3, <1>4
<1>6. QED
  BY <1>1, <1>5, BusySoaks DEF NoSession

\* A tick that starts nothing: only one without an open valve begins a soak.
LEMMA HoldSoaks ==
    ASSUME TypeOK, Soaking, NEW c \in Snapshots, NEW D, NEW unreadable, NEW t \in Nat, NEW g,
           \A v \in Valves : c.ends[v]["moisture"] <= t,
           \A v \in Valves : c.vs[v].open => valve[v].open,
           c.ends # stopped => \E v \in Valves : valve[v].open,
           Hold(c, D, unreadable, t, g), now' = t
    PROVE  Soaking'
<1>1. valve' = c.vs /\ stopped' = c.ends /\ queue' = queue
  BY DEF Hold
<1>2. CASE Drained(c, g)
  <2>1. session' = [session EXCEPT !.closed = t] /\ session'.closed = t
    BY <1>2 DEF Hold, TypeOK, Sessions
  <2>2. queue = <<>> /\ \A v \in Valves : ~c.vs[v].open
    BY <1>2 DEF Drained, AnyOpen, Open
  <2>3. QED
    BY <1>1, <2>1, <2>2 DEF Soaking
<1>3. CASE ~Drained(c, g)
  BY <1>1, <1>3 DEF Hold, Soaking
<1>4. QED
  BY <1>2, <1>3

\* A start: the session's queue was not yet empty.
LEMMA StartHeadSoaks ==
    ASSUME ControllerAssumption, TypeOK, Soaking, NEW c \in Snapshots, NEW bad, NEW t \in Nat,
           NEW stamp \in Stamps, NEW g, now <= t, \A v \in Valves : c.ends[v]["moisture"] <= t,
           StartHead(c, bad, t, stamp, g), now' = t
    PROVE  Soaking'
<1> DEFINE e == Head(queue)
           vs == Opened(c.vs, e, t)
           b == [c EXCEPT !.L = StartRecord(c, t, stamp), !.cd = Cooled(c.cd, vs, {e.name})]
           lit(x) == [b EXCEPT !.vs = vs, !.ps[e.name] = x]
<1>1. queue # <<>> /\ BodyTyped
  BY TypeParts DEF StartHead, MayStart
<1>2. b \in Snapshots /\ \A x \in BOOLEAN : lit(x) \in Snapshots
  BY <1>1, StartRecordType
<1>3. b.ends = c.ends /\ \A x : lit(x).ends = c.ends
  BY DEF Snapshots
<1> HIDE DEF e, vs, b, lit
<1>4. ASSUME stopped' = b.ends, session' = session PROVE Soaking'
  BY <1>1, <1>3, <1>4, BusySoaks DEF Soaking
<1>5. ASSUME StopAll(b, bad, t, stamp, TRUE) PROVE Soaking'
  BY <1>2, <1>3, <1>5, StopAllSoaks
<1>6. ASSUME NEW x \in BOOLEAN, StopAll(lit(x), bad, t, stamp, TRUE) PROVE Soaking'
  BY <1>2, <1>3, <1>6, StopAllSoaks
<1>7. QED
  BY <1>4, <1>5, <1>6 DEF StartHead, e, vs, b, lit

LEMMA TickSoaks ==
    ASSUME ControllerAssumption, TypeOK, Soaking, NEW d \in Nat, Tick(d)
    PROVE  Soaking'
<1> PICK bad \in SUBSET Faulty, sync \in {synced, TRUE}, skew \in Skews :
        LET ep == IF sync THEN (now + d) + skew ELSE 0
        IN  ep >= 0 /\ (TickRuns(d, bad, sync, ep) \/ TickBoots(d, bad, sync, ep))
  BY TickCases
<1> DEFINE ep == IF sync THEN (now + d) + skew ELSE 0
           t == now + d
           g == AtLeast0(grace - d)
           stamp == StampOf(sync, ep)
           due == {v \in Valves : Expired(v, t)}
           shut == Shut(bad, t)
           a == NoneDue(d, sync, ep)
           b == SomeDue(bad, d, sync, ep)
<1>1. t \in Nat /\ now <= t /\ now \in Nat /\ ep \in Nat /\ sync \in BOOLEAN
  <2>1. now \in Nat /\ skew \in Int /\ synced \in BOOLEAN
    BY DEF TypeOK, ControllerAssumption
  <2>2. sync \in BOOLEAN
    BY <2>1, Zenon
  <2>3. QED
    BY <2>1, <2>2
<1> HIDE DEF ep
<1>2. TickRuns(d, bad, sync, ep) \/ TickBoots(d, bad, sync, ep)
  BY DEF ep
<1>3. a \in Snapshots /\ b \in Snapshots /\ stamp \in Stamps
  BY <1>1, SnapshotsTyped
<1>4. a.vs = valve /\ a.ends = stopped
  BY DEF NoneDue, Snapshot
<1>5. /\ b.ends = Marked(stopped, valve, shut, t)
      /\ \A v \in Valves : b.vs[v].open => valve[v].open
  BY DEF SomeDue, ClosedValve
<1>6. due # {} => \E v \in Valves : valve[v].open
  BY DEF Expired
<1> HIDE DEF a, b, stamp, g, shut, due
<1>7. stopped \in Marks /\ \A v \in Valves : stopped[v]["moisture"] <= now
  BY DEF TypeOK, Marks, Soaking
<1>8. \A v \in Valves : a.ends[v]["moisture"] <= t /\ b.ends[v]["moisture"] <= t
  <2>1. \A v \in Valves : stopped[v]["moisture"] <= t
    BY <1>1, <1>7 DEF Marks, Times, Never, Categories
  <2> HIDE DEF t
  <2>2. \A v \in Valves : b.ends[v]["moisture"] <= t
    BY <1>1, <1>5, <1>7, MarkedPast
  <2>3. QED
    BY <1>4, <2>1, <2>2
<1> HIDE DEF t
<1>9. CASE TickBoots(d, bad, sync, ep)
  BY <1>1, <1>9, BootSoaks DEF TickBoots, t
<1>10. CASE TickRuns(d, bad, sync, ep)
  <2>1. now' = t
    BY <1>10 DEF TickRuns, t
  <2>2. ASSUME Hold(a, disk, damaged, t, g) PROVE Soaking'
    BY <1>1, <1>3, <1>4, <1>8, <2>1, <2>2, HoldSoaks
  <2>3. ASSUME due # {}, Hold(b, b.L, FALSE, t, g) PROVE Soaking'
    BY <1>1, <1>3, <1>5, <1>6, <1>8, <2>1, <2>3, HoldSoaks
  <2>4. ASSUME StartHead(a, bad, t, stamp, g) \/ StartHead(b, bad, t, stamp, g) PROVE Soaking'
    BY <1>1, <1>3, <1>8, <2>1, <2>4, StartHeadSoaks
  <2>5. ASSUME StopAll(b, bad, t, stamp, TRUE) PROVE Soaking'
    BY <1>1, <1>3, <1>8, <2>1, <2>5, StopAllSoaks
  <2>6. QED
    BY <1>10, <2>2, <2>3, <2>4, <2>5 DEF TickRuns, a, b, t, g, stamp, due
<1>11. QED
  BY <1>2, <1>9, <1>10

\* A schedule without targets queues nothing.
LEMMA NoTargets ==
    ASSUME ControllerAssumption, TypeOK, NEW s \in Schedules, Targets[s] = {},
           NEW names \in Orders(Targets[s])
    PROVE  queue \o Batch(names, RunLength, "schedule", <<s, nowEpoch>>) = queue
<1> DEFINE q == Batch(names, RunLength, "schedule", <<s, nowEpoch>>)
<1>1. DOMAIN names = 1 .. 0
  BY FS_EmptySet DEF Orders
<1>2. names \in Seq(Valves)
  BY OrderType DEF ControllerAssumption
<1>3. q \in Seq(Entries)
  BY <1>2, BatchType DEF Reasons, TypeOK, ControllerAssumption
<1>4. DOMAIN q = 1 .. 0
  BY <1>1 DEF Batch
<1> HIDE DEF q
<1>5. Len(q) = 0
  BY <1>3, <1>4
<1>6. queue \in Seq(Entries)
  BY DEF TypeOK
<1>7. queue \o q = queue
  BY <1>3, <1>5, <1>6
<1>8. QED
  BY <1>7 DEF q

LEMMA NextSoaks ==
    ASSUME ControllerAssumption, TypeOK, Soaking, [Next]_vars
    PROVE  Soaking'
<1>1. now \in Nat /\ now <= now /\ \A v \in Valves : stopped[v]["moisture"] <= now
  BY DEF TypeOK, Soaking
<1>2. ASSUME NEW c \in Snapshots, NEW bad, NEW stamp, NEW fault, c.ends = stopped, now' = now,
             StopAll(c, bad, now, stamp, fault)
      PROVE  Soaking'
  BY <1>1, <1>2, StopAllSoaks
<1>3. ASSUME NEW D, NEW unreadable, Boot(now, D, unreadable) PROVE Soaking'
  BY <1>1, <1>3, BootSoaks
<1>4. ASSUME UNCHANGED <<now, stopped>>, session'.closed = Never PROVE Soaking'
  BY <1>1, <1>4, BusySoaks
<1>5. ASSUME UNCHANGED <<now, stopped, queue, session, valve>> PROVE Soaking'
  BY <1>5 DEF Soaking
<1>6. Snapshot \in Snapshots /\ Snapshot.ends = stopped /\ NoSession.closed = Never
  BY SnapshotType DEF Snapshot, NoSession
<1>7. ASSUME NEW d \in 0 .. MaxSlice, Tick(d) PROVE Soaking'
  BY <1>7, TickSoaks DEF ControllerAssumption
<1>8. ASSUME NEW s \in Schedules, FireSchedule(s) PROVE Soaking'
  <2> DEFINE L == [ledger EXCEPT !.fired[s] = nowEpoch]
             a == [Snapshot EXCEPT !.L = L]
  <2>1. L \in Journals
    BY DEF TypeOK, Journals, Times
  <2>2. a \in Snapshots /\ a.ends = stopped
    BY <1>6, <2>1 DEF Snapshots
  <2> HIDE DEF L, a
  <2>3. ASSUME NEW names \in Orders(Targets[s]), Targets[s] = {},
               queue' = queue \o Batch(names, RunLength, "schedule", <<s, nowEpoch>>),
               session' = session, UNCHANGED <<now, outputs, history>>
        PROVE  Soaking'
    BY <1>5, <2>3, NoTargets DEF outputs, history
  <2>4. ASSUME Targets[s] # {}, session' = NoSession, UNCHANGED <<now, outputs, history>>
        PROVE  Soaking'
    BY <1>4, <1>6, <2>4 DEF history
  <2>5. ASSUME NEW bad, NEW stamp, StopAll(a, bad, now, stamp, TRUE), now' = now PROVE Soaking'
    BY <1>2, <2>2, <2>5
  <2>6. QED
    BY <1>3, <1>8, <2>3, <2>4, <2>5, FireEnqueues DEF FireSchedule, TypeOK, L, a
<1>9. CASE Stop
  BY <1>2, <1>3, <1>6, <1>9 DEF Stop
<1>10. CASE PowerLoss
  BY <1>3, <1>10 DEF PowerLoss
<1>11. CASE NextCycle
  <2>1. session'.closed = Never
    BY <1>11 DEF NextCycle, TypeOK, Sessions
  <2>2. QED
    BY <1>4, <1>11, <2>1 DEF NextCycle, world, history
<1>12. CASE \/ \E r \in Requests : Water(r.names, r.dur)
            \/ \E z \in Zones : NewSession(z)
            \/ MoistureHeld \/ EndSession
  <2>1. UNCHANGED <<now, stopped>>
    BY <1>12 DEF Water, NewSession, MoistureHeld, EndSession, world, history
  <2>2. session' = NoSession
        \/ \E names : session' = [valves |-> names, cycles |-> 1, closed |-> Never]
    BY <1>12 DEF Water, NewSession, MoistureHeld, EndSession
  <2>3. session'.closed = Never
    BY <1>6, <2>2
  <2>4. QED
    BY <1>4, <2>1, <2>3
<1>13. CASE Pause \/ Resume \/ MediaFault \/ UNCHANGED vars
  BY <1>5, <1>13 DEF Pause, Resume, MediaFault, vars, world, outputs, history
<1>14. QED
  BY <1>7, <1>8, <1>9, <1>10, <1>11, <1>12, <1>13 DEF Next

\* Only another cycle, never a late effect of a tick, raises the count of a session.
LEMMA OnlyNextCycle ==
    ASSUME ControllerAssumption, TypeOK, [Next]_vars,
           session.cycles > 0, session'.cycles > session.cycles
    PROVE  NextCycle
<1>1. session.cycles \in Nat /\ NoSession.cycles = 0
      /\ \A t : [session EXCEPT !.closed = t].cycles = session.cycles
  BY DEF TypeOK, Sessions, NoSession
<1>2. session' # session /\ session' # NoSession
      /\ \A t : session' # [session EXCEPT !.closed = t]
  <2> DEFINE n == session.cycles
             m == session'.cycles
  <2>1. n \in Nat /\ n > 0 /\ m > n
    BY <1>1
  <2>2. ASSUME m = n \/ m = 0 PROVE FALSE
    BY <2>1, <2>2
  <2>3. QED
    BY <1>1, <2>2
<1>3. ASSUME NEW d \in 0 .. MaxSlice, Tick(d) PROVE FALSE
  <2>1. TickEffect
    BY <1>3, TickHasEffect DEF ControllerAssumption
  <2>2. QED
    BY <1>2, <2>1 DEF TickEffect, Emptied
<1>4. ASSUME NEW z \in Zones, NewSession(z) PROVE FALSE
  BY <1>1, <1>4 DEF NewSession
<1>5. CASE \/ \E r \in Requests : Water(r.names, r.dur)
           \/ \E s \in Schedules : FireSchedule(s)
           \/ MoistureHeld \/ EndSession \/ Stop \/ Pause \/ Resume \/ PowerLoss \/ MediaFault
           \/ UNCHANGED vars
  BY <1>2, <1>5 DEF Water, FireSchedule, MoistureHeld, EndSession, Stop, Pause, Resume, PowerLoss,
     MediaFault, vars, StopAll, Boot
<1>6. QED
  BY <1>3, <1>4, <1>5 DEF Next

\* A further cycle waits a full soak after each valve of the session closed
\* (controller.py:219), whatever else closed or queued runs in between.
THEOREM SoaksBeforeCycles == Spec => SoakBeforeRewatering
<1>1. Init => Soaking
  BY DEF Init, Soaking, NoSession, Never, Categories
<1>2. TypeOK /\ Soaking /\ [Next]_vars => Soaking'
  BY NextSoaks, ControllerAssumption
<1>3. TypeOK /\ Soaking /\ [Next]_vars =>
        [session.cycles > 0 /\ session'.cycles > session.cycles
           => \A i \in DOMAIN session.valves :
                 now - stopped[session.valves[i]]["moisture"] >= Soak]_vars
  <2> SUFFICES ASSUME TypeOK, Soaking, [Next]_vars,
                      session.cycles > 0, session'.cycles > session.cycles,
                      NEW i \in DOMAIN session.valves
               PROVE  now - stopped[session.valves[i]]["moisture"] >= Soak
    OBVIOUS
  <2> DEFINE v == session.valves[i]
             x == stopped[v]["moisture"]
             y == session.closed
  <2>1. NextCycle
    BY OnlyNextCycle, ControllerAssumption
  <2>2. y # Never /\ now - y >= Soak
    BY <2>1 DEF NextCycle, Soaked
  <2>3. v \in Valves
    BY DEF TypeOK, Sessions
  <2>4. x \in Int /\ y \in Int /\ now \in Int /\ Soak \in Int
    BY <2>3, ControllerAssumption DEF TypeOK, Sessions, Times, Never, Categories, ControllerAssumption
  <2>5. x <= y
    BY <2>2, <2>3 DEF Soaking
  <2> HIDE DEF v, x, y
  <2>6. now - x >= Soak
    BY <2>2, <2>4, <2>5
  <2>7. QED
    BY <2>6 DEF v, x
<1>4. QED
  BY <1>1, <1>2, <1>3, TypeCorrect, PTL DEF Spec, SoakBeforeRewatering

-----------------------------------------------------------------------------
(***************************************************************************)
(* Moisture runs yield to scheduled ones.  A session's valves were rested  *)
(* when it began; a scheduled run of one of them cannot come between,      *)
(* because what is queued behind moisture runs ends their session.         *)
(***************************************************************************)

Rested(st, t, v) == st[v]["schedule"] # Never => t - st[v]["schedule"] >= Interval["schedule"]
Yielding ==
    /\ \A i \in DOMAIN queue : queue[i].reason = "moisture" =>
          /\ Rested(started, now, queue[i].name)
          /\ \A j \in 1 .. i : queue[j].reason = "moisture"
    /\ session.cycles > 0 =>
          /\ \A i \in DOMAIN session.valves : Rested(started, now, session.valves[i])
          /\ \A i \in DOMAIN queue : queue[i].reason = "moisture"

LEMMA Named ==
    ASSUME TypeOK
    PROVE  /\ \A i \in DOMAIN queue : queue[i] \in Entries /\ queue[i].name \in Valves
           /\ \A i \in DOMAIN session.valves : session.valves[i] \in Valves
<1>1. queue \in Seq(Entries) /\ session \in Sessions
  BY DEF TypeOK
<1>2. session.valves \in Seq(Valves)
  BY <1>1 DEF Sessions
<1>3. \A i \in DOMAIN queue : queue[i] \in Entries
  BY <1>1
<1>4. \A i \in DOMAIN queue : queue[i].name \in Valves
  BY <1>3 DEF Entries
<1>5. QED
  BY <1>2, <1>3, <1>4

\* A valve stays rested until a scheduled run of it starts.
LEMMA StaysRested ==
    ASSUME TypeOK, ControllerAssumption, NEW v \in Valves, Rested(started, now, v),
           now' \in Nat, now' >= now,
           started'[v]["schedule"] = started[v]["schedule"]
    PROVE  Rested(started', now', v)
<1> DEFINE s == started[v]["schedule"]
           u == started'[v]["schedule"]
           i == Interval["schedule"]
<1>0. u = s
  OBVIOUS
<1>1. s \in Int /\ i \in Nat /\ now \in Nat
  BY DEF TypeOK, ControllerAssumption, Times, Never, Categories
<1>2. s # Never => now - s >= i
  BY DEF Rested
<1> HIDE DEF s, u, i
<1>3. ASSUME NEW n \in Nat, n >= now PROVE s # Never => n - s >= i
  BY <1>1, <1>2, <1>3
<1>4. s # Never => now' - s >= i
  BY <1>3
<1>5. u # Never => now' - u >= i
  BY <1>0, <1>4, Zenon
<1>6. QED
  BY <1>5 DEF Rested, u, i

\* A tick that leaves the queue or starts its head.
LEMMA TickYields ==
    ASSUME ControllerAssumption, TypeOK, Yielding, TickEffect
    PROVE  Yielding'
<1>1. CASE Emptied
  BY <1>1 DEF Emptied, Yielding, NoSession
<1>2. CASE /\ queue' = queue /\ Unserved
           /\ session' = session \/ session' = [session EXCEPT !.closed = now']
  <2>1. session'.cycles = session.cycles /\ session'.valves = session.valves
    BY <1>2 DEF TypeOK, Sessions
  <2>2. ASSUME NEW v \in Valves, Rested(started, now, v) PROVE Rested(started', now', v)
    BY <1>2, <2>2, StaysRested DEF TickEffect, Unserved
  <2>3. /\ \A i \in DOMAIN queue : queue[i].name \in Valves
        /\ \A i \in DOMAIN session.valves : session.valves[i] \in Valves
    BY Named
  <2>4. \A i \in DOMAIN queue : queue[i].reason = "moisture" =>
           /\ Rested(started', now', queue[i].name)
           /\ \A j \in 1 .. i : queue[j].reason = "moisture"
    BY <2>2, <2>3 DEF Yielding
  <2>5. session.cycles > 0 =>
           /\ \A i \in DOMAIN session.valves : Rested(started', now', session.valves[i])
           /\ \A i \in DOMAIN queue : queue[i].reason = "moisture"
    BY <2>2, <2>3 DEF Yielding
  <2>6. QED
    BY <1>2, <2>1, <2>4, <2>5 DEF Yielding
<1>3. CASE queue' = Tail(queue) /\ session' = session /\ Served
  <2> DEFINE e == Head(queue)
  <2>1. queue # <<>> /\ queue \in Seq(Entries) /\ e \in Entries /\ e = queue[1]
        /\ 1 \in DOMAIN queue
    BY <1>3 DEF Served, TypeOK
  <2>2. \A i \in DOMAIN queue' : /\ i + 1 \in DOMAIN queue /\ queue'[i] = queue[i + 1]
                                 /\ i \in Nat /\ 1 \in 1 .. (i + 1)
                                 /\ \A j \in 1 .. i : /\ j + 1 \in 1 .. (i + 1)
                                                      /\ queue'[j] = queue[j + 1]
    BY <1>3, <2>1
  <2>3. started' = [started EXCEPT ![e.name][Category(e.reason)] = now']
    BY <1>3 DEF Served, Note
  <2>4. ASSUME NEW v \in Valves, e.reason = "moisture", Rested(started, now, v)
        PROVE  Rested(started', now', v)
    <3>1. Category(e.reason) = "moisture"
      BY <2>4 DEF Category
    <3>2. started'[v]["schedule"] = started[v]["schedule"]
      BY <2>1, <2>3, <3>1 DEF TypeOK, Categories, Entries
    <3>3. QED
      BY <2>4, <3>2, StaysRested DEF TickEffect
  <2>5. /\ \A i \in DOMAIN queue : queue[i].name \in Valves
        /\ \A i \in DOMAIN session.valves : session.valves[i] \in Valves
    BY Named
  <2>6. ASSUME NEW i \in DOMAIN queue', queue'[i].reason = "moisture"
        PROVE  /\ Rested(started', now', queue'[i].name)
               /\ \A j \in 1 .. i : queue'[j].reason = "moisture"
    <3>1. /\ Rested(started, now, queue[i + 1].name)
          /\ \A j \in 1 .. (i + 1) : queue[j].reason = "moisture"
      BY <2>2, <2>6 DEF Yielding
    <3>2. e.reason = "moisture"
      BY <2>1, <2>2, <3>1
    <3>3. QED
      BY <2>2, <2>4, <2>5, <3>1, <3>2
  <2>7. ASSUME session'.cycles > 0
        PROVE  /\ \A i \in DOMAIN session'.valves : Rested(started', now', session'.valves[i])
               /\ \A i \in DOMAIN queue' : queue'[i].reason = "moisture"
    <3>1. /\ \A i \in DOMAIN session.valves : Rested(started, now, session.valves[i])
          /\ \A i \in DOMAIN queue : queue[i].reason = "moisture"
      BY <1>3, <2>7 DEF Yielding
    <3>2. e.reason = "moisture"
      BY <2>1, <3>1
    <3>3. QED
      BY <1>3, <2>2, <2>4, <2>5, <3>1, <3>2
  <2>8. QED
    BY <2>6, <2>7 DEF Yielding
<1>4. QED
  BY <1>1, <1>2, <1>3 DEF TickEffect

\* What a batch asks for, and what follows it in the queue.
LEMMA BatchEntries ==
    ASSUME NEW names \in Seq(Valves), NEW dur, NEW reason, NEW occ,
           Batch(names, dur, reason, occ) \in Seq(Entries), queue \in Seq(Entries)
    PROVE  LET q == Batch(names, dur, reason, occ)
               both == queue \o q
           IN  /\ DOMAIN q = DOMAIN names
               /\ \A i \in DOMAIN names : /\ q[i].name = names[i] /\ q[i].reason = reason
                                          /\ q[i].occ = occ
               /\ \A i \in DOMAIN both :
                     \/ i \in DOMAIN queue /\ both[i] = queue[i]
                     \/ /\ i \in Nat /\ i > Len(queue) /\ i - Len(queue) \in DOMAIN names
                        /\ both[i] = q[i - Len(queue)]
<1> DEFINE q == Batch(names, dur, reason, occ)
           both == queue \o q
<1>1. /\ DOMAIN q = DOMAIN names
      /\ \A i \in DOMAIN names : /\ q[i].name = names[i] /\ q[i].reason = reason
                                 /\ q[i].occ = occ
  BY DEF Batch
<1> HIDE DEF q
<1>2. \A i \in DOMAIN both :
         \/ i \in DOMAIN queue /\ both[i] = queue[i]
         \/ i \in Nat /\ i > Len(queue) /\ i - Len(queue) \in DOMAIN q /\ both[i] = q[i - Len(queue)]
  BY DEF q
<1>3. QED
  BY <1>1, <1>2 DEF q

\* An explicit run is queued behind the moisture runs and ends their session.
LEMMA AppendYields ==
    ASSUME TypeOK, Yielding, NEW names \in Seq(Valves), NEW dur, NEW reason, reason # "moisture",
           NEW occ, Batch(names, dur, reason, occ) \in Seq(Entries),
           queue' = queue \o Batch(names, dur, reason, occ), session' = NoSession,
           UNCHANGED <<now, started>>
    PROVE  Yielding'
<1> DEFINE q == Batch(names, dur, reason, occ)
<1>1. queue \in Seq(Entries) /\ q \in Seq(Entries)
  BY DEF TypeOK
<1>2. /\ \A i \in DOMAIN q : q[i].reason = reason
      /\ \A i \in DOMAIN queue' :
            \/ i \in DOMAIN queue /\ queue'[i] = queue[i]
            \/ queue'[i].reason = reason
  BY <1>1, BatchEntries
<1>3. \A i \in DOMAIN queue : \A j \in 1 .. i : j \in DOMAIN queue /\ queue'[j] = queue[j]
  BY <1>1
<1> HIDE DEF q
<1>4. ASSUME NEW i \in DOMAIN queue', queue'[i].reason = "moisture"
      PROVE  /\ Rested(started', now', queue'[i].name)
             /\ \A j \in 1 .. i : queue'[j].reason = "moisture"
  <2>1. i \in DOMAIN queue /\ queue'[i] = queue[i]
    BY <1>2, <1>4
  <2>2. Rested(started, now, queue[i].name) /\ \A j \in 1 .. i : queue[j].reason = "moisture"
    BY <1>4, <2>1 DEF Yielding
  <2>3. QED
    BY <1>3, <2>1, <2>2
<1>5. QED
  BY <1>4 DEF Yielding, NoSession

\* A cycle queues the valves of its session.
LEMMA CycleYields ==
    ASSUME TypeOK, NEW names \in Seq(Valves), NEW dur,
           Batch(names, dur, "moisture", <<>>) \in Seq(Entries),
           queue' = Batch(names, dur, "moisture", <<>>), session'.valves = names,
           \A i \in DOMAIN names : Rested(started, now, names[i]), UNCHANGED <<now, started>>
    PROVE  Yielding'
<1>1. queue \in Seq(Entries)
  BY DEF TypeOK
<1>2. /\ DOMAIN queue' = DOMAIN names
      /\ \A i \in DOMAIN names : queue'[i].name = names[i] /\ queue'[i].reason = "moisture"
  BY <1>1, BatchEntries
<1>3. \A i \in DOMAIN names : \A j \in 1 .. i : j \in DOMAIN names
  OBVIOUS
<1>4. QED
  BY <1>2, <1>3 DEF Yielding

LEMMA NextYields ==
    ASSUME ControllerAssumption, TypeOK, CooldownCovers, Yielding, [Next]_vars
    PROVE  Yielding'
<1>1. ASSUME queue' = <<>>, session' = NoSession PROVE Yielding'
  BY <1>1 DEF Yielding, NoSession
<1>2. ASSUME UNCHANGED <<now, started, queue>>, session' \in {session, NoSession} PROVE Yielding'
  BY <1>2 DEF Yielding, NoSession
<1>3. ASSUME NEW d \in 0 .. MaxSlice, Tick(d) PROVE Yielding'
  BY <1>3, TickHasEffect, TickYields DEF ControllerAssumption
<1>4. ASSUME NEW r \in Requests, Water(r.names, r.dur) PROVE Yielding'
  <2>1. r.names \in Seq(Valves) /\ r.dur \in 1 .. MaxOpen
    BY DEF ControllerAssumption
  <2>2. Batch(r.names, r.dur, "manual", <<>>) \in Seq(Entries)
    BY <2>1, BatchType DEF Reasons
  <2>3. QED
    BY <1>4, <2>1, <2>2, AppendYields DEF Water, world, history
<1>5. ASSUME NEW s \in Schedules, FireSchedule(s) PROVE Yielding'
  <2>1. ASSUME NEW names \in Orders(Targets[s]),
               queue' = queue \o Batch(names, RunLength, "schedule", <<s, nowEpoch>>),
               session' = IF Targets[s] = {} THEN session ELSE NoSession,
               UNCHANGED <<now, history>>
        PROVE  Yielding'
    <3>1. names \in Seq(Valves)
      BY OrderType DEF ControllerAssumption
    <3>2. Batch(names, RunLength, "schedule", <<s, nowEpoch>>) \in Seq(Entries)
      BY <3>1, BatchType DEF Reasons, TypeOK, ControllerAssumption
    <3>3. CASE Targets[s] = {}
      BY <1>2, <2>1, <3>3, NoTargets DEF history
    <3>4. CASE Targets[s] # {}
      BY <2>1, <3>1, <3>2, <3>4, AppendYields DEF history
    <3>5. QED
      BY <3>3, <3>4
  <2>2. QED
    BY <1>1, <1>5, <2>1, FireEnqueues DEF FireSchedule, TypeOK, StopAll, Boot
<1>6. CASE NextCycle
  <2>1. session.cycles > 0 /\ session'.valves = session.valves /\ session.valves \in Seq(Valves)
    BY <1>6 DEF NextCycle, TypeOK, Sessions
  <2>2. Batch(session.valves, RunLength, "moisture", <<>>) \in Seq(Entries)
    BY <2>1, BatchType DEF Reasons, ControllerAssumption
  <2>3. QED
    BY <1>6, <2>1, <2>2, CycleYields DEF NextCycle, Yielding, world, history
<1>7. ASSUME NEW z \in Zones, NewSession(z) PROVE Yielding'
  <2> PICK names \in Orders(Runnable(z)) :
        /\ session' = [valves |-> names, cycles |-> 1, closed |-> Never]
        /\ queue' = Batch(names, RunLength, "moisture", <<>>)
    BY <1>7 DEF NewSession
  <2>1. Runnable(z) \in SUBSET Valves
    BY DEF Runnable, ControllerAssumption
  <2>2. names \in Seq(Valves) /\ \A i \in DOMAIN names : names[i] \in Runnable(z)
    BY <2>1, OrderType DEF Orders
  <2>3. Batch(names, RunLength, "moisture", <<>>) \in Seq(Entries)
    BY <2>2, BatchType DEF Reasons, ControllerAssumption
  <2>4. ASSUME NEW v \in Runnable(z) PROVE Rested(started, now, v)
    <3> DEFINE c == cooldown[v]["schedule"]
               x == started[v]["schedule"]
               n == Interval["schedule"]
    <3>1. v \in Valves /\ c = 0
      BY <2>1 DEF Runnable, Categories
    <3>2. x # Never => c + (now - x) >= n
      BY <3>1 DEF CooldownCovers, Categories
    <3>3. x \in Int /\ n \in Nat /\ now \in Nat
      BY <3>1 DEF TypeOK, ControllerAssumption, Times, Never, Categories
    <3> HIDE DEF c, x, n
    <3>4. x # Never => now - x >= n
      BY <3>1, <3>2, <3>3
    <3>5. QED
      BY <3>4 DEF Rested, x, n
  <2>5. UNCHANGED <<now, started>> /\ session'.valves = names
    BY <1>7 DEF NewSession, world, history
  <2>6. QED
    BY <2>2, <2>3, <2>4, <2>5, CycleYields
<1>8. CASE Stop \/ PowerLoss
  BY <1>1, <1>8 DEF Stop, PowerLoss, StopAll, Boot
<1>9. CASE MoistureHeld \/ EndSession \/ Pause \/ Resume \/ MediaFault \/ UNCHANGED vars
  BY <1>2, <1>9 DEF MoistureHeld, EndSession, Pause, Resume, MediaFault, vars, world, history
<1>10. QED
  BY <1>3, <1>4, <1>5, <1>6, <1>7, <1>8, <1>9 DEF Next

\* A moisture run never starts within the lockout of a scheduled run of its valve, with an
\* accurate clock and a flash that keeps one generation of the journal.
THEOREM MoistureAlwaysYields == Skews = {0} /\ ~MediaFaults => (Spec => MoistureYields)
<1> SUFFICES ASSUME Skews = {0}, ~MediaFaults PROVE Spec => MoistureYields
  OBVIOUS
<1>1. Init => Yielding
  BY DEF Init, Yielding, NoSession
<1>2. Spec => []CooldownCovers
  BY LockoutsCover
<1>3. TypeOK /\ CooldownCovers /\ Yielding /\ [Next]_vars => Yielding'
  BY NextYields, ControllerAssumption
<1>4. TypeOK /\ Yielding /\ [Next]_vars =>
        [\A v \in Valves :
            Starts(v) /\ valve'[v].reason = "moisture" /\ started[v]["schedule"] # Never
              => now' - started[v]["schedule"] >= Interval["schedule"]]_vars
  <2> SUFFICES ASSUME TypeOK, Yielding, [Next]_vars, NEW v \in Valves, Starts(v),
                      valve'[v].reason = "moisture", started[v]["schedule"] # Never
               PROVE  now' - started[v]["schedule"] >= Interval["schedule"]
    OBVIOUS
  <2> DEFINE x == started[v]["schedule"]
             n == Interval["schedule"]
  <2>1. /\ TickEffect /\ queue # <<>> /\ v = Head(queue).name
        /\ Head(queue).reason = "moisture"
    BY StartsHead, ControllerAssumption
  <2>2. queue \in Seq(Entries)
    BY DEF TypeOK
  <2>3. 1 \in DOMAIN queue /\ Head(queue) = queue[1]
    BY <2>1, <2>2
  <2>4. Rested(started, now, v)
    BY <2>1, <2>3 DEF Yielding
  <2>5. now - x >= n
    BY <2>4 DEF Rested
  <2>6. x \in Int /\ n \in Nat /\ now \in Nat
    BY ControllerAssumption DEF TypeOK, ControllerAssumption, Times, Never, Categories
  <2>7. now' \in Nat /\ now' >= now
    BY <2>1 DEF TickEffect
  <2> HIDE DEF x, n
  <2>8. ASSUME NEW t \in Nat, t >= now PROVE t - x >= n
    BY <2>5, <2>6, <2>8
  <2>9. now' - x >= n
    BY <2>7, <2>8
  <2>10. QED
    BY <2>9 DEF x, n
<1>5. QED
  BY <1>1, <1>2, <1>3, <1>4, TypeCorrect, PTL DEF Spec, MoistureYields

-----------------------------------------------------------------------------
(***************************************************************************)
(* Occurrences.  A queued occurrence is later than any that energized its  *)
(* valve, the ones of a valve are queued in order, and none of them is     *)
(* ahead of the journals, which decide what fires next.                    *)
(***************************************************************************)

Timed(e) == e.occ # <<>>
Fresh(e, sv, L) == Timed(e) => /\ e.occ[2] > sv[e.name][e.occ[1]]
                               /\ e.occ[2] <= L.fired[e.occ[1]]
Before(d, e) == Timed(d) /\ Timed(e) /\ d.name = e.name /\ d.occ[1] = e.occ[1]
                  => d.occ[2] < e.occ[2]
Behind(sv, L) == \A v \in Valves, s \in Schedules : sv[v][s] <= L.fired[s]

Ordered ==
    /\ \A i \in DOMAIN queue : Fresh(queue[i], served, ledger)
    /\ \A j \in DOMAIN queue : \A i \in 1 .. (j - 1) : Before(queue[i], queue[j])
    /\ Behind(served, ledger) /\ Behind(served, disk)

\* A handler that empties the queue.
LEMMA EmptiedOrdered ==
    ASSUME queue' = <<>>, Behind(served', ledger'), Behind(served', disk')
    PROVE  Ordered'
BY DEF Ordered

\* Energizing the head keeps the history behind both journals.
LEMMA ServedBehind ==
    ASSUME TypeOK, Ordered, Served, ledger'.fired = ledger.fired
    PROVE  /\ Behind(served', ledger') /\ Behind(served', disk')
           /\ \A i \in 2 .. Len(queue) : Fresh(queue[i], served', ledger')
<1> DEFINE e == Head(queue)
<1>1. queue \in Seq(Entries) /\ queue # <<>>
  BY DEF Served, TypeOK
<1>2. e \in Entries /\ e = queue[1] /\ 1 \in DOMAIN queue
  BY <1>1
<1>3. /\ served' = IF ~Timed(e) THEN served
                   ELSE [served EXCEPT ![e.name][e.occ[1]] = e.occ[2]]
      /\ disk'.fired = ledger.fired
  BY DEF Served, Note, Timed
<1>4. served \in [Valves -> [Schedules -> Times]]
  BY DEF TypeOK
<1>5. Fresh(e, served, ledger) /\ Behind(served, ledger)
  BY <1>2 DEF Ordered
<1>6. \A i \in 2 .. Len(queue) : /\ Before(e, queue[i]) /\ Fresh(queue[i], served, ledger)
                                 /\ queue[i] \in Entries
  BY <1>1, <1>2 DEF Ordered
<1> HIDE DEF e
<1>7. CASE ~Timed(e)
  BY <1>3, <1>5, <1>6, <1>7 DEF Behind, Fresh
<1>8. CASE Timed(e)
  <2> DEFINE u == e.name
             r == e.occ[1]
             m == e.occ[2]
  <2>1. u \in Valves /\ r \in Schedules /\ m \in Nat
    BY <1>2, <1>8 DEF Entries, Timed
  <2>2. m <= ledger.fired[r]
    BY <1>5, <1>8 DEF Fresh
  <2>3. served' = [served EXCEPT ![u][r] = m]
    BY <1>3, <1>8
  <2> HIDE DEF u, r, m
  <2>4. \A v \in Valves, s \in Schedules :
           served'[v][s] = IF v = u /\ s = r THEN m ELSE served[v][s]
    BY <1>4, <2>1, <2>3
  <2>5. \A v \in Valves, s \in Schedules : served'[v][s] <= ledger.fired[s]
    BY <1>5, <2>2, <2>4 DEF Behind
  <2>6. Behind(served', ledger') /\ Behind(served', disk')
    BY <1>3, <2>5 DEF Behind
  <2>7. ASSUME NEW i \in 2 .. Len(queue) PROVE Fresh(queue[i], served', ledger')
    <3> DEFINE f == queue[i]
    <3>1. Before(e, f) /\ Fresh(f, served, ledger) /\ f \in Entries
      BY <1>6
    <3> HIDE DEF f
    <3> SUFFICES ASSUME Timed(f)
                 PROVE  f.occ[2] > served'[f.name][f.occ[1]] /\ f.occ[2] <= ledger'.fired[f.occ[1]]
      BY DEF Fresh, f
    <3>2. f.name \in Valves /\ f.occ[1] \in Schedules
      BY <3>1 DEF Entries, Timed
    <3>3. f.occ[2] > served[f.name][f.occ[1]] /\ f.occ[2] <= ledger.fired[f.occ[1]]
      BY <3>1 DEF Fresh
    <3>4. CASE f.name = u /\ f.occ[1] = r
      <4>1. served'[f.name][f.occ[1]] = m
        BY <2>4, <3>2, <3>4
      <4>2. m < f.occ[2]
        BY <1>8, <3>1, <3>4 DEF Before, u, r, m
      <4>3. f.occ[2] \in Nat
        BY <3>1 DEF Entries, Timed
      <4>4. QED
        BY <2>1, <3>3, <4>1, <4>2, <4>3
    <3>5. CASE ~(f.name = u /\ f.occ[1] = r)
      BY <2>4, <3>2, <3>3, <3>5
    <3>6. QED
      BY <3>4, <3>5
  <2>8. QED
    BY <2>6, <2>7
<1>9. QED
  BY <1>7, <1>8

LEMMA TickOrdered ==
    ASSUME TypeOK, Ordered, TickEffect
    PROVE  Ordered'
<1>1. ledger'.fired = ledger.fired /\ disk'.fired \in {disk.fired, ledger.fired}
  BY DEF TickEffect
<1>2. ASSUME Unserved
      PROVE  /\ Behind(served', ledger') /\ Behind(served', disk')
             /\ \A i \in DOMAIN queue : Fresh(queue[i], served', ledger')
  BY <1>1, <1>2 DEF Unserved, Ordered, Behind, Fresh
<1>3. CASE Emptied
  BY <1>1, <1>2, <1>3, EmptiedOrdered, ServedBehind DEF TickEffect, Emptied
<1>4. CASE queue' = queue /\ Unserved
  BY <1>2, <1>4 DEF Ordered
<1>5. CASE queue' = Tail(queue) /\ Served
  <2>1. queue # <<>> /\ queue \in Seq(Entries)
    BY <1>5 DEF Served, TypeOK
  <2>2. \A i \in DOMAIN queue' : /\ i \in Nat /\ i + 1 \in 2 .. Len(queue) /\ i + 1 \in DOMAIN queue
                                 /\ queue'[i] = queue[i + 1]
                                 /\ \A j \in 1 .. (i - 1) : /\ j + 1 \in 1 .. ((i + 1) - 1)
                                                            /\ queue'[j] = queue[j + 1]
    BY <1>5, <2>1
  <2>3. /\ Behind(served', ledger') /\ Behind(served', disk')
        /\ \A i \in 2 .. Len(queue) : Fresh(queue[i], served', ledger')
    BY <1>1, <1>5, ServedBehind
  <2>4. \A j \in DOMAIN queue : \A i \in 1 .. (j - 1) : Before(queue[i], queue[j])
    BY DEF Ordered
  <2>5. \A i \in DOMAIN queue' : Fresh(queue'[i], served', ledger')
    BY <2>2, <2>3
  <2>6. \A j \in DOMAIN queue' : \A i \in 1 .. (j - 1) : Before(queue'[i], queue'[j])
    BY <2>2, <2>4
  <2>7. QED
    BY <2>3, <2>5, <2>6 DEF Ordered
<1>6. QED
  BY <1>3, <1>4, <1>5 DEF TickEffect

\* What is due is later than all that was queued or energized of its schedule.
LEMMA DueIsLater ==
    ASSUME TypeOK, Ordered, NEW s \in Schedules, DueNow(s)
    PROVE  LET L == [ledger EXCEPT !.fired[s] = nowEpoch]
           IN  /\ nowEpoch \in Nat /\ nowEpoch <= L.fired[s]
               /\ Behind(served, L) /\ \A v \in Valves : nowEpoch > served[v][s]
               /\ \A i \in DOMAIN queue : /\ Fresh(queue[i], served, L)
                                          /\ Timed(queue[i]) /\ queue[i].occ[1] = s
                                                => queue[i].occ[2] < nowEpoch
<1> DEFINE L == [ledger EXCEPT !.fired[s] = nowEpoch]
<1>1. /\ nowEpoch \in Nat /\ ledger.fired \in [Schedules -> Times] /\ ledger.fired[s] < nowEpoch
      /\ served \in [Valves -> [Schedules -> Times]]
  BY DEF TypeOK, DueNow, Journals
<1>2. L.fired = [ledger.fired EXCEPT ![s] = nowEpoch]
  BY DEF TypeOK, Journals
<1> HIDE DEF L
<1>3. L.fired[s] = nowEpoch /\ \A r \in Schedules : r # s => L.fired[r] = ledger.fired[r]
  BY <1>1, <1>2
<1>4. Behind(served, ledger)
  BY DEF Ordered
<1>5. \A v \in Valves : served[v][s] < nowEpoch /\ nowEpoch > served[v][s]
  BY <1>1, <1>4 DEF Behind, Times, Never
<1>6. Behind(served, L)
  BY <1>1, <1>3, <1>4, <1>5 DEF Behind, Times, Never
<1>7. ASSUME NEW i \in DOMAIN queue
      PROVE  /\ Fresh(queue[i], served, L)
             /\ Timed(queue[i]) /\ queue[i].occ[1] = s => queue[i].occ[2] < nowEpoch
  <2> DEFINE f == queue[i]
  <2>1. Fresh(f, served, ledger) /\ f \in Entries
    BY Named DEF Ordered
  <2> HIDE DEF f
  <2> SUFFICES ASSUME Timed(f)
               PROVE  /\ f.occ[2] > served[f.name][f.occ[1]] /\ f.occ[2] <= L.fired[f.occ[1]]
                      /\ f.occ[1] = s => f.occ[2] < nowEpoch
    BY DEF Fresh, f
  <2>2. f.occ[1] \in Schedules /\ f.occ[2] \in Nat
    BY <2>1 DEF Entries, Timed
  <2>3. f.occ[2] > served[f.name][f.occ[1]] /\ f.occ[2] <= ledger.fired[f.occ[1]]
    BY <2>1 DEF Fresh
  <2>4. f.occ[1] = s => f.occ[2] < nowEpoch
    BY <1>1, <2>2, <2>3 DEF Times, Never
  <2>5. QED
    BY <1>1, <1>3, <2>2, <2>3, <2>4
<1>8. nowEpoch <= L.fired[s]
  BY <1>1, <1>3
<1>9. QED
  BY <1>1, <1>5, <1>6, <1>7, <1>8 DEF L

\* A batch that names each valve once keeps the order when it is later than the queue.
LEMMA BatchOrdered ==
    ASSUME queue \in Seq(Entries), NEW s \in Schedules, NEW m \in Nat, NEW names \in Seq(Valves),
           \A i, j \in DOMAIN names : names[i] = names[j] => i = j,
           NEW o, o[1] = s, o[2] = m, o # <<>>,
           Batch(names, RunLength, "schedule", o) \in Seq(Entries),
           NEW w, w = queue \o Batch(names, RunLength, "schedule", o),
           NEW L, NEW sv, m <= L.fired[s], \A v \in Valves : m > sv[v][s],
           \A i \in DOMAIN queue : /\ Fresh(queue[i], sv, L)
                                   /\ Timed(queue[i]) /\ queue[i].occ[1] = s
                                         => queue[i].occ[2] < m,
           \A j \in DOMAIN queue : \A i \in 1 .. (j - 1) : Before(queue[i], queue[j])
    PROVE  /\ \A i \in DOMAIN w : Fresh(w[i], sv, L)
           /\ \A j \in DOMAIN w : \A i \in 1 .. (j - 1) : Before(w[i], w[j])
<1> DEFINE q == Batch(names, RunLength, "schedule", o)
           n == Len(queue)
<1>1. /\ \A i \in DOMAIN names : q[i].name = names[i] /\ q[i].reason = "schedule" /\ q[i].occ = o
      /\ \A i \in DOMAIN (queue \o q) :
            \/ i \in DOMAIN queue /\ (queue \o q)[i] = queue[i]
            \/ /\ i \in Nat /\ i > n /\ i - n \in DOMAIN names
               /\ (queue \o q)[i] = q[i - n]
  <2>1. /\ DOMAIN q = DOMAIN names
        /\ \A i \in DOMAIN names :
              q[i].name = names[i] /\ q[i].reason = "schedule" /\ q[i].occ = o
    BY DEF Batch
  <2>2. q \in Seq(Entries)
    OBVIOUS
  <2> HIDE DEF q
  <2>3. \A i \in DOMAIN (queue \o q) :
           \/ i \in DOMAIN queue /\ (queue \o q)[i] = queue[i]
           \/ /\ i \in Nat /\ i > n /\ i - n \in DOMAIN q
              /\ (queue \o q)[i] = q[i - n]
    BY <2>2
  <2>4. QED
    BY <2>1, <2>3
<1>2. n \in Nat /\ DOMAIN queue = 1 .. n
  OBVIOUS
<1>3. \A i \in DOMAIN w : i \in Nat /\ i >= 1 /\ \A j \in 1 .. (i - 1) : j \in DOMAIN w
  <2>1. w \in Seq(Entries)
    OBVIOUS
  <2>2. QED
    BY <2>1
<1>4. \A j \in 1 .. n : /\ Fresh(queue[j], sv, L)
                        /\ Timed(queue[j]) /\ queue[j].occ[1] = s => queue[j].occ[2] < m
                        /\ \A i \in 1 .. (j - 1) : Before(queue[i], queue[j])
  BY <1>2
<1> DEFINE Old(i) == i \in 1 .. n /\ w[i] = queue[i]
           New(i) == /\ i > n /\ i - n \in DOMAIN names /\ w[i].name = names[i - n]
                     /\ w[i].occ = o
<1>5. w = queue \o q
  OBVIOUS
<1> HIDE DEF q, n
<1>6. ASSUME NEW i \in DOMAIN w PROVE Old(i) \/ New(i)
  <2>1. \/ i \in DOMAIN queue /\ w[i] = queue[i]
        \/ i > n /\ i - n \in DOMAIN names /\ w[i] = q[i - n]
    BY <1>1, <1>5, Zenon
  <2>2. CASE i \in DOMAIN queue /\ w[i] = queue[i]
    BY <1>2, <2>2, Zenon
  <2>3. CASE i > n /\ i - n \in DOMAIN names /\ w[i] = q[i - n]
    BY <1>1, <2>3, Zenon
  <2>4. QED
    BY <2>1, <2>2, <2>3
<1>7. ASSUME NEW i \in DOMAIN w PROVE Fresh(w[i], sv, L)
  <2>1. CASE Old(i)
    <3>1. Fresh(queue[i], sv, L)
      BY <1>4, <2>1
    <3>2. QED
      BY <2>1, <3>1, Zenon
  <2>2. CASE New(i)
    <3>1. names[i - n] \in Valves
      BY <2>2
    <3>2. m > sv[names[i - n]][s]
      BY <3>1
    <3>3. QED
      BY <2>2, <3>2, Zenon DEF Fresh
  <2>3. QED
    BY <1>6, <2>1, <2>2
<1>8. ASSUME NEW j \in DOMAIN w, NEW i \in 1 .. (j - 1) PROVE Before(w[i], w[j])
  <2>1. i \in DOMAIN w /\ i \in Nat /\ j \in Nat /\ i < j
    BY <1>3
  <2>2. CASE Old(j)
    <3>1. i \in 1 .. n
      BY <1>2, <2>1, <2>2
    <3>2. Old(i)
      BY <1>2, <1>6, <2>1, <3>1
    <3>3. Before(queue[i], queue[j])
      BY <1>4, <2>2
    <3>4. QED
      BY <2>2, <3>2, <3>3, Zenon
  <2>3. CASE New(j)
    <3>1. CASE Old(i)
      <4>1. Timed(queue[i]) /\ queue[i].occ[1] = s => queue[i].occ[2] < m
        BY <1>4, <3>1, Zenon
      <4>2. Timed(w[i]) /\ w[i].occ[1] = s => w[i].occ[2] < m
        BY <3>1, <4>1, Zenon
      <4>3. w[j].occ[1] = s /\ w[j].occ[2] = m
        BY <2>3
      <4>4. QED
        BY <4>2, <4>3, Zenon DEF Before
    <3>2. CASE New(i)
      <4>1. i - n # j - n
        BY <1>2, <2>1
      <4>2. names[i - n] # names[j - n]
        BY <2>3, <3>2, <4>1, Zenon
      <4>3. QED
        BY <2>3, <3>2, <4>2, Zenon DEF Before
    <3>3. QED
      BY <1>6, <2>1, <3>1, <3>2
  <2>4. QED
    BY <1>6, <2>2, <2>3
<1>9. QED
  BY <1>7, <1>8

\* A schedule that fires queues each of its valves once, behind the older occurrences.
LEMMA FireOrdered ==
    ASSUME ControllerAssumption, TypeOK, Ordered, NEW s \in Schedules, DueNow(s),
           NEW names \in Orders(Targets[s]), served' = served,
           queue' = queue \o Batch(names, RunLength, "schedule", <<s, nowEpoch>>),
           ledger' = [ledger EXCEPT !.fired[s] = nowEpoch], disk' \in {disk, ledger'}
    PROVE  Ordered'
<1>1. /\ nowEpoch \in Nat /\ nowEpoch <= ledger'.fired[s]
      /\ Behind(served, ledger') /\ \A v \in Valves : nowEpoch > served[v][s]
      /\ \A i \in DOMAIN queue : /\ Fresh(queue[i], served, ledger')
                                 /\ Timed(queue[i]) /\ queue[i].occ[1] = s
                                       => queue[i].occ[2] < nowEpoch
  BY DueIsLater
<1>2. /\ names \in Seq(Valves)
      /\ \A i, j \in DOMAIN names : names[i] = names[j] => i = j
  BY OrderType DEF ControllerAssumption, Orders
<1>3. /\ Batch(names, RunLength, "schedule", <<s, nowEpoch>>) \in Seq(Entries)
      /\ queue \in Seq(Entries)
  BY <1>2, BatchType DEF Reasons, TypeOK, ControllerAssumption
<1>4. \A j \in DOMAIN queue : \A i \in 1 .. (j - 1) : Before(queue[i], queue[j])
  BY DEF Ordered
<1>5. /\ \A i \in DOMAIN queue' : Fresh(queue'[i], served', ledger')
      /\ \A j \in DOMAIN queue' : \A i \in 1 .. (j - 1) : Before(queue'[i], queue'[j])
  <2> DEFINE o == <<s, nowEpoch>>
             w == queue'
             L == ledger'
  <2>1. o[1] = s /\ o[2] = nowEpoch /\ o # <<>>
    OBVIOUS
  <2>2. Batch(names, RunLength, "schedule", o) \in Seq(Entries)
        /\ w = queue \o Batch(names, RunLength, "schedule", o)
    BY <1>3
  <2>3. /\ nowEpoch <= L.fired[s] /\ \A v \in Valves : nowEpoch > served[v][s]
        /\ \A i \in DOMAIN queue : /\ Fresh(queue[i], served, L)
                                   /\ Timed(queue[i]) /\ queue[i].occ[1] = s
                                         => queue[i].occ[2] < nowEpoch
    BY <1>1, Zenon
  <2> HIDE DEF o, w, L
  <2>4. /\ \A i \in DOMAIN w : Fresh(w[i], served, L)
        /\ \A j \in DOMAIN w : \A i \in 1 .. (j - 1) : Before(w[i], w[j])
    BY <1>1, <1>2, <1>3, <1>4, <2>1, <2>2, <2>3, BatchOrdered
  <2>5. QED
    BY <2>4 DEF w, L
<1>6. Behind(served', ledger') /\ Behind(served', disk')
  BY <1>1 DEF Ordered
<1>7. QED
  BY <1>5, <1>6 DEF Ordered

\* Stopping everything, with the journals ledger' and disk' not behind the history.
LEMMA StopOrdered ==
    ASSUME Ordered, NEW c \in Snapshots, Behind(served, c.L), NEW bad, NEW t, NEW stamp, NEW fault,
           NEW L, Behind(served, L), StopAll(c, bad, t, stamp, fault), served' = served,
           Commit(L) \/ CommitFails(L) \/ UNCHANGED flash
    PROVE  Ordered'
<1>1. queue' = <<>> /\ ledger' = Recorded(c.L, c.vs, Open(c.vs) \ bad, stamp)
  BY DEF StopAll
<1>2. ledger'.fired = c.L.fired
  BY <1>1, RecordedFired DEF Snapshots
<1>3. disk' = L \/ disk' = disk
  BY Zenon DEF Commit, CommitFails, flash
<1>4. Behind(served', ledger') /\ Behind(served', disk')
  BY <1>2, <1>3 DEF Behind, Ordered
<1>5. QED
  BY <1>1, <1>4, EmptiedOrdered

LEMMA BootOrdered ==
    ASSUME NEW t, NEW D, Behind(served, D), Boot(t, D, FALSE)
    PROVE  Ordered'
<1>1. queue' = <<>> /\ ledger' = D /\ disk' = D /\ served' = served
  BY DEF Boot
<1>2. QED
  BY <1>1, EmptiedOrdered

LEMMA NextOrdered ==
    ASSUME ControllerAssumption, TypeOK, ~damaged, Ordered, [Next]_vars
    PROVE  Ordered'
<1>1. Behind(served, ledger) /\ Behind(served, disk)
  BY DEF Ordered
<1>2. ASSUME UNCHANGED <<served, ledger, disk>>, queue' = queue PROVE Ordered'
  BY <1>2 DEF Ordered
<1>3. ASSUME NEW names \in Seq(Valves), NEW dur, NEW reason,
             Batch(names, dur, reason, <<>>) \in Seq(Entries),
             queue' = queue \o Batch(names, dur, reason, <<>>), UNCHANGED <<served, ledger, disk>>
      PROVE  Ordered'
  <2> DEFINE q == Batch(names, dur, reason, <<>>)
             w == queue \o q
  <2>1. queue \in Seq(Entries)
    BY DEF TypeOK
  <2>2. /\ DOMAIN q = DOMAIN names
        /\ \A i \in DOMAIN names : q[i].occ = <<>>
        /\ \A i \in DOMAIN w : \/ i \in DOMAIN queue /\ w[i] = queue[i]
                               \/ i - Len(queue) \in DOMAIN names /\ w[i] = q[i - Len(queue)]
    BY <1>3, <2>1, BatchEntries
  <2>3. \A i \in DOMAIN w : (i \in DOMAIN queue /\ w[i] = queue[i]) \/ ~Timed(w[i])
    BY <2>2 DEF Timed
  <2>4. \A j \in DOMAIN w : \A i \in 1 .. (j - 1) : i \in DOMAIN w
    <3>1. w \in Seq(Entries)
      BY <1>3, <2>1
    <3>2. QED
      BY <3>1
  <2> HIDE DEF w
  <2>5. \A i \in DOMAIN w : Fresh(w[i], served, ledger)
    BY <2>3 DEF Ordered, Fresh
  <2>6. ASSUME NEW j \in DOMAIN w, NEW i \in 1 .. (j - 1) PROVE Before(w[i], w[j])
    <3>1. CASE ~Timed(w[i]) \/ ~Timed(w[j])
      BY <3>1 DEF Before
    <3>2. CASE j \in DOMAIN queue /\ w[j] = queue[j] /\ w[i] = queue[i]
      BY <3>2 DEF Ordered
    <3>3. QED
      BY <2>3, <2>4, <3>1, <3>2
  <2>7. queue' = w
    BY <1>3 DEF w
  <2>8. QED
    BY <1>3, <2>5, <2>6, <2>7 DEF Ordered
<1>4. ASSUME NEW d \in 0 .. MaxSlice, Tick(d) PROVE Ordered'
  BY <1>4, TickHasEffect, TickOrdered DEF ControllerAssumption
<1>5. ASSUME NEW r \in Requests, Water(r.names, r.dur) PROVE Ordered'
  <2>1. r.names \in Seq(Valves) /\ r.dur \in 1 .. MaxOpen
    BY DEF ControllerAssumption
  <2>2. Batch(r.names, r.dur, "manual", <<>>) \in Seq(Entries)
    BY <2>1, BatchType DEF Reasons
  <2>3. QED
    BY <1>3, <1>5, <2>1, <2>2 DEF Water, world, books, flash, history
<1>6. ASSUME NEW s \in Schedules, FireSchedule(s) PROVE Ordered'
  <2> DEFINE L == [ledger EXCEPT !.fired[s] = nowEpoch]
             c == [Snapshot EXCEPT !.L = L]
  <2>1. DueNow(s) /\ L \in Journals /\ Behind(served, L)
    BY <1>6, DueIsLater DEF FireSchedule, TypeOK, Journals, Times
  <2>2. c \in Snapshots /\ c.L = L
    BY <2>1, SnapshotType DEF Snapshots
  <2> HIDE DEF c
  <2>3. ASSUME NEW names \in Orders(Targets[s]),
               queue' = queue \o Batch(names, RunLength, "schedule", <<s, nowEpoch>>),
               ledger' = L, served' = served, UNCHANGED flash \/ Commit(L)
        PROVE  Ordered'
    <3>1. disk' \in {disk, ledger'}
      BY <2>3 DEF flash, Commit
    <3>2. QED
      BY <2>1, <2>3, <3>1, FireOrdered
  <2> HIDE DEF L
  <2>4. ASSUME CommitFails(L), NEW bad, NEW stamp, StopAll(c, bad, now, stamp, TRUE),
               served' = served
        PROVE  Ordered'
    BY <2>1, <2>2, <2>4, StopOrdered
  <2>5. ASSUME Boot(now, L, FALSE) PROVE Ordered'
    BY <2>1, <2>5, BootOrdered
  <2>6. QED
    BY <1>6, <2>3, <2>4, <2>5, FireEnqueues DEF FireSchedule, TypeOK, L, c, history
<1>7. CASE NextCycle
  <2>1. session.valves \in Seq(Valves) /\ queue = <<>>
    BY <1>7 DEF NextCycle, MoistureReady, TypeOK, Sessions
  <2>2. Batch(session.valves, RunLength, "moisture", <<>>) \in Seq(Entries)
    BY <2>1, BatchType DEF Reasons, ControllerAssumption
  <2>3. queue' = queue \o Batch(session.valves, RunLength, "moisture", <<>>)
    BY <1>7, <2>1, <2>2 DEF NextCycle
  <2>4. QED
    BY <1>3, <1>7, <2>1, <2>2, <2>3 DEF NextCycle, world, books, flash, history
<1>8. ASSUME NEW z \in Zones, NewSession(z) PROVE Ordered'
  <2> PICK names \in Orders(Runnable(z)) : queue' = Batch(names, RunLength, "moisture", <<>>)
    BY <1>8 DEF NewSession
  <2>1. names \in Seq(Valves) /\ queue = <<>>
    BY <1>8, OrderType DEF NewSession, MoistureReady, Runnable, ControllerAssumption
  <2>2. Batch(names, RunLength, "moisture", <<>>) \in Seq(Entries)
    BY <2>1, BatchType DEF Reasons, ControllerAssumption
  <2>3. queue' = queue \o Batch(names, RunLength, "moisture", <<>>)
    BY <2>1, <2>2
  <2>4. QED
    BY <1>3, <1>8, <2>1, <2>2, <2>3 DEF NewSession, world, books, flash, history
<1>9. CASE Stop
  <2> DEFINE L == Recorded(ledger, valve, Open(valve), StampOf(synced, nowEpoch))
  <2>1. Snapshot \in Snapshots /\ Snapshot.L = ledger
    BY SnapshotType DEF Snapshot
  <2>2. L.fired = ledger.fired
    BY RecordedFired DEF TypeOK
  <2> HIDE DEF L
  <2>3. Behind(served, L)
    BY <1>1, <2>2 DEF Behind
  <2>4. ASSUME NEW bad, NEW stamp, NEW fault, StopAll(Snapshot, bad, now, stamp, fault),
               Commit(L) \/ CommitFails(L) \/ UNCHANGED flash, served' = served
        PROVE  Ordered'
    BY <1>1, <2>1, <2>3, <2>4, StopOrdered
  <2>5. QED
    BY <1>9, <2>3, <2>4, BootOrdered DEF Stop, L
<1>10. CASE PowerLoss
  <2>1. damaged = FALSE
    BY DEF TypeOK
  <2>2. QED
    BY <1>1, <1>10, <2>1, BootOrdered DEF PowerLoss
<1>11. CASE MoistureHeld \/ EndSession \/ Pause \/ Resume \/ MediaFault \/ UNCHANGED vars
  BY <1>2, <1>11 DEF MoistureHeld, EndSession, Pause, Resume, MediaFault, vars, world, books,
     flash, history
<1>12. QED
  BY <1>4, <1>5, <1>6, <1>7, <1>8, <1>9, <1>10, <1>11 DEF Next

\* An occurrence of a schedule energizes a valve at most once, whatever the clock says,
\* as long as the flash keeps one generation of the journal.
THEOREM EachOccurrenceOnce == ~MediaFaults => (Spec => OccurrenceOnce)
<1> SUFFICES ASSUME ~MediaFaults PROVE Spec => OccurrenceOnce
  OBVIOUS
<1>1. Init => Ordered
  <2>1. Init => queue = <<>> /\ Behind(served, ledger) /\ Behind(served, disk)
    BY DEF Init, Behind, EmptyJournal, Never
  <2>2. QED
    BY <2>1 DEF Ordered
<1>2. Spec => []LockoutsHold
  BY LockoutsAlwaysHold
<1>3. TypeOK /\ LockoutsHold /\ Ordered /\ [Next]_vars => Ordered'
  BY NextOrdered, ControllerAssumption DEF LockoutsHold
<1>4. TypeOK /\ Ordered /\ [Next]_vars =>
        [\A v \in Valves : Starts(v) /\ Head(queue).occ # <<>>
            => Head(queue).occ[2] > served[v][Head(queue).occ[1]]]_vars
  <2> SUFFICES ASSUME TypeOK, Ordered, [Next]_vars, NEW v \in Valves, Starts(v),
                      Head(queue).occ # <<>>
               PROVE  Head(queue).occ[2] > served[v][Head(queue).occ[1]]
    OBVIOUS
  <2>1. queue # <<>> /\ v = Head(queue).name /\ queue \in Seq(Entries)
    BY StartsHead, ControllerAssumption DEF TypeOK
  <2>2. 1 \in DOMAIN queue /\ Head(queue) = queue[1]
    BY <2>1
  <2>3. Fresh(Head(queue), served, ledger)
    BY <2>2 DEF Ordered
  <2>4. QED
    BY <2>1, <2>3 DEF Fresh, Timed
<1>5. QED
  BY <1>1, <1>2, <1>3, <1>4, TypeCorrect, PTL DEF Spec, OccurrenceOnce

\* An occurrence that fires without a fault or a power loss has its whole batch queued.
LEMMA FireQueues ==
    ASSUME ControllerAssumption, TypeOK, NEW s \in Schedules, FireSchedule(s),
           ~inhibited', synced'
    PROVE  /\ \A r \in Schedules : r # s => ledger'.fired[r] = ledger.fired[r]
           /\ \A v \in Targets[s] : \E i \in DOMAIN queue' :
                 queue'[i].name = v /\ queue'[i].occ = <<s, ledger'.fired[s]>>
<1> DEFINE o == <<s, nowEpoch>>
<1>1. PICK names \in Orders(Targets[s]) :
        /\ queue' = Enqueued(Batch(names, RunLength, "schedule", o))
        /\ ledger' = [ledger EXCEPT !.fired[s] = nowEpoch]
  BY DEF FireSchedule, StopAll, Boot
<1> DEFINE q == Batch(names, RunLength, "schedule", o)
<1>2. ledger.fired \in [Schedules -> Times] /\ ledger' = [ledger EXCEPT !.fired[s] = nowEpoch]
  BY <1>1 DEF TypeOK, Journals
<1>3. /\ ledger'.fired[s] = nowEpoch
      /\ \A r \in Schedules : r # s => ledger'.fired[r] = ledger.fired[r]
  BY <1>2 DEF TypeOK, Journals
<1>4. queue' = queue \o q /\ queue \in Seq(Entries)
  BY <1>1, FireEnqueues DEF FireSchedule, TypeOK
<1>5. names \in Seq(Valves) /\ DOMAIN names = 1 .. Cardinality(Targets[s])
  BY OrderType DEF ControllerAssumption, Orders
<1>6. q \in Seq(Entries) /\ DOMAIN q = DOMAIN names
  <2>1. o \in Schedules \X Nat /\ RunLength \in 1 .. MaxOpen
    BY DEF TypeOK, ControllerAssumption
  <2>2. q \in Seq(Entries)
    BY <1>5, <2>1, BatchType DEF Reasons
  <2>3. QED
    BY <2>2 DEF Batch
<1>7. ASSUME NEW v \in Targets[s] PROVE \E j \in DOMAIN q : q[j].name = v /\ q[j].occ = o
  <2>1. PICK j \in DOMAIN names : names[j] = v
    <3>1. Targets[s] \in SUBSET Valves
      BY DEF ControllerAssumption
    <3>2. QED
      BY <3>1, OrderCovers
  <2>2. q[j].name = v /\ q[j].occ = o
    BY <2>1 DEF Batch
  <2>3. QED
    BY <1>6, <2>1, <2>2
<1>8. ASSUME NEW v \in Targets[s]
      PROVE  \E i \in DOMAIN queue' : queue'[i].name = v /\ queue'[i].occ = o
  <2>1. PICK j \in DOMAIN q : q[j].name = v /\ q[j].occ = o
    BY <1>7
  <2> HIDE DEF q, o
  <2>2. Len(queue) + j \in DOMAIN queue' /\ queue'[Len(queue) + j] = q[j]
    BY <1>4, <1>6, <2>1
  <2>3. QED
    BY <2>1, <2>2
<1>9. QED
  BY <1>3, <1>8

\* An occurrence is marked together with queueing the whole of its batch, or the handler
\* has ended in a fault or a power loss.
THEOREM MarkedAlwaysQueued == Spec => MarkedIsQueued
<1>1. TypeOK /\ [Next]_vars =>
        [\A s \in Schedules :
            ledger'.fired[s] > ledger.fired[s] /\ ~inhibited' /\ synced'
              => \A v \in Targets[s] : \E i \in DOMAIN queue' :
                    queue'[i].name = v /\ queue'[i].occ = <<s, ledger'.fired[s]>>]_vars
  <2> SUFFICES ASSUME TypeOK, [Next]_vars, NEW s \in Schedules,
                      ledger'.fired[s] > ledger.fired[s], ~inhibited', synced'
               PROVE  \A v \in Targets[s] : \E i \in DOMAIN queue' :
                        queue'[i].name = v /\ queue'[i].occ = <<s, ledger'.fired[s]>>
    OBVIOUS
  <2>1. ledger'.fired # ledger.fired
    <3>1. ledger.fired[s] \in Int
      BY DEF TypeOK, Journals, Times, Never
    <3>2. QED
      BY <3>1
  <2>2. CASE \E d \in 0 .. MaxSlice : Tick(d)
    <3>1. PICK d \in 0 .. MaxSlice : Tick(d)
      BY <2>2
    <3>2. d \in Nat
      BY ControllerAssumption DEF ControllerAssumption
    <3>3. TickEffect
      BY <3>1, <3>2, TickHasEffect, ControllerAssumption
    <3>4. QED
      BY <2>1, <3>3 DEF TickEffect
  <2>3. ASSUME NEW r \in Schedules, FireSchedule(r)
        PROVE  \A v \in Targets[s] : \E i \in DOMAIN queue' :
                 queue'[i].name = v /\ queue'[i].occ = <<s, ledger'.fired[s]>>
    <3>1. r = s
      <4>1. ledger.fired[s] \in Int
        BY DEF TypeOK, Journals, Times, Never
      <4>2. QED
        BY <2>3, <4>1, FireQueues, ControllerAssumption
    <3>2. QED
      BY <2>3, <3>1, FireQueues, ControllerAssumption
  <2>4. CASE Stop
    <3>1. Snapshot \in Snapshots /\ Snapshot.L = ledger
      BY SnapshotType DEF Snapshot
    <3>2. ASSUME NEW bad, NEW stamp, NEW fault, StopAll(Snapshot, bad, now, stamp, fault)
          PROVE  FALSE
      BY <2>1, <3>1, <3>2, StopAllEffect
    <3>3. QED
      BY <2>4, <3>2 DEF Stop, Boot
  <2>5. CASE PowerLoss
    BY <2>5 DEF PowerLoss, Boot
  <2>6. CASE \/ \E r \in Requests : Water(r.names, r.dur)
             \/ \E z \in Zones : NewSession(z)
             \/ MoistureHeld \/ EndSession \/ NextCycle \/ Pause \/ Resume \/ MediaFault
             \/ UNCHANGED vars
    BY <2>1, <2>6 DEF Water, NewSession, MoistureHeld, EndSession, NextCycle, Pause, Resume,
       MediaFault, vars, world, books
  <2>7. QED
    BY <2>2, <2>3, <2>4, <2>5, <2>6 DEF Next
<1>2. QED
  BY <1>1, TypeCorrect, PTL DEF Spec, MarkedIsQueued
=============================================================================
