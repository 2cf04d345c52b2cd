------------------------- MODULE WateringController -------------------------
(***************************************************************************)
(* The watering engine (controller.py) with its solenoids (valve.py), the  *)
(* journal it commits before it energizes an output, and the restarts that *)
(* wipe everything but that journal.                                       *)
(*                                                                         *)
(* One unit of time is one minute of the schedule and also the unit of     *)
(* every duration.  `now` is real time; the uptime clock of the program is *)
(* used through differences only, so it is `now` too.  `nowEpoch` is the   *)
(* wall clock the last tick was given: `now` plus an error in Skews.       *)
(*                                                                         *)
(* A journal commit is atomic: it leaves the old or the new journal when   *)
(* power is lost in it or when it raises (module DurableFile).             *)
(***************************************************************************)
EXTENDS Integers, Sequences, FiniteSets

CONSTANTS
    Valves,         \* the configured solenoids
    Zones,          \* the moisture zones
    ZoneValves,     \* [Zones -> SUBSET Valves]
    Schedules,      \* ids of the enabled schedules
    Targets,        \* [Schedules -> SUBSET Valves], zones already expanded
    Due,            \* [Schedules -> SUBSET Nat], minutes whose hour:minute match
    Requests,       \* the runs the API may ask for: records of names and dur
    RunLength,      \* duration of scheduled and moisture runs
    MaxOpen,        \* MAX_VALVE_OPEN_SEC
    Grace,          \* STARTUP_GRACE_SEC
    Interval,       \* [Categories -> Nat]: post_daily_lockout, min_supplemental_interval
    StampHorizon,   \* 604800 s: older stamps are not trusted
    Soak,           \* max(sensor interval, soak_recheck_sec)
    FreshFor,       \* age up to which a reading is fresh
    MaxCycles,      \* max_water_cycles
    QueueMax,       \* 192
    Skews,          \* errors the wall clock may have
    Faulty,         \* valves whose GPIO write may raise
    StorageFaults,  \* may a journal commit raise?
    MediaFaults,    \* may both generations of the journal become unreadable?
    MaxSlice,       \* bound: most time between two ticks
    MaxOutage,      \* bound: longest time without power
    Horizon         \* bound: real time stops here

Categories == {"schedule", "moisture"}
Reasons == {"schedule", "moisture", "manual"}
Never == -1     \* a time that has not been set
Unknown == -1   \* a stamp written before the clock was synchronized (null)
Absent == -2    \* no such key in the journal

ASSUME ControllerAssumption ==
    /\ IsFiniteSet(Valves)
    /\ ZoneValves \in [Zones -> SUBSET Valves]
    /\ Targets \in [Schedules -> SUBSET Valves]
    /\ Due \in [Schedules -> SUBSET Nat]
    /\ MaxOpen \in Nat \ {0}
    /\ Requests \subseteq [names : Seq(Valves) \ {<<>>}, dur : 1 .. MaxOpen]
    /\ RunLength \in 1 .. MaxOpen
    /\ Interval \in [Categories -> Nat]
    /\ Grace \in Nat /\ StampHorizon \in Nat /\ Soak \in Nat /\ FreshFor \in Nat
    /\ MaxCycles \in Nat \ {0} /\ QueueMax \in Nat
    /\ MaxSlice \in Nat /\ MaxOutage \in Nat /\ Horizon \in Nat
    /\ Skews \subseteq Int /\ Skews # {}
    /\ Faulty \subseteq Valves
    /\ StorageFaults \in BOOLEAN /\ MediaFaults \in BOOLEAN

VARIABLES
    now,         \* real time
    \* Controller attributes, in RAM
    queue, session, cooldown, ledger, inhibited, paused, closeFault, grace,
    synced, nowEpoch, restored,
    valve,       \* the Valve objects
    pin,         \* is the solenoid's output energized?
    \* Flash
    disk,        \* the journal a reader of watering_state.json gets
    damaged,     \* neither generation of it parses
    \* History, read by the properties only
    started,     \* [Valves -> [Categories -> last time such a run was energized]]
    stopped,     \* [Valves -> [Categories -> last time such a run was closed]]
    served       \* [Valves -> [Schedules -> last occurrence that energized it]]

clock == <<synced, nowEpoch, restored>>
flash == <<disk, damaged>>
outputs == <<valve, pin>>
history == <<started, stopped, served>>
control == <<inhibited, paused, closeFault, grace>>
books == <<cooldown, ledger>>
world == <<now, books, clock, outputs, flash, history>>   \* all but control, queue, session
vars == <<queue, session, control, world>>

-----------------------------------------------------------------------------
(* The values the variables hold. *)

Times == Nat \cup {Never}
Stamps == Nat \cup {Unknown, Absent}
Journals == [stamp : [Valves -> [Categories -> Stamps]], fired : [Schedules -> Times]]
EmptyJournal == [stamp |-> [v \in Valves |-> [k \in Categories |-> Absent]],
                 fired |-> [s \in Schedules |-> Never]]

ClosedValve == [open |-> FALSE, at |-> Never, dur |-> 0, reason |-> "manual"]
ValveObjects == [open : BOOLEAN, at : Times, dur : 0 .. MaxOpen, reason : Reasons]

\* A queued run; occ, kept for the history, is the occurrence <<schedule, minute>>
\* that queued it.
Entries == [name : Valves, dur : 1 .. MaxOpen, reason : Reasons,
            occ : {<<>>} \cup (Schedules \X Nat)]

\* cycles = 0 stands for session = None.
NoSession == [valves |-> <<>>, cycles |-> 0, closed |-> Never]
Sessions == [valves : Seq(Valves), cycles : Nat, closed : Times]

\* Mutant of AtLeast0: a countdown runs past zero.
Unclamped(x) == x
AtLeast0(x) == IF x < 0 THEN 0 ELSE x
Least(a, b) == IF a < b THEN a ELSE b
Category(reason) == IF reason = "schedule" THEN "schedule" ELSE "moisture"

\* The orders in which a list without duplicates may name the members of S.
Orders(S) == {q \in [1 .. Cardinality(S) -> S] :
                \A i, j \in 1 .. Cardinality(S) : q[i] = q[j] => i = j}

Open(vs) == {v \in Valves : vs[v].open}
AnyOpen(vs) == Open(vs) # {}
\* Mutant of Idle: a controller with queued runs counts as idle.
IdleOutputs == ~AnyOpen(valve)
Idle == ~AnyOpen(valve) /\ queue = <<>> /\ session = NoSession

\* What _record and stop_all write for the valves of S, whose runs are in vs.
\* Mutant of StampOf: the unsynchronized clock is recorded too.
AlwaysStamped(sy, ep) == ep
StampOf(sy, ep) == IF sy THEN ep ELSE Unknown
\* Mutant of Recorded: a record keeps one category only.
RecordReplaced(L, vs, S, stamp) ==
    [L EXCEPT !.stamp = [v \in Valves |-> [k \in Categories |->
        IF v \notin S THEN L.stamp[v][k]
        ELSE IF k = Category(vs[v].reason) THEN stamp ELSE Absent]]]
Recorded(L, vs, S, stamp) ==
    [L EXCEPT !.stamp = [v \in Valves |-> [k \in Categories |->
        IF v \in S /\ k = Category(vs[v].reason) THEN stamp ELSE L.stamp[v][k]]]]
Cooled(cd, vs, S) ==
    [v \in Valves |-> [k \in Categories |->
        IF v \in S /\ k = Category(vs[v].reason) THEN Interval[k] ELSE cd[v][k]]]
Marked(h, vs, S, t) ==
    [v \in Valves |-> [k \in Categories |->
        IF v \in S /\ k = Category(vs[v].reason) THEN t ELSE h[v][k]]]

-----------------------------------------------------------------------------
(* Journal commits: `persistence.atomic_json` and a commit that raises. *)

Commit(L) == disk' = L /\ damaged' = FALSE
CommitFails(L) == StorageFaults /\ (UNCHANGED flash \/ Commit(L))

(***************************************************************************)
(* Controller.__init__ after power has been lost, or machine.reset called, *)
(* at time t with journal D on flash.  GPIOs start at the closed level.  A *)
(* missing hardware watchdog inhibits watering too.                        *)
(***************************************************************************)
Boot(t, D, unreadable) ==
    \E off \in 0 .. MaxOutage, watchdog \in BOOLEAN :
        /\ t + off <= Horizon
        /\ now' = t + off
        /\ disk' = D
        /\ damaged' = unreadable
        /\ ledger' = IF unreadable THEN EmptyJournal ELSE D
        /\ inhibited' = (unreadable \/ ~watchdog)
        /\ cooldown' = [v \in Valves |-> [k \in Categories |->
                          IF ledger'.stamp[v][k] # Absent THEN Interval[k] ELSE 0]]
        /\ queue' = <<>> /\ session' = NoSession
        /\ paused' = FALSE /\ closeFault' = FALSE /\ grace' = Grace
        /\ synced' = FALSE /\ nowEpoch' = 0 /\ restored' = FALSE
        /\ valve' = [v \in Valves |-> ClosedValve]
        /\ pin' = [v \in Valves |-> FALSE]
        /\ stopped' = Marked(stopped, valve, {v \in Valves : pin[v]}, t)
        /\ UNCHANGED <<started, served>>

(***************************************************************************)
(* The handlers work on a snapshot a: what valves, outputs, ledger,        *)
(* cooldowns and closing times have become at that point of the handler.   *)
(***************************************************************************)
Snapshot == [vs |-> valve, ps |-> pin, L |-> ledger, cd |-> cooldown, ends |-> stopped]

(***************************************************************************)
(* stop_all: empties queue and session and closes every valve separately;  *)
(* the drivers in bad raise.  After a failed commit or start the code runs *)
(* it twice; bad are then the drivers that raise both times.  The journal  *)
(* is left to the caller.                                                  *)
(***************************************************************************)
StopAll(a, bad, t, stamp, fault) ==
    LET shut == Open(a.vs) \ bad IN
    /\ queue' = <<>> /\ session' = NoSession
    /\ valve' = [v \in Valves |-> IF v \in bad THEN a.vs[v] ELSE ClosedValve]
    /\ pin' = [v \in Valves |-> v \in bad /\ a.ps[v]]
    /\ ledger' = Recorded(a.L, a.vs, shut, stamp)
    /\ cooldown' = Cooled(a.cd, a.vs, shut)
    /\ stopped' = Marked(a.ends, a.vs, shut, t)
    /\ closeFault' = (bad # {})
    /\ inhibited' = (inhibited \/ fault \/ bad # {})

-----------------------------------------------------------------------------
(* tick *)

\* _restore_clock, once per boot: a plausible stamp replaces the full countdown.
RestoreClock(cd, epoch) ==
    [v \in Valves |-> [k \in Categories |->
        LET stamp == ledger.stamp[v][k]
        IN  IF stamp >= 0 /\ epoch - stamp \in 0 .. StampHorizon
            THEN AtLeast0(Interval[k] - (epoch - stamp))
            ELSE cd[v][k]]]

\* Valve.expired
\* Mutant of Expired: an output is closed one tick late.
ExpiredLate(v, t) == valve[v].open /\ t - valve[v].at > Least(valve[v].dur, MaxOpen)
Expired(v, t) == valve[v].open /\ t - valve[v].at >= Least(valve[v].dur, MaxOpen)

\* Mutant of MayStart: a run starts beside an open valve.
MayStartBeside(a, g) == ~inhibited /\ ~paused /\ g = 0 /\ queue # <<>>
MayStart(a, g) == /\ ~inhibited /\ ~paused /\ g = 0
                  /\ ~AnyOpen(a.vs) /\ queue # <<>>

Opened(vs, e, t) == [vs EXCEPT ![e.name] =
    [open |-> TRUE, at |-> t, dur |-> e.dur, reason |-> e.reason]]

\* Mutant of StartRecord: a run is recorded when it closes only.
RecordedLater(a, t, stamp) == a.L
StartRecord(a, t, stamp) ==
    LET e == Head(queue) IN Recorded(a.L, Opened(a.vs, e, t), {e.name}, stamp)

\* The last batch of the session has drained.
\* Mutant of Drained: the last valve need not have closed.
DrainedEarly(a, g) == /\ ~inhibited /\ ~paused /\ g = 0 /\ queue = <<>>
                      /\ session.cycles > 0 /\ session.closed = Never
Drained(a, g) == /\ ~inhibited /\ ~paused /\ g = 0 /\ ~AnyOpen(a.vs) /\ queue = <<>>
                 /\ session.cycles > 0 /\ session.closed = Never

\* No start in this tick; a drained session notes the time.
Hold(a, D, unreadable, t, g) ==
    /\ ~MayStart(a, g)
    /\ session' = IF Drained(a, g) THEN [session EXCEPT !.closed = t] ELSE session
    /\ valve' = a.vs /\ pin' = a.ps /\ ledger' = a.L /\ cooldown' = a.cd
    /\ stopped' = a.ends /\ disk' = D /\ damaged' = unreadable
    /\ UNCHANGED <<queue, inhibited, closeFault, started, served>>

\* What the history keeps of energizing the entry e.
Note(e, t) ==
    /\ started' = [started EXCEPT ![e.name][Category(e.reason)] = t]
    /\ served' = IF e.occ = <<>> THEN served
                 ELSE [served EXCEPT ![e.name][e.occ[1]] = e.occ[2]]

\* The head of the queue is committed to the journal and only then energized.
StartHead(a, bad, t, stamp, g) ==
    LET e == Head(queue)
        vs == Opened(a.vs, e, t)
        b == [a EXCEPT !.L = StartRecord(a, t, stamp), !.cd = Cooled(a.cd, vs, {e.name})]
    IN
    /\ MayStart(a, g)
    /\ \/ /\ Commit(b.L)
          /\ valve' = vs /\ pin' = [a.ps EXCEPT ![e.name] = TRUE]
          /\ ledger' = b.L /\ cooldown' = b.cd /\ stopped' = b.ends
          /\ queue' = Tail(queue)
          /\ Note(e, t)
          /\ UNCHANGED <<session, inhibited, closeFault>>
       \/ /\ CommitFails(b.L)
          /\ StopAll(b, bad, t, stamp, TRUE)
          /\ UNCHANGED <<started, served>>
       \/ /\ e.name \in Faulty     \* the write raises, before or after its effect
          /\ Commit(b.L)
          /\ \E lit \in BOOLEAN :
                /\ StopAll([b EXCEPT !.vs = vs, !.ps[e.name] = lit], bad, t, stamp, TRUE)
                /\ IF lit THEN Note(e, t) ELSE UNCHANGED <<started, served>>

(***************************************************************************)
(* tick(now + d): countdowns, the clock, every expired valve, one start.   *)
(* The last two disjuncts are a power loss right after a commit, with the  *)
(* rest of the handler not run.                                            *)
(***************************************************************************)
Tick(d) ==
    \E bad \in SUBSET Faulty, sync \in {synced, TRUE}, skew \in Skews :
    LET t == now + d
        epoch == IF sync THEN t + skew ELSE 0
        stamp == StampOf(sync, epoch)
        g == AtLeast0(grace - d)
        counted == [v \in Valves |-> [k \in Categories |-> AtLeast0(cooldown[v][k] - d)]]
        cd == IF sync /\ ~restored THEN RestoreClock(counted, epoch) ELSE counted
        due == {v \in Valves : Expired(v, t)}
        shut == due \ bad
        a == [Snapshot EXCEPT !.cd = cd]
        b == [vs |-> [v \in Valves |-> IF v \in shut THEN ClosedValve ELSE valve[v]],
              ps |-> [v \in Valves |-> pin[v] /\ v \notin shut],
              L |-> Recorded(ledger, valve, shut, stamp),
              cd |-> Cooled(cd, valve, shut),
              ends |-> Marked(stopped, valve, shut, t)]
        clocked == /\ now' = t /\ grace' = g
                   /\ synced' = sync /\ nowEpoch' = epoch /\ restored' = (restored \/ sync)
                   /\ UNCHANGED paused
    IN
    /\ t <= Horizon /\ epoch >= 0
    /\ \/ /\ due = {} /\ clocked
          /\ Hold(a, disk, damaged, t, g) \/ StartHead(a, bad, t, stamp, g)
       \/ /\ due # {} /\ shut = due /\ clocked
          /\ Hold(b, b.L, FALSE, t, g) \/ StartHead(b, bad, t, stamp, g)
       \/ /\ due # {} /\ clocked      \* closing, or the commit after it, raises
          /\ IF shut = {} THEN UNCHANGED flash ELSE CommitFails(b.L)
          /\ StopAll(b, bad, t, stamp, TRUE)
          /\ UNCHANGED <<started, served>>
       \/ due # {} /\ shut = due /\ Boot(t, b.L, FALSE)
       \/ LET c == IF due = {} THEN a ELSE b IN
          shut = due /\ MayStart(c, g) /\ Boot(t, StartRecord(c, t, stamp), FALSE)

-----------------------------------------------------------------------------
(* The other handlers.  A handler that leaves closeFault set is followed   *)
(* by the tick of `guarded`, which resets the machine: none runs meanwhile.*)

Batch(names, dur, reason, occ) ==
    [i \in DOMAIN names |-> [name |-> names[i], dur |-> dur, reason |-> reason, occ |-> occ]]

\* enqueue, called by the API: an explicit run ends the moisture session.
\* Mutant of Water: a fault does not refuse new runs.
WaterInhibited(names, dur) ==
    /\ ~closeFault /\ ~paused /\ grace = 0
    /\ Len(queue) + Len(names) <= QueueMax
    /\ queue' = queue \o Batch(names, dur, "manual", <<>>)
    /\ session' = NoSession
    /\ UNCHANGED <<control, world>>
Water(names, dur) ==
    /\ ~closeFault /\ ~inhibited /\ ~paused /\ grace = 0
    /\ Len(queue) + Len(names) <= QueueMax
    /\ queue' = queue \o Batch(names, dur, "manual", <<>>)
    /\ session' = NoSession
    /\ UNCHANGED <<control, world>>

\* An occurrence is due once per minute value; the key only grows.
\* Mutant of DueNow: another minute than the last one fires again.
DueAgain(s) == nowEpoch \in Due[s] /\ ledger.fired[s] # nowEpoch
DueNow(s) == nowEpoch \in Due[s] /\ ledger.fired[s] < nowEpoch

\* An occurrence that does not fit is left unmarked, for the rest of its minute.
\* Mutant of Fits: it is marked whether its batch fits or not.
FitsAlways(s) == TRUE
Fits(s) == Len(queue) + Cardinality(Targets[s]) <= QueueMax

\* The queue after enqueue was given the batch b: it raises if b does not fit.
Enqueued(b) == IF Len(queue) + Len(b) <= QueueMax THEN queue \o b ELSE queue

(***************************************************************************)
(* One iteration of schedules() for a schedule that matches this minute.   *)
(* With an output open the occurrence stays in RAM; otherwise the journal  *)
(* is committed before the batch is queued.                                *)
(***************************************************************************)
FireSchedule(s) ==
    LET L == [ledger EXCEPT !.fired[s] = nowEpoch]
        a == [Snapshot EXCEPT !.L = L]
        stamp == StampOf(synced, nowEpoch)
    IN
    /\ ~closeFault /\ synced /\ grace = 0 /\ ~paused /\ ~inhibited
    /\ DueNow(s) /\ Fits(s)
    /\ \/ /\ IF AnyOpen(valve) THEN UNCHANGED flash ELSE Commit(L)
          /\ ledger' = L
          /\ \E names \in Orders(Targets[s]) :
                queue' = Enqueued(Batch(names, RunLength, "schedule", <<s, nowEpoch>>))
          /\ session' = IF Targets[s] = {} THEN session ELSE NoSession
          /\ UNCHANGED <<now, cooldown, control, clock, outputs, history>>
       \/ /\ ~AnyOpen(valve)
          /\ CommitFails(L)
          /\ \E bad \in SUBSET Faulty : StopAll(a, bad, now, stamp, TRUE)
          /\ UNCHANGED <<now, paused, grace, clock, started, served>>
       \/ ~AnyOpen(valve) /\ Boot(now, L, FALSE)

\* A usable reading: when it was taken and whether it calls for water.
Readings == {r \in [updated : 0 .. now, wet : BOOLEAN] : now - r.updated <= FreshFor}

\* moisture() while watering is held, or with moisture watering disabled.
MoistureHeld ==
    /\ ~closeFault
    /\ session' = NoSession
    /\ UNCHANGED <<queue, control, world>>

MoistureReady ==
    /\ ~closeFault /\ ~inhibited /\ ~paused /\ grace = 0
    /\ ~AnyOpen(valve) /\ queue = <<>>

\* The soak of the session's last batch is over.
Soaked == session.closed # Never /\ now - session.closed >= Soak

\* The session ends: enough cycles, no fresh reading, or wet enough.  (A missing
\* reading, always possible, has the same effect as each of the others.)
EndSession ==
    /\ MoistureReady /\ session.cycles > 0
    /\ session.cycles >= MaxCycles \/ Soaked
    /\ session' = NoSession
    /\ UNCHANGED <<queue, control, world>>

\* Another cycle, authorized by a dry reading taken after the soak.
NextCycle ==
    /\ MoistureReady /\ session.cycles > 0
    /\ session.cycles < MaxCycles /\ Soaked
    /\ \E r \in Readings : ~r.wet /\ r.updated - session.closed >= Soak
    /\ session' = [session EXCEPT !.cycles = @ + 1, !.closed = Never]
    /\ queue' = Batch(session.valves, RunLength, "moisture", <<>>)
    /\ UNCHANGED <<control, world>>

\* A dry zone with valves that no lockout holds back opens a session.
\* Mutant of Runnable: only the moisture lockout is looked at.
RunnableOwnLockout(z) == {v \in ZoneValves[z] : cooldown[v]["moisture"] = 0}
Runnable(z) == {v \in ZoneValves[z] : \A k \in Categories : cooldown[v][k] = 0}
NewSession(z) ==
    /\ MoistureReady /\ session.cycles = 0
    /\ \E r \in Readings : ~r.wet
    /\ Runnable(z) # {}
    /\ \E names \in Orders(Runnable(z)) :
          /\ session' = [valves |-> names, cycles |-> 1, closed |-> Never]
          /\ queue' = Batch(names, RunLength, "moisture", <<>>)
    /\ UNCHANGED <<control, world>>

(***************************************************************************)
(* Stopping, closing one valve, saving settings, rebooting: all stop every *)
(* valve and then commit; those that hold watering also pause it.          *)
(***************************************************************************)
Stop ==
    LET stamp == StampOf(synced, nowEpoch)
        L == Recorded(ledger, valve, Open(valve), stamp)
    IN
    /\ ~closeFault
    /\ \/ /\ \E bad \in SUBSET Faulty \ {{}} : StopAll(Snapshot, bad, now, stamp, FALSE)
          /\ UNCHANGED <<now, paused, grace, clock, flash, started, served>>
       \/ /\ StopAll(Snapshot, {}, now, stamp, FALSE)
          /\ Commit(L)
          /\ paused' \in {paused, TRUE}
          /\ UNCHANGED <<now, grace, clock, started, served>>
       \/ /\ StopAll(Snapshot, {}, now, stamp, TRUE)
          /\ CommitFails(L)
          /\ UNCHANGED <<now, paused, grace, clock, started, served>>
       \/ Boot(now, L, FALSE)

\* Calibration, upload and update hold an idle controller; the loop of
\* runtime.run releases it when none of them is under way.
Pause ==
    /\ ~closeFault /\ Idle /\ paused' = TRUE
    /\ UNCHANGED <<queue, session, inhibited, closeFault, grace, world>>
Resume ==
    /\ ~closeFault /\ paused /\ paused' = FALSE
    /\ UNCHANGED <<queue, session, inhibited, closeFault, grace, world>>

\* Power fails between two handlers, or the runtime resets the machine.
PowerLoss == Boot(now, disk, damaged)

\* The flash loses both generations of a journal that was written.
MediaFault ==
    /\ MediaFaults /\ ~damaged /\ disk # EmptyJournal
    /\ damaged' = TRUE
    /\ UNCHANGED <<queue, session, control, now, books, clock, outputs, disk, history>>

-----------------------------------------------------------------------------
Init ==
    /\ now = 0
    /\ disk = EmptyJournal /\ damaged = FALSE /\ ledger = EmptyJournal
    /\ inhibited = FALSE /\ paused = FALSE /\ closeFault = FALSE
    /\ cooldown = [v \in Valves |-> [k \in Categories |-> 0]]
    /\ queue = <<>> /\ session = NoSession /\ grace = Grace
    /\ synced = FALSE /\ nowEpoch = 0 /\ restored = FALSE
    /\ valve = [v \in Valves |-> ClosedValve]
    /\ pin = [v \in Valves |-> FALSE]
    /\ started = [v \in Valves |-> [k \in Categories |-> Never]]
    /\ stopped = [v \in Valves |-> [k \in Categories |-> Never]]
    /\ served = [v \in Valves |-> [s \in Schedules |-> Never]]

Next ==
    \/ \E d \in 0 .. MaxSlice : Tick(d)
    \/ \E r \in Requests : Water(r.names, r.dur)
    \/ \E s \in Schedules : FireSchedule(s)
    \/ MoistureHeld \/ EndSession \/ NextCycle
    \/ \E z \in Zones : NewSession(z)
    \/ Stop \/ Pause \/ Resume
    \/ PowerLoss \/ MediaFault

Spec == Init /\ [][Next]_vars

-----------------------------------------------------------------------------
(* Properties. *)

TypeOK ==
    /\ now \in Nat
    /\ queue \in Seq(Entries)
    /\ session \in Sessions
    /\ cooldown \in [Valves -> [Categories -> Nat]]
    /\ ledger \in Journals /\ disk \in Journals
    /\ inhibited \in BOOLEAN /\ paused \in BOOLEAN /\ closeFault \in BOOLEAN
    /\ synced \in BOOLEAN /\ restored \in BOOLEAN /\ damaged \in BOOLEAN
    /\ grace \in Nat /\ nowEpoch \in Nat
    /\ valve \in [Valves -> ValveObjects]
    /\ pin \in [Valves -> BOOLEAN]
    /\ started \in [Valves -> [Categories -> Times]]
    /\ stopped \in [Valves -> [Categories -> Times]]
    /\ served \in [Valves -> [Schedules -> Times]]

\* The global queue: never two solenoids energized at once, not even after an
\* output that failed to close.
OneAtATime == \A v, w \in Valves : pin[v] /\ pin[w] => v = w

\* Intent is durable before energizing: an energized output is known to its
\* Valve object, and a journal that still parses has a record of the run.
IntentDurable ==
    \A v \in Valves : pin[v] =>
        /\ valve[v].open
        /\ ~damaged => disk.stamp[v][Category(valve[v].reason)] # Absent

\* After a fault nothing is queued, no session goes on, and an output is energized
\* only if closing it failed, which resets the machine.
InhibitedIsQuiet ==
    inhibited => /\ queue = <<>> /\ session = NoSession
                 /\ \A v \in Valves : pin[v] => closeFault

\* Maintenance never overlaps watering: while paused there is nothing to start.
PausedIsQuiet == paused => (queue = <<>> /\ \A v \in Valves : pin[v] => closeFault)

\* The hard cutoff, at every tick and across the start of the next run.
CutoffRespected ==
    \A v \in Valves : valve[v].open /\ ~closeFault =>
        now - valve[v].at < Least(valve[v].dur, MaxOpen)

\* Across restarts, late synchronization and clock restores, a countdown never
\* ends before the interval since the last time such a run was energized.
CooldownCovers ==
    \A v \in Valves, k \in Categories : started[v][k] # Never =>
        cooldown[v][k] + (now - started[v][k]) >= Interval[k]

\* As long as the flash keeps a generation of the journal, a controller that accepts
\* watering has a record of every kind of run it made: cuts and raising commits lose none.
RunsRecorded ==
    ~inhibited => \A v \in Valves, k \in Categories :
        started[v][k] # Never => ledger.stamp[v][k] # Absent

\* An occurrence is marked as fired only together with queueing the whole of its batch,
\* unless a fault or a power loss ends the handler in between: one that finds the queue
\* full stays due.
MarkedIsQueued ==
    [][\A s \in Schedules :
          ledger'.fired[s] > ledger.fired[s] /\ ~inhibited' /\ synced'
            => \A v \in Targets[s] : \E i \in DOMAIN queue' :
                  queue'[i].name = v /\ queue'[i].occ = <<s, ledger'.fired[s]>>]_vars

Starts(v) == valve'[v].open /\ (~valve[v].open \/ valve'[v].at # valve[v].at)

\* A moisture run, of whatever cycle, never starts within the lockout that a
\* scheduled run of the same valve began: explicit runs end the session.
MoistureYields ==
    [][\A v \in Valves :
          Starts(v) /\ valve'[v].reason = "moisture" /\ started[v]["schedule"] # Never
            => now' - started[v]["schedule"] >= Interval["schedule"]]_vars

\* An occurrence of a schedule energizes a valve at most once, across power
\* losses and backward corrections of the clock.
OccurrenceOnce ==
    [][\A v \in Valves : Starts(v) /\ Head(queue).occ # <<>>
          => Head(queue).occ[2] > served[v][Head(queue).occ[1]]]_vars

\* A further cycle of a session waits a full soak after each of its valves closed.
SoakBeforeRewatering ==
    [][session.cycles > 0 /\ session'.cycles > session.cycles
          => \A i \in DOMAIN session.valves :
                now - stopped[session.valves[i]]["moisture"] >= Soak]_vars
=============================================================================
