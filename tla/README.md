# Verification of the ESP32 watering controller

TLA+ models of the firmware in `src/` (MicroPython, one cooperative thread, one
microcontroller), TLC configurations that check them on small instances, and theorems
checked by TLAPS. File names without a directory are those of `src/src/`.

## 1. The system

The program is one loop (`runtime.py`) that never blocks for long: every component has a
`poll` that does a bounded slice of work, and `controller.tick`, which closes expired
outputs, runs before and after every slice. What makes it hard is not parallelism but

* *interruption*: power may be lost, and the watchdog may reset, between any two flash
  calls; RAM is lost and the boot code goes on from what is on flash;
* *operations spread over many polls*: settings, files, connections and valves change
  between two slices of an upload, a conversion, an installation or a prune;
* *partial failure*: GPIO writes, flash calls, I2C transactions and driver calls raise;
* *time*: outages of unknown length, a wall clock that NTP sets late or back, deadlines.

| component | state | operations | what is hard | what makes it correct |
|---|---|---|---|---|
| Controller, Valve (`controller.py`, `valve.py`) | queue, session, cooldowns, journal in RAM, inhibited, paused; valve objects; outputs; journal on flash | tick, enqueue, schedules, moisture, stop_all, close, boot | raising writes and commits, restarts between record and output, late clock | one output at a time, a durable record before any output, bounded runs, lockouts and occurrences over restarts |
| JSON files (`persistence.py`, `_save` of `boot.py`, `_atomic_json` of `romboot.py`) | current, previous and temporary generation | read_json, atomic_json | a cut between any two calls, a damaged generation | atomic for readers |
| Updater (`updater.py`) | phase, entries, staged files, journal, policy | request_check, request_install, begin_upload, poll, mark_stable | a cut or failure at any file | never mixed firmware, always recoverable |
| Boot guard (`boot.py`) | the same files | boot_guard, close_boot_valves | its own interruption, trial boots | switch to the new or back to the old firmware |
| ROM cache (`romboot.py`) | two flash banks, marker | prepare | stale or damaged images, cut rebuilds | the application runs from the modules' image |
| Maintenance hold (`application.py`, `runtime.py`, `web.py`, `UpdateSchedule`) | paused, busy, clients, calibration, reboot, schedule | all takers and the releasing step | interleaved owners of one flag | no maintenance while watering; every hold ends |
| State (`state.py`) | history and event files, live rings, prune job | sample, prune, events, history | append against prune, renames | saved points stay readable |
| WiFi (`wifi.py`, `wifi_setup.py`) | station, portal, timers; DNS, probe, NTP clients | poll, save_wifi | driver errors, timers against each other | reconnects, rescue portal |
| Sensors (`moisture.py`, `ads1x15.py`, `env_sensors.py`) | readings, queue, conversion, calibration | poll, configure, start_calibration | settings change during a conversion | readings belong to the present wiring and limits |
| HTTP server, API (`web.py`, `api.py`) | listener, two connections, multipart parser, replies | poll, dispatch | slow peers, raising handlers, aborted uploads, a listener that fails | one answer each, every connection ends, no upload file outlives its upload |
| Settings (`settings_store.py`, `application.py`, `close_boot_valves`) | settings document, its file, the outputs made from it | start, save, save_valves, reboot, boot closing | two files changed together, damaged generations, outputs of the settings before | lockouts follow their valves, boot finds every driven pin, damaged settings are kept |
| Tools (`src/tools/`) | release branches | publish, sync | partial publication | history is preserved |

Interactions are calls within the thread: `runtime.py` calls each `poll`; API handlers call
`App`, which calls the controller, sensors and updater; `Updater` and `Controller` share the
flash through `persistence.py`; boot code and application communicate through files only.
The hazards in this code, with their lines and the properties aimed at them, are listed in
`PROJECT.json`.

## 2. Modules

| module | models | composed with |
|---|---|---|
| `WateringController` | `controller.py`, `valve.py` | |
| `AtomicRegister` | what a JSON file promises | implemented by `DurableFile` |
| `DurableFile` | `persistence.py`, `_save`, `_atomic_json` | |
| `FirmwareSwitch` | what an update promises: a trial of the new firmware, then the new or the old one | implemented by `OtaInstall` |
| `OtaInstall` | the transaction of `updater.py`, `boot_guard`, `mark_stable` | |
| `RomCache` | `romboot.prepare` | instances of `DurableFile` (marker) and `FirmwareSwitch` (root modules) |
| `Maintenance` | the hold of watering and its takers | |
| `SettingsStore` | `settings_store.py`, the saves of `application.py`, `close_boot_valves` | extends `DurableFile` (the settings file) |
| `HttpServer` | `web.py` | |
| `NetClients` | `DNSResolver`, `NTPClient` on the ticks of `compat.py` | |
| `HistoryStore` | saved history of `state.py` | |
| `WifiStation` | `WifiManager`, rescue portal | |
| `MoistureSampler` | `MoistureManager`, ADS1115, commit of a calibration | |
| `…Proofs` | theorems about the module they are named after; `SettingsStoreProofs` also those of `DurableFile`, `WifiProofs` those of `WifiStation` and `NetClients`, `ReadingsProofs` those of `MoistureSampler` and `HistoryStore` | `NetClients` is an instance there (`Net`); the others are extended, and `SettingsStore` and `HistoryStore` name their specifications so that they can be |
| `MC…` | constants for the runs | |

An action is a call that the main loop makes between two points where something else can
happen: another call, or a loss of power. In `WateringController` that is a whole tick (a
journal commit being atomic, which `DurableFile` shows); in `DurableFile`, `OtaInstall`,
`RomCache`, `SettingsStore` and the end of a prune in `HistoryStore` it is one file system
call. In `HttpServer` it is one connection's slice of a poll, connections being independent.
In `WifiStation`, `MoistureSampler` and `HttpServer` the object is one record and its methods
are functions from a record to the set of records it may leave behind, so that a poll composes
them in the order of the code. Definitions named `…Never`, `…Always`, `…Late` and the like,
marked *Mutant of*, are plausible wrong versions of the definition they stand before; they
show that a property depends on it, and the specifications do not use them.

### Abstractions

* `WateringController`: one unit of time is both a minute of the schedule and the unit of
  durations; the calendar is the set `Due` of matching minutes. `served`, `started` and
  `stopped` are history variables. Configuration is constant. Readings are an arbitrary dry
  or wet, fresh or stale value. A commit takes far less than the unit, so that the opening of
  an output has the time of its tick (the code reads the clock again, `controller.py:174`),
  and the two runs of `stop_all` after a failed commit are one.
* `DurableFile`: a document is a value; a torn or lost one does not parse. A medium fault
  costs one generation, between two stores only.
* `OtaInstall`: the contents of a file are the version that wrote them; a hash tells any two
  contents apart. Backups, being read and written in one go without a readback, are exact
  once complete. A stalled or failing download is an exception of the phase. The list of
  rejected versions is not cut off at eight.
* `Maintenance`: names and contents of uploads are left out; retry delays and daily slots
  come when they may, and the conditions of the schedule outside this module are one choice.
  Watering is one bit.
* `RomCache`: fingerprints distinguish images; both banks have the same size.
* `HistoryStore`: a point is its time; the unit is the 15 minutes between saved points; the
  wall clock does not run backwards. The legacy CSV is read only and left out.
* `SettingsStore`: a document is what it says about valves, a function of their names to their
  pins. The other settings, and migration and validation, decide only whether a save is valid.
  A record is there or not; two stamps merged by a rename become an unknown one in the code,
  which keeps the full lockout. A valve whose new name the request does not declare as a rename
  is a new valve. The journal is a file whose store is one step. `os.sync` after the last
  rename is taken not to raise, and a save with an empty list of valves makes boot take the
  next older list, as the code does.
* `HttpServer`: a read brings part of the head or parts of the body, a write takes part of the
  reply; contents are nondeterministic. Any call of the updater or the handler may raise.
* `NetClients`: `time` is the real time, of which the program sees the value modulo the
  period; packets are of use, failures, or ignored. History variables keep the real times.
* `WifiStation`: timers count down in units much longer than a loop turn (`polled`: the loop
  comes round between two ticks). The resolver is in `NetClients`; the driver's status
  text is left out. Three groups of driver calls raise or work independently (`broken`).
* `MoistureSampler`: a reading is the input it was taken from and the limits it was scaled
  with; limits have two values. An installation (`Sites`) says which board has an input, whether
  boards may fail, and whether conversions may outlast a turn. The deadline of a conversion
  (1000 ms, `moisture.py:197`) ends only those of boards that fail: one that works is done
  long before.

## 3. Runs

| run | shows | bounds, and why they are enough |
|---|---|---|
| `controller_faults` | `OneAtATime`, `IntentDurable`, `InhibitedIsQuiet`, `PausedIsQuiet`, `CutoffRespected`, `MarkedIsQueued`, `TypeOK`, with raising GPIO writes and commits, a lost journal | two valves of which one is faulty, a schedule, a long manual run and a queue of two entries: a batch, a run in progress, a fault and a full queue meet within 3 units |
| `controller_lockouts` | `CooldownCovers`, `MoistureYields`, `SoakBeforeRewatering` | 5 units hold a scheduled run, an outage, a synchronization and a moisture session with its soak |
| `controller_occurrences` | `OccurrenceOnce` with a wall clock that jumps back and forth | two occurrences that the jump can confuse, one outage |
| `settings` | `RecordsFollow`, `BootCloses`, `DamagedKept`; of the file `IsRegister`, `ReturnStores` | four documents: no valve, one under either name, two; renames, exchanges, moves of a pin and removals, each cut or raising at any call, any number of times; no other bound. File copies without a readback are covered by the theorems, which hold for both values of `Verify` |
| `http` | `SinksHeld`, `OneAnswer`, `ConnectionsEnd`, `Admits` | the server's two connections; bodies of up to three parts, so that an upload opens and closes more than one file; deadlines scaled down with their order kept |
| `net` | *violation* of `FreshInTime`: a failure of a week ago looks fresh | a period of 16 ticks, names of the clock and of the updater |
| `ota_switch` | `WholeFirmware`, `Recoverable`, `IsSwitch`, `Settles`, `UndoneNotRepeated` | two files (one shipped, one new), two releases, four faults, three installations: a cut commit, a cut rollback and further releases in one behaviour |
| `maintenance` | `MaintenanceIsDry`, `BusyOwned`, `AutoInstallsChecked`, `HoldReleased` | two connections (the server's limit), four requests: enough for every pair of takers to race with a third |
| `rom` | `RunsFromRoot`, `CommittedIntact`, `Starts` | three images, one too large; three updates, four faults: rebuild, rollback and fallback of the marker combine |
| `history_kept` | `SavedKept`, unless the ending renames are cut or a read of the prune raises | five units, retention three, a prune every two: points expire and are kept over two prunes |
| `wifi` | `Reconnects`, `RescueOffered`, `ParkedInRescue`, `PortalAttemptsLast` | calls that command the station, ask for its state, or serve the access point may each raise for any time; timers scaled down with their order kept; no other bound |
| `sampler` | `ReadingsCurrent`, `CaptureOwn`, `Resampled` | two zones whose probes are swapped, on one slow board (the ADC's channel is shared) and on two failing ones; three and two requests of users |

Bounds on counters are in the guards: `Horizon`, `MaxSlice`, `MaxOutage` and `LastTime`
(time), `MaxFaults`, `MaxInstalls`, `MaxRequests`, `Body`, the `limit` of a site, and `Limit`,
which is the code's own limit of boots. Where a bound ends all work, a `Rest` action stutters
in place of the loop that goes on.

What the runs assume, since it does not hold without:

* `controller_lockouts`: an accurate wall clock (with a wrong one the restored cooldowns are
  wrong by as much) and a journal that the flash keeps (section 4, 2).
* `controller_occurrences`: a journal that the flash keeps.
* `history_kept`: no fault fell between the two renames that end a prune, and no read of one
  raised while it had unexpired records left (`cut`; section 4, 6).
* `settings`: `BootCloses` speaks of a flash that has lost no generation. If it loses the
  current one, boot can only close the pins of the one before.
* `HoldReleased` speaks of behaviours in which no raising call leaves `busy` without an
  owner (section 4, 5); `Reconnects` of those in which the station's and the access point's
  driver work from some time on (section 4, 7); `RescueOffered` of those in which the access
  point's and the calls that ask for the link do (section 4, 7 and 11), whatever the calls
  that command the station do. Before that time they may break and recover at will (`Break`).
* `sampler`: a calibration that can be saved (section 4, 9). Bus faults
  come with conversions of nominal length only: a board that is unplugged and replugged
  within one conversion loses its configuration in reality, which the model does not have.

### Fairness

* `OtaInstall`: the boot code and the updater's poll go on (the loop calls them), and the
  application eventually survives its 60 s; power losses are bounded by `MaxFaults`.
* `Maintenance`: the loop comes round (updater, schedule, web server, release), open
  connections end because of their absolute deadlines, and a calibration ends after 10 s.
* `RomCache`: boot code runs on, and a refused boot is followed by a reset.
* `WifiStation`: polls and time; no valve stays open for ever (`CutoffRespected`), hence
  strong fairness of polls without an open valve; an attempt made again and again in reach of
  the router succeeds (strong fairness of `Associate`, a property of the network).
* `MoistureSampler`: polls, time, the end of conversions.
* `HttpServer`: the loop polls each connection and time passes (weak fairness). A listener that
  is opened again and again opens some time (strong fairness of `Reopen`, a property of the
  network stack). Peers have no fairness at all.

## 4. Disagreements found

Where the code does otherwise than its documents or comments say. The tenth is a run with
expected result *violation*, quoted in `PROJECT.json`. The others are counterexamples met
while modelling; the third column says how a checked formula shows them.

| | disagreement | shown by |
|---|---|---|
| 1 | `docs/architecture.md:11`: cooldowns are said to be measured from the last close; after a power loss during a run they count from its opening (`controller.py:171`) | `CooldownCovers` with `stopped` in place of `started` |
| 2 | `controller.py:48`: a damaged journal inhibits watering until any stop replaces it by an empty one; the next boot takes that for a fresh install | `controller_lockouts` with `MediaFaults = TRUE` violates `CooldownCovers` (and `RunsRecorded`, if named there) |
| 3 | `docs/ota.md:183`: three boots to survive; the third restores (`boot.py:112`) | `IsSwitch` holds with `Limit - 1` chances |
| 4 | `updater.py:385`: an interrupted installation rejects its version for good, though it was never booted | `EndRestore` of a journal that was `committing`, then `Start` |
| 5 | `updater.py:457`, `:439`: `busy` is set before a call that may raise; watering is then held until a restart once anything takes the hold | `maintenance` with `paused ~> ~paused` alone |
| 6 | `docs/api.md:10` retains saved points for 7 days; a cut between the renames of a prune (`state.py:178`) loses the saved history once the next append creates a file, and a read that raises is taken for the end of the records (`state.py:146`), so that the part copied so far replaces the file | `history_kept` with `SavedKept` without `~cut` |
| 7 | `wifi.py:472`: a portal that cannot start is retried on every poll and keeps the station parked for ever | `wifi` with `Breakable = {"portal"}` and `Reconnects` for `"station" \notin broken` |
| 8 | `wifi.py:473`: the rescue timer cuts an attempt (`docs/architecture.md:21`) | `wifi` with `[][~Cut]_vars` |
| 9 | `moisture.py:188`: readings scaled with limits that are put back when saving fails | `sampler` with `SaveFaults = TRUE` violates `ReadingsCurrent` |
| 10 | `compat.py:1` calls all intervals wrap-safe; those longer than 2^29 ms (6.2 days) are not. A cached DNS failure looks fresh again after that time, and the name is not looked up (`wifi.py:85`); after a WiFi outage of that length the clock's `next_attempt` lies ahead again (`wifi.py:530`) | run `net`; `FreshForHalfAPeriod` proves the other side |
| 11 | `wifi.py:475`: `isconnected` or `status` that keeps raising ends every poll before the rescue check (`wifi.py:471`), and no access point is opened; a `RuntimeError` of closing the portal (`wifi_setup.py:66`) leaves it active beside the link | `wifi` with `RescueOffered` for `"portal" \notin broken` |

## 5. Proofs

| theorem | for every | argument |
|---|---|---|
| `WateringControllerProofs`: `TypeCorrect`, `AlwaysAccounted`, `OneValveAtATime`, `DurableBeforeEnergized` | set of valves, zones, schedules, requests, fault set, bound | The inductive invariant (type, *an energized output has an open object*, *at most one is open*, *every run under way has a record in the RAM journal and on the readable flash*) is preserved by each action; lemmas say what a stop, an expiry and a start do to it. `IntentDurable` alone is not inductive: whether a stop may forget a record depends on objects and outputs agreeing. |
| the same: `AlwaysCalm`, `FaultsQuiet`, `HoldsQuiet`, `CutoffAlwaysRespected` | the same | `Calm` adds that a closing fault is a fault, so that an output left on never counts as quiet. `CutoffRespected` is inductive: a tick closes what is due before it starts anything, and what it starts has its whole duration ahead. |
| the same: `LockoutsAlwaysHold`, `RunsAlwaysRecorded`, `LockoutsCover` | the same, with `~MediaFaults`; for `LockoutsCover` also `Skews = {0}` | Every kind of run ever energized is in the journal in RAM and in the one on flash, with a stamp that is unknown or not older than the run. That carries the countdowns over restarts: a boot starts them in full, and a stamp that replaces them later is not too old. |
| the same: `SoaksBeforeCycles` | the same, no assumption on clock or flash | A batch noted as closed has nothing open or queued, and nothing closed after it; only `NextCycle` raises the count (`OnlyNextCycle`, from what a tick may do at all: `TickHasEffect`). |
| the same: `MoistureAlwaysYields` | as `LockoutsCover` | Moisture runs stand at the front of the queue and a session has nothing else queued; their valves were rested when the session began (`LockoutsCover`), and a scheduled run cannot have started since. |
| the same: `EachOccurrenceOnce` | the same, with `~MediaFaults` | A queued occurrence is later than any that energized its valve, those of a valve are queued in order, and both journals are at least as far as the history. An occurrence still in RAM when the power fails is lost, never repeated. |
| the same: `MarkedAlwaysQueued` | the same, no assumption on clock or flash | Only `FireSchedule` raises a mark, and its own guard is the one `enqueue` has, so that the batch is taken whole (`FireEnqueues`). |
| `SettingsStoreProofs`, the file: `ProtocolHolds`, `FileIsRegister`, `ReturnIsStored` | set of documents, with and without readback | `ProtocolInv` says which generation is readable before each call. `RemovePrev` and `RemovePath` are safe because the other generation, or the temporary, is whole; that is the mapping to `AtomicRegister`. |
| the same, the settings: `StoreHolds`, `RecordsAlwaysFollow`, `BootAlwaysCloses`, `DamagedAlwaysKept`, `SettingsAreRegister` | set of names and documents | Every step is a step of the file or leaves it alone (`FileStep`), so that the file's theorems carry over. `RecordsFollow` needs where the copies of a rename are before and after the journal is stored; `BootCloses` needs that a controller that may open outputs has the settings that are read, which holds up to the last rename and then because a restart is due and watering is held. |
| `OtaInstallProofs`: `AlwaysConsistent`, `AlwaysRecoverable`, `AlwaysWhole`, `TransactionIsSwitch`, `UndoneStayUndone` | set of files and releases, limit, faults | The invariant relates the entries a loop has treated (`todo`, `hole`) to files, staged files and backups in every phase: what is treated has the goal's (or the base's) contents, and backups of all entries are whole from the journal's first commit to its settlement. `UndoneStayUndone` adds that a version rolled back is in the policy or in a journal no updater replaces. |
| `HttpServerProofs`: `ConnectionsSound`, `SinksAlwaysHeld`, `AnsweredOnce`, `HttpTypes` | number of connections, parts of a body, deadlines | The invariant of one connection: the parser's stage says whether a file is open, the phase how many replies and calls there were. Lemmas carry it through each method, from the innermost to the poll. |
| `MaintenanceProofs`: `HoldKept`, `MaintenanceAlwaysDry`, `BusyAlwaysOwned`, `AutoInstallsAlwaysChecked` | number of connections and requests | The step that releases the hold looks at `busy`, not at who works. That is right because whoever works is busy and alone (`Sole`), so the three are inductive together: `Sole`, `MaintenanceIsDry`, and *what may be installed unattended was found by an automatic check* (`Chosen`). |
| `RomCacheProofs`: `BootsHold`, `RomTypes`, `AlwaysRunsFromRoot`, `CommittedAlwaysIntact` | images, sizes, updates and faults | `RomInv` joins the marker's `ProtocolInv` to the boot: the bank being written is not the one the readable marker names, and from the readback (or the hash of a bank found ready) on it has the image of the modules this boot starts with (`Working`). A marker may be stale or lost, since no boot trusts it without the hash; a damaged bank is found before it is mounted. |
| the same: `MarkerIsRegister`, `CacheKeepsSwitch` | the same | Each step is one of the marker's file or leaves it alone. The modules' part of a step is one of `FirmwareSwitch` or a stutter: a refused, cut or raising boot is a granted chance that was not taken. |
| `ReadingsProofs`, the sampler: `ConversionsHold`, `CapturesAlwaysOwn`, `ReadingsAlwaysCurrent` | zones, wirings, boards, requests; `NotBoth`, and for the last `~SaveFaults` | What a board converts is the input of the zone that waits for it (`Matched`) because no other conversion is under way (`Alone`): a settings save cancels the publication but waits for the conversion. Lemmas carry this through each method, from the innermost to the turn; limits changed by a calibration are committed in the same turn, which drops every reading. |
| the same, the history: `HistoryHolds`, `SavedAlwaysKept` | retention, times, faults | While a prune copies, the points copied and those still to be copied are together all the unexpired ones, because nothing is appended meanwhile. After the copy the temporary file has them all, which the renames rely on; where a read that raised has ended the copy early, `cut` says so unless only expired points were left. |
| `WifiProofs`, the station: `RadioHolds`, `WifiTypes`, `RescueAlwaysParks`, `AttemptsAlwaysLast` | times, sets of drivers that break | A radio can be joining outside an attempt, when parking it failed. It is then still true that the station is not connected and that the attempt's deadline passes before the next one begins (`Joins`), which is why a new attempt is never taken for a cut one, and why an attempt beside the access point is never retried early. `RescueAlwaysParks` follows from what each method may leave behind (`Aside`). |
| the same, the resolver: `FreshForHalfAPeriod` | names, addresses, sizes; the code's period | Ticks of times less than half a period apart differ as the times do, and an entry's tick is its real end modulo the period. |

They assume the named `ASSUME`s of the modules: finiteness of the valves, that values outside
the data (`Missing`, `Torn`, `Nothing`, `None`) are distinct from it, and ranges of the
parameters. `WifiAssumption` has attempts that are not longer than the retry interval of the
portal: 20 s and 12 s (`wifi.py:368`) against 60 s (`wifi.py:339`, `:388`). The values
of `compat.py` are a hypothesis of `FreshForHalfAPeriod` (`CodeValues`). No theorem depends on the sets being small.

Conditions that stand in the theorems, since the statement is false without them:

* `Skews = {0}` and `~MediaFaults`: section 3 and section 4, 2.
* `~SaveFaults` in `ReadingsAlwaysCurrent`: section 4, 9.
* `NotBoth`: no installation has boards that fail *and* conversions that outlast a turn; both
  kinds of installation are covered, and `sampler` has one of each. With both, TLC shows
  `ReadingsCurrent` violated: a start that raises after the board has taken it is not waited for
  (`moisture.py:178`), the board ignores the next start while it converts, and the value is
  then read as that of the other zone. In reality the board would also have to take longer
  than a failing transaction.

Only model-checked: the liveness properties `Settles`, `HoldReleased`, `Starts`, `Reconnects`,
`RescueOffered`, `Resampled`, `ConnectionsEnd` and `Admits` (fairness and `ENABLED` are out of
the prover's reach). Every safety property and every refinement that a run checks is a theorem.
`HistoryTypes` documents the variables of `HistoryStore`; what the proof needs of it is in
`HistoryInv`. The set of `DurableFile`'s `Values` being uninterpreted, nothing is proved by
induction over data, and no module uses a `RECURSIVE` operator.

## 6. Plan

Done in the order of importance: outputs and journal, files, updates, hold, cache, history,
network, sensors, settings, HTTP server, clients of the network; then the proofs of every
component's safety properties. What would come next:

1. The policy of updates (the held version, the catalogue) in `OtaInstall`: the hold on
   automatic updates is stored before the transaction and stays when that fails.
2. Events and their queue beside `HistoryStore`; one HTTPS transfer with its redirects and
   deadline.
3. A composition of `Maintenance` with `WateringController`: the one bit of watering shown to
   be its `Idle`.
4. `ChannelPublish`: the release history of `tools/publish_channel.py`, `sync_updates.py`.

## 7. Not modelled

Environment sensors, LED and dashboard (display only); API dispatch (stateless); TLS, HTTP
parsing and certificates (they end in verified contents or an exception); metrics and garbage
collection; the daily reboot and the re-creation of failed managers; the image format of the
ROM file system; migration and validation of settings (pure functions of one document); build,
packaging, publishing and test tools. Items 1, 2 and 4 of the plan are parts that keep state
and are not modelled yet. `PROJECT.json` lists every part with its status.
