---------------------------- MODULE HistoryStore ----------------------------
(***************************************************************************)
(* Saved moisture history, state.py: points are appended to history.jsonl, *)
(* read from it or, if it is absent, from history.jsonl.prev, and once a   *)
(* day copied without the expired ones by a job that handles one record    *)
(* per turn of the main loop and then renames the files.                   *)
(*                                                                         *)
(* A point is the time it was taken.  The time unit is that between two    *)
(* saved points; the wall clock never runs backwards.                      *)
(***************************************************************************)
EXTENDS Integers, FiniteSets, FiniteSetsExt

CONSTANTS
    Retention,    \* how long points are kept
    PruneEvery,   \* time between two jobs
    Horizon,      \* bound: the last time
    MaxFaults     \* bound: power losses and file system calls that raise

ASSUME HistoryAssumption ==
    /\ Retention \in Nat /\ PruneEvery \in Nat \ {0} /\ Horizon \in Nat
    /\ MaxFaults \in Nat

VARIABLES
    clock, synced,          \* the wall clock; has NTP set it since the boot?
    path, prev, temp,       \* history.jsonl and its .prev and .tmp
    pending, lastFlash,     \* pending_flash, last_flash
    lastPrune,
    job, todo, jobNow,      \* prune_job: its stage, the records left, its now_epoch
    \* History, read by the properties only
    saved,                  \* the points written on lines of their own
    cut,                    \* did a fault ever keep a job from copying a point, or fall between
                            \* the renames that end it?
    faults                  \* bound

files == <<path, prev, temp>>
sampling == <<pending, lastFlash>>
pruning == <<lastPrune, job, todo, jobNow>>
history == <<saved, cut>>
all == <<clock, synced, files, sampling, pruning, history, faults>>

Never == -1
Times == 0 .. Horizon
\* A file is the set of the points on its whole lines, and whether its last line is torn.
Missing == [exists |-> FALSE, points |-> {}, torn |-> FALSE]
Empty == [exists |-> TRUE, points |-> {}, torn |-> FALSE]
Files == [exists : BOOLEAN, points : SUBSET Times, torn : BOOLEAN]

\* _records: the file, or its previous generation if there is none.
Source == IF path.exists THEN path ELSE prev

\* A line appended to a torn one is part of that line.
Appended(f, p) == IF f.torn THEN [f EXCEPT !.exists = TRUE, !.torn = FALSE]
                  ELSE [exists |-> TRUE, points |-> f.points \cup {p}, torn |-> FALSE]

-----------------------------------------------------------------------------
\* The main loop calls sample and prune once per turn; the renames at the end of a job
\* happen within one turn.
BetweenTurns == job \in {"none", "copy"}
Fault == /\ faults < MaxFaults /\ faults' = faults + 1
         /\ cut' = (cut \/ ~BetweenTurns)

PointDue == synced /\ (lastFlash = Never \/ clock > lastFlash)
\* Mutant of MayAppend: a job under way is not looked at.
MayAppendAlways == TRUE
MayAppend == job = "none"

\* sample, in a turn whose controller is idle or is not.
Sample(idle) ==
    LET point == IF PointDue THEN clock ELSE pending
        write == idle /\ point # Never /\ MayAppend
    IN
    /\ BetweenTurns
    /\ PointDue \/ pending # Never
    /\ \/ ~write /\ pending' = point /\ UNCHANGED <<lastFlash, files, history, faults>>
       \/ /\ write /\ pending' = Never /\ lastFlash' = clock
          /\ path' = Appended(path, point)
          /\ saved' = IF path.torn THEN saved ELSE saved \cup {point}
          /\ UNCHANGED <<prev, temp, cut, faults>>
       \/ /\ write /\ Fault                     \* open or write raises
          /\ pending' = point
          /\ path' \in {path, [path EXCEPT !.exists = TRUE, !.torn = TRUE]}
          /\ UNCHANGED <<lastFlash, prev, temp, saved>>
    /\ UNCHANGED <<clock, synced, pruning>>

\* The next saved point is due.
Advance ==
    /\ BetweenTurns /\ clock < Horizon /\ clock' = clock + 1
    /\ UNCHANGED <<synced, files, sampling, pruning, history, faults>>
Synchronize ==
    /\ BetweenTurns /\ ~synced /\ synced' = TRUE
    /\ UNCHANGED <<clock, files, sampling, pruning, history, faults>>

-----------------------------------------------------------------------------
\* prune begins a job, which opens its output and has then all records to go through.
PruneDue == lastPrune = Never \/ clock - lastPrune >= PruneEvery
BeginPrune ==
    /\ job = "none" /\ synced /\ PruneDue
    /\ jobNow' = clock
    /\ IF path.exists \/ prev.exists
       THEN /\ temp' = Empty /\ todo' = Source.points /\ job' = "copy"
            /\ UNCHANGED lastPrune
       ELSE /\ lastPrune' = clock
            /\ UNCHANGED <<temp, todo, job>>
    /\ UNCHANGED <<clock, synced, path, prev, sampling, history, faults>>

Current(p) == jobNow - p <= Retention /\ p <= jobNow
PruneRecord ==
    /\ job = "copy" /\ synced /\ todo # {}
    /\ LET p == Min(todo)
       IN /\ todo' = todo \ {p}
          /\ temp' = IF Current(p) THEN [temp EXCEPT !.points = @ \cup {p}] ELSE temp
    /\ UNCHANGED <<clock, synced, path, prev, sampling, lastPrune, job, jobNow, history, faults>>

\* The last turn: the output replaces the file, call by call.  _records passes over an
\* OSError: a file that cannot be opened or read on has no more records for it.
EndRecords ==
    /\ job = "copy" /\ synced
    /\ \/ todo = {} /\ UNCHANGED <<cut, faults>>
       \/ /\ todo # {} /\ faults < MaxFaults /\ faults' = faults + 1
          /\ cut' = (cut \/ \E p \in todo : Current(p))
    /\ todo' = {}
    /\ job' = IF ~path.exists THEN "replace" ELSE IF prev.exists THEN "remove" ELSE "retire"
    /\ UNCHANGED <<clock, synced, files, sampling, lastPrune, jobNow, saved>>
RemovePrev ==
    /\ job = "remove" /\ prev' = Missing /\ job' = "retire"
    /\ UNCHANGED <<clock, synced, path, temp, sampling, lastPrune, todo, jobNow, history, faults>>
Retire ==
    /\ job = "retire" /\ prev' = path /\ path' = Missing /\ job' = "replace"
    /\ UNCHANGED <<clock, synced, temp, sampling, lastPrune, todo, jobNow, history, faults>>
Replace ==
    /\ job = "replace" /\ path' = temp /\ temp' = Missing /\ job' = "none"
    /\ lastPrune' = clock /\ todo' = {}
    /\ UNCHANGED <<clock, synced, prev, sampling, jobNow, history, faults>>
\* Another call of the job raises, for its output or a rename: it is given up until the next
\* day.
PruneRaises ==
    /\ job # "none" /\ Fault
    /\ job' = "none" /\ lastPrune' = clock /\ todo' = {}
    /\ UNCHANGED <<clock, synced, files, sampling, jobNow, saved>>

\* Power is lost; a write under way may be torn (Sample).
PowerLoss ==
    /\ Fault
    /\ synced' = FALSE /\ pending' = Never /\ lastFlash' = Never
    /\ lastPrune' = Never /\ job' = "none" /\ todo' = {} /\ jobNow' = Never
    /\ UNCHANGED <<clock, files, saved>>

HistoryInit ==
    /\ clock = 0 /\ synced = FALSE
    /\ path = Missing /\ prev = Missing /\ temp = Missing
    /\ pending = Never /\ lastFlash = Never
    /\ lastPrune = Never /\ job = "none" /\ todo = {} /\ jobNow = Never
    /\ saved = {} /\ cut = FALSE /\ faults = 0

Prune == BeginPrune \/ PruneRecord \/ EndRecords \/ RemovePrev \/ Retire \/ Replace
\* Every reading has been saved and the time bound is reached.
Rest == clock = Horizon /\ BetweenTurns /\ UNCHANGED all
HistoryNext == (\E idle \in BOOLEAN : Sample(idle)) \/ Advance \/ Synchronize
        \/ Prune \/ PruneRaises \/ PowerLoss \/ Rest
HistorySpec == HistoryInit /\ [][HistoryNext]_all

-----------------------------------------------------------------------------
(* Properties. *)

HistoryTypes ==
    /\ clock \in Times /\ synced \in BOOLEAN
    /\ path \in Files /\ prev \in Files /\ temp \in Files
    /\ pending \in Times \cup {Never} /\ lastFlash \in Times \cup {Never}
    /\ lastPrune \in Times \cup {Never} /\ jobNow \in Times \cup {Never}
    /\ job \in {"none", "copy", "remove", "retire", "replace"}
    /\ todo \subseteq Times /\ saved \subseteq Times /\ cut \in BOOLEAN /\ faults \in Nat

\* api.md: saved history, retention 7 days.  A saved point stays readable that long, through
\* power losses and calls that raise, but for two: a fault between the renames that end a job
\* leaves the points in .prev only, which is not read any more once the next append creates a
\* file; and a read of the job that raises ends the records early, so that the file is
\* replaced by the part that was copied.
SavedKept ==
    ~cut /\ BetweenTurns => \A p \in saved : clock - p <= Retention => p \in Source.points
=============================================================================
