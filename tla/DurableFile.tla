---------------------------- MODULE DurableFile -----------------------------
(***************************************************************************)
(* One file written by persistence.atomic_json and read by read_json: the  *)
(* file itself, its previous generation (.prev) and the temporary (.tmp)   *)
(* that replaces it.  A file system call is one step; power may be lost    *)
(* before and after every one, and every one may raise OSError.            *)
(*                                                                         *)
(* boot.py has a copy of the protocol without the readback, for the update *)
(* journal: Verify is FALSE for it.                                        *)
(***************************************************************************)
CONSTANTS
    Values,    \* the JSON documents that are written
    Nothing,   \* no such file; also the default a reader gets
    Torn,      \* contents that do not parse
    Verify     \* is the temporary read back before it replaces the file?

ASSUME FileAssumption == /\ Nothing \notin Values /\ Torn \notin Values
                         /\ Torn # Nothing /\ Verify \in BOOLEAN

VARIABLES
    path, prev, temp,   \* contents of the three files
    data,               \* the argument of the call under way
    pc                  \* its next step
vars == <<path, prev, temp, data, pc>>

Contents == Values \cup {Nothing, Torn}

Parses(c) == c \in Values

\* read_json: the first of the two generations that parses.
\* Mutant of ReadJson: the previous generation is not read.
ReadCurrent == IF Parses(path) THEN path ELSE Nothing
ReadJson == IF Parses(path) THEN path ELSE IF Parses(prev) THEN prev ELSE Nothing

Init == /\ path = Nothing /\ prev = Nothing /\ temp = Nothing
        /\ data = Nothing /\ pc = "idle"

\* open(temp, "w") truncates what an earlier call left there.
Open(v) ==
    /\ pc = "idle"
    /\ data' = v /\ temp' = Torn /\ pc' = "write"
    /\ UNCHANGED <<path, prev>>

\* The flash may take the data wrongly without saying so.
Write ==
    /\ pc = "write"
    /\ temp' \in {data, Torn} /\ pc' = "readback"
    /\ UNCHANGED <<path, prev, data>>

\* The readback, then the state of the file to be replaced chooses what to do
\* with it.  A readback that differs raises (Interrupt).
\* Mutant of Accepted: the temporary need only exist.
AcceptedUnread == temp # Nothing
Accepted == Verify => temp = data
Readback ==
    /\ pc = "readback" /\ Accepted
    /\ pc' = CASE path = Nothing -> "replace"
               [] Parses(path) /\ prev # Nothing -> "remove_prev"
               [] Parses(path) /\ prev = Nothing -> "retire"
               [] OTHER -> "remove_path"
    /\ UNCHANGED <<path, prev, temp, data>>

RemovePrev ==
    /\ pc = "remove_prev"
    /\ prev' = Nothing /\ pc' = "retire"
    /\ UNCHANGED <<path, temp, data>>

\* rename(path, path.prev)
Retire ==
    /\ pc = "retire"
    /\ prev' = path /\ path' = Nothing /\ pc' = "replace"
    /\ UNCHANGED <<temp, data>>

\* A file that does not parse must not become the backup.
RemovePath ==
    /\ pc = "remove_path"
    /\ path' = Nothing /\ pc' = "replace"
    /\ UNCHANGED <<prev, temp, data>>

\* rename(temp, path); the call returns.
Replace ==
    /\ pc = "replace"
    /\ path' = temp /\ temp' = Nothing /\ data' = Nothing /\ pc' = "idle"
    /\ UNCHANGED prev

\* Power is lost, or the next call raises.
Interrupt ==
    /\ pc # "idle" /\ pc' = "idle" /\ data' = Nothing
    /\ UNCHANGED <<path, prev, temp>>

\* Between two calls the medium loses one of two good generations.
MediaFault ==
    /\ pc = "idle" /\ Parses(path) /\ Parses(prev)
    /\ \/ path' = Torn /\ UNCHANGED prev
       \/ prev' = Torn /\ UNCHANGED path
    /\ UNCHANGED <<temp, data, pc>>

Next ==
    \/ \E v \in Values : Open(v)
    \/ Write \/ Readback \/ RemovePrev \/ Retire \/ RemovePath \/ Replace
    \/ Interrupt \/ MediaFault

Spec == Init /\ [][Next]_vars

-----------------------------------------------------------------------------
TypeOK ==
    /\ path \in Contents /\ prev \in Contents /\ temp \in Contents
    /\ data \in Values \cup {Nothing}
    /\ pc \in {"idle", "write", "readback", "remove_prev", "retire", "remove_path", "replace"}

\* What a step of the protocol may rely on: where the two generations are, and that
\* the temporary is the whole of the data where it was read back.
ProtocolInv ==
    /\ TypeOK
    /\ pc # "idle" => temp # Nothing /\ data # Nothing
    /\ pc \in {"remove_prev", "retire"} => Parses(path)
    /\ pc = "retire" => prev = Nothing
    /\ pc = "remove_path" => path = Torn
    /\ pc = "replace" => path = Nothing
    /\ Verify /\ pc \in {"remove_prev", "retire", "remove_path", "replace"} => temp = data

\* A store is atomic for readers ("a power loss between renames leaves the .prev copy
\* readable"), a single loss of the medium costs one generation, and repairing a
\* damaged file keeps the only good copy.
Register == INSTANCE AtomicRegister
    WITH value <- ReadJson,
         older <- IF Parses(path) /\ Parses(prev) THEN prev ELSE Nothing
IsRegister == Register!Spec

\* A call that returns has stored its data, where the temporary is read back.
ReturnStores == [][Replace /\ Verify => ReadJson' = data]_vars
=============================================================================
