--------------------------- MODULE FirmwareSwitch ---------------------------
(***************************************************************************)
(* What an over-the-air update promises: whatever fails, the application   *)
(* starts from the trusted firmware or from one whole candidate; a         *)
(* candidate has a bounded number of chances and then is given up for good.*)
(***************************************************************************)
EXTENDS Naturals

CONSTANTS Firmwares, Chances

VARIABLES
    running,    \* the firmware the application last started from
    trusted,    \* the firmware a trial goes back to
    candidate,  \* the set of the firmware on trial, if any
    left,       \* boots the candidate may still be given
    granted     \* has this boot been given to the candidate?
vars == <<running, trusted, candidate, left, granted>>

Init == /\ running \in Firmwares /\ trusted = running
        /\ candidate = {} /\ left = 0 /\ granted = FALSE

Install(f) == /\ candidate = {}
              /\ candidate' = {f} /\ left' = Chances
              /\ UNCHANGED <<running, trusted, granted>>
Grant == /\ candidate # {} /\ left > 0 /\ ~granted
         /\ left' = left - 1 /\ granted' = TRUE
         /\ UNCHANGED <<running, trusted, candidate>>
\* A granted boot ends before the application starts.
Waste == granted /\ granted' = FALSE /\ UNCHANGED <<running, trusted, candidate, left>>
StartCandidate == /\ granted
                  /\ running' \in candidate /\ granted' = FALSE
                  /\ UNCHANGED <<trusted, candidate, left>>
StartTrusted == /\ candidate = {}
                /\ running' = trusted /\ UNCHANGED <<trusted, candidate, left, granted>>
\* Only the application that runs from the candidate accepts it.
Accept == /\ candidate # {} /\ running \in candidate
          /\ trusted' = running /\ candidate' = {} /\ left' = 0 /\ granted' = FALSE
          /\ UNCHANGED running
GiveUp == /\ candidate # {} /\ left = 0 /\ ~granted
          /\ candidate' = {} /\ UNCHANGED <<running, trusted, left, granted>>

Next == \/ \E f \in Firmwares : Install(f)
        \/ Grant \/ Waste \/ StartCandidate \/ StartTrusted \/ Accept \/ GiveUp
Spec == Init /\ [][Next]_vars
=============================================================================
