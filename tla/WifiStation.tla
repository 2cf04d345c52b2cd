---------------------------- MODULE WifiStation -----------------------------
(***************************************************************************)
(* WifiManager of wifi.py: the station's connection attempts with their    *)
(* deadlines and backoff, the gateway probes that replace a dead link, and *)
(* the rescue access point (wifi_setup.py) of a station that is down.      *)
(*                                                                         *)
(* poll is one step.  The manager's fields and the radio are one record,   *)
(* and its methods map it to the set of the records they may leave behind. *)
(* Timers count down, in units that Tick lets pass.                        *)
(***************************************************************************)
EXTENDS Naturals

CONSTANTS
    Attempt, PortalAttempt,   \* how long an attempt lasts, and with the portal active
    MaxBackoff,               \* the longest wait between two attempts
    PortalRetry,              \* that wait with the portal active, and after a rescue
    RescueAfter,              \* WIFI_RESCUE_AFTER_SEC
    HealthEvery,              \* time between two gateway probes
    Breakable                 \* which driver calls may raise: those that command the station,
                              \* those that ask for its state ("query"), the access point's

ASSUME WifiAssumption ==
    /\ {Attempt, PortalAttempt, MaxBackoff, PortalRetry, RescueAfter, HealthEvery} \subseteq Nat \ {0}
    /\ Attempt <= PortalRetry /\ PortalAttempt <= PortalRetry
    /\ Breakable \subseteq {"station", "query", "portal"}

VARIABLES
    wifi,     \* WifiManager and its interface
    router,   \* is the home network there?
    valve,    \* controller.any_open()
    broken,   \* which driver calls may raise now
    polled    \* has the main loop come round since time last passed?
vars == <<wifi, router, valve, broken, polled>>

Managers == [
    credentials : {"none", "config", "saved"},
    radio : {"off", "on", "joining", "linked"},         \* the station interface
    portal : BOOLEAN,                                   \* portal.active
    connected : BOOLEAN, ever : BOOLEAN,                \* connected, ever_connected
    state : {"offline", "connecting", "connected", "rescue"},
    deadline : 0 .. (Attempt + PortalAttempt),          \* time left of the attempt
    retry : 0 .. (PortalRetry + MaxBackoff),            \* time until next_attempt
    backoff : 1 .. MaxBackoff,
    down : 0 .. RescueAfter,                            \* time since down_since, at most
    health : 0 .. HealthEvery,                          \* time until next_health
    probing : BOOLEAN,                                  \* probe.sock is open
    misses : 0 .. 3]                                    \* health_failures, at most 3

Least(a, b) == IF a < b THEN a ELSE b

-----------------------------------------------------------------------------
(* The methods: from a record to the set of its successors. *)

\* Each call is tried; a driver error is passed over.
Parked(m) == {[m EXCEPT !.radio = "off"]}
             \cup (IF "station" \in broken THEN {m, [m EXCEPT !.radio = "on"]} ELSE {})

Started(m) == {[m EXCEPT !.portal = TRUE, !.state = "rescue"]}
              \cup (IF "portal" \in broken /\ ~m.portal THEN {m} ELSE {})
\* Mutant of Rescued: the station is not parked.
RescuedBeside(m) == Started([m EXCEPT !.retry = PortalRetry])
Rescued(m) == UNION {Started([p EXCEPT !.retry = PortalRetry]) : p \in Parked(m)}

\* A first connection that fails with saved credentials, or for its password, opens the
\* portal at once.
Failed(m) ==
    UNION {LET f == [p EXCEPT !.state = IF p.portal THEN "rescue" ELSE "offline",
                              !.retry = IF p.portal THEN PortalRetry ELSE p.backoff,
                              !.backoff = Least(2 * p.backoff, MaxBackoff)]
           IN IF f.ever THEN {f}
              ELSE IF f.credentials = "saved" THEN Rescued(f) ELSE {f} \cup Rescued(f)
           : p \in Parked(m)}

Joining(m) ==
    {[m EXCEPT !.radio = "joining", !.state = "connecting",
               !.deadline = IF m.portal THEN PortalAttempt ELSE Attempt]}
    \cup (IF "station" \in broken THEN Failed(m) ELSE {})

\* The probe's verdict on the gateway.  The second timeout in a row replaces the link,
\* the later ones the interface with it.
TimedOut(m) ==
    LET t == [m EXCEPT !.misses = Least(@ + 1, 3), !.probing = FALSE, !.health = HealthEvery]
        d == [t EXCEPT !.connected = FALSE, !.down = 0]
    IN IF t.misses < 2 THEN {t}
       ELSE IF t.misses = 2
            THEN Joining([d EXCEPT !.radio = "on"]) \cup (IF "station" \in broken THEN {d} ELSE {})
            ELSE UNION {Joining(p) : p \in Parked(d)}
LinkHealth(m) ==
    IF valve THEN {IF m.probing THEN [m EXCEPT !.probing = FALSE, !.health = HealthEvery] ELSE m}
    ELSE IF ~m.probing /\ m.health > 0 THEN {m}
    ELSE {[m EXCEPT !.probing = TRUE],                                       \* no answer yet
          [m EXCEPT !.probing = FALSE, !.health = HealthEvery],              \* inconclusive
          [m EXCEPT !.probing = FALSE, !.health = HealthEvery, !.misses = 0]}
         \cup TimedOut(m)

\* The access point is closed and the addresses are read first; a call of these that raises
\* ends the poll.
Linked(m) ==
    LET c == IF m.connected THEN m
             ELSE [m EXCEPT !.connected = TRUE, !.ever = TRUE, !.state = "connected",
                            !.backoff = 1, !.health = HealthEvery, !.portal = FALSE]
    IN LinkHealth(c)
       \cup (IF "query" \in broken THEN {c} ELSE {})
       \cup (IF "portal" \in broken /\ ~m.connected THEN {[c EXCEPT !.portal = m.portal]} ELSE {})

\* Without a link: notice its loss, end or begin an attempt, and open the portal when the
\* outage lasts.
Noticed(m) == IF m.connected
              THEN [m EXCEPT !.connected = FALSE, !.down = 0, !.retry = 0,
                             !.state = "offline", !.probing = FALSE]
              ELSE m
\* Mutant of Attempted: a failure status, possibly that of the attempt before, ends it.
AttemptedByStatus(m) == IF m.state = "connecting" THEN {m} \cup Failed(m)
                        ELSE IF m.retry = 0 /\ ~valve THEN Joining(m) ELSE {m}
Attempted(m) == IF m.state = "connecting"
                THEN IF m.deadline = 0 THEN Failed(m) ELSE {m}
                ELSE IF m.retry = 0 /\ ~valve THEN Joining(m) ELSE {m}
\* Mutant of RescueDue: the portal is started though it is active.
RescueDueAlways(m) == m.down >= RescueAfter /\ ~valve
\* Mutant of RescueDue: only a station that never was connected gets a portal.
RescueDueFirst(m) == ~m.portal /\ m.down >= RescueAfter /\ ~valve /\ ~m.ever
RescueDue(m) == ~m.portal /\ m.down >= RescueAfter /\ ~valve
\* The status of an attempt is asked for before its deadline; if that raises, neither the
\* deadline nor the rescue is looked at in this poll.
Unlinked(m) ==
    (IF "query" \in broken /\ m.state = "connecting" THEN {Noticed(m)} ELSE {})
    \cup UNION {IF RescueDue(a) THEN Rescued(a) ELSE {a} : a \in Attempted(Noticed(m))}

Unprovisioned(m) == IF ~m.portal /\ ~valve /\ m.retry = 0 THEN Rescued(m) ELSE {m}

-----------------------------------------------------------------------------
Fresh(credentials) ==
    [credentials |-> credentials, radio |-> "off", portal |-> FALSE, connected |-> FALSE,
     ever |-> FALSE, state |-> "offline", deadline |-> 0, retry |-> 0, backoff |-> 1,
     down |-> 0, health |-> HealthEvery, probing |-> FALSE, misses |-> 0]

\* isconnected comes first; nothing is done if it raises.
Poll ==
    /\ \/ wifi.credentials = "none" /\ wifi' \in Unprovisioned(wifi)
       \/ wifi.credentials # "none" /\ wifi.radio = "linked" /\ wifi' \in Linked(wifi)
       \/ wifi.credentials # "none" /\ wifi.radio # "linked" /\ wifi' \in Unlinked(wifi)
       \/ wifi.credentials # "none" /\ "query" \in broken /\ UNCHANGED wifi
    /\ polled' = TRUE /\ UNCHANGED <<router, valve, broken>>

\* Time passes for every timer; the loop takes far less than its unit.
Less(n) == IF n = 0 THEN 0 ELSE n - 1
Tick ==
    /\ polled /\ polled' = FALSE
    /\ wifi' = [wifi EXCEPT !.deadline = Less(@), !.retry = Less(@), !.health = Less(@),
                            !.down = Least(@ + 1, RescueAfter)]
    /\ UNCHANGED <<router, valve, broken>>

\* save_wifi stores credentials and reboots.
Provision ==
    /\ wifi.credentials # "saved" /\ wifi' = Fresh("saved")
    /\ UNCHANGED <<router, valve, broken, polled>>

\* The driver and the network: an attempt succeeds, a link is lost.
Associate ==
    /\ wifi.radio = "joining" /\ router
    /\ wifi' = [wifi EXCEPT !.radio = "linked"] /\ UNCHANGED <<router, valve, broken, polled>>
LoseLink ==
    /\ wifi.radio = "linked" /\ ~router
    /\ wifi' = [wifi EXCEPT !.radio = "on"] /\ UNCHANGED <<router, valve, broken, polled>>
Router == router' = ~router /\ UNCHANGED <<wifi, valve, broken, polled>>
\* Drivers break and work again.
Break == broken' \in SUBSET Breakable \ {broken} /\ UNCHANGED <<wifi, router, valve, polled>>
OpenValve == ~valve /\ valve' = TRUE /\ UNCHANGED <<wifi, router, broken, polled>>
CloseValve == valve /\ valve' = FALSE /\ UNCHANGED <<wifi, router, broken, polled>>

Init == /\ wifi \in {Fresh(c) : c \in {"none", "config", "saved"}}
        /\ router \in BOOLEAN /\ valve = FALSE /\ broken = {} /\ polled = FALSE

Next == \/ Poll \/ Tick \/ Provision \/ OpenValve \/ CloseValve
        \/ Associate \/ LoseLink \/ Router \/ Break
Spec == Init /\ [][Next]_vars
\* The main loop polls on and time passes; no valve stays open for ever; an attempt that
\* is made again and again while the network is there succeeds.
FairSpec == /\ Spec
            /\ WF_vars(Poll) /\ WF_vars(Tick) /\ WF_vars(LoseLink)
            /\ SF_vars(Poll /\ ~valve) /\ WF_vars(CloseValve) /\ SF_vars(Associate)

-----------------------------------------------------------------------------
(* Properties. *)

TypeOK == /\ wifi \in Managers /\ router \in BOOLEAN /\ valve \in BOOLEAN
          /\ broken \subseteq Breakable /\ polled \in BOOLEAN

\* feature-parity.md: runtime rescue AP and router-return retries.  When the home network
\* and the drivers are back for good, a station that knows the network is connected again.
Reconnects == <>[](router /\ broken = {} /\ wifi.credentials # "none") => []<>wifi.connected

\* A station that stays down is reachable through its rescue access point, though the calls
\* that command it keep raising.  Those that ask for its state must answer: a poll that they
\* end does not come to the rescue.
RescueOffered ==
    <>[](broken \subseteq {"station"}) => (~wifi.connected ~> wifi.connected \/ wifi.portal)

\* architecture.md: rescue retries park the station between attempts, to leave the shared
\* radio to the access point.  Only a driver error leaves it unparked.
ParkedInRescue ==
    [][wifi'.state = "rescue" =>
          /\ wifi'.portal
          /\ \/ wifi'.radio = "off" \/ "station" \in broken
             \/ wifi.state = "rescue" /\ wifi.radio # "off"]_vars

\* architecture.md: each connection attempt receives its full deadline; here, once the
\* access point is active.
Cut == /\ wifi.radio = "joining" /\ wifi'.radio \in {"off", "on"} /\ wifi.deadline > 0
       /\ wifi.credentials = wifi'.credentials      \* not by the reboot of Provision
PortalAttemptsLast == [][wifi.portal => ~Cut]_vars
=============================================================================
