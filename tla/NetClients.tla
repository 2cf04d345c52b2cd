----------------------------- MODULE NetClients -----------------------------
(***************************************************************************)
(* DNSResolver and NTPClient of wifi.py on the ticks of compat.py, which   *)
(* wrap around: the resolver's queue, its one lookup and its cache of      *)
(* answers and failures, asked by the clock synchronization and by the     *)
(* updater; the clock's attempts with their deadline and their delays.     *)
(*                                                                         *)
(* time is the real time since boot.  The program sees only Now, its value *)
(* modulo Period, and keeps only such ticks: seenAt and expiry are         *)
(* history, the real times behind seen and behind the cache.               *)
(***************************************************************************)
EXTENDS Integers, Sequences, FiniteSets

CONSTANTS
    Hosts, NtpHost,        \* the names asked for, NTPClient.host among them
    Addresses, Nothing,
    Period,                \* the ticks' period, 2^30 ms
    Deadline,              \* of a lookup and of an attempt, 3 s
    Negative, Lifetimes,   \* how long a failure is kept, and an answer
    Retry, Resync,         \* delay after a failed attempt and a good one
    QueueSize, CacheSize,
    LastTime               \* bound on time

VARIABLES
    time,         \* real time since boot
    link,         \* wlan.isconnected()
    connected,    \* WifiManager.connected
    watering,     \* controller.any_open()
    seen,         \* resolver.now: the ticks of its last poll
    queue,        \* resolver.queue
    lookup,       \* the name asked for, or Nothing
    cache,        \* resolver.cache: a kept answer or failure of each name
    exchange,     \* the NTP exchange in progress, or Nothing
    nextAttempt,  \* NTPClient.next_attempt
    synced,       \* NTPClient.synced
    seenAt, expiry
resolver == <<seen, queue, lookup, cache, seenAt, expiry>>
client == <<exchange, nextAttempt, synced>>
station == <<link, connected, watering>>
vars == <<time, station, resolver, client>>

-----------------------------------------------------------------------------
(* Ticks. *)

Now == time % Period
Diff(a, b) == ((a - b + Period \div 2) % Period) - Period \div 2
Add(a, b) == (a + b) % Period

-----------------------------------------------------------------------------
(* The resolver. *)

Fresh(host) == cache[host] # Nothing /\ Diff(seen, cache[host].until) < 0

\* resolve of a name without a fresh answer: it is queued if there is room.
Resolve(host) ==
    /\ ~Fresh(host)
    /\ queue' = IF /\ lookup = Nothing \/ lookup.host # host
                   /\ \A i \in DOMAIN queue : queue[i] # host
                   /\ Len(queue) < QueueSize
                THEN Append(queue, host) ELSE queue
    /\ UNCHANGED <<seen, lookup, cache, seenAt, expiry>>

\* The lookup of host ends; a full cache drops one of its names.
Remember(host, address, life) ==
    LET kept == {h \in Hosts : cache[h] # Nothing}
        full == Cardinality(kept) >= CacheSize /\ host \notin kept
    IN  /\ lookup' = Nothing
        /\ \E dropped \in IF full THEN kept ELSE {host} :
               cache' = [cache EXCEPT ![dropped] = Nothing,
                                      ![host] = [address |-> address, until |-> Add(Now, life)]]
        /\ expiry' = [expiry EXCEPT ![host] = time + life]

Starting == lookup = Nothing /\ queue # <<>> /\ ~watering
Current == IF Starting
           THEN [host |-> Head(queue), sent |-> FALSE, deadline |-> Add(Now, Deadline)]
           ELSE lookup

\* DNSResolver.poll: it starts a lookup, and gives it up or goes on with it.
DnsPoll ==
    LET late == Diff(Now, Current.deadline) >= 0
    IN  /\ seen' = Now /\ seenAt' = time
        /\ queue' = IF Starting THEN Tail(queue) ELSE queue
        /\ \/ /\ Current = Nothing
              /\ UNCHANGED <<lookup, cache, expiry>>
           \/ /\ Current # Nothing       \* the deadline, a socket error, a refusal
              /\ Remember(Current.host, Nothing, Negative)
           \/ /\ Current # Nothing /\ ~late
              /\ \E sent \in {Current.sent, TRUE} : lookup' = [Current EXCEPT !.sent = sent]
              /\ UNCHANGED <<cache, expiry>>
           \/ /\ Current # Nothing /\ ~late /\ Current.sent
              /\ \E address \in Addresses, life \in Lifetimes :
                     Remember(Current.host, address, life)

-----------------------------------------------------------------------------
(* WifiManager.poll, as far as it concerns the resolver. *)

\* Linked: a later gateway probe may take the station down, which leaves a lookup open.
Linked ==
    /\ link /\ DnsPoll
    /\ \/ connected' = TRUE /\ UNCHANGED link
       \/ connected /\ ~watering /\ connected' = FALSE /\ link' \in BOOLEAN

Unlinked ==
    /\ ~link /\ connected' = FALSE
    /\ lookup' = IF connected THEN Nothing ELSE lookup
    /\ UNCHANGED <<link, seen, queue, cache, seenAt, expiry>>

WifiPoll == (Linked \/ Unlinked) /\ UNCHANGED <<time, watering, client>>

-----------------------------------------------------------------------------
(* NTPClient.poll. *)

Finish(delay) == exchange' = Nothing /\ nextAttempt' = Add(Now, delay)

\* One socket call: the request leaves or not; nothing of use, a good answer, an error.
Exchange(x) ==
    \/ Finish(Retry) /\ UNCHANGED synced
    \/ /\ Diff(Now, x.deadline) < 0
       /\ \/ /\ \E sent \in {x.sent, TRUE} : exchange' = [x EXCEPT !.sent = sent]
             /\ UNCHANGED <<nextAttempt, synced>>
          \/ x.sent /\ Finish(Resync) /\ synced' = TRUE

Attempt ==
    \/ /\ Diff(Now, nextAttempt) < 0
       /\ UNCHANGED <<resolver, client>>
    \/ /\ Diff(Now, nextAttempt) >= 0
       /\ \/ Resolve(NtpHost) /\ UNCHANGED client
          \/ /\ Fresh(NtpHost) /\ cache[NtpHost].address = Nothing
             /\ UNCHANGED <<resolver, client>>
          \/ /\ Fresh(NtpHost) /\ cache[NtpHost].address # Nothing
             /\ Exchange([address |-> cache[NtpHost].address, sent |-> FALSE,
                          deadline |-> Add(Now, Deadline)])
             /\ UNCHANGED resolver

NtpPoll ==
    /\ \/ /\ (~connected \/ watering) /\ UNCHANGED resolver
          /\ IF exchange = Nothing THEN UNCHANGED client ELSE Finish(Retry) /\ UNCHANGED synced
       \/ connected /\ ~watering /\ exchange = Nothing /\ Attempt
       \/ connected /\ ~watering /\ exchange # Nothing /\ Exchange(exchange) /\ UNCHANGED resolver
    /\ UNCHANGED <<time, station>>

-----------------------------------------------------------------------------
\* The updater asks for the names of its channel while no valve is open.
UpdaterAsks ==
    /\ ~watering
    /\ \E host \in Hosts \ {NtpHost} : Resolve(host)
    /\ UNCHANGED <<time, station, client>>

LinkChanges == link' = ~link /\ UNCHANGED <<time, connected, watering, resolver, client>>
ValveChanges == watering' = ~watering /\ UNCHANGED <<time, link, connected, resolver, client>>

\* The main loop polls a linked station between two ticks.
Tick ==
    /\ time < LastTime /\ (link => seenAt = time)
    /\ time' = time + 1
    /\ UNCHANGED <<station, resolver, client>>

Init ==
    /\ time = 0 /\ link = FALSE /\ connected = FALSE /\ watering = FALSE
    /\ seen = Now /\ seenAt = time
    /\ queue = <<>> /\ lookup = Nothing
    /\ cache = [h \in Hosts |-> Nothing] /\ expiry = [h \in Hosts |-> 0]
    /\ exchange = Nothing /\ nextAttempt = Now /\ synced = FALSE

Next == WifiPoll \/ NtpPoll \/ UpdaterAsks \/ LinkChanges \/ ValveChanges \/ Tick

Spec == Init /\ [][Next]_vars

-----------------------------------------------------------------------------
(* Properties. *)

\* "all intervals use wrap-safe milliseconds" (compat.py:1): an answer or a failure that
\* resolve takes for a fresh one (wifi.py:85) has not outlived its lifetime.
FreshInTime == \A host \in Hosts : Fresh(host) => seenAt < expiry[host]
=============================================================================
