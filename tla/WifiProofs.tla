---------------------------- MODULE WifiProofs ------------------------------
(***************************************************************************)
(* The proofs about wifi.py.  The station of WifiStation: the rescue       *)
(* access point has the radio to itself between the station's attempts,    *)
(* and each of these its full deadline, for every choice of the times.     *)
(*                                                                         *)
(* The resolver of NetClients, here Net, is the other side of the          *)
(* counterexample to FreshInTime: with the ticks of compat.py its cache is *)
(* right as long as no entry has been out of date for half a period.       *)
(***************************************************************************)
EXTENDS Integers, WifiStation, TLAPS

\* The radio joins on behalf of a station that is not connected; an attempt that is given
\* up and could not be ended is over before the next one begins.
Joins(m) == m.radio = "joining" => /\ ~m.connected
                                   /\ m.state # "connecting" => m.deadline <= m.retry
Sane(m) == /\ m \in Managers /\ m.deadline <= PortalRetry
           /\ m.state = "rescue" => m.portal
           /\ Joins(m)
\* A station whose attempt has ended, or that had none.
Ended(m) == /\ m \in Managers /\ m.deadline <= PortalRetry
            /\ m.state = "rescue" => m.portal
            /\ m.radio = "joining" => ~m.connected /\ m.deadline = 0
Down(m) == m.radio = "off" \/ "station" \in broken
\* Beside the access point the station is down, or the step left radio and portal alone.
Aside(m, r) == r.state = "rescue" => Down(r) \/ (m.state = "rescue" /\ r.radio = m.radio)

LEMMA Times == /\ Attempt \in Nat \ {0} /\ PortalAttempt \in Nat \ {0} /\ MaxBackoff \in Nat \ {0}
               /\ PortalRetry \in Nat \ {0} /\ RescueAfter \in Nat \ {0} /\ HealthEvery \in Nat \ {0}
               /\ Attempt <= PortalRetry /\ PortalAttempt <= PortalRetry
  BY WifiAssumption DEF WifiAssumption

-----------------------------------------------------------------------------
(* The methods. *)

\* Parking touches nothing but the radio.
LEMMA ParkedRadio ==
    ASSUME NEW m \in Managers, NEW p \in Parked(m)
    PROVE  \E r \in {"off", "on", "joining", "linked"} :
              /\ p = [m EXCEPT !.radio = r] /\ (r = "off" \/ "station" \in broken)
              /\ r = "joining" => m.radio = "joining"
  <1>1. m = [m EXCEPT !.radio = m.radio] /\ m.radio \in {"off", "on", "joining", "linked"}
    BY DEF Managers
  <1>2. QED
    BY <1>1 DEF Parked

\* The access point is started beside a station that is down, or is not.
LEMMA StartedSane ==
    ASSUME NEW m \in Managers, m.deadline <= m.retry, m.retry = PortalRetry, Down(m),
           m.state = "rescue" => m.portal, m.radio = "joining" => ~m.connected,
           NEW r \in Started(m)
    PROVE  Sane(r) /\ Down(r)
  <1>1. CASE r = m
    BY <1>1 DEF Sane, Joins
  <1>2. CASE r = [m EXCEPT !.portal = TRUE, !.state = "rescue"]
    <2>1. r \in Managers
      BY <1>2 DEF Managers
    <2>2. /\ r.portal = TRUE /\ r.radio = m.radio /\ r.deadline = m.deadline /\ r.retry = m.retry
          /\ r.connected = m.connected
      BY <1>2 DEF Managers
    <2>3. QED
      BY <2>1, <2>2 DEF Sane, Joins, Down
  <1>3. QED
    BY <1>1, <1>2 DEF Started

LEMMA RescuedSane ==
    ASSUME NEW m \in Managers, m.deadline <= PortalRetry,
           m.state = "rescue" => m.portal, m.radio = "joining" => ~m.connected,
           NEW r \in Rescued(m)
    PROVE  Sane(r) /\ Down(r)
  <1>1. PICK p \in Parked(m) : r \in Started([p EXCEPT !.retry = PortalRetry])
    BY DEF Rescued
  <1>2. PICK radio \in {"off", "on", "joining", "linked"} :
           /\ p = [m EXCEPT !.radio = radio] /\ (radio = "off" \/ "station" \in broken)
           /\ radio = "joining" => m.radio = "joining"
    BY <1>1, ParkedRadio
  <1> DEFINE q == [m EXCEPT !.radio = radio, !.retry = PortalRetry]
  <1>3. q = [p EXCEPT !.retry = PortalRetry]
    BY <1>2
  <1>4. PortalRetry \in 0 .. (PortalRetry + MaxBackoff)
    BY Times
  <1>5. q \in Managers
    BY <1>4 DEF Managers
  <1>6. /\ q.retry = PortalRetry /\ q.deadline = m.deadline /\ q.state = m.state /\ q.portal = m.portal
        /\ q.radio = radio /\ q.connected = m.connected
    BY DEF Managers
  <1>7. r \in Started(q)
    BY <1>1, <1>3
  <1> HIDE DEF q
  <1>8. QED
    BY <1>2, <1>5, <1>6, <1>7, StartedSane DEF Down

\* An attempt that has failed.
LEMMA FailedSane ==
    ASSUME NEW m, Ended(m), NEW r \in Failed(m)
    PROVE  Sane(r) /\ Down(r)
  <1> DEFINE F(p) == [p EXCEPT !.state = IF p.portal THEN "rescue" ELSE "offline",
                               !.retry = IF p.portal THEN PortalRetry ELSE p.backoff,
                               !.backoff = Least(2 * p.backoff, MaxBackoff)]
  <1>1. PICK p \in Parked(m) : r = F(p) \/ r \in Rescued(F(p))
    BY DEF Failed
  <1>2. m \in Managers
    BY DEF Ended
  <1>3. PICK radio \in {"off", "on", "joining", "linked"} :
           /\ p = [m EXCEPT !.radio = radio] /\ (radio = "off" \/ "station" \in broken)
           /\ radio = "joining" => m.radio = "joining"
    BY <1>1, <1>2, ParkedRadio
  <1>4. p \in Managers /\ p.portal = m.portal /\ p.connected = m.connected
        /\ p.deadline = m.deadline /\ p.radio = radio
    BY <1>2, <1>3 DEF Managers
  <1> DEFINE state == IF p.portal THEN "rescue" ELSE "offline"
  <1> DEFINE retry == IF p.portal THEN PortalRetry ELSE p.backoff
  <1> DEFINE backoff == Least(2 * p.backoff, MaxBackoff)
  <1>5. retry \in 0 .. (PortalRetry + MaxBackoff) /\ backoff \in 1 .. MaxBackoff
    <2>1. p.backoff \in 1 .. MaxBackoff
      BY <1>4 DEF Managers
    <2>2. QED
      BY <2>1, Times DEF Least
  <1>6. state \in {"offline", "rescue"} /\ (state = "rescue" => p.portal)
    OBVIOUS
  <1> DEFINE f == [p EXCEPT !.state = state, !.retry = retry, !.backoff = backoff]
  <1>7. f = F(p)
    OBVIOUS
  <1> HIDE DEF state, retry, backoff
  <1>8. f \in Managers
    BY <1>4, <1>5, <1>6 DEF Managers
  <1>9. /\ f.state = state /\ f.portal = m.portal /\ f.radio = radio /\ f.deadline = m.deadline
        /\ f.retry = retry /\ f.connected = m.connected
    BY <1>4 DEF Managers
  <1> HIDE DEF F, f
  <1>10. f.radio = "joining" => ~f.connected /\ f.deadline = 0
    BY <1>3, <1>9 DEF Ended
  <1>11. f.deadline <= PortalRetry /\ (f.state = "rescue" => f.portal) /\ Down(f)
    BY <1>3, <1>4, <1>6, <1>9 DEF Ended, Down
  <1>12. CASE r = f
    <2>1. 0 <= f.retry
      BY <1>5, <1>9
    <2>2. QED
      BY <1>8, <1>10, <1>11, <1>12, <2>1 DEF Sane, Joins
  <1>13. CASE r \in Rescued(f)
    BY <1>8, <1>10, <1>11, <1>13, RescuedSane
  <1>14. QED
    BY <1>1, <1>7, <1>12, <1>13

\* An attempt begins, with its whole deadline, or fails at once.
LEMMA JoiningSane ==
    ASSUME NEW m, Ended(m), ~m.connected, NEW r \in Joining(m)
    PROVE  Sane(r) /\ (r.state = "rescue" => Down(r))
  <1> DEFINE time == IF m.portal THEN PortalAttempt ELSE Attempt
  <1>1. CASE r = [m EXCEPT !.radio = "joining", !.state = "connecting", !.deadline = time]
    <2>1. m \in Managers
      BY DEF Ended
    <2>2. time \in 0 .. (Attempt + PortalAttempt) /\ time <= PortalRetry
      BY Times
    <2> HIDE DEF time
    <2>3. r \in Managers
      BY <1>1, <2>1, <2>2 DEF Managers
    <2>4. r.state = "connecting" /\ r.deadline = time /\ r.connected = m.connected
      BY <1>1, <2>1 DEF Managers
    <2>5. QED
      BY <2>2, <2>3, <2>4 DEF Sane, Joins
  <1>2. CASE r \in Failed(m)
    BY <1>2, FailedSane
  <1>3. QED
    BY <1>1, <1>2 DEF Joining

\* Steps that leave the link in place.
LEMMA LinkKept ==
    ASSUME NEW m, Sane(m), m.radio = "linked", NEW r \in Managers,
           r.radio = "linked", r.state = m.state, r.portal = m.portal, r.deadline = m.deadline
    PROVE  Sane(r) /\ Aside(m, r)
  BY DEF Sane, Joins, Aside

LEMMA TimedOutSane ==
    ASSUME NEW m, Sane(m), m.radio = "linked", NEW r \in TimedOut(m)
    PROVE  Sane(r) /\ Aside(m, r)
  <1> DEFINE misses == Least(m.misses + 1, 3)
  <1> DEFINE t == [m EXCEPT !.misses = misses, !.probing = FALSE, !.health = HealthEvery]
  <1> DEFINE d == [t EXCEPT !.connected = FALSE, !.down = 0]
  <1>1. m \in Managers
    BY DEF Sane
  <1>2. misses \in 0 .. 3 /\ HealthEvery \in 0 .. HealthEvery /\ 0 \in 0 .. RescueAfter
    <2>1. m.misses \in 0 .. 3
      BY <1>1 DEF Managers
    <2>2. QED
      BY <2>1, Times DEF Least
  <1>3. \/ r = t \/ r = d \/ r \in Joining([d EXCEPT !.radio = "on"])
        \/ \E p \in Parked(d) : r \in Joining(p)
    BY <1>1 DEF TimedOut, Managers
  <1> HIDE DEF misses
  <1>4. t \in Managers /\ d \in Managers /\ [d EXCEPT !.radio = "on"] \in Managers
    BY <1>1, <1>2 DEF Managers
  <1>5. /\ t.radio = "linked" /\ t.state = m.state /\ t.portal = m.portal /\ t.deadline = m.deadline
        /\ d.radio = "linked" /\ d.state = m.state /\ d.portal = m.portal /\ d.deadline = m.deadline
        /\ d.connected = FALSE
    BY <1>1 DEF Managers
  <1> HIDE DEF t, d
  <1>6. CASE r = t \/ r = d
    BY <1>4, <1>5, <1>6, LinkKept
  <1>7. ASSUME NEW radio \in {"off", "on", "joining", "linked"}, radio # "joining",
               r \in Joining([d EXCEPT !.radio = radio])
        PROVE  Sane(r) /\ Aside(m, r)
    <2> DEFINE p == [d EXCEPT !.radio = radio]
    <2>1. p \in Managers
      BY <1>4 DEF Managers
    <2>2. /\ p.radio = radio /\ p.state = m.state /\ p.portal = m.portal /\ p.deadline = m.deadline
          /\ p.connected = FALSE
      BY <1>4, <1>5 DEF Managers
    <2>3. r \in Joining(p)
      BY <1>7
    <2> HIDE DEF p
    <2>4. Ended(p)
      BY <1>7, <2>1, <2>2 DEF Sane, Ended
    <2>5. QED
      BY <2>2, <2>3, <2>4, JoiningSane DEF Aside
  <1>8. CASE \E p \in Parked(d) : r \in Joining(p)
    <2>1. PICK p \in Parked(d) : r \in Joining(p)
      BY <1>8
    <2>2. PICK radio \in {"off", "on", "joining", "linked"} :
             p = [d EXCEPT !.radio = radio] /\ (radio = "joining" => d.radio = "joining")
      BY <1>4, <2>1, ParkedRadio
    <2>3. QED
      BY <1>5, <1>7, <2>1, <2>2
  <1>9. CASE r \in Joining([d EXCEPT !.radio = "on"])
    BY <1>7, <1>9
  <1>10. QED
    BY <1>3, <1>6, <1>8, <1>9

LEMMA LinkHealthSane ==
    ASSUME NEW m, Sane(m), m.radio = "linked", NEW r \in LinkHealth(m)
    PROVE  Sane(r) /\ Aside(m, r)
  <1>1. m \in Managers
    BY DEF Sane
  <1>2. CASE r \in TimedOut(m)
    BY <1>2, TimedOutSane
  <1>3. ASSUME NEW probing \in BOOLEAN, NEW health \in 0 .. HealthEvery, NEW misses \in 0 .. 3,
               r = [m EXCEPT !.probing = probing, !.health = health, !.misses = misses]
        PROVE  Sane(r) /\ Aside(m, r)
    <2>1. r \in Managers
      BY <1>1, <1>3 DEF Managers
    <2>2. r.radio = m.radio /\ r.state = m.state /\ r.portal = m.portal /\ r.deadline = m.deadline
      BY <1>1, <1>3 DEF Managers
    <2>3. QED
      BY <2>1, <2>2, LinkKept
  <1>4. /\ HealthEvery \in 0 .. HealthEvery /\ m.health \in 0 .. HealthEvery
        /\ m.misses \in 0 .. 3 /\ 0 \in 0 .. 3
        /\ m.probing \in BOOLEAN
    BY <1>1, Times DEF Managers
  <1>5. /\ m = [m EXCEPT !.probing = m.probing, !.health = m.health, !.misses = m.misses]
        /\ [m EXCEPT !.probing = TRUE] = [m EXCEPT !.probing = TRUE, !.health = m.health, !.misses = m.misses]
        /\ [m EXCEPT !.probing = FALSE, !.health = HealthEvery]
           = [m EXCEPT !.probing = FALSE, !.health = HealthEvery, !.misses = m.misses]
    BY <1>1 DEF Managers
  <1>6. \/ r = m \/ r = [m EXCEPT !.probing = TRUE]
        \/ r = [m EXCEPT !.probing = FALSE, !.health = HealthEvery]
        \/ r = [m EXCEPT !.probing = FALSE, !.health = HealthEvery, !.misses = 0]
        \/ r \in TimedOut(m)
    BY DEF LinkHealth
  <1>7. QED
    BY <1>2, <1>3, <1>4, <1>5, <1>6

LEMMA LinkedSane ==
    ASSUME NEW m, Sane(m), m.radio = "linked", NEW r \in Linked(m)
    PROVE  Sane(r) /\ Aside(m, r)
  <1> DEFINE k == [m EXCEPT !.connected = TRUE, !.ever = TRUE, !.state = "connected",
                            !.backoff = 1, !.health = HealthEvery, !.portal = FALSE]
  <1> DEFINE c == IF m.connected THEN m ELSE k
  <1>1. m \in Managers /\ 1 \in 1 .. MaxBackoff /\ HealthEvery \in 0 .. HealthEvery
    BY Times DEF Sane
  <1>2. k \in Managers /\ k.radio = "linked" /\ k.state = "connected" /\ k.deadline = m.deadline
    BY <1>1 DEF Managers
  <1>3. \/ r \in LinkHealth(c) \/ r = c
        \/ ~m.connected /\ r = [c EXCEPT !.portal = m.portal]
    BY DEF Linked
  <1>4. Sane(c) /\ c.radio = "linked" /\ (c = m \/ c.state = "connected")
    BY <1>1, <1>2 DEF Sane, Joins
  <1> HIDE DEF k
  <1>5. CASE r \in LinkHealth(c)
    <2>1. Sane(r) /\ Aside(c, r)
      BY <1>4, <1>5, LinkHealthSane
    <2>2. QED
      BY <1>4, <2>1 DEF Aside
  <1>6. CASE r = c
    BY <1>4, <1>6 DEF Aside
  <1>7. CASE ~m.connected /\ r = [c EXCEPT !.portal = m.portal]
    <2>1. r = [k EXCEPT !.portal = m.portal]
      BY <1>7
    <2>2. r \in Managers /\ r.radio = "linked" /\ r.state = "connected" /\ r.deadline = m.deadline
      BY <1>1, <1>2, <2>1 DEF Managers
    <2>3. QED
      BY <2>2 DEF Sane, Joins, Aside
  <1>8. QED
    BY <1>3, <1>5, <1>6, <1>7

LEMMA NoticedSane ==
    ASSUME NEW m, Sane(m)
    PROVE  /\ Sane(Noticed(m)) /\ ~Noticed(m).connected
           /\ Noticed(m) = m \/ (Noticed(m).state = "offline" /\ m.connected)
  <1>1. m \in Managers
    BY DEF Sane
  <1>2. CASE m.connected
    <2> DEFINE n == [m EXCEPT !.connected = FALSE, !.down = 0, !.retry = 0,
                              !.state = "offline", !.probing = FALSE]
    <2>1. 0 \in 0 .. RescueAfter /\ 0 \in 0 .. (PortalRetry + MaxBackoff)
      BY Times
    <2>2. n \in Managers
      BY <1>1, <2>1 DEF Managers
    <2>3. n.connected = FALSE /\ n.state = "offline" /\ n.radio = m.radio /\ n.deadline = m.deadline
      BY <1>1 DEF Managers
    <2>4. n = Noticed(m)
      BY <1>2 DEF Noticed
    <2> HIDE DEF n
    <2>5. QED
      BY <1>2, <2>2, <2>3, <2>4 DEF Sane, Joins
  <1>3. CASE ~m.connected
    BY <1>3 DEF Noticed
  <1>4. QED
    BY <1>2, <1>3

LEMMA AttemptedSane ==
    ASSUME NEW m, Sane(m), ~m.connected, NEW r \in Attempted(m)
    PROVE  Sane(r) /\ Aside(m, r)
  <1>1. m \in Managers /\ m.deadline \in Nat /\ m.retry \in Nat
    BY Times DEF Sane, Managers
  <1>2. CASE r = m
    BY <1>2 DEF Aside
  <1>3. CASE m.state = "connecting" /\ m.deadline = 0 /\ r \in Failed(m)
    <2>1. Ended(m)
      BY <1>3 DEF Sane, Ended
    <2>2. QED
      BY <1>3, <2>1, FailedSane DEF Aside
  <1>4. CASE m.state # "connecting" /\ m.retry = 0 /\ r \in Joining(m)
    <2>1. Ended(m)
      BY <1>1, <1>4 DEF Sane, Ended, Joins
    <2>2. QED
      BY <1>4, <2>1, JoiningSane DEF Aside
  <1>5. QED
    BY <1>2, <1>3, <1>4 DEF Attempted

LEMMA UnlinkedSane ==
    ASSUME NEW m, Sane(m), NEW r \in Unlinked(m)
    PROVE  Sane(r) /\ Aside(m, r)
  <1> DEFINE n == Noticed(m)
  <1>1. Sane(n) /\ ~n.connected /\ (n = m \/ n.state = "offline")
    BY NoticedSane
  <1>2. r = n \/ \E a \in Attempted(n) : r \in IF RescueDue(a) THEN Rescued(a) ELSE {a}
    BY DEF Unlinked
  <1> HIDE DEF n
  <1>3. CASE r = n
    BY <1>1, <1>3 DEF Aside
  <1>4. CASE \E a \in Attempted(n) : r \in IF RescueDue(a) THEN Rescued(a) ELSE {a}
    <2>1. PICK a \in Attempted(n) : r \in IF RescueDue(a) THEN Rescued(a) ELSE {a}
      BY <1>4
    <2>2. Sane(a) /\ Aside(n, a)
      BY <1>1, <2>1, AttemptedSane
    <2>3. CASE r = a
      BY <1>1, <2>2, <2>3 DEF Aside
    <2>4. CASE r \in Rescued(a)
      BY <2>2, <2>4, RescuedSane DEF Sane, Joins, Aside
    <2>5. QED
      BY <2>1, <2>3, <2>4
  <1>5. QED
    BY <1>2, <1>3, <1>4

LEMMA UnprovisionedSane ==
    ASSUME NEW m, Sane(m), NEW r \in Unprovisioned(m)
    PROVE  Sane(r) /\ Aside(m, r)
  <1>1. CASE r = m
    BY <1>1 DEF Aside
  <1>2. CASE r \in Rescued(m)
    BY <1>2, RescuedSane DEF Sane, Joins, Aside
  <1>3. QED
    BY <1>1, <1>2 DEF Unprovisioned

-----------------------------------------------------------------------------
(* The steps. *)

WifiInv == TypeOK /\ Sane(wifi)

LEMMA FreshSane ==
    ASSUME NEW credentials \in {"none", "config", "saved"}
    PROVE  Sane(Fresh(credentials)) /\ Fresh(credentials).state = "offline"
  <1>1. /\ 0 \in 0 .. (Attempt + PortalAttempt) /\ 0 \in 0 .. (PortalRetry + MaxBackoff)
        /\ 1 \in 1 .. MaxBackoff /\ 0 \in 0 .. RescueAfter /\ HealthEvery \in 0 .. HealthEvery
        /\ 0 <= PortalRetry
    BY Times
  <1>2. Fresh(credentials) \in Managers
    BY <1>1 DEF Fresh, Managers
  <1>3. QED
    BY <1>1, <1>2 DEF Fresh, Sane, Joins

LEMMA PollSane ==
    ASSUME WifiInv, Poll
    PROVE  WifiInv' /\ Aside(wifi, wifi')
  <1>1. Sane(wifi)
    BY DEF WifiInv
  <1>2. Sane(wifi') /\ Aside(wifi, wifi')
    <2>1. CASE UNCHANGED wifi
      BY <1>1, <2>1 DEF Aside
    <2>2. \A r : r = wifi' => UNCHANGED wifi \/ (Sane(r) /\ Aside(wifi, r))
      BY <1>1, UnprovisionedSane, LinkedSane, UnlinkedSane DEF Poll
    <2>3. QED
      BY <2>1, <2>2
  <1>3. Sane(wifi)'
    BY <1>2 DEF Sane, Joins
  <1>4. QED
    BY <1>2, <1>3 DEF WifiInv, TypeOK, Poll, Sane

LEMMA TickSane ==
    ASSUME WifiInv, Tick
    PROVE  /\ WifiInv' /\ wifi'.radio = wifi.radio /\ wifi'.state = wifi.state
  <1> DEFINE deadline == Less(wifi.deadline)
  <1> DEFINE retry == Less(wifi.retry)
  <1> DEFINE health == Less(wifi.health)
  <1> DEFINE down == Least(wifi.down + 1, RescueAfter)
  <1>1. wifi \in Managers /\ Sane(wifi)
    BY DEF WifiInv, Sane
  <1>2. /\ wifi.deadline \in 0 .. (Attempt + PortalAttempt) /\ wifi.retry \in 0 .. (PortalRetry + MaxBackoff)
        /\ wifi.health \in 0 .. HealthEvery /\ wifi.down \in 0 .. RescueAfter
    BY <1>1 DEF Managers
  <1>3. /\ deadline \in 0 .. (Attempt + PortalAttempt) /\ retry \in 0 .. (PortalRetry + MaxBackoff)
        /\ health \in 0 .. HealthEvery
    BY <1>2, Times DEF Less
  <1>4. down \in 0 .. RescueAfter
    BY <1>2, Times DEF Least
  <1>5. /\ deadline <= wifi.deadline
        /\ wifi.deadline <= wifi.retry => deadline <= retry
    BY <1>2, Times DEF Less
  <1>6. wifi' = [wifi EXCEPT !.deadline = deadline, !.retry = retry, !.health = health, !.down = down]
    BY DEF Tick
  <1> HIDE DEF deadline, retry, health, down
  <1>7. wifi' \in Managers
    BY <1>1, <1>3, <1>4, <1>6 DEF Managers
  <1>8. /\ wifi'.deadline = deadline /\ wifi'.retry = retry /\ wifi'.radio = wifi.radio
        /\ wifi'.state = wifi.state /\ wifi'.portal = wifi.portal /\ wifi'.connected = wifi.connected
    BY <1>1, <1>6 DEF Managers
  <1>9. deadline <= PortalRetry
    BY <1>1, <1>2, <1>3, <1>5, Times DEF Sane
  <1>10. Sane(wifi)'
    BY <1>1, <1>5, <1>7, <1>8, <1>9 DEF Sane, Joins
  <1>11. QED
    BY <1>7, <1>8, <1>10 DEF WifiInv, TypeOK, Tick

LEMMA RadioSane ==
    ASSUME WifiInv, Associate \/ LoseLink
    PROVE  WifiInv' /\ wifi.radio \in {"joining", "linked"} /\ wifi'.state = wifi.state
  <1>1. PICK radio \in {"on", "linked"} : wifi' = [wifi EXCEPT !.radio = radio]
    BY DEF Associate, LoseLink
  <1>2. wifi \in Managers /\ Sane(wifi)
    BY DEF WifiInv, Sane
  <1>3. wifi' \in Managers
    BY <1>1, <1>2 DEF Managers
  <1>4. /\ wifi'.radio = radio /\ wifi'.state = wifi.state /\ wifi'.portal = wifi.portal
        /\ wifi'.deadline = wifi.deadline
    BY <1>1, <1>2 DEF Managers
  <1>5. Sane(wifi)'
    BY <1>2, <1>3, <1>4 DEF Sane, Joins
  <1>6. QED
    BY <1>3, <1>4, <1>5 DEF WifiInv, TypeOK, Associate, LoseLink

LEMMA ProvisionSane ==
    ASSUME WifiInv, Provision
    PROVE  WifiInv' /\ wifi'.state = "offline"
  <1>1. wifi' = Fresh("saved") /\ Sane(Fresh("saved")) /\ Fresh("saved").state = "offline"
    BY FreshSane DEF Provision
  <1>2. Sane(wifi)' /\ wifi' \in Managers
    BY <1>1 DEF Sane, Joins
  <1>3. QED
    BY <1>1, <1>2 DEF WifiInv, TypeOK, Provision

Others == Router \/ Break \/ OpenValve \/ CloseValve \/ UNCHANGED vars

LEMMA OthersSane ==
    ASSUME WifiInv, Others
    PROVE  WifiInv' /\ wifi' = wifi
  <1>1. wifi' = wifi
    BY DEF Others, Router, Break, OpenValve, CloseValve, vars
  <1>2. Sane(wifi)'
    BY <1>1 DEF WifiInv, Sane, Joins
  <1>3. router' \in BOOLEAN /\ valve' \in BOOLEAN /\ broken' \subseteq Breakable /\ polled' \in BOOLEAN
    BY DEF WifiInv, TypeOK, Others, Router, Break, OpenValve, CloseValve, vars
  <1>4. QED
    BY <1>1, <1>2, <1>3 DEF WifiInv, TypeOK

LEMMA Steps ==
    ASSUME [Next]_vars
    PROVE  Poll \/ Tick \/ Associate \/ LoseLink \/ Provision \/ Others
  BY DEF Next, Others

LEMMA WifiInit == Init => WifiInv
  <1> SUFFICES ASSUME Init PROVE WifiInv
    OBVIOUS
  <1>1. PICK credentials \in {"none", "config", "saved"} : wifi = Fresh(credentials)
    BY DEF Init
  <1>2. Sane(wifi)
    BY <1>1, FreshSane
  <1>3. QED
    BY <1>2 DEF WifiInv, TypeOK, Sane, Init

LEMMA WifiStep == WifiInv /\ [Next]_vars => WifiInv'
  BY Steps, PollSane, TickSane, RadioSane, ProvisionSane, OthersSane

\* What the manager's fields and the radio say of each other holds in every state: the
\* rescue state has its access point, and a joining radio an attempt that is still timed.
THEOREM RadioHolds == Spec => []WifiInv
  BY WifiInit, WifiStep, PTL DEF Spec

\* The manager's timers, counters and states keep to their ranges.
THEOREM WifiTypes == Spec => []TypeOK
  BY RadioHolds, PTL DEF WifiInv

\* Between its attempts a station in rescue is parked, unless its driver fails, and its
\* access point is active (architecture.md, wifi.py _fail and _start_rescue).
THEOREM RescueAlwaysParks == Spec => ParkedInRescue
  <1>1. ASSUME WifiInv, [Next]_vars, wifi'.state = "rescue"
        PROVE  /\ wifi'.portal
               /\ \/ wifi'.radio = "off" \/ "station" \in broken
                  \/ wifi.state = "rescue" /\ wifi.radio # "off"
    <2>1. wifi'.portal
      BY <1>1, WifiStep DEF WifiInv, Sane
    <2>2. wifi'.radio = "off" \/ "station" \in broken \/ (wifi.state = "rescue" /\ wifi.radio # "off")
      <3>1. CASE Poll
        BY <1>1, <3>1, PollSane DEF Aside, Down
      <3>2. CASE Tick
        BY <1>1, <3>2, TickSane
      <3>3. CASE Associate \/ LoseLink
        BY <1>1, <3>3, RadioSane
      <3>4. CASE Provision
        BY <1>1, <3>4, ProvisionSane
      <3>5. CASE Others
        BY <1>1, <3>5, OthersSane
      <3>6. QED
        BY <1>1, Steps, <3>1, <3>2, <3>3, <3>4, <3>5
    <2>3. QED
      BY <2>1, <2>2
  <1>2. QED
    BY <1>1, RadioHolds, PTL DEF Spec, ParkedInRescue

\* Neither a poll nor the outage's own timer ends an attempt before its deadline once the
\* access point is active (wifi.py poll, _fail).
LEMMA PollLets ==
    ASSUME WifiInv, Poll, wifi.portal, wifi.radio = "joining", wifi.deadline > 0
    PROVE  wifi' = wifi
  <1>1. /\ ~wifi.connected /\ wifi.deadline \in Nat /\ wifi.retry \in Nat
        /\ wifi.state # "connecting" => wifi.deadline <= wifi.retry
    BY Times DEF WifiInv, Sane, Joins, Managers
  <1>2. wifi.deadline # 0 /\ (wifi.state # "connecting" => wifi.retry # 0)
    BY <1>1
  <1>3. wifi' \in Unprovisioned(wifi) \cup Unlinked(wifi) \cup {wifi}
    BY DEF Poll
  <1>4. Unprovisioned(wifi) = {wifi}
    BY DEF Unprovisioned
  <1>5. Noticed(wifi) = wifi
    BY <1>1 DEF Noticed
  <1>6. Attempted(wifi) = {wifi}
    BY <1>2 DEF Attempted
  <1>7. Unlinked(wifi) = {wifi}
    BY <1>5, <1>6 DEF Unlinked, RescueDue
  <1>8. QED
    BY <1>3, <1>4, <1>7

\* Each attempt made beside the access point receives its full deadline.
THEOREM AttemptsAlwaysLast == Spec => PortalAttemptsLast
  <1>1. ASSUME WifiInv, [Next]_vars, wifi.portal
        PROVE  ~Cut
    <2> SUFFICES ASSUME Cut PROVE FALSE
      OBVIOUS
    <2>1. /\ wifi.radio = "joining" /\ wifi'.radio \in {"off", "on"} /\ wifi.deadline > 0
          /\ wifi.credentials = wifi'.credentials
      BY DEF Cut
    <2>2. CASE Poll
      BY <1>1, <2>1, <2>2, PollLets
    <2>3. CASE Tick
      BY <1>1, <2>1, <2>3, TickSane
    <2>4. CASE Associate
      BY <1>1, <2>1, <2>4 DEF Associate, WifiInv, TypeOK, Managers
    <2>5. CASE LoseLink
      BY <2>1, <2>5 DEF LoseLink
    <2>6. CASE Provision
      BY <2>1, <2>6 DEF Provision, Fresh
    <2>7. CASE Others
      BY <1>1, <2>1, <2>7, OthersSane
    <2>8. QED
      BY <1>1, Steps, <2>2, <2>3, <2>4, <2>5, <2>6, <2>7
  <1>2. QED
    BY <1>1, RadioHolds, PTL DEF Spec, PortalAttemptsLast

-----------------------------------------------------------------------------
(* The resolver and the clock client: the parameters and the variables of NetClients. *)

CONSTANTS Hosts, NtpHost, Addresses, Nothing, Period, Deadline, Negative, Lifetimes,
          Retry, Resync, QueueSize, CacheSize, LastTime
VARIABLES time, link, connected, watering, seen, queue, lookup, cache,
          exchange, nextAttempt, synced, seenAt, expiry
Net == INSTANCE NetClients

Half == 536870912

\* The period of compat.py:13; lifetimes in ms, all far below half of it (wifi.py:100).
CodeValues ==
    /\ Period = 2 * Half
    /\ Negative \in 1 .. Half /\ Lifetimes \subseteq 1 .. Half

\* Ticks of real times less than half a period apart compare as the times do (compat.py:16).
LEMMA DiffIsDifference ==
    ASSUME NEW a \in Nat, NEW b \in Nat, CodeValues, a - b < Half, b - a <= Half
    PROVE  Net!Diff(a % Period, b % Period) = a - b
<1>1. Period = 2 * Half
  BY Zenon DEF CodeValues
<1> QED BY SMT, <1>1 DEF Net!Diff, Half

\* Adding ticks is adding times (compat.py:18).
LEMMA AddIsSum ==
    ASSUME NEW a \in Nat, NEW b \in Nat, CodeValues
    PROVE  Net!Add(a % Period, b) = (a + b) % Period
<1>1. Period = 2 * Half
  BY Zenon DEF CodeValues
<1> QED BY SMT, <1>1 DEF Net!Add, Half

LEMMA HalfIsNat == Half \in Nat
BY SMT DEF Half

Clocks ==
    /\ time \in Nat /\ seenAt \in Nat /\ seenAt <= time
    /\ seen = seenAt % Period

Entries ==
    /\ DOMAIN cache = Hosts /\ DOMAIN expiry = Hosts
    /\ \A host \in Hosts : cache[host] # Nothing =>
           /\ expiry[host] \in Nat
           /\ cache[host].until = expiry[host] % Period
           /\ expiry[host] - seenAt <= Half

TicksInv == Clocks /\ Entries

\* An entry out of date for less than half a period is fresh exactly within its lifetime
\* (wifi.py:85).
FreshWhileYoung ==
    \A host \in Hosts : cache[host] # Nothing /\ seenAt - expiry[host] < Half
                        => (Net!Fresh(host) <=> seenAt < expiry[host])

\* One entry replaced and perhaps another dropped: the rest keep their times.
LEMMA RememberKeeps ==
    ASSUME CodeValues, TicksInv, NEW host, NEW address, NEW life \in 1 .. Half,
           Net!Remember(host, address, life), time' = time, seenAt' = time
    PROVE  Entries'
<1>1. PICK dropped :
          cache' = [cache EXCEPT ![dropped] = Nothing,
                                 ![host] = [address |-> address, until |-> Net!Add(Net!Now, life)]]
  BY DEF Net!Remember
<1>2. expiry' = [expiry EXCEPT ![host] = time + life]
  BY DEF Net!Remember
<1>3. Net!Add(Net!Now, life) = (time + life) % Period
  BY AddIsSum DEF Net!Now, TicksInv, Clocks
<1>4. DOMAIN cache' = Hosts /\ DOMAIN expiry' = Hosts
  BY <1>1, <1>2 DEF TicksInv, Entries
<1>5. ASSUME NEW h \in Hosts, cache'[h] # Nothing
      PROVE  /\ expiry'[h] \in Nat /\ cache'[h].until = expiry'[h] % Period
             /\ expiry'[h] - seenAt' <= Half
  <2>1. CASE h = host
    <3>1. cache'[h] = [address |-> address, until |-> Net!Add(Net!Now, life)]
      BY <2>1, <1>1 DEF TicksInv, Entries
    <3>2. expiry'[h] = time + life
      BY <2>1, <1>2 DEF TicksInv, Entries
    <3> QED BY <3>1, <3>2, <1>3, HalfIsNat DEF TicksInv, Clocks
  <2>2. CASE h # host
    <3>1. h # dropped /\ cache'[h] = cache[h] /\ expiry'[h] = expiry[h]
      BY <2>2, <1>1, <1>2, <1>5 DEF TicksInv, Entries
    <3> QED BY <3>1, <1>5, HalfIsNat DEF TicksInv, Clocks, Entries
  <2> QED BY <2>1, <2>2
<1> QED BY <1>4, <1>5 DEF Entries

LEMMA DnsPollKeeps ==
    ASSUME CodeValues, TicksInv, Net!DnsPoll, time' = time
    PROVE  TicksInv'
<1>0. seen' = Net!Now /\ seenAt' = time
  BY Zenon DEF Net!DnsPoll
<1>1. Clocks'
  BY <1>0 DEF TicksInv, Clocks, Net!Now
<1>2. CASE cache' = cache /\ expiry' = expiry
  BY <1>0, <1>1, <1>2, HalfIsNat DEF TicksInv, Clocks, Entries
<1>3. ASSUME NEW address, NEW life \in 1 .. Half, Net!Remember(Net!Current.host, address, life)
      PROVE  Entries'
  BY <1>0, <1>3, RememberKeeps
<1>4. CASE Net!Remember(Net!Current.host, Nothing, Negative)
  BY <1>1, <1>3, <1>4 DEF TicksInv, CodeValues
<1>5. CASE \E address \in Addresses, life \in Lifetimes :
               Net!Remember(Net!Current.host, address, life)
  BY <1>1, <1>3, <1>5 DEF TicksInv, CodeValues
<1>6. \/ cache' = cache /\ expiry' = expiry
      \/ Net!Remember(Net!Current.host, Nothing, Negative)
      \/ \E address \in Addresses, life \in Lifetimes : Net!Remember(Net!Current.host, address, life)
  BY Zenon DEF Net!DnsPoll
<1> QED BY <1>1, <1>2, <1>4, <1>5, <1>6 DEF TicksInv

LEMMA TicksInit == ASSUME CodeValues, Net!Init PROVE TicksInv
BY DEF Net!Init, TicksInv, Clocks, Entries, Net!Now

LEMMA TicksNext ==
    ASSUME CodeValues, TicksInv, [Net!Next]_(Net!vars)
    PROVE  TicksInv'
<1>1. ASSUME UNCHANGED <<time, seen, cache, seenAt, expiry>>
      PROVE  TicksInv'
  BY <1>1 DEF TicksInv, Clocks, Entries
<1>2. ASSUME NEW host, Net!Resolve(host), time' = time
      PROVE  TicksInv'
  BY <1>1, <1>2 DEF Net!Resolve
<1>3. CASE Net!WifiPoll
  <2>1. CASE Net!Linked
    BY <1>3, <2>1, DnsPollKeeps DEF Net!WifiPoll, Net!Linked
  <2>2. CASE Net!Unlinked
    BY <1>1, <1>3, <2>2 DEF Net!WifiPoll, Net!Unlinked
  <2> QED BY <1>3, <2>1, <2>2 DEF Net!WifiPoll
<1>4. CASE Net!NtpPoll
  <2>1. CASE Net!Resolve(NtpHost)
    BY <1>2, <1>4, <2>1 DEF Net!NtpPoll
  <2>2. CASE UNCHANGED Net!resolver
    BY <1>1, <1>4, <2>2 DEF Net!NtpPoll, Net!resolver
  <2> QED BY <1>4, <2>1, <2>2 DEF Net!NtpPoll, Net!Attempt
<1>5. CASE Net!UpdaterAsks
  BY <1>2, <1>5 DEF Net!UpdaterAsks
<1>6. CASE Net!LinkChanges \/ Net!ValveChanges
  BY <1>1, <1>6 DEF Net!LinkChanges, Net!ValveChanges, Net!resolver
<1>7. CASE Net!Tick
  BY <1>7 DEF Net!Tick, Net!resolver, TicksInv, Clocks, Entries
<1>8. CASE UNCHANGED Net!vars
  BY <1>1, <1>8 DEF Net!vars, Net!resolver
<1> QED BY <1>3, <1>4, <1>5, <1>6, <1>7, <1>8 DEF Net!Next

LEMMA TicksImplySound ==
    ASSUME CodeValues, TicksInv
    PROVE  FreshWhileYoung
<1> SUFFICES ASSUME NEW host \in Hosts, cache[host] # Nothing, seenAt - expiry[host] < Half
             PROVE  Net!Fresh(host) <=> seenAt < expiry[host]
  BY DEF FreshWhileYoung
<1>1. expiry[host] \in Nat /\ expiry[host] - seenAt <= Half /\ seenAt \in Nat
  BY DEF TicksInv, Clocks, Entries
<1>2. Net!Diff(seen, cache[host].until) = seenAt - expiry[host]
  BY <1>1, DiffIsDifference DEF TicksInv, Clocks, Entries
<1> QED BY <1>1, <1>2 DEF Net!Fresh

\* A cached answer or failure is used during its lifetime and, for half a tick period
\* after it, not used any more (wifi.py:84-86, 100).
THEOREM FreshForHalfAPeriod ==
    ASSUME CodeValues
    PROVE  Net!Spec => []FreshWhileYoung
<1>1. Net!Init => TicksInv
  BY TicksInit
<1>2. TicksInv /\ [Net!Next]_(Net!vars) => TicksInv'
  BY TicksNext
<1>3. TicksInv => FreshWhileYoung
  BY TicksImplySound
<1> QED BY <1>1, <1>2, <1>3, PTL DEF Net!Spec
=============================================================================
