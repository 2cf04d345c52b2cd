----------------------------- MODULE HttpServer -----------------------------
(***************************************************************************)
(* HTTPServer of web.py: a listener that is opened again some time after a *)
(* fault, and at most two connections.  Every turn of the main loop polls: *)
(* it accepts one connection and gives each one read or one write, which   *)
(* are independent of each other and steps of their own here.  A peer      *)
(* sends and takes what it likes, whenever it likes.                       *)
(*                                                                         *)
(* Bytes are left out: a read brings part of the head, or parts of the     *)
(* body; a write takes part of the reply.  A connection is one record, and *)
(* the server's methods map it to the set of records they may leave        *)
(* behind.  Deadlines are counted down.                                    *)
(***************************************************************************)
EXTENDS Naturals

CONSTANTS
    Slots,     \* the connections the server accepts at a time
    Body,      \* bound: parts of a request's body
    Idle,      \* time without progress after which a connection is closed (10 s)
    Head,      \* time for a request (15 s)
    Long,      \* time for an upload from its start, and for a reply (120 s)
    Restart    \* time between a fault of the listener and its restart (30 s)

ASSUME HttpAssumption ==
    /\ Slots # {} /\ Body \in Nat
    /\ Idle \in Nat \ {0} /\ Head \in Nat \ {0} /\ Long \in Nat \ {0} /\ Restart \in Nat \ {0}
    /\ Idle <= Head /\ Head <= Long

VARIABLES
    listener,  \* its state, and the time until its restart
    conn       \* [Slots -> connections]
vars == <<listener, conn>>

\* Fields of a connection: open; phase, what is awaited ("headers" is None, output is set);
\* upload (multipart); stage of the multipart parser (first and headers are one); sink, has
\* it an open file of the updater? due, the parts of the body still to come; idle and left,
\* the time until last_progress and deadline expire; calls and answers (history, read by
\* the properties only): how often the handler was called and a reply begun.
Stages == {"headers", "data", "done"}
Phases == {"headers", "body", "reply"}
NoConnection == [open |-> FALSE, phase |-> "headers", upload |-> FALSE, stage |-> "headers",
                 sink |-> FALSE, due |-> 0, idle |-> 0, left |-> 0, calls |-> 0, answers |-> 0]
Connected == [NoConnection EXCEPT !.open = TRUE, !.idle = Idle, !.left = Head]

-----------------------------------------------------------------------------
(* Ends of a request. *)

\* Multipart.abort
\* Mutant of Aborted: the file stays open.
AbortedNever(c) == c
Aborted(c) == [c EXCEPT !.sink = FALSE]

\* _Client.close
Closed(c) == [NoConnection EXCEPT !.sink = Aborted(c).sink]

\* _respond
Responded(c) == [c EXCEPT !.phase = "reply", !.idle = Idle, !.left = Long, !.answers = @ + 1]
\* _error
Refused(c) == Responded(Aborted(c))

\* poll's handlers: an invalid request is answered, unless a reply has begun; any other
\* exception, and one that aborting the upload raises, ends the connection.
\* Mutant of Invalid: the reply that has begun is followed by another.
InvalidAlways(c) == {Refused(c)}
Invalid(c) == IF c.phase = "reply" THEN {Closed(c)}
              ELSE {Refused(c)} \cup IF c.sink THEN {Closed(c)} ELSE {}
Raised(c) == Invalid(c) \cup {Closed(c)}

-----------------------------------------------------------------------------
(* Requests. *)

\* _dispatch: an upload is complete or truncated; a request of another kind may be shed for
\* want of memory, be for a file, have a body of the wrong type, or reach the handler,
\* which may raise.
Dispatched(c) ==
    IF c.upload
    THEN IF c.stage = "done" /\ ~c.sink THEN {Responded(c)} ELSE Invalid(c)
    ELSE LET called == [c EXCEPT !.calls = @ + 1]
         IN {Responded(c), Refused(c), Responded(called)} \cup Raised(called)

\* The end of a read: a request that has all its parts is dispatched.
Received(c) == IF c.due = 0 THEN Dispatched(c) ELSE {c}

\* Multipart.feed moves on by one stage, or stays where it is: it opens a file of the
\* updater, writes to it, or finishes it.  What it calls may raise, finish without giving
\* the file back.
Fed(c) ==
    {c} \cup
    CASE c.stage = "headers" -> {[c EXCEPT !.stage = "data", !.sink = TRUE]}
      [] c.stage = "data" -> {[c EXCEPT !.stage = next, !.sink = FALSE] : next \in {"headers", "done"}}
      [] OTHER -> {}

\* _read of part of the body: n parts, or more than Content-Length allows.
BodyRead(c) ==
    Invalid(c) \cup
    UNION {LET rest == [c EXCEPT !.due = @ - n]
           IN IF c.upload THEN Raised(rest) \cup UNION {Received(f) : f \in Fed(rest)}
              ELSE Received(rest)
           : n \in 1 .. c.due}

\* _parse_headers: the head is not complete yet, too large or invalid, or is followed by
\* none or some of the body.  An upload has until Long after the connection was accepted.
Parsed(c, upload, length) ==
    [c EXCEPT !.phase = "body", !.upload = upload, !.due = length,
              !.left = IF upload THEN @ + (Long - Head) ELSE @]
HeadersRead(c) ==
    {c, Refused(c)} \cup
    UNION {UNION {Received(Parsed(c, upload, length)) \cup BodyRead(Parsed(c, upload, length))
                  : length \in 0 .. Body} : upload \in BOOLEAN}

\* _read: nothing has come, the peer is gone, recv raises, or data has come.
Read(c) ==
    LET progress == [c EXCEPT !.idle = Idle]
    IN {c, Closed(c)} \cup IF c.phase = "headers" THEN HeadersRead(progress) ELSE BodyRead(progress)

\* _write: the peer takes nothing or part of the reply, or the reply is complete; making
\* its next fragment, or send, may raise.
Written(c) == {c, [c EXCEPT !.idle = Idle], Closed(c)} \cup Raised(c)

\* poll's turn of a connection.
\* Mutant of Expired: what a peer takes or sends keeps its connection open.
ExpiredIdle(c) == c.idle = 0
Expired(c) == c.idle = 0 \/ c.left = 0
Outcomes(c) == IF Expired(c) THEN {Closed(c)}
               ELSE IF c.phase = "reply" THEN Written(c) ELSE Read(c)
Serve(s) ==
    /\ conn[s].open /\ \E c \in Outcomes(conn[s]) : conn' = [conn EXCEPT ![s] = c]
    /\ UNCHANGED listener

-----------------------------------------------------------------------------
(* The listener. *)

Listening == [state |-> "listening", wait |-> 0]
\* _broken
Broken == [state |-> "fault", wait |-> Restart]
\* start, which fails or not
Started == {Listening, Broken}

\* The restart of a listener that failed.
\* Mutant of Restarted: a listener that is closed is not opened again.
RestartedNever == {listener}
Restarted == IF listener.state = "fault" /\ listener.wait = 0 THEN Started ELSE {listener}

Accepting(l) == l.state = "listening" /\ \E s \in Slots : ~conn[s].open
FreeSlot == CHOOSE s \in Slots : ~conn[s].open
\* poll's turn of the listener: nobody is there, or has gone again; a connection, for which
\* there is memory or not; or accept fails.
Accepted(l) ==
    {<<l, conn>>} \cup
    IF Accepting(l) THEN {<<Broken, conn>>, <<l, [conn EXCEPT ![FreeSlot] = Connected]>>} ELSE {}
Accept == \E l \in Restarted : \E a \in Accepted(l) : listener' = a[1] /\ conn' = a[2]

Less(n) == IF n = 0 THEN 0 ELSE n - 1
Tick ==
    /\ listener' = [listener EXCEPT !.wait = Less(@)]
    /\ conn' = [s \in Slots |-> [conn[s] EXCEPT !.idle = Less(@), !.left = Less(@)]]

\* HTTPServer, start
Init == listener \in Started /\ conn = [s \in Slots |-> NoConnection]
Next == Accept \/ (\E s \in Slots : Serve(s)) \/ Tick
Spec == Init /\ [][Next]_vars

\* The main loop polls, time passes, and a listener that is restarted again and again can
\* be opened some time.
Reopen == Accept /\ listener'.state = "listening"
FairSpec == Spec /\ (\A s \in Slots : WF_vars(Serve(s))) /\ WF_vars(Tick)
                 /\ SF_vars(Reopen)

-----------------------------------------------------------------------------
(* Properties. *)

TypeOK ==
    /\ listener \in [state : {"listening", "fault"}, wait : 0 .. Restart]
    /\ conn \in [Slots -> [open : BOOLEAN, phase : Phases, upload : BOOLEAN, stage : Stages,
                           sink : BOOLEAN, due : 0 .. Body, idle : 0 .. Long, left : 0 .. Long,
                           calls : Nat, answers : Nat]]

\* active_uploads of health, for which the main loop keeps watering paused.
ActiveUpload(c) == c.open /\ c.upload /\ c.phase # "reply"

\* Whatever ends a request, and at whatever stage of the multipart parser, an open file of
\* the updater belongs to an upload that holds watering: it is finished or given up before
\* its connection is closed or answered.
SinksHeld == \A s \in Slots : conn[s].sink => ActiveUpload(conn[s])

\* A peer gets one reply at most, and what it asks for is done once at most, whatever is
\* raised while the request is handled or the reply is being sent.
OneAnswer == \A s \in Slots : conn[s].answers <= 1 /\ conn[s].calls <= 1

\* Whatever its peer does, a connection comes to an end.
ConnectionsEnd == \A s \in Slots : conn[s].open ~> ~conn[s].open

\* Slow peers and faults of the listener never keep others out for good.
Admits == []<>Accepting(listener)
=============================================================================
