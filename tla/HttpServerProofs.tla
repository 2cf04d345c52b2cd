-------------------------- MODULE HttpServerProofs --------------------------
(***************************************************************************)
(* Whatever peers send, take or break off, the files of their uploads are  *)
(* held and each is answered once, for every number of connections and     *)
(* every deadline.                                                         *)
(*                                                                         *)
(* The invariant is one about a single connection, Sound.  Each method     *)
(* maps a sound connection to sound ones; in between, while a request is   *)
(* handled, a connection is Asking.                                        *)
(***************************************************************************)
EXTENDS HttpServer, TLAPS

Connections == [open : BOOLEAN, phase : Phases, upload : BOOLEAN, stage : Stages,
                sink : BOOLEAN, due : 0 .. Body, idle : 0 .. Long, left : 0 .. Long,
                calls : Nat, answers : Nat]

\* A connection between two polls.
Sound(c) ==
    /\ c \in Connections
    /\ c.sink => ActiveUpload(c)
    /\ c.answers <= 1 /\ c.calls <= 1
    /\ c.phase # "reply" => c.answers = 0 /\ c.calls = 0
    /\ c.phase = "headers" => ~c.sink /\ c.left <= Head

\* One whose request is read, and has not been dispatched.
Asking(c) ==
    /\ c \in Connections /\ c.open /\ c.phase = "body"
    /\ c.answers = 0 /\ c.calls = 0
    /\ c.sink => c.upload

\* One whose request may have reached the handler and has no answer.
Unanswered(c) ==
    /\ c \in Connections /\ c.open
    /\ c.calls <= 1
    /\ c.phase # "reply" => c.answers = 0

LEMMA Deadlines == /\ Body \in Nat /\ Idle \in Nat /\ Head \in Nat /\ Long \in Nat
                   /\ Idle <= Head /\ Head <= Long
  BY HttpAssumption DEF HttpAssumption

\* A slot that is free, and a connection that has been accepted.
LEMMA NoneSound == Sound(NoConnection)
  <1>1. NoConnection \in Connections
    BY Deadlines DEF NoConnection, Connections, Phases, Stages
  <1>2. ~NoConnection.sink /\ NoConnection.answers = 0 /\ NoConnection.calls = 0
        /\ NoConnection.left = 0
    BY DEF NoConnection
  <1>3. 0 <= Head  BY Deadlines
  <1> QED  BY <1>1, <1>2, <1>3 DEF Sound
LEMMA ConnectedSound == Sound(Connected)
  <1>1. NoConnection \in Connections  BY NoneSound DEF Sound
  <1>2. Connected = [NoConnection EXCEPT !.open = TRUE, !.idle = Idle, !.left = Head]
    BY DEF Connected
  <1>3. Idle \in 0 .. Long /\ Head \in 0 .. Long  BY Deadlines
  <1>4. Connected \in Connections  BY <1>1, <1>2, <1>3 DEF Connections
  <1>5. Connected.sink = NoConnection.sink /\ Connected.answers = NoConnection.answers
        /\ Connected.calls = NoConnection.calls /\ Connected.left = Head
    BY <1>1, <1>2 DEF Connections
  <1>6. ~NoConnection.sink /\ NoConnection.answers = 0 /\ NoConnection.calls = 0
    BY DEF NoConnection
  <1>7. Head <= Head  BY Deadlines
  <1> QED  BY <1>4, <1>5, <1>6, <1>7 DEF Sound

\* A connection that is closed has given up its file.
LEMMA ClosedSound == ASSUME NEW c \in Connections PROVE Sound(Closed(c))
  <1>1. Aborted(c).sink = FALSE  BY DEF Aborted, Connections
  <1>2. NoConnection.sink = FALSE  BY DEF NoConnection
  <1>3. NoConnection \in Connections  BY NoneSound DEF Sound
  <1>4. NoConnection = [NoConnection EXCEPT !.sink = FALSE]
    BY <1>2, <1>3 DEF Connections
  <1>5. Closed(c) = NoConnection  BY <1>1, <1>4 DEF Closed
  <1> QED  BY <1>5, NoneSound

\* A request that has no answer may be answered, its file being given up first.
LEMMA RespondedSound ==
    ASSUME NEW c, Unanswered(c), c.phase # "reply", ~c.sink PROVE Sound(Responded(c))
  <1>1. c.answers = 0 /\ c \in Connections /\ Idle \in 0 .. Long /\ Long \in 0 .. Long
    BY Deadlines DEF Unanswered
  <1>2. Responded(c) \in Connections
    <2>1. "reply" \in Phases /\ 1 \in Nat  BY DEF Phases
    <2>2. Responded(c) = [c EXCEPT !.phase = "reply", !.idle = Idle, !.left = Long,
                                   !.answers = 1]
      BY <1>1 DEF Responded
    <2> QED  BY <1>1, <2>1, <2>2 DEF Connections
  <1>3. Responded(c).sink = c.sink /\ Responded(c).phase = "reply"
        /\ Responded(c).answers = 1 /\ Responded(c).calls = c.calls
    BY <1>1 DEF Responded, Connections
  <1>4. c.calls <= 1  BY DEF Unanswered
  <1> QED  BY <1>2, <1>3, <1>4 DEF Sound
LEMMA RefusedSound ==
    ASSUME NEW c, Unanswered(c), c.phase # "reply" PROVE Sound(Refused(c))
  <1>1. Unanswered(Aborted(c)) /\ Aborted(c).phase # "reply" /\ ~Aborted(c).sink
    BY DEF Unanswered, Aborted, Connections
  <1> QED  BY <1>1, RespondedSound DEF Refused

\* An exception ends the connection, or the request if there is no answer yet.
LEMMA RaisedSound == ASSUME NEW c, Unanswered(c), NEW r \in Raised(c) PROVE Sound(r)
  <1>1. c \in Connections  BY DEF Unanswered
  <1>2. Sound(Closed(c))  BY <1>1, ClosedSound
  <1>3. CASE c.phase = "reply"  BY <1>2, <1>3 DEF Raised, Invalid
  <1>4. CASE c.phase # "reply"
    <2>1. Sound(Refused(c))  BY <1>4, RefusedSound
    <2> QED  BY <1>2, <1>4, <2>1 DEF Raised, Invalid
  <1> QED  BY <1>3, <1>4

\* A request is dispatched once.
LEMMA DispatchedSound == ASSUME NEW c, Asking(c), NEW r \in Dispatched(c) PROVE Sound(r)
  <1> DEFINE called == [c EXCEPT !.calls = @ + 1]
  <1>1. Unanswered(c) /\ Unanswered(called) /\ called.phase = "body" /\ called.sink = c.sink
    BY DEF Asking, Unanswered, Connections, Phases
  <1>2. c.phase # "reply"  BY DEF Asking
  <1>3. CASE c.upload
    <2>1. CASE c.stage = "done" /\ ~c.sink
      BY <1>1, <1>2, <1>3, <2>1, RespondedSound DEF Dispatched
    <2>2. CASE ~(c.stage = "done" /\ ~c.sink)
      BY <1>1, <1>3, <2>2, RaisedSound DEF Dispatched, Raised
    <2> QED  BY <2>1, <2>2
  <1>4. CASE ~c.upload
    <2>1. ~c.sink  BY <1>4 DEF Asking
    <2>2. Sound(Responded(c)) /\ Sound(Responded(called))
      BY <1>1, <1>2, <2>1, RespondedSound
    <2>3. Sound(Refused(c))  BY <1>1, <1>2, RefusedSound
    <2>4. ASSUME NEW x \in Raised(called) PROVE Sound(x)  BY <1>1, <2>4, RaisedSound
    <2> QED  BY <1>4, <2>2, <2>3, <2>4 DEF Dispatched
  <1> QED  BY <1>3, <1>4

\* What has come of a request leaves it asking, or is dispatched.
LEMMA AskingSound == ASSUME NEW c, Asking(c) PROVE Sound(c)
  BY Deadlines DEF Asking, Sound, ActiveUpload
LEMMA ReceivedSound == ASSUME NEW c, Asking(c), NEW r \in Received(c) PROVE Sound(r)
  BY AskingSound, DispatchedSound DEF Received

\* The multipart parser opens files for uploads only.
LEMMA FedAsking == ASSUME NEW c, Asking(c), c.upload, NEW f \in Fed(c) PROVE Asking(f)
  <1>1. CASE f = c  BY <1>1
  <1>2. CASE c.stage = "headers" /\ f = [c EXCEPT !.stage = "data", !.sink = TRUE]
    BY <1>2 DEF Asking, Connections, Stages
  <1>3. CASE c.stage = "data" /\ \E next \in {"headers", "done"} :
                                    f = [c EXCEPT !.stage = next, !.sink = FALSE]
    BY <1>3 DEF Asking, Connections, Stages
  <1>4. c.stage \in {"headers", "data", "done"}  BY DEF Asking, Connections, Stages
  <1> QED  BY <1>1, <1>2, <1>3, <1>4 DEF Fed

LEMMA BodyReadSound == ASSUME NEW c, Asking(c), NEW r \in BodyRead(c) PROVE Sound(r)
  <1>1. Unanswered(c) /\ c.phase # "reply"  BY DEF Asking, Unanswered
  <1>2. CASE r \in Invalid(c)  BY <1>1, <1>2, RaisedSound DEF Raised
  <1>3. ASSUME NEW n \in 1 .. c.due,
               r \in LET rest == [c EXCEPT !.due = @ - n]
                     IN IF c.upload THEN Raised(rest) \cup UNION {Received(f) : f \in Fed(rest)}
                        ELSE Received(rest)
        PROVE  Sound(r)
    <2> DEFINE rest == [c EXCEPT !.due = @ - n]
    <2>1. Asking(rest) /\ rest.upload = c.upload
      BY Deadlines DEF Asking, Connections
    <2>2. Unanswered(rest)  BY <2>1 DEF Asking, Unanswered
    <2>3. CASE ~c.upload  BY <1>3, <2>1, <2>3, ReceivedSound
    <2>4. CASE c.upload /\ r \in Raised(rest)  BY <2>2, <2>4, RaisedSound
    <2>5. CASE c.upload /\ \E f \in Fed(rest) : r \in Received(f)
      BY <2>1, <2>5, FedAsking, ReceivedSound
    <2> QED  BY <1>3, <2>3, <2>4, <2>5
  <1> QED  BY <1>2, <1>3 DEF BodyRead

LEMMA ParsedAsking ==
    ASSUME NEW c, Sound(c), c.open, c.phase = "headers",
           NEW upload \in BOOLEAN, NEW length \in 0 .. Body
    PROVE  Asking(Parsed(c, upload, length))
  <1> DEFINE parsed == Parsed(c, upload, length)
             left == IF upload THEN c.left + (Long - Head) ELSE c.left
  <1>1. c \in Connections  BY DEF Sound
  <1>2. left \in 0 .. Long  BY Deadlines DEF Sound, Connections
  <1>3. parsed = [c EXCEPT !.phase = "body", !.upload = upload, !.due = length, !.left = left]
    BY <1>1 DEF Parsed, Connections
  <1>4. parsed \in Connections  BY <1>1, <1>2, <1>3 DEF Connections, Phases
  <1>5. parsed.open = c.open /\ parsed.phase = "body" /\ parsed.answers = c.answers
        /\ parsed.calls = c.calls /\ parsed.sink = c.sink
    BY <1>1, <1>3 DEF Connections
  <1> QED  BY <1>4, <1>5 DEF Sound, Asking

LEMMA HeadersReadSound ==
    ASSUME NEW c, Sound(c), c.open, c.phase = "headers", NEW r \in HeadersRead(c) PROVE Sound(r)
  <1>1. Sound(Refused(c))  BY RefusedSound DEF Sound, Unanswered
  <1>2. CASE r \in {c, Refused(c)}  BY <1>1, <1>2
  <1>3. CASE \E upload \in BOOLEAN : \E length \in 0 .. Body :
                 r \in Received(Parsed(c, upload, length))
                       \cup BodyRead(Parsed(c, upload, length))
    BY <1>3, ParsedAsking, ReceivedSound, BodyReadSound
  <1> QED  BY <1>2, <1>3 DEF HeadersRead

\* A turn of a connection.
LEMMA ServeSound == ASSUME NEW c, Sound(c), c.open, NEW r \in Outcomes(c) PROVE Sound(r)
  <1> DEFINE progress == [c EXCEPT !.idle = Idle]
  <1>1. Sound(Closed(c))  BY ClosedSound DEF Sound
  <1>2. Sound(progress) /\ progress.open /\ progress.phase = c.phase
    <2>1. progress \in Connections  BY Deadlines DEF Sound, Connections
    <2>2. progress.open /\ progress.phase = c.phase /\ progress.sink = c.sink
          /\ progress.upload = c.upload /\ progress.answers = c.answers
          /\ progress.calls = c.calls /\ progress.left = c.left
      BY DEF Sound, Connections
    <2> QED  BY <2>1, <2>2 DEF Sound, ActiveUpload
  <1>3. CASE c.phase = "headers" /\ r \in HeadersRead(progress)
    BY <1>2, <1>3, HeadersReadSound
  <1>4. CASE c.phase = "body" /\ r \in BodyRead(progress)
    <2>1. Asking(progress)  BY <1>2, <1>4 DEF Sound, Asking, ActiveUpload
    <2> QED  BY <1>4, <2>1, BodyReadSound
  <1>5. CASE c.phase = "reply" /\ r \in Raised(c)
    BY <1>5, RaisedSound DEF Sound, Unanswered
  <1>6. c.phase \in {"headers", "body", "reply"}  BY DEF Sound, Connections, Phases
  <1> QED  BY <1>1, <1>2, <1>3, <1>4, <1>5, <1>6 DEF Outcomes, Read, Written

-----------------------------------------------------------------------------
HttpInv == /\ listener \in [state : {"listening", "fault"}, wait : 0 .. Restart]
           /\ conn \in [Slots -> Connections] /\ \A s \in Slots : Sound(conn[s])

LEMMA HttpInit == Init => HttpInv
  <1> SUFFICES ASSUME Init PROVE HttpInv  OBVIOUS
  <1>1. Sound(NoConnection)  BY NoneSound
  <1>2. Listening \in [state : {"listening", "fault"}, wait : 0 .. Restart]
        /\ Broken \in [state : {"listening", "fault"}, wait : 0 .. Restart]
    BY HttpAssumption DEF HttpAssumption, Listening, Broken
  <1> QED  BY <1>1, <1>2 DEF Init, Started, HttpInv, Sound

LEMMA HttpStep == HttpInv /\ [Next]_vars => HttpInv'
  <1> SUFFICES ASSUME HttpInv, [Next]_vars PROVE HttpInv'  OBVIOUS
  <1>1. CASE Accept
    <2>1. Listening \in [state : {"listening", "fault"}, wait : 0 .. Restart]
          /\ Broken \in [state : {"listening", "fault"}, wait : 0 .. Restart]
      BY HttpAssumption DEF HttpAssumption, Listening, Broken
    <2>2. \A l \in Restarted : l \in [state : {"listening", "fault"}, wait : 0 .. Restart]
      BY <2>1 DEF Restarted, Started, HttpInv
    <2>3. PICK l \in Restarted : \E a \in Accepted(l) : listener' = a[1] /\ conn' = a[2]
      BY <1>1 DEF Accept
    <2>4. PICK a \in Accepted(l) : listener' = a[1] /\ conn' = a[2]  BY <2>3
    <2>5. Sound(Connected)  BY ConnectedSound
    <2>6. CASE a = <<l, conn>> \/ a = <<Broken, conn>>
      BY <2>1, <2>2, <2>4, <2>6 DEF HttpInv
    <2>7. CASE Accepting(l) /\ a = <<l, [conn EXCEPT ![FreeSlot] = Connected]>>
      <3>1. FreeSlot \in Slots  BY <2>7 DEF Accepting, FreeSlot
      <3>2. conn' = [conn EXCEPT ![FreeSlot] = Connected] /\ listener' = l  BY <2>4, <2>7
      <3>3. Connected \in Connections  BY <2>5 DEF Sound
      <3> QED  BY <2>2, <2>5, <3>1, <3>2, <3>3 DEF HttpInv
    <2> QED  BY <2>6, <2>7 DEF Accepted
  <1>2. ASSUME NEW s \in Slots, Serve(s) PROVE HttpInv'
    <2>1. PICK c \in Outcomes(conn[s]) : conn' = [conn EXCEPT ![s] = c]
      BY <1>2 DEF Serve
    <2>2. Sound(c)  BY <1>2, ServeSound DEF Serve, HttpInv
    <2>3. c \in Connections  BY <2>2 DEF Sound
    <2> QED  BY <1>2, <2>1, <2>2, <2>3 DEF Serve, HttpInv
  <1>3. CASE Tick
    <2>1. \A n \in Nat : Less(n) \in Nat /\ Less(n) <= n  BY DEF Less
    <2>2. ASSUME NEW s \in Slots
          PROVE  conn'[s] \in Connections /\ Sound(conn'[s])
      <3>1. conn'[s] = [conn[s] EXCEPT !.idle = Less(@), !.left = Less(@)]
        BY <1>3 DEF Tick
      <3>2. Sound(conn[s])  BY DEF HttpInv
      <3> DEFINE c == conn[s]
                 d == [c EXCEPT !.idle = Less(@), !.left = Less(@)]
      <3>3. c \in Connections  BY <3>2 DEF Sound
      <3>4. Less(c.idle) \in 0 .. Long /\ Less(c.left) \in 0 .. Long /\ Less(c.left) <= c.left
        BY <2>1, <3>3, Deadlines DEF Connections
      <3>5. d \in Connections  BY <3>3, <3>4 DEF Connections
      <3>6. d.open = c.open /\ d.phase = c.phase /\ d.sink = c.sink /\ d.upload = c.upload
            /\ d.answers = c.answers /\ d.calls = c.calls /\ d.left = Less(c.left)
        BY <3>3 DEF Connections
      <3>7. d.left <= Head \/ c.phase # "headers"
        BY <3>2, <3>3, <3>4, <3>6, Deadlines DEF Sound, Connections
      <3>8. Sound(d)  BY <3>2, <3>5, <3>6, <3>7 DEF Sound, ActiveUpload
      <3> QED  BY <3>1, <3>5, <3>8
    <2>3. listener' \in [state : {"listening", "fault"}, wait : 0 .. Restart]
      <3>1. Restart \in Nat  BY HttpAssumption DEF HttpAssumption
      <3>2. listener.wait \in 0 .. Restart  BY DEF HttpInv
      <3>3. Less(listener.wait) \in 0 .. Restart  BY <2>1, <3>1, <3>2
      <3> QED  BY <1>3, <3>3 DEF Tick, HttpInv
    <2> QED  BY <1>3, <2>2, <2>3 DEF Tick, HttpInv
  <1>4. CASE UNCHANGED vars  BY <1>4 DEF vars, HttpInv
  <1> QED  BY <1>1, <1>2, <1>3, <1>4 DEF Next

THEOREM ConnectionsSound == Spec => []HttpInv
  BY HttpInit, HttpStep, PTL DEF Spec

\* Files the web server has opened at the updater belong to uploads for which the main loop
\* keeps watering paused, however they end.
THEOREM SinksAlwaysHeld == Spec => []SinksHeld
  <1>1. HttpInv => SinksHeld  BY DEF HttpInv, Sound, SinksHeld
  <1> QED  BY <1>1, ConnectionsSound, PTL

\* No peer is answered twice, nor its request handled twice.
THEOREM AnsweredOnce == Spec => []OneAnswer
  <1>1. HttpInv => OneAnswer  BY DEF HttpInv, Sound, OneAnswer
  <1> QED  BY <1>1, ConnectionsSound, PTL

\* Every variable keeps its type.
THEOREM HttpTypes == Spec => []TypeOK
  <1>1. HttpInv => TypeOK  BY DEF HttpInv, TypeOK, Connections
  <1> QED  BY <1>1, ConnectionsSound, PTL
=============================================================================
