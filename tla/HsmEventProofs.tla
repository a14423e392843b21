---------------------------- MODULE HsmEventProofs ----------------------------
(***************************************************************************)
(* The events of a machine and the loop _process, for every chart, any     *)
(* callbacks that raise and any calls of stop() and restart(): no event is *)
(* lost or looked at twice; what is awaited, what is held back and what is *)
(* left when the loop ends.                                                *)
(***************************************************************************)
EXTENDS HsmRuntimeProofs

(***************************************************************************)
(* Sequences with an event more or less                                    *)
(***************************************************************************)
LEMMA AppendWhere ==
    ASSUME NEW s \in Seq(Event), NEW e \in Event, NEW i
    PROVE  /\ e.id # i /\ Never(s, i) => Never(Append(s, e), i)
           /\ e.id # i /\ Once(s, i)  => Once(Append(s, e), i)
           /\ e.id = i /\ Never(s, i) => Once(Append(s, e), i)
<1> DEFINE r == Append(s, e)
<1>1. /\ Len(s) \in Nat /\ DOMAIN s = 1 .. Len(s) /\ DOMAIN r = 1 .. Len(s) + 1
      /\ r[Len(s) + 1] = e
      /\ \A k \in 1 .. Len(s) : r[k] = s[k]
      BY AppendProperties, LenProperties
<1> HIDE DEF r
<1>2. e.id # i /\ Never(s, i) => Never(r, i)
      BY <1>1 DEF Never
<1>3. ASSUME e.id # i, Once(s, i) PROVE Once(r, i)
  <2>1. PICK k \in 1 .. Len(s) : s[k].id = i /\ \A l \in 1 .. Len(s) : s[l].id = i => l = k
        BY <1>1, <1>3 DEF Once
  <2>2. QED BY <1>1, <1>3, <2>1 DEF Once
<1>4. ASSUME e.id = i, Never(s, i) PROVE Once(r, i)
      BY <1>1, <1>4 DEF Never, Once
<1>5. QED BY <1>2, <1>3, <1>4 DEF r

LEMMA ConsWhere ==
    ASSUME NEW s \in Seq(Event), NEW e \in Event, NEW i
    PROVE  /\ e.id # i /\ Never(s, i) => Never(<<e>> \o s, i)
           /\ e.id # i /\ Once(s, i)  => Once(<<e>> \o s, i)
           /\ e.id = i /\ Never(s, i) => Once(<<e>> \o s, i)
<1> DEFINE r == <<e>> \o s
<1>1. /\ Len(s) \in Nat /\ DOMAIN s = 1 .. Len(s) /\ DOMAIN r = 1 .. Len(s) + 1
      /\ r[1] = e
      /\ \A k \in 1 .. Len(s) : r[k + 1] = s[k]
      BY SMT
<1> HIDE DEF r
<1>2. \A k \in 2 .. Len(s) + 1 : k - 1 \in 1 .. Len(s) /\ r[k] = s[k - 1]
      BY <1>1
<1>3. e.id # i /\ Never(s, i) => Never(r, i)
      BY <1>1, <1>2 DEF Never
<1>4. ASSUME e.id # i, Once(s, i) PROVE Once(r, i)
  <2>1. PICK k \in 1 .. Len(s) : s[k].id = i /\ \A l \in 1 .. Len(s) : s[l].id = i => l = k
        BY <1>1, <1>4 DEF Once
  <2>2. k + 1 \in DOMAIN r /\ r[k + 1].id = i
        BY <1>1, <2>1
  <2>3. ASSUME NEW l \in DOMAIN r, r[l].id = i PROVE l = k + 1
    <3>1. l # 1 /\ l \in 2 .. Len(s) + 1
          BY <1>1, <1>4, <2>3
    <3>2. QED BY <1>2, <2>1, <2>3, <3>1
  <2>4. QED BY <2>2, <2>3 DEF Once
<1>5. ASSUME e.id = i, Never(s, i) PROVE Once(r, i)
  <2>1. 1 \in DOMAIN r /\ r[1].id = i
        BY <1>1, <1>5
  <2>2. \A l \in DOMAIN r : r[l].id = i => l = 1
        BY <1>1, <1>2, <1>5 DEF Never
  <2>3. QED BY <2>1, <2>2 DEF Once
<1>6. QED BY <1>3, <1>4, <1>5 DEF r

LEMMA TailWhere ==
    ASSUME NEW s \in Seq(Event), s # << >>, NEW i
    PROVE  /\ Never(s, i) => Never(Tail(s), i)
           /\ Head(s).id # i /\ Once(s, i) => Once(Tail(s), i)
           /\ Head(s).id = i => ~Never(s, i) /\ (Once(s, i) => Never(Tail(s), i))
<1> DEFINE r == Tail(s)
<1>1. /\ Len(s) \in Nat \ {0} /\ DOMAIN s = 1 .. Len(s) /\ DOMAIN r = 1 .. Len(s) - 1
      /\ s[1] = Head(s)
      /\ \A k \in 1 .. Len(s) - 1 : r[k] = s[k + 1]
      BY HeadTailProperties, LenProperties, EmptySeq
<1> HIDE DEF r
<1>2. Never(s, i) => Never(r, i)
      BY <1>1 DEF Never
<1>3. ASSUME Head(s).id # i, Once(s, i) PROVE Once(r, i)
  <2>1. PICK k \in 1 .. Len(s) : s[k].id = i /\ \A l \in 1 .. Len(s) : s[l].id = i => l = k
        BY <1>1, <1>3 DEF Once
  <2>2. k # 1 /\ k - 1 \in DOMAIN r /\ r[k - 1].id = i
        BY <1>1, <1>3, <2>1
  <2>3. ASSUME NEW l \in DOMAIN r, r[l].id = i PROVE l = k - 1
    <3>1. l + 1 \in 1 .. Len(s) /\ s[l + 1].id = i
          BY <1>1, <2>3
    <3>2. l + 1 = k
          BY <2>1, <3>1
    <3>3. QED BY <1>1, <3>2
  <2>4. QED BY <2>2, <2>3 DEF Once
<1>4. ASSUME Head(s).id = i PROVE ~Never(s, i) /\ (Once(s, i) => Never(r, i))
  <2>1. 1 \in DOMAIN s /\ s[1].id = i
        BY <1>1, <1>4
  <2>2. ~Never(s, i)
        BY <2>1 DEF Never
  <2>3. ASSUME Once(s, i), NEW k \in DOMAIN r PROVE r[k].id # i
    <3>1. k + 1 \in DOMAIN s /\ k + 1 # 1 /\ r[k] = s[k + 1]
          BY <1>1
    <3>2. QED BY <2>1, <2>3, <3>1 DEF Once
  <2>4. QED BY <2>2, <2>3 DEF Never
<1>5. QED BY <1>2, <1>3, <1>4 DEF r

\* The same for the local list of deferred events.
LEMMA HoldWhere ==
    ASSUME NEW d \in Seq(Held), NEW h \in Held, NEW i
    PROVE  /\ h.event.id # i /\ HeldNever(d, i) => HeldNever(Append(d, h), i)
           /\ h.event.id # i /\ HeldOnce(d, i)  => HeldOnce(Append(d, h), i)
           /\ h.event.id = i /\ HeldNever(d, i) => HeldOnce(Append(d, h), i)
<1> DEFINE r == Append(d, h)
<1>1. /\ Len(d) \in Nat /\ DOMAIN d = 1 .. Len(d) /\ DOMAIN r = 1 .. Len(d) + 1
      /\ r[Len(d) + 1] = h
      /\ \A k \in 1 .. Len(d) : r[k] = d[k]
      BY AppendProperties, LenProperties
<1> HIDE DEF r
<1>2. h.event.id # i /\ HeldNever(d, i) => HeldNever(r, i)
      BY <1>1 DEF HeldNever
<1>3. ASSUME h.event.id # i, HeldOnce(d, i) PROVE HeldOnce(r, i)
  <2>1. PICK k \in 1 .. Len(d) :
            d[k].event.id = i /\ \A l \in 1 .. Len(d) : d[l].event.id = i => l = k
        BY <1>1, <1>3 DEF HeldOnce
  <2>2. QED BY <1>1, <1>3, <2>1 DEF HeldOnce
<1>4. ASSUME h.event.id = i, HeldNever(d, i) PROVE HeldOnce(r, i)
      BY <1>1, <1>4 DEF HeldNever, HeldOnce
<1>5. QED BY <1>2, <1>3, <1>4 DEF r

LEMMA UnholdWhere ==
    ASSUME NEW d \in Seq(Held), d # << >>, NEW i
    PROVE  /\ HeldNever(d, i) => HeldNever(Tail(d), i)
           /\ Head(d).event.id # i /\ HeldOnce(d, i) => HeldOnce(Tail(d), i)
           /\ Head(d).event.id = i =>
                  ~HeldNever(d, i) /\ (HeldOnce(d, i) => HeldNever(Tail(d), i))
<1> DEFINE r == Tail(d)
<1>1. /\ Len(d) \in Nat \ {0} /\ DOMAIN d = 1 .. Len(d) /\ DOMAIN r = 1 .. Len(d) - 1
      /\ d[1] = Head(d)
      /\ \A k \in 1 .. Len(d) - 1 : r[k] = d[k + 1]
      BY HeadTailProperties, LenProperties, EmptySeq
<1> HIDE DEF r
<1>2. HeldNever(d, i) => HeldNever(r, i)
      BY <1>1 DEF HeldNever
<1>3. ASSUME Head(d).event.id # i, HeldOnce(d, i) PROVE HeldOnce(r, i)
  <2>1. PICK k \in 1 .. Len(d) :
            d[k].event.id = i /\ \A l \in 1 .. Len(d) : d[l].event.id = i => l = k
        BY <1>1, <1>3 DEF HeldOnce
  <2>2. k # 1 /\ k - 1 \in DOMAIN r /\ r[k - 1].event.id = i
        BY <1>1, <1>3, <2>1
  <2>3. ASSUME NEW l \in DOMAIN r, r[l].event.id = i PROVE l = k - 1
    <3>1. l + 1 \in 1 .. Len(d) /\ d[l + 1].event.id = i
          BY <1>1, <2>3
    <3>2. l + 1 = k
          BY <2>1, <3>1
    <3>3. QED BY <1>1, <3>2
  <2>4. QED BY <2>2, <2>3 DEF HeldOnce
<1>4. ASSUME Head(d).event.id = i
      PROVE  ~HeldNever(d, i) /\ (HeldOnce(d, i) => HeldNever(r, i))
  <2>1. 1 \in DOMAIN d /\ d[1].event.id = i
        BY <1>1, <1>4
  <2>2. ~HeldNever(d, i)
        BY <2>1 DEF HeldNever
  <2>3. ASSUME HeldOnce(d, i), NEW k \in DOMAIN r PROVE r[k].event.id # i
    <3>1. k + 1 \in DOMAIN d /\ k + 1 # 1 /\ r[k] = d[k + 1]
          BY <1>1
    <3>2. QED BY <2>1, <2>3, <3>1 DEF HeldOnce
  <2>4. QED BY <2>2, <2>3 DEF HeldNever
<1>5. QED BY <1>2, <1>3, <1>4 DEF r

(***************************************************************************)
(* The queue and the lists                                                 *)
(***************************************************************************)
\* MultiQueue.push
LEMMA PushWhere ==
    ASSUME TypeOK, NEW e \in Event, Push(e), NEW i
    PROVE  /\ e.id # i => (NotInQueue(i) => NotInQueue(i)') /\ (InQueue(i) => InQueue(i)')
           /\ e.id = i /\ NotInQueue(i) => InQueue(i)'
<1>1. lifo \in Seq(Event) /\ fifo \in Seq(Event)
      BY DEF TypeOK
<1>2. CASE e.name \in CompletionName
  <2>1. lifo' = <<e>> \o lifo /\ fifo' = fifo
        BY <1>2 DEF Push
  <2>2. QED BY <1>1, <2>1, ConsWhere DEF NotInQueue, InQueue
<1>3. CASE e.name \notin CompletionName
  <2>1. fifo' = Append(fifo, e) /\ lifo' = lifo
        BY <1>3 DEF Push
  <2>2. QED BY <1>1, <2>1, AppendWhere DEF NotInQueue, InQueue
<1>4. QED BY <1>2, <1>3

\* MultiQueue.pop
LEMMA PopWhere ==
    ASSUME TypeOK, ~QueueEmpty, PopQueue, NEW i
    PROVE  /\ NextEvent.id # i =>
                  (NotInQueue(i) => NotInQueue(i)') /\ (InQueue(i) => InQueue(i)')
           /\ NextEvent.id = i => ~NotInQueue(i) /\ (InQueue(i) => NotInQueue(i)')
<1>1. lifo \in Seq(Event) /\ fifo \in Seq(Event)
      BY DEF TypeOK
<1>2. CASE lifo # << >>
  <2>1. lifo' = Tail(lifo) /\ fifo' = fifo /\ NextEvent = Head(lifo)
        BY <1>2 DEF PopQueue, NextEvent
  <2>2. QED BY <1>1, <1>2, <2>1, TailWhere DEF NotInQueue, InQueue
<1>3. CASE lifo = << >>
  <2>1. fifo' = Tail(fifo) /\ lifo' = lifo /\ NextEvent = Head(fifo) /\ fifo # << >>
        BY <1>3 DEF PopQueue, NextEvent, QueueEmpty
  <2>2. QED BY <1>1, <2>1, TailWhere DEF NotInQueue, InQueue
<1>4. QED BY <1>2, <1>3

\* Nothing is in hand between two events.
LEMMA EmptyHand ==
    ASSUME EventsInv, stage \notin {"select", "branch", "run"} \/ holder \notin {Startup, Process}
    PROVE  cur.id = 0
BY DEF EventsInv, HandInUse

(***************************************************************************)
(* The steps                                                               *)
(***************************************************************************)
\* A step that moves no event.
LEMMA EventsStay ==
    ASSUME EventsInv, UNCHANGED <<lifo, fifo, deferred, cur, outcome, nextId>>,
           \/ cur.id = 0
           \/ holder' = holder /\ (stage' = stage \/ stage' \in {"select", "branch", "run"})
    PROVE  EventsInv'
<1>1. EventsConserved'
      BY DEF EventsInv, EventsConserved, Placed, Fresh, InQueue, NotInQueue
<1>2. HandInUse'
      BY DEF EventsInv, HandInUse
<1>3. QED BY <1>1, <1>2 DEF EventsInv

\* dispatch
LEMMA DispatchKeeps ==
    ASSUME TypeOK, EventsInv, NEW n \in EventName, Accept(n), UNCHANGED <<cur, deferred>>
    PROVE  EventsInv'
<1> DEFINE e == [id |-> nextId, name |-> n]
<1>1. /\ nextId \in EventId /\ nextId \in Nat /\ nextId' = nextId + 1 /\ outcome' = outcome
      /\ Push(e) /\ e.id = nextId
      /\ holder = Free \/ UNCHANGED <<holder, stage>>
      BY DEF Accept, EventId
<1>2. e \in Event
      BY <1>1 DEF Event
<1> HIDE DEF e
<1>3. ASSUME NEW i \in EventId PROVE (Placed(i) \/ Fresh(i))'
  <2>1. i \in Nat /\ (Placed(i) \/ Fresh(i))
        BY DEF EventsInv, EventsConserved, EventId
  <2>2. CASE i = nextId
    <3>1. Fresh(i)
          BY <1>1, <2>1, <2>2 DEF Placed
    <3>2. InQueue(i)'
          BY <1>1, <1>2, <2>2, <3>1, PushWhere DEF Fresh
    <3>3. i < nextId'
          BY <1>1, <2>2
    <3>4. QED BY <1>1, <3>1, <3>2, <3>3 DEF Fresh, Placed
  <2>3. CASE i # nextId
    <3>1. (NotInQueue(i) => NotInQueue(i)') /\ (InQueue(i) => InQueue(i)')
          BY <1>1, <1>2, <2>3, PushWhere
    <3>2. (i < nextId => i < nextId') /\ (nextId <= i => nextId' <= i)
          BY <1>1, <2>1, <2>3
    <3>3. QED BY <1>1, <2>1, <3>1, <3>2 DEF Fresh, Placed
  <2>4. QED BY <2>2, <2>3
<1>4. HandInUse'
  <2>1. holder = Free => cur.id = 0
        BY EmptyHand, HolderAssumption
  <2>2. QED BY <1>1, <2>1 DEF EventsInv, HandInUse
<1>5. QED BY <1>3, <1>4 DEF EventsInv, EventsConserved

LEMMA LoopKeeps ==
    ASSUME TypeOK, MutexInv, EventsInv, ProcessStep PROVE EventsInv'
<1> USE DEF machineVars, queueVars, runVars, workVars, eventVars, stateVars, restVars,
            taskVars, lifeVars, ghostVars, GoTo
<1>1. \A i \in EventId : i \in Nat /\ i # 0 /\ (Placed(i) \/ Fresh(i))
      BY DEF EventsInv, EventsConserved, EventId
<1>2. CASE PopDeferred
  <2> DEFINE h == [owner |-> DeferOwner(NextEvent), event |-> NextEvent]
  <2>1. /\ PopQueue /\ ~QueueEmpty /\ deferred' = Append(deferred, h)
        /\ stage = "pop" /\ UNCHANGED <<stage, holder, cur, outcome, nextId>>
        BY <1>2 DEF PopDeferred, Running
  <2>2. deferred \in Seq(Held) /\ h \in Held /\ h.event = NextEvent
    <3>1. NextEvent \in Event /\ DeferOwner(NextEvent) # None
          BY <1>2, <2>1, PopType DEF PopDeferred, DeferUnseen
    <3>2. NextEvent.name \in EventName
          BY <3>1 DEF Event
    <3>3. DeferOwner(NextEvent) \in Vertex
          BY <3>1, <3>2, VertexTableTypes DEF DeferOwner, TypeOK
    <3>4. QED BY <3>1, <3>3 DEF Held, TypeOK
  <2> HIDE DEF h
  <2>3. ASSUME NEW i \in EventId PROVE (Placed(i) \/ Fresh(i))'
        BY <1>1, <2>1, <2>2, PopWhere, HoldWhere DEF Placed, Fresh
  <2>4. HandInUse'
        BY <2>1 DEF EventsInv, HandInUse
  <2>5. QED BY <2>3, <2>4 DEF EventsInv, EventsConserved
<1>3. CASE PopEvent
  <2>1. /\ PopQueue /\ ~QueueEmpty /\ cur' = NextEvent /\ stage' = "select"
        /\ stage = "pop" /\ UNCHANGED <<holder, deferred, outcome, nextId>>
        BY <1>3 DEF PopEvent, Running
  <2>2. cur.id = 0
        BY <2>1, EmptyHand
  <2>3. ASSUME NEW i \in EventId PROVE (Placed(i) \/ Fresh(i))'
        BY <1>1, <2>1, <2>2, PopWhere DEF Placed, Fresh
  <2>4. HandInUse'
    <3>1. holder \notin Client /\ holder # Free
          BY <2>1, NotStopping, Busy
    <3>2. holder \in {Startup, Process}
          BY <3>1 DEF TypeOK
    <3>3. QED BY <2>1, <3>2 DEF HandInUse
  <2>5. QED BY <2>3, <2>4 DEF EventsInv, EventsConserved
<1>4. CASE TakeTransition \/ GuardFails \/ HandlerRuns
      BY <1>4, EventsStay
         DEF TakeTransition, GuardFails, HandlerRuns, NextCandidate, Follow
<1>5. ASSUME UNCHANGED <<lifo, fifo, deferred, nextId>>, cur' = NoEvent,
             NEW what, what # "none", outcome' = Settle({cur.id}, what)
      PROVE  EventsInv'
  <2>1. cur'.id = 0
        BY <1>5 DEF NoEvent
  <2>2. ASSUME NEW i \in EventId PROVE (Placed(i) \/ Fresh(i))'
    <3>1. outcome'[i] = IF i = cur.id THEN what ELSE outcome[i]
          BY <1>5 DEF Settle
    <3>2. QED BY <1>1, <1>5, <2>1, <3>1 DEF Placed, Fresh, InQueue, NotInQueue
  <2>3. QED BY <2>1, <2>2 DEF EventsInv, EventsConserved, HandInUse
<1>6. CASE NoTransition \/ NoResult
  <2>1. Unhandled
        BY <1>6 DEF NoTransition, NoResult
  <2>2. CASE DeferOwner(cur) = None
        BY <1>5, <2>1, <2>2 DEF Unhandled
  <2>3. CASE DeferOwner(cur) # None
    <3> DEFINE h == [owner |-> DeferOwner(cur), event |-> cur]
    <3>1. /\ UNCHANGED <<lifo, fifo, nextId, outcome>> /\ cur' = NoEvent
          /\ deferred' = Append(deferred, h)
          BY <2>1, <2>3 DEF Unhandled
    <3>2. deferred \in Seq(Held) /\ h \in Held /\ h.event = cur
      <4>1. cur \in Event /\ cur.name \in EventName
            BY DEF TypeOK, Event
      <4>2. DeferOwner(cur) \in Vertex
            BY <2>3, <4>1, VertexTableTypes DEF DeferOwner, TypeOK
      <4>3. QED BY <4>1, <4>2 DEF Held, TypeOK
    <3> HIDE DEF h
    <3>3. cur'.id = 0
          BY <3>1 DEF NoEvent
    <3>4. ASSUME NEW i \in EventId PROVE (Placed(i) \/ Fresh(i))'
          BY <1>1, <3>1, <3>2, <3>3, HoldWhere DEF Placed, Fresh, InQueue, NotInQueue
    <3>5. QED BY <3>3, <3>4 DEF EventsInv, EventsConserved, HandInUse
  <2>4. QED BY <2>2, <2>3
<1>7. CASE Arrive
      BY <1>5, <1>7 DEF Arrive
<1>8. CASE Replay \/ PutBack
  <2> DEFINE e == Head(deferred).event
  <2>1. /\ deferred # << >> /\ deferred' = Tail(deferred)
        /\ UNCHANGED <<stage, holder, cur, nextId>>
        /\ \/ Push(e) /\ outcome' = outcome
           \/ UNCHANGED <<lifo, fifo>> /\ outcome' = Settle({e.id}, "discarded")
        BY <1>8 DEF Replay, PutBack
  <2>2. deferred \in Seq(Held) /\ e \in Event
        BY <2>1, DeferredType DEF TypeOK
  <2> HIDE DEF e
  <2>3. ASSUME NEW i \in EventId PROVE (Placed(i) \/ Fresh(i))'
    <3>1. /\ HeldNever(deferred, i) => HeldNever(deferred', i)
          /\ e.id # i /\ HeldOnce(deferred, i) => HeldOnce(deferred', i)
          /\ e.id = i => ~HeldNever(deferred, i)
                            /\ (HeldOnce(deferred, i) => HeldNever(deferred', i))
          BY <2>1, <2>2, UnholdWhere DEF e
    <3>2. CASE Push(e) /\ outcome' = outcome
          BY <1>1, <2>1, <2>2, <3>1, <3>2, PushWhere DEF Placed, Fresh
    <3>3. CASE UNCHANGED <<lifo, fifo>> /\ outcome' = Settle({e.id}, "discarded")
      <4>1. outcome'[i] = IF i = e.id THEN "discarded" ELSE outcome[i]
            BY <3>3 DEF Settle
      <4>2. QED BY <1>1, <2>1, <3>1, <3>3, <4>1 DEF Placed, Fresh, InQueue, NotInQueue
    <3>4. QED BY <2>1, <3>2, <3>3
  <2>4. HandInUse'
        BY <2>1 DEF EventsInv, HandInUse
  <2>5. QED BY <2>3, <2>4 DEF EventsInv, EventsConserved
<1>9. CASE Replayed \/ Drain \/ Finish
  <2>1. cur.id = 0
        BY <1>9, EmptyHand DEF Replayed, Drain, Finish, Running
  <2>2. QED BY <1>9, <2>1, EventsStay DEF Replayed, Drain, Finish
<1>10. QED BY <1>2, <1>3, <1>4, <1>6, <1>7, <1>8, <1>9 DEF ProcessStep

LEMMA ExecutorKeeps ==
    ASSUME TypeOK, EventsInv, TransitionStep PROVE EventsInv'
<1> USE DEF machineVars, queueVars, runVars, workVars, eventVars, stateVars, restVars,
            taskVars, lifeVars, ghostVars, Continue
<1>1. CASE Effect \/ EnterState \/ EnterSimple \/ EnterInitial \/ EnterPseudo
           \/ EnterHistory \/ NoBranch \/ Spawn \/ Terminate \/ Resume \/ Leave
      BY <1>1, EventsStay DEF Effect, EnterState, EnterSimple, EnterInitial, EnterPseudo,
             EnterHistory, NoBranch, Spawn, Terminate, Resume, Leave, Follow
<1>2. CASE EnterFinal
  <2> DEFINE e == [id |-> 0, name |-> FinalEvent]
  <2>1. Push(e) /\ e.id = 0 /\ UNCHANGED <<stage, holder, deferred, cur, outcome, nextId>>
        BY <1>2 DEF EnterFinal
  <2>2. e \in Event
        BY TableNames DEF Event
  <2> HIDE DEF e
  <2>3. ASSUME NEW i \in EventId PROVE (Placed(i) \/ Fresh(i))'
    <3>1. i # e.id /\ (Placed(i) \/ Fresh(i))
          BY <2>1 DEF EventId, EventsInv, EventsConserved
    <3>2. (NotInQueue(i) => NotInQueue(i)') /\ (InQueue(i) => InQueue(i)')
          BY <2>1, <2>2, <3>1, PushWhere
    <3>3. QED BY <2>1, <3>1, <3>2 DEF Placed, Fresh
  <2>4. HandInUse'
        BY <2>1 DEF EventsInv, HandInUse
  <2>5. QED BY <2>3, <2>4 DEF EventsInv, EventsConserved
<1>3. CASE SpawnFails
      BY <1>3, DispatchKeeps, TableNames DEF SpawnFails
<1>4. QED BY <1>1, <1>2, <1>3 DEF TransitionStep

\* A callback raises: what is in hand has failed, what is held is lost.
LEMMA RaiseKeeps ==
    ASSUME TypeOK, EventsInv, Raise PROVE EventsInv'
<1>1. /\ UNCHANGED <<lifo, fifo, nextId>> /\ deferred' = << >> /\ cur'.id = 0
      BY DEF Raise, queueVars, NoEvent
<1>2. ASSUME NEW i \in EventId PROVE (Placed(i) \/ Fresh(i))'
  <2>1. outcome'[i] = IF i = cur.id THEN "failed" ELSE IF i \in HeldIds THEN "lost" ELSE outcome[i]
        BY DEF Raise
  <2>2. /\ HeldNever(deferred, i) => i \notin HeldIds
        /\ HeldOnce(deferred, i) => i \in HeldIds
        BY DEF HeldNever, HeldOnce, HeldIds
  <2>3. HeldNever(deferred', i)
        BY <1>1 DEF HeldNever
  <2>4. i # 0 /\ (Placed(i) \/ Fresh(i))
        BY DEF EventId, EventsInv, EventsConserved
  <2>5. QED BY <1>1, <2>1, <2>2, <2>3, <2>4 DEF Placed, Fresh, InQueue, NotInQueue
<1>3. QED BY <1>1, <1>2 DEF EventsInv, EventsConserved, HandInUse

\* _stop clears the queue when nothing is in hand.
LEMMA ClearKeeps ==
    ASSUME TypeOK, MutexInv, EventsInv, StopFinish PROVE EventsInv'
<1>1. /\ UNCHANGED <<cur, deferred, nextId>> /\ lifo' = << >> /\ fifo' = << >>
      /\ outcome' = Settle(IdsOf(lifo) \cup IdsOf(fifo), "cleared")
      BY DEF StopFinish, ClearQueue, eventVars
<1>2. holder \in Client
  <2>1. agenda # << >> /\ Head(agenda).op = "halt"
        BY DEF StopFinish, Doing
  <2>2. agenda \in Seq(WorkOp) => Head(agenda) \in WorkOp
        BY <2>1, HeadTailProperties
  <2>3. QED BY <2>1, <2>2 DEF MutexInv, HolderWork, WorkOp
<1>3. cur.id = 0
      BY <1>2, EmptyHand, HolderAssumption
<1>4. ASSUME NEW i \in EventId PROVE (Placed(i) \/ Fresh(i))'
  <2>1. outcome'[i] = IF i \in IdsOf(lifo) \cup IdsOf(fifo) THEN "cleared" ELSE outcome[i]
        BY <1>1 DEF Settle
  <2>2. /\ NotInQueue(i) => i \notin IdsOf(lifo) \cup IdsOf(fifo)
        /\ InQueue(i) => i \in IdsOf(lifo) \cup IdsOf(fifo)
        BY DEF NotInQueue, InQueue, Never, Once, IdsOf
  <2>3. NotInQueue(i)'
        BY <1>1 DEF NotInQueue, Never
  <2>4. Placed(i) \/ Fresh(i)
        BY DEF EventsInv, EventsConserved
  <2>5. QED BY <1>1, <2>1, <2>2, <2>3, <2>4 DEF Placed, Fresh
<1>5. QED BY <1>1, <1>3, <1>4 DEF EventsInv, EventsConserved, HandInUse

LEMMA CallsKeep ==
    ASSUME TypeOK, MutexInv, EventsInv,
           \/ ClientStep
           \/ \E t \in TaskId : TaskStep(t)
           \/ \E c \in Client : CallStep(c)
           \/ \E i \in EventId : WaitBegins(i)
    PROVE  EventsInv'
<1> USE DEF machineVars, queueVars, runVars, workVars, eventVars, stateVars, restVars,
            taskVars, lifeVars, ghostVars, TaskEnds, CallBecomes
<1>1. holder = Free => cur.id = 0
      BY EmptyHand, HolderAssumption
<1>2. ASSUME NEW c, NEW m, BeginStop(c, m) \/ StopWaits(c, m) PROVE EventsInv'
      BY <1>1, <1>2, EventsStay DEF BeginStop, StopWaits
<1>3. ASSUME BeginStartup PROVE EventsInv'
      BY <1>1, <1>3, EventsStay DEF BeginStartup, Startable
<1>4. ASSUME NEW t \in TaskId, TaskStep(t) PROVE EventsInv'
  <2>1. CASE TaskFinishes(t) \/ TaskCancelled(t)
        BY <2>1, EventsStay DEF TaskFinishes, TaskCancelled
  <2>2. CASE TaskFails(t)
        BY <2>2, DispatchKeeps, TableNames DEF TaskFails
  <2>3. ASSUME NEW n \in DispatchName, TaskCleanup(t, n) PROVE EventsInv'
        BY <2>3, DispatchKeeps, TableNames DEF TaskCleanup
  <2>4. QED BY <1>4, <2>1, <2>2, <2>3 DEF TaskStep
<1>5. ASSUME NEW c \in Client, CallStep(c) PROVE EventsInv'
  <2>1. CASE StopRetry(c)
        BY <1>2, <2>1 DEF StopRetry
  <2>2. CASE RestartStarts(c)
        BY <1>3, <2>2 DEF RestartStarts
  <2>3. CASE StopReturns(c) \/ RestartFails(c) \/ RestartAbandoned(c)
        BY <2>3, EventsStay DEF StopReturns, RestartFails, RestartAbandoned
  <2>4. QED BY <1>5, <2>1, <2>2, <2>3 DEF CallStep
<1>6. CASE ClientStep
  <2>1. CASE Start
        BY <1>3, <2>1 DEF Start
  <2>2. CASE ParentEnds
        BY <2>2, EventsStay DEF ParentEnds
  <2>3. ASSUME NEW n \in DispatchName, Dispatch(n) PROVE EventsInv'
        BY <2>3, DispatchKeeps, TableNames DEF Dispatch
  <2>4. ASSUME NEW c \in Client, NEW m \in CallMode, StopCall(c, m) PROVE EventsInv'
        BY <1>2, <2>4 DEF StopCall
  <2>5. QED BY <1>6, <2>1, <2>2, <2>3, <2>4 DEF ClientStep
<1>7. ASSUME NEW i \in EventId, WaitBegins(i) PROVE EventsInv'
      BY <1>7, EventsStay DEF WaitBegins
<1>8. QED BY <1>4, <1>5, <1>6, <1>7

LEMMA EventsStart == Init => EventsInv
<1> SUFFICES ASSUME Init PROVE EventsInv
    OBVIOUS
<1>1. ASSUME NEW i \in EventId PROVE Fresh(i)
      BY DEF Init, EventId, Fresh, NotInQueue, Never, HeldNever, NoEvent
<1>2. QED BY <1>1 DEF Init, EventsInv, EventsConserved, HandInUse, NoEvent

(***************************************************************************)
(* The theorems                                                            *)
(***************************************************************************)
\* The inductive invariant of the events holds.
THEOREM EventsInvariant == Spec => []EventsInv
<1>1. Init => EventsInv
      BY EventsStart
<1>2. TypeOK /\ MutexInv /\ EventsInv /\ [Next]_vars => EventsInv'
  <2>1. ASSUME EventsInv, UNCHANGED vars PROVE EventsInv'
        BY <2>1, EventsStay DEF vars, machineVars, queueVars, runVars, eventVars, ghostVars
  <2>2. QED BY <2>1, LoopKeeps, ExecutorKeeps, RaiseKeeps, ClearKeeps, CallsKeep
            DEF Next, HolderStep
<1>3. QED BY <1>1, <1>2, TypeCorrect, MutexInvariant, PTL DEF Spec

(***************************************************************************)
(* dispatch, _process, MultiQueue, _stop: no dispatched event disappears   *)
(* and none is looked at twice.                                            *)
(***************************************************************************)
THEOREM NoEventDisappears == Spec => []EventsConserved
<1>1. EventsInv => EventsConserved
      BY DEF EventsInv
<1>2. QED BY <1>1, EventsInvariant, PTL

(***************************************************************************)
(* _terminate: the holder awaits the one task it cancelled, in the middle  *)
(* of a transition or of a stop().                                         *)
(***************************************************************************)
AwaitInv == OnlyAwaitedCancelled /\ (waitOn # None => stage = "run")

Cancelled(t) == task[t].status \in {"cancelling", "cleanwait"}

\* A step that cancels nothing, of others or of a holder that awaits nothing.
LEMMA AwaitStays ==
    ASSUME AwaitInv, UNCHANGED waitOn, stage' = stage \/ waitOn = None,
           \A t \in TaskId : Cancelled(t)' => Cancelled(t)
    PROVE  AwaitInv'
BY DEF AwaitInv, OnlyAwaitedCancelled, Cancelled

\* When the mutex is free nothing is awaited.
LEMMA NothingAwaited == MutexInv /\ holder = Free => waitOn = None
BY DEF MutexInv, NoLostWakeup

LEMMA AwaitLoop ==
    ASSUME AwaitInv, ProcessStep \/ StopFinish \/ Raise PROVE AwaitInv'
<1> USE DEF machineVars, queueVars, runVars, workVars, eventVars, stateVars, restVars,
            taskVars, GoTo
<1>1. waitOn = None
      BY DEF AwaitInv, ProcessStep, PopDeferred, PopEvent, TakeTransition, GuardFails, InGuard,
             HandlerRuns, HandlerNext, NoTransition, NoResult, Arrive, Replay, Replayed,
             Drain, PutBack, Finish, StopFinish, Raise, InHandler, InBehaviour,
             ExitUnhandled, Doing, Running
<1>2. UNCHANGED task
      BY DEF ProcessStep, PopDeferred, PopEvent, TakeTransition, GuardFails, HandlerRuns,
             NextCandidate, NoTransition, NoResult, Unhandled, Arrive, Replay, Replayed,
             Drain, PutBack, Finish, StopFinish, Raise
<1>3. waitOn' = None
      BY <1>1 DEF ProcessStep, PopDeferred, PopEvent, TakeTransition, GuardFails,
             HandlerRuns, NextCandidate, NoTransition, NoResult, Unhandled, Arrive, Replay,
             Replayed, Drain, PutBack, Finish, Release, StopFinish, Raise
<1>4. QED BY <1>1, <1>2, <1>3, AwaitStays DEF Cancelled

LEMMA AwaitExecutor ==
    ASSUME TypeOK, MutexInv, AwaitInv, TransitionStep PROVE AwaitInv'
<1> USE DEF queueVars, workVars, eventVars, stateVars, restVars, taskVars, Continue
<1>1. CASE Effect \/ EnterState \/ EnterFinal \/ EnterSimple \/ EnterInitial \/ EnterPseudo
           \/ EnterHistory \/ NoBranch \/ Leave
  <2>1. UNCHANGED <<task, waitOn>> /\ (stage' = stage \/ waitOn = None)
        BY <1>1 DEF Effect, EnterState, EnterFinal, EnterSimple, EnterInitial, EnterPseudo,
               EnterHistory, NoBranch, Leave, Doing, Running, AwaitInv
  <2>2. QED BY <2>1, AwaitStays DEF Cancelled
<1>2. CASE Spawn \/ SpawnFails
  <2>1. PICK status \in {"done", "live", "orphan"} : File(status)
        BY <1>2 DEF Spawn, SpawnFails
  <2>2. UNCHANGED waitOn /\ waitOn = None
        BY <1>2 DEF Spawn, SpawnFails, File, Doing, Running
  <2>3. ASSUME NEW t \in TaskId PROVE Cancelled(t)' => Cancelled(t)
        BY <2>1 DEF File, Cancelled, TypeOK
  <2>4. QED BY <2>2, <2>3, AwaitStays
<1>3. CASE Terminate
  <2>1. PICK i \in DOMAIN Activities(Vtx) :
            LET a == Activities(Vtx)[i]
            IN  /\ active[a] # None
                /\ IF task[active[a]].status = "done" THEN UNCHANGED <<task, waitOn>>
                                                      ELSE Cancel(active[a])
        BY <1>3 DEF Terminate
  <2>2. waitOn = None /\ stage = "run" /\ stage' = stage
        BY <1>3 DEF Terminate, Doing, Running
  <2>3. CASE UNCHANGED <<task, waitOn>>
        BY <2>2, <2>3, AwaitStays DEF Cancelled
  <2>4. ASSUME NEW t, Cancel(t) PROVE AwaitInv'
    <3>1. \A u \in TaskId : ~Cancelled(u)
          BY <2>2, HolderAssumption DEF AwaitInv, OnlyAwaitedCancelled, Cancelled
    <3>2. \A u \in TaskId : Cancelled(u)' => u = t
          BY <2>4, <3>1 DEF Cancel, Cancelled, TypeOK
    <3>3. QED BY <2>2, <2>4, <3>2 DEF Cancel, Cancelled, AwaitInv, OnlyAwaitedCancelled
  <2>5. QED BY <2>1, <2>3, <2>4
<1>4. CASE Resume
  <2>1. waitOn' = None /\ task' = task /\ task[waitOn].status = "done"
        BY <1>4 DEF Resume
  <2>2. \A t \in TaskId : ~Cancelled(t)
        BY <2>1 DEF AwaitInv, OnlyAwaitedCancelled, Cancelled
  <2>3. QED BY <2>1, <2>2 DEF AwaitInv, OnlyAwaitedCancelled, Cancelled
<1>5. QED BY <1>1, <1>2, <1>3, <1>4 DEF TransitionStep

\* dispatch() takes the mutex only when it is free.
LEMMA AcceptAwaits ==
    ASSUME MutexInv, NEW n, Accept(n) PROVE stage' = stage \/ waitOn = None
BY NothingAwaited DEF Accept

LEMMA AwaitCalls ==
    ASSUME TypeOK, MutexInv, AwaitInv,
           \/ ClientStep
           \/ \E t \in TaskId : TaskStep(t)
           \/ \E c \in Client : CallStep(c)
           \/ \E i \in EventId : WaitBegins(i)
    PROVE  AwaitInv'
<1> USE DEF machineVars, queueVars, runVars, workVars, eventVars, stateVars, restVars,
            taskVars, TaskEnds, CallBecomes
<1>1. ASSUME NEW status, status \notin {"cancelling", "cleanwait"},
             task' = LiveBecome(status), NEW t \in TaskId
      PROVE  Cancelled(t)' => Cancelled(t)
      BY <1>1 DEF LiveBecome, Cancelled, TypeOK
<1>2. ASSUME NEW c, NEW m, BeginStop(c, m) \/ StopWaits(c, m) PROVE AwaitInv'
  <2>1. CASE BeginStop(c, m)
        BY <1>1, <2>1, AwaitStays, NothingAwaited DEF BeginStop
  <2>2. CASE StopWaits(c, m)
        BY <2>2, AwaitStays DEF StopWaits, Cancelled
  <2>3. QED BY <1>2, <2>1, <2>2
<1>3. ASSUME BeginStartup PROVE AwaitInv'
      BY <1>1, <1>3, AwaitStays, NothingAwaited DEF BeginStartup, Startable
<1>4. ASSUME NEW t \in TaskId, TaskStep(t) PROVE AwaitInv'
  <2>1. CASE TaskFinishes(t) \/ TaskCancelled(t)
        BY <2>1, AwaitStays DEF TaskFinishes, TaskCancelled, Cancelled, TypeOK
  <2>2. CASE TaskFails(t)
        BY <2>2, AwaitStays, AcceptAwaits DEF TaskFails, Cancelled, TypeOK
  <2>3. ASSUME NEW n \in DispatchName, TaskCleanup(t, n) PROVE AwaitInv'
        BY <2>3, AwaitStays, AcceptAwaits DEF TaskCleanup, Cancelled, TypeOK
  <2>4. QED BY <1>4, <2>1, <2>2, <2>3 DEF TaskStep
<1>5. ASSUME NEW c \in Client, CallStep(c) PROVE AwaitInv'
  <2>1. CASE StopRetry(c)
        BY <1>2, <2>1 DEF StopRetry
  <2>2. CASE RestartStarts(c)
        BY <1>3, <2>2 DEF RestartStarts
  <2>3. CASE StopReturns(c) \/ RestartFails(c)
        BY <2>3, AwaitStays DEF StopReturns, RestartFails, Cancelled
  <2>4. CASE RestartAbandoned(c)
        BY <2>4, AwaitStays DEF RestartAbandoned, Cancelled, TypeOK
  <2>5. QED BY <1>5, <2>1, <2>2, <2>3, <2>4 DEF CallStep
<1>6. CASE ClientStep
  <2>1. CASE Start
        BY <1>3, <2>1 DEF Start
  <2>2. CASE ParentEnds
        BY <1>1, <2>2, AwaitStays DEF ParentEnds
  <2>3. ASSUME NEW n \in DispatchName, Dispatch(n) PROVE AwaitInv'
        BY <2>3, AwaitStays, AcceptAwaits DEF Dispatch, Cancelled
  <2>4. ASSUME NEW c \in Client, NEW m \in CallMode, StopCall(c, m) PROVE AwaitInv'
        BY <1>2, <2>4 DEF StopCall
  <2>5. QED BY <1>6, <2>1, <2>2, <2>3, <2>4 DEF ClientStep
<1>7. ASSUME NEW i \in EventId, WaitBegins(i) PROVE AwaitInv'
      BY <1>7, AwaitStays DEF WaitBegins, Cancelled
<1>8. QED BY <1>4, <1>5, <1>6, <1>7

THEOREM AwaitInvariant == Spec => []AwaitInv
<1>1. Init => AwaitInv
      BY DEF Init, AwaitInv, OnlyAwaitedCancelled
<1>2. TypeOK /\ MutexInv /\ AwaitInv /\ [Next]_vars => AwaitInv'
  <2>1. ASSUME AwaitInv, UNCHANGED vars PROVE AwaitInv'
        BY <2>1, AwaitStays DEF vars, machineVars, runVars, workVars, taskVars, Cancelled
  <2>2. QED BY <2>1, AwaitLoop, AwaitExecutor, AwaitCalls DEF Next, HolderStep
<1>3. QED BY <1>1, <1>2, TypeCorrect, MutexInvariant, PTL DEF Spec

(***************************************************************************)
(* _terminate: at any time at most one activity is being cancelled, and it *)
(* is the one the holder of the mutex awaits.                              *)
(***************************************************************************)
THEOREM CancelledIsAwaited == Spec => []OnlyAwaitedCancelled
BY AwaitInvariant, PTL DEF AwaitInv

(***************************************************************************)
(* _process: the local list belongs to the frame of the loop, and is empty *)
(* when there is none.                                                     *)
(***************************************************************************)
HeldInv ==
    /\ HeldByCurrentState
    /\ holder \notin {Startup, Process} => deferred = << >>

AtWork == {"pop", "select", "run", "branch", "drain"}

\* A step of a holder, or of nobody, that leaves the state and the list.
LEMMA HeldStays ==
    ASSUME HeldInv, UNCHANGED <<state, deferred>>,
           \/ deferred = << >>
           \/ UNCHANGED holder /\ (stage \in AtWork \/ UNCHANGED stage)
    PROVE  HeldInv'
BY DEF HeldInv, HeldByCurrentState, AtWork

LEMMA HeldEmpties == deferred' = << >> => HeldInv'
BY DEF HeldInv, HeldByCurrentState

\* An event is deferred for the state that defers it now.
LEMMA HeldGrows ==
    ASSUME TypeOK, HeldInv, NEW e \in Event, DeferOwner(e) # None,
           deferred' = Append(deferred, [owner |-> DeferOwner(e), event |-> e]),
           UNCHANGED <<holder, state>>, holder \in {Startup, Process},
           stage \in {"pop", "select", "run"}
    PROVE  HeldInv'
<1> DEFINE h == [owner |-> DeferOwner(e), event |-> e]
<1>1. h \in Held
  <2>1. e.name \in EventName
        BY DEF Event
  <2>2. DeferOwner(e) \in Vertex
        BY <2>1, VertexTableTypes DEF DeferOwner, TypeOK
  <2>3. QED BY <2>2 DEF Held
<1>2. DeferredMap(state, h.event.name) = h.owner
      BY DEF DeferOwner
<1> HIDE DEF h
<1>3. deferred \in Seq(Held) /\ deferred' = Append(deferred, h)
      BY DEF TypeOK, h
<1>4. /\ DOMAIN deferred = 1 .. Len(deferred) /\ DOMAIN deferred' = 1 .. Len(deferred) + 1
      /\ deferred'[Len(deferred) + 1] = h
      /\ \A i \in 1 .. Len(deferred) : deferred'[i] = deferred[i]
      /\ Len(deferred) \in Nat
      BY <1>1, <1>3, AppendProperties, LenProperties
<1>5. \A i \in DOMAIN deferred : DeferredMap(state, deferred[i].event.name) = deferred[i].owner
      BY DEF HeldInv, HeldByCurrentState
<1>6. ASSUME NEW i \in DOMAIN deferred'
      PROVE  DeferredMap(state', deferred'[i].event.name) = deferred'[i].owner
  <2>1. CASE i = Len(deferred) + 1
        BY <1>2, <1>4, <2>1
  <2>2. CASE i # Len(deferred) + 1
        BY <1>4, <1>5, <2>2
  <2>3. QED BY <2>1, <2>2
<1>7. QED BY <1>6 DEF HeldInv, HeldByCurrentState

LEMMA HeldShrinks ==
    ASSUME TypeOK, HeldInv, deferred # << >>, deferred' = Tail(deferred),
           UNCHANGED <<holder, stage>>, UNCHANGED state
    PROVE  HeldInv'
<1>1. deferred \in Seq(Held)
      BY DEF TypeOK
<1>2. /\ Len(deferred) \in Nat \ {0} /\ DOMAIN deferred = 1 .. Len(deferred)
      /\ DOMAIN deferred' = 1 .. Len(deferred) - 1
      /\ \A i \in 1 .. Len(deferred) - 1 : deferred'[i] = deferred[i + 1]
      BY <1>1, HeadTailProperties, LenProperties, EmptySeq
<1>3. \A i \in DOMAIN deferred' : i + 1 \in DOMAIN deferred /\ deferred'[i] = deferred[i + 1]
      BY <1>2
<1>4. QED BY <1>3 DEF HeldInv, HeldByCurrentState

\* The loop is run by _start or by a dispatch(), not by a stop().
LEMMA LoopHolder ==
    ASSUME TypeOK, MutexInv, ProcessStep PROVE holder \in {Startup, Process}
<1>1. /\ stage # "idle"
      /\ \/ stage # "run"
         \/ agenda # << >> /\ Head(agenda).op \notin {"exit", "halt"}
      BY DEF ProcessStep, PopDeferred, PopEvent, TakeTransition, GuardFails, InGuard,
             HandlerRuns, HandlerNext, NoTransition, NoResult, Arrive, Replay, Replayed,
             Drain, PutBack, Finish, Doing, Running
<1>2. holder \notin Client /\ holder # Free
      BY <1>1, NotStopping, Busy
<1>3. QED BY <1>2 DEF TypeOK

LEMMA HeldLoop ==
    ASSUME TypeOK, MutexInv, HeldInv, ProcessStep PROVE HeldInv'
<1> USE DEF queueVars, runVars, workVars, eventVars, stateVars, restVars, GoTo
<1>1. holder \in {Startup, Process}
      BY LoopHolder
<1>2. CASE PopDeferred
  <2>1. NextEvent \in Event
        BY <1>2, PopType DEF PopDeferred
  <2>2. QED BY <1>1, <1>2, <2>1, HeldGrows DEF PopDeferred, DeferUnseen, Running
<1>3. CASE PopEvent \/ TakeTransition \/ GuardFails \/ HandlerRuns \/ Drain
      BY <1>3, HeldStays DEF PopEvent, TakeTransition, GuardFails, InGuard, HandlerRuns,
             HandlerNext, NextCandidate, Drain, Running, AtWork
<1>4. CASE NoTransition \/ NoResult
  <2>1. Unhandled /\ stage \in {"select", "run"} /\ cur \in Event
        BY <1>4 DEF NoTransition, NoResult, Doing, Running, TypeOK
  <2>2. CASE DeferOwner(cur) # None
        BY <1>1, <2>1, <2>2, HeldGrows DEF Unhandled
  <2>3. CASE DeferOwner(cur) = None
        BY <2>1, <2>3, HeldStays DEF Unhandled, AtWork
  <2>4. QED BY <2>2, <2>3
<1>5. CASE Arrive
      BY <1>1, <1>5 DEF Arrive, HeldInv, HeldByCurrentState
<1>6. CASE Replay \/ PutBack
      BY <1>6, HeldShrinks DEF Replay, PutBack, Running
<1>7. CASE Replayed \/ Finish
      BY <1>7, HeldEmpties DEF Replayed, Finish
<1>8. QED BY <1>2, <1>3, <1>4, <1>5, <1>6, <1>7 DEF ProcessStep

LEMMA HeldOthers ==
    ASSUME MutexInv, HeldInv,
           \/ TransitionStep \/ StopFinish \/ Raise \/ ClientStep
           \/ \E t \in TaskId : TaskStep(t)
           \/ \E c \in Client : CallStep(c)
           \/ \E i \in EventId : WaitBegins(i)
    PROVE  HeldInv'
<1> USE DEF machineVars, queueVars, runVars, workVars, eventVars, stateVars, restVars,
            Continue, TaskEnds, CallBecomes
<1>1. CASE TransitionStep
  <2>1. UNCHANGED <<state, deferred, holder>>
        BY <1>1 DEF TransitionStep, Effect, EnterState, EnterFinal, EnterSimple, EnterInitial,
               EnterPseudo, EnterHistory, NoBranch, Spawn, SpawnFails, File, Terminate,
               Resume, Leave, Accept, Doing, Running, MutexInv, NoLostWakeup
  <2>2. stage \in {"run", "branch"} \/ UNCHANGED stage
        BY <1>1 DEF TransitionStep, Effect, EnterState, EnterFinal, EnterSimple, EnterInitial,
               EnterPseudo, EnterHistory, NoBranch, Spawn, SpawnFails, File, Terminate,
               Resume, Leave, Doing, Running
  <2>3. QED BY <2>1, <2>2, HeldStays DEF AtWork
<1>2. CASE StopFinish
  <2>1. holder \in Client
    <3>1. agenda # << >> /\ Head(agenda).op = "halt"
          BY <1>2 DEF StopFinish, Doing
    <3>2. agenda \in Seq(WorkOp) => Head(agenda) \in WorkOp
          BY <3>1, HeadTailProperties
    <3>3. QED BY <3>1, <3>2 DEF MutexInv, HolderWork, WorkOp
  <2>2. deferred = << >>
        BY <2>1, HolderAssumption DEF HeldInv
  <2>3. QED BY <1>2, <2>2, HeldEmpties DEF StopFinish
<1>3. CASE Raise
      BY <1>3, HeldEmpties DEF Raise
<1>4. holder = Free => deferred = << >>
      BY HolderAssumption DEF HeldInv
<1>5. ASSUME NEW n, Accept(n), UNCHANGED <<state, deferred>> PROVE HeldInv'
      BY <1>4, <1>5, HeldStays DEF Accept
<1>6. ASSUME NEW c, NEW m, BeginStop(c, m) \/ StopWaits(c, m) PROVE HeldInv'
      BY <1>4, <1>6, HeldStays DEF BeginStop, StopWaits
<1>7. ASSUME BeginStartup PROVE HeldInv'
      BY <1>4, <1>7, HeldStays DEF BeginStartup, Startable
<1>8. ASSUME NEW t \in TaskId, TaskStep(t) PROVE HeldInv'
  <2>1. CASE TaskFinishes(t) \/ TaskCancelled(t)
        BY <2>1, HeldStays DEF TaskFinishes, TaskCancelled
  <2>2. CASE TaskFails(t) \/ \E n \in DispatchName : TaskCleanup(t, n)
        BY <1>5, <2>2 DEF TaskFails, TaskCleanup
  <2>3. QED BY <1>8, <2>1, <2>2 DEF TaskStep
<1>9. ASSUME NEW c \in Client, CallStep(c) PROVE HeldInv'
  <2>1. CASE StopRetry(c) \/ RestartStarts(c)
        BY <1>6, <1>7, <2>1 DEF StopRetry, RestartStarts
  <2>2. CASE StopReturns(c) \/ RestartFails(c) \/ RestartAbandoned(c)
        BY <2>2, HeldStays DEF StopReturns, RestartFails, RestartAbandoned
  <2>3. QED BY <1>9, <2>1, <2>2 DEF CallStep
<1>10. CASE ClientStep
  <2>1. CASE Start
        BY <1>7, <2>1 DEF Start
  <2>2. CASE ParentEnds
        BY <2>2, HeldStays DEF ParentEnds
  <2>3. CASE \E n \in DispatchName : Dispatch(n)
        BY <1>5, <2>3 DEF Dispatch
  <2>4. CASE \E c \in Client, m \in CallMode : StopCall(c, m)
        BY <1>6, <2>4 DEF StopCall
  <2>5. QED BY <1>10, <2>1, <2>2, <2>3, <2>4 DEF ClientStep
<1>11. ASSUME NEW i \in EventId, WaitBegins(i) PROVE HeldInv'
      BY <1>11, HeldStays DEF WaitBegins
<1>12. QED BY <1>1, <1>2, <1>3, <1>8, <1>9, <1>10, <1>11

THEOREM HeldInvariant == Spec => []HeldInv
<1>1. Init => HeldInv
      BY DEF Init, HeldInv, HeldByCurrentState
<1>2. TypeOK /\ MutexInv /\ HeldInv /\ [Next]_vars => HeldInv'
  <2>1. ASSUME HeldInv, UNCHANGED vars PROVE HeldInv'
        BY <2>1, HeldStays DEF vars, machineVars, runVars, eventVars, stateVars
  <2>2. QED BY <2>1, HeldLoop, HeldOthers DEF Next, HolderStep
<1>3. QED BY <1>1, <1>2, TypeCorrect, MutexInvariant, PTL DEF Spec

(***************************************************************************)
(* _process: what is held back in the loop is deferred by the current state*)
(* and held for the state that defers it innermost.                        *)
(***************************************************************************)
THEOREM HeldForTheState == Spec => []HeldByCurrentState
BY HeldInvariant, PTL DEF HeldInv

(***************************************************************************)
(* The order of the regular events: however often deferred events go round *)
(* in the queue, the first look at each comes in the order of dispatch.    *)
(***************************************************************************)

\* An event that has not been looked at.
New(e) == e.id \notin seen \cup {0}

\* An event that may go back to the queue.
KnownEvent(e) == e.name \notin CompletionName => e.id \in seen \cup {0}

QueueOrder ==
    /\ \A k \in DOMAIN lifo : lifo[k].name \in CompletionName
    /\ \A k \in DOMAIN fifo : fifo[k].id < nextId
    /\ \A k, l \in DOMAIN fifo : l < k /\ New(fifo[k]) /\ New(fifo[l]) => fifo[l].id < fifo[k].id

\* The inductive invariant: new events are in order, behind them are ids not
\* handed out, and before them everything that was looked at.
OrderInv ==
    /\ FirstLookInOrder
    /\ QueueOrder
    /\ \A j \in seen : j < nextId
    /\ \A i \in DOMAIN deferred : KnownEvent(deferred[i].event)
    /\ KnownEvent(cur)

LEMMA OrderStays ==
    ASSUME OrderInv, UNCHANGED <<lifo, fifo, seen, nextId>>,
           deferred' \in {deferred, << >>}, cur' \in {cur, NoEvent}
    PROVE  OrderInv'
BY DEF OrderInv, FirstLookInOrder, QueueOrder, New, KnownEvent, NoEvent

\* Where the event of a push is.
LEMMA PushedAt ==
    ASSUME TypeOK, NEW e \in Event, Push(e)
    PROVE  \/ /\ e.name \in CompletionName /\ fifo' = fifo
              /\ \A k \in DOMAIN lifo' : lifo'[k] = e \/ \E l \in DOMAIN lifo : lifo'[k] = lifo[l]
           \/ /\ e.name \notin CompletionName /\ lifo' = lifo
              /\ Len(fifo) \in Nat /\ DOMAIN fifo = 1 .. Len(fifo)
              /\ DOMAIN fifo' = 1 .. Len(fifo) + 1 /\ fifo'[Len(fifo) + 1] = e
              /\ \A k \in 1 .. Len(fifo) : fifo'[k] = fifo[k]
<1>1. lifo \in Seq(Event) /\ fifo \in Seq(Event)
      BY DEF TypeOK
<1>2. CASE e.name \in CompletionName
  <2>1. lifo' = <<e>> \o lifo /\ fifo' = fifo
        BY <1>2 DEF Push
  <2>2. /\ Len(lifo) \in Nat /\ DOMAIN lifo = 1 .. Len(lifo)
        /\ DOMAIN lifo' = 1 .. Len(lifo) + 1 /\ lifo'[1] = e
        /\ \A k \in 1 .. Len(lifo) : lifo'[k + 1] = lifo[k]
        BY <1>1, <2>1
  <2>3. ASSUME NEW k \in DOMAIN lifo', k # 1
        PROVE  k - 1 \in DOMAIN lifo /\ lifo'[k] = lifo[k - 1]
        BY <2>2, <2>3
  <2>4. QED BY <1>2, <2>1, <2>2, <2>3
<1>3. CASE e.name \notin CompletionName
  <2>1. fifo' = Append(fifo, e) /\ lifo' = lifo
        BY <1>3 DEF Push
  <2>2. QED BY <1>1, <1>3, <2>1, AppendProperties, LenProperties
<1>4. QED BY <1>2, <1>3

\* An event of the loop or of the runtime itself is queued: it is not new.
LEMMA PushOrder ==
    ASSUME TypeOK, OrderInv, NEW e \in Event, Push(e), KnownEvent(e),
           UNCHANGED <<seen, nextId>>
    PROVE  FirstLookInOrder' /\ QueueOrder'
<1>1. CASE e.name \in CompletionName /\ fifo' = fifo
  <2>1. \A k \in DOMAIN lifo' : lifo'[k].name \in CompletionName
        BY <1>1, PushedAt DEF OrderInv, QueueOrder
  <2>2. QED BY <1>1, <2>1 DEF OrderInv, FirstLookInOrder, QueueOrder, New
<1>2. CASE e.name \notin CompletionName /\ lifo' = lifo
  <2>1. /\ Len(fifo) \in Nat /\ DOMAIN fifo = 1 .. Len(fifo)
        /\ DOMAIN fifo' = 1 .. Len(fifo) + 1 /\ fifo'[Len(fifo) + 1] = e
        /\ \A k \in 1 .. Len(fifo) : fifo'[k] = fifo[k]
        BY <1>2, PushedAt
  <2>2. ~New(e) /\ ~(New(e)')
        BY <1>2 DEF KnownEvent, New
  <2>3. e.id < nextId
        BY <1>2 DEF KnownEvent, OrderInv, TypeOK
  <2>4. \A k \in DOMAIN fifo' : New(fifo[k])' => k \in DOMAIN fifo /\ New(fifo[k])
        BY <2>1, <2>2 DEF New
  <2>5. FirstLookInOrder'
        BY <2>1, <2>4 DEF OrderInv, FirstLookInOrder, New
  <2>6. QueueOrder'
    <3>1. \A k \in DOMAIN fifo' : fifo'[k].id < nextId'
          BY <2>1, <2>3 DEF OrderInv, QueueOrder
    <3>2. ASSUME NEW k \in DOMAIN fifo', NEW l \in DOMAIN fifo', l < k,
                 New(fifo[k])', New(fifo[l])'
          PROVE  fifo'[l].id < fifo'[k].id
          BY <2>1, <2>4, <3>2 DEF OrderInv, QueueOrder
    <3>3. QED BY <1>2, <3>1, <3>2 DEF OrderInv, QueueOrder
  <2>7. QED BY <2>5, <2>6
<1>3. QED BY <1>1, <1>2, PushedAt

\* dispatch(): the new event comes behind every other.
LEMMA AcceptOrder ==
    ASSUME TypeOK, OrderInv, NEW n \in EventName, Accept(n), UNCHANGED <<deferred, cur>>
    PROVE  OrderInv'
<1> DEFINE e == [id |-> nextId, name |-> n]
<1>1. /\ nextId \in EventId /\ nextId \in Nat /\ nextId' = nextId + 1 /\ seen' = seen
      /\ Push(e) /\ e.id = nextId
      BY DEF Accept, EventId
<1>2. e \in Event
      BY <1>1 DEF Event
<1> HIDE DEF e
<1>3. \A j \in seen : j < nextId' /\ j \in Nat
      BY <1>1 DEF OrderInv, TypeOK, EventId
<1>4. \A k \in DOMAIN fifo : fifo[k].id < nextId' /\ fifo[k].id \in Nat
  <2>1. ASSUME NEW k \in DOMAIN fifo PROVE fifo[k].id \in Nat
    <3>1. fifo[k] \in Event
          BY ElementOfSeq, LenProperties DEF TypeOK
    <3>2. QED BY <3>1 DEF Event, EventId
  <2>2. QED BY <1>1, <2>1 DEF OrderInv, QueueOrder
<1>5. CASE e.name \in CompletionName /\ fifo' = fifo
  <2>1. \A k \in DOMAIN lifo' : lifo'[k].name \in CompletionName
        BY <1>2, <1>1, <1>5, PushedAt DEF OrderInv, QueueOrder
  <2>2. QED BY <1>1, <1>3, <1>4, <1>5, <2>1
            DEF OrderInv, FirstLookInOrder, QueueOrder, New, KnownEvent
<1>6. CASE e.name \notin CompletionName /\ lifo' = lifo
  <2>1. /\ Len(fifo) \in Nat /\ DOMAIN fifo = 1 .. Len(fifo)
        /\ DOMAIN fifo' = 1 .. Len(fifo) + 1 /\ fifo'[Len(fifo) + 1] = e
        /\ \A k \in 1 .. Len(fifo) : fifo'[k] = fifo[k]
        BY <1>1, <1>2, <1>6, PushedAt
  <2>2. \A j \in seen : j < e.id
        BY <1>1 DEF OrderInv
  <2>3. FirstLookInOrder'
        BY <1>1, <2>1, <2>2 DEF OrderInv, FirstLookInOrder
  <2>4. QueueOrder'
    <3>1. \A k \in DOMAIN fifo' : fifo'[k].id < nextId'
          BY <1>1, <1>4, <2>1
    <3>2. ASSUME NEW k \in DOMAIN fifo', NEW l \in DOMAIN fifo', l < k,
                 New(fifo[k])', New(fifo[l])'
          PROVE  fifo'[l].id < fifo'[k].id
      <4>1. CASE k = Len(fifo) + 1
        <5>1. l \in DOMAIN fifo /\ fifo'[l] = fifo[l]
              BY <2>1, <3>2, <4>1
        <5>2. QED BY <1>1, <2>1, <4>1, <5>1 DEF OrderInv, QueueOrder
      <4>2. CASE k # Len(fifo) + 1
        <5>1. /\ k \in DOMAIN fifo /\ l \in DOMAIN fifo
              /\ fifo'[k] = fifo[k] /\ fifo'[l] = fifo[l]
              BY <2>1, <3>2, <4>2
        <5>2. New(fifo[k]) /\ New(fifo[l])
              BY <1>1, <3>2, <5>1 DEF New
        <5>3. QED BY <3>2, <5>1, <5>2 DEF OrderInv, QueueOrder
      <4>3. QED BY <4>1, <4>2
    <3>3. QED BY <1>6, <3>1, <3>2 DEF OrderInv, QueueOrder
  <2>5. QED BY <1>1, <1>3, <2>3, <2>4 DEF OrderInv, KnownEvent
<1>7. QED BY <1>1, <1>2, <1>5, <1>6, PushedAt

\* MultiQueue.pop
LEMMA PopOrder ==
    ASSUME TypeOK, OrderInv, ~QueueEmpty, PopQueue, UNCHANGED nextId
    PROVE  /\ FirstLookInOrder' /\ QueueOrder'
           /\ \A j \in seen' : j < nextId'
           /\ seen \subseteq seen'
           /\ NextEvent.name \notin CompletionName => NextEvent.id \in seen' \cup {0}
<1>1. lifo \in Seq(Event) /\ fifo \in Seq(Event)
      BY DEF TypeOK
<1>2. CASE lifo # << >>
  <2>1. /\ lifo' = Tail(lifo) /\ UNCHANGED <<fifo, seen>> /\ NextEvent = Head(lifo)
        BY <1>2 DEF PopQueue, NextEvent
  <2>2. /\ Len(lifo) \in Nat \ {0} /\ DOMAIN lifo = 1 .. Len(lifo)
        /\ DOMAIN lifo' = 1 .. Len(lifo) - 1 /\ lifo[1] = Head(lifo)
        /\ \A k \in 1 .. Len(lifo) - 1 : lifo'[k] = lifo[k + 1]
        BY <1>1, <1>2, <2>1, HeadTailProperties, LenProperties, EmptySeq
  <2>3. \A k \in DOMAIN lifo' : k + 1 \in DOMAIN lifo /\ lifo'[k] = lifo[k + 1]
        BY <2>2
  <2>4. QueueOrder'
        BY <2>1, <2>3 DEF OrderInv, QueueOrder, New
  <2>5. NextEvent.name \in CompletionName
        BY <2>1, <2>2 DEF OrderInv, QueueOrder
  <2>6. FirstLookInOrder' /\ seen \subseteq seen' /\ \A j \in seen' : j < nextId'
        BY <2>1 DEF OrderInv, FirstLookInOrder
  <2>7. QED BY <2>4, <2>5, <2>6
<1>3. CASE lifo = << >>
  <2> DEFINE h == fifo[1]
  <2>1. /\ fifo' = Tail(fifo) /\ lifo' = lifo /\ fifo # << >>
        /\ seen' = seen \cup {Head(fifo).id} /\ NextEvent = Head(fifo)
        BY <1>3 DEF PopQueue, NextEvent, QueueEmpty
  <2>2. /\ Len(fifo) \in Nat \ {0} /\ DOMAIN fifo = 1 .. Len(fifo)
        /\ DOMAIN fifo' = 1 .. Len(fifo) - 1 /\ h = Head(fifo)
        /\ \A k \in 1 .. Len(fifo) - 1 : fifo'[k] = fifo[k + 1]
        BY <1>1, <2>1, HeadTailProperties, LenProperties, EmptySeq
  <2>3. \A k \in DOMAIN fifo' :
            k + 1 \in DOMAIN fifo /\ 1 < k + 1 /\ fifo'[k] = fifo[k + 1]
        BY <2>2
  <2>4. 1 \in DOMAIN fifo /\ h.id < nextId
        BY <2>2 DEF OrderInv, QueueOrder
  <2>5. ASSUME NEW k \in DOMAIN fifo', New(fifo[k])'
        PROVE  New(fifo[k + 1]) /\ fifo[k + 1].id # h.id
        BY <2>1, <2>2, <2>3, <2>5 DEF New
  <2>6. ASSUME NEW k \in DOMAIN fifo', New(fifo[k])', NEW j \in seen'
        PROVE  j < fifo'[k].id
    <3>1. /\ k + 1 \in DOMAIN fifo /\ 1 < k + 1 /\ fifo'[k] = fifo[k + 1]
          /\ New(fifo[k + 1])
          BY <2>3, <2>5, <2>6
    <3>2. CASE j \in seen
          BY <3>1, <3>2 DEF OrderInv, FirstLookInOrder, New
    <3>3. CASE j = h.id /\ New(h)
          BY <2>4, <3>1, <3>3 DEF OrderInv, QueueOrder
    <3>4. CASE j = h.id /\ j = 0
      <4>1. fifo[k + 1] \in Event
            BY <1>1, <3>1, ElementOfSeq, LenProperties
      <4>2. QED BY <3>1, <3>4, <4>1 DEF Event, EventId, New
    <3>5. QED BY <2>1, <2>2, <2>6, <3>2, <3>3, <3>4 DEF New
  <2>7. FirstLookInOrder'
        BY <2>6 DEF FirstLookInOrder, New
  <2>8. QueueOrder'
    <3>1. \A k \in DOMAIN fifo' : fifo'[k].id < nextId'
          BY <2>3 DEF OrderInv, QueueOrder
    <3>2. ASSUME NEW k \in DOMAIN fifo', NEW l \in DOMAIN fifo', l < k,
                 New(fifo[k])', New(fifo[l])'
          PROVE  fifo'[l].id < fifo'[k].id
      <4>1. New(fifo[k + 1]) /\ New(fifo[l + 1]) /\ l + 1 < k + 1
            BY <2>2, <2>5, <3>2
      <4>2. QED BY <2>3, <4>1 DEF OrderInv, QueueOrder
    <3>3. QED BY <2>1, <3>1, <3>2 DEF OrderInv, QueueOrder
  <2>9. (\A j \in seen' : j < nextId') /\ seen \subseteq seen'
        BY <2>1, <2>2, <2>4 DEF OrderInv
  <2>10. QED BY <2>1, <2>7, <2>8, <2>9
<1>4. QED BY <1>2, <1>3

(***************************************************************************)
(* The steps                                                               *)
(***************************************************************************)
LEMMA OrderLoop ==
    ASSUME TypeOK, OrderInv, ProcessStep PROVE OrderInv'
<1> USE DEF queueVars, runVars, workVars, eventVars, stateVars, restVars, ghostVars, GoTo
<1>1. deferred \in Seq(Held) /\ (\A i \in DOMAIN deferred : KnownEvent(deferred[i].event))
      BY DEF TypeOK, OrderInv
<1>2. CASE PopDeferred
  <2> DEFINE h == [owner |-> DeferOwner(NextEvent), event |-> NextEvent]
  <2>1. /\ ~QueueEmpty /\ PopQueue /\ deferred' = Append(deferred, h)
        /\ UNCHANGED <<nextId, cur>>
        BY <1>2 DEF PopDeferred
  <2>2. h.event = NextEvent
        OBVIOUS
  <2>3. h \in Held
    <3>1. NextEvent \in Event /\ DeferOwner(NextEvent) # None
          BY <1>2, PopType DEF PopDeferred, DeferUnseen
    <3>2. NextEvent.name \in EventName
          BY <3>1 DEF Event
    <3>3. DeferOwner(NextEvent) \in Vertex
          BY <3>1, <3>2, VertexTableTypes DEF DeferOwner, TypeOK
    <3>4. QED BY <3>1, <3>3 DEF Held
  <2> HIDE DEF h
  <2>4. /\ FirstLookInOrder' /\ QueueOrder'
        /\ \A j \in seen' : j < nextId'
        /\ seen \subseteq seen'
        /\ h.event.name \notin CompletionName => h.event.id \in seen' \cup {0}
        BY <2>1, <2>2, PopOrder
  <2>5. /\ DOMAIN deferred = 1 .. Len(deferred) /\ DOMAIN deferred' = 1 .. Len(deferred) + 1
        /\ deferred'[Len(deferred) + 1] = h /\ Len(deferred) \in Nat
        /\ \A i \in 1 .. Len(deferred) : deferred'[i] = deferred[i]
        BY <1>1, <2>1, <2>3, AppendProperties, LenProperties
  <2>6. \A i \in DOMAIN deferred' : deferred'[i].event.name \notin CompletionName =>
            deferred'[i].event.id \in seen' \cup {0}
        BY <1>1, <2>4, <2>5 DEF KnownEvent
  <2>7. QED BY <2>1, <2>4, <2>6 DEF OrderInv, KnownEvent
<1>3. CASE PopEvent
      BY <1>1, <1>3, PopOrder DEF PopEvent, OrderInv, KnownEvent
<1>4. CASE TakeTransition \/ GuardFails \/ HandlerRuns \/ Arrive \/ Replayed \/ Drain \/ Finish
      BY <1>4, OrderStays DEF TakeTransition, GuardFails, HandlerRuns, NextCandidate,
             Arrive, Replayed, Drain, Finish
<1>5. CASE NoTransition \/ NoResult
  <2>1. Unhandled
        BY <1>5 DEF NoTransition, NoResult
  <2>2. CASE DeferOwner(cur) = None
        BY <2>1, <2>2, OrderStays DEF Unhandled
  <2>3. CASE DeferOwner(cur) # None
    <3> DEFINE h == [owner |-> DeferOwner(cur), event |-> cur]
    <3>1. /\ deferred' = Append(deferred, h) /\ cur' = NoEvent
          /\ UNCHANGED <<lifo, fifo, seen, nextId>>
          BY <2>1, <2>3 DEF Unhandled
    <3>2. h \in Held
          BY <2>3, VertexTableTypes DEF DeferOwner, TypeOK, Event, Held
    <3>3. KnownEvent(h.event)
          BY DEF OrderInv
    <3> HIDE DEF h
    <3>4. /\ DOMAIN deferred = 1 .. Len(deferred)
          /\ DOMAIN deferred' = 1 .. Len(deferred) + 1
          /\ deferred'[Len(deferred) + 1] = h /\ Len(deferred) \in Nat
          /\ \A i \in 1 .. Len(deferred) : deferred'[i] = deferred[i]
          BY <1>1, <3>1, <3>2, AppendProperties, LenProperties
    <3>5. \A i \in DOMAIN deferred' : deferred'[i].event.name \notin CompletionName =>
              deferred'[i].event.id \in seen \cup {0}
          BY <1>1, <3>3, <3>4 DEF KnownEvent
    <3>6. QED BY <3>1, <3>5
              DEF OrderInv, FirstLookInOrder, QueueOrder, New, KnownEvent, NoEvent
  <2>4. QED BY <2>2, <2>3
<1>6. CASE Replay \/ PutBack
  <2> DEFINE e == Head(deferred).event
  <2>1. /\ deferred # << >> /\ deferred' = Tail(deferred)
        /\ UNCHANGED <<cur, seen, nextId>>
        /\ Push(e) \/ UNCHANGED <<lifo, fifo>>
        BY <1>6 DEF Replay, PutBack
  <2>2. /\ Len(deferred) \in Nat \ {0} /\ DOMAIN deferred = 1 .. Len(deferred)
        /\ DOMAIN deferred' = 1 .. Len(deferred) - 1 /\ deferred[1] = Head(deferred)
        /\ \A i \in 1 .. Len(deferred) - 1 : deferred'[i] = deferred[i + 1]
        BY <1>1, <2>1, HeadTailProperties, LenProperties, EmptySeq
  <2>3. e \in Event /\ KnownEvent(e)
        BY <1>1, <2>1, <2>2, DeferredType
  <2> HIDE DEF e
  <2>4. ASSUME NEW i \in DOMAIN deferred' PROVE KnownEvent(deferred[i + 1].event)
                                               /\ deferred'[i] = deferred[i + 1]
        BY <1>1, <2>2
  <2>5. FirstLookInOrder' /\ QueueOrder'
    <3>1. CASE Push(e)
          BY <2>1, <2>3, <3>1, PushOrder
    <3>2. CASE UNCHANGED <<lifo, fifo>>
          BY <2>1, <3>2 DEF OrderInv, FirstLookInOrder, QueueOrder, New
    <3>3. QED BY <2>1, <3>1, <3>2
  <2>6. QED BY <2>1, <2>4, <2>5 DEF OrderInv, KnownEvent
<1>7. QED BY <1>2, <1>3, <1>4, <1>5, <1>6 DEF ProcessStep

LEMMA OrderExecutor ==
    ASSUME TypeOK, OrderInv, TransitionStep PROVE OrderInv'
<1> USE DEF queueVars, runVars, workVars, eventVars, stateVars, restVars, ghostVars, Continue
<1>1. CASE Effect \/ EnterState \/ EnterSimple \/ EnterInitial \/ EnterPseudo
           \/ EnterHistory \/ NoBranch \/ Spawn \/ Terminate \/ Resume \/ Leave
      BY <1>1, OrderStays DEF Effect, EnterState, EnterSimple, EnterInitial, EnterPseudo,
             EnterHistory, NoBranch, Spawn, Terminate, Resume, Leave
<1>2. CASE EnterFinal
  <2> DEFINE e == [id |-> 0, name |-> FinalEvent]
  <2>1. Push(e) /\ KnownEvent(e) /\ UNCHANGED <<deferred, cur, seen, nextId>>
        BY <1>2 DEF EnterFinal, KnownEvent
  <2>2. e \in Event
        BY TableNames DEF Event
  <2> HIDE DEF e
  <2>3. FirstLookInOrder' /\ QueueOrder'
        BY <2>1, <2>2, PushOrder
  <2>4. QED BY <2>1, <2>3 DEF OrderInv, KnownEvent
<1>3. CASE SpawnFails
      BY <1>3, AcceptOrder, TableNames DEF SpawnFails
<1>4. QED BY <1>1, <1>2, <1>3 DEF TransitionStep

LEMMA OrderOthers ==
    ASSUME TypeOK, OrderInv,
           \/ StopFinish \/ Raise \/ ClientStep
           \/ \E t \in TaskId : TaskStep(t)
           \/ \E c \in Client : CallStep(c)
           \/ \E i \in EventId : WaitBegins(i)
    PROVE  OrderInv'
<1> USE DEF machineVars, queueVars, runVars, workVars, eventVars, stateVars, restVars,
            ghostVars, TaskEnds, CallBecomes
<1>1. CASE StopFinish
      BY <1>1 DEF StopFinish, ClearQueue, OrderInv, FirstLookInOrder, QueueOrder, KnownEvent
<1>2. CASE Raise
      BY <1>2, OrderStays DEF Raise
<1>3. ASSUME NEW c, NEW m, BeginStop(c, m) \/ StopWaits(c, m) PROVE OrderInv'
      BY <1>3, OrderStays DEF BeginStop, StopWaits
<1>4. ASSUME BeginStartup PROVE OrderInv'
      BY <1>4, OrderStays DEF BeginStartup
<1>5. ASSUME NEW t \in TaskId, TaskStep(t) PROVE OrderInv'
  <2>1. CASE TaskFinishes(t) \/ TaskCancelled(t)
        BY <2>1, OrderStays DEF TaskFinishes, TaskCancelled
  <2>2. CASE TaskFails(t)
        BY <2>2, AcceptOrder, TableNames DEF TaskFails
  <2>3. ASSUME NEW n \in DispatchName, TaskCleanup(t, n) PROVE OrderInv'
        BY <2>3, AcceptOrder, TableNames DEF TaskCleanup
  <2>4. QED BY <1>5, <2>1, <2>2, <2>3 DEF TaskStep
<1>6. ASSUME NEW c \in Client, CallStep(c) PROVE OrderInv'
  <2>1. CASE StopRetry(c) \/ RestartStarts(c)
        BY <1>3, <1>4, <2>1 DEF StopRetry, RestartStarts
  <2>2. CASE StopReturns(c) \/ RestartFails(c) \/ RestartAbandoned(c)
        BY <2>2, OrderStays DEF StopReturns, RestartFails, RestartAbandoned
  <2>3. QED BY <1>6, <2>1, <2>2 DEF CallStep
<1>7. CASE ClientStep
  <2>1. CASE Start \/ \E c \in Client, m \in CallMode : StopCall(c, m)
        BY <1>3, <1>4, <2>1 DEF Start, StopCall
  <2>2. CASE ParentEnds
        BY <2>2, OrderStays DEF ParentEnds
  <2>3. ASSUME NEW n \in DispatchName, Dispatch(n) PROVE OrderInv'
        BY <2>3, AcceptOrder, TableNames DEF Dispatch
  <2>4. QED BY <1>7, <2>1, <2>2, <2>3 DEF ClientStep
<1>8. ASSUME NEW i \in EventId, WaitBegins(i) PROVE OrderInv'
      BY <1>8, OrderStays DEF WaitBegins
<1>9. QED BY <1>1, <1>2, <1>5, <1>6, <1>7, <1>8

THEOREM OrderInvariant == Spec => []OrderInv
<1>1. Init => OrderInv
      BY DEF Init, OrderInv, FirstLookInOrder, QueueOrder, KnownEvent, NoEvent
<1>2. TypeOK /\ OrderInv /\ [Next]_vars => OrderInv'
  <2>1. ASSUME OrderInv, UNCHANGED vars PROVE OrderInv'
        BY <2>1, OrderStays DEF vars, machineVars, queueVars, eventVars, ghostVars
  <2>2. QED BY <2>1, OrderLoop, OrderExecutor, OrderOthers DEF Next, HolderStep
<1>3. QED BY <1>1, <1>2, TypeCorrect, PTL DEF Spec

(***************************************************************************)
(* MultiQueue: no event that was put back lets a later one be looked at    *)
(* before an earlier one.                                                  *)
(***************************************************************************)
THEOREM FirstLooksInOrder == Spec => []FirstLookInOrder
BY OrderInvariant, PTL DEF OrderInv

(***************************************************************************)
(* _process: nothing is left behind.  From the moment the loop has found   *)
(* the queue empty nobody dispatches before the mutex is free, so only     *)
(* what the loop puts back is in the queue.                                *)
(***************************************************************************)
Resting == faults = 0 /\ (holder = Free \/ stage = "drain")

\* What is left is deferred by the state, and was looked at.
RestInv ==
    Resting => /\ \A e \in Queued : DeferOwner(e) # None
               /\ \A k \in DOMAIN fifo : ~New(fifo[k])

LEMMA RestStays ==
    ASSUME RestInv, UNCHANGED <<lifo, fifo, state, seen>>, Resting' => Resting
    PROVE  RestInv'
BY DEF RestInv, Queued, DeferOwner, New

LEMMA RestEnds == ~Resting' => RestInv'
BY DEF RestInv

\* What is in the queue after a push was there or is the event pushed.
LEMMA PushedOnly ==
    ASSUME TypeOK, NEW e \in Event, Push(e)
    PROVE  \A f \in Queued' : f \in Queued \/ f = e
<1>1. lifo \in Seq(Event) /\ fifo \in Seq(Event)
      BY DEF TypeOK
<1>2. \A f \in {(<<e>> \o lifo)[i] : i \in DOMAIN (<<e>> \o lifo)} :
          f = e \/ f \in {lifo[i] : i \in DOMAIN lifo}
  <2> DEFINE r == <<e>> \o lifo
  <2>1. /\ Len(lifo) \in Nat /\ DOMAIN lifo = 1 .. Len(lifo)
        /\ DOMAIN r = 1 .. Len(lifo) + 1 /\ r[1] = e
        /\ \A k \in 1 .. Len(lifo) : r[k + 1] = lifo[k]
        BY <1>1
  <2> HIDE DEF r
  <2>2. ASSUME NEW i \in DOMAIN r, i # 1 PROVE i - 1 \in DOMAIN lifo /\ r[i] = lifo[i - 1]
        BY <2>1, <2>2
  <2>3. \A i \in DOMAIN r : r[i] = e \/ r[i] \in {lifo[k] : k \in DOMAIN lifo}
        BY <2>1, <2>2
  <2>4. QED BY <2>3 DEF r
<1>3. \A f \in {Append(fifo, e)[i] : i \in DOMAIN Append(fifo, e)} :
          f = e \/ f \in {fifo[i] : i \in DOMAIN fifo}
  <2> DEFINE r == Append(fifo, e)
  <2>1. /\ Len(fifo) \in Nat /\ DOMAIN fifo = 1 .. Len(fifo)
        /\ DOMAIN r = 1 .. Len(fifo) + 1 /\ r[Len(fifo) + 1] = e
        /\ \A k \in 1 .. Len(fifo) : r[k] = fifo[k]
        BY <1>1, AppendProperties, LenProperties
  <2> HIDE DEF r
  <2>2. \A i \in DOMAIN r : r[i] = e \/ r[i] \in {fifo[k] : k \in DOMAIN fifo}
        BY <2>1
  <2>3. QED BY <2>2 DEF r
<1>4. QED BY <1>2, <1>3 DEF Push, Queued

\* dispatch() at a machine that drains its queue does not happen.
LEMMA AcceptRests ==
    ASSUME MutexInv, NEW n, Accept(n), stage # "drain", UNCHANGED faults
    PROVE  RestInv'
<1>1. Process # Free
      BY HolderAssumption
<1>2. ~Resting'
      BY <1>1 DEF Accept, Resting
<1>3. QED BY <1>2, RestEnds

LEMMA RestLoop ==
    ASSUME TypeOK, MutexInv, HeldInv, OrderInv, RestInv, ProcessStep PROVE RestInv'
<1> USE DEF queueVars, runVars, workVars, eventVars, stateVars, restVars, ghostVars, GoTo
<1>1. holder # Free
      BY LoopHolder, HolderAssumption
<1>2. CASE PopDeferred \/ PopEvent \/ TakeTransition \/ GuardFails \/ HandlerRuns
           \/ NoTransition \/ NoResult \/ Arrive \/ Replay \/ Replayed
  <2>1. holder' = holder /\ stage' # "drain"
        BY <1>2 DEF PopDeferred, PopEvent, TakeTransition, GuardFails, InGuard, HandlerRuns,
               HandlerNext, NextCandidate, Follow, NoTransition, NoResult, Unhandled,
               Arrive, Replay, Replayed, Running
  <2>2. QED BY <1>1, <2>1, RestEnds DEF Resting
<1>3. CASE Drain
  <2>1. Queued' = {} /\ fifo' = << >>
        BY <1>3 DEF Drain, QueueEmpty, Queued
  <2>2. QED BY <2>1 DEF RestInv
<1>4. CASE PutBack
  <2> DEFINE e == Head(deferred).event
  <2>1. /\ deferred # << >> /\ Push(e) /\ stage = "drain"
        /\ UNCHANGED <<holder, stage, state, faults, seen>>
        BY <1>4 DEF PutBack, Running, ghostVars
  <2>2. e \in Event /\ Head(deferred).owner \in Vertex
        BY <2>1, DeferredType
  <2>3. Head(deferred) = deferred[1] /\ 1 \in DOMAIN deferred
    <3>1. deferred \in Seq(Held)
          BY DEF TypeOK
    <3>2. QED BY <2>1, <3>1, HeadTailProperties, LenProperties, EmptySeq
  <2>4. DeferOwner(e) # None
    <3>1. DeferredMap(state, e.name) = Head(deferred).owner
          BY <2>1, <2>3 DEF HeldInv, HeldByCurrentState
    <3>2. QED BY <2>2, <3>1, TableNames DEF DeferOwner
  <2>5. KnownEvent(e)
        BY <2>3 DEF OrderInv
  <2> HIDE DEF e
  <2>6. \A f \in Queued' : f \in Queued \/ f = e
        BY <2>1, <2>2, PushedOnly
  <2>7. Resting' => Resting
        BY <2>1 DEF Resting
  <2>8. Resting' => \A k \in DOMAIN fifo' : ~New(fifo[k])'
        BY <2>1, <2>2, <2>5, <2>7, PushedAt DEF RestInv, New, KnownEvent
  <2>9. QED BY <2>1, <2>4, <2>6, <2>7, <2>8 DEF RestInv, DeferOwner
<1>5. CASE Finish
      BY <1>5, RestStays DEF Finish, Resting, Running
<1>6. QED BY <1>2, <1>3, <1>4, <1>5 DEF ProcessStep

LEMMA RestOthers ==
    ASSUME TypeOK, MutexInv, AwaitInv, RestInv,
           \/ TransitionStep \/ StopFinish \/ Raise \/ ClientStep
           \/ \E t \in TaskId : TaskStep(t)
           \/ \E c \in Client : CallStep(c)
           \/ \E i \in EventId : WaitBegins(i)
    PROVE  RestInv'
<1> USE DEF machineVars, queueVars, runVars, workVars, eventVars, stateVars, restVars,
            lifeVars, ghostVars, Continue, TaskEnds, CallBecomes
<1>1. CASE TransitionStep
  <2>1. holder' = holder /\ holder # Free
        BY <1>1 DEF TransitionStep, Effect, EnterState, EnterFinal, EnterSimple, EnterInitial,
               EnterPseudo, EnterHistory, NoBranch, Spawn, SpawnFails, File, Terminate,
               Resume, Leave, Accept, Doing, Running, MutexInv, NoLostWakeup
  <2>2. stage # "drain" /\ stage' # "drain"
        BY <1>1 DEF TransitionStep, Effect, EnterState, EnterFinal, EnterSimple, EnterInitial,
               EnterPseudo, EnterHistory, NoBranch, Spawn, SpawnFails, File, Terminate,
               Resume, Leave, Follow, Accept, Doing, Running, AwaitInv
  <2>3. QED BY <2>1, <2>2, RestEnds DEF Resting
<1>2. CASE StopFinish
  <2>1. Queued' = {} /\ fifo' = << >>
        BY <1>2 DEF StopFinish, ClearQueue, Queued
  <2>2. QED BY <2>1 DEF RestInv
<1>3. CASE Raise
  <2>1. faults' # 0
        BY <1>3 DEF Raise, TypeOK
  <2>2. QED BY <2>1, RestEnds DEF Resting
\* Callbacks and other tasks run when the loop does not drain its queue.
<1>4. Yielded => stage # "drain"
      BY DEF Yielded, Suspended, InGuard, InHandler, HandlerNext, InBehaviour, Running,
             AwaitInv, MutexInv, NoLostWakeup
<1>5. ASSUME NEW c \in Client, NEW m, BeginStop(c, m) \/ StopWaits(c, m) PROVE RestInv'
  <2>1. CASE BeginStop(c, m)
    <3>1. c # Free
          BY HolderAssumption
    <3>2. QED BY <2>1, <3>1, RestEnds DEF BeginStop, Resting
  <2>2. CASE StopWaits(c, m)
        BY <2>2, RestStays DEF StopWaits, Resting
  <2>3. QED BY <1>5, <2>1, <2>2
<1>6. ASSUME BeginStartup PROVE RestInv'
      BY <1>6, RestEnds, HolderAssumption DEF BeginStartup, Resting
<1>7. ASSUME NEW t \in TaskId, TaskStep(t) PROVE RestInv'
  <2>1. CASE TaskFinishes(t) \/ TaskCancelled(t)
        BY <2>1, RestStays DEF TaskFinishes, TaskCancelled, Resting
  <2>2. CASE TaskFails(t) \/ \E n \in DispatchName : TaskCleanup(t, n)
        BY <1>4, <2>2, AcceptRests DEF TaskFails, TaskCleanup, Yielded
  <2>3. QED BY <1>7, <2>1, <2>2 DEF TaskStep
<1>8. ASSUME NEW c \in Client, CallStep(c) PROVE RestInv'
  <2>1. CASE StopRetry(c) \/ RestartStarts(c)
        BY <1>5, <1>6, <2>1 DEF StopRetry, RestartStarts
  <2>2. CASE StopReturns(c) \/ RestartFails(c) \/ RestartAbandoned(c)
        BY <2>2, RestStays DEF StopReturns, RestartFails, RestartAbandoned, Resting
  <2>3. QED BY <1>8, <2>1, <2>2 DEF CallStep
<1>9. CASE ClientStep
  <2>1. CASE Start
        BY <1>6, <2>1 DEF Start
  <2>2. CASE ParentEnds
        BY <2>2, RestStays DEF ParentEnds, Resting
  <2>3. CASE \E n \in DispatchName : Dispatch(n)
        BY <1>4, <2>3, AcceptRests DEF Dispatch
  <2>4. CASE \E c \in Client, m \in CallMode : StopCall(c, m)
        BY <1>5, <2>4 DEF StopCall
  <2>5. QED BY <1>9, <2>1, <2>2, <2>3, <2>4 DEF ClientStep
<1>10. ASSUME NEW i \in EventId, WaitBegins(i) PROVE RestInv'
      BY <1>10, RestStays DEF WaitBegins, Resting
<1>11. QED BY <1>1, <1>2, <1>3, <1>7, <1>8, <1>9, <1>10

THEOREM RestInvariant == Spec => []RestInv
<1>1. Init => RestInv
      BY DEF Init, RestInv, Queued
<1>2. TypeOK /\ MutexInv /\ AwaitInv /\ HeldInv /\ OrderInv /\ RestInv /\ [Next]_vars => RestInv'
  <2>1. ASSUME RestInv, UNCHANGED vars PROVE RestInv'
        BY <2>1, RestStays DEF vars, machineVars, queueVars, runVars, stateVars, ghostVars, Resting
  <2>2. QED BY <2>1, RestLoop, RestOthers DEF Next, HolderStep
<1>3. QED BY <1>1, <1>2, TypeCorrect, MutexInvariant, AwaitInvariant, HeldInvariant,
             OrderInvariant, PTL DEF Spec

(***************************************************************************)
(* _process, dispatch: a machine that comes to rest without an error has   *)
(* looked at every event that its state does not defer.                    *)
(***************************************************************************)
THEOREM NothingIsStranded == Spec => []NothingStranded
<1>1. RestInv => NothingStranded
      BY DEF RestInv, Resting, NothingStranded
<1>2. QED BY <1>1, RestInvariant, PTL

(***************************************************************************)
(* dispatch: what an answer means.                                         *)
(***************************************************************************)
\* Only an event that was dispatched has an awaitable.
AnswerInv == \A i \in EventId : answer[i] # "none" => i < nextId

\* The action of AnsweredWhenSettled.
Justified(i) ==
    answer[i] # "true" /\ answer'[i] = "true" /\ faults' = 0 =>
        \/ outcome'[i] # "none"
        \/ ctxDone'
        \/ \E e \in Queued' : e.id = i /\ DeferredMap(state', e.name) # None

\* The steps that answer.
Answers == Finish \/ StopFinish \/ Raise \/ (\E i \in EventId : WaitBegins(i))

\* Every other step keeps the answers, or gives one to the event it queues.
LEMMA OtherAnswers ==
    ASSUME [Next]_vars, ~Answers
    PROVE  UNCHANGED <<answer, nextId>> \/ (UNCHANGED ctxDone /\ \E n : Accept(n))
<1> USE DEF vars, machineVars, queueVars, runVars, workVars, eventVars, stateVars, restVars,
            taskVars, lifeVars, ghostVars, GoTo, Continue, TaskEnds, CallBecomes
<1>1. CASE ProcessStep
      BY <1>1 DEF Answers, ProcessStep, PopDeferred, PopEvent, TakeTransition, GuardFails,
             HandlerRuns, NextCandidate, NoTransition, NoResult, Unhandled, Arrive, Replay,
             Replayed, Drain, PutBack
<1>2. CASE TransitionStep
      BY <1>2 DEF TransitionStep, Effect, EnterState, EnterFinal, EnterSimple, EnterInitial,
             EnterPseudo, EnterHistory, NoBranch, Spawn, SpawnFails, Terminate, Resume, Leave
<1>3. ASSUME NEW c, NEW m, BeginStop(c, m) \/ StopWaits(c, m)
      PROVE  UNCHANGED <<answer, nextId>>
      BY <1>3 DEF BeginStop, StopWaits
<1>4. ASSUME BeginStartup PROVE UNCHANGED <<answer, nextId>>
      BY <1>4 DEF BeginStartup
<1>5. ASSUME NEW t \in TaskId, TaskStep(t)
      PROVE  UNCHANGED <<answer, nextId>> \/ (UNCHANGED ctxDone /\ \E n : Accept(n))
      BY <1>5 DEF TaskStep, TaskFinishes, TaskCancelled, TaskFails, TaskCleanup
<1>6. ASSUME NEW c \in Client, CallStep(c) PROVE UNCHANGED <<answer, nextId>>
      BY <1>3, <1>4, <1>6 DEF CallStep, StopRetry, RestartStarts, StopReturns, RestartFails,
             RestartAbandoned
<1>7. ASSUME ClientStep
      PROVE  UNCHANGED <<answer, nextId>> \/ (UNCHANGED ctxDone /\ \E n : Accept(n))
      BY <1>3, <1>4, <1>7 DEF ClientStep, Start, ParentEnds, Dispatch, StopCall
<1>8. CASE UNCHANGED vars
      BY <1>8
<1>9. QED BY <1>1, <1>2, <1>5, <1>6, <1>7, <1>8 DEF Next, HolderStep, Answers

THEOREM AnswerInvariant == Spec => []AnswerInv
<1>1. Init => AnswerInv
      BY DEF Init, AnswerInv
<1>2. TypeOK /\ AnswerInv /\ [Next]_vars => AnswerInv'
  <2> SUFFICES ASSUME TypeOK, AnswerInv, [Next]_vars PROVE AnswerInv'
      OBVIOUS
  <2>1. CASE Answers
    <3>1. nextId' = nextId
          BY <2>1 DEF Answers, Finish, StopFinish, Raise, WaitBegins
    <3>2. ASSUME NEW i \in EventId, answer'[i] # "none" PROVE answer[i] # "none"
      <4>1. CASE Finish \/ StopFinish \/ Raise
            BY <3>2, <4>1 DEF Finish, StopFinish, Raise, Answered
      <4>2. ASSUME NEW j \in EventId, WaitBegins(j) PROVE answer[i] # "none"
            BY <3>2, <4>2 DEF WaitBegins, TypeOK
      <4>3. QED BY <2>1, <4>1, <4>2 DEF Answers
    <3>3. QED BY <3>1, <3>2 DEF AnswerInv
  <2>2. ASSUME NEW n, Accept(n) PROVE AnswerInv'
    <3>1. /\ nextId \in Nat /\ nextId' = nextId + 1
          /\ \A i \in EventId : i # nextId => answer'[i] = answer[i]
          BY <2>2 DEF Accept, TypeOK
    <3>2. ASSUME NEW i \in EventId, answer'[i] # "none" PROVE i < nextId'
          BY <3>1, <3>2 DEF AnswerInv, EventId
    <3>3. QED BY <3>2 DEF AnswerInv
  <2>3. QED BY <2>1, <2>2, OtherAnswers DEF AnswerInv
<1>3. QED BY <1>1, <1>2, TypeCorrect, PTL DEF Spec

\* At rest an event that was dispatched is settled or deferred by the state.
LEMMA RestSettles ==
    ASSUME TypeOK, EventsInv, RestInv, Resting, deferred = << >>, NEW i \in EventId,
           i < nextId, stage \in {"idle", "drain"}
    PROVE  \/ outcome[i] # "none"
           \/ \E e \in Queued : e.id = i /\ DeferOwner(e) # None
<1>1. Placed(i)
      BY DEF EventsInv, EventsConserved, Fresh, EventId, TypeOK
<1>2. cur.id # i
      BY EmptyHand DEF EventId
<1>3. HeldNever(deferred, i)
      BY DEF HeldNever
<1>4. ~HeldOnce(deferred, i)
      BY DEF HeldOnce
<1>5. CASE outcome[i] = "none"
  <2>1. InQueue(i)
        BY <1>1, <1>2, <1>4, <1>5 DEF Placed
  <2>2. PICK e \in Queued : e.id = i
        BY <2>1 DEF InQueue, Once, Queued
  <2>3. QED BY <2>2 DEF RestInv
<1>6. QED BY <1>5

LEMMA AnswerJustified ==
    ASSUME TypeOK, MutexInv, EventsInv, HeldInv, RestInv, AnswerInv, [Next]_vars,
           NEW i \in EventId
    PROVE  Justified(i)
<1> USE DEF machineVars, queueVars, runVars, workVars, eventVars, stateVars, restVars,
            taskVars, lifeVars
<1> SUFFICES ASSUME answer[i] # "true", answer'[i] = "true", faults' = 0
             PROVE  \/ outcome'[i] # "none"
                    \/ ctxDone'
                    \/ \E e \in Queued' : e.id = i /\ DeferredMap(state', e.name) # None
    BY DEF Justified
<1>1. CASE Raise
  <2>1. faults' # 0
        BY <1>1 DEF Raise, TypeOK
  <2>2. QED BY <2>1
<1>2. CASE Finish
  <2>1. /\ Resting /\ deferred = << >> /\ stage = "drain"
        /\ UNCHANGED <<lifo, fifo, state, outcome>> /\ answer[i] # "none"
        BY <1>2 DEF Finish, Running, Resting, Answered
  <2>2. \/ outcome[i] # "none"
        \/ \E e \in Queued : e.id = i /\ DeferOwner(e) # None
        BY <2>1, RestSettles DEF AnswerInv
  <2>3. QED BY <2>1, <2>2 DEF Queued, DeferOwner
<1>3. ASSUME NEW j \in EventId, WaitBegins(j)
      PROVE  \/ outcome'[i] # "none"
             \/ \E e \in Queued' : e.id = i /\ DeferredMap(state', e.name) # None
  <2>1. holder = Free /\ answer[i] # "none"
        BY <1>3 DEF WaitBegins, TypeOK
  <2>2. /\ Resting /\ deferred = << >> /\ stage = "idle"
        /\ UNCHANGED <<lifo, fifo, state, outcome>>
        BY <1>3, <2>1, HolderAssumption
           DEF WaitBegins, Resting, HeldInv, MutexInv, NoLostWakeup
  <2>3. \/ outcome[i] # "none"
        \/ \E e \in Queued : e.id = i /\ DeferOwner(e) # None
        BY <2>1, <2>2, RestSettles DEF AnswerInv
  <2>4. QED BY <2>2, <2>3 DEF Queued, DeferOwner
<1>4. CASE StopFinish
  <2>1. EventsInv'
        BY <1>4, ClearKeeps
  <2>2. holder \in Client
    <3>1. agenda # << >> /\ Head(agenda).op = "halt"
          BY <1>4 DEF StopFinish, Doing
    <3>2. agenda \in Seq(WorkOp) => Head(agenda) \in WorkOp
          BY <3>1, HeadTailProperties
    <3>3. QED BY <3>1, <3>2 DEF MutexInv, HolderWork, WorkOp
  <2>3. cur.id = 0 /\ deferred = << >>
        BY <2>2, EmptyHand, HolderAssumption DEF HeldInv
  <2>4. /\ lifo' = << >> /\ fifo' = << >> /\ UNCHANGED <<deferred, cur, nextId>>
        /\ answer[i] # "none"
        BY <1>4 DEF StopFinish, ClearQueue, Answered
  <2>5. i < nextId'
        BY <2>4 DEF AnswerInv
  <2>6. Placed(i)'
        BY <2>1, <2>5, <2>4 DEF EventsInv, EventsConserved, Fresh, EventId, TypeOK
  <2>7. ~InQueue(i)' /\ ~HeldOnce(deferred', i) /\ cur'.id # i
        BY <2>3, <2>4 DEF InQueue, Once, HeldOnce, EventId
  <2>8. QED BY <2>6, <2>7 DEF Placed
<1>5. ASSUME NEW n, Accept(n), UNCHANGED ctxDone PROVE ctxDone'
      BY <1>5 DEF Accept, TypeOK
<1>6. QED BY <1>1, <1>2, <1>3, <1>4, <1>5, OtherAnswers DEF Answers

(***************************************************************************)
(* dispatch: an awaitable resolves with true only when its event is settled*)
(* or deferred by the state, or the machine is being stopped.              *)
(***************************************************************************)
THEOREM AnswersAreTrue == Spec => AnsweredWhenSettled
<1>1. TypeOK /\ MutexInv /\ EventsInv /\ HeldInv /\ RestInv /\ AnswerInv /\ [Next]_vars
          => [\A i \in EventId : Justified(i)]_<<answer>>
      BY AnswerJustified
<1>2. [\A i \in EventId : Justified(i)]_<<answer>>
          <=> [\A i \in EventId :
                  answer[i] # "true" /\ answer'[i] = "true" /\ faults' = 0 =>
                      \/ outcome'[i] # "none"
                      \/ ctxDone'
                      \/ \E e \in Queued' : e.id = i /\ DeferredMap(state', e.name) # None
              ]_<<answer>>
      BY DEF Justified
<1>3. QED BY <1>1, <1>2, TypeCorrect, MutexInvariant, EventsInvariant, HeldInvariant,
             RestInvariant, AnswerInvariant, PTL DEF Spec, AnsweredWhenSettled

(***************************************************************************)
(* Dispatched events that are still to be looked at                        *)
(***************************************************************************)
\* Ids are handed out in order.
LEMMA IdsGrow ==
    ASSUME TypeOK, [Next]_vars PROVE nextId <= nextId' /\ nextId' \in Nat /\ nextId \in Nat
<1>1. TypeOK'
      BY StepTypes
<1>2. nextId' \in {nextId, nextId + 1}
  <2> USE DEF vars, machineVars, queueVars, runVars, workVars, eventVars, stateVars, restVars,
              taskVars, lifeVars, ghostVars, GoTo, Continue, TaskEnds, CallBecomes
  <2>1. CASE ProcessStep
        BY <2>1 DEF ProcessStep, PopDeferred, PopEvent, TakeTransition, GuardFails,
               HandlerRuns, NextCandidate, NoTransition, NoResult, Unhandled, Arrive, Replay,
               Replayed, Drain, PutBack, Finish
  <2>2. CASE TransitionStep
        BY <2>2 DEF TransitionStep, Effect, EnterState, EnterFinal, EnterSimple, EnterInitial,
               EnterPseudo, EnterHistory, NoBranch, Spawn, SpawnFails, Accept, Terminate,
               Resume, Leave
  <2>3. ASSUME NEW c, NEW m, BeginStop(c, m) \/ StopWaits(c, m) PROVE UNCHANGED nextId
        BY <2>3 DEF BeginStop, StopWaits
  <2>4. ASSUME BeginStartup PROVE UNCHANGED nextId
        BY <2>4 DEF BeginStartup
  <2>5. ASSUME NEW t \in TaskId, TaskStep(t) PROVE nextId' \in {nextId, nextId + 1}
        BY <2>5 DEF TaskStep, TaskFinishes, TaskCancelled, TaskFails, TaskCleanup, Accept
  <2>6. ASSUME NEW c \in Client, CallStep(c) PROVE UNCHANGED nextId
        BY <2>3, <2>4, <2>6 DEF CallStep, StopRetry, RestartStarts, StopReturns,
               RestartFails, RestartAbandoned
  <2>7. CASE ClientStep
        BY <2>3, <2>4, <2>7 DEF ClientStep, Start, ParentEnds, Dispatch, Accept, StopCall
  <2>8. CASE StopFinish \/ Raise \/ \E i \in EventId : WaitBegins(i)
        BY <2>8 DEF StopFinish, Raise, WaitBegins
  <2>9. QED BY <2>1, <2>2, <2>5, <2>6, <2>7, <2>8 DEF Next, HolderStep
<1>3. QED BY <1>1, <1>2 DEF TypeOK

\* What a step does to the regular events: nothing, a push, a pop, or stop().
LEMMA QueueMoves ==
    ASSUME TypeOK, [Next]_vars
    PROVE  \/ UNCHANGED <<fifo, seen>>
           \/ UNCHANGED seen /\ \E e \in Event : Push(e)
           \/ ~QueueEmpty /\ PopQueue
           \/ StopFinish
<1> USE DEF vars, machineVars, queueVars, runVars, workVars, eventVars, stateVars, restVars,
            taskVars, lifeVars, ghostVars, GoTo, Continue, TaskEnds, CallBecomes
<1> DEFINE Moved == UNCHANGED <<fifo, seen>> \/ (UNCHANGED seen /\ \E e \in Event : Push(e))
<1>1. ASSUME NEW n \in EventName, Accept(n) PROVE Moved
  <2>1. [id |-> nextId, name |-> n] \in Event
        BY <1>1 DEF Accept, Event
  <2>2. QED BY <1>1, <2>1 DEF Accept
<1>2. CASE ProcessStep
  <2>1. CASE Replay \/ PutBack
    <3>1. deferred # << >>
          BY <2>1 DEF Replay, PutBack
    <3>2. Head(deferred).event \in Event
          BY <3>1, DeferredType
    <3>3. QED BY <2>1, <3>2 DEF Replay, PutBack
  <2>2. CASE PopDeferred \/ PopEvent
        BY <2>2 DEF PopDeferred, PopEvent
  <2>3. CASE ~Replay /\ ~PutBack /\ ~PopDeferred /\ ~PopEvent
        BY <1>2, <2>3 DEF ProcessStep, TakeTransition, GuardFails, HandlerRuns, NextCandidate,
               NoTransition, NoResult, Unhandled, Arrive, Replayed, Drain, Finish
  <2>4. QED BY <2>1, <2>2, <2>3
<1>3. CASE TransitionStep
  <2>1. CASE EnterFinal
    <3>1. [id |-> 0, name |-> FinalEvent] \in Event
          BY TableNames DEF Event
    <3>2. QED BY <2>1, <3>1 DEF EnterFinal
  <2>2. CASE SpawnFails
        BY <1>1, <2>2, TableNames DEF SpawnFails
  <2>3. CASE ~EnterFinal /\ ~SpawnFails
        BY <1>3, <2>3 DEF TransitionStep, Effect, EnterState, EnterSimple, EnterInitial,
               EnterPseudo, EnterHistory, NoBranch, Spawn, Terminate, Resume, Leave
  <2>4. QED BY <2>1, <2>2, <2>3
<1>4. ASSUME NEW c, NEW m, BeginStop(c, m) \/ StopWaits(c, m) PROVE Moved
      BY <1>4 DEF BeginStop, StopWaits
<1>5. ASSUME BeginStartup PROVE Moved
      BY <1>5 DEF BeginStartup
<1>6. ASSUME NEW t \in TaskId, TaskStep(t) PROVE Moved
  <2>1. CASE TaskFinishes(t) \/ TaskCancelled(t)
        BY <2>1 DEF TaskFinishes, TaskCancelled
  <2>2. CASE TaskFails(t) \/ \E n \in DispatchName : TaskCleanup(t, n)
        BY <1>1, <2>2, TableNames DEF TaskFails, TaskCleanup
  <2>3. QED BY <1>6, <2>1, <2>2 DEF TaskStep
<1>7. ASSUME NEW c \in Client, CallStep(c) PROVE Moved
      BY <1>4, <1>5, <1>7 DEF CallStep, StopRetry, RestartStarts, StopReturns, RestartFails,
             RestartAbandoned
<1>8. CASE ClientStep
  <2>1. CASE \E n \in DispatchName : Dispatch(n)
        BY <1>1, <2>1, TableNames DEF Dispatch
  <2>2. QED BY <1>4, <1>5, <1>8, <2>1 DEF ClientStep, Start, ParentEnds, StopCall
<1>9. CASE Raise \/ \E i \in EventId : WaitBegins(i)
      BY <1>9 DEF Raise, WaitBegins
<1>10. CASE UNCHANGED vars
      BY <1>10
<1>11. QED BY <1>2, <1>3, <1>6, <1>7, <1>8, <1>9, <1>10 DEF Next, HolderStep

\* The event i waits among the regular events, or was looked at.
Noted(i) == i \in seen \/ \E k \in DOMAIN fifo : fifo[k].id = i

\* It stays so, unless stop() clears the queue.
LEMMA NotedStays ==
    ASSUME TypeOK, [Next]_vars, ~StopFinish
    PROVE  seen \subseteq seen' /\ \A i : Noted(i) => Noted(i)'
<1>1. CASE UNCHANGED <<fifo, seen>>
      BY <1>1 DEF Noted
<1>2. ASSUME NEW e \in Event, Push(e), UNCHANGED seen
      PROVE  seen \subseteq seen' /\ \A i : Noted(i) => Noted(i)'
      BY <1>2, PushedAt DEF Noted
<1>3. CASE ~QueueEmpty /\ PopQueue
  <2>1. CASE lifo # << >>
        BY <1>3, <2>1 DEF PopQueue, Noted
  <2>2. CASE lifo = << >>
    <3>1. fifo' = Tail(fifo) /\ seen' = seen \cup {Head(fifo).id} /\ fifo # << >>
          BY <1>3, <2>2 DEF PopQueue, QueueEmpty
    <3>2. fifo \in Seq(Event)
          BY DEF TypeOK
    <3>3. /\ Len(fifo) \in Nat \ {0} /\ DOMAIN fifo = 1 .. Len(fifo)
          /\ DOMAIN fifo' = 1 .. Len(fifo) - 1 /\ fifo[1] = Head(fifo)
          /\ \A k \in 1 .. Len(fifo) - 1 : fifo'[k] = fifo[k + 1]
          BY <3>1, <3>2, HeadTailProperties, LenProperties, EmptySeq
    <3>4. ASSUME NEW k \in DOMAIN fifo, k # 1
          PROVE  \E l \in DOMAIN fifo' : fifo'[l] = fifo[k]
      <4>1. k - 1 \in DOMAIN fifo' /\ fifo'[k - 1] = fifo[k]
            BY <3>3, <3>4
      <4>2. QED BY <4>1
    <3>5. ASSUME NEW i, Noted(i) PROVE Noted(i)'
      <4>1. CASE i \in seen
            BY <3>1, <4>1 DEF Noted
      <4>2. ASSUME NEW k \in DOMAIN fifo, fifo[k].id = i PROVE Noted(i)'
            BY <3>1, <3>3, <3>4, <4>2 DEF Noted
      <4>3. QED BY <3>5, <4>1, <4>2 DEF Noted
    <3>6. QED BY <3>1, <3>5
  <2>3. QED BY <2>1, <2>2
<1>4. QED BY <1>1, <1>2, <1>3, QueueMoves

\* While no callback raises and nobody stops the machine, its event was looked
\* at when dispatch() answers.
LEMMA AnswerLooked ==
    ASSUME TypeOK, RestInv, [Next]_vars, ~StopFinish, faults = 0, faults' = 0,
           NEW i \in EventId, i < nextId, Noted(i), answer'[i] = "true"
    PROVE  answer[i] = "true" \/ i \in seen
<1>1. Resting => i \in seen
      BY DEF RestInv, Noted, New, EventId
<1>2. ASSUME NEW n, Accept(n) PROVE answer[i] = "true"
  <2>1. i # nextId
        BY DEF TypeOK, EventId
  <2>2. QED BY <1>2, <2>1 DEF Accept, TypeOK
<1>3. CASE ~Answers
      BY <1>2, <1>3, OtherAnswers
<1>4. CASE Finish
      BY <1>1, <1>4 DEF Finish, Running, Resting
<1>5. ASSUME NEW j \in EventId, WaitBegins(j) PROVE answer[i] = "true" \/ i \in seen
      BY <1>1, <1>5 DEF WaitBegins, Resting, TypeOK
<1>6. ~Raise
      BY DEF Raise, TypeOK
<1>7. QED BY <1>3, <1>4, <1>5, <1>6 DEF Answers
=============================================================================
