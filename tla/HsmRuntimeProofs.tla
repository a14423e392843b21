--------------------------- MODULE HsmRuntimeProofs ---------------------------
(***************************************************************************)
(* Proofs about HsmRuntime for every FinalizedModel, any number of clients,*)
(* activity tasks, events and failing callbacks.                           *)
(***************************************************************************)
EXTENDS HsmRuntimeProps, SequenceTheorems, TLAPS

(***************************************************************************)
(* The types of the tables                                                 *)
(***************************************************************************)
\* The parts of TablesAssumption.
LEMMA TableNames ==
    /\ Root \in StateVertex /\ StateVertex \subseteq Vertex /\ None \notin Vertex
    /\ History \subseteq Vertex \ StateVertex
    /\ DispatchName \cup {AnyEvent, FinalEvent, ErrorEvent, InitialEvent} \subseteq EventName
BY TablesAssumption, NamesAssumption DEF TablesTyped, NamesTyped

LEMMA VertexTableTypes == \A v \in Vertex :
    /\ Chain(v) \in Seq(Vertex) /\ Chain(v) # << >>
    /\ v \in History => Len(Chain(v)) > 1
    /\ Initial(v) \in Transition \cup {None} /\ Outgoing(v) \in Seq(Transition)
    /\ Submachine(v) \in Vertex \cup {None}
    /\ Activities(v) \in Seq(Activity)
    /\ \A n \in EventName : /\ TransitionMap(v, n) \in Seq(Transition)
                            /\ DeferredMap(v, n) \in Vertex \cup {None}
    /\ \A skip \in Vertex \cup {None} :
           HistoryTargets(v, skip) \in [History -> Vertex \cup {None}]
    /\ \A h \in History : HistoryPath(h, v) \in Seq(Vertex)
BY TablesAssumption DEF TablesTyped, VerticesTyped

LEMMA TransitionTableTypes == \A t \in Transition :
    /\ Source(t) \in Vertex /\ Target(t) \in Vertex \cup {None}
    /\ \A v \in Vertex : EnterPath(t, v) \in Seq(Vertex) /\ ExitPath(t, v) \in Seq(Vertex)
BY TablesAssumption DEF TablesTyped, TransitionsTyped

(***************************************************************************)
(* What the agenda is built from                                           *)
(***************************************************************************)
\* Ops has the steps with these names, for every vertex.
Takes(Ops, names) == \A name \in names, v \in Vertex : ToDo(name, v) \in Ops

VertexOp == OpName \ {"spawn"}

LEMMA OpTakes == Takes(Op, VertexOp)
BY DEF Takes, ToDo, Op, VertexOp

\* _exit and _enter are called once for each vertex of a path.
LEMMA PathType ==
    ASSUME NEW Ops, Takes(Ops, {"enter", "through"}),
           NEW path \in Seq(Vertex), NEW target
    PROVE  Enters(path, target) \in Seq(Ops)
<1>1. DOMAIN path = 1 .. Len(path) /\ Len(path) \in Nat
      BY LenProperties
<1>2. \A i \in 1 .. Len(path) : path[i] \in Vertex
      BY ElementOfSeq
<1>3. \A i \in 1 .. Len(path) :
          ToDo(IF path[i] = target THEN "enter" ELSE "through", path[i]) \in Ops
      BY <1>2 DEF Takes
<1>4. QED BY <1>1, <1>3, SMT DEF Enters

LEMMA ExitsType ==
    ASSUME NEW Ops, Takes(Ops, {"exit"}), NEW path \in Seq(Vertex)
    PROVE  Exits(path) \in Seq(Ops)
<1>1. DOMAIN path = 1 .. Len(path) /\ Len(path) \in Nat
      BY LenProperties
<1>2. \A i \in 1 .. Len(path) : ToDo("exit", path[i]) \in Ops
      BY ElementOfSeq DEF Takes
<1>3. QED BY <1>1, <1>2, SMT DEF Exits

\* _enter spawns every activity of the state.
LEMMA SpawnsType ==
    ASSUME NEW Ops, \A a \in Activity : ToDo("spawn", a) \in Ops, NEW v \in Vertex
    PROVE  Spawns(v) \in Seq(Ops)
<1>1. Activities(v) \in Seq(Activity)
      BY VertexTableTypes
<1>2. DOMAIN Activities(v) = 1 .. Len(Activities(v)) /\ Len(Activities(v)) \in Nat
      BY <1>1, LenProperties
<1>3. \A i \in 1 .. Len(Activities(v)) : ToDo("spawn", Activities(v)[i]) \in Ops
      BY <1>1, ElementOfSeq
<1>4. QED BY <1>2, <1>3, SMT DEF Spawns

\* _transition
LEMMA TransitionAgendaType ==
    ASSUME NEW t \in Transition, NEW v \in Vertex, NEW Ops,
           Takes(Ops, {"exit", "effect", "enter", "through", "arrive"})
    PROVE  TransitionAgenda(t, v) \in Seq(Ops)
<1>1. Takes(Ops, {"exit"}) /\ Takes(Ops, {"enter", "through"})
      BY DEF Takes
<1>2. Exits(ExitPath(t, v)) \in Seq(Ops)
      BY <1>1, ExitsType, TransitionTableTypes
<1>3. <<ToDo("effect", v)>> \in Seq(Ops) /\ <<ToDo("arrive", v)>> \in Seq(Ops)
      BY DEF Takes
<1>4. Effects(t, v) \in Seq(Ops)
      BY <1>3, EmptySeq DEF Effects
<1>5. Exits(ExitPath(t, v)) \o Effects(t, v) \in Seq(Ops)
      BY <1>2, <1>4
<1>6. CASE Target(t) = None
      BY <1>3, <1>5, <1>6 DEF TransitionAgenda
<1>7. CASE Target(t) # None
  <2>1. Target(t) \in Vertex /\ EnterPath(t, v) \in Seq(Vertex)
        BY <1>7, TransitionTableTypes
  <2>2. <<ToDo("arrive", Target(t))>> \in Seq(Ops)
        BY <2>1 DEF Takes
  <2>3. Enters(EnterPath(t, v), Target(t)) \in Seq(Ops)
        BY <1>1, <2>1, PathType
  <2>4. Enters(EnterPath(t, v), Target(t)) \o <<ToDo("arrive", Target(t))>> \in Seq(Ops)
        BY <2>2, <2>3
  <2>5. QED BY <1>5, <1>7, <2>4 DEF TransitionAgenda
<1>8. QED BY <1>6, <1>7

(***************************************************************************)
(* Helpers that several actions use keep the types                         *)
(***************************************************************************)
LEMMA InitialTypes == Init => TypeOK
<1> SUFFICES ASSUME Init PROVE TypeOK
    OBVIOUS
<1>1. << >> \in Seq(Event) /\ << >> \in Seq(Op) /\ << >> \in Seq(Transition)
      /\ << >> \in Seq(Held)
      BY EmptySeq
<1>2. Root \in Vertex
      BY TableNames
<1>3. NoEvent \in Event
      BY TableNames DEF NoEvent, Event
<1>4. /\ state \in Vertex /\ from \in Vertex /\ taken \in Vertex
      /\ lifo \in Seq(Event) /\ fifo \in Seq(Event) /\ deferred \in Seq(Held)
      /\ agenda \in Seq(Op) /\ cands \in Seq(Transition) /\ cur \in Event
      BY <1>1, <1>2, <1>3 DEF Init
<1>5. /\ history \in [History -> Vertex \cup {None}]
      /\ active \in [Activity -> TaskId \cup {None}]
      /\ balance \in [StateVertex -> Int]
      /\ outcome \in [EventId -> Outcome] /\ answer \in [EventId -> Answer]
      BY DEF Init, Outcome, Answer
<1>6. /\ task \in [TaskId -> [status : TaskStatus, home : Activity \cup {None}]]
      /\ client \in [Client -> [status : CallStatus, mode : CallMode]]
      BY <1>2 DEF Init, TaskStatus, CallStatus, CallMode, IdleCall
<1>7. nextId \in 1 .. MaxEvents + 1
      BY BoundsAssumption DEF Init
<1>8. QED BY <1>4, <1>5, <1>6, <1>7 DEF Init, TypeOK, Stage

\* The queue holds events only.
LEMMA PushType ==
    ASSUME TypeOK, NEW e \in Event, Push(e)
    PROVE  lifo' \in Seq(Event) /\ fifo' \in Seq(Event)
<1>1. lifo \in Seq(Event) /\ fifo \in Seq(Event)
      BY DEF TypeOK
<1>2. <<e>> \o lifo \in Seq(Event) /\ Append(fifo, e) \in Seq(Event)
      BY <1>1
<1>3. QED BY <1>1, <1>2 DEF Push

LEMMA PopType ==
    ASSUME TypeOK, ~QueueEmpty, PopQueue
    PROVE  /\ lifo' \in Seq(Event) /\ fifo' \in Seq(Event)
           /\ NextEvent \in Event /\ seen' \subseteq EventId \cup {0}
<1>1. CASE lifo # << >>
  <2>1. Head(lifo) \in Event /\ Tail(lifo) \in Seq(Event)
        BY <1>1, HeadTailProperties DEF TypeOK
  <2>2. QED BY <1>1, <2>1 DEF TypeOK, PopQueue, NextEvent
<1>2. CASE lifo = << >>
  <2>1. Head(fifo) \in Event /\ Tail(fifo) \in Seq(Event)
        BY <1>2, HeadTailProperties DEF TypeOK, QueueEmpty
  <2>2. Head(fifo).id \in EventId \cup {0}
        BY <2>1 DEF Event
  <2>3. QED BY <1>2, <2>1, <2>2 DEF TypeOK, PopQueue, NextEvent
<1>3. QED BY <1>1, <1>2

\* dispatch
LEMMA AcceptType ==
    ASSUME TypeOK, NEW n \in EventName, Accept(n)
    PROVE  /\ lifo' \in Seq(Event) /\ fifo' \in Seq(Event)
           /\ nextId' \in 1 .. MaxEvents + 1
           /\ answer' \in [EventId -> Answer]
           /\ holder' \in {Free, Startup, Process} \cup Client
           /\ stage' \in Stage /\ curId' \in EventId \cup {0}
<1>1. [id |-> nextId, name |-> n] \in Event
      BY DEF Accept, Event
<1>2. lifo' \in Seq(Event) /\ fifo' \in Seq(Event)
      BY <1>1, PushType DEF Accept
<1>3. nextId' \in 1 .. MaxEvents + 1
      BY BoundsAssumption DEF Accept, EventId
<1>4. QED BY <1>2, <1>3 DEF Accept, TypeOK, Answer, Stage

LEMMA AgendaType ==
    ASSUME TypeOK, agenda # << >>
    PROVE  /\ Head(agenda) \in Op /\ Tail(agenda) \in Seq(Op)
           /\ Head(agenda).op # "spawn" => Vtx \in Vertex
           /\ Head(agenda).op = "spawn" => Vtx \in Activity
<1>1. Head(agenda) \in Op /\ Tail(agenda) \in Seq(Op)
      BY HeadTailProperties DEF TypeOK
<1>2. QED BY <1>1 DEF Op, Vtx

LEMMA CandsType ==
    ASSUME TypeOK, cands # << >>
    PROVE  Head(cands) \in Transition /\ Tail(cands) \in Seq(Transition)
BY HeadTailProperties DEF TypeOK

LEMMA DeferredType ==
    ASSUME TypeOK, deferred # << >>
    PROVE  /\ Tail(deferred) \in Seq(Held)
           /\ Head(deferred).event \in Event /\ Head(deferred).owner \in Vertex
<1>1. Head(deferred) \in Held /\ Tail(deferred) \in Seq(Held)
      BY HeadTailProperties DEF TypeOK
<1>2. QED BY <1>1 DEF Held

\* What an event is held with.
LEMMA DeferType ==
    ASSUME TypeOK, NEW e \in Event, DeferOwner(e) # None
    PROVE  Append(deferred, [owner |-> DeferOwner(e), event |-> e]) \in Seq(Held)
<1>1. e.name \in EventName
      BY DEF Event
<1>2. DeferOwner(e) \in Vertex
      BY <1>1, VertexTableTypes DEF DeferOwner, TypeOK
<1>3. [owner |-> DeferOwner(e), event |-> e] \in Held
      BY <1>2 DEF Held
<1>4. deferred \in Seq(Held)
      BY DEF TypeOK
<1>5. QED BY <1>3, <1>4

LEMMA SettleType ==
    ASSUME TypeOK, NEW ids, NEW what \in Outcome
    PROVE  Settle(ids, what) \in [EventId -> Outcome]
BY DEF TypeOK, Settle

LEMMA AnsweredType ==
    ASSUME TypeOK, NEW ran \in Answer
    PROVE  Answered(ran) \in [EventId -> Answer]
BY DEF TypeOK, Answered, Answer

LEMMA StatusType ==
    ASSUME TypeOK, NEW t \in TaskId, NEW status \in TaskStatus
    PROVE  [task EXCEPT ![t].status = status]
               \in [TaskId -> [status : TaskStatus, home : Activity \cup {None}]]
<1>1. task[t] \in [status : TaskStatus, home : Activity \cup {None}]
      BY DEF TypeOK
<1>2. [task[t] EXCEPT !.status = status] \in [status : TaskStatus, home : Activity \cup {None}]
      BY <1>1
<1>3. QED BY <1>2 DEF TypeOK

LEMMA WokenType ==
    ASSUME TypeOK
    PROVE  Woken(client) \in [Client -> [status : CallStatus, mode : CallMode]]
BY DEF TypeOK, Woken, CallStatus

\* Mutex.release at the end of whatever the holder did
LEMMA ReleaseType ==
    ASSUME TypeOK, Release
    PROVE  /\ holder' \in {Free, Startup, Process} \cup Client /\ stage' \in Stage
           /\ agenda' \in Seq(Op) /\ cands' \in Seq(Transition)
           /\ from' \in Vertex /\ waitOn' \in TaskId \cup {None}
<1>1. << >> \in Seq(Op) /\ << >> \in Seq(Transition)
      BY EmptySeq
<1>2. QED BY <1>1, TableNames DEF Release, Stage

\* _transition, up to its first call
LEMMA FollowType ==
    ASSUME TypeOK, NEW t \in Transition, NEW v \in Vertex, Follow(t, v)
    PROVE  /\ stage' \in Stage /\ agenda' \in Seq(Op)
           /\ cands' \in Seq(Transition) /\ from' \in Vertex
           /\ history' \in [History -> Vertex \cup {None}]
<1>1. stage' \in Stage /\ agenda' \in Seq(Op)
      BY TransitionAgendaType, OpTakes DEF Follow, Stage, Takes, VertexOp, OpName
<1>2. cands' \in Seq(Transition) /\ from' \in Vertex
      BY EmptySeq, TableNames DEF Follow
<1>3. SkipOwner(t) \in Vertex \cup {None}
  <2>1. CASE Target(t) \in History
    <3>1. Target(t) \in Vertex
          BY <2>1, TableNames
    <3>2. Chain(Target(t)) \in Seq(Vertex) /\ Len(Chain(Target(t))) > 1
          BY <2>1, <3>1, VertexTableTypes
    <3>3. Chain(Target(t))[2] \in Vertex
          BY <3>2, ElementOfSeq, LenProperties
    <3>4. QED BY <2>1, <3>3 DEF SkipOwner
  <2>2. QED BY <2>1 DEF SkipOwner
<1>4. HistoryTargets(v, SkipOwner(t)) \in [History -> Vertex \cup {None}]
      BY <1>3, VertexTableTypes
<1>5. history' \in [History -> Vertex \cup {None}]
      BY <1>4 DEF Follow, Remember, TypeOK
<1>6. QED BY <1>1, <1>2, <1>5

(***************************************************************************)
(* Every action keeps the types                                            *)
(***************************************************************************)
LEMMA ProcessTypes == TypeOK /\ ProcessStep => TypeOK'
<1> USE DEF machineVars, queueVars, runVars, workVars, eventVars, stateVars, restVars,
            taskVars, lifeVars, ghostVars, GoTo, Continue, TaskEnds, CallBecomes
<1>1. ASSUME TypeOK, PopDeferred PROVE TypeOK'
  <2>1. /\ lifo' \in Seq(Event) /\ fifo' \in Seq(Event)
        /\ NextEvent \in Event /\ seen' \subseteq EventId \cup {0}
        BY <1>1, PopType DEF PopDeferred
  <2>2. deferred' \in Seq(Held)
        BY <1>1, <2>1, DeferType DEF PopDeferred, DeferUnseen
  <2>3. QED BY <1>1, <2>1, <2>2 DEF PopDeferred, TypeOK
<1>2. ASSUME TypeOK, PopEvent PROVE TypeOK'
  <2>1. /\ lifo' \in Seq(Event) /\ fifo' \in Seq(Event)
        /\ NextEvent \in Event /\ seen' \subseteq EventId \cup {0}
        BY <1>2, PopType DEF PopEvent
  <2>2. NextEvent.name \in EventName /\ AnyEvent \in EventName
        BY <2>1, TableNames DEF Event
  <2>3. state \in Vertex
        BY <1>2 DEF TypeOK
  <2>4. /\ TransitionMap(state, NextEvent.name) \in Seq(Transition)
        /\ TransitionMap(state, AnyEvent) \in Seq(Transition)
        BY <2>2, <2>3, VertexTableTypes
  <2>5. Candidates(NextEvent) \in Seq(Transition)
        BY <2>4, EmptySeq DEF Candidates
  <2>6. QED BY <1>2, <2>1, <2>5 DEF PopEvent, TypeOK, Stage
<1>3. ASSUME TypeOK, TakeTransition PROVE TypeOK'
  <2>1. Head(cands) \in Transition /\ from \in Vertex
        BY <1>3, CandsType DEF TakeTransition, TypeOK
  <2>2. Source(Head(cands)) \in Vertex
        BY <2>1, TransitionTableTypes
  <2>3. Follow(Head(cands), from)
        BY <1>3 DEF TakeTransition
  <2>4. /\ stage' \in Stage /\ agenda' \in Seq(Op)
        /\ cands' \in Seq(Transition) /\ from' \in Vertex
        /\ history' \in [History -> Vertex \cup {None}]
        BY <1>3, <2>1, <2>3, FollowType
  <2>5. QED BY <1>3, <2>2, <2>4 DEF TakeTransition, TypeOK
<1>4. ASSUME TypeOK, GuardFails \/ HandlerRuns PROVE TypeOK'
  <2>1. NextCandidate /\ cands # << >>
        BY <1>4 DEF GuardFails, InGuard, HandlerRuns, HandlerNext
  <2>2. QED BY <1>4, <2>1, CandsType DEF NextCandidate, TypeOK
<1>5. ASSUME TypeOK, Unhandled PROVE TypeOK'
  <2>1. << >> \in Seq(Op) /\ Root \in Vertex /\ NoEvent \in Event /\ cur \in Event
        BY <1>5, EmptySeq, TableNames DEF NoEvent, Event, TypeOK
  <2>2. deferred' \in Seq(Held)
        BY <1>5, <2>1, DeferType DEF Unhandled, TypeOK
  <2>3. outcome' \in [EventId -> Outcome]
        BY <1>5, SettleType DEF Unhandled, Outcome, TypeOK
  <2>4. QED BY <1>5, <2>1, <2>2, <2>3 DEF Unhandled, TypeOK, Stage
<1>6. ASSUME TypeOK, Arrive PROVE TypeOK'
  <2>1. Vtx \in Vertex /\ << >> \in Seq(Op) /\ NoEvent \in Event
        BY <1>6, AgendaType, EmptySeq, TableNames DEF Arrive, Doing, NoEvent, Event
  <2>2. outcome' \in [EventId -> Outcome]
        BY <1>6, SettleType DEF Arrive, Outcome
  <2>3. QED BY <1>6, <2>1, <2>2 DEF Arrive, TypeOK, Stage
<1>7. ASSUME TypeOK, Replay PROVE TypeOK'
  <2>1. Tail(deferred) \in Seq(Held) /\ Head(deferred).event \in Event
        BY <1>7, DeferredType DEF Replay
  <2>2. lifo' \in Seq(Event) /\ fifo' \in Seq(Event)
        BY <1>7, <2>1, PushType DEF Replay, TypeOK
  <2>3. outcome' \in [EventId -> Outcome]
        BY <1>7, SettleType DEF Replay, Outcome, TypeOK
  <2>4. QED BY <1>7, <2>1, <2>2, <2>3 DEF Replay, TypeOK
<1>8. ASSUME TypeOK, Replayed \/ Drain PROVE TypeOK'
      BY <1>8 DEF Replayed, Drain, TypeOK, Stage
<1>9. ASSUME TypeOK, PutBack PROVE TypeOK'
  <2>1. Tail(deferred) \in Seq(Held) /\ Head(deferred).event \in Event
        BY <1>9, DeferredType DEF PutBack
  <2>2. lifo' \in Seq(Event) /\ fifo' \in Seq(Event)
        BY <1>9, <2>1, PushType DEF PutBack
  <2>3. QED BY <1>9, <2>1, <2>2 DEF PutBack, TypeOK
<1>10. ASSUME TypeOK, Finish PROVE TypeOK'
  <2>1. /\ holder' \in {Free, Startup, Process} \cup Client /\ stage' \in Stage
        /\ agenda' \in Seq(Op) /\ cands' \in Seq(Transition)
        /\ from' \in Vertex /\ waitOn' \in TaskId \cup {None}
        BY <1>10, ReleaseType DEF Finish
  <2>2. /\ client' \in [Client -> [status : CallStatus, mode : CallMode]]
        /\ answer' \in [EventId -> Answer]
        BY <1>10, WokenType, AnsweredType DEF Finish, Answer
  <2>3. Root \in Vertex
        BY TableNames
  <2>4. QED BY <1>10, <2>1, <2>2, <2>3 DEF Finish, TypeOK
<1>11. QED BY <1>1, <1>2, <1>3, <1>4, <1>5, <1>6, <1>7, <1>8, <1>9, <1>10
          DEF ProcessStep, NoTransition, NoResult

LEMMA FileType ==
    ASSUME TypeOK, NEW status \in TaskStatus, File(status)
    PROVE  /\ active' \in [Activity -> TaskId \cup {None}]
           /\ task' \in [TaskId -> [status : TaskStatus, home : Activity \cup {None}]]
           /\ agenda' \in Seq(Op)
<1>1. Vtx \in Activity /\ Tail(agenda) \in Seq(Op)
      BY AgendaType DEF File, Doing
<1>2. NextTask \in TaskId
      BY DEF File, NextTask
<1>3. QED BY <1>1, <1>2 DEF File, TypeOK

LEMMA TransitionTypes == TypeOK /\ TransitionStep => TypeOK'
<1> USE DEF machineVars, queueVars, runVars, workVars, eventVars, stateVars, restVars,
            taskVars, lifeVars, ghostVars, GoTo, Continue, TaskEnds, CallBecomes
<1>1. ASSUME TypeOK, Effect PROVE TypeOK'
      BY <1>1, AgendaType DEF Effect, Doing, TypeOK
<1>2. ASSUME TypeOK, EnterState PROVE TypeOK'
  <2>1. Vtx \in Vertex /\ Tail(agenda) \in Seq(Op)
        BY <1>2, AgendaType DEF EnterState, Doing
  <2>2. Spawns(Vtx) \in Seq(Op) /\ <<ToDo("default", Vtx)>> \in Seq(Op)
        BY <2>1, SpawnsType, OpTakes DEF Takes, VertexOp, OpName, Op, ToDo
  <2>3. agenda' \in Seq(Op)
        BY <1>2, <2>1, <2>2 DEF EnterState
  <2>4. balance' \in [StateVertex -> Int]
        BY <1>2 DEF EnterState, TypeOK
  <2>5. QED BY <1>2, <2>3, <2>4 DEF EnterState, TypeOK
<1>3. ASSUME TypeOK, EnterFinal PROVE TypeOK'
  <2>1. [id |-> 0, name |-> FinalEvent] \in Event
        BY TableNames DEF Event
  <2>2. lifo' \in Seq(Event) /\ fifo' \in Seq(Event)
        BY <1>3, <2>1, PushType DEF EnterFinal
  <2>3. agenda' \in Seq(Op)
        BY <1>3, AgendaType, OpTakes DEF EnterFinal, Doing, Takes, VertexOp, OpName
  <2>4. QED BY <1>3, <2>2, <2>3 DEF EnterFinal, TypeOK
<1>4. ASSUME TypeOK, EnterSimple PROVE TypeOK'
  <2>1. agenda' \in Seq(Op)
        BY <1>4, AgendaType, OpTakes DEF EnterSimple, Doing, Takes, VertexOp, OpName
  <2>2. QED BY <1>4, <2>1 DEF EnterSimple, TypeOK
<1>5. ASSUME TypeOK, EnterInitial PROVE TypeOK'
  <2>1. Vtx \in Vertex
        BY <1>5, AgendaType DEF EnterInitial, Doing
  <2>2. Initial(Vtx) \in Transition /\ Follow(Initial(Vtx), Vtx)
        BY <1>5, <2>1, VertexTableTypes DEF EnterInitial
  <2>3. /\ stage' \in Stage /\ agenda' \in Seq(Op)
        /\ cands' \in Seq(Transition) /\ from' \in Vertex
        /\ history' \in [History -> Vertex \cup {None}]
        BY <1>5, <2>1, <2>2, FollowType
  <2>4. QED BY <1>5, <2>3 DEF EnterInitial, TypeOK
<1>6. ASSUME TypeOK, EnterPseudo PROVE TypeOK'
  <2>1. Vtx \in Vertex /\ << >> \in Seq(Op)
        BY <1>6, AgendaType, EmptySeq DEF EnterPseudo, Doing
  <2>2. Outgoing(Vtx) \in Seq(Transition)
        BY <2>1, VertexTableTypes
  <2>3. QED BY <1>6, <2>1, <2>2 DEF EnterPseudo, TypeOK, Stage
<1>7. ASSUME TypeOK, EnterHistory PROVE TypeOK'
  <2>1. Vtx \in Vertex /\ history[Vtx] \in Vertex
        BY <1>7, AgendaType DEF EnterHistory, Doing, TypeOK
  <2>2. HistoryPath(Vtx, history[Vtx]) \in Seq(Vertex)
        BY <1>7, <2>1, VertexTableTypes DEF EnterHistory
  <2>3. Enters(HistoryPath(Vtx, history[Vtx]), history[Vtx]) \in Seq(Op)
        BY <2>2, PathType, OpTakes DEF Takes, VertexOp, OpName
  <2>4. <<ToDo("none", Vtx)>> \in Seq(Op)
        BY <2>1, OpTakes DEF Takes, VertexOp, OpName
  <2>5. agenda' \in Seq(Op)
        BY <1>7, <2>3, <2>4 DEF EnterHistory
  <2>6. QED BY <1>7, <2>5 DEF EnterHistory, TypeOK
<1>8. ASSUME TypeOK, NoBranch PROVE TypeOK'
  <2>1. from \in Vertex /\ Root \in Vertex
        BY <1>8, TableNames DEF TypeOK
  <2>2. agenda' \in Seq(Op)
        BY <1>8, <2>1, OpTakes DEF NoBranch, Takes, VertexOp, OpName
  <2>3. QED BY <1>8, <2>1, <2>2 DEF NoBranch, TypeOK, Stage
<1>9. ASSUME TypeOK, Spawn PROVE TypeOK'
  <2>1. PICK status \in {"done", IF ctxDone THEN "orphan" ELSE "live"} : File(status)
        BY <1>9 DEF Spawn
  <2>2. status \in TaskStatus
        BY <2>1 DEF TaskStatus
  <2>3. QED BY <1>9, <2>1, <2>2, FileType DEF Spawn, TypeOK
<1>10. ASSUME TypeOK, SpawnFails PROVE TypeOK'
  <2>1. /\ active' \in [Activity -> TaskId \cup {None}]
        /\ task' \in [TaskId -> [status : TaskStatus, home : Activity \cup {None}]]
        /\ agenda' \in Seq(Op)
        BY <1>10, FileType DEF SpawnFails, TaskStatus
  <2>2. Accept(ErrorEvent) /\ ErrorEvent \in EventName
        BY <1>10, TableNames DEF SpawnFails
  <2>3. /\ lifo' \in Seq(Event) /\ fifo' \in Seq(Event)
        /\ nextId' \in 1 .. MaxEvents + 1 /\ answer' \in [EventId -> Answer]
        /\ holder' \in {Free, Startup, Process} \cup Client
        /\ stage' \in Stage /\ curId' \in EventId \cup {0}
        BY <1>10, <2>2, AcceptType
  <2>4. QED BY <1>10, <2>1, <2>2, <2>3 DEF SpawnFails, Accept, TypeOK
<1>11. ASSUME TypeOK, Terminate PROVE TypeOK'
  <2>1. PICK i \in DOMAIN Activities(Vtx) :
            LET a == Activities(Vtx)[i]
            IN  /\ active[a] # None
                /\ active' = [active EXCEPT ![a] = None]
                /\ IF task[active[a]].status = "done" THEN UNCHANGED <<task, waitOn>>
                                                      ELSE Cancel(active[a])
        BY <1>11 DEF Terminate
  <2>2. Activities(Vtx) \in Seq(Activity)
        BY <1>11, AgendaType, VertexTableTypes DEF Terminate, Doing
  <2>3. Activities(Vtx)[i] \in Activity
        BY <2>2, ElementOfSeq, LenProperties
  <2>4. active[Activities(Vtx)[i]] \in TaskId
        BY <1>11, <2>1, <2>3 DEF TypeOK
  <2>5. /\ active' \in [Activity -> TaskId \cup {None}]
        /\ task' \in [TaskId -> [status : TaskStatus, home : Activity \cup {None}]]
        /\ waitOn' \in TaskId \cup {None}
    <3>1. CASE task[active[Activities(Vtx)[i]]].status = "done"
          BY <1>11, <2>1, <3>1 DEF TypeOK
    <3>2. CASE task[active[Activities(Vtx)[i]]].status # "done"
      <4>1. /\ active' = [active EXCEPT ![Activities(Vtx)[i]] = None]
            /\ task' = [task EXCEPT ![active[Activities(Vtx)[i]]].status = "cancelling"]
            /\ waitOn' = active[Activities(Vtx)[i]]
            BY <2>1, <3>2 DEF Cancel
      <4>2. "cancelling" \in TaskStatus
            BY DEF TaskStatus
      <4>3. QED BY <1>11, <2>4, <4>1, <4>2, StatusType DEF TypeOK
    <3>3. QED BY <3>1, <3>2
  <2>6. QED BY <1>11, <2>5 DEF Terminate, TypeOK
<1>12. ASSUME TypeOK, Resume PROVE TypeOK'
      BY <1>12 DEF Resume, TypeOK
<1>13. ASSUME TypeOK, Leave PROVE TypeOK'
  <2>1. Tail(agenda) \in Seq(Op)
        BY <1>13, AgendaType DEF Leave, Doing
  <2>2. balance' \in [StateVertex -> Int]
        BY <1>13 DEF Leave, TypeOK
  <2>3. QED BY <1>13, <2>1, <2>2 DEF Leave, TypeOK
<1>14. QED BY <1>1, <1>2, <1>3, <1>4, <1>5, <1>6, <1>7, <1>8, <1>9, <1>10, <1>11,
              <1>12, <1>13 DEF TransitionStep

\* The activities, the calls of the clients and a raising callback.
LEMMA CallTypes ==
    TypeOK /\ (StopFinish \/ Raise \/ (\E t \in TaskId : TaskStep(t))
               \/ (\E c \in Client : CallStep(c)) \/ ClientStep) => TypeOK'
<1> USE DEF machineVars, queueVars, runVars, workVars, eventVars, stateVars, restVars,
            taskVars, lifeVars, ghostVars, GoTo, Continue, TaskEnds, CallBecomes
<1>1. ASSUME TypeOK, StopFinish PROVE TypeOK'
  <2>1. /\ holder' \in {Free, Startup, Process} \cup Client /\ stage' \in Stage
        /\ agenda' \in Seq(Op) /\ cands' \in Seq(Transition)
        /\ from' \in Vertex /\ waitOn' \in TaskId \cup {None}
        BY <1>1, ReleaseType DEF StopFinish, ClearQueue
  <2>2. /\ Woken(client) \in [Client -> [status : CallStatus, mode : CallMode]]
        /\ answer' \in [EventId -> Answer] /\ outcome' \in [EventId -> Outcome]
        BY <1>1, WokenType, AnsweredType, SettleType DEF StopFinish, ClearQueue, Answer, Outcome
  <2>3. client' \in [Client -> [status : CallStatus, mode : CallMode]]
        BY <1>1, <2>2 DEF StopFinish, ClearQueue, CallStatus
  <2>4. Root \in Vertex /\ << >> \in Seq(Event)
        BY EmptySeq, TableNames
  <2>5. QED BY <1>1, <2>1, <2>2, <2>3, <2>4 DEF StopFinish, ClearQueue, TypeOK
<1>2. ASSUME TypeOK, Raise PROVE TypeOK'
  <2>1. /\ holder' \in {Free, Startup, Process} \cup Client /\ stage' \in Stage
        /\ agenda' \in Seq(Op) /\ cands' \in Seq(Transition)
        /\ from' \in Vertex /\ waitOn' \in TaskId \cup {None}
        BY <1>2, ReleaseType DEF Raise
  <2>2. /\ answer' \in [EventId -> Answer] /\ outcome' \in [EventId -> Outcome]
        BY <1>2, AnsweredType DEF Raise, Answer, Outcome, TypeOK
  <2>3. client' \in [Client -> [status : CallStatus, mode : CallMode]]
        BY <1>2, WokenType DEF Raise, IdleCall, CallStatus, CallMode
  <2>4. Root \in Vertex /\ << >> \in Seq(Held) /\ NoEvent \in Event
        BY EmptySeq, TableNames DEF NoEvent, Event
  <2>5. faults' \in Nat
        BY <1>2 DEF Raise, TypeOK
  <2>6. QED BY <1>2, <2>1, <2>2, <2>3, <2>4, <2>5 DEF Raise, TypeOK
<1>3. ASSUME TypeOK, NEW t \in TaskId, TaskStep(t) PROVE TypeOK'
  <2>1. CASE TaskFinishes(t) \/ TaskCancelled(t)
        BY <1>3, <2>1 DEF TaskFinishes, TaskCancelled, TypeOK, TaskStatus
  <2>2. ASSUME NEW n \in EventName, Accept(n),
               TaskFails(t) \/ TaskCleanup(t, n)
        PROVE TypeOK'
    <3>1. /\ lifo' \in Seq(Event) /\ fifo' \in Seq(Event)
          /\ nextId' \in 1 .. MaxEvents + 1 /\ answer' \in [EventId -> Answer]
          /\ holder' \in {Free, Startup, Process} \cup Client
          /\ stage' \in Stage /\ curId' \in EventId \cup {0}
          BY <1>3, <2>2, AcceptType
    <3>2. task' \in [TaskId -> [status : TaskStatus, home : Activity \cup {None}]]
      <4>1. PICK status \in TaskStatus : task' = [task EXCEPT ![t].status = status]
        <5>1. CASE TaskFails(t)
              BY <5>1 DEF TaskFails, TaskStatus
        <5>2. CASE TaskCleanup(t, n)
              BY <1>3, <5>2 DEF TaskCleanup, TypeOK, TaskStatus
        <5>3. QED BY <2>2, <5>1, <5>2
      <4>2. QED BY <1>3, <4>1, StatusType
    <3>3. QED BY <1>3, <2>2, <3>1, <3>2 DEF TaskFails, TaskCleanup, Accept, TypeOK
  <2>3. CASE TaskFails(t)
        BY <2>2, <2>3, TableNames DEF TaskFails
  <2>4. ASSUME NEW n \in DispatchName, TaskCleanup(t, n) PROVE TypeOK'
        BY <2>2, <2>4, TableNames DEF TaskCleanup
  <2>5. QED BY <1>3, <2>1, <2>3, <2>4 DEF TaskStep
<1>4. ASSUME TypeOK, BeginStartup,
             client' \in [Client -> [status : CallStatus, mode : CallMode]]
      PROVE  TypeOK'
  <2>1. Root \in StateVertex /\ Root \in Vertex
        BY TableNames
  <2>2. agenda' \in Seq(Op)
        BY <1>4, <2>1, OpTakes DEF BeginStartup, Takes, VertexOp, OpName
  <2>3. task' \in [TaskId -> [status : TaskStatus, home : Activity \cup {None}]]
        BY <1>4 DEF BeginStartup, LiveBecome, NewContext, TypeOK, TaskStatus
  <2>4. balance' \in [StateVertex -> Int]
    <3>1. balance' = [balance EXCEPT ![Root] = 0] /\ balance \in [StateVertex -> Int]
          BY <1>4 DEF BeginStartup, LiveBecome, NewContext, TypeOK
    <3>2. \A v \in StateVertex : [balance EXCEPT ![Root] = 0][v] \in Int
          BY <3>1
    <3>3. QED BY <3>1, <3>2
  <2>5. QED BY <1>4, <2>2, <2>3, <2>4 DEF BeginStartup, LiveBecome, NewContext, TypeOK, Stage
<1>5. ASSUME TypeOK, NEW c \in Client, NEW m \in CallMode,
             BeginStop(c, m) \/ StopWaits(c, m)
      PROVE  TypeOK'
  <2>1. client' \in [Client -> [status : CallStatus, mode : CallMode]]
    <3>1. client \in [Client -> [status : CallStatus, mode : CallMode]]
          BY <1>5 DEF TypeOK
    <3>2. PICK st \in CallStatus : client' = [client EXCEPT ![c] = [status |-> st, mode |-> m]]
          BY <1>5 DEF BeginStop, LiveBecome, StopWaits, CallStatus
    <3>3. QED BY <3>1, <3>2
  <2>2. CASE StopWaits(c, m)
        BY <1>5, <2>1, <2>2 DEF StopWaits, TypeOK
  <2>3. CASE BeginStop(c, m)
    <3>1. Chain(state) \in Seq(Vertex)
          BY <1>5, VertexTableTypes DEF TypeOK
    <3>2. SubSeq(Chain(state), 1, Len(Chain(state)) - 1) \in Seq(Vertex)
          BY <3>1
    <3>3. <<ToDo("halt", Root)>> \in Seq(Op)
          BY TableNames, OpTakes DEF Takes, VertexOp, OpName
    <3>4. agenda' \in Seq(Op)
      <4>1. Exits(SubSeq(Chain(state), 1, Len(Chain(state)) - 1)) \in Seq(Op)
            BY <3>2, ExitsType, OpTakes DEF Takes, VertexOp, OpName
      <4>2. QED BY <2>3, <3>3, <4>1 DEF BeginStop, LiveBecome
    <3>5. task' \in [TaskId -> [status : TaskStatus, home : Activity \cup {None}]]
          BY <1>5, <2>3 DEF BeginStop, LiveBecome, TypeOK, TaskStatus
    <3>6. QED BY <1>5, <2>1, <2>3, <3>4, <3>5 DEF BeginStop, LiveBecome, TypeOK, Stage
  <2>4. QED BY <1>5, <2>2, <2>3
<1>6. ASSUME TypeOK, NEW c \in Client, CallStep(c) PROVE TypeOK'
  <2>1. client[c].mode \in CallMode
        BY <1>6 DEF TypeOK
  <2>2. CASE StopRetry(c)
        BY <1>5, <1>6, <2>1, <2>2 DEF StopRetry
  <2>3. CASE StopReturns(c) \/ RestartFails(c)
    <3>1. IdleCall \in [status : CallStatus, mode : CallMode]
          BY DEF IdleCall, CallStatus, CallMode
    <3>2. /\ client' = [client EXCEPT ![c] = IdleCall]
          /\ UNCHANGED <<machineVars, taskVars, faults>>
          BY <2>3 DEF StopReturns, RestartFails
    <3>3. client' \in [Client -> [status : CallStatus, mode : CallMode]]
          BY <1>6, <3>1, <3>2 DEF TypeOK
    <3>4. QED BY <1>6, <3>2, <3>3 DEF TypeOK
  <2>4. CASE RestartStarts(c)
    <3>1. client' \in [Client -> [status : CallStatus, mode : CallMode]]
          BY <1>6, <2>4 DEF RestartStarts, IdleCall, TypeOK, CallStatus, CallMode
    <3>2. QED BY <1>4, <1>6, <2>4, <3>1 DEF RestartStarts
  <2>5. CASE RestartAbandoned(c)
    <3>1. client' \in [Client -> [status : CallStatus, mode : CallMode]]
      <4>1. client \in [Client -> [status : CallStatus, mode : CallMode]]
            BY <1>6 DEF TypeOK
      <4>2. IdleCall \in [status : CallStatus, mode : CallMode] /\ "stop" \in CallMode
            BY DEF IdleCall, CallStatus, CallMode
      <4>3. \/ client' = [client EXCEPT ![c].mode = "stop"]
            \/ client' = [client EXCEPT ![c] = IdleCall]
            BY <2>5 DEF RestartAbandoned
      <4>4. QED BY <4>1, <4>2, <4>3
    <3>2. task' \in [TaskId -> [status : TaskStatus, home : Activity \cup {None}]]
      <4>1. task \in [TaskId -> [status : TaskStatus, home : Activity \cup {None}]]
            BY <1>6 DEF TypeOK
      <4>2. QED BY <2>5, <4>1 DEF RestartAbandoned, TaskStatus
    <3>3. QED BY <1>6, <2>5, <3>1, <3>2 DEF RestartAbandoned, TypeOK
  <2>6. QED BY <1>6, <2>2, <2>3, <2>4, <2>5 DEF CallStep
<1>7. ASSUME TypeOK, ClientStep PROVE TypeOK'
  <2>1. CASE Start
        BY <1>4, <1>7, <2>1 DEF Start, TypeOK
  <2>2. ASSUME NEW n \in DispatchName, Dispatch(n) PROVE TypeOK'
    <3>1. n \in EventName /\ Accept(n)
          BY <2>2, TableNames DEF Dispatch
    <3>2. /\ lifo' \in Seq(Event) /\ fifo' \in Seq(Event)
          /\ nextId' \in 1 .. MaxEvents + 1 /\ answer' \in [EventId -> Answer]
          /\ holder' \in {Free, Startup, Process} \cup Client
          /\ stage' \in Stage /\ curId' \in EventId \cup {0}
          BY <1>7, <3>1, AcceptType
    <3>3. QED BY <1>7, <2>2, <3>1, <3>2 DEF Dispatch, Accept, TypeOK
  <2>3. ASSUME NEW c \in Client, NEW m \in CallMode, StopCall(c, m) PROVE TypeOK'
        BY <1>5, <1>7, <2>3 DEF StopCall
  <2>4. CASE ParentEnds
        BY <1>7, <2>4 DEF ParentEnds, LiveBecome, TypeOK, TaskStatus
  <2>5. QED BY <1>7, <2>1, <2>2, <2>3, <2>4 DEF ClientStep
<1>8. QED BY <1>1, <1>2, <1>3, <1>6, <1>7

\* The task of a dispatch() that found the mutex taken.
LEMMA WaitTypes == TypeOK /\ (\E i \in EventId : WaitBegins(i)) => TypeOK'
<1> SUFFICES ASSUME TypeOK, NEW i \in EventId, WaitBegins(i) PROVE TypeOK'
    OBVIOUS
<1>1. answer' \in [EventId -> Answer]
      BY DEF WaitBegins, TypeOK, Answer
<1>2. QED BY <1>1 DEF WaitBegins, TypeOK, queueVars, runVars, workVars, eventVars, stateVars,
                      restVars, taskVars, lifeVars

LEMMA StepTypes == TypeOK /\ [Next]_vars => TypeOK'
<1>1. ASSUME TypeOK, UNCHANGED vars PROVE TypeOK'
      BY <1>1 DEF vars, machineVars, queueVars, runVars, workVars, eventVars,
                  stateVars, taskVars, lifeVars, ghostVars, TypeOK
<1>2. QED BY <1>1, ProcessTypes, TransitionTypes, CallTypes, WaitTypes DEF Next, HolderStep

(***************************************************************************)
(* Every variable keeps its type, whatever chart is run: in particular the *)
(* vertex of every pending step, the transitions still to be looked at and *)
(* the memory of every history are vertices and transitions of the model.  *)
(***************************************************************************)
THEOREM TypeCorrect == Spec => []TypeOK
BY InitialTypes, StepTypes, PTL DEF Spec

(***************************************************************************)
(* The mutex _processing: no lost wakeup, one owner, and a stop() that     *)
(* only leaves states.                                                     *)
(***************************************************************************)

\* What a stop() and what everybody else may have to do.
LEMMA StopTakes == Takes(StopOp, {"exit", "halt"})
BY DEF Takes, ToDo, StopOp

LEMMA WorkTakes ==
    Takes(WorkOp, {"exit", "effect", "enter", "through", "default", "arrive", "none"})
BY DEF Takes, ToDo, WorkOp, OpName

\* A holder at work, in a step that is not one of a stop(), is no client.
LEMMA NotStopping ==
    ASSUME MutexInv,
           \/ stage # "run"
           \/ agenda # << >> /\ Head(agenda).op \notin {"exit", "halt"}
    PROVE  holder \notin Client
<1> SUFFICES ASSUME holder \in Client PROVE FALSE
    OBVIOUS
<1>1. stage = "run" /\ agenda \in Seq(StopOp)
      BY DEF MutexInv, HolderWork
<1>2. agenda # << >> => Head(agenda) \in StopOp
      BY <1>1, HeadTailProperties
<1>3. QED BY <1>1, <1>2 DEF StopOp

LEMMA Busy == MutexInv /\ stage # "idle" => holder # Free
BY DEF MutexInv, NoLostWakeup

\* What is left of an agenda is as before.
LEMMA TailWork ==
    ASSUME MutexInv, agenda # << >>
    PROVE  /\ holder \in Client => Tail(agenda) \in Seq(StopOp)
           /\ holder \notin Client => Tail(agenda) \in Seq(WorkOp)
BY HeadTailProperties DEF MutexInv, HolderWork

\* A step of the holder that keeps the mutex, the answers and the calls.
LEMMA HolderMoves ==
    ASSUME TypeOK, MutexInv, holder # Free, stage' # "idle", HolderWork',
           UNCHANGED <<holder, curId, answer, client, nextId>>
    PROVE  MutexInv'
BY DEF MutexInv, NoLostWakeup, OneOwner

\* dispatch() takes the mutex when it is free, and waits otherwise.
LEMMA AcceptKeeps ==
    ASSUME TypeOK, MutexInv, NEW n, Accept(n), UNCHANGED <<client, waitOn>>,
           agenda' \in Seq(Op),
           UNCHANGED agenda \/ (holder \notin Client /\ agenda' \in Seq(WorkOp))
    PROVE  MutexInv'
<1>1. nextId \in EventId /\ nextId' = nextId + 1 /\ nextId \in Nat
      BY DEF Accept, EventId
<1>2. CASE holder = Free
  <2>1. /\ holder' = Process /\ stage' = "pop" /\ curId' = nextId
        /\ answer' = [answer EXCEPT ![nextId] = "run"]
        BY <1>2 DEF Accept
  <2>2. Process # Free /\ Process \notin Client /\ Free \notin Client
        BY HolderAssumption
  <2>3. HolderWork'
        BY <1>2, <2>1, <2>2 DEF MutexInv, HolderWork
  <2>4. \A c \in Client : client'[c].status = "running" <=> holder' = c
        BY <1>2, <2>1, <2>2 DEF MutexInv, OneOwner
  <2>5. \A i \in EventId : answer'[i] = "run" <=> holder' = Process /\ curId' = i
        BY <1>1, <1>2, <2>1 DEF MutexInv, NoLostWakeup, TypeOK
  <2>6. NoLostWakeup' /\ OneOwner'
        BY <2>1, <2>2, <2>4, <2>5 DEF NoLostWakeup, OneOwner
  <2>7. QED BY <1>1, <2>1, <2>3, <2>6 DEF MutexInv
<1>3. CASE holder # Free
  <2>1. /\ UNCHANGED <<holder, stage, curId>>
        /\ answer' = [answer EXCEPT ![nextId] = IF ctxDone THEN "true" ELSE "sent"]
        BY <1>3 DEF Accept
  <2>2. HolderWork'
        BY <2>1 DEF MutexInv, HolderWork
  <2>3. \A c \in Client : client'[c].status = "running" <=> holder' = c
        BY <2>1 DEF MutexInv, OneOwner
  <2>4. \A i \in EventId : answer'[i] = "run" <=> holder' = Process /\ curId' = i
    <3>1. curId # nextId
          BY <1>1 DEF MutexInv, TypeOK, EventId
    <3>2. QED BY <1>1, <2>1, <3>1 DEF MutexInv, OneOwner, TypeOK
  <2>5. stage' # "idle"
        BY <1>3, <2>1 DEF MutexInv, OneOwner
  <2>6. curId' < nextId'
        BY <1>1, <2>1 DEF MutexInv, TypeOK, EventId
  <2>7. NoLostWakeup' /\ OneOwner'
        BY <1>3, <2>1, <2>3, <2>4, <2>5 DEF NoLostWakeup, OneOwner
  <2>8. QED BY <2>2, <2>6, <2>7 DEF MutexInv
<1>4. QED BY <1>2, <1>3

\* Mutex.release: every waiter is woken and every answer given.
LEMMA ReleaseKeeps ==
    ASSUME TypeOK, MutexInv, Release, NEW ran \in {"true", "failed"},
           answer' = Answered(ran),
           \A c \in Client : client'[c].status \notin {"waiting", "running"},
           curId' < nextId'
    PROVE  MutexInv'
<1>1. /\ holder' = Free /\ stage' = "idle" /\ agenda' = << >> /\ waitOn' = None
      BY DEF Release
<1>2. Free \notin Client /\ Free # Process
      BY HolderAssumption
<1>3. \A i \in EventId : answer'[i] \notin {"run", "wait"}
      BY DEF Answered
<1>4. HolderWork'
      BY <1>1, <1>2, EmptySeq DEF HolderWork
<1>5. NoLostWakeup' /\ OneOwner'
      BY <1>1, <1>2, <1>3 DEF NoLostWakeup, OneOwner
<1>6. QED BY <1>4, <1>5 DEF MutexInv

LEMMA ProcessKeeps ==
    ASSUME TypeOK, MutexInv, ProcessStep PROVE MutexInv'
<1> USE DEF machineVars, queueVars, runVars, workVars, eventVars, stateVars, restVars,
            taskVars, lifeVars, ghostVars, GoTo, Continue, TaskEnds, CallBecomes
<1>1. CASE PopDeferred \/ PopEvent \/ Replay \/ Replayed \/ Drain \/ PutBack
  <2>1. stage # "idle" /\ stage # "run" /\ stage' # "idle"
        BY <1>1 DEF PopDeferred, PopEvent, Replay, Replayed, Drain, PutBack, Running
  <2>2. /\ UNCHANGED <<holder, curId, answer, client, nextId, agenda>>
        BY <1>1 DEF PopDeferred, PopEvent, Replay, Replayed, Drain, PutBack
  <2>3. holder \notin Client /\ holder # Free
        BY <2>1, NotStopping, Busy
  <2>4. HolderWork'
        BY <2>2, <2>3 DEF MutexInv, HolderWork
  <2>5. QED BY <2>1, <2>2, <2>3, <2>4, HolderMoves
<1>2. CASE TakeTransition
  <2>1. stage # "idle" /\ stage # "run"
        BY <1>2 DEF TakeTransition
  <2>2. holder \notin Client /\ holder # Free
        BY <2>1, NotStopping, Busy
  <2>3. Head(cands) \in Transition /\ from \in Vertex
        BY <1>2, CandsType DEF TakeTransition, TypeOK
  <2>4. stage' = "run" /\ agenda' \in Seq(WorkOp)
        BY <1>2, <2>3, TransitionAgendaType, WorkTakes DEF TakeTransition, Follow, Takes
  <2>5. UNCHANGED <<holder, curId, answer, client, nextId>>
        BY <1>2 DEF TakeTransition
  <2>6. HolderWork'
        BY <2>2, <2>4, <2>5 DEF HolderWork
  <2>7. QED BY <2>2, <2>4, <2>5, <2>6, HolderMoves
<1>3. CASE GuardFails \/ HandlerRuns
  <2>1. stage # "idle" /\ UNCHANGED <<holder, stage, agenda, curId, answer, client, nextId>>
        BY <1>3 DEF GuardFails, InGuard, HandlerRuns, HandlerNext, NextCandidate
  <2>2. HolderWork'
        BY <2>1 DEF MutexInv, HolderWork
  <2>3. QED BY <2>1, <2>2, Busy, HolderMoves
<1>4. CASE NoTransition \/ NoResult \/ Arrive
  <2>1. holder \notin Client /\ holder # Free
        BY <1>4, NotStopping, Busy DEF NoTransition, NoResult, Arrive, Doing, Running
  <2>2. /\ stage' # "idle" /\ agenda' = << >>
        /\ UNCHANGED <<holder, curId, answer, client, nextId>>
        BY <1>4 DEF NoTransition, NoResult, Arrive, Unhandled
  <2>3. HolderWork'
        BY <2>1, <2>2, EmptySeq DEF HolderWork
  <2>4. QED BY <2>1, <2>2, <2>3, HolderMoves
<1>5. CASE Finish
  <2>1. holder \notin Client
        BY <1>5, NotStopping DEF Finish, Running
  <2>2. /\ Release /\ answer' = Answered("true") /\ client' = Woken(client)
        /\ curId' = 0 /\ nextId' = nextId
        BY <1>5 DEF Finish
  <2>3. \A c \in Client : client'[c].status \notin {"waiting", "running"}
        BY <2>1, <2>2 DEF Woken, MutexInv, OneOwner, TypeOK
  <2>4. curId' < nextId'
        BY <2>2 DEF TypeOK
  <2>5. QED BY <2>2, <2>3, <2>4, ReleaseKeeps
<1>6. QED BY <1>1, <1>2, <1>3, <1>4, <1>5 DEF ProcessStep

LEMMA TransitionKeeps ==
    ASSUME TypeOK, TypeOK', MutexInv, TransitionStep PROVE MutexInv'
<1> USE DEF machineVars, queueVars, runVars, workVars, eventVars, stateVars, restVars,
            taskVars, lifeVars, ghostVars, GoTo, Continue, TaskEnds, CallBecomes
<1>1. CASE Effect \/ Leave \/ Spawn
  <2>1. /\ stage = "run" /\ agenda # << >>
        /\ agenda' = Tail(agenda)
        /\ UNCHANGED <<holder, stage, curId, answer, client, nextId>>
        BY <1>1 DEF Effect, Leave, Spawn, File, Doing, Running
  <2>2. HolderWork'
        BY <2>1, TailWork DEF HolderWork
  <2>3. QED BY <2>1, <2>2, Busy, HolderMoves
<1>2. CASE EnterState
  <2>1. /\ stage = "run" /\ agenda # << >> /\ Head(agenda).op \notin {"exit", "halt", "spawn"}
        /\ UNCHANGED <<holder, stage, curId, answer, client, nextId>>
        BY <1>2 DEF EnterState, Doing, Running
  <2>2. holder \notin Client /\ holder # Free /\ Vtx \in Vertex /\ Tail(agenda) \in Seq(WorkOp)
        BY <2>1, NotStopping, Busy, AgendaType, TailWork
  <2>3. Spawns(Vtx) \in Seq(WorkOp) /\ <<ToDo("default", Vtx)>> \in Seq(WorkOp)
        BY <2>2, SpawnsType, WorkTakes DEF Takes, WorkOp, ToDo
  <2>4. agenda' \in Seq(WorkOp)
        BY <1>2, <2>2, <2>3 DEF EnterState
  <2>5. HolderWork'
        BY <2>1, <2>2, <2>4 DEF HolderWork
  <2>6. QED BY <2>1, <2>2, <2>5, HolderMoves
<1>3. CASE EnterFinal \/ EnterSimple \/ EnterInitial \/ EnterPseudo
  <2>1. stage = "run" /\ agenda # << >> /\ Head(agenda).op \notin {"exit", "halt", "spawn"}
        BY <1>3 DEF EnterFinal, EnterSimple, EnterInitial, EnterPseudo, Doing, Running
  <2>2. holder \notin Client /\ holder # Free /\ Vtx \in Vertex
        BY <2>1, NotStopping, Busy, AgendaType
  <2>3. /\ stage' # "idle"
        /\ UNCHANGED <<holder, curId, answer, client, nextId>>
        BY <1>3, <2>1 DEF EnterFinal, EnterSimple, EnterInitial, EnterPseudo, Follow
  <2>4. <<ToDo("arrive", Vtx)>> \in Seq(WorkOp) /\ << >> \in Seq(WorkOp)
        BY <2>2, WorkTakes, EmptySeq DEF Takes
  <2>5. Initial(Vtx) # None => TransitionAgenda(Initial(Vtx), Vtx) \in Seq(WorkOp)
        BY <2>2, VertexTableTypes, TransitionAgendaType, WorkTakes DEF Takes
  <2>6. agenda' \in Seq(WorkOp)
        BY <1>3, <2>4, <2>5 DEF EnterFinal, EnterSimple, EnterInitial, EnterPseudo, Follow
  <2>7. HolderWork'
        BY <2>2, <2>3, <2>6 DEF HolderWork
  <2>8. QED BY <2>2, <2>3, <2>7, HolderMoves
<1>4. CASE EnterHistory
  <2>1. /\ stage = "run" /\ agenda # << >> /\ Head(agenda).op \notin {"exit", "halt", "spawn"}
        /\ UNCHANGED <<holder, stage, curId, answer, client, nextId>>
        BY <1>4 DEF EnterHistory, Doing, Running
  <2>2. holder \notin Client /\ holder # Free /\ Vtx \in Vertex
        BY <2>1, NotStopping, Busy, AgendaType
  <2>3. Vtx \in History /\ history[Vtx] \in Vertex
        BY <1>4, <2>2 DEF EnterHistory, TypeOK
  <2>4. HistoryPath(Vtx, history[Vtx]) \in Seq(Vertex)
        BY <2>3, VertexTableTypes
  <2>5. Enters(HistoryPath(Vtx, history[Vtx]), history[Vtx]) \in Seq(WorkOp)
        BY <2>4, PathType, WorkTakes DEF Takes
  <2>6. <<ToDo("none", Vtx)>> \in Seq(WorkOp)
        BY <2>2, WorkTakes DEF Takes
  <2>7. agenda' \in Seq(WorkOp)
        BY <1>4, <2>5, <2>6 DEF EnterHistory
  <2>8. HolderWork'
        BY <2>1, <2>2, <2>7 DEF HolderWork
  <2>9. QED BY <2>1, <2>2, <2>8, HolderMoves
<1>5. CASE NoBranch
  <2>1. stage # "idle" /\ stage # "run"
        BY <1>5 DEF NoBranch
  <2>2. holder \notin Client /\ holder # Free /\ from \in Vertex
        BY <2>1, NotStopping, Busy DEF TypeOK
  <2>3. agenda' \in Seq(WorkOp)
        BY <1>5, <2>2, WorkTakes DEF NoBranch, Takes
  <2>4. stage' # "idle" /\ UNCHANGED <<holder, curId, answer, client, nextId>>
        BY <1>5 DEF NoBranch
  <2>5. HolderWork'
        BY <2>2, <2>3, <2>4 DEF HolderWork
  <2>6. QED BY <2>2, <2>4, <2>5, HolderMoves
<1>6. CASE SpawnFails
  <2>1. /\ agenda # << >> /\ Head(agenda).op \notin {"exit", "halt"}
        /\ Accept(ErrorEvent) /\ agenda' = Tail(agenda)
        /\ UNCHANGED <<client, waitOn>>
        BY <1>6 DEF SpawnFails, File, Doing
  <2>2. holder \notin Client /\ agenda' \in Seq(WorkOp)
        BY <2>1, NotStopping, TailWork
  <2>3. agenda' \in Seq(Op)
        BY DEF TypeOK
  <2>4. QED BY <2>1, <2>2, <2>3, AcceptKeeps
<1>7. CASE Terminate \/ Resume
  <2>1. UNCHANGED <<holder, stage, agenda, curId, answer, client, nextId>>
        BY <1>7 DEF Terminate, Cancel, Resume
  <2>2. holder # Free
        BY <1>7, Busy DEF Terminate, Cancel, Resume, Doing, Running, MutexInv, NoLostWakeup
  <2>3. HolderWork' /\ stage' # "idle"
        BY <2>1, <2>2 DEF MutexInv, HolderWork, OneOwner
  <2>4. QED BY <2>1, <2>2, <2>3, HolderMoves
<1>8. QED BY <1>1, <1>2, <1>3, <1>4, <1>5, <1>6, <1>7 DEF TransitionStep

\* stop() and restart() take the mutex when it is free, and sleep otherwise.
LEMMA StopKeeps ==
    ASSUME TypeOK, MutexInv, NEW c \in Client, NEW m \in CallMode,
           client[c].status \notin {"running"},
           BeginStop(c, m) \/ StopWaits(c, m)
    PROVE  MutexInv'
<1> USE DEF machineVars, queueVars, runVars, workVars, eventVars, stateVars, restVars,
            taskVars, lifeVars, ghostVars, GoTo, Continue, TaskEnds, CallBecomes
<1>1. CASE StopWaits(c, m)
  <2>1. /\ UNCHANGED <<holder, stage, agenda, waitOn, curId, answer, nextId>>
        /\ holder # Free
        /\ client' = [client EXCEPT ![c] = [status |-> "waiting", mode |-> m]]
        BY <1>1 DEF StopWaits
  <2>2. \A d \in Client : client'[d].status = "running" <=> client[d].status = "running"
        BY <2>1 DEF TypeOK
  <2>3. QED BY <2>1, <2>2 DEF MutexInv, NoLostWakeup, OneOwner, HolderWork
<1>2. CASE BeginStop(c, m)
  <2>1. /\ holder = Free /\ holder' = c /\ stage' = "run"
        /\ client' = [client EXCEPT ![c] = [status |-> "running", mode |-> m]]
        /\ UNCHANGED <<curId, answer, nextId>>
        BY <1>2 DEF BeginStop, LiveBecome
  <2>2. c # Free /\ c # Process
        BY HolderAssumption
  <2>3. agenda' \in Seq(StopOp)
    <3>1. Chain(state) \in Seq(Vertex)
          BY VertexTableTypes DEF TypeOK
    <3>2. SubSeq(Chain(state), 1, Len(Chain(state)) - 1) \in Seq(Vertex)
          BY <3>1
    <3>3. Exits(SubSeq(Chain(state), 1, Len(Chain(state)) - 1)) \in Seq(StopOp)
          BY <3>2, ExitsType, StopTakes DEF Takes
    <3>4. <<ToDo("halt", Root)>> \in Seq(StopOp)
          BY TableNames, StopTakes DEF Takes
    <3>5. QED BY <1>2, <3>3, <3>4 DEF BeginStop, LiveBecome
  <2>4. \A d \in Client : client'[d].status = "running" <=> holder' = d
        BY <2>1, <2>2 DEF MutexInv, NoLostWakeup, TypeOK
  <2>5. \A i \in EventId : answer'[i] # "run"
        BY <2>1 DEF MutexInv, NoLostWakeup
  <2>6. NoLostWakeup' /\ OneOwner' /\ HolderWork'
        BY <2>1, <2>2, <2>3, <2>4, <2>5 DEF NoLostWakeup, OneOwner, HolderWork
  <2>7. QED BY <2>1, <2>6 DEF MutexInv
<1>3. QED BY <1>1, <1>2

\* _start takes the mutex, which is free.
LEMMA StartupKeeps ==
    ASSUME TypeOK, MutexInv, BeginStartup,
           \A c \in Client : client'[c].status = "running" => client[c].status = "running"
    PROVE  MutexInv'
<1>1. /\ holder = Free /\ holder' = Startup /\ stage' = "run"
      /\ agenda' = <<ToDo("enter", Root)>>
      /\ UNCHANGED <<curId, answer, nextId>>
      BY DEF BeginStartup, LiveBecome, NewContext, Startable, eventVars, ghostVars
<1>2. Startup # Free /\ Startup # Process /\ Startup \notin Client
      BY HolderAssumption
<1>3. agenda' \in Seq(WorkOp)
      BY <1>1, TableNames, WorkTakes DEF Takes
<1>4. \A c \in Client : client'[c].status # "running"
      BY <1>1 DEF MutexInv, NoLostWakeup
<1>5. \A i \in EventId : answer'[i] # "run"
      BY <1>1 DEF MutexInv, NoLostWakeup
<1>6. NoLostWakeup' /\ OneOwner' /\ HolderWork'
      BY <1>1, <1>2, <1>3, <1>4, <1>5 DEF NoLostWakeup, OneOwner, HolderWork
<1>7. QED BY <1>1, <1>6 DEF MutexInv

LEMMA CallKeeps ==
    ASSUME TypeOK, TypeOK', MutexInv,
           \/ StopFinish \/ Raise \/ ClientStep
           \/ \E t \in TaskId : TaskStep(t)
           \/ \E c \in Client : CallStep(c)
    PROVE  MutexInv'
<1> USE DEF machineVars, queueVars, runVars, workVars, eventVars, stateVars, restVars,
            taskVars, lifeVars, ghostVars, GoTo, Continue, TaskEnds, CallBecomes
<1>1. CASE StopFinish
  <2>1. /\ Release /\ answer' = Answered("true")
        /\ client' = [Woken(client) EXCEPT ![holder].status = "stopped"]
        /\ UNCHANGED <<curId, nextId>>
        BY <1>1 DEF StopFinish, ClearQueue
  <2>2. \A c \in Client : c # holder => client[c].status # "running"
        BY DEF MutexInv, OneOwner
  <2>3. \A c \in Client : client'[c].status \notin {"waiting", "running"}
    <3>1. Woken(client) \in [Client -> [status : CallStatus, mode : CallMode]]
          BY WokenType
    <3>2. ASSUME NEW c \in Client, c # holder
          PROVE  client'[c].status \notin {"waiting", "running"}
          BY <2>1, <2>2, <3>1, <3>2 DEF Woken
    <3>3. ASSUME NEW c \in Client, c = holder PROVE client'[c].status = "stopped"
          BY <2>1, <3>1, <3>3
    <3>4. QED BY <3>2, <3>3
  <2>4. curId' < nextId'
        BY <2>1 DEF MutexInv
  <2>5. QED BY <2>1, <2>3, <2>4, ReleaseKeeps
<1>2. CASE Raise
  <2>1. /\ Release /\ answer' = Answered("failed") /\ curId' = 0 /\ nextId' = nextId
        /\ client' = [c \in Client |-> IF c = holder THEN IdleCall ELSE Woken(client)[c]]
        BY <1>2 DEF Raise
  <2>2. \A c \in Client : c # holder => client[c].status # "running"
        BY DEF MutexInv, OneOwner
  <2>3. \A c \in Client : client'[c].status \notin {"waiting", "running"}
        BY <2>1, <2>2 DEF Woken, IdleCall
  <2>4. curId' < nextId'
        BY <2>1 DEF TypeOK
  <2>5. QED BY <2>1, <2>3, <2>4, ReleaseKeeps
<1>3. ASSUME UNCHANGED <<holder, stage, agenda, waitOn, curId, nextId, answer>>,
             \A c \in Client : /\ client'[c].status = "running" <=> client[c].status = "running"
                               /\ client'[c].status = "waiting" => client[c].status = "waiting"
      PROVE  MutexInv'
      BY <1>3 DEF MutexInv, NoLostWakeup, OneOwner, HolderWork
<1>4. ASSUME NEW t \in TaskId, TaskStep(t) PROVE MutexInv'
  <2>1. CASE TaskFinishes(t) \/ TaskCancelled(t)
    <3>1. UNCHANGED <<holder, stage, agenda, waitOn, curId, nextId, answer, client>>
          BY <2>1 DEF TaskFinishes, TaskCancelled
    <3>2. QED BY <1>3, <3>1
  <2>2. ASSUME NEW n, Accept(n), UNCHANGED <<client, waitOn, agenda>> PROVE MutexInv'
        BY <2>2, AcceptKeeps DEF TypeOK
  <2>3. CASE TaskFails(t)
        BY <2>2, <2>3 DEF TaskFails
  <2>4. ASSUME NEW n \in DispatchName, TaskCleanup(t, n) PROVE MutexInv'
        BY <2>2, <2>4 DEF TaskCleanup
  <2>5. QED BY <1>4, <2>1, <2>3, <2>4 DEF TaskStep
<1>5. ASSUME NEW c \in Client, CallStep(c) PROVE MutexInv'
  <2>1. CASE StopRetry(c)
    <3>1. client[c].mode \in CallMode
          BY DEF TypeOK
    <3>2. QED BY <2>1, <3>1, StopKeeps DEF StopRetry
  <2>2. CASE StopReturns(c) \/ RestartFails(c)
    <3>1. /\ client[c].status = "stopped" /\ client' = [client EXCEPT ![c] = IdleCall]
          /\ UNCHANGED <<holder, stage, agenda, waitOn, curId, nextId, answer>>
          BY <2>2 DEF StopReturns, RestartFails
    <3>2. \A d \in Client :
             /\ client'[d].status = "running" <=> client[d].status = "running"
             /\ client'[d].status = "waiting" => client[d].status = "waiting"
          BY <3>1 DEF IdleCall, TypeOK
    <3>3. QED BY <1>3, <3>1, <3>2
  <2>3. CASE RestartStarts(c)
    <3>1. BeginStartup /\ client' = [client EXCEPT ![c] = IdleCall]
          BY <2>3 DEF RestartStarts
    <3>2. \A d \in Client : client'[d].status = "running" => client[d].status = "running"
          BY <3>1 DEF IdleCall, TypeOK
    <3>3. QED BY <3>1, <3>2, StartupKeeps
  <2>4. CASE RestartAbandoned(c)
    <3>1. UNCHANGED <<holder, stage, agenda, waitOn, curId, nextId, answer>>
          BY <2>4 DEF RestartAbandoned
    <3>2. \A d \in Client :
             /\ client'[d].status = "running" <=> client[d].status = "running"
             /\ client'[d].status = "waiting" => client[d].status = "waiting"
      <4>1. CASE client[c].status = "running"
        <5>1. client' = [client EXCEPT ![c] = [client[c] EXCEPT !.mode = "stop"]]
              BY <2>4, <4>1 DEF RestartAbandoned
        <5>2. QED BY <5>1 DEF TypeOK
      <4>2. CASE client[c].status # "running"
        <5>1. client' = [client EXCEPT ![c] = IdleCall]
              BY <2>4, <4>2 DEF RestartAbandoned
        <5>2. QED BY <4>2, <5>1 DEF IdleCall, TypeOK
      <4>3. QED BY <4>1, <4>2
    <3>3. QED BY <1>3, <3>1, <3>2
  <2>5. QED BY <1>5, <2>1, <2>2, <2>3, <2>4 DEF CallStep
<1>6. CASE ClientStep
  <2>1. CASE Start
        BY <2>1, StartupKeeps DEF Start
  <2>2. ASSUME NEW n \in DispatchName, Dispatch(n) PROVE MutexInv'
        BY <2>2, AcceptKeeps DEF Dispatch, TypeOK
  <2>3. ASSUME NEW c \in Client, NEW m \in CallMode, StopCall(c, m) PROVE MutexInv'
        BY <2>3, StopKeeps DEF StopCall
  <2>4. CASE ParentEnds
        BY <2>4 DEF ParentEnds, runVars, workVars, eventVars, ghostVars, MutexInv,
                    NoLostWakeup, OneOwner, HolderWork
  <2>5. QED BY <1>6, <2>1, <2>2, <2>3, <2>4 DEF ClientStep
<1>7. QED BY <1>1, <1>2, <1>4, <1>5, <1>6

\* The task of a dispatch() waits for a mutex that is taken, and only then.
LEMMA WaitKeeps ==
    ASSUME TypeOK, MutexInv, NEW i \in EventId, WaitBegins(i)
    PROVE  MutexInv'
<1>1. /\ UNCHANGED <<holder, stage, agenda, waitOn, curId, client, nextId>>
      /\ answer[i] = "sent"
      /\ answer' = [answer EXCEPT ![i] = IF holder = Free THEN "true" ELSE "wait"]
      BY DEF WaitBegins, runVars, workVars, eventVars, restVars
<1>2. \A j \in EventId : answer'[j] = "run" <=> answer[j] = "run"
      BY <1>1 DEF TypeOK
<1>3. holder = Free => \A j \in EventId : answer'[j] \notin {"run", "wait"}
      BY <1>1 DEF TypeOK, MutexInv, NoLostWakeup
<1>4. QED BY <1>1, <1>2, <1>3 DEF MutexInv, NoLostWakeup, OneOwner, HolderWork

LEMMA MutexStart == Init => MutexInv
<1> SUFFICES ASSUME Init PROVE MutexInv
    OBVIOUS
<1>1. << >> \in Seq(WorkOp) /\ Free \notin Client /\ Free # Process
      BY EmptySeq, HolderAssumption
<1>2. NoLostWakeup /\ HolderWork
      BY <1>1 DEF Init, NoLostWakeup, HolderWork, IdleCall
<1>3. OneOwner
      BY <1>1 DEF Init, OneOwner, IdleCall
<1>4. QED BY <1>2, <1>3 DEF Init, MutexInv

\* The inductive invariant of the mutex holds.
THEOREM MutexInvariant == Spec => []MutexInv
<1>1. Init => MutexInv
      BY MutexStart
<1>2. TypeOK /\ TypeOK' /\ MutexInv /\ [Next]_vars => MutexInv'
  <2>1. ASSUME MutexInv, UNCHANGED vars PROVE MutexInv'
        BY <2>1 DEF vars, machineVars, runVars, workVars, eventVars, ghostVars,
                    MutexInv, NoLostWakeup, OneOwner, HolderWork
  <2>2. QED BY <2>1, ProcessKeeps, TransitionKeeps, CallKeeps, WaitKeeps DEF Next, HolderStep
<1>3. QED BY <1>1, <1>2, TypeCorrect, PTL DEF Spec

(***************************************************************************)
(* Mutex.release and Mutex.wait: whoever sleeps is woken before the mutex  *)
(* is free, also when a callback raises.                                   *)
(***************************************************************************)
THEOREM NobodySleepsOnAFreeMutex == Spec => []NoLostWakeup
<1>1. MutexInv => NoLostWakeup
      BY DEF MutexInv
<1>2. QED BY <1>1, MutexInvariant, PTL

(***************************************************************************)
(* dispatch, _start and _stop: at most one of them works on the machine,   *)
(* and it is the one whose call says so.                                   *)
(***************************************************************************)
THEOREM MutexHasOneOwner == Spec => []OneOwner
<1>1. MutexInv => OneOwner
      BY DEF MutexInv
<1>2. QED BY <1>1, MutexInvariant, PTL

\* _stop: whoever stops the machine only leaves states.
THEOREM StopOnlyLeaves == Spec => []HolderWork
<1>1. MutexInv => HolderWork
      BY DEF MutexInv
<1>2. QED BY <1>1, MutexInvariant, PTL
=============================================================================
