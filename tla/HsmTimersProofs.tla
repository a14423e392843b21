--------------------------- MODULE HsmTimersProofs ---------------------------
(***************************************************************************)
(* Timers add no behaviour to the machine: what is proved of HsmRuntime    *)
(* holds with any number of timers, whatever their delays.  They send      *)
(* their events while their state is entered, and their ticks do not pile  *)
(* up.                                                                     *)
(***************************************************************************)
EXTENDS HsmTimers, HsmEventProofs, HsmConfigurationProofs

\* A step of a timer is a step of a client, of an activity, or none.
LEMMA TimerStepIsStep ==
    ASSUME NEW t \in TaskId, TimerStep(t)
    PROVE  [Next]_vars
<1>1. CASE TimerFires(t)
  <2>1. TimeEvent[task[t].home] \in DispatchName
        BY <1>1, TimersAssumption DEF TimerFires, IsTimer
  <2>2. QED BY <1>1, <2>1 DEF TimerFires, Next, ClientStep
<1>2. CASE TimerAgain(t)
      BY <1>2 DEF TimerAgain
<1>3. CASE TimerEnds(t)
      BY <1>3 DEF TimerEnds, TaskStep, Next
<1>4. CASE TaskCancelled(t)
      BY <1>4 DEF TaskStep, Next
<1>5. QED BY <1>1, <1>2, <1>3, <1>4 DEF TimerStep

LEMMA TimedStepIsStep == TimedNext => [Next]_vars
<1>1. ASSUME SpawnPlain \/ SpawnTimer PROVE [Next]_vars
      BY <1>1 DEF SpawnPlain, SpawnTimer, TransitionStep, HolderStep, Next
<1>2. ASSUME FiresAtOnce PROVE [Next]_vars
  <2>1. TimeEvent[Vtx] \in DispatchName
        BY <1>2, TimersAssumption DEF FiresAtOnce
  <2>2. QED BY <1>2, <2>1 DEF FiresAtOnce, ClientStep, Next
<1>3. ASSUME OtherStep PROVE [Next]_vars
  <2>1. ASSUME NEW n \in ClientName, Dispatch(n) PROVE Next
        BY <2>1, TimersAssumption DEF ClientStep, Next
  <2>2. QED BY <1>3, <2>1 DEF OtherStep, ClientStep, Next
<1>4. QED BY <1>1, <1>2, <1>3, TimerStepIsStep DEF TimedNext

(***************************************************************************)
(* TimeEvent, dispatch and _execute: a machine with timers is the machine  *)
(* of HsmRuntime, so its mutex is as safe as proved there.                 *)
(***************************************************************************)
THEOREM TimersRefine == TimedSpec => TimersImplementRuntime
<1>1. TimedInit => Init
      BY DEF TimedInit
<1>2. [TimedNext]_<<vars, timerVars>> => [Next]_vars
      BY TimedStepIsStep DEF timerVars
<1>3. QED BY <1>1, <1>2, PTL DEF TimedSpec, TimersImplementRuntime, Spec

THEOREM TimersKeepTheMutex == TimedSpec => [](TypeOK /\ MutexInv)
BY TimersRefine, TypeCorrect, MutexInvariant, PTL DEF TimersImplementRuntime

\* The task under which an activity is filed.
LEMMA NextTaskType == Doing("spawn") /\ (Spawn \/ SpawnFails) => NextTask \in TaskId
BY DEF Spawn, SpawnFails, File, NextTask

(***************************************************************************)
(* What a timer is known by is a task of the runtime and one of its events.*)
(***************************************************************************)
THEOREM TimersTyped == TimedSpec => []TimersOK
<1>1. TimedInit => TimersOK
      BY DEF TimedInit, TimersOK, Timer, Phase, Off
<1>2. TimersOK /\ [TimedNext]_<<vars, timerVars>> => TimersOK'
  <2> SUFFICES ASSUME TimersOK, [TimedNext]_<<vars, timerVars>> PROVE TimersOK'
      OBVIOUS
  <2> USE DEF TimersOK, Timer, Phase
  <2>1. CASE SpawnPlain
        BY <2>1, NextTaskType DEF SpawnPlain, Off
  <2>2. CASE FiresAtOnce
        BY <2>2 DEF FiresAtOnce, Dispatch, Accept
  <2>3. CASE SpawnTimer
    <3>1. [phase |-> IF fired = 0 THEN "asleep" ELSE "sent", tick |-> fired] \in Timer
          BY DEF Timer
    <3>2. QED BY <2>3, <3>1, NextTaskType DEF SpawnTimer
  <2>4. ASSUME NEW t \in TaskId, TimerStep(t) PROVE TimersOK'
    <3>1. CASE TimerFires(t)
          BY <3>1 DEF TimerFires, Dispatch, Accept
    <3>2. CASE TimerAgain(t)
      <4>1. [timer[t] EXCEPT !.phase = "asleep"] \in Timer
            OBVIOUS
      <4>2. QED BY <3>2, <4>1 DEF TimerAgain
    <3>3. CASE UNCHANGED timerVars
          BY <3>3 DEF timerVars
    <3>4. QED BY <2>4, <3>1, <3>2, <3>3 DEF TimerStep, TimerEnds
  <2>5. CASE OtherStep
        BY <2>5 DEF OtherStep, timerVars
  <2>6. CASE UNCHANGED <<vars, timerVars>>
        BY <2>6 DEF timerVars
  <2>7. QED BY <2>1, <2>2, <2>3, <2>4, <2>5, <2>6 DEF TimedNext
<1>3. QED BY <1>1, <1>2, PTL DEF TimedSpec

(***************************************************************************)
(* When a timer fires                                                      *)
(***************************************************************************)
\* The task that is filed was no unfinished one.
LEMMA FiledFree == ASSUME Spawn \/ SpawnFails PROVE task[NextTask].status = "done"
BY DEF Spawn, SpawnFails, File, NextTask, IsFree

\* Only its own firing makes a timer that sleeps a timer that has sent.
LEMMA OnlyFires ==
    ASSUME TimersOK, TimedNext, NEW t \in TaskId, Works(t), timer[t].phase = "asleep",
           timer'[t].phase = "sent"
    PROVE  TimerFires(t)
<1>1. CASE SpawnPlain
      BY <1>1 DEF SpawnPlain, TimersOK, Off
<1>2. CASE FiresAtOnce
      BY <1>2 DEF FiresAtOnce
<1>3. CASE SpawnTimer
  <2>1. t # NextTask
        BY <1>3, FiledFree DEF SpawnTimer, Works
  <2>2. QED BY <1>3, <2>1 DEF SpawnTimer, TimersOK
<1>4. ASSUME NEW u \in TaskId, TimerStep(u) PROVE TimerFires(t)
  <2>1. CASE TimerFires(u)
        BY <2>1 DEF TimerFires, TimersOK
  <2>2. CASE TimerAgain(u)
        BY <2>2 DEF TimerAgain, TimersOK
  <2>3. CASE UNCHANGED timerVars
        BY <2>3 DEF timerVars
  <2>4. QED BY <1>4, <2>1, <2>2, <2>3 DEF TimerStep, TimerEnds
<1>5. CASE OtherStep
      BY <1>5 DEF OtherStep, timerVars
<1>6. QED BY <1>1, <1>2, <1>3, <1>4, <1>5 DEF TimedNext

\* The task of a timer that works is the one filed for its state.
LEMMA WorksInState ==
    ASSUME ActivitiesApart, TypeOK, ConfigInv, ActivityInv, faults = 0,
           NEW t \in TaskId, Works(t), IsTimer(t)
    PROVE  balance[StateOf(task[t].home)] = 1
<1>1. task[t].home \in Activity /\ (active[task[t].home] = t \/ waitOn = t)
      BY DEF ActivityInv, Tasks, Unfinished, Works
<1>2. waitOn # t
      BY HolderAssumption DEF ActivityInv, Awaited, Works
<1>3. PICK a \in Activity : a = task[t].home /\ active[a] # None
      BY <1>1, <1>2, HolderAssumption
<1>4. PICK v \in StateVertex \ {Root} : Owns(v, a)
      BY <1>3 DEF ActivityInv, Filed, Homes
<1>5. StateOf(a) = v
  <2>1. \A w \in StateVertex : Owns(w, a) => w = v
        BY <1>4, OneOwnerOf
  <2>2. QED BY <1>4, <2>1 DEF StateOf, Owns
<1>6. balance[v] # 0
      BY <1>3, <1>4 DEF ActivityInv, Filed, FiledAt
<1>7. balance[v] \in {0, 1}
      BY <1>4 DEF ConfigInv, EnteredAt
<1>8. QED BY <1>3, <1>5, <1>6, <1>7

(***************************************************************************)
(* _terminate and the time events: while no callback raises and no empty   *)
(* history is entered, a timer sends its event only when its state is      *)
(* entered and not left yet.                                               *)
(***************************************************************************)
THEOREM TimersTickInState ==
    ASSUME PointsEnter, PointsJoin, ActivitiesApart
    PROVE  TimedSpec /\ []HistoryLeads => TicksInState
<1> DEFINE Tick ==
        faults = 0 =>
            \A t \in TaskId :
                Works(t) /\ timer[t].phase = "asleep" /\ timer'[t].phase = "sent" =>
                    balance[StateOf(task[t].home)] = 1
<1>1. TypeOK /\ ConfigInv /\ ActivityInv /\ TimersOK /\ [TimedNext]_<<vars, timerVars>>
          => [Tick]_<<vars, timerVars>>
  <2> SUFFICES ASSUME TypeOK, ConfigInv, ActivityInv, TimersOK, TimedNext, faults = 0,
                      NEW t \in TaskId, Works(t), timer[t].phase = "asleep",
                      timer'[t].phase = "sent"
               PROVE  balance[StateOf(task[t].home)] = 1
      OBVIOUS
  <2>1. TimerFires(t)
        BY OnlyFires
  <2>2. QED BY <2>1, WorksInState DEF TimerFires
<1>2. TimedSpec => []TypeOK
      BY TimersKeepTheMutex, PTL
<1>3. TimedSpec /\ []HistoryLeads => [](ConfigInv /\ ActivityInv)
      BY TimersRefine, ConfigurationInvariant, ActivityInvariant, PTL DEF TimersImplementRuntime
<1>4. QED BY <1>1, <1>2, <1>3, TimersTyped, PTL DEF TimedSpec, TicksInState

(***************************************************************************)
(* The tasks of a stopped machine                                          *)
(***************************************************************************)
\* Under a context that is done no task is live, and a call of stop() has
\* cancelled the context before it does anything else.
LiveInv ==
    /\ holder \in Client => ctxDone
    /\ ctxDone => \A t \in TaskId : task[t].status # "live"

LEMMA LiveNext ==
    ASSUME TypeOK, LiveInv, [Next]_vars PROVE LiveInv'
<1> USE DEF vars, machineVars, queueVars, runVars, workVars, eventVars, stateVars, restVars,
            taskVars, lifeVars, ghostVars, GoTo, Continue, TaskEnds, CallBecomes
<1>1. ASSUME UNCHANGED ctxDone, holder' \in {holder, Free, Process},
             \A t \in TaskId : task'[t].status = "live" => task[t].status = "live"
      PROVE  LiveInv'
      BY <1>1, HolderAssumption DEF LiveInv
<1>2. ASSUME NEW n, Accept(n) PROVE holder' \in {holder, Free, Process}
      BY <1>2 DEF Accept
<1>3. CASE ProcessStep
      BY <1>1, <1>3 DEF ProcessStep, PopDeferred, PopEvent, TakeTransition, GuardFails, HandlerRuns,
             NextCandidate, NoTransition, NoResult, Unhandled, Arrive, Replay, Replayed, Drain,
             PutBack, Finish, Release
<1>4. CASE TransitionStep
  <2>1. CASE Effect \/ EnterState \/ EnterFinal \/ EnterSimple \/ EnterInitial \/ EnterPseudo
             \/ EnterHistory \/ NoBranch \/ Resume \/ Leave
        BY <1>1, <2>1 DEF Effect, EnterState, EnterFinal, EnterSimple, EnterInitial, EnterPseudo,
               EnterHistory, NoBranch, Resume, Leave
  <2>2. CASE Terminate
    <3>1. \A t \in TaskId : task'[t].status = "live" => task[t].status = "live"
          BY <2>2 DEF Terminate, Cancel, TypeOK
    <3>2. QED BY <1>1, <2>2, <3>1 DEF Terminate
  <2>3. ASSUME NEW status, File(status), ctxDone => status # "live", UNCHANGED ctxDone,
               holder' \in {holder, Free, Process}
        PROVE  LiveInv'
    <3>1. \A t \in TaskId : task'[t].status \in {task[t].status, status}
          BY <2>3 DEF File, TypeOK
    <3>2. QED BY <2>3, <3>1, HolderAssumption DEF LiveInv
  <2>4. CASE Spawn
        BY <2>3, <2>4 DEF Spawn
  <2>5. CASE SpawnFails
        BY <1>2, <2>3, <2>5 DEF SpawnFails
  <2>6. QED BY <1>4, <2>1, <2>2, <2>4, <2>5 DEF TransitionStep
<1>5. CASE StopFinish \/ Raise
      BY <1>1, <1>5 DEF StopFinish, Raise, Release
<1>6. ASSUME task' = LiveBecome("orphan"), ctxDone' = TRUE PROVE LiveInv'
      BY <1>6 DEF LiveInv, LiveBecome, TypeOK
<1>7. ASSUME NEW c, NEW m, BeginStop(c, m) PROVE LiveInv'
      BY <1>6, <1>7 DEF BeginStop
<1>8. ASSUME BeginStartup PROVE LiveInv'
      BY <1>8, HolderAssumption DEF BeginStartup, NewContext, LiveInv
<1>9. ASSUME NEW c, NEW m, StopWaits(c, m) PROVE LiveInv'
      BY <1>1, <1>9 DEF StopWaits
<1>10. ASSUME NEW t \in TaskId, TaskStep(t) PROVE LiveInv'
  <2>1. \A u \in TaskId : task'[u].status = "live" => task[u].status = "live"
        BY <1>10, TaskStepGoesOn DEF GoesOn
  <2>2. UNCHANGED ctxDone /\ holder' \in {holder, Free, Process}
        BY <1>2, <1>10 DEF TaskStep, TaskFinishes, TaskCancelled, TaskFails, TaskCleanup
  <2>3. QED BY <1>1, <2>1, <2>2
<1>11. ASSUME NEW c \in Client, CallStep(c) PROVE LiveInv'
  <2>1. CASE RestartAbandoned(c)
    <3>1. \A u \in TaskId : task'[u].status = "live" => task[u].status = "live"
          BY <1>11, OthersGoOn DEF OthersMove, GoesOn
    <3>2. QED BY <1>1, <2>1, <3>1 DEF RestartAbandoned
  <2>2. CASE StopReturns(c) \/ RestartFails(c)
        BY <1>1, <2>2 DEF StopReturns, RestartFails
  <2>3. QED BY <1>7, <1>8, <1>9, <1>11, <2>1, <2>2 DEF CallStep, StopRetry, RestartStarts
<1>12. CASE ClientStep
  <2>1. CASE ParentEnds
        BY <1>6, <2>1 DEF ParentEnds
  <2>2. CASE \E n \in DispatchName : Dispatch(n)
        BY <1>1, <1>2, <2>2 DEF Dispatch
  <2>3. QED BY <1>7, <1>8, <1>9, <1>12, <2>1, <2>2 DEF ClientStep, Start, StopCall
<1>13. CASE UNCHANGED vars \/ \E i \in EventId : WaitBegins(i)
      BY <1>1, <1>13 DEF WaitBegins
<1>14. QED BY <1>3, <1>4, <1>5, <1>10, <1>11, <1>12, <1>13 DEF Next, HolderStep

\* _stop and ParentEnds: the context is done before anything else.
LEMMA LiveInvariant == Spec => []LiveInv
<1>1. Init => LiveInv
      BY HolderAssumption DEF Init, LiveInv
<1>2. TypeOK /\ LiveInv /\ [Next]_vars => LiveInv'
      BY LiveNext
<1>3. QED BY <1>1, <1>2, TypeCorrect, PTL DEF Spec

\* A step that spawns nothing brings no task to life.
LEMMA LiveStays ==
    ASSUME TypeOK, (HolderStep /\ ~Doing("spawn")) \/ Raise \/ OthersMove,
           NEW t \in TaskId, task'[t].status = "live"
    PROVE  task[t].status = "live"
<1> USE DEF machineVars, queueVars, runVars, workVars, eventVars, stateVars, restVars, taskVars,
            GoTo, Continue
<1>1. CASE ProcessStep
      BY <1>1 DEF ProcessStep, PopDeferred, PopEvent, TakeTransition, GuardFails, HandlerRuns,
             NextCandidate, NoTransition, NoResult, Unhandled, Arrive, Replay, Replayed, Drain,
             PutBack, Finish
<1>2. CASE TransitionStep /\ ~Doing("spawn")
  <2>1. CASE Terminate
        BY <2>1 DEF Terminate, Cancel, TypeOK
  <2>2. ~Spawn /\ ~SpawnFails
        BY <1>2 DEF Spawn, SpawnFails, File
  <2>3. QED BY <1>2, <2>1, <2>2 DEF TransitionStep, Effect, EnterState, EnterFinal, EnterSimple,
               EnterInitial, EnterPseudo, EnterHistory, NoBranch, Resume, Leave
<1>3. CASE StopFinish \/ Raise
      BY <1>3 DEF StopFinish, Raise
<1>4. CASE OthersMove
      BY <1>4, OthersGoOn DEF GoesOn
<1>5. QED BY <1>1, <1>2, <1>3, <1>4 DEF HolderStep

(***************************************************************************)
(* What a timer is known by, from the firing to the next sleep             *)
(***************************************************************************)
\* The event that a timer sent, and whose answer it awaits.
Sent(i) == /\ i \in EventId /\ i < nextId /\ Noted(i)
           /\ answer[i] = "true" => i \in seen

PileAt(t) == task[t].status = "live" =>
    /\ timer[t].phase = "asleep" /\ timer[t].tick # 0 => timer[t].tick \in seen
    /\ timer[t].phase = "sent" => Sent(timer[t].tick)

\* The event of a timer that fired while it was started.
FirstTick ==
    fired # 0 => /\ Doing("spawn") /\ Vtx \in Timed /\ fired < nextId
                 /\ ~ctxDone => Noted(fired) /\ answer[fired] = "sent"

\* The inductive invariant of NoPileUp.
PileInv == FirstTick /\ (faults = 0 => \A t \in TaskId : PileAt(t))

LEMMA SentStays ==
    ASSUME TypeOK, RestInv, [Next]_vars, ~StopFinish, faults = 0, faults' = 0, NEW i, Sent(i)
    PROVE  Sent(i)'
<1>1. Noted(i)' /\ seen \subseteq seen'
      BY NotedStays DEF Sent
<1>2. i < nextId'
  <2>1. i \in Nat
        BY DEF Sent, EventId
  <2>2. QED BY <2>1, IdsGrow DEF Sent
<1>3. answer'[i] = "true" => i \in seen
      BY AnswerLooked DEF Sent
<1>4. QED BY <1>1, <1>2, <1>3 DEF Sent

LEMMA PileStays ==
    ASSUME TypeOK, RestInv, [Next]_vars, ~StopFinish, faults = 0, faults' = 0,
           NEW t \in TaskId, PileAt(t), timer'[t] = timer[t],
           task'[t].status = "live" => task[t].status = "live"
    PROVE  PileAt(t)'
<1>1. seen \subseteq seen'
      BY NotedStays
<1>2. PICK i : i = timer[t].tick
      OBVIOUS
<1>3. timer'[t].tick = i /\ timer'[t].phase = timer[t].phase
      BY <1>2
<1>4. Sent(i) => Sent(i)'
      BY SentStays
<1>5. QED BY <1>1, <1>2, <1>3, <1>4 DEF PileAt, Sent, Noted

\* The event of a dispatch waits behind the others, and is not answered yet.
LEMMA AcceptNotes ==
    ASSUME TypeOK, NEW n \in EventName \ CompletionName, Accept(n), holder = Free \/ ~ctxDone,
           NEW i, i = nextId
    PROVE  /\ i \in EventId /\ i < nextId' /\ Noted(i)'
           /\ answer'[i] = IF holder = Free THEN "run" ELSE "sent"
<1> DEFINE e == [id |-> i, name |-> n]
<1>1. i \in EventId /\ nextId' = i + 1 /\ Push(e)
      BY DEF Accept
<1>2. e \in Event /\ e.name \notin CompletionName /\ e.id = i
      BY <1>1 DEF Event
<1> HIDE DEF e
<1>3. \E k \in DOMAIN fifo' : fifo'[k] = e
  <2>1. Len(fifo) \in Nat /\ DOMAIN fifo' = 1 .. Len(fifo) + 1 /\ fifo'[Len(fifo) + 1] = e
        BY <1>1, <1>2, PushedAt
  <2>2. Len(fifo) + 1 \in DOMAIN fifo'
        BY <2>1
  <2>3. QED BY <2>1, <2>2
<1>4. Noted(i)'
      BY <1>2, <1>3 DEF Noted
<1>5. i < nextId'
      BY <1>1 DEF EventId
<1>6. answer'[i] = IF holder = Free THEN "run" ELSE "sent"
      BY <1>1 DEF Accept, TypeOK
<1>7. QED BY <1>1, <1>4, <1>5, <1>6

\* A step of the runtime that spawns nothing.
LEMMA QuietStep ==
    ASSUME OtherStep \/ \E t \in TaskId : TimerStep(t)
    PROVE  (HolderStep /\ ~Doing("spawn")) \/ Raise \/ OthersMove \/ UNCHANGED vars
<1>1. CASE OtherStep
  <2>1. ASSUME NEW n \in ClientName, Dispatch(n) PROVE OthersMove
        BY <2>1, TimersAssumption DEF ClientStep, OthersMove
  <2>2. QED BY <1>1, <2>1 DEF OtherStep, ClientStep, OthersMove
<1>2. ASSUME NEW t \in TaskId, TimerStep(t) PROVE OthersMove \/ UNCHANGED vars
  <2>1. CASE TimerFires(t)
    <3>1. TimeEvent[task[t].home] \in DispatchName
          BY <2>1, TimersAssumption DEF TimerFires, IsTimer
    <3>2. QED BY <2>1, <3>1 DEF TimerFires, ClientStep, OthersMove
  <2>2. CASE TimerAgain(t)
        BY <2>2 DEF TimerAgain
  <2>3. CASE TimerEnds(t) \/ TaskCancelled(t)
        BY <2>3 DEF TimerEnds, TaskStep, OthersMove
  <2>4. QED BY <1>2, <2>1, <2>2, <2>3 DEF TimerStep
<1>3. QED BY <1>1, <1>2

\* Once its first event is sent, nothing happens before the timer is filed.
LEMMA FirstIsNext ==
    ASSUME MutexInv, FirstTick, fired # 0, OtherStep \/ \E t \in TaskId : TimerStep(t)
    PROVE  FALSE
<1>1. /\ stage = "run" /\ waitOn = None /\ agenda # << >> /\ Head(agenda).op = "spawn"
      /\ Doing("spawn")
      BY DEF FirstTick, Doing, Running
<1>2. holder # Free /\ ~Suspended /\ ~Startable
      BY <1>1, Busy DEF Suspended, Startable
<1>3. ~Raise
      BY <1>1 DEF Raise, InGuard, InHandler, HandlerNext, InBehaviour, ExitUnhandled
<1>4. ASSUME NEW t \in TaskId PROVE ~TaskStep(t) /\ ~TaskCancelled(t)
      BY <1>2 DEF TaskStep, TaskFinishes, TaskFails, TaskCancelled, TaskCleanup
<1>5. ASSUME NEW c \in Client PROVE ~CallStep(c)
      BY <1>2 DEF CallStep, StopRetry, StopReturns, RestartStarts, RestartFails,
                  RestartAbandoned, BeginStartup
<1>6. ASSUME NEW t \in TaskId PROVE ~TimerStep(t)
      BY <1>2, <1>4 DEF TimerStep, TimerFires, TimerAgain, TimerEnds, TaskStep
<1>7. ASSUME NEW i \in EventId PROVE ~WaitBegins(i)
      BY <1>2 DEF WaitBegins
<1>8. ~OtherStep
      BY <1>1, <1>3, <1>4, <1>5, <1>7 DEF OtherStep
<1>9. QED BY <1>6, <1>8

LEMMA FirstTickNext ==
    ASSUME TypeOK, MutexInv, TimersOK, FirstTick, [TimedNext]_<<vars, timerVars>>
    PROVE  FirstTick'
<1>1. CASE UNCHANGED <<vars, timerVars>>
      BY <1>1 DEF FirstTick, Doing, Running, Vtx, Noted, vars, machineVars, queueVars, runVars,
             workVars, lifeVars, ghostVars, timerVars
<1>2. CASE SpawnPlain
      BY <1>2 DEF SpawnPlain, FirstTick
<1>3. CASE SpawnTimer
      BY <1>3 DEF SpawnTimer, FirstTick
<1>4. CASE FiresAtOnce
  <2>1. Doing("spawn") /\ Vtx \in Timed /\ fired' = nextId /\ Accept(TimeEvent[Vtx])
        /\ UNCHANGED <<agenda, waitOn, ctxDone>>
        BY <1>4 DEF FiresAtOnce, Dispatch, workVars, restVars, lifeVars
  <2>2. stage = "run" /\ holder # Free
        BY <2>1, Busy DEF Doing, Running
  <2>3. (Doing("spawn") /\ Vtx \in Timed)'
        BY <2>1, <2>2 DEF Accept, Doing, Running, Vtx
  <2>4. PICK n \in EventName \ CompletionName : n = TimeEvent[Vtx]
        BY <2>1, TimersAssumption, TableNames
  <2>5. PICK i : i = nextId
        OBVIOUS
  <2>6. nextId < nextId'
        BY <2>1 DEF Accept, EventId
  <2>7. ~ctxDone => Noted(i)' /\ answer'[i] = "sent"
        BY <2>1, <2>2, <2>4, <2>5, AcceptNotes
  <2>8. QED BY <2>1, <2>3, <2>5, <2>6, <2>7 DEF FirstTick, Noted
<1>5. CASE OtherStep \/ \E t \in TaskId : TimerStep(t)
  <2>1. fired = 0
        BY <1>5, FirstIsNext
  <2>2. fired' = fired
        BY <1>5 DEF OtherStep, TimerStep, TimerFires, TimerAgain, TimerEnds, timerVars
  <2>3. QED BY <2>1, <2>2 DEF FirstTick
<1>6. QED BY <1>1, <1>2, <1>3, <1>4, <1>5 DEF TimedNext

\* The task filed for a timer that is started: it sleeps, or has sent.
LEMMA PileSpawned ==
    ASSUME TypeOK, RestInv, TimersOK, LiveInv, FirstTick, SpawnTimer, [Next]_vars, ~StopFinish,
           faults = 0, faults' = 0, NEW t \in TaskId, t = NextTask
    PROVE  PileAt(t)'
<1>1. timer'[t] = [phase |-> IF fired = 0 THEN "asleep" ELSE "sent", tick |-> fired]
      BY DEF SpawnTimer, TimersOK
<1>2. CASE fired = 0
      BY <1>1, <1>2 DEF PileAt
<1>3. CASE fired # 0 /\ ~ctxDone
  <2>1. PICK i : i = fired
        OBVIOUS
  <2>2. Sent(i)
        BY <1>3, <2>1 DEF FirstTick, Sent, TimersOK
  <2>3. Sent(i)'
        BY <2>2, SentStays
  <2>4. timer'[t].phase = "sent" /\ timer'[t].tick = i
        BY <1>1, <1>3, <2>1
  <2>5. QED BY <2>3, <2>4 DEF PileAt, Sent, Noted
<1>4. CASE fired # 0 /\ ctxDone
  <2>1. task'[t].status # "live"
        BY <1>4 DEF SpawnTimer, Spawn, SpawnFails, File, TypeOK
  <2>2. QED BY <2>1 DEF PileAt
<1>5. QED BY <1>2, <1>3, <1>4

LEMMA PileFires ==
    ASSUME TypeOK, LiveInv, TimersOK, NEW t \in TaskId, TimerFires(t)
    PROVE  PileAt(t)'
<1>1. /\ timer'[t].phase = "sent" /\ timer'[t].tick = nextId
      /\ Accept(TimeEvent[task[t].home]) /\ UNCHANGED task
      BY DEF TimerFires, Dispatch, restVars, taskVars, TimersOK
<1>2. CASE task[t].status = "live"
  <2>1. ~ctxDone
        BY <1>2 DEF LiveInv
  <2>2. PICK n \in EventName \ CompletionName : n = TimeEvent[task[t].home]
        BY TimersAssumption, TableNames DEF TimerFires, IsTimer
  <2>3. PICK i : i = nextId
        OBVIOUS
  <2>4. i \in EventId /\ i < nextId' /\ Noted(i)' /\ answer'[i] \in {"run", "sent"}
        BY <1>1, <2>1, <2>2, <2>3, AcceptNotes
  <2>5. Sent(i)'
        BY <2>4 DEF Sent
  <2>6. QED BY <1>1, <2>3, <2>5 DEF PileAt, Sent, Noted
<1>3. CASE task[t].status # "live"
      BY <1>1, <1>3 DEF PileAt
<1>4. QED BY <1>2, <1>3

LEMMA PileNext ==
    ASSUME TypeOK, MutexInv, RestInv, LiveInv, TimersOK, PileInv,
           TimedNext, faults = 0, faults' = 0, NEW t \in TaskId
    PROVE  PileAt(t)'
<1>1. [Next]_vars
      BY TimedStepIsStep
<1>2. PileAt(t) /\ FirstTick
      BY DEF PileInv
<1>3. CASE StopFinish
  <2>1. holder \in Client
    <3>1. stage = "run" /\ agenda # << >> /\ Head(agenda).op = "halt"
          BY <1>3 DEF StopFinish, Doing, Running
    <3>2. ASSUME holder \notin Client PROVE FALSE
      <4>1. agenda \in Seq(WorkOp)
            BY <3>1, <3>2, Busy DEF MutexInv, HolderWork
      <4>2. Head(agenda) \in WorkOp
            BY <3>1, <4>1, HeadTailProperties
      <4>3. QED BY <3>1, <4>2 DEF WorkOp
    <3>3. QED BY <3>2
  <2>2. task'[t].status # "live"
        BY <1>3, <2>1 DEF LiveInv, StopFinish, taskVars
  <2>3. QED BY <2>2 DEF PileAt
<1>4. CASE SpawnPlain /\ ~StopFinish
  <2>1. CASE t = NextTask
        BY <1>4, <2>1 DEF SpawnPlain, PileAt, Off, TimersOK
  <2>2. CASE t # NextTask
    <3>1. timer'[t] = timer[t] /\ task'[t] = task[t]
          BY <1>4, <2>2 DEF SpawnPlain, Spawn, SpawnFails, File, TimersOK, TypeOK
    <3>2. QED BY <1>1, <1>2, <1>4, <3>1, PileStays
  <2>3. QED BY <2>1, <2>2
<1>5. CASE SpawnTimer /\ ~StopFinish
  <2>1. CASE t = NextTask
        BY <1>1, <1>2, <1>5, <2>1, PileSpawned
  <2>2. CASE t # NextTask
    <3>1. timer'[t] = timer[t] /\ task'[t] = task[t]
          BY <1>5, <2>2 DEF SpawnTimer, Spawn, SpawnFails, File, TimersOK, TypeOK
    <3>2. QED BY <1>1, <1>2, <1>5, <3>1, PileStays
  <2>3. QED BY <2>1, <2>2
<1>6. CASE FiresAtOnce /\ ~StopFinish
      BY <1>1, <1>2, <1>6, PileStays DEF FiresAtOnce, Dispatch, restVars, taskVars
<1>7. ASSUME NEW u \in TaskId, TimerStep(u), ~StopFinish PROVE PileAt(t)'
  <2>1. task'[t].status = "live" => task[t].status = "live"
        BY <1>7, QuietStep, LiveStays DEF vars, taskVars
  <2>2. CASE TimerFires(u)
    <3>1. CASE u = t
          BY <2>2, <3>1, PileFires
    <3>2. CASE u # t
          BY <1>1, <1>2, <1>7, <2>1, <2>2, <3>2, PileStays DEF TimerFires
    <3>3. QED BY <3>1, <3>2
  <2>3. CASE TimerAgain(u)
    <3>1. CASE u = t
      <4>1. timer[t].phase = "sent" /\ answer[timer[t].tick] = "true"
            /\ timer'[t].phase = "asleep" /\ timer'[t].tick = timer[t].tick
            /\ UNCHANGED <<task, seen>>
            BY <2>3, <3>1 DEF TimerAgain, AnswerOf, TimersOK, vars, machineVars, taskVars, ghostVars
      <4>2. QED BY <1>2, <4>1 DEF PileAt, Sent
    <3>2. CASE u # t
          BY <1>1, <1>2, <1>7, <2>1, <2>3, <3>2, PileStays DEF TimerAgain
    <3>3. QED BY <3>1, <3>2
  <2>4. CASE UNCHANGED timerVars
        BY <1>1, <1>2, <1>7, <2>1, <2>4, PileStays DEF timerVars
  <2>5. QED BY <1>7, <2>2, <2>3, <2>4 DEF TimerStep, TimerEnds
<1>8. CASE OtherStep /\ ~StopFinish
  <2>1. task'[t].status = "live" => task[t].status = "live"
        BY <1>8, QuietStep, LiveStays DEF vars, taskVars
  <2>2. QED BY <1>1, <1>2, <1>8, <2>1, PileStays DEF OtherStep, timerVars
<1>9. QED BY <1>3, <1>4, <1>5, <1>6, <1>7, <1>8 DEF TimedNext

(***************************************************************************)
(* The event of a timer waits, is looked at, and only then answered, in    *)
(* every run that nobody stops; a run that is stopped has no live timer.   *)
(***************************************************************************)
THEOREM PileInvariant == TimedSpec => []PileInv
<1>1. TimedInit => PileInv
      BY DEF TimedInit, Init, PileInv, FirstTick, PileAt
<1>2. TypeOK /\ MutexInv /\ RestInv /\ LiveInv /\ TimersOK /\ PileInv
          /\ [TimedNext]_<<vars, timerVars>> => PileInv'
  <2> SUFFICES ASSUME TypeOK, MutexInv, RestInv, LiveInv, TimersOK, PileInv,
                      [TimedNext]_<<vars, timerVars>>
               PROVE  PileInv'
      OBVIOUS
  <2>1. FirstTick'
        BY FirstTickNext DEF PileInv
  <2>2. ASSUME faults' = 0, NEW t \in TaskId PROVE PileAt(t)'
    <3>1. CASE TimedNext
          BY <2>2, <3>1, PileNext, TimedStepIsStep, FaultsStay
    <3>2. CASE UNCHANGED <<vars, timerVars>>
          BY <2>2, <3>2 DEF PileInv, PileAt, Sent, Noted, vars, machineVars, queueVars, taskVars,
                 ghostVars, timerVars
    <3>3. QED BY <3>1, <3>2
  <2>3. QED BY <2>1, <2>2 DEF PileInv
<1>3. TimedSpec => [](TypeOK /\ MutexInv /\ RestInv /\ LiveInv)
      BY TimersRefine, TypeCorrect, MutexInvariant, RestInvariant, LiveInvariant, PTL
         DEF TimersImplementRuntime
<1>4. QED BY <1>1, <1>2, <1>3, TimersTyped, PTL DEF TimedSpec

(***************************************************************************)
(* EveryEvent: as long as no callback raises, a timer sleeps again only    *)
(* when the machine has looked at its last tick, whatever defers or drops  *)
(* its event and whoever stops and starts the machine meanwhile.           *)
(***************************************************************************)
THEOREM TicksDoNotPileUp == TimedSpec => []NoPileUp
<1>1. PileInv => NoPileUp
      BY DEF PileInv, PileAt, NoPileUp
<1>2. QED BY <1>1, PileInvariant, PTL
=============================================================================
