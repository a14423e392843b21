------------------------------ MODULE HsmTimers ------------------------------
(***************************************************************************)
(* The timers of one machine: the activities that After(), At(), Every()   *)
(* and When() add to the source state of their transition.  Each waits for *)
(* the clock, or a signal, and awaits a dispatch of its time event; Every  *)
(* then starts again.  How long they wait is left out: a timer that sleeps *)
(* may fire whenever the loop runs other tasks.  Everything else is a step *)
(* of HsmRuntime.                                                          *)
(***************************************************************************)
EXTENDS HsmRuntimeProps

CONSTANTS
    Timed,      \* the activities that are timers
    Every,      \* those that start again
    TimeEvent,  \* the event of each
    ClientName, \* names of the events others dispatch
    AtOnce      \* may a timer send its event before it first suspends?

ASSUME TimersAssumption ==
    /\ Timed \subseteq Activity /\ Every \subseteq Timed
    /\ TimeEvent \in [Timed -> DispatchName \ CompletionName]
    /\ ClientName \subseteq DispatchName
    /\ AtOnce \in BOOLEAN

VARIABLES
    timer,  \* what the task of an activity last did as a timer
    fired   \* the event a timer sent in its first segment, not filed yet

timerVars == <<timer, fired>>

Phase == {"off", "asleep", "sent"}
Timer == [phase : Phase, tick : EventId \cup {0}]
Off   == [phase |-> "off", tick |-> 0]

IsTimer(t) == task[t].home \in Timed
Works(t)   == task[t].status \in {"live", "stray", "orphan"}

(***************************************************************************)
(* Entering a state with timers                                            *)
(***************************************************************************)
SpawnPlain ==
    /\ Doing("spawn") /\ Vtx \notin Timed
    /\ Spawn \/ SpawnFails
    /\ timer' = [timer EXCEPT ![NextTask] = Off]
    /\ UNCHANGED fired

\* The clock of the machine returns at once, or what When() waits for is no
\* awaitable: the event is sent while the state is being entered.
FiresAtOnce ==
    /\ AtOnce
    /\ Doing("spawn") /\ Vtx \in Timed
    /\ fired = 0
    /\ Dispatch(TimeEvent[Vtx])
    /\ fired' = nextId
    /\ UNCHANGED timer

\* The timer sleeps, has just sent its event, or ends at once because its
\* delay is negative or cannot be computed.
SpawnTimer ==
    /\ Doing("spawn") /\ Vtx \in Timed
    /\ Spawn \/ SpawnFails
    /\ fired # 0 => task'[NextTask].status # "done"
    /\ timer' = [timer EXCEPT ![NextTask] =
                    [phase |-> IF fired = 0 THEN "asleep" ELSE "sent", tick |-> fired]]
    /\ fired' = 0

(***************************************************************************)
(* The loop of a timer                                                     *)
(***************************************************************************)
\* Mutant: the clock calls the machine from a thread of its own.
FiresFromThread(t) ==
    /\ Works(t) /\ IsTimer(t)
    /\ timer[t].phase = "asleep"
    /\ Accept(TimeEvent[task[t].home])
    /\ timer' = [timer EXCEPT ![t] = [phase |-> "sent", tick |-> nextId]]
    /\ UNCHANGED <<workVars, cur, taken, deferred, stateVars, restVars, fired>>

TimerFires(t) ==
    /\ Suspended /\ Works(t) /\ IsTimer(t)
    /\ timer[t].phase = "asleep"
    /\ Dispatch(TimeEvent[task[t].home])
    /\ timer' = [timer EXCEPT ![t] = [phase |-> "sent", tick |-> nextId]]
    /\ UNCHANGED fired

\* What the awaited dispatch of a timer came to.
AnswerOf(t) == answer[timer[t].tick]

\* Mutant: Every does not await its dispatch.
AgainAtOnce(t) ==
    /\ Suspended /\ Works(t) /\ task[t].home \in Every
    /\ timer[t].phase = "sent"
    /\ timer' = [timer EXCEPT ![t].phase = "asleep"]
    /\ UNCHANGED <<vars, fired>>

TimerAgain(t) ==
    /\ Suspended /\ Works(t) /\ task[t].home \in Every
    /\ timer[t].phase = "sent"
    /\ AnswerOf(t) = "true"
    /\ timer' = [timer EXCEPT ![t].phase = "asleep"]
    /\ UNCHANGED <<vars, fired>>

\* The delay is negative, the event was answered, or the timer raises: its
\* expression, its clock or its dispatch failed.
TimerEnds(t) ==
    /\ IsTimer(t)
    /\ \/ timer[t].phase = "asleep" /\ (TaskFinishes(t) \/ TaskFails(t))
       \/ /\ timer[t].phase = "sent"
          /\ \/ AnswerOf(t) = "true" /\ task[t].home \notin Every /\ TaskFinishes(t)
             \/ AnswerOf(t) = "failed" /\ TaskFails(t)
             \/ AnswerOf(t) = "failed" /\ (ctxDone \/ Startable) /\ TaskFinishes(t)
    /\ UNCHANGED timerVars

TimerStep(t) ==
    \/ TimerFires(t) \/ TimerAgain(t) \/ TimerEnds(t)
    \/ IsTimer(t) /\ TaskCancelled(t) /\ UNCHANGED timerVars

(***************************************************************************)
(* The specification                                                       *)
(***************************************************************************)
TimedInit == Init /\ timer = [t \in TaskId |-> Off] /\ fired = 0

\* The steps that no timer takes part in.
OtherStep ==
    /\ \/ HolderStep /\ ~Doing("spawn")
       \/ Raise
       \/ \E t \in TaskId : ~IsTimer(t) /\ TaskStep(t)
       \/ \E c \in Client : CallStep(c)
       \/ \E i \in EventId : WaitBegins(i)
       \/ fired = 0 /\ (Start \/ ParentEnds \/ \E c \in Client, m \in CallMode : StopCall(c, m))
       \/ fired = 0 /\ \E n \in ClientName : Dispatch(n)
    /\ UNCHANGED timerVars

TimedNext ==
    \/ SpawnPlain \/ FiresAtOnce \/ SpawnTimer
    \/ \E t \in TaskId : TimerStep(t)
    \/ OtherStep

TimedSpec == TimedInit /\ [][TimedNext]_<<vars, timerVars>>

\* As in HsmRuntime, and the clock goes on: a timer that sleeps gets its turn.
TimedFairness ==
    /\ WF_<<vars, timerVars>>(SpawnPlain \/ SpawnTimer \/ (HolderStep /\ OtherStep))
    /\ \A t \in TaskId : /\ WF_<<vars, timerVars>>(TaskCancelled(t) /\ UNCHANGED timerVars)
                         /\ SF_<<vars, timerVars>>(TimerFires(t))
    /\ \A c \in Client : SF_<<vars, timerVars>>(StopRetry(c) /\ UNCHANGED timerVars)

TimedFairSpec == TimedSpec /\ TimedFairness

TimersOK ==
    /\ timer \in [TaskId -> Timer]
    /\ fired \in EventId \cup {0}

(***************************************************************************)
(* Properties                                                              *)
(***************************************************************************)
\* TimeEvent, dispatch and _execute: whatever timers do, the machine sees
\* the steps of clients and activities that HsmRuntime has.
TimersImplementRuntime == Spec

StateOf(a) == CHOOSE v \in StateVertex : \E i \in DOMAIN Activities(v) : Activities(v)[i] = a

\* EveryEvent: ticks do not pile up.  A timer sleeps again only when the
\* machine has looked at its last tick, though it may have deferred it.
NoPileUp ==
    faults = 0 =>
        \A t \in TaskId :
            timer[t].phase = "asleep" /\ timer[t].tick # 0 /\ task[t].status = "live" =>
                timer[t].tick \in seen

\* _terminate and the time events: a timer sends its event only while its
\* state is entered and its exit behaviours have not run.
TicksInState ==
    [][faults = 0 =>
          \A t \in TaskId :
              Works(t) /\ timer[t].phase = "asleep" /\ timer'[t].phase = "sent" =>
                  balance[StateOf(task[t].home)] = 1]_<<vars, timerVars>>

HasSlept(a) == active[a] # None /\ timer[active[a]].phase = "asleep"
GaveUp(a)   == HasSlept(a) /\ task[active[a]].status = "done"

\* AfterEvent: a state whose timer runs is left in the end, by the time event
\* or by another, when the timer does not give up, events can be sent and no
\* callback raises.
\* (In charts where nothing holds the time event back.)
TimeoutHappens ==
    \A a \in Timed \ Every :
        HasSlept(a) ~> active[a] = None \/ GaveUp(a) \/ nextId \notin EventId
                             \/ faults > 0

\* README.md: After(duration_fn) "fires once after a relative duration", and
\* reference.md: timers are "automatically cancelled when exiting the state".
\* A time event that is looked at while its state is active was sent by the
\* timer of this activation.
OnTime ==
    [][\A a \in Timed :
          cur' # cur /\ cur'.name = TimeEvent[a] /\ active[a] # None =>
              timer[active[a]].tick = cur'.id]_<<vars, timerVars>>
=============================================================================
