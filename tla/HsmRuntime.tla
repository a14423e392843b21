----------------------------- MODULE HsmRuntime -----------------------------
(***************************************************************************)
(* One HSM (hsm.py, class HSM) on one asyncio loop: the run-to-completion  *)
(* loop _process, the transition executor (_transition, _enter, _exit), the*)
(* activities (_execute, _terminate), deferral, history, and the life cycle*)
(* _start, _stop and _restart, all under the mutex _processing.            *)
(*                                                                         *)
(* Everything between two suspension points of a coroutine is atomic on the*)
(* loop, so other tasks move only when Suspended: nobody holds the mutex,  *)
(* or its holder awaits a cancelled activity in _terminate.  User callbacks*)
(* (guards, entry, exit and effect behaviours, the eager first segment of  *)
(* an activity) run inside the holder's step and may call back into the    *)
(* machine: calls are possible when Yielded.                               *)
(*                                                                         *)
(* The holder's Python stack is the sequence agenda of what is left to do. *)
(* One entry is enough for a call in tail position (`return await          *)
(* self._transition(...)`), which replaces the agenda.                     *)
(***************************************************************************)
EXTENDS HsmTables

CONSTANTS
    DispatchName,   \* names of the events clients dispatch
    CompletionName, \* names of the events of a completion kind
    Client,         \* tasks that call stop() or restart()
    Free, Startup, Process, \* holders of the mutex that are not clients
    TaskId,         \* identities for activity tasks, reused when free
    CleanupDispatches, \* may a cancelled activity await dispatch() in its cleanup?
    ParentMayEnd,   \* may the context given to start() be cancelled?
    MaxEvents,      \* bound: events dispatched in a behaviour
    MaxFaults       \* bound: callbacks that raise in a behaviour

AnyEvent     == "*"
FinalEvent   == "hsm/final"
ErrorEvent   == "hsm/error"
InitialEvent == "hsm/initial"

(***************************************************************************)
(* Assumptions                                                             *)
(***************************************************************************)
ASSUME BoundsAssumption ==
    /\ MaxEvents \in Nat /\ MaxFaults \in Nat
    /\ CleanupDispatches \in BOOLEAN /\ ParentMayEnd \in BOOLEAN

ASSUME HolderAssumption ==
    /\ Free \notin Client /\ Startup \notin Client /\ Process \notin Client
    /\ Free # Startup /\ Free # Process /\ Startup # Process
    /\ None \notin TaskId

\* What DefaultModelValidator accepts and DefaultModelFinalizer returns.
ASSUME TablesAssumption == TablesTyped

ASSUME NamesAssumption ==
    DispatchName \cup {AnyEvent, FinalEvent, ErrorEvent, InitialEvent} \subseteq EventName

\* id 0 stands for the empty id of the events the runtime pushes itself.
EventId == 1 .. MaxEvents
Event   == [id : EventId \cup {0}, name : EventName]
NoEvent == [id |-> 0, name |-> InitialEvent]
Held    == [owner : Vertex, event : Event]

OpName == {"exit", "effect", "through", "enter", "spawn", "default",
           "arrive", "none", "halt"}
Op     == [op : OpName \ {"spawn"}, v : Vertex] \cup [op : {"spawn"}, v : Activity]
ToDo(name, v) == [op |-> name, v |-> v]

Stage      == {"idle", "pop", "select", "branch", "run", "replay", "drain"}
TaskStatus == {"done", "live", "stray", "orphan", "cancelling", "cleanwait"}
CallStatus == {"idle", "waiting", "woken", "running", "stopped"}
CallMode   == {"stop", "restart"}
IdleCall   == [status |-> "idle", mode |-> "stop"]
Outcome    == {"none", "processed", "dropped", "discarded", "cleared",
               "failed", "lost"}
Answer     == {"none", "run", "sent", "wait", "true", "failed"}

VARIABLES
    state,      \* _state
    history,    \* _history
    lifo, fifo, \* _queue: completion events, regular events
    holder,     \* who holds _processing
    stage,      \* what the holder is doing
    agenda,     \* what is left of the call being executed
    cands,      \* transitions whose guards are still to be looked at
    from,       \* the vertex those transitions are tried from
    waitOn,     \* the task the holder awaits in _terminate
    cur, curId, \* the event in hand; current_event_id, 0 for None
    taken,      \* source of the transition selected for cur
    deferred,   \* the local list of _process
    active,     \* _active: the task filed under the name of an activity
    task,       \* the activity tasks
    ctxDone,    \* is _context done?
    registered, \* is the instance in the Instances registry?
    client,     \* the calls of stop() and restart()
    nextId,     \* id of the next dispatched event
    outcome,    \* what became of each event that left the queue
    answer,     \* the awaitable each dispatch() returned
    seen,       \* regular events taken off the queue at least once
    balance,    \* completed entries minus completed exits of a state; the model: in a run
    faults      \* callbacks that raised

queueVars == <<lifo, fifo>>
workVars  == <<agenda, cands, from, waitOn>>
runVars   == <<holder, stage, workVars>>
eventVars == <<cur, curId, taken, deferred>>
stateVars == <<state, history, balance>>
taskVars  == <<active, task>>
lifeVars  == <<ctxDone, registered>>
ghostVars == <<nextId, outcome, answer, seen>>
restVars  == <<taskVars, lifeVars, client, faults>>
machineVars == <<queueVars, runVars, eventVars, stateVars, lifeVars, ghostVars>>
vars == <<machineVars, taskVars, client, faults>>

(***************************************************************************)
(* Who may move                                                            *)
(***************************************************************************)
Suspended == holder = Free \/ waitOn # None

Running(s) == stage = s /\ waitOn = None

\* The next step of the agenda, when it is op.
Doing(op) == Running("run") /\ agenda # << >> /\ Head(agenda).op = op

Vtx == Head(agenda).v

\* Does an activity of v have a task to cancel?
HasActive(v) == \E i \in DOMAIN Activities(v) : active[Activities(v)[i]] # None

HasCallback(o) ==
    \/ o.op = "effect"
    \/ o.op \in {"through", "enter"} /\ o.v \in Model.entry
    \/ o.op = "exit" /\ o.v \in Model.exit /\ ~HasActive(o.v)
    \/ o.op = "spawn"

InGuard == stage \in {"select", "branch"} /\ cands # << >> /\ Guarded(Head(cands))

InBehaviour == Running("run") /\ agenda # << >> /\ HasCallback(Head(agenda))

HandlerNext == stage = "branch" /\ cands # << >> /\ IsHandler(Head(cands))

InHandler == HandlerNext /\ Head(cands) \in Model.effect

Yielded == Suspended \/ InGuard \/ InHandler \/ InBehaviour

\* Steps of the holder that only change what it does next.
GoTo(s) ==
    /\ stage' = s
    /\ UNCHANGED <<queueVars, holder, workVars, eventVars, stateVars, restVars, ghostVars>>

Continue(todo) ==
    /\ agenda' = todo
    /\ UNCHANGED <<queueVars, holder, stage, cands, from, waitOn, eventVars,
                   stateVars, restVars, ghostVars>>

(***************************************************************************)
(* The mutex and its waiters                                               *)
(***************************************************************************)
\* Mutants: stop() is not retried; dispatch() forgets its own awaitable.
NotWoken(calls) == calls
WaitersAnswered(ran) ==
    [i \in EventId |-> IF answer[i] = "wait" THEN "true" ELSE answer[i]]

\* Mutex.release wakes every waiter: the stop() calls will try the lock, the
\* awaitables of dispatch() resolve, and so does an activity's own.
Woken(calls) ==
    [c \in Client |-> IF calls[c].status = "waiting"
                      THEN [calls[c] EXCEPT !.status = "woken"] ELSE calls[c]]

Answered(ran) ==
    [i \in EventId |-> CASE answer[i] = "wait" -> "true"
                         [] answer[i] = "run"  -> ran
                         [] OTHER              -> answer[i]]

Release == /\ holder' = Free /\ stage' = "idle"
           /\ agenda' = << >> /\ cands' = << >> /\ from' = Root /\ waitOn' = None

\* What an event in hand or in a list becomes; id 0 is not tracked.
Settle(ids, what) == [i \in EventId |-> IF i \in ids THEN what ELSE outcome[i]]
IdsOf(s)  == {s[i].id : i \in DOMAIN s}
HeldIds   == {deferred[i].event.id : i \in DOMAIN deferred}

(***************************************************************************)
(* MultiQueue                                                              *)
(***************************************************************************)
\* Mutant: a regular event is pushed in front.
PushFront(e) == IF e.name \in CompletionName
                THEN lifo' = <<e>> \o lifo /\ UNCHANGED fifo
                ELSE fifo' = <<e>> \o fifo /\ UNCHANGED lifo

Push(e) == IF e.name \in CompletionName
           THEN lifo' = <<e>> \o lifo /\ UNCHANGED fifo
           ELSE fifo' = Append(fifo, e) /\ UNCHANGED lifo

NextEvent == IF lifo # << >> THEN Head(lifo) ELSE Head(fifo)

PopQueue == IF lifo # << >>
            THEN lifo' = Tail(lifo) /\ UNCHANGED <<fifo, seen>>
            ELSE fifo' = Tail(fifo) /\ UNCHANGED lifo /\ seen' = seen \cup {Head(fifo).id}

QueueEmpty == lifo = << >> /\ fifo = << >>

(***************************************************************************)
(* What a call of _transition, _enter or _exit has to do                   *)
(***************************************************************************)
\* Mutants: the outermost vertex of a path is not left; it is left first.
ExitsButLast(path) == [i \in 1 .. Len(path) - 1 |-> ToDo("exit", path[i])]
ExitsOutermost(path) == [i \in DOMAIN path |-> ToDo("exit", path[Len(path) + 1 - i])]

Exits(path) == [i \in DOMAIN path |-> ToDo("exit", path[i])]

Enters(path, target) ==
    [i \in DOMAIN path |->
        ToDo(IF path[i] = target THEN "enter" ELSE "through", path[i])]

Effects(t, v) == IF t \in Model.effect THEN <<ToDo("effect", v)>> ELSE << >>

TransitionAgenda(t, current) ==
    Exits(ExitPath(t, current)) \o Effects(t, current) \o
    IF Target(t) = None THEN <<ToDo("arrive", current)>>
    ELSE Enters(EnterPath(t, current), Target(t)) \o <<ToDo("arrive", Target(t))>>

\* skip_history_owner
SkipOwner(t) == IF Target(t) \in History THEN Chain(Target(t))[2] ELSE None

\* Mutant: every history remembers the state that is left.
RememberEverywhere(t, current) ==
    history' = IF ExitPath(t, current) = << >> THEN history
               ELSE [h \in History |-> current]

Remember(t, current) ==
    LET targets == HistoryTargets(current, SkipOwner(t))
    IN  history' = IF ExitPath(t, current) = << >> THEN history
                   ELSE [h \in History |-> IF targets[h] = None
                                           THEN history[h] ELSE targets[h]]

\* _transition(ctx, current, transition, event)
Follow(t, current) ==
    /\ stage' = "run"
    /\ agenda' = TransitionAgenda(t, current)
    /\ cands' = << >> /\ from' = Root
    /\ Remember(t, current)

(***************************************************************************)
(* dispatch                                                                *)
(***************************************************************************)
\* Mutant: start() looks at the state only.
StartableInModel == state = Root

Startable == state = Root /\ holder = Free

\* The machine takes event n: the event is queued; when the mutex is free
\* the caller becomes the processor, when a stop() in progress has cancelled
\* the context the answer is immediate, otherwise a new task will wait.
Accept(n) ==
    /\ nextId \in EventId
    /\ Push([id |-> nextId, name |-> n])
    /\ nextId' = nextId + 1
    /\ IF holder = Free
       THEN /\ answer' = [answer EXCEPT ![nextId] = "run"]
            /\ holder' = Process /\ stage' = "pop" /\ curId' = nextId
       ELSE /\ answer' = [answer EXCEPT ![nextId] = IF ctxDone THEN "true" ELSE "sent"]
            /\ UNCHANGED <<holder, stage, curId>>
    /\ UNCHANGED <<outcome, seen>>

\* A client, or a callback, dispatches; a machine that is not running
\* rejects the event, which changes nothing.
Dispatch(n) ==
    /\ Yielded
    /\ ~Startable
    /\ Accept(n)
    /\ UNCHANGED <<workVars, cur, taken, deferred, stateVars, restVars>>

\* The task of a dispatch() that found the mutex taken begins only now, and
\* waits for whoever has the mutex by then.
WaitBegins(i) ==
    /\ Suspended
    /\ answer[i] = "sent"
    /\ answer' = [answer EXCEPT ![i] = IF holder = Free THEN "true" ELSE "wait"]
    /\ UNCHANGED <<queueVars, runVars, eventVars, stateVars, restVars, nextId, outcome, seen>>

(***************************************************************************)
(* _process: pop, select, settle                                           *)
(***************************************************************************)
DeferOwner(e) == DeferredMap(state, e.name)

\* An event other than the dispatched one is deferred without looking at
\* its transitions.
DeferUnseen(e) == curId # 0 /\ e.id # curId /\ DeferOwner(e) # None

PopDeferred ==
    /\ Running("pop") /\ ~QueueEmpty
    /\ DeferUnseen(NextEvent)
    /\ deferred' = Append(deferred, [owner |-> DeferOwner(NextEvent), event |-> NextEvent])
    /\ PopQueue
    /\ UNCHANGED <<runVars, cur, curId, taken, stateVars, restVars, nextId, outcome, answer>>

Candidates(e) ==
    TransitionMap(state, e.name) \o
    IF e.name = AnyEvent THEN << >> ELSE TransitionMap(state, AnyEvent)

PopEvent ==
    /\ Running("pop") /\ ~QueueEmpty
    /\ ~DeferUnseen(NextEvent)
    /\ PopQueue
    /\ cur' = NextEvent
    /\ cands' = Candidates(NextEvent) /\ from' = state
    /\ stage' = "select"
    /\ UNCHANGED <<holder, agenda, waitOn, curId, taken, deferred, stateVars,
                   restVars, nextId, outcome, answer>>

\* The next transition has no guard, or its guard holds.
TakeTransition ==
    /\ stage \in {"select", "branch"}
    /\ cands # << >> /\ ~HandlerNext
    /\ Follow(Head(cands), from)
    /\ taken' = IF stage = "select" THEN Source(Head(cands)) ELSE taken
    /\ UNCHANGED <<queueVars, holder, waitOn, cur, curId, deferred, state, balance,
                   restVars, ghostVars>>

NextCandidate ==
    /\ cands' = Tail(cands)
    /\ UNCHANGED <<queueVars, holder, stage, agenda, from, waitOn, eventVars,
                   stateVars, restVars, ghostVars>>

GuardFails == InGuard /\ NextCandidate

HandlerRuns == HandlerNext /\ NextCandidate

\* The event leads nowhere: it is deferred or dropped.
Unhandled ==
    /\ stage' = "pop" /\ agenda' = << >> /\ from' = Root /\ cur' = NoEvent
    /\ IF DeferOwner(cur) # None
       THEN /\ deferred' = Append(deferred, [owner |-> DeferOwner(cur), event |-> cur])
            /\ UNCHANGED outcome
       ELSE outcome' = Settle({cur.id}, "dropped") /\ UNCHANGED deferred
    /\ UNCHANGED <<queueVars, holder, cands, waitOn, curId, taken, stateVars,
                   restVars, nextId, answer, seen>>

NoTransition == stage = "select" /\ cands = << >> /\ Unhandled

\* Mutant: whatever _transition returns becomes the state.
NothingArrives ==
    /\ Doing("none") /\ state' = None /\ stage' = "replay" /\ agenda' = << >>
    /\ UNCHANGED <<queueVars, holder, cands, from, waitOn, eventVars, history,
                   balance, restVars, ghostVars>>

\* A history without memory and default transition: _transition returns
\* None and the machine stays in its old state.
NoResult == Doing("none") /\ Unhandled

\* _transition returned a vertex: it is the new state.  During startup this
\* is the end of _enter, and nothing is deferred yet.
Arrive ==
    /\ Doing("arrive")
    /\ state' = Vtx
    /\ outcome' = Settle({cur.id}, "processed") /\ cur' = NoEvent
    /\ stage' = "replay" /\ agenda' = << >>
    /\ UNCHANGED <<queueVars, holder, cands, from, waitOn, curId, taken, deferred,
                   history, balance, restVars, nextId, answer, seen>>

\* Deferred inside a submachine state that has been left.
Discarded(owner) ==
    LET sub == Submachine(owner)
    IN  sub # None /\ state # sub /\ ~IsAncestor(sub, state) /\ ~IsAncestor(sub, taken)

\* After a transition every deferred event goes back to the queue.
Replay ==
    /\ Running("replay") /\ deferred # << >>
    /\ deferred' = Tail(deferred)
    /\ LET h == Head(deferred)
       IN  IF Discarded(h.owner)
           THEN outcome' = Settle({h.event.id}, "discarded") /\ UNCHANGED queueVars
           ELSE Push(h.event) /\ UNCHANGED outcome
    /\ UNCHANGED <<runVars, cur, curId, taken, stateVars, restVars, nextId, answer, seen>>

\* Mutant: the loop goes on before the deferred events are back.
ReplaySkipped == Running("replay") /\ GoTo("pop")

Replayed == Running("replay") /\ deferred = << >> /\ GoTo("pop")

\* Mutant: one event at a time.
DrainEarly == Running("pop") /\ GoTo("drain")

\* The queue is empty: what is still deferred goes back for the next time.
Drain == Running("pop") /\ QueueEmpty /\ GoTo("drain")

\* Mutant: the local list is forgotten.
PutBackForgets ==
    /\ Running("drain") /\ deferred # << >>
    /\ deferred' = Tail(deferred)
    /\ UNCHANGED <<queueVars, runVars, cur, curId, taken, stateVars, restVars, ghostVars>>

PutBack ==
    /\ Running("drain") /\ deferred # << >>
    /\ Push(Head(deferred).event)
    /\ deferred' = Tail(deferred)
    /\ UNCHANGED <<runVars, cur, curId, taken, stateVars, restVars, ghostVars>>

Finish ==
    /\ Running("drain") /\ deferred = << >>
    /\ Release
    /\ curId' = 0 /\ taken' = Root
    /\ client' = Woken(client)
    /\ answer' = Answered("true")
    /\ UNCHANGED <<queueVars, cur, deferred, stateVars, taskVars, lifeVars, faults,
                   nextId, outcome, seen>>

(***************************************************************************)
(* _transition, _enter, _exit: callbacks that return                       *)
(***************************************************************************)
Effect == Doing("effect") /\ Continue(Tail(agenda))

Spawns(v) == [i \in DOMAIN Activities(v) |-> ToDo("spawn", Activities(v)[i])]

\* The entry behaviours of a state; its activities and, when the state is
\* the target, its default entry follow.
EnterState ==
    /\ Doing("through") \/ Doing("enter")
    /\ Vtx \in StateVertex
    /\ balance' = [balance EXCEPT ![Vtx] = @ + 1]
    /\ agenda'  = Spawns(Vtx) \o
                  (IF Head(agenda).op = "enter" THEN <<ToDo("default", Vtx)>>
                                                ELSE Tail(agenda))
    /\ UNCHANGED <<queueVars, holder, stage, cands, from, waitOn, eventVars, state,
                   history, restVars, ghostVars>>

\* A final state is entered: a completion event that nobody dispatched.
EnterFinal ==
    /\ Doing("default")
    /\ Kind(Vtx) = "final"
    /\ Push([id |-> 0, name |-> FinalEvent])
    /\ agenda' = <<ToDo("arrive", Vtx)>>
    /\ UNCHANGED <<holder, stage, cands, from, waitOn, eventVars, stateVars, restVars,
                   ghostVars>>

EnterSimple ==
    /\ Doing("default")
    /\ Kind(Vtx) # "final" /\ Initial(Vtx) = None
    /\ Continue(<<ToDo("arrive", Vtx)>>)

EnterInitial ==
    /\ Doing("default")
    /\ Kind(Vtx) # "final" /\ Initial(Vtx) # None
    /\ Follow(Initial(Vtx), Vtx)
    /\ UNCHANGED <<queueVars, holder, waitOn, eventVars, state, balance, restVars,
                   ghostVars>>

\* A choice, an entry or exit point, or a history with nothing remembered:
\* its own transitions.  The handlers of an exit point come first.
EnterPseudo ==
    /\ Doing("enter")
    /\ Vtx \notin StateVertex
    /\ Vtx \in History => history[Vtx] = None
    /\ stage' = "branch" /\ agenda' = << >>
    /\ cands' = Outgoing(Vtx) /\ from' = Vtx
    /\ UNCHANGED <<queueVars, holder, waitOn, eventVars, stateVars, restVars, ghostVars>>

EnterHistory ==
    /\ Doing("enter")
    /\ Vtx \in History
    /\ history[Vtx] # None
    /\ Continue(Enters(HistoryPath(Vtx, history[Vtx]), history[Vtx])
                    \o <<ToDo("none", Vtx)>>)

\* No branch is left: a choice is its own result, a history has none.
NoBranch ==
    /\ stage = "branch" /\ cands = << >> /\ Kind(from) # "exit"
    /\ stage' = "run" /\ from' = Root
    /\ agenda' = <<ToDo(IF from \in History THEN "none" ELSE "arrive", from)>>
    /\ UNCHANGED <<queueVars, holder, cands, waitOn, eventVars, stateVars, restVars,
                   ghostVars>>

(***************************************************************************)
(* Activities                                                              *)
(***************************************************************************)
IsFree(t) == task[t].status = "done" /\ \A a \in Activity : active[a] # t

NextTask == CHOOSE t \in TaskId : IsFree(t)

\* _execute of an activity: its first segment runs at once, and the task is
\* filed under the name of the activity whatever was filed there before.
File(status) ==
    /\ Doing("spawn")
    /\ \E t \in TaskId : IsFree(t)
    /\ active' = [active EXCEPT ![Vtx] = NextTask]
    /\ task'   = [task EXCEPT ![NextTask] = [status |-> status, home |-> Vtx]]
    /\ agenda' = Tail(agenda)

\* The activity suspends, or has already returned.
Spawn ==
    /\ \E status \in {"done", IF ctxDone THEN "orphan" ELSE "live"} : File(status)
    /\ UNCHANGED <<queueVars, holder, stage, cands, from, waitOn, eventVars,
                   stateVars, lifeVars, client, faults, ghostVars>>

\* It raises before its first await: an ErrorEvent, unless its context is
\* already done.
SpawnFails ==
    /\ ~ctxDone
    /\ File("done")
    /\ Accept(ErrorEvent)
    /\ UNCHANGED <<cands, from, waitOn, cur, taken, deferred, stateVars, lifeVars,
                   client, faults>>

\* Mutants: the task is forgotten; cancelled and not awaited; awaited and not
\* cancelled.
ForgetTask(t) == UNCHANGED <<task, waitOn>>
CancelOnly(t) == task' = [task EXCEPT ![t].status = "cancelling"] /\ UNCHANGED waitOn
AwaitOnly(t)  == waitOn' = t /\ UNCHANGED task

Cancel(t) == task' = [task EXCEPT ![t].status = "cancelling"] /\ waitOn' = t

\* _terminate, for the first activity of the state being left that is still
\* filed: cancel its task and await it.
Terminate ==
    /\ Doing("exit")
    /\ \E i \in DOMAIN Activities(Vtx) :
           LET a == Activities(Vtx)[i]
           IN  /\ active[a] # None
               /\ \A j \in 1 .. i - 1 : active[Activities(Vtx)[j]] = None
               /\ active' = [active EXCEPT ![a] = None]
               /\ IF task[active[a]].status = "done" THEN UNCHANGED <<task, waitOn>>
                                                     ELSE Cancel(active[a])
    /\ UNCHANGED <<queueVars, holder, stage, agenda, cands, from, eventVars,
                   stateVars, lifeVars, client, faults, ghostVars>>

Resume ==
    /\ waitOn # None
    /\ task[waitOn].status = "done"
    /\ waitOn' = None
    /\ UNCHANGED <<queueVars, holder, stage, agenda, cands, from, eventVars,
                   stateVars, restVars, ghostVars>>

\* The exit behaviours of a state without a filed activity, then the
\* next vertex.  Leaving a choice does nothing.
Leave ==
    /\ Doing("exit")
    /\ ~HasActive(Vtx)
    /\ balance' = IF Vtx \in StateVertex THEN [balance EXCEPT ![Vtx] = @ - 1] ELSE balance
    /\ agenda'  = Tail(agenda)
    /\ UNCHANGED <<queueVars, holder, stage, cands, from, waitOn, eventVars, state,
                   history, restVars, ghostVars>>

TaskEnds(t) ==
    /\ task' = [task EXCEPT ![t].status = "done"]
    /\ UNCHANGED <<machineVars, active, client, faults>>

\* The activity returns.
TaskFinishes(t) ==
    Suspended /\ task[t].status \in {"live", "stray", "orphan"} /\ TaskEnds(t)

\* The cancelled activity ends; whatever its cleanup raises is dropped
\* because its context is done.
TaskCancelled(t) == Suspended /\ task[t].status = "cancelling" /\ TaskEnds(t)

\* The activity raises under a context that is not done: it dispatches an
\* ErrorEvent to its machine.  (Under a done context, or to a machine that
\* is not running, the error is dropped: TaskFinishes.)
TaskFails(t) ==
    /\ Suspended
    /\ ~Startable
    /\ task[t].status \in {"live", "stray"}
    /\ task' = [task EXCEPT ![t].status = "done"]
    /\ Accept(ErrorEvent)
    /\ UNCHANGED <<workVars, cur, taken, deferred, stateVars, active, lifeVars,
                   client, faults>>

\* The cleanup of a cancelled activity awaits a dispatch.
TaskCleanup(t, n) ==
    /\ CleanupDispatches
    /\ Suspended
    /\ holder # Free
    /\ task[t].status = "cancelling"
    /\ Accept(n)
    /\ task' = [task EXCEPT ![t].status = IF ctxDone THEN @ ELSE "cleanwait"]
    /\ UNCHANGED <<workVars, cur, taken, deferred, stateVars, active, lifeVars,
                   client, faults>>

(***************************************************************************)
(* A callback raises, or an exit point finds no outcome: the finally       *)
(* clauses on the stack release the mutex, and the local list of deferred  *)
(* events goes with the frame of _process.                                 *)
(***************************************************************************)
ExitUnhandled == stage = "branch" /\ cands = << >> /\ Kind(from) = "exit"

Raise ==
    /\ \/ /\ faults < MaxFaults
          /\ InGuard \/ InHandler \/ (InBehaviour /\ Head(agenda).op # "spawn")
       \/ ExitUnhandled
    /\ faults' = faults + 1
    /\ Release
    /\ deferred' = << >> /\ cur' = NoEvent /\ curId' = 0 /\ taken' = Root
    /\ outcome'  = [i \in EventId |-> IF i = cur.id THEN "failed"
                                      ELSE IF i \in HeldIds THEN "lost"
                                      ELSE outcome[i]]
    /\ answer'   = Answered("failed")
    /\ client'   = [c \in Client |-> IF c = holder THEN IdleCall ELSE Woken(client)[c]]
    /\ UNCHANGED <<queueVars, stateVars, taskVars, lifeVars, nextId, seen>>

(***************************************************************************)
(* _start, _stop, _restart                                                 *)
(***************************************************************************)
NewContext == registered' = TRUE /\ ctxDone' = FALSE

\* Mutant: stop() leaves the queue alone.
QueueKept == UNCHANGED <<lifo, fifo, outcome>>

ClearQueue ==
    /\ lifo' = << >> /\ fifo' = << >>
    /\ outcome' = Settle(IdsOf(lifo) \cup IdsOf(fifo), "cleared")

\* The tasks under the context of the machine, when that context changes.
LiveBecome(status) ==
    [t \in TaskId |-> IF task[t].status = "live"
                      THEN [task[t] EXCEPT !.status = status] ELSE task[t]]

\* The queue and the activities that earlier runs left behind stay; the new
\* context has nothing to do with the one of those activities.
BeginStartup ==
    /\ Startable
    /\ holder' = Startup /\ stage' = "run" /\ agenda' = <<ToDo("enter", Root)>>
    /\ history' = [h \in History |-> None]
    /\ NewContext
    /\ balance' = [balance EXCEPT ![Root] = 0]
    /\ task' = LiveBecome("stray")
    /\ UNCHANGED <<queueVars, cands, from, waitOn, eventVars, state, active,
                   ghostVars, faults>>

Start == BeginStartup /\ UNCHANGED client

\* The context given to start() is cancelled, and with it the one of the
\* machine, its child: nothing else happens, the machine goes on.
ParentEnds ==
    /\ ParentMayEnd
    /\ Yielded
    /\ ctxDone' = TRUE
    /\ task' = LiveBecome("orphan")
    /\ UNCHANGED <<queueVars, runVars, eventVars, stateVars, active, registered,
                   client, ghostVars, faults>>

\* The lock is taken: the context is cancelled, and the states from the
\* current one up to, not including, the model are left.
BeginStop(c, m) ==
    /\ holder = Free
    /\ holder' = c /\ stage' = "run"
    /\ agenda' = Exits(SubSeq(Chain(state), 1, Len(Chain(state)) - 1))
                     \o <<ToDo("halt", Root)>>
    /\ ctxDone' = TRUE
    /\ task' = LiveBecome("orphan")
    /\ client' = [client EXCEPT ![c] = [status |-> "running", mode |-> m]]
    /\ UNCHANGED <<queueVars, cands, from, waitOn, eventVars, stateVars, active,
                   registered, ghostVars, faults>>

CallBecomes(c, call) ==
    /\ client' = [client EXCEPT ![c] = call]
    /\ UNCHANGED <<machineVars, taskVars, faults>>

StopWaits(c, m) ==
    holder # Free /\ CallBecomes(c, [status |-> "waiting", mode |-> m])

\* stop(), or restart(), which refuses a machine that is not running.
StopCall(c, m) ==
    /\ Yielded
    /\ client[c].status = "idle"
    /\ m = "restart" => ~Startable
    /\ BeginStop(c, m) \/ StopWaits(c, m)

\* A woken waiter finds the mutex free, or taken again.
StopRetry(c) ==
    /\ Suspended
    /\ client[c].status = "woken"
    /\ BeginStop(c, client[c].mode) \/ StopWaits(c, client[c].mode)

StopFinish ==
    /\ Doing("halt")
    /\ Release
    /\ ClearQueue
    /\ state' = Root
    /\ registered' = FALSE
    /\ answer' = Answered("true")
    /\ client' = [Woken(client) EXCEPT ![holder].status = "stopped"]
    /\ UNCHANGED <<eventVars, history, balance, taskVars, ctxDone, nextId, seen, faults>>

StopReturns(c) ==
    /\ Suspended
    /\ client[c] = [status |-> "stopped", mode |-> "stop"]
    /\ CallBecomes(c, IdleCall)

RestartStarts(c) ==
    /\ client[c] = [status |-> "stopped", mode |-> "restart"]
    /\ BeginStartup
    /\ client' = [client EXCEPT ![c] = IdleCall]

\* Somebody else has started the machine: _start raises.
RestartFails(c) ==
    /\ Suspended
    /\ ~Startable
    /\ client[c] = [status |-> "stopped", mode |-> "restart"]
    /\ CallBecomes(c, IdleCall)

\* The context given to restart() is done: a stop that waits for the mutex
\* is cancelled; one that awaits an activity passes the cancellation on to
\* it, finishes, and nothing is started.
RestartAbandoned(c) ==
    /\ Suspended
    /\ client[c].mode = "restart"
    /\ client[c].status # "idle"
    /\ IF client[c].status = "running"
       THEN /\ client' = [client EXCEPT ![c].mode = "stop"]
            /\ task' = [t \in TaskId |->
                           IF t = waitOn /\ task[t].status = "cleanwait"
                           THEN [task[t] EXCEPT !.status = "cancelling"] ELSE task[t]]
       ELSE client' = [client EXCEPT ![c] = IdleCall] /\ UNCHANGED task
    /\ UNCHANGED <<machineVars, active, faults>>

(***************************************************************************)
(* The specification                                                       *)
(***************************************************************************)
Init ==
    /\ state = Root
    /\ history = [h \in History |-> None]
    /\ lifo = << >> /\ fifo = << >>
    /\ holder = Free /\ stage = "idle" /\ agenda = << >>
    /\ cands = << >> /\ from = Root /\ waitOn = None
    /\ cur = NoEvent /\ curId = 0 /\ taken = Root /\ deferred = << >>
    /\ active = [a \in Activity |-> None]
    /\ task = [t \in TaskId |-> [status |-> "done", home |-> None]]
    /\ ctxDone = TRUE /\ registered = FALSE
    /\ client = [c \in Client |-> IdleCall]
    /\ nextId = 1
    /\ outcome = [i \in EventId |-> "none"]
    /\ answer = [i \in EventId |-> "none"]
    /\ seen = {}
    /\ balance = [v \in StateVertex |-> 0]
    /\ faults = 0

ProcessStep ==
    \/ PopDeferred \/ PopEvent
    \/ TakeTransition \/ GuardFails \/ HandlerRuns \/ NoTransition
    \/ NoResult \/ Arrive
    \/ Replay \/ Replayed
    \/ Drain \/ PutBack \/ Finish

TransitionStep ==
    \/ Effect \/ EnterState \/ EnterFinal \/ EnterSimple \/ EnterInitial
    \/ EnterPseudo \/ EnterHistory \/ NoBranch
    \/ Spawn \/ SpawnFails \/ Terminate \/ Resume \/ Leave

\* The coroutine that holds the mutex moves; a callback that raises is a
\* step nobody can count on, an exit point without an outcome is none.
HolderStep == ProcessStep \/ TransitionStep \/ StopFinish

TaskStep(t) ==
    \/ TaskFinishes(t) \/ TaskFails(t) \/ TaskCancelled(t)
    \/ \E n \in DispatchName : TaskCleanup(t, n)

CallStep(c) ==
    \/ StopRetry(c) \/ StopReturns(c) \/ RestartStarts(c) \/ RestartFails(c)
    \/ RestartAbandoned(c)

ClientStep ==
    \/ Start \/ ParentEnds
    \/ \E n \in DispatchName : Dispatch(n)
    \/ \E c \in Client, m \in CallMode : StopCall(c, m)

Next ==
    \/ HolderStep
    \/ Raise
    \/ \E t \in TaskId : TaskStep(t)
    \/ \E c \in Client : CallStep(c)
    \/ \E i \in EventId : WaitBegins(i)
    \/ ClientStep

Spec == Init /\ [][Next]_vars

\* Callbacks return, a ready coroutine is resumed by the loop, and a
\* cancelled activity ends.
Fairness ==
    /\ WF_vars(HolderStep \/ (ExitUnhandled /\ Raise))
    /\ \A t \in TaskId : WF_vars(TaskCancelled(t))
    /\ \A i \in EventId : SF_vars(WaitBegins(i))
    /\ \A c \in Client : SF_vars(StopRetry(c)) /\ WF_vars(StopReturns(c))
                         /\ SF_vars(RestartStarts(c) \/ RestartFails(c))

FairSpec == Spec /\ Fairness

TypeOK ==
    /\ state \in Vertex
    /\ history \in [History -> Vertex \cup {None}]
    /\ lifo \in Seq(Event) /\ fifo \in Seq(Event)
    /\ holder \in {Free, Startup, Process} \cup Client
    /\ stage \in Stage
    /\ agenda \in Seq(Op)
    /\ cands \in Seq(Transition)
    /\ from \in Vertex
    /\ waitOn \in TaskId \cup {None}
    /\ cur \in Event /\ curId \in EventId \cup {0}
    /\ taken \in Vertex
    /\ deferred \in Seq(Held)
    /\ active \in [Activity -> TaskId \cup {None}]
    /\ task \in [TaskId -> [status : TaskStatus, home : Activity \cup {None}]]
    /\ ctxDone \in BOOLEAN /\ registered \in BOOLEAN
    /\ client \in [Client -> [status : CallStatus, mode : CallMode]]
    /\ nextId \in 1 .. MaxEvents + 1
    /\ outcome \in [EventId -> Outcome]
    /\ answer \in [EventId -> Answer]
    /\ seen \subseteq EventId \cup {0}
    /\ balance \in [StateVertex -> Int]
    /\ faults \in Nat
=============================================================================
