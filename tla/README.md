# A formal model of hsm.py

`hsm.py` runs hierarchical state machines on an asyncio event loop. The program
is small; what makes it hard is that one machine is entered from many places at
once: clients that dispatch, callbacks that dispatch from inside a transition,
activities that fail while their state is being left, `stop()` and `restart()`
calls that wait for a mutex, timers, attributes that are set, and calls on groups
of machines; and before all that, a chart is put together by a builder that
replays machines into one another and must find out what their names mean. This
directory holds TLA+ modules of that behaviour, the configurations that check
them with TLC, and proofs of the facts everything else rests on, checked with
TLAPS.

Line numbers below are of `src/hsm/hsm.py` unless another file is named.

1. [The system](#1-the-system)
2. [The modules](#2-the-modules)
3. [How the models correspond to the code](#3-how-the-models-correspond-to-the-code)
4. [The runs](#4-the-runs)
5. [Where the documents and the code disagree](#5-where-the-documents-and-the-code-disagree)
6. [The proofs](#6-the-proofs)
7. [What is not modelled](#7-what-is-not-modelled)
8. [The plan](#8-the-plan)

## 1. The system

| Component | State it keeps | Operations | What makes it correct |
|---|---|---|---|
| **Runtime**, class `HSM` (3508–4295) | `_state`, `_history`, `_queue`, `_active`, `_context`, `_processing`; the locals of `_process` | `dispatch`, `_process`, `_select_transition`, `_process_event`, `_transition`, `_enter`, `_exit`, `_execute`, `_terminate`, `_start`, `_stop`, `_restart` | no event lost or seen twice; entered states are the current one and its ancestors; activities live as long as their state; every caller gets an answer |
| **Mutex** (3259), `Awaitable` (`generic.py`) | lock, the signal of the waiters | `try_lock`, `lock`, `wait`, `release` | one owner; nobody sleeps while it is free |
| **MultiQueue** (3304) | a stack of completion events, a FIFO of the others | `push`, `pop`, `clear` | events are first looked at in the order of dispatch |
| **DefaultModelFinalizer** (1561) | the tables of a `FinalizedModel` | paths, transition map, deferred map, history paths | the paths turn one configuration into the other |
| **Timers and Clock** (1122, 2025–2217) | the task of an activity, a clock | `After`, `At`, `Every`, `When` | no tick after the state is left, ticks do not pile up, a timeout happens |
| **Group, DispatchTo, the registry** (4297, 4957) | a list of instances, `Keys.Instances` | `dispatch`, `stop`, `restart`, `DispatchTo` | one order of broadcasts; a call waits only for machines at work |
| **Attributes and operations** (3607–3714) | `_attributes`, the futures of calls | `set`, `get`, `call` | the change events of an attribute tell the story of its value |
| **Entry and exit points** (1678, 3833, 3846) | none | `_enter_entry_point`, `_enter_exit_point`, the paths to and from points | the submachine is entered and left on the declared way, with the states around it |
| **Model builder** (`Define`, `Redefine`, and the `Redefinable…` elements, 1353–3257) | members, event names, the resolvers left for the end; the open elements are the Python stack | one `redefine()` per declared element | transitions are listed where they start; a composed machine is the machine; names mean what they say |
| **DefaultModelValidator** (546–969) | none | one method per class of member | malformed charts are refused, well-formed ones lead on |
| **Context** (`context.py`) | a tree of contexts with a value and a done future | `WithCancel`, `WithValue`, `cancel` | a child is done when its parent is |
| **Kinds**, **muid** (`kind.py`, `muid.py`) | a counter | bases of a kind, fresh ids | ids are unique, `IsKind` follows the bases |
| **Observations** (246, 1577) | wrappers of behaviours | `Observe` | observed once, in the order of declaration, before what is observed |
| **Snapshots, waiting helpers** | none | `TakeSnapshot`, `AfterProcess`, … | none: the machine is not changed |

### How they interact

* `dispatch` (4159) puts the event on the queue. If it gets `_processing` it
  runs the loop as an eager task: the caller continues only after the loop
  first suspends. If somebody else has the mutex, it returns a task
  that waits for the release: whoever holds the mutex must take the event.
* `_process` (4020) pops events until the queue is empty, selects a transition
  through the tables, runs `_transition`, and puts deferred events back. All of
  it, the startup and `stop()` run under `_processing`.
* User code runs inside the holder's coroutine (guards, entry, exit and effect
  behaviours, the first segment of an activity) and may call the machine again.
  An activity then goes on as a task of its own and is cancelled, and awaited,
  by `_terminate` (3938), with the mutex held.
* `_stop` (4205) takes the mutex like everybody else, cancels the context of the
  machine, leaves the states and clears the queue. `_restart` (4134) is a stop
  and then a start, and gives up when its own context is done.
* A timer is an activity of the source state of its transition that dispatches
  the time event of that transition. A group call is a task that calls each
  member and gathers the answers.
* `set` (3621) swaps the value and then dispatches the change; `call` (3670) runs a
  method of the instance and leaves the dispatch of its event to a callback of
  the loop. Both may come from any task and from any callback.
* `Define` (4420) replays the declared elements into a fresh `Model`, then the
  resolvers they left, then the validator (546), then the finalizer (1561), which
  weaves in the observations and computes the tables. A machine used as a submachine
  is its list of elements replayed once more, below the submachine state.

### What is hard

Interleavings of callers around the mutex; the hand-over of events to a loop
that is about to end; exceptions in the middle of a transition; cancelled
activities whose cleanup calls the machine; events deferred in one state and
replayed in another; tables that depend on the state a transition is taken in
and not only on its source; history that is updated in one transition and used
many transitions later; paths to entry points that begin in the middle of a chart;
values that change before their events are seen; names that change their meaning
when a machine is composed; calls of a group that fail half-way. `PROJECT.json`
lists the hazards one by one, with the line where each one bites and the
properties that would catch it.

## 2. The modules

| Module | What it is |
|---|---|
| `HsmBuilder` | the builder: one operator per declared element, the resolvers, the weaving of observations |
| `HsmValidator` | the validator: what it accepts of each member |
| `HsmBuilderProps` | what every accepted model is like, among other things that it is a chart of `HsmFinalizer` |
| `HsmFinalizer` | the finalizer as operators on charts: `LCA`, `TransitionKind`, `PathForCurrent`, the transition and deferred maps, the tables of the histories, `Finalize` |
| `HsmFinalizerCheck` | grows every small chart and compares the tables with what the active states are before and after a transition |
| `HsmFinalizerProofs` | for every chart the builder hands over: the tables have the types of `HsmRuntime` and keep the promises of `HsmCharts`, and what the transition and deferred maps list; the properties of `HsmFinalizerCheck` for charts of any size |
| `HsmTables` | the `FinalizedModel` as a constant record, the ways through a chart, and what the finalizer and the validator promise of its tables |
| `HsmRuntime` | one machine: dispatch, loop, executor, activities, deferral, history, failures, life cycle |
| `HsmRuntimeProps` | its safety and liveness properties |
| `HsmRuntimeClaims` | sentences of the documents that the code does not keep |
| `HsmRuntimeProofs` | types and the invariant of the mutex, proved for every chart |
| `HsmEventProofs` | that no event disappears, what the loop does with deferred events, answers and cancelled tasks, and the order of first looks, proved for every chart |
| `HsmCharts`, `HsmConfigurationProofs` | the promises of `HsmTables` as assumptions, and from them: the machine rests in states, the active states are the current one and its ancestors, they are entered and left in order, activities follow them, and a stopped machine is quiet |
| `HsmMachines` | the abstract machine: what groups and clients rely on |
| `HsmContract`, `HsmContractProofs` | the refinement mapping from `HsmRuntime`, checked and proved |
| `HsmTimers`, `HsmTimersProofs` | timers over the activities of `HsmRuntime`, the proof that they are nothing but activities and clients, that they fire while their state is entered and that their ticks do not pile up |
| `HsmAttributes`, `HsmAttributesProofs` | `set` and `call` as further clients of `HsmRuntime`, the proof that they are nothing else, and that changes tell the story of an attribute, run by run |
| `HsmGroup`, `HsmGroupProps`, `HsmGroupProofs` | calls on several machines of `HsmMachines`, and all four of their safety properties proved for any number of machines and calls |
| `MCCharts`, `MCBuilder`, `MCRuntime`, `MCAttributes`, `MCTimers`, `MCFinalizer`, `MCGroup` | the charts, definitions and constants TLC uses |

```
 HsmBuilder --HsmValidator--> charts (IsChart, WaysOpen, ActivitiesListed)
                                   |
                              HsmFinalizer
                                   | Finalize   (HsmFinalizerProofs)
                                   v
                          HsmTables (constant Model)
                                   |             <--EXTENDS-- HsmTimers
                                   +EXTENDS--> HsmRuntime
                                                 | <--EXTENDS-- HsmAttributes
                                     implements  | HsmContract
                                                 v
                                            HsmMachines <--EXTENDS-- HsmGroup
```

`HsmRuntime` takes the finalized model as one CONSTANT record (`HsmTables`) and
assumes of it only the types of its tables (`TablesTyped`). That is why nothing in it is
recursive, and why its theorems hold for every chart. `HsmCharts` assumes more: that paths
lead where they should, as the finalizer promises. That it keeps the promise, for every
chart that the builder and the validator hand over, is what `HsmFinalizerProofs` proves. TLC
gets the record from `HsmFinalizer!Finalize`, so the runs check the tables of the finalizer
and the runtime together. `HsmTimers` and `HsmAttributes` add their variables beside those
of `HsmRuntime` and implement it (`TimersImplementRuntime`,
`AttributesImplementRuntime`), so what holds of it holds with them.

The builder works on qualified names, the finalizer on vertices; the charts of
`MCCharts` are written as what the builder returns. The two are not one
specification: a chart that shows the runtime's hazards is larger than the
definitions the builder can be run on exhaustively. What joins them are three predicates of
`HsmFinalizer`: `IsChart`, `WaysOpen` and `ActivitiesListed` say what is handed over. The run
`Build` checks them of every model that is accepted (`AcceptedIsChart`), the runs of the
runtime evaluate them on their charts (`DeclaredAssumption`), and the theorems about the
finalizer have them as hypotheses.

## 3. How the models correspond to the code

### Atomic steps

The code runs on one loop. Between two suspension points of a coroutine nothing
else runs, except what user callbacks call. The modules keep exactly
these two places where others may move:

* `Suspended`: the mutex is free, or its holder awaits a cancelled activity in
  `_terminate`. These are the only awaits of the library that can really
  suspend while a machine is at work. Other tasks (activities, `stop()` calls
  that were woken, tasks of `dispatch()` that begin) move only then.
* `InGuard`, `InHandler`, `InBehaviour`: the holder is in a user callback. A callback may
  dispatch and may call `stop()` or `restart()` (as a task: it cannot await
  it), so these calls are possible there, `Yielded`.

The steps of the holder are finer than the code's segments, because a callback
may lie between any two of them; where none does, nobody can see it.

### The stack of the holder

What the holder has still to do is the sequence `agenda`: leave these vertices,
run the effect, enter those, spawn these activities, arrive. A call in tail
position (`return await self._transition(…)`, from a default entry, a choice, an
entry or exit point, or a history) replaces the agenda; the transitions
that an exit point makes to its own submachine state are effects only and are gone
through with its other transitions. There is no other recursion. `stage` says where
in `_process`, `_start` or `_stop` the holder is, `cands` and `from` hold the
transitions whose guards are still to be asked, `taken` the source of the
transition selected for the event in hand (`cur`). A guard is a
nondeterministic choice. Behaviours of the same vertex run one after another
without a suspension and are one step.

### Awaitables and calls

`answer[i]` follows the awaitable of the `i`-th accepted `dispatch()`:

| value | meaning |
|---|---|
| `run` | its caller took the mutex and runs the loop |
| `sent` | the mutex was taken; the task that will wait has not begun |
| `wait` | that task waits for the release |
| `true` | resolved |
| `failed` | resolved with the exception of a callback |

`sent` matters: the wait begins when the loop gets to the task, and it waits
for whoever holds the mutex *then*, or for nobody.
`client[c]` follows a `stop()` or `restart()`: `waiting` for the mutex, `woken`
by a release and about to try again (`lock` at 3281 retries and may lose),
`running`, `stopped`.

### Tasks of activities

| status | meaning |
|---|---|
| `live` | runs under the context of the running machine |
| `stray` | left over from an earlier run whose startup raised or whose activity was not left; its context is not done |
| `orphan` | its context is done, its errors are dropped |
| `cancelling` | cancelled, in its cleanup |
| `cleanwait` | its cleanup awaits a dispatch to this machine |
| `done` | ended |

`active[a]` is the task that `_active` names; spawning files a new task there
whatever was there before.

### Failures

`Raise` is an exception of a guard or a synchronous behaviour: the `finally`
clauses release the mutex, the local list of deferred events of `_process` is
gone, the waiters are woken, and states are left as they are. `SpawnFails` and
`TaskFails` are an activity that raises: it dispatches an `ErrorEvent` unless
its context is done. `ParentEnds` is a cancelled parent context: `_context` is
done and nothing else happens.

### History variables

`outcome`, `answer`, `seen`, `nextId` and `balance` are there for the
properties: what became of each event, what each caller knows, which regular
events were popped once, how often a state was entered and not left. `curId`
is `current_event_id` of the code and not a ghost: the loop defers unseen only
events that are not the one it was started for.

### The finalizer

A qualified name is a vertex, `dirname` is `parent`, and the `/` above the
model is `Top`. A choice declared in a transition has the name of the transition in its own;
`_enter` and `_exit` do nothing for a transition, so the parent of such a choice is the state
around it. What the code computes by going up a name is a recursive function over the
vertices (`Chain`, `LCA`, `Climb`), which the prover can reason about. Modelled are `LCA`, `IsAncestor`, the resolver of transition
kinds, the vertices a transition can be taken in, its exit and enter path for
each, the transition and deferred maps, the targets and paths of histories. A
deferred map stops at the innermost state that defers the event; a transition
map lists candidates from the innermost state outwards.

A transition to an entry point enters only the point and leaves up to the LCA with
the submachine state (`Boundary`, `EntryLCA`); the point's own transition then enters
from above the submachine state. The transitions of an exit point that go to its own
submachine state are handlers: `BranchOrder` puts them first, as
`_enter_exit_point` goes through the list twice.

What the finalizer is given is `IsChart`: names end at the model and every vertex is declared
in a state (`IsTree`), a transition is listed where it starts, the initial ones apart, and
those of a pseudostate have targets. `WaysOpen` is what the validator sees to: a choice has a
way without a guard, an entry point has none with one. `ActivitiesListed` says that the
activities of a state are behaviours. `PointsApart` is said of charts but asked by nobody: an
entry point is reached from below the parent of its submachine but not from inside of it, or
by that parent's initial transition, and does not lead to another entry point.

### The builder and the validator

A declaration is a record, a definition a sequence of them; `End` is the return from
the `redefine()` of the innermost element, so `stack` is the Python stack of open
elements that `find()` searches. `members` and `events` are those of `Model`,
`pending` is the part of `owned_elements` that `redefine()` calls append: the
resolvers of targets, points, kinds and timer activities, run in that order by
`ResolveNext`. A machine that is composed, and a model that is redefined, is the
list `script` replayed: `todo` is what is left of it.

| operator | code |
|---|---|
| `State`, `SubmachineState`, `Initial`, `Choice`, `HistoryVertex`, `FinalState`, `EntryPoint`, `ExitPoint` | `redefine()` of the vertices |
| `Transition`, `Source`, `Target`, `CloseTransition` | `RedefinableTransition` (2345) |
| `On`, `OnSet`, `OnCall`, `WhenPredicate`, `TimeEvent`, `Defer` | triggers (2069–2341, 2830, 3048) |
| `Entry`, `Exit`, `Activity`, `Effect`, `Guard` | behaviours and constraints (2513–2823) |
| `Resolve` | `_resolve_source_or_target_qualified_name` (2406) |
| `ResolveTarget`, `ResolveEntryPoint`, `ResolveExitPoint`, `ResolveKind`, `ResolveActivity` | the resolvers |
| `Observations`, `Observable`, `Observed` | `_finalize_observations` (1577) |

A name is the sequence of its parts, so `dirname` is `Front`, `IsAncestor` is a
strict prefix, and a generated name contains the count of members as in the code. A
callback is its `__name__` and whether it is a coroutine function. `Reject` stands for
every exception, whatever its message.

### The abstract machine

`HsmMachines` keeps of each machine the owner of its mutex, whether it is in a
state, whether it is registered, whether its context is done, the next event
id, and the answers and calls above. It says: an event is taken in one step; a
free machine that takes an event is at work at once; the state changes under a
startup or a loop only; whoever releases the mutex answers and wakes everybody
who waits; a stop ends outside every state and out of the registry; a restart
starts only what it stopped and only when nobody was faster.

### Timers

A timer sleeps, sends its event, awaits the answer and, for `Every`, sleeps
again. Durations are left out: a sleeping timer may fire whenever other tasks
run. `fired` and `AtOnce` are the case of a clock, or of a value given to
`When`, that does not suspend: the event is dispatched inside the startup or the
transition that enters the state, before the task is filed.

### Attributes and operations

`attributes` is `_attributes`, with `None` for a name that is not in it. `Set` is the
whole of `set`: swap, compare, dispatch. `change` keeps with each event id the
`AttributeChange` the event carries; it and `since`, the first id of the run, are there
for the properties. A call is `idle`, `running` (its method awaits something) or `done`;
`returned` is the queue of callbacks of finished futures, run in order at the next
suspension (`CallAnnounced`), so an event may be dispatched in a later run than the one
it was called in. `Starts` is a start or restart together with the reset of the
dynamic attributes. Values of a wrong type and unknown names are rejected before
anything happens and are left out.

### Groups

`Group.dispatch`, `stop` and `restart` are scheduled with `ensure_future` and
begin when the loop gets to them; `DispatchTo` begins at once, also inside a
callback. Both then loop over their recipients without an await. A member with
a free mutex works inside that loop, and its callbacks may begin another
`DispatchTo`: `turn` is the stack of loops. While it is not empty only
synchronous steps of machines happen. A broadcast skips machines that are not
in a state, machines that are starting included; a stop asks every member; a
restart of a member that was never started fails at once. Then the call gathers:
it returns when all parts are done, or raises with the first that fails while the
others go on. Left out: a transition to the model (in charts of a group), a
`restart()` with a context that ends, snapshots, the copies of event data and
the matching of ids in `DispatchTo`, whose recipients are any part of the
registry in any order.

## 4. The runs

Twelve runs: eight pass, four show the findings of the next section.

| Run | Chart | Constants | Question |
|---|---|---|---|
| `Build` | eight families of definitions, each the product of small sets of declarations | | is what the builder accepts what was declared, and a chart as the finalizer needs it? |
| `Finalizer` | every chart of up to 4 vertices below the model, kinds state, submachine, deep and shallow history, choice and exit point, with and without initial transitions, and every transition in it | | are the tables right, and do they keep the promises of `HsmCharts`? |
| `Hierarchy` | three levels; self, local, internal, external, choice, both histories, a submachine with an entry and an exit point | 3 events of 6 names, guards both ways, 2 attributes of 2 values, 1 call | are exactly the right states entered, in order, and do changes tell the story of the values? |
| `Workshop` | activities at two levels, a state entered through its history | 2 events, 2 callers of stop or restart, 3 tasks, cleanups that dispatch | do activities and the life cycle agree with the state? |
| `Deferral` | a submachine with deferring substates, a final state, an exit point with a guarded outcome, a history with nothing to return to | 3 events of 4 names, 1 failing callback (a startup's included), 1 caller, a parent that may be cancelled | is every event in one place, and do callers see `HsmMachines`? |
| `Live` | callbacks of every sort, an activity, a deferral, a guarded history | 3 events, 1 failing callback, 1 caller, 2 tasks, cleanups that dispatch, a parent that may be cancelled | does everybody get an answer? |
| `Timers` | a timeout and a ticker, next to activities | 3 events, 1 failing callback, 1 caller, 3 tasks | do timers keep to their state, and happen? |
| `Group` | two machines of `HsmMachines` | 2 calls of any kind, 2 events and 1 start per machine beyond restarts, 1 failing callback | are group calls in order, and do they end? |

The families of `Build` are: `References` (sources and targets relative, absolute,
before and after what they name), `Motor` composed in `Car` (what a machine says of
itself by absolute names, points targeted and handled), `Nested` (a machine in a machine
in a model, with names that occur twice), `Callbacks`, `Triggered`, `Pseudostates` (names
already taken, choices declared twice, with transitions of each declaration), `Observing`
(observations repeated and replayed by `Redefine`, of everything, an event, a transition, a behaviour or
an operation, before and after what they observe, with members the redefinition adds)
and `Renamed`.

What they check:

* **Mutex** `NoLostWakeup`, `OneOwner`; live: `MutexReleased`,
  `StopCompletes`, `StopFinishes`, `DispatchAnswered`.
* **Events** `EventsConserved` (exactly one place, then exactly one outcome),
  `HeldByCurrentState`, `NothingStranded` (the event that arrives while the loop
  is about to end), `FirstLookInOrder` (deferral never lets a later event be
  looked at first), `AnsweredWhenSettled`.
* **States** `ConfigurationEntered`, `EntryExitOrder`, `RestsInStates`.
* **Activities and life cycle** `ActivityScope`, `OnlyAwaitedCancelled`,
  `StoppedIsQuiet`.
* **Attributes** `ChangesTellTheValue` (each change starts where the last one ended, the
  last one ends at the stored value, and no change of an earlier run is still queued),
  and the refinement `AttributesImplementRuntime`.
* **Models** `OutgoingIsSource`, `KindsOfEnds`, `FlattenedAlike` (a composed or redefined
  machine is the machine), `OutcomesInOrder`, `HandlersOfOwnPoint`, `ObservedOnce` (of the
  observations that match a transition or a behaviour, also one that a redefinition adds,
  each observes it once and in order, and none observes what observations add),
  `AcceptedIsChart` (what the finalizer and the runtime take for granted, and that no
  pseudostate keeps the machine). `OutgoingIsSource` names its exception, the transitions of a choice that is
  declared again. These properties are about the definitions of the families: they are not
  true of everything Python lets one declare, since nothing refuses, for instance, a choice
  whose transition without a guard leads back to it.
* **Tables** `LCAIsDeepest`, `PathsJoin`, `KindDecidesExit`, `HistoryReturns`. `PathsJoin`
  and `HistoryReturns` also say that the finalized record of every small chart has what
  `HsmCharts` assumes: `TreeShaped`, `PathsLead`, `PathsEnd`, `HistoriesReturn`.
* **Timers** `NoPileUp` (a timer sleeps again only when its last tick was looked at),
  `TicksInState` (it fires only while its state is entered and not left),
  `TimeoutHappens`, and the refinement `TimersImplementRuntime`.
* **Groups** `BroadcastOrder`, `StopBringsDown`, `RestartBringsUp`,
  `WaitsForWork`, with the refinement `KeepsContract` as the bridge.

### Why the bounds are enough

* *Events.* Two events are the least with an order and a hand-over; three let an
  event be deferred, overtaken and replayed; the third of `Deferral` may
  arrive while two are held back, or during the startup.
* *Callers.* With two, one can wait, be woken and lose the race for the mutex
  against the other, and one can start what the other stopped.
* *Faults.* One raising callback reaches every unwinding, at every depth. A
  second one finds a machine that the first left in a state covered already; the
  proofs do not bound the number.
* *Tasks.* Every activity of a chart can have its task and one more can be left
  over from an earlier run.
* *Attributes.* Three events are two changes and what they race with, or a change, a
  call and a transition; two attributes keep their stories apart; one of them has no
  default, so its first value is a change from nothing.
* *Builder.* The rules look at one transition and what it names at a time, and at the
  order of two declarations. A submachine in a submachine is the least in which a name
  can be found in two enclosing machines; two handlers of a point, two attributes, two
  observations and two choices of one name are the least with an order.
* *Finalizer.* LCA, local and self cases, and a history two levels above what it
  remembers need three vertices on one branch and a sibling. A chart is drawn once, in
  one order of its vertices; names do not matter otherwise (`NamesAssumption`: they are distinct).
  Entry points are left out (`KindsAssumption`), since the tables promise of them only
  `PointsJoin`, and that under `PointsApart`; the theorem `FinalizedPointsJoin` and the chart
  of `Hierarchy` cover them.
* *Group.* Two calls are the least that can nest, race and pass each other, and
  two members the least with an order. Calls are interchangeable
  (`CallSymmetry`); no property of that run is a liveness property.

`MaxEvents`, `MaxFaults` and `MaxStarts` are guards on the actions that use
them up, so the state spaces are finite; `CHECK_DEADLOCK FALSE` is set since a
machine at rest with nothing left to dispatch really stops.

### Fairness

`FairSpec` assumes: the holder of the mutex goes on (callbacks return, the loop
resumes a ready coroutine); a cancelled activity ends, by itself or once what
its cleanup awaits has resolved; a task that is ready gets its turn. The last
is *strong* fairness for the steps that need `Suspended`: the loop is
a queue, so a ready task runs at the next suspension, but suspensions come and
go. Clients, guards, failures, `ParentEnds` and activities that are not cancelled
are assumed to do nothing ever. `TimedFairSpec` adds that a sleeping timer fires
if it can again and again: the clock goes on.

The liveness properties name their one exception: an activity whose cleanup
awaits the machine (`WaitsForItself`), which is a finding. `StopFinishes` needs
no exception: `stop()` cancels the context first, and a dispatch is then answered
at once.

## 5. Where the documents and the code disagree

Each has a run that shows a behaviour of the code against a property that states
the sentence; `PROJECT.json` quotes both sides.

* **A deferred event vanishes** (`ClaimDefer`). `_process` holds deferred events
  in a local list. When another event of the same loop raises, the list is gone,
  although its events were only waiting for a state that takes them.
* **A cancelled activity waits for itself** (`ClaimCancel`). `_terminate` awaits the
  task with the mutex held. A cleanup that awaits a `dispatch()` to its own
  machine never ends, and the machine never moves again.
* **A time event of an earlier activation** (`ClaimTimer`). While one activity of a
  state is awaited, a timer of the same state that is not cancelled yet may send
  its event. A transition that enters the state again finds it in the queue and
  takes it for a tick of the new activation, long before the new timer is due.
* **A state is active and was never entered** (`ClaimEntry`). The path of a transition
  to an entry point has the point only, and the path of the point's own transition
  begins above the submachine state. When the state around the submachine was not
  active, neither enters it: its entry actions do not run, its exit actions do later.

Other disagreements met while reading, which are in the models as the code has
them but have no run of their own:

* A `dispatch()` that found the mutex taken is answered with true when the mutex is
  released, also if the loop died of another event's exception (4200). Its own event is
  then still in the queue, until somebody dispatches again; `README.md:328`. That is why
  `AnsweredWhenSettled` speaks of runs without an exception.
* The loop of `_stop` ends before the model (4210), so an activity declared on the model
  itself survives `stop()`; `reference.md:346`. The same happens to the activities of a
  state whose substate raised while it was entered: `_state` is then still an older one.
* A transition to an entry point taken while the machine is already inside the submachine,
  from a state around it, enters the submachine a second time without leaving it: the
  entry actions run again, no exit actions in between. So does a transition from an exit point
  to an entry point of the same submachine, a retry (the case for it at 1713 asks for a self
  transition, which `KindResolver` does not make of it), and an entry point that leads to an
  entry point of a submachine in its own: the inner submachine is entered twice.
* A transition that a submachine state declares for its own exit point, with itself as
  the target, is taken for a handler: its effects run, and then the exit point is
  reported as unhandled.
* An exception in a guard ends the loop as any other does (`Raise` includes
  `InGuard`); `README.md:396` says it counts as a failed guard. The same line says
  exceptions in actions dispatch an `ErrorEvent`; only those of activities do.
* A self transition on the model leaves it and does not enter it again
  (`reference.md:88`): `KindDecidesExit` makes this exception explicit.
* A startup that raises leaves the activities it spawned and the events queued
  meanwhile to the next start (`stray`); `start()` itself returns.
* When a parent context is cancelled while events are processed, `dispatch()`
  answers at once although no stop is in progress; `README.md:328`.
* An event other than the one the loop was started for is deferred without its
  guarded transitions being looked at; the dispatched one is not.
* A history without memory and default transition leaves the machine in its old
  state with that state's vertices already left.
* The validator accepts an entry point without a transition (748); a machine that
  enters it rests in the point, which is no state (`_enter_entry_point`, 3839). The
  theorems about states have `PointsEnter` as a hypothesis for that reason.
* A delay of zero is a timer that fires at once; `reference.md:235` says that no
  timer is created.
* The validator accepts initial transitions to a vertex outside their state, and
  cycles of choices; `reference.md:446` says invalid ones are rejected.
* `await Call(...)` of a synchronous operation returns before the event of the
  call is looked at: its future is done at once and `dispatch_when_done` runs
  later; `README.md:328` has callers await it before they look at the state.
* The event of a call is dispatched when the operation returns, which may be in a later
  run of the machine than the one in which it was called.

Of the builder, each of them checked against the code by running it on the definition:

* `Redefine(model, name)` of a model whose elements use absolute paths is rejected: the
  paths name the old root; `README.md:84`.
* An absolute target in a state nested in the model resolves to the outermost enclosing
  state when it names the model itself; `README.md:108`, `reference.md:467`.
* `When(predicate)` after `Guard()` replaces the guard (2340), `Guard()` after `When()`
  combines both.
* Behaviours and guards are stored under the `__name__` of their callable (2618): two of
  one name in one owner are one member, two guards of one name end in a recursion
  (2726), and a guard that shares its name with an effect finds a behaviour in its place.
* `State`, `History`, `Transition` and `Initial` refuse a name that is taken; `Choice`,
  `Final`, the points, behaviours, `OnSet` and `Observe` replace what has it. Attributes
  declared twice are the last one; `README.md:213` says names must be unique.
* A choice that is declared again has the transitions of its last declaration only. The
  earlier ones stay members that nothing lists: they are resolved, validated and never taken.
* A choice declared in a transition which is itself declared in another choice, but leaves a
  state, has that other choice in its name, and so on its paths.
* An `EntryPoint` in a transition before a `Target` that is declared later is rejected.
* `StateElement.submachine` is set nowhere, so the checks of the validator that ask for
  it accept everything, and a submachine state may have nested states.
* An operation named by a callback is looked up when it is declared, so one declared
  later, or replacing it, is not found; `README.md:217`.
* A submachine with the name of the model that composes it keeps its absolute names.
* An operation that is observed loses its result (348): `Call` answers `None`, and the
  coroutine of an asynchronous operation is dropped before it runs. Callbacks that name an
  operation took it before it is observed, and run it without the observation.

Of groups:

* A group in which an instance occurs twice dispatches to it, stops it and restarts
  it twice.
* Two `DispatchTo` broadcasts, one begun in a callback of the other, may reach the
  members in different orders; `Group.dispatch` cannot, which is what
  `BroadcastOrder` says.

## 6. The proofs

The theorems about machines are about all values of the constants that satisfy the
assumptions `BoundsAssumption`, `HolderAssumption`, `NamesAssumption` and `TablesAssumption`
of `HsmRuntime`, `TimersAssumption` of `HsmTimers`, `AttributesAssumption` of `HsmAttributes`
and those of `HsmMachines` and `HsmGroup`: any chart whose tables have the types that the
finalizer returns, any number of clients, tasks, events, faults, machines and calls.
`HsmConfigurationProofs` assumes in addition what `HsmCharts` says of the tables, and so do
`HsmAttributesProofs` and `HsmTimersProofs`, which build on it. Of the tables that
`HsmFinalizer!Finalize` makes of a chart, none of this is taken on trust:

| assumption | what it says | proved of `Finalize(m)` as | for every chart `m` with |
|---|---|---|---|
| `TablesAssumption` | the tables are typed; a path lists vertices | `FinalizedTablesTyped` | `IsChart`, `ActivitiesListed` |
| `TreeAssumption` | chains are chains of states up to the root | `FinalizedTreeShaped` | `IsTree` |
| `PathsAssumption` | the exit and the enter path of a transition join where it is followed from with its target; a target that is no state ends its enter path | `FinalizedPathsLead`, `FinalizedPathsEnd` | `IsChart` |
| `HistoryAssumption` | a history remembers states below its owner and its path leads down to them | `FinalizedHistoriesReturn` | `IsTree` |
| `BranchAssumption` | transitions of pseudostates have targets, and a choice has one without a guard | `FinalizedBranchesLead` | `IsChart`, `WaysOpen` |

The run `Build` checks that the models accepted from its definitions have `IsChart`, `WaysOpen`
and `ActivitiesListed`, and TLC evaluates assumptions and predicates on the charts of
`Hierarchy`, `Workshop`, `Deferral`, `Live` and `Timers`. So the promises are stated once,
proved from, proved of the finalizer, and checked where the charts are made. Not assumed, but
hypotheses of the theorems that need them, because the program does not promise them for
every chart:

* `PointsEnter`: an entry point has a transition (the validator does not ask for one);
* `PointsJoin`: the paths to and from entry points join. They do when the parent of the
  submachine is the tip at that moment. **`FinalizedPointsJoin`** proves it of every chart with
  `PointsApart`; `ClaimEntry` shows what happens when the point is reached from outside of
  the parent, section 5 when it is reached from inside of the submachine;
* `[]HistoryLeads`: no history is entered that has neither memory nor a default transition
  to take: the exited states then stay inactive under the old `_state` (3818);
* `ActivitiesApart`: no two states share an activity, no state has one twice, and the model
  has none. Activities are filed under their qualified names (3906), so the first two hold of
  every chart with distinct names; the third is there because `_stop` does not leave the
  model (4205), so an activity of the model outlives the machine;
* `ModelLeads`: the initial transition of the model leads on, and no transition leads back to
  the model. A machine whose `_state` is the model counts as one that is not running (4164),
  so a chart that comes to rest there is stopped without having been stopped.

The charts of all passing runs of the runtime meet the four hypotheses on tables; the one of
`ClaimEntry` meets all but `PointsJoin`, which is its point. TLC evaluates them as
`ChartsAssumption` of `MCRuntime` and `ChartAssumption` of `MCAttributes` and `MCTimers`.

* **`TypeCorrect`** (`HsmRuntimeProofs`): `Spec => []TypeOK`. `TypeOK` is
  inductive. The work is in the steps that build an agenda: the paths are
  sequences of vertices, and operations of an agenda have the vertex or the
  activity their name calls for.
* **`MutexInvariant`**: `Spec => []MutexInv`, from which
  **`NobodySleepsOnAFreeMutex`**, **`MutexHasOneOwner`** and **`StopOnlyLeaves`**
  follow. `NoLostWakeup` alone is not inductive: a release must find the
  one `dispatch()` that runs the loop and the one `stop()` that has the
  mutex, so `OneOwner` ties `answer[i] = "run"` to the id of the loop and
  `running` to the holder. `OneOwner` needs that only a client in `_stop` can
  get to the end of a stop (`HolderWork`: the agenda of a client is made of exits
  and the reset, and no other agenda has the reset), and that a new event cannot
  have the id the loop runs under (`curId < nextId`). Together with
  `TypeOK` the four are inductive.
* **`NoEventDisappears`** (`HsmEventProofs`): `Spec => []EventsConserved`, from
  **`EventsInvariant`**. An event is in at most one of the queue (its two lists),
  the hand and the local list of the loop; the proof says "once in this sequence"
  and "never in that one" and needs no counting: the lemmas say what appending,
  putting in front, taking the tail and joining two sequences do to both. Alone it
  is not inductive: a pop overwrites `cur`, and a stop clears the queue
  and whatever is in hand, so `HandInUse` adds that something is in hand only
  while the loop or a startup is in the middle of it. `MutexInv` supplies that
  the step which ends a stop is one of a client, never of the loop.
* **`RuntimeKeepsContract`** (`HsmContractProofs`): `Spec => KeepsContract`, that
  is `HsmRuntime` implements `HsmMachines` with one machine. The abstract
  variables are functions on the one-element set of machines; the lemmas
  `SeenValue` and `SeenExcept` move between the two. Steps of the loop, of the
  executor and of tasks stutter or change the state under the mutex; the steps that
  release it need `MutexInv`: a stop that ends is one of a client, and the
  loop and the startup are none.
* **`CancelledIsAwaited`**: `Spec => []OnlyAwaitedCancelled`, from
  `AwaitInv`: something is awaited only in the middle of a transition or a stop
  (`stage = "run"`), so no step of the loop and no exception can forget the task that is
  being cancelled. `MutexInv` adds that a mutex is not free while somebody awaits.
* **`HeldForTheState`**: `Spec => []HeldByCurrentState`. The property says nothing
  while deferred events are replayed, so `HeldInv` adds that the local list is empty
  whenever neither a loop nor a startup has the mutex; a transition ends in the replay
  that empties the list before anything is looked at under the new state.
* **`NothingIsStranded`**: `Spec => []NothingStranded`. It is about a free mutex,
  and its cause is earlier: `RestInv` says the same of the stage `drain`, in which the
  loop has found the queue empty and puts back what it held. Nothing suspends in between,
  so nobody dispatches, and by `HeldInv` everything put back is deferred. `RestInv` also
  says that what is left was looked at, which the proof about ticks needs; for that the
  loop must hold back only events it has looked at, a part of `OrderInv`.
* **`AnswersAreTrue`**: `Spec => AnsweredWhenSettled`. Where answers are
  given the mutex is released, so it is a consequence of `EventsInv` (an event that is not
  settled is in the queue), `RestInv` (what is in the queue is deferred) and of
  `AnswerInv`, that only dispatched events have an awaitable.
* **`FirstLooksInOrder`**: `Spec => []FirstLookInOrder`.
  `OrderInv` orders the new events of the FIFO among each other too, and says of the held
  events and of the event in hand that they have been looked at or are completions:
  then a push of a deferred event puts no new event behind.
* **`MachineRestsInStates`** (`HsmConfigurationProofs`): `Spec => []RestsInStates`, from
  **`StatesInvariant`**. The property is about `state`; what could break it is in the
  agenda: `StatesInv` adds that `arrive` names a state or comes right after the `enter`
  of the same vertex, which replaces it; that the transitions being looked at are followed
  from where the machine is; and that the branches of a choice still have one without a
  guard. It holds whatever raises, because `_state` is written last.
* **`ConfigurationIsEntered`**: `ConfigurationEntered`, from **`ConfigurationInvariant`**.
  Between two transitions the property says everything; in the middle of one the entered
  states are those of no current state. `ConfigInv` names a *tip*: the entered states are
  the tip and its ancestors at every step, and the agenda goes on from the tip, its exits
  upwards to a summit, its enters downwards to the target, as `Ascends` and `Descends` say of
  the paths. A step moves the tip by one vertex and takes one operation off the
  agenda; a branch or an initial transition replaces the agenda by one that starts at the
  tip. Startup is the agenda that enters the root; a stop is one that leaves everything.
* **`EntriesAndExitsInOrder`**: `EntryExitOrder`, since only the child of the tip is entered
  and only the tip is left.
* **`ActivitiesFollowStates`**: `ActivityScope`, from
  **`ActivityInvariant`**. Within a transition the property says nothing, so `ActivityInv`
  says it of every entered state (by `balance`) at every step, but for the activities that
  the agenda is still to spawn, which come first in it and each once (`SpawnsFirst`), and
  for those of the state at the head of an exit. That a state is entered only when it was
  not comes from `ConfigInv`. `Tasks` and `Awaited` say that an unfinished task is the one
  that is filed or the one that `_terminate` awaits, and that the latter was cancelled:
  without them a task could lose its name and go on. The steps of everybody but the holder
  change no task but to end it or to hand it to another context (`OthersGoOn`).
* **`StoppedMachineIsQuiet`**: `StoppedIsQuiet`. When the last exit of a stop is done, the tip
  is the root, so no state is entered, so nothing is filed and, nothing being awaited, no
  task is unfinished; `ClearQueue` does the rest. The other way to a free mutex in the model
  would be a loop or a startup that ends there: **`InsideInvariant`** excludes it. Its
  invariant `InsideInv` says that no agenda arrives at the model and that the loop runs for
  a machine in a state below it, whatever raises. After the stop, events are refused, and
  a machine that is not running has no task to raise an `ErrorEvent`.
* **`GroupDrivesMachines`** (`HsmGroupProofs`): `GroupSpec => MachinesSpec`; with
  **`MachinesKeepTheMutex`**, the mutex of every member is kept whatever groups do.
* **`GroupKeeps`**: the inductive invariant of groups, `GroupInv`. `LoopsOK`: the loops
  that are under way are a stack without repetitions, and a call that is no `DispatchTo` is at
  its bottom: it began when no other loop was under way. `BroadcastsOK`: of two broadcasts,
  one took the event of every shared recipient first, and the one under way is the later of
  the two. `PartOK` and `OutcomeOK`
  say of each part of a call what its machine says of it: a stop that is asked waits, is
  woken or runs; one that is done left the machine down, or somebody has started it since.
  From it **`BroadcastsInOrder`**, **`GroupWaitsForWork`** (with the mutex of the machine:
  nobody waits for a free one), **`GroupStopBringsDown`** and **`GroupRestartBringsUp`**
  (a call that returns has no part left that is asked) follow. TLC checks `GroupInv` on the instance of the
  run `Group` before it is proved.
* **`AttributesRefine`** (`HsmAttributesProofs`): `AttributedSpec => Spec`, so
  **`AttributesKeepTheMutex`** and all the above hold with attributes.
  **`ChangesTellTheStory`**: `AttributedSpec => []ChangesTold`, the first half of
  `ChangesTellTheValue`, by splitting on whether a step is a `Set` that dispatches, a
  start, or leaves attributes alone; ids only grow, so a new change is the last one.
  **`ChangesStayInTheirRun`** adds the other half, that no change of an earlier run is
  queued: `PastInv` says that every event older than the run has an outcome, which a
  start inherits from `StoppedMachineIsQuiet` (nothing is queued, held or in hand, so by
  `EventsConserved` everything dispatched has one), and outcomes stay.
* **`TimersRefine`** (`HsmTimersProofs`): `TimedSpec => Spec`. Therefore
  **`TimersKeepTheMutex`** holds with timers as it holds without.
  `TimersTyped` adds the types of the variables of the timers.
* **`TimersTickInState`**: `TicksInState`. A task that works is, by `Tasks` and `Awaited`, the
  one filed under its activity, whose state is the one that `ActivitiesApart` gives it; by
  `ActivityInv` and `ConfigInv` that state is entered.
* **`TicksDoNotPileUp`**: `NoPileUp`, from **`PileInvariant`**. `PileInv` follows the event of
  a timer from its dispatch: it is queued or was looked at (`Noted`), and it was looked at
  if it is answered. Answers are given when the loop ends, when what is left in the queue was
  looked at (`RestInv`), and by `stop()`, which clears the queue; but then no timer is live
  (`LiveInv`: the context is done before anything else). `FirstTick` says the same of an
  event sent before its timer first suspends, and that nothing comes between.
  The proof needs that a time event is no completion event (`TimersAssumption`; their kinds
  are made apart, 78 to 80): the order of looks is one of regular events.

The theorems about the finalizer (`HsmFinalizerProofs`) are about operators, for every chart,
and need no induction theorem: a statement about all vertices is proved of a vertex that is
lowest, or highest, of those that would break it, by the depth `Len(Chain(m, v))`, which
`IsTree` makes a natural number. The least element of a set of numbers is the one lemma that
appeals to natural numbers. On the way:

* A chain is a path up to the root (`ChainLinks`) without repetitions, and the vertices above
  one vertex are linearly ordered (`AboveLinear`). `LCA` is the deepest vertex above both its
  arguments that is not both of them (`LCAJoins`), by the depth of the deeper argument.
* **`FinalizedPathsLead`** and **`FinalizedPathsEnd`**: an exit path climbs from where the
  machine is to the child of the LCA, an enter path descends from it, for each case of
  `PathLCA`; **`FinalizedPointsJoin`** does the same for the paths to and from entry points.
* **`FinalizedCandidates`**: what `TransitionMap` lists for an event in a state is the
  transitions of the state and the states above it that the event triggers, each part in the
  order of declaration, the inner before the outer, none of a state above one that defers the
  event; a state that defers it keeps the ones it handles itself or below.
  **`FinalizedDeferral`**: a state defers an event by the innermost state that defers it, and
  exactly when none of the candidates is without a guard.
* **`ChartsAreCharts`**: every chart that `HsmFinalizerCheck` grows, of any number of
  vertices, is an `IsChart`, by `ChartInv`. With it, **`CheckLCAIsDeepest`**,
  **`CheckPathsJoin`**, **`CheckKindDecidesExit`** and **`CheckHistoryReturns`** state what the
  run `Finalizer` checks on four vertices for every sequence of names. The definitions of the
  properties do not speak of chains but of sets of active states, so these theorems also tie
  the promises of `HsmTables` to what they are for.

The temporal steps are PTL; everything else is first-order over one step. A
proof of a step has one case per action, and the lemmas say what the operators the
actions share (`Accept`, `Push`, `Follow`, `Release`, `Answered`) keep.

Only model-checked: liveness (there is no fairness in the proofs, and `ENABLED` is beyond the
prover), and the invariants of `HsmBuilderProps`. Those are about the definitions of the
families and do not hold of every set of declarations (see section 4), and what holds of all
of them (`IsTree`, say) is a fact about a builder that folds over sequences and whose members
are records of many shapes. Every other invariant and action property of a passing run is
a theorem.

## 7. What is not modelled

* A queue supplied by the user whose `push`, `pop` or `len` fails (4027, 4179).
* Several threads: the mutex is a `threading.Lock` and `MultiQueue` has one, but
  every step of the models is a step of one loop.
* The tree of contexts (of which the runtime sees a context that is done), the packing of
  kinds into integers, ids, snapshots and the waiting helpers: none of them changes what a
  machine does next, except for contexts that end under a call of a group.
* Of definitions, everything that does not decide what is accepted or what the chart is:
  locations, messages, values of attributes, durations.
* The composition of the builder and the runtime in one run: what `AcceptedIsChart` says of the
  models that `Build` accepts is what the theorems about the finalizer ask of a chart, but no
  run goes from declarations to a machine at work (section 2).
* Durations: a timer may fire late, early relative to others, and in any order.

## 8. The plan

Done: builder, validator, finalizer, runtime, entry and exit points, attributes, timers,
the abstract machine and groups modelled; types, the mutex, the conservation and the order
of events, what is held back, stranded and answered, cancelled tasks, the configuration of
states and its order, activities, stopped machines, changes, ticks, the properties of groups,
the tables of the finalizer, and all refinements proved. What would come next, in this order:

1. **A user's queue** with faults, its refinement to the two lists of `HsmRuntime`,
   and the loop of `ErrorEvent`s that a queue whose `pop` always fails runs into.
2. **Threads**: the mutex and `Awaitable` with steps of several threads,
   implementing the atomic mutex used here.
3. **Contexts**: the tree, cancellation from any node, and that a context is done
   exactly when it or one above it was cancelled.
4. **Kinds**: the packed bit fields against the bases they stand for, with the
   counter at its limit.

New questions about one machine go into the charts of existing runs where they fit, so
that the whole project stays checkable in minutes.
