--------------------------- MODULE HsmRuntimeProps ---------------------------
(***************************************************************************)
(* What the runtime of one machine promises.                               *)
(***************************************************************************)
EXTENDS HsmRuntime

Queued == {lifo[i] : i \in DOMAIN lifo} \cup {fifo[i] : i \in DOMAIN fifo}

\* The states that are active when s is the current state, without the model.
ActiveIn(s) == {v \in StateVertex \ {Root} : v = s \/ IsAncestor(v, s)}

\* Between two transitions.
Settled == stage \in {"idle", "pop", "select", "replay", "drain"}

(***************************************************************************)
(* The mutex                                                               *)
(***************************************************************************)
\* Mutex.release and Mutex.wait: nobody waits for a free mutex.  When no
\* coroutine holds _processing, none is in the middle of its work, every
\* dispatch() has its answer, no stop() sleeps and no activity is awaited.
NoLostWakeup ==
    holder = Free =>
        /\ stage = "idle" /\ agenda = << >> /\ waitOn = None
        /\ \A i \in EventId : answer[i] \notin {"run", "wait"}
        /\ \A c \in Client : client[c].status \notin {"waiting", "running"}

\* dispatch, _start and _stop: the mutex has one owner, who is at work; the
\* loop runs for the one dispatch() that took the mutex, under its id.
OneOwner ==
    /\ holder # Free => stage # "idle"
    /\ \A c \in Client : client[c].status = "running" <=> holder = c
    /\ \A i \in EventId : answer[i] = "run" <=> holder = Process /\ curId = i

\* What is left to do in a call of _stop, and in every other call.
StopOp == [op : {"exit", "halt"}, v : Vertex]
WorkOp == [op : OpName \ {"halt", "spawn"}, v : Vertex] \cup [op : {"spawn"}, v : Activity]

\* _stop: a stop() that has the mutex leaves states and does nothing else
\* before it resets the machine; no other holder ever resets it.
HolderWork ==
    /\ holder \in Client => stage = "run" /\ agenda \in Seq(StopOp)
    /\ holder \notin Client => agenda \in Seq(WorkOp)

\* The inductive invariant of the mutex: the id of the event whose dispatch()
\* runs the loop was handed out before.
MutexInv == NoLostWakeup /\ OneOwner /\ HolderWork /\ curId < nextId

(***************************************************************************)
(* Events                                                                  *)
(***************************************************************************)
\* Where event i is: once or never in a sequence of events or held events.
Once(s, i)  == \E k \in DOMAIN s : s[k].id = i /\ \A l \in DOMAIN s : s[l].id = i => l = k
Never(s, i) == \A k \in DOMAIN s : s[k].id # i

HeldOnce(d, i) ==
    \E k \in DOMAIN d : d[k].event.id = i /\ \A l \in DOMAIN d : d[l].event.id = i => l = k
HeldNever(d, i) == \A k \in DOMAIN d : d[k].event.id # i

InQueue(i)    == (Once(lifo, i) /\ Never(fifo, i)) \/ (Never(lifo, i) /\ Once(fifo, i))
NotInQueue(i) == Never(lifo, i) /\ Never(fifo, i)

\* An event that was dispatched is in one of four places; an id that was not
\* handed out is in none.
Placed(i) ==
    /\ i < nextId
    /\ \/ InQueue(i) /\ HeldNever(deferred, i) /\ cur.id # i /\ outcome[i] = "none"
       \/ NotInQueue(i) /\ HeldOnce(deferred, i) /\ cur.id # i /\ outcome[i] = "none"
       \/ NotInQueue(i) /\ HeldNever(deferred, i) /\ cur.id = i /\ outcome[i] = "none"
       \/ NotInQueue(i) /\ HeldNever(deferred, i) /\ cur.id # i /\ outcome[i] # "none"

Fresh(i) ==
    /\ nextId <= i
    /\ NotInQueue(i) /\ HeldNever(deferred, i) /\ cur.id # i /\ outcome[i] = "none"

\* MultiQueue and _process: an event that dispatch() took is in exactly one
\* place, the queue, the local list of deferred events or the hand of the
\* loop, until exactly one thing becomes of it: no event is lost on the way
\* or looked at twice, whatever callbacks raise and whoever stops the
\* machine.
EventsConserved == \A i \in EventId : Placed(i) \/ Fresh(i)

\* _process: an event is in the hand of the loop only while its transition is
\* selected and executed: no stop() runs with one in hand.
HandInUse ==
    cur.id # 0 => stage \in {"select", "branch", "run"} /\ holder \in {Startup, Process}

\* The inductive invariant of the events.
EventsInv == EventsConserved /\ HandInUse

\* _process: an event held back in the loop is one that the current state
\* defers, and for the state that defers it innermost: a transition never
\* leaves behind an event deferred for a state that was left.
HeldByCurrentState ==
    stage \in {"pop", "select", "run", "branch", "drain"} =>
        \A i \in DOMAIN deferred :
            DeferredMap(state, deferred[i].event.name) = deferred[i].owner

\* _process: when the machine comes to rest and no callback has raised,
\* every event left in the queue is one the state defers: none was left
\* behind by a dispatch() that found the mutex taken.
NothingStranded ==
    holder = Free /\ faults = 0 => \A e \in Queued : DeferOwner(e) # None

\* MultiQueue: replaying deferred events never lets a later event be looked
\* at before an earlier one that was not looked at yet.
FirstLookInOrder ==
    \A k \in DOMAIN fifo :
        fifo[k].id \notin seen \cup {0} => \A j \in seen : j < fifo[k].id

\* dispatch: an awaitable resolves with true only when its event has been
\* settled or is deferred by the state, unless the machine is being stopped.
AnsweredWhenSettled ==
    [][\A i \in EventId :
          answer[i] # "true" /\ answer'[i] = "true" /\ faults' = 0 =>
              \/ outcome'[i] # "none"
              \/ ctxDone'
              \/ \E e \in Queued' : e.id = i /\ DeferredMap(state', e.name) # None
      ]_<<answer>>

(***************************************************************************)
(* States                                                                  *)
(***************************************************************************)
\* _transition, _enter, _exit: between two transitions the states entered
\* and not left are the current one and its ancestors, once each.
ConfigurationEntered ==
    Settled /\ faults = 0 =>
        \A v \in StateVertex \ {Root} :
            balance[v] = IF v \in ActiveIn(state) THEN 1 ELSE 0

\* transition_paths: a state is entered when its parent is and it is not,
\* and left when it is entered and none of its substates is.
EntryExitOrder ==
    [][faults' = 0 => \A v \in StateVertex \ {Root} :
          /\ balance'[v] > balance[v] =>
                 balance[v] = 0 /\ (Chain(v)[2] = Root \/ balance[Chain(v)[2]] = 1)
          /\ balance'[v] < balance[v] =>
                 /\ balance[v] = 1
                 /\ \A w \in StateVertex : IsAncestor(v, w) => balance[w] = 0
      ]_balance

\* DefaultModelFinalizer and _enter: the machine never rests in a choice or
\* a history vertex, and what a history remembers is a state below its owner.
RestsInStates ==
    /\ state \in StateVertex
    /\ \A h \in History : history[h] # None =>
           history[h] \in StateVertex /\ IsAncestor(Chain(h)[2], history[h])

(***************************************************************************)
(* Activities and the life cycle                                           *)
(***************************************************************************)
Unfinished(t) == task[t].status # "done"

\* _execute and _terminate: an activity that has not ended is the one filed
\* under its name, or the one the holder awaits; between two transitions the
\* activities that are filed are those of the active states.
ActivityScope ==
    faults = 0 =>
        /\ \A t \in TaskId : Unfinished(t) => active[task[t].home] = t \/ waitOn = t
        /\ Settled => \A v \in StateVertex \ {Root} : \A i \in DOMAIN Activities(v) :
                          active[Activities(v)[i]] # None <=> v \in ActiveIn(state)

\* _terminate: only the task the holder awaits is being cancelled.
OnlyAwaitedCancelled ==
    \A t \in TaskId : task[t].status \in {"cancelling", "cleanwait"} => waitOn = t

\* _stop: a machine at rest in its model, stopped or never started, has no
\* event, no activity and no entry in the registry left.
StoppedIsQuiet ==
    Startable /\ faults = 0 =>
        /\ QueueEmpty
        /\ \A t \in TaskId : ~Unfinished(t)
        /\ ~registered

(***************************************************************************)
(* Liveness, for user code that returns and ends when it is cancelled      *)
(***************************************************************************)
\* The one way to wait for ever: the cleanup of an activity awaits a
\* dispatch() to the machine that awaits the end of the activity.
WaitsForItself == \E t \in TaskId : task[t].status = "cleanwait"

\* dispatch: every awaitable is resolved, also when a callback raises.
DispatchAnswered ==
    \A i \in EventId :
        answer[i] \in {"run", "sent", "wait"} ~> answer[i] \in {"true", "failed"} \/ WaitsForItself

\* Mutex: whoever takes _processing releases it, also when a callback raises.
MutexReleased == holder # Free ~> holder = Free \/ WaitsForItself

\* _stop: a call that waits for the mutex gets it in the end, when events
\* and other calls do not come for ever.
StopCompletes ==
    \A c \in Client :
        client[c].status = "waiting" ~>
            client[c].status \in {"stopped", "idle"} \/ WaitsForItself

\* _stop and dispatch: once stop() has the mutex it lets go of it, whatever
\* the cleanup of an activity awaits: it cancelled the context before.
StopFinishes == \A c \in Client : holder = c ~> holder # c
=============================================================================
