--------------------------- MODULE HsmContractProofs ---------------------------
(***************************************************************************)
(* HsmRuntime implements HsmMachines with one machine: every step of the   *)
(* runtime is a step of the contract or leaves what callers see alone.     *)
(***************************************************************************)
EXTENDS HsmContract, HsmRuntimeProofs

\* What callers see changes as the variables of the runtime do.
LEMMA SeenValue == \A v : Seen(v)[Root] = v
BY DEF Seen

LEMMA SeenExcept == \A v, w : [Seen(v) EXCEPT ![Root] = w] = Seen(w)
BY DEF Seen

LEMMA SameStartable == Contract!Startable(Root) <=> Startable
BY SeenValue DEF Contract!Startable, Startable

\* dispatch()
LEMMA AcceptIsTake ==
    ASSUME NEW n, Accept(n), ~Startable,
           UNCHANGED <<state, registered, ctxDone, client>>
    PROVE  Contract!Take(Root)
<1>1. /\ nextId \in Contract!EventId
      /\ Seen(nextId)' = [Seen(nextId) EXCEPT ![Root] = Seen(nextId)[Root] + 1]
      BY SeenValue, SeenExcept DEF Accept, EventId, Contract!EventId
<1>2. Seen(holder)' = IF Seen(holder)[Root] = Free
                      THEN [Seen(holder) EXCEPT ![Root] = Process] ELSE Seen(holder)
      BY SeenValue, SeenExcept DEF Accept
<1>3. Seen(answer)' = [Seen(answer) EXCEPT ![Root] =
          [Seen(answer)[Root] EXCEPT ![Seen(nextId)[Root]] =
              IF Seen(holder)[Root] = Free THEN "run"
              ELSE IF Seen(ctxDone)[Root] THEN "true" ELSE "sent"]]
  <2>1. answer' = [answer EXCEPT ![nextId] = IF holder = Free THEN "run"
                                             ELSE IF ctxDone THEN "true" ELSE "sent"]
        BY DEF Accept
  <2>2. [Seen(answer) EXCEPT ![Root] = answer'] = Seen(answer)'
        BY DEF Seen
  <2>3. answer' = [Seen(answer)[Root] EXCEPT ![Seen(nextId)[Root]] =
                      IF Seen(holder)[Root] = Free THEN "run"
                      ELSE IF Seen(ctxDone)[Root] THEN "true" ELSE "sent"]
        BY <2>1, Zenon DEF Seen
  <2>4. QED BY <2>2, <2>3, Zenon
<1>4. UNCHANGED <<Seen(state # Root), Seen(registered), Seen(ctxDone), Seen(client)>>
      BY DEF Seen
<1>5. Seen(nextId)[Root] \in Contract!EventId
      BY <1>1, SeenValue
<1>6. QED BY <1>1, <1>2, <1>3, <1>4, <1>5, SameStartable DEF Contract!Take

\* Mutex.release
LEMMA ReleasedIsReleases ==
    ASSUME NEW ran, holder' = Free, answer' = Answered(ran)
    PROVE  Contract!Releases(Root, ran)
<1>1. Answered(ran) =
          [i \in Contract!EventId |-> CASE answer[i] = "wait" -> "true"
                                        [] answer[i] = "run"  -> ran
                                        [] OTHER              -> answer[i]]
      BY DEF Answered, EventId, Contract!EventId
<1>2. QED BY <1>1, SeenValue, SeenExcept DEF Contract!Releases, Contract!Takes

LEMMA SameWoken == Contract!Woken(Root) = Woken(client)
BY SeenValue DEF Contract!Woken, Woken

LEMMA SameCall ==
    ASSUME NEW c, NEW status, NEW mode,
           client' = [client EXCEPT ![c] = [status |-> status, mode |-> mode]]
    PROVE  Contract!CallIs(Root, c, status, mode)
BY SeenValue, SeenExcept DEF Contract!CallIs

LEMMA SeenStutters ==
    ASSUME UNCHANGED <<holder, state, registered, ctxDone, nextId, answer, client>>
    PROVE  UNCHANGED Contract!mach
BY DEF Seen, Contract!mach

\* The loop and the executor.
LEMMA LoopKeepsContract ==
    ASSUME TypeOK, MutexInv, ProcessStep
    PROVE  Contract!MachineStep(Root) \/ UNCHANGED Contract!mach
<1> USE DEF queueVars, runVars, workVars, eventVars, stateVars, restVars, taskVars,
            lifeVars, ghostVars, GoTo
<1>1. CASE PopDeferred \/ PopEvent \/ TakeTransition \/ GuardFails \/ HandlerRuns
           \/ NoTransition \/ NoResult \/ Replay \/ Replayed \/ Drain \/ PutBack
  <2>1. UNCHANGED <<holder, state, registered, ctxDone, nextId, answer, client>>
        BY <1>1 DEF PopDeferred, PopEvent, TakeTransition, GuardFails, HandlerRuns,
                    NextCandidate, NoTransition, NoResult, Unhandled, Replay, Replayed, Drain, PutBack
  <2>2. QED BY <2>1, SeenStutters
<1>2. CASE Arrive
  <2>1. holder \in {Startup, Process}
        BY <1>2, NotStopping, Busy DEF Arrive, Doing, Running, TypeOK
  <2>2. Seen(state # Root)' = [Seen(state # Root) EXCEPT ![Root] = (state # Root)']
        BY DEF Seen
  <2>3. UNCHANGED <<Seen(holder), Seen(registered), Seen(ctxDone), Seen(nextId),
                    Seen(answer), Seen(client)>>
        BY <1>2 DEF Arrive, Seen
  <2>4. Contract!Arrives(Root)
        BY <2>1, <2>2, <2>3, SeenValue DEF Contract!Arrives
  <2>5. QED BY <2>4 DEF Contract!MachineStep
<1>3. CASE Finish
  <2>1. holder \in {Startup, Process}
        BY <1>3, NotStopping, Busy DEF Finish, Running, TypeOK
  <2>2. Contract!Releases(Root, "true")
        BY <1>3, ReleasedIsReleases DEF Finish, Release
  <2>3. Seen(client)' = [Seen(client) EXCEPT ![Root] = Contract!Woken(Root)]
        BY <1>3, SameWoken, SeenExcept DEF Finish
  <2>4. UNCHANGED <<Seen(state # Root), Seen(registered), Seen(ctxDone), Seen(nextId)>>
        BY <1>3 DEF Finish, Seen
  <2>5. Contract!Ends(Root)
        BY <2>1, <2>2, <2>3, <2>4, SeenValue DEF Contract!Ends
  <2>6. QED BY <2>5 DEF Contract!MachineStep
<1>4. QED BY <1>1, <1>2, <1>3 DEF ProcessStep

LEMMA ExecutorKeepsContract ==
    ASSUME TypeOK, MutexInv, TransitionStep
    PROVE  Contract!MachineStep(Root) \/ UNCHANGED Contract!mach
<1> USE DEF queueVars, runVars, workVars, eventVars, stateVars, restVars, taskVars,
            lifeVars, ghostVars, Continue
<1>1. CASE SpawnFails
  <2>1. holder # Free
        BY <1>1, Busy DEF SpawnFails, File, Doing, Running
  <2>2. Contract!Take(Root)
        BY <1>1, <2>1, AcceptIsTake DEF SpawnFails, Startable
  <2>3. QED BY <2>2 DEF Contract!MachineStep
<1>2. CASE ~SpawnFails
  <2>1. UNCHANGED <<holder, state, registered, ctxDone, nextId, answer, client>>
        BY <1>2 DEF TransitionStep, Effect, EnterState, EnterFinal, EnterSimple,
                    EnterInitial, EnterPseudo, EnterHistory, NoBranch, Spawn,
                    Terminate, Resume, Leave
  <2>2. QED BY <2>1, SeenStutters
<1>3. QED BY <1>1, <1>2

\* _start
LEMMA StartupStarts ==
    ASSUME BeginStartup PROVE Contract!Starts(Root)
<1>1. Contract!Takes(Root, Startup)
      BY SeenExcept DEF BeginStartup, Contract!Takes
<1>2. /\ Seen(registered)' = [Seen(registered) EXCEPT ![Root] = TRUE]
      /\ Seen(ctxDone)' = [Seen(ctxDone) EXCEPT ![Root] = FALSE]
      BY SeenExcept DEF BeginStartup, NewContext
<1>3. UNCHANGED <<Seen(state # Root), Seen(nextId), Seen(answer)>>
      BY DEF BeginStartup, Seen, ghostVars
<1>4. QED BY <1>1, <1>2, <1>3, SameStartable DEF BeginStartup, Contract!Starts

\* stop() and restart()
LEMMA StopKeepsContract ==
    ASSUME NEW c \in Client, NEW m \in CallMode, BeginStop(c, m) \/ StopWaits(c, m)
    PROVE  Contract!StopAsks(Root, c, m)
<1> USE DEF machineVars, queueVars, runVars, workVars, eventVars, stateVars, restVars,
            taskVars, lifeVars, ghostVars, CallBecomes
<1>1. UNCHANGED <<Seen(state # Root), Seen(registered), Seen(nextId), Seen(answer)>>
      BY DEF BeginStop, StopWaits, Seen
<1>2. CASE BeginStop(c, m)
  <2>1. Contract!Takes(Root, c) /\ Contract!CallIs(Root, c, "running", m)
        BY <1>2, SeenExcept, SameCall DEF BeginStop, Contract!Takes
  <2>2. Seen(ctxDone)' = [Seen(ctxDone) EXCEPT ![Root] = TRUE] /\ Seen(holder)[Root] = Free
        BY <1>2, SeenExcept, SeenValue DEF BeginStop
  <2>3. QED BY <1>1, <2>1, <2>2 DEF Contract!StopAsks
<1>3. CASE StopWaits(c, m)
  <2>1. Contract!CallIs(Root, c, "waiting", m)
        BY <1>3, SameCall DEF StopWaits
  <2>2. UNCHANGED <<Seen(holder), Seen(ctxDone)>> /\ Seen(holder)[Root] # Free
        BY <1>3, SeenValue DEF StopWaits, Seen
  <2>3. QED BY <1>1, <2>1, <2>2 DEF Contract!StopAsks
<1>4. QED BY <1>2, <1>3

LEMMA CallKeepsContract ==
    ASSUME TypeOK, NEW c \in Client, CallStep(c)
    PROVE  Contract!CallStep(Root, c)
<1> USE DEF machineVars, queueVars, runVars, workVars, eventVars, stateVars, restVars,
            taskVars, lifeVars, ghostVars, CallBecomes
<1>1. CASE StopRetry(c)
  <2>1. client[c].mode \in CallMode
        BY DEF TypeOK
  <2>2. Contract!StopAsks(Root, c, client[c].mode)
        BY <1>1, <2>1, StopKeepsContract DEF StopRetry
  <2>3. Contract!StopRetry(Root, c)
        BY <1>1, <2>2, SeenValue DEF StopRetry, Contract!StopRetry
  <2>4. QED BY <2>3 DEF Contract!CallStep
<1>2. ASSUME StopReturns(c) \/ RestartFails(c)
      PROVE  /\ Contract!CallIs(Root, c, "idle", "stop")
             /\ UNCHANGED <<Seen(holder), Seen(state # Root), Seen(registered),
                            Seen(ctxDone), Seen(nextId), Seen(answer)>>
  <2>1. client' = [client EXCEPT ![c] = [status |-> "idle", mode |-> "stop"]]
        BY <1>2 DEF StopReturns, RestartFails, IdleCall
  <2>2. Contract!CallIs(Root, c, "idle", "stop")
        BY <2>1, SameCall
  <2>3. QED BY <1>2, <2>2 DEF StopReturns, RestartFails, Seen
<1>3. CASE StopReturns(c)
  <2>1. Contract!StopReturns(Root, c)
        BY <1>2, <1>3, SeenValue DEF StopReturns, Contract!StopReturns
  <2>2. QED BY <2>1 DEF Contract!CallStep
<1>4. CASE RestartFails(c)
  <2>1. Contract!RestartFails(Root, c)
        BY <1>2, <1>4, SeenValue, SameStartable DEF RestartFails, Contract!RestartFails
  <2>2. QED BY <2>1 DEF Contract!CallStep
<1>5. CASE RestartStarts(c)
  <2>1. Contract!CallIs(Root, c, "idle", "stop")
        BY <1>5, SameCall DEF RestartStarts, IdleCall
  <2>2. Contract!RestartStarts(Root, c)
        BY <1>5, <2>1, StartupStarts, SeenValue DEF RestartStarts, Contract!RestartStarts
  <2>3. QED BY <2>2 DEF Contract!CallStep
<1>6. CASE RestartAbandoned(c)
  <2>1. UNCHANGED <<Seen(holder), Seen(state # Root), Seen(registered), Seen(ctxDone),
                    Seen(nextId), Seen(answer)>>
        BY <1>6 DEF RestartAbandoned, Seen
  <2>2. CASE client[c].status = "running"
    <3>1. client' = [client EXCEPT ![c] = [status |-> "running", mode |-> "stop"]]
          BY <1>6, <2>2 DEF RestartAbandoned, TypeOK
    <3>2. Contract!CallIs(Root, c, "running", "stop")
          BY <3>1, SameCall
    <3>3. QED BY <1>6, <2>1, <2>2, <3>2, SeenValue
              DEF RestartAbandoned, Contract!RestartAbandoned, Contract!CallStep
  <2>3. CASE client[c].status # "running"
    <3>1. Contract!CallIs(Root, c, "idle", "stop")
          BY <1>6, <2>3, SameCall DEF RestartAbandoned, IdleCall
    <3>2. QED BY <1>6, <2>1, <2>3, <3>1, SeenValue
              DEF RestartAbandoned, Contract!RestartAbandoned, Contract!CallStep
  <2>4. QED BY <2>2, <2>3
<1>7. QED BY <1>1, <1>3, <1>4, <1>5, <1>6 DEF CallStep

\* The end of a stop(), and a callback that raises.
LEMMA ReleaseKeepsContract ==
    ASSUME TypeOK, MutexInv, StopFinish \/ Raise
    PROVE  Contract!MachineStep(Root)
<1> USE DEF queueVars, runVars, workVars, eventVars, stateVars, restVars, taskVars,
            lifeVars, ghostVars
<1>1. CASE StopFinish
  <2>1. holder \in Client
    <3>1. stage = "run" /\ agenda # << >> /\ Head(agenda).op = "halt"
          BY <1>1 DEF StopFinish, Doing, Running
    <3>2. ASSUME agenda \in Seq(WorkOp) PROVE FALSE
      <4>1. Head(agenda) \in WorkOp
            BY <3>1, <3>2, HeadTailProperties
      <4>2. QED BY <3>1, <4>1 DEF WorkOp
    <3>3. QED BY <3>2 DEF MutexInv, HolderWork
  <2>2. Contract!Releases(Root, "true")
        BY <1>1, ReleasedIsReleases DEF StopFinish, Release
  <2>3. Seen(client)' = [Seen(client) EXCEPT ![Root] =
                            [Contract!Woken(Root) EXCEPT ![Seen(holder)[Root]].status = "stopped"]]
        BY <1>1, SameWoken, SeenValue, SeenExcept DEF StopFinish
  <2>4. /\ Seen(state # Root)' = [Seen(state # Root) EXCEPT ![Root] = FALSE]
        /\ Seen(registered)' = [Seen(registered) EXCEPT ![Root] = FALSE]
        BY <1>1, SeenExcept DEF StopFinish
  <2>5. UNCHANGED <<Seen(ctxDone), Seen(nextId)>>
        BY <1>1 DEF StopFinish, Seen
  <2>6. Contract!StopEnds(Root)
        BY <2>1, <2>2, <2>3, <2>4, <2>5, SeenValue DEF Contract!StopEnds
  <2>7. QED BY <2>6 DEF Contract!MachineStep
<1>2. CASE Raise
  <2>1. holder # Free
        BY <1>2, Busy DEF Raise, InGuard, InHandler, HandlerNext, InBehaviour,
                         ExitUnhandled, Running
  <2>2. Contract!Releases(Root, "failed")
        BY <1>2, ReleasedIsReleases DEF Raise, Release
  <2>3. client' = [c \in Client |-> IF c = Seen(holder)[Root] THEN IdleCall
                                     ELSE Contract!Woken(Root)[c]]
        BY <1>2, SameWoken, SeenValue DEF Raise
  <2>4. Seen(client)' = [Seen(client) EXCEPT ![Root] =
            [c \in Client |-> IF c = Seen(holder)[Root] THEN Contract!IdleCall
                              ELSE Contract!Woken(Root)[c]]]
        BY <2>3, SeenExcept DEF IdleCall, Contract!IdleCall
  <2>5. UNCHANGED <<Seen(state # Root), Seen(registered), Seen(ctxDone), Seen(nextId)>>
        BY <1>2 DEF Raise, Seen
  <2>6. Contract!Raises(Root)
        BY <2>1, <2>2, <2>4, <2>5, SeenValue DEF Contract!Raises
  <2>7. QED BY <2>6 DEF Contract!MachineStep
<1>3. QED BY <1>1, <1>2

\* Activities, and the tasks of dispatch().
LEMMA TaskKeepsContract ==
    ASSUME NEW t \in TaskId, TaskStep(t)
    PROVE  Contract!MachineStep(Root) \/ UNCHANGED Contract!mach
<1> USE DEF machineVars, queueVars, runVars, workVars, eventVars, stateVars, restVars,
            taskVars, lifeVars, ghostVars, TaskEnds
<1>1. CASE TaskFinishes(t) \/ TaskCancelled(t)
  <2>1. UNCHANGED <<holder, state, registered, ctxDone, nextId, answer, client>>
        BY <1>1 DEF TaskFinishes, TaskCancelled
  <2>2. QED BY <2>1, SeenStutters
<1>2. CASE TaskFails(t)
  <2>1. Contract!Take(Root)
        BY <1>2, AcceptIsTake DEF TaskFails
  <2>2. QED BY <2>1 DEF Contract!MachineStep
<1>3. ASSUME NEW n \in DispatchName, TaskCleanup(t, n) PROVE Contract!Take(Root)
      BY <1>3, AcceptIsTake DEF TaskCleanup, Startable
<1>4. QED BY <1>1, <1>2, <1>3 DEF TaskStep, Contract!MachineStep

LEMMA WaitKeepsContract ==
    ASSUME NEW i \in EventId, WaitBegins(i)
    PROVE  Contract!MachineStep(Root)
<1> USE DEF runVars, stateVars, restVars, lifeVars
<1>1. Seen(answer)' = [Seen(answer) EXCEPT ![Root] =
          [Seen(answer)[Root] EXCEPT ![i] = IF Seen(holder)[Root] = Free
                                            THEN "true" ELSE "wait"]]
  <2>1. answer' = [answer EXCEPT ![i] = IF holder = Free THEN "true" ELSE "wait"]
        BY DEF WaitBegins
  <2>2. QED BY <2>1, Zenon DEF Seen
<1>2. UNCHANGED <<Seen(holder), Seen(state # Root), Seen(registered), Seen(ctxDone),
                  Seen(nextId), Seen(client)>>
      BY DEF WaitBegins, Seen
<1>3. Contract!Listens(Root, i)
      BY <1>1, <1>2, SeenValue DEF WaitBegins, Contract!Listens
<1>4. i \in Contract!EventId
      BY DEF EventId, Contract!EventId
<1>5. QED BY <1>3, <1>4 DEF Contract!MachineStep

LEMMA ClientKeepsContract ==
    ASSUME ClientStep PROVE Contract!MachineStep(Root)
<1> USE DEF queueVars, runVars, workVars, eventVars, stateVars, restVars, taskVars,
            lifeVars, ghostVars
<1>1. CASE Start
  <2>1. Contract!Start(Root)
        BY <1>1, StartupStarts DEF Start, Contract!Start, Seen
  <2>2. QED BY <2>1 DEF Contract!MachineStep
<1>2. CASE ParentEnds
  <2>1. Seen(ctxDone)' = [Seen(ctxDone) EXCEPT ![Root] = TRUE]
        BY <1>2, SeenExcept DEF ParentEnds
  <2>2. UNCHANGED <<Seen(holder), Seen(state # Root), Seen(registered), Seen(nextId),
                    Seen(answer), Seen(client)>>
        BY <1>2 DEF ParentEnds, Seen
  <2>3. Contract!ParentEnds(Root)
        BY <1>2, <2>1, <2>2 DEF ParentEnds, Contract!ParentEnds
  <2>4. QED BY <2>3 DEF Contract!MachineStep
<1>3. ASSUME NEW n \in DispatchName, Dispatch(n) PROVE Contract!MachineStep(Root)
      BY <1>3, AcceptIsTake DEF Dispatch, Contract!MachineStep
<1>4. ASSUME NEW c \in Client, NEW m \in CallMode, StopCall(c, m)
      PROVE  Contract!MachineStep(Root)
  <2>1. Contract!StopAsks(Root, c, m)
        BY <1>4, StopKeepsContract DEF StopCall
  <2>2. Contract!StopCall(Root, c, m)
        BY <1>4, <2>1, SeenValue, SameStartable DEF StopCall, Contract!StopCall
  <2>3. QED BY <2>2 DEF Contract!MachineStep, Contract!CallStep, CallMode
<1>5. QED BY <1>1, <1>2, <1>3, <1>4 DEF ClientStep

LEMMA InitKeepsContract == Init => Contract!MachinesInit
BY DEF Init, Contract!MachinesInit, Seen, EventId, Contract!EventId, IdleCall,
       Contract!IdleCall

(***************************************************************************)
(* dispatch, _start, _stop and _restart, with everything they call: every  *)
(* step of the runtime, under any chart, is a step of the one machine of   *)
(* HsmMachines, or one that callers do not see.                            *)
(***************************************************************************)
THEOREM RuntimeKeepsContract == Spec => KeepsContract
<1>1. Init => Contract!MachinesInit
      BY InitKeepsContract
<1>2. TypeOK /\ MutexInv /\ [Next]_vars => [Contract!MachinesNext]_(Contract!mach)
  <2>1. ASSUME UNCHANGED vars PROVE UNCHANGED Contract!mach
    <3>1. UNCHANGED <<holder, state, registered, ctxDone, nextId, answer, client>>
          BY <2>1 DEF vars, machineVars, runVars, stateVars, lifeVars, ghostVars
    <3>2. QED BY <3>1, SeenStutters
  <2>2. ASSUME TypeOK, MutexInv, Next
        PROVE  Contract!MachineStep(Root) \/ UNCHANGED Contract!mach
    <3>1. ASSUME NEW c \in Client, CallStep(c) PROVE Contract!MachineStep(Root)
          BY <2>2, <3>1, CallKeepsContract DEF Contract!MachineStep
    <3>2. QED BY <2>2, <3>1, LoopKeepsContract, ExecutorKeepsContract, ReleaseKeepsContract,
                 TaskKeepsContract, WaitKeepsContract, ClientKeepsContract
              DEF Next, HolderStep
  <2>3. QED BY <2>1, <2>2 DEF Contract!MachinesNext
<1>3. QED BY <1>1, <1>2, TypeCorrect, MutexInvariant, PTL
          DEF Spec, KeepsContract, Contract!MachinesSpec
=============================================================================
