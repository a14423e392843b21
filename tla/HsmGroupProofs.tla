---------------------------- MODULE HsmGroupProofs ----------------------------
(***************************************************************************)
(* Groups and broadcasts: the steps of a group are steps of its machines,  *)
(* whatever they are; the invariants of the machines, and then of the calls*)
(* of the group.                                                           *)
(***************************************************************************)
EXTENDS HsmGroupProps, SequenceTheorems, TLAPS

(***************************************************************************)
(* The machines                                                            *)
(***************************************************************************)
Answer     == {"none", "run", "sent", "wait", "true", "failed"}
CallStatus == {"idle", "waiting", "woken", "running", "stopped"}
Call       == [status : CallStatus, mode : {"stop", "restart"}]

MachinesOK ==
    /\ owner \in [Member -> {Free, Startup, Process} \cup Client]
    /\ inside \in [Member -> BOOLEAN] /\ listed \in [Member -> BOOLEAN]
    /\ closed \in [Member -> BOOLEAN]
    /\ next \in [Member -> Nat]
    /\ answer \in [Member -> [EventId -> Answer]]
    /\ call \in [Member -> [Client -> Call]]

\* Nobody waits for a free mutex, and the stop() that works is its owner.
MutexKept(x) ==
    /\ owner[x] = Free =>
           /\ \A i \in EventId : answer[x][i] \notin {"run", "wait"}
           /\ \A c \in Client : call[x][c].status \notin {"waiting", "running"}
    /\ \A c \in Client : call[x][c].status = "running" <=> owner[x] = c
    /\ \A i \in EventId : i < next[x] => answer[x][i] # "none"
    /\ next[x] <= MaxEvents + 1

MachinesInv == \A x \in Member : MutexKept(x)

LEMMA WokenType ==
    ASSUME MachinesOK, NEW x \in Member
    PROVE  /\ Woken(x) \in [Client -> Call]
           /\ \A c \in Client :
                  /\ Woken(x)[c].mode = call[x][c].mode
                  /\ Woken(x)[c].status = IF call[x][c].status = "waiting" THEN "woken"
                                                                        ELSE call[x][c].status
<1>1. \A c \in Client : call[x][c] \in Call
      BY DEF MachinesOK
<1>2. \A r \in Call : /\ [r EXCEPT !.status = "woken"] \in Call
                      /\ [r EXCEPT !.status = "woken"].status = "woken"
                      /\ [r EXCEPT !.status = "woken"].mode = r.mode
      BY DEF Call, CallStatus
<1>3. QED BY <1>1, <1>2 DEF Woken

LEMMA ReleasesType ==
    ASSUME MachinesOK, NEW x \in Member, NEW ran \in {"true", "failed"}, Releases(x, ran)
    PROVE  /\ owner' \in [Member -> {Free, Startup, Process} \cup Client]
           /\ answer' \in [Member -> [EventId -> Answer]]
           /\ owner'[x] = Free
           /\ \A i \in EventId : answer'[x][i] =
                  IF answer[x][i] = "wait" THEN "true"
                  ELSE IF answer[x][i] = "run" THEN ran ELSE answer[x][i]
           /\ \A y \in Member \ {x} : owner'[y] = owner[y] /\ answer'[y] = answer[y]
<1> DEFINE new == [i \in EventId |-> CASE answer[x][i] = "wait" -> "true"
                                       [] answer[x][i] = "run"  -> ran
                                       [] OTHER                 -> answer[x][i]]
<1>1. owner' = [owner EXCEPT ![x] = Free] /\ answer' = [answer EXCEPT ![x] = new]
      BY DEF Releases, Takes
<1>2. new \in [EventId -> Answer]
      BY DEF MachinesOK, Answer
<1>3. \A i \in EventId : new[i] = IF answer[x][i] = "wait" THEN "true"
                                  ELSE IF answer[x][i] = "run" THEN ran ELSE answer[x][i]
      OBVIOUS
<1> HIDE DEF new
<1>4. QED BY <1>1, <1>2, <1>3 DEF MachinesOK

LEMMA CallIsType ==
    ASSUME MachinesOK, NEW x \in Member, NEW c \in Client,
           NEW status \in CallStatus, NEW mode \in {"stop", "restart"},
           CallIs(x, c, status, mode)
    PROVE  /\ call' \in [Member -> [Client -> Call]]
           /\ call'[x][c] = [status |-> status, mode |-> mode]
           /\ \A d \in Client \ {c} : call'[x][d] = call[x][d]
           /\ \A y \in Member \ {x} : call'[y] = call[y]
<1> DEFINE new == [status |-> status, mode |-> mode]
<1>1. new \in Call
      BY DEF Call
<1>2. call' = [call EXCEPT ![x] = [@ EXCEPT ![c] = new]]
      BY DEF CallIs
<1> HIDE DEF new
<1>3. QED BY <1>1, <1>2 DEF MachinesOK, new

\* A step of one machine.
LEMMA MachineTypes ==
    ASSUME MachinesOK, NEW x \in Member, MachineStep(x)
    PROVE  MachinesOK'
<1>1. CASE Take(x)
  <2>1. next[x] \in EventId /\ next' \in [Member -> Nat]
        BY <1>1, HolderAssumption DEF Take, MachinesOK, EventId
  <2>2. answer' \in [Member -> [EventId -> Answer]]
        BY <1>1, <2>1 DEF Take, MachinesOK, Answer
  <2>3. owner' \in [Member -> {Free, Startup, Process} \cup Client]
        BY <1>1 DEF Take, MachinesOK
  <2>4. QED BY <1>1, <2>1, <2>2, <2>3 DEF Take, MachinesOK
<1>2. CASE \E i \in EventId : Listens(x, i)
      BY <1>2 DEF Listens, MachinesOK, Answer
<1>3. CASE Arrives(x) \/ ParentEnds(x)
      BY <1>3 DEF Arrives, ParentEnds, MachinesOK
<1>4. CASE Ends(x)
  <2>1. Releases(x, "true") /\ call' = [call EXCEPT ![x] = Woken(x)]
        BY <1>4 DEF Ends
  <2>2. call' \in [Member -> [Client -> Call]]
        BY <2>1, WokenType DEF MachinesOK
  <2>3. QED BY <1>4, <2>1, <2>2, ReleasesType DEF Ends, MachinesOK
<1>5. CASE Raises(x)
  <2> DEFINE new == [c \in Client |-> IF c = owner[x] THEN IdleCall ELSE Woken(x)[c]]
  <2>1. Releases(x, "failed") /\ call' = [call EXCEPT ![x] = new]
        BY <1>5 DEF Raises
  <2>2. IdleCall \in Call
        BY DEF IdleCall, Call, CallStatus
  <2>3. new \in [Client -> Call]
        BY <2>2, WokenType
  <2> HIDE DEF new
  <2>4. call' \in [Member -> [Client -> Call]]
        BY <2>1, <2>3 DEF MachinesOK
  <2>5. QED BY <1>5, <2>1, <2>4, ReleasesType DEF Raises, MachinesOK
<1>6. CASE Start(x)
      BY <1>6 DEF Start, Starts, Takes, MachinesOK
<1>7. CASE StopEnds(x)
  <2>1. owner[x] \in Client /\ Releases(x, "true")
        /\ call' = [call EXCEPT ![x] = [Woken(x) EXCEPT ![owner[x]].status = "stopped"]]
        BY <1>7 DEF StopEnds
  <2>2. [Woken(x) EXCEPT ![owner[x]].status = "stopped"] \in [Client -> Call]
        BY <2>1, WokenType DEF Call, CallStatus
  <2>3. call' \in [Member -> [Client -> Call]]
        BY <2>1, <2>2 DEF MachinesOK
  <2>4. QED BY <1>7, <2>1, <2>3, ReleasesType DEF StopEnds, MachinesOK
<1>8. ASSUME NEW c \in Client, CallStep(x, c) PROVE MachinesOK'
  <2>1. ASSUME NEW m \in {"stop", "restart"}, StopAsks(x, c, m) PROVE MachinesOK'
    <3>1. call' \in [Member -> [Client -> Call]]
          BY <2>1, CallIsType DEF StopAsks, CallStatus
    <3>2. QED BY <2>1, <3>1 DEF StopAsks, Takes, MachinesOK
  <2>2. CASE StopReturns(x, c) \/ RestartFails(x, c)
    <3>1. call' \in [Member -> [Client -> Call]]
          BY <2>2, CallIsType DEF StopReturns, RestartFails, CallStatus
    <3>2. QED BY <2>2, <3>1 DEF StopReturns, RestartFails, MachinesOK
  <2>3. CASE RestartStarts(x, c)
    <3>1. call' \in [Member -> [Client -> Call]]
          BY <2>3, CallIsType DEF RestartStarts, CallStatus
    <3>2. QED BY <2>3, <3>1 DEF RestartStarts, Starts, Takes, MachinesOK
  <2>4. CASE RestartAbandoned(x, c)
    <3>1. call' \in [Member -> [Client -> Call]]
          BY <2>4, CallIsType DEF RestartAbandoned, CallStatus
    <3>2. QED BY <2>4, <3>1 DEF RestartAbandoned, MachinesOK
  <2>5. call[x][c].mode \in {"stop", "restart"}
        BY DEF MachinesOK, Call
  <2>6. QED BY <1>8, <2>1, <2>2, <2>3, <2>4, <2>5 DEF CallStep, StopCall, StopRetry
<1>9. QED BY <1>1, <1>2, <1>3, <1>4, <1>5, <1>6, <1>7, <1>8 DEF MachineStep

(***************************************************************************)
(* HsmMachines: the variables of the machines have their types.            *)
(***************************************************************************)
THEOREM MachinesTyped == MachinesSpec => []MachinesOK
<1>1. MachinesInit => MachinesOK
      BY DEF MachinesInit, MachinesOK, Answer, Call, CallStatus, IdleCall
<1>2. MachinesOK /\ [MachinesNext]_mach => MachinesOK'
  <2>1. MachinesOK /\ UNCHANGED mach => MachinesOK'
        BY DEF mach, MachinesOK
  <2>2. QED BY <2>1, MachineTypes DEF MachinesNext
<1>3. QED BY <1>1, <1>2, PTL DEF MachinesSpec

(***************************************************************************)
(* The mutex of a machine                                                  *)
(***************************************************************************)
\* Whoever releases a mutex leaves nobody behind who waits for it.
LEMMA ReleaseKeeps ==
    ASSUME MachinesOK, NEW x \in Member, MutexKept(x), UNCHANGED next,
           NEW ran \in {"true", "failed"}, Releases(x, ran),
           \A c \in Client : call'[x][c].status \notin {"waiting", "running"}
    PROVE  MutexKept(x)'
<1>1. /\ owner'[x] = Free
      /\ \A i \in EventId : answer'[x][i] =
             IF answer[x][i] = "wait" THEN "true"
             ELSE IF answer[x][i] = "run" THEN ran ELSE answer[x][i]
      BY ReleasesType
<1>2. \A i \in EventId : answer'[x][i] \notin {"run", "wait"}
      BY <1>1
<1>3. \A i \in EventId : i < next'[x] => answer'[x][i] # "none"
      BY <1>1 DEF MutexKept
<1>4. \A c \in Client : owner'[x] # c
      BY <1>1, HolderAssumption
<1>5. QED BY <1>1, <1>2, <1>3, <1>4 DEF MutexKept

\* A call that asks for the mutex, or leaves it alone.
LEMMA CallKeeps ==
    ASSUME MachinesOK, NEW x \in Member, MutexKept(x), UNCHANGED <<answer, next>>,
           NEW c \in Client, NEW status \in CallStatus, NEW mode \in {"stop", "restart"},
           CallIs(x, c, status, mode),
           \/ /\ owner'[x] = owner[x] /\ call[x][c].status # "running"
              /\ status \notin {"waiting", "running"}
           \/ /\ owner'[x] = owner[x] /\ owner[x] # Free /\ status = "waiting"
              /\ call[x][c].status # "running"
           \/ owner'[x] = owner[x] /\ status = "running" /\ call[x][c].status = "running"
           \/ owner[x] = Free /\ owner'[x] # Free /\ status = "running" /\ owner'[x] = c
           \/ owner[x] = Free /\ owner'[x] = Startup /\ status = "idle"
    PROVE  MutexKept(x)'
<1>1. /\ call'[x][c].status = status
      /\ \A d \in Client \ {c} : call'[x][d] = call[x][d]
  <2>1. /\ call'[x][c] = [status |-> status, mode |-> mode]
        /\ \A d \in Client \ {c} : call'[x][d] = call[x][d]
        BY CallIsType
  <2>2. QED BY <2>1
<1>2. \A d \in Client : d # Free /\ d # Startup
      BY HolderAssumption
<1>3. QED BY <1>1, <1>2 DEF MutexKept

LEMMA MachineKeeps ==
    ASSUME MachinesOK, NEW x \in Member, MutexKept(x), MachineStep(x)
    PROVE  MutexKept(x)'
<1>1. CASE Take(x)
  <2>1. /\ next[x] \in EventId /\ next[x] \in Nat /\ next'[x] = next[x] + 1 /\ UNCHANGED call
        /\ answer'[x][next[x]] = IF owner[x] = Free THEN "run"
                                 ELSE IF closed[x] THEN "true" ELSE "sent"
        /\ \A i \in EventId \ {next[x]} : answer'[x][i] = answer[x][i]
        BY <1>1, HolderAssumption DEF Take, MachinesOK, EventId
  <2>2. owner'[x] # Free /\ (owner[x] # Free => owner'[x] = owner[x])
        BY <1>1, HolderAssumption DEF Take, MachinesOK
  <2>3. \A i \in EventId : i < next'[x] => i = next[x] \/ i < next[x]
        BY <2>1 DEF EventId
  <2>4. \A i \in EventId : i < next'[x] => answer'[x][i] # "none"
        BY <2>1, <2>3 DEF MutexKept
  <2>5. \A c \in Client : call'[x][c].status = "running" <=> owner'[x] = c
    <3>1. owner'[x] = IF owner[x] = Free THEN Process ELSE owner[x]
          BY <1>1 DEF Take, MachinesOK
    <3>2. \A c \in Client : c # Free /\ c # Process
          BY HolderAssumption
    <3>3. QED BY <2>1, <3>1, <3>2 DEF MutexKept
  <2>6. next'[x] <= MaxEvents + 1
        BY <2>1, HolderAssumption DEF EventId
  <2>7. QED BY <2>2, <2>4, <2>5, <2>6 DEF MutexKept
<1>2. ASSUME NEW i \in EventId, Listens(x, i) PROVE MutexKept(x)'
  <2>1. /\ UNCHANGED <<owner, next, call>>
        /\ answer'[x][i] = IF owner[x] = Free THEN "true" ELSE "wait"
        /\ \A j \in EventId \ {i} : answer'[x][j] = answer[x][j]
        BY <1>2 DEF Listens, MachinesOK
  <2>2. QED BY <2>1 DEF MutexKept
<1>3. CASE Arrives(x) \/ ParentEnds(x)
      BY <1>3 DEF Arrives, ParentEnds, MutexKept
<1>4. CASE Ends(x)
  <2>1. owner[x] \notin Client
        BY <1>4, HolderAssumption DEF Ends
  <2>2. Releases(x, "true") /\ call'[x] = Woken(x) /\ UNCHANGED next
        BY <1>4 DEF Ends, MachinesOK
  <2>3. \A c \in Client : call'[x][c].status \notin {"waiting", "running"}
        BY <2>1, <2>2, WokenType DEF MutexKept
  <2>4. QED BY <2>2, <2>3, ReleaseKeeps
<1>5. CASE Raises(x)
  <2>1. /\ Releases(x, "failed") /\ UNCHANGED next
        /\ \A c \in Client : call'[x][c] = IF c = owner[x] THEN IdleCall ELSE Woken(x)[c]
        BY <1>5 DEF Raises, MachinesOK
  <2>2. \A c \in Client : call'[x][c].status \notin {"waiting", "running"}
        BY <2>1, WokenType DEF MutexKept, IdleCall
  <2>3. QED BY <2>1, <2>2, ReleaseKeeps
<1>6. CASE Start(x)
  <2>1. owner[x] = Free /\ owner'[x] = Startup /\ UNCHANGED <<answer, next, call>>
        BY <1>6 DEF Start, Starts, Takes, Startable, MachinesOK
  <2>2. QED BY <2>1, HolderAssumption DEF MutexKept
<1>7. CASE StopEnds(x)
  <2>1. owner[x] \in Client /\ Releases(x, "true") /\ UNCHANGED next
        /\ call'[x] = [Woken(x) EXCEPT ![owner[x]].status = "stopped"]
        BY <1>7 DEF StopEnds, MachinesOK
  <2>2. \A c \in Client : call'[x][c].status =
            IF c = owner[x] THEN "stopped" ELSE Woken(x)[c].status
        BY <2>1, WokenType DEF Call
  <2>3. \A c \in Client : call'[x][c].status \notin {"waiting", "running"}
        BY <2>1, <2>2, WokenType DEF MutexKept
  <2>4. QED BY <2>1, <2>3, ReleaseKeeps
<1>8. ASSUME NEW c \in Client, CallStep(x, c) PROVE MutexKept(x)'
  <2>1. ASSUME NEW m \in {"stop", "restart"}, StopAsks(x, c, m), call[x][c].status # "running"
        PROVE  MutexKept(x)'
    <3>1. CASE owner[x] = Free
      <4>1. owner'[x] = c /\ CallIs(x, c, "running", m) /\ UNCHANGED <<answer, next>>
            BY <2>1, <3>1 DEF StopAsks, Takes, MachinesOK
      <4>2. QED BY <3>1, <4>1, HolderAssumption, CallKeeps DEF CallStatus
    <3>2. CASE owner[x] # Free
      <4>1. owner'[x] = owner[x] /\ CallIs(x, c, "waiting", m) /\ UNCHANGED <<answer, next>>
            BY <2>1, <3>2 DEF StopAsks
      <4>2. call[x][c].status # "running"
            BY <2>1
      <4>3. QED BY <3>2, <4>1, <4>2, CallKeeps DEF CallStatus
    <3>3. QED BY <3>1, <3>2
  <2>2. CASE StopReturns(x, c) \/ RestartFails(x, c)
      BY <2>2, CallKeeps DEF StopReturns, RestartFails, CallStatus
  <2>3. CASE RestartStarts(x, c)
    <3>1. owner[x] = Free /\ owner'[x] = Startup /\ UNCHANGED <<answer, next>>
          /\ CallIs(x, c, "idle", "stop")
          BY <2>3 DEF RestartStarts, Starts, Takes, Startable, MachinesOK
    <3>2. QED BY <3>1, HolderAssumption, CallKeeps DEF CallStatus
  <2>4. CASE RestartAbandoned(x, c)
      BY <2>4, CallKeeps DEF RestartAbandoned, CallStatus
  <2>5. call[x][c].mode \in {"stop", "restart"}
        BY DEF MachinesOK, Call
  <2>6. QED BY <1>8, <2>1, <2>2, <2>3, <2>4, <2>5 DEF CallStep, StopCall, StopRetry
<1>9. QED BY <1>1, <1>2, <1>3, <1>4, <1>5, <1>6, <1>7, <1>8 DEF MachineStep

\* A step of one machine leaves the others alone.
LEMMA OthersAlone ==
    ASSUME MachinesOK, NEW x \in Member, MachineStep(x), NEW y \in Member, y # x
    PROVE  /\ owner'[y] = owner[y] /\ inside'[y] = inside[y]
           /\ next'[y] = next[y] /\ answer'[y] = answer[y] /\ call'[y] = call[y]
<1> USE DEF MachinesOK
<1>1. CASE Take(x) \/ (\E i \in EventId : Listens(x, i)) \/ Arrives(x) \/ ParentEnds(x)
      BY <1>1 DEF Take, Listens, Arrives, ParentEnds
<1>2. CASE Ends(x) \/ Raises(x) \/ StopEnds(x)
      BY <1>2 DEF Ends, Raises, StopEnds, Releases, Takes
<1>3. CASE Start(x)
      BY <1>3 DEF Start, Starts, Takes
<1>4. ASSUME NEW c \in Client, CallStep(x, c) 
      PROVE  /\ owner'[y] = owner[y] /\ inside'[y] = inside[y]
             /\ next'[y] = next[y] /\ answer'[y] = answer[y] /\ call'[y] = call[y]
      BY <1>4 DEF CallStep, StopCall, StopRetry, StopAsks, StopReturns, RestartStarts,
                  RestartFails, RestartAbandoned, Starts, Takes, CallIs
<1>5. QED BY <1>1, <1>2, <1>3, <1>4 DEF MachineStep

(***************************************************************************)
(* HsmMachines: when nobody holds the mutex of a machine, nobody waits for *)
(* it, and the stop() that works on a machine holds its mutex.             *)
(***************************************************************************)
THEOREM MachinesKeepTheMutex == MachinesSpec => []MachinesInv
<1>1. MachinesInit => MachinesInv
  <2> SUFFICES ASSUME MachinesInit, NEW x \in Member PROVE MutexKept(x)
      BY DEF MachinesInv
  <2>1. /\ owner[x] = Free /\ next[x] = 1 /\ \A i \in EventId : answer[x][i] = "none"
        /\ \A c \in Client : call[x][c].status = "idle"
        BY DEF MachinesInit, IdleCall
  <2>2. next[x] <= MaxEvents + 1 /\ \A i \in EventId : ~(i < next[x])
        BY <2>1, HolderAssumption DEF EventId
  <2>3. \A c \in Client : call[x][c].status # "running" /\ owner[x] # c
        BY <2>1, HolderAssumption
  <2>4. QED BY <2>1, <2>2, <2>3 DEF MutexKept
<1>2. MachinesOK /\ MachinesInv /\ [MachinesNext]_mach => MachinesInv'
  <2> SUFFICES ASSUME MachinesOK, MachinesInv, [MachinesNext]_mach, NEW y \in Member
               PROVE  MutexKept(y)'
      BY DEF MachinesInv
  <2>1. MutexKept(y)
        BY DEF MachinesInv
  <2>2. CASE UNCHANGED mach
        BY <2>1, <2>2 DEF mach, MutexKept
  <2>3. ASSUME NEW x \in Member, MachineStep(x) PROVE MutexKept(y)'
    <3>1. CASE y = x
          BY <2>1, <2>3, <3>1, MachineKeeps
    <3>2. CASE y # x
          BY <2>1, <2>3, <3>2, OthersAlone DEF MutexKept
    <3>3. QED BY <3>1, <3>2
  <2>4. QED BY <2>2, <2>3 DEF MachinesNext
<1>3. QED BY <1>1, <1>2, MachinesTyped, PTL DEF MachinesSpec

(***************************************************************************)
(* A step of the group is a step of one machine, or no machine sees it.    *)
(***************************************************************************)
THEOREM GroupDrivesMachines == GroupSpec => MachinesSpec
<1>1. GroupInit => MachinesInit
      BY DEF GroupInit
<1>2. GroupNext => [MachinesNext]_mach
  <2>1. ASSUME NEW x \in Member, MemberStep(x) PROVE [MachinesNext]_mach
    <3>1. CASE \E c \in Client : MemberRetries(x, c) \/ MemberStopped(x, c) \/ MemberRestarts(x, c)
          BY <3>1 DEF MemberRetries, MemberStopped, MemberRestarts, MachinesNext, MachineStep, CallStep
    <3>2. CASE \/ MemberStarts(x) \/ MemberWorks(x) \/ MemberReleases(x) \/ MemberRaises(x)
               \/ MemberListens(x)
          BY <3>2 DEF MemberStarts, MemberWorks, MemberReleases, MemberRaises, MemberListens,
                      MachinesNext, MachineStep
    <3>3. QED BY <2>1, <3>1, <3>2 DEF MemberStep
  <2>2. ASSUME NEW g \in GroupCall, NEW p \in Pos, NEW x \in Member,
               Skip(g, p, x) \/ Offer(g, p, x) \/ AskStop(g, p, x) \/ AskRestart(g, p, x)
        PROVE  [MachinesNext]_mach
    <3>1. <<g, p>> \in Client
          BY GroupAssumption
    <3>2. CASE Skip(g, p, x) \/ Offer(g, p, x)
          BY <3>2 DEF Skip, Offer, MachinesNext, MachineStep
    <3>3. CASE AskStop(g, p, x) \/ AskRestart(g, p, x)
          BY <3>1, <3>3 DEF AskStop, AskRestart, MachinesNext, MachineStep, CallStep
    <3>4. QED BY <2>2, <3>2, <3>3
  <2>3. ASSUME NEW g \in GroupCall, CallMade(g) \/ Begin(g) \/ LoopEnds(g) \/ Gather(g)
        PROVE  UNCHANGED mach
        BY <2>3 DEF CallMade, Schedule, DispatchTo, Begin, LoopEnds, Gather
  <2>4. QED BY <2>1, <2>2, <2>3 DEF GroupNext, LoopStep
<1>3. UNCHANGED allVars => UNCHANGED mach
      BY DEF allVars
<1>4. QED BY <1>1, <1>2, <1>3, PTL DEF GroupSpec, MachinesSpec

(***************************************************************************)
(* The inductive invariant of the groups                                   *)
(***************************************************************************)
Job == [kind : JobKind, status : JobStatus, list : Seq(Member), pos : Nat]

GroupOK ==
    /\ job \in [GroupCall -> Job]
    /\ part \in [GroupCall -> [Pos -> Part]]
    /\ got \in [GroupCall -> [Pos -> Nat]]
    /\ turn \in Seq(GroupCall)
    /\ starts \in [Member -> Nat] /\ since \in [GroupCall -> [Member -> Nat]]
    /\ faults \in Nat

\* The loop of the call has begun.
Begun(g) == job[g].status \notin {"idle", "scheduled"}

\* turn is the stack of the loops that run; one that was not begun by a
\* DispatchTo is at its bottom.
LoopsOK ==
    /\ \A i \in DOMAIN turn : job[turn[i]].status = "looping"
    /\ \A i, j \in DOMAIN turn : turn[i] = turn[j] => i = j
    /\ \A g \in GroupCall : job[g].kind # "dispatchTo" =>
           /\ job[g].status = "looping" => turn # << >> /\ turn[Len(turn)] = g
           /\ job[g].status # "idle" => job[g].list = Members

\* Each recipient took the event of g first.
Before(g, h) == \A p \in Pos : 0 \notin {got[g][p], got[h][p]} => got[g][p] < got[h][p]

Dispatches(g) == job[g].kind = "dispatch"

\* Two dispatches of groups were taken one after the other, and the one that
\* is under way is the later one.
BroadcastsOK ==
    /\ \A g \in GroupCall, p \in Pos : got[g][p] # 0 =>
           Begun(g) /\ p \in DOMAIN job[g].list /\ got[g][p] < next[Recipient(g, p)]
    /\ \A g, h \in GroupCall : Dispatches(g) /\ Dispatches(h) /\ g # h =>
           /\ Before(g, h) \/ Before(h, g)
           /\ job[g].status = "looping" => Before(h, g)

CallOf(g, p) == call[Recipient(g, p)][<<g, p>>]

\* The part of a call that waits for stop() is the one of the recipient.
PartOK(g, p) ==
    /\ \A x \in Member : call[x][<<g, p>>].status # "idle" =>
           part[g][p] = "asked" /\ x = Recipient(g, p) /\ call[x][<<g, p>>].mode = job[g].kind
    /\ part[g][p] # "none" => Begun(g) /\ p \in DOMAIN job[g].list /\ p < job[g].pos
    /\ part[g][p] = "asked" => CallOf(g, p).status # "idle"
    /\ part[g][p] = "starting" => owner[Recipient(g, p)] = Startup /\ job[g].kind = "restart"

Quiet(x) == ~inside[x] /\ owner[x] \notin {Startup, Process}

StartedSince(g, x) == starts[x] > since[g][x]

\* Nobody works on x, or somebody has started it.
Out(g, x) == Quiet(x) \/ StartedSince(g, x)

OutcomeOK(g, p) ==
    /\ job[g].kind = "stop" /\ part[g][p] = "done" => Out(g, Recipient(g, p))
    /\ job[g].kind = "stop" /\ part[g][p] = "asked" /\ CallOf(g, p).status = "stopped" =>
           Out(g, Recipient(g, p))
    /\ job[g].kind = "restart" /\ part[g][p] \in {"starting", "done"} =>
           StartedSince(g, Recipient(g, p))

(***************************************************************************)
(* What the steps write                                                    *)
(***************************************************************************)
LEMMA JobMoves ==
    ASSUME GroupOK, NEW g \in GroupCall, NEW status \in JobStatus, JobBecomes(g, status)
    PROVE  /\ job' \in [GroupCall -> Job]
           /\ job'[g].status = status
           /\ job'[g].kind = job[g].kind /\ job'[g].list = job[g].list
           /\ job'[g].pos = job[g].pos
           /\ \A h \in GroupCall \ {g} : job'[h] = job[h]
<1> DEFINE new == [job[g] EXCEPT !.status = status]
<1>1. job[g] \in Job
      BY DEF GroupOK
<1>2. /\ new \in Job /\ new.status = status /\ new.pos = job[g].pos
      /\ new.kind = job[g].kind /\ new.list = job[g].list
      BY <1>1 DEF Job
<1>3. job' = [job EXCEPT ![g] = new]
      BY DEF JobBecomes
<1> HIDE DEF new
<1>4. QED BY <1>2, <1>3 DEF GroupOK

LEMMA LoopMoves ==
    ASSUME GroupOK, NEW g \in GroupCall, NEW p \in Pos, NEW x \in Member, At(g, p, x)
    PROVE  /\ job' \in [GroupCall -> Job]
           /\ job'[g].status = job[g].status
           /\ job'[g].kind = job[g].kind /\ job'[g].list = job[g].list
           /\ \A h \in GroupCall \ {g} : job'[h] = job[h]
           /\ turn # << >> /\ 1 \in DOMAIN turn /\ turn[1] = g
           /\ p \in DOMAIN job[g].list /\ x = Recipient(g, p)
           /\ p = job[g].pos /\ job'[g].pos = job[g].pos + 1
<1> DEFINE new == [job[g] EXCEPT !.pos = @ + 1]
<1>1. job[g] \in Job
      BY DEF GroupOK
<1>2. /\ new \in Job /\ new.status = job[g].status /\ new.pos = job[g].pos + 1
      /\ new.kind = job[g].kind /\ new.list = job[g].list
      BY <1>1 DEF Job
<1>3. /\ turn # << >> /\ g = Head(turn) /\ p = job[g].pos
      /\ p \in DOMAIN job[g].list /\ x = Recipient(g, p)
      BY DEF At
<1>6. job' = [job EXCEPT ![g] = new]
      BY DEF At
<1>4. 1 \in DOMAIN turn /\ turn[1] = g
  <2>1. turn \in Seq(GroupCall)
        BY DEF GroupOK
  <2>2. QED BY <1>3, <2>1
<1> HIDE DEF new
<1>5. QED BY <1>2, <1>3, <1>4, <1>6 DEF GroupOK

LEMMA PartMoves ==
    ASSUME GroupOK, NEW c \in Client, NEW s \in Part, PartIs(c, s)
    PROVE  /\ c = <<c[1], c[2]>> /\ c[1] \in GroupCall /\ c[2] \in Pos
           /\ part' \in [GroupCall -> [Pos -> Part]]
           /\ \A g \in GroupCall, p \in Pos :
                  part'[g][p] = IF <<g, p>> = c THEN s ELSE part[g][p]
<1>1. c = <<c[1], c[2]>> /\ c[1] \in GroupCall /\ c[2] \in Pos
      BY GroupAssumption
<1>2. part' = [part EXCEPT ![c[1]] = [@ EXCEPT ![c[2]] = s]]
      BY DEF PartIs
<1>3. /\ part' \in [GroupCall -> [Pos -> Part]]
      /\ \A g \in GroupCall, p \in Pos :
             part'[g][p] = IF g = c[1] /\ p = c[2] THEN s ELSE part[g][p]
      BY <1>1, <1>2 DEF GroupOK
<1>4. \A g \in GroupCall, p \in Pos : <<g, p>> = c <=> g = c[1] /\ p = c[2]
      BY <1>1
<1>5. QED BY <1>1, <1>3, <1>4

\* The parts after a release.
Started(x, g, p) == part[g][p] = "starting" /\ Recipient(g, p) = x

LEMMA StartupsMove ==
    ASSUME GroupOK, NEW x \in Member
    PROVE  /\ StartupsDone(x) \in [GroupCall -> [Pos -> Part]]
           /\ \A g \in GroupCall, p \in Pos :
                  StartupsDone(x)[g][p] = IF Started(x, g, p) THEN "done" ELSE part[g][p]
      BY DEF GroupOK, StartupsDone, Started, Part

LEMMA RaiseMoves ==
    ASSUME GroupOK, NEW x \in Member, MemberRaises(x)
    PROVE  /\ part' \in [GroupCall -> [Pos -> Part]]
           /\ \A g \in GroupCall, p \in Pos :
                  part'[g][p] = IF owner[x] = <<g, p>> THEN "failed"
                                ELSE IF Started(x, g, p) THEN "done" ELSE part[g][p]
<1>1. CASE owner[x] \in Client
  <2> DEFINE c == owner[x]
             all == StartupsDone(x)
  <2>1. c = <<c[1], c[2]>> /\ c[1] \in GroupCall /\ c[2] \in Pos
        BY <1>1, GroupAssumption
  <2>2. part' = [all EXCEPT ![c[1]][c[2]] = "failed"]
        BY <1>1 DEF MemberRaises
  <2>3. all \in [GroupCall -> [Pos -> Part]]
        /\ \A g \in GroupCall, p \in Pos :
               all[g][p] = IF Started(x, g, p) THEN "done" ELSE part[g][p]
        BY StartupsMove
  <2>4. \A g \in GroupCall, p \in Pos : c = <<g, p>> <=> g = c[1] /\ p = c[2]
        BY <2>1
  <2> HIDE DEF all, c
  <2>5. /\ part' \in [GroupCall -> [Pos -> Part]]
        /\ \A g \in GroupCall, p \in Pos :
               part'[g][p] = IF g = c[1] /\ p = c[2] THEN "failed" ELSE all[g][p]
        BY <2>1, <2>2, <2>3 DEF Part
  <2>6. QED BY <2>3, <2>4, <2>5 DEF c
<1>2. CASE owner[x] \notin Client
  <2>1. part' = StartupsDone(x)
        BY <1>2 DEF MemberRaises
  <2>4. \A g \in GroupCall, p \in Pos : <<g, p>> \in Client
        BY GroupAssumption
  <2>2. \A g \in GroupCall, p \in Pos : owner[x] # <<g, p>>
        BY <1>2, <2>4
  <2>3. QED BY <2>1, <2>2, StartupsMove
<1>3. QED BY <1>1, <1>2

LEMMA StartMoves ==
    ASSUME GroupOK, NEW x \in Member, StartCounts(x)
    PROVE  /\ starts' \in [Member -> Nat]
           /\ starts'[x] = starts[x] + 1
           /\ \A y \in Member : starts[y] <= starts'[y]
           /\ \A y \in Member \ {x} : starts'[y] = starts[y]
<1>1. starts' = [starts EXCEPT ![x] = @ + 1] /\ starts \in [Member -> Nat]
      BY DEF StartCounts, GroupOK
<1>2. \A y \in Member : starts'[y] = IF y = x THEN starts[x] + 1 ELSE starts[y]
      BY <1>1
<1>3. \A n \in Nat : n <= n + 1 /\ n <= n /\ n + 1 \in Nat
      OBVIOUS
<1>4. QED BY <1>1, <1>2, <1>3

LEMMA OfferMoves ==
    ASSUME MachinesOK, GroupOK, NEW g \in GroupCall, NEW p \in Pos, NEW x \in Member,
           Offer(g, p, x)
    PROVE  /\ got' \in [GroupCall -> [Pos -> Nat]]
           /\ got'[g][p] = next[x] /\ next'[x] = next[x] + 1
           /\ \A q \in Pos \ {p} : got'[g][q] = got[g][q]
           /\ \A h \in GroupCall \ {g} : got'[h] = got[h]
           /\ \A y \in Member \ {x} : next'[y] = next[y]
<1>1. got' = [got EXCEPT ![g] = [@ EXCEPT ![p] = next[x]]] /\ Take(x)
      BY DEF Offer
<1>2. next' = [next EXCEPT ![x] = @ + 1] /\ next \in [Member -> Nat]
      BY <1>1 DEF Take, MachinesOK
<1>3. got \in [GroupCall -> [Pos -> Nat]] /\ next[x] \in Nat
      BY <1>2 DEF GroupOK
<1>4. QED BY <1>1, <1>2, <1>3

LEMMA GroupTypes ==
    ASSUME MachinesOK, GroupOK, GroupNext
    PROVE  GroupOK'
<1> USE DEF Part, JobStatus
<1>1. ASSUME NEW x \in Member, MemberStep(x) PROVE GroupOK'
  <2>1. CASE MemberWorks(x) \/ MemberListens(x) \/ \E c \in Client : MemberRetries(x, c)
        BY <2>1 DEF MemberWorks, MemberListens, MemberRetries, groupVars, GroupOK
  <2>2. CASE MemberStarts(x)
        BY <2>2, StartMoves DEF MemberStarts, groupVars, GroupOK
  <2>3. CASE MemberReleases(x)
        BY <2>3, StartupsMove DEF MemberReleases, GroupOK
  <2>4. CASE MemberRaises(x)
    <3>1. part' \in [GroupCall -> [Pos -> Part]]
          BY <2>4, RaiseMoves
    <3>2. UNCHANGED <<job, got, turn, starts, since>> /\ faults' = faults + 1
          BY <2>4 DEF MemberRaises
    <3>3. QED BY <3>1, <3>2 DEF GroupOK
  <2>5. ASSUME NEW c \in Client, MemberStopped(x, c) PROVE GroupOK'
        BY <2>5, PartMoves DEF MemberStopped, GroupOK
  <2>6. ASSUME NEW c \in Client, MemberRestarts(x, c) PROVE GroupOK'
    <3>1. part' \in [GroupCall -> [Pos -> Part]]
          BY <2>6, PartMoves DEF MemberRestarts
    <3>2. starts' \in [Member -> Nat]
          BY <2>6, StartMoves DEF MemberRestarts, GroupOK
    <3>3. QED BY <2>6, <3>1, <3>2 DEF MemberRestarts, GroupOK
  <2>7. QED BY <1>1, <2>1, <2>2, <2>3, <2>4, <2>5, <2>6 DEF MemberStep
<1>2. ASSUME NEW g \in GroupCall, NEW p \in Pos, NEW x \in Member,
             Skip(g, p, x) \/ Offer(g, p, x) \/ AskStop(g, p, x) \/ AskRestart(g, p, x)
      PROVE  GroupOK'
  <2>1. job' \in [GroupCall -> Job]
        BY <1>2, LoopMoves DEF Skip, Offer, AskStop, AskRestart
  <2>2. <<g, p>> \in Client
        BY GroupAssumption
  <2>3. part' \in [GroupCall -> [Pos -> Part]]
        BY <1>2, <2>2, PartMoves DEF Skip, Offer, AskStop, AskRestart, GroupOK
  <2>4. got' \in [GroupCall -> [Pos -> Nat]]
    <3>1. CASE Offer(g, p, x)
          BY <3>1, OfferMoves
    <3>2. CASE UNCHANGED got
          BY <3>2 DEF GroupOK
    <3>3. QED BY <1>2, <3>1, <3>2 DEF Skip, AskStop, AskRestart
  <2>5. QED BY <1>2, <2>1, <2>3, <2>4 DEF Skip, Offer, AskStop, AskRestart, GroupOK
<1>3. ASSUME NEW g \in GroupCall, CallMade(g) PROVE GroupOK'
  <2>1. ASSUME NEW kind \in JobKind, Schedule(g, kind) PROVE GroupOK'
    <3>1. [kind |-> kind, status |-> "scheduled", list |-> Members, pos |-> 1] \in Job
          BY GroupAssumption DEF Job
    <3>2. QED BY <2>1, <3>1 DEF Schedule, GroupOK
  <2>2. ASSUME NEW n \in 0 .. Len(Members), NEW list \in [1 .. n -> Member], DispatchTo(g, list)
        PROVE  GroupOK'
    <3>1. n \in Nat /\ list \in Seq(Member)
          BY GroupAssumption
    <3>2. [kind |-> "dispatchTo", status |-> "looping", list |-> list, pos |-> 1] \in Job
          BY <3>1 DEF Job, JobKind
    <3>3. turn' \in Seq(GroupCall)
          BY <2>2 DEF DispatchTo, GroupOK
    <3>4. QED BY <2>2, <3>2, <3>3 DEF DispatchTo, GroupOK
  <2>3. QED BY <1>3, <2>1, <2>2 DEF CallMade
<1>4. ASSUME NEW g \in GroupCall, Begin(g) \/ LoopEnds(g) \/ Gather(g) PROVE GroupOK'
  <2>1. job' \in [GroupCall -> Job]
        BY <1>4, JobMoves DEF Begin, LoopEnds, Gather
  <2>2. turn' \in Seq(GroupCall)
    <3>1. turn \in Seq(GroupCall)
          BY DEF GroupOK
    <3>2. CASE Begin(g)
          BY <3>2 DEF Begin
    <3>3. CASE LoopEnds(g)
          BY <3>1, <3>3 DEF LoopEnds
    <3>4. CASE Gather(g)
          BY <3>1, <3>4 DEF Gather
    <3>5. QED BY <1>4, <3>2, <3>3, <3>4
  <2>3. QED BY <1>4, <2>1, <2>2 DEF Begin, LoopEnds, Gather, GroupOK
<1>5. QED BY <1>1, <1>2, <1>3, <1>4 DEF GroupNext, LoopStep

(***************************************************************************)
(* HsmGroup: the variables of the groups have their types.                 *)
(***************************************************************************)
THEOREM GroupTyped == GroupSpec => [](MachinesOK /\ GroupOK)
<1>1. GroupInit => GroupOK
  <2>1. [kind |-> "dispatch", status |-> "idle", list |-> << >>, pos |-> 1] \in Job
        BY DEF Job, JobKind, JobStatus
  <2>2. QED BY <2>1 DEF GroupInit, GroupOK, Part
<1>2. MachinesOK /\ GroupOK /\ [GroupNext]_allVars => GroupOK'
      BY GroupTypes DEF allVars, groupVars, GroupOK
<1>3. QED BY <1>1, <1>2, GroupDrivesMachines, MachinesTyped, PTL DEF GroupSpec

(***************************************************************************)
(* The stack of loops                                                      *)
(***************************************************************************)
\* A step that leaves the stack alone moves no call into or out of it.
LEMMA LoopsFrame ==
    ASSUME LoopsOK, UNCHANGED turn,
           \A g \in GroupCall :
               /\ job'[g].kind = job[g].kind /\ job'[g].list = job[g].list
               /\ \/ job'[g].status = job[g].status
                  \/ /\ job[g].status \notin {"idle", "looping"}
                     /\ job'[g].status # "looping"
    PROVE  LoopsOK' \/ ~(turn \in Seq(GroupCall))
<1> SUFFICES ASSUME turn \in Seq(GroupCall) PROVE LoopsOK'
    OBVIOUS
<1>1. \A i \in DOMAIN turn : turn[i] \in GroupCall
      OBVIOUS
<1>2. \A i \in DOMAIN turn : job'[turn[i]].status = "looping"
      BY <1>1 DEF LoopsOK
<1>3. \A g \in GroupCall : job'[g].kind # "dispatchTo" =>
          /\ job'[g].status = "looping" => turn # << >> /\ turn[Len(turn)] = g
          /\ job'[g].status # "idle" => job'[g].list = Members
      BY DEF LoopsOK
<1>4. QED BY <1>2, <1>3 DEF LoopsOK

LEMMA LoopsKept ==
    ASSUME GroupOK, LoopsOK, GroupNext
    PROVE  LoopsOK'
<1>1. turn \in Seq(GroupCall) /\ Len(turn) \in Nat
      BY DEF GroupOK
<1>2. ASSUME NEW x \in Member, MemberStep(x) PROVE LoopsOK'
  <2>1. UNCHANGED <<job, turn>>
        BY <1>2 DEF MemberStep, MemberStarts, MemberWorks, MemberReleases, MemberRaises,
                    MemberListens, MemberRetries, MemberStopped, MemberRestarts, groupVars
  <2>2. QED BY <1>1, <2>1, LoopsFrame
<1>3. ASSUME NEW g \in GroupCall, NEW p \in Pos, NEW x \in Member,
             Skip(g, p, x) \/ Offer(g, p, x) \/ AskStop(g, p, x) \/ AskRestart(g, p, x)
      PROVE  LoopsOK'
  <2>1. At(g, p, x) /\ UNCHANGED turn
        BY <1>3 DEF Skip, Offer, AskStop, AskRestart
  <2>2. /\ job'[g].status = job[g].status /\ job'[g].kind = job[g].kind
        /\ job'[g].list = job[g].list
        /\ \A h \in GroupCall \ {g} : job'[h] = job[h]
        BY <2>1, LoopMoves
  <2>3. QED BY <1>1, <2>1, <2>2, LoopsFrame
<1>4. ASSUME NEW g \in GroupCall, Gather(g) PROVE LoopsOK'
  <2>1. UNCHANGED turn /\ job[g].status = "gathering"
        /\ (JobBecomes(g, "failed") \/ JobBecomes(g, "ok"))
        BY <1>4 DEF Gather
  <2>2. /\ job'[g].status # "looping" /\ job'[g].kind = job[g].kind
        /\ job'[g].list = job[g].list
        /\ \A h \in GroupCall \ {g} : job'[h] = job[h]
        BY <2>1, JobMoves DEF JobStatus
  <2>3. QED BY <1>1, <2>1, <2>2, LoopsFrame
<1>5. ASSUME NEW g \in GroupCall, NEW kind \in JobKind \ {"dispatchTo"}, Schedule(g, kind)
      PROVE  LoopsOK'
  <2>1. /\ job[g].status = "idle" /\ UNCHANGED turn
        /\ job'[g].kind = kind /\ job'[g].status = "scheduled" /\ job'[g].list = Members
        /\ \A h \in GroupCall \ {g} : job'[h] = job[h]
        BY <1>5 DEF Schedule, GroupOK
  <2>2. \A i \in DOMAIN turn : turn[i] \in GroupCall \ {g}
        BY <1>1, <2>1 DEF LoopsOK
  <2>3. QED BY <1>1, <2>1, <2>2 DEF LoopsOK
<1>6. ASSUME NEW g \in GroupCall, Begin(g) PROVE LoopsOK'
  <2>1. /\ turn = << >> /\ job[g].status = "scheduled" /\ turn' = <<g>>
        /\ JobBecomes(g, "looping")
        BY <1>6 DEF Begin, Switching
  <2>2. /\ job'[g].status = "looping" /\ job'[g].kind = job[g].kind
        /\ job'[g].list = job[g].list
        /\ \A h \in GroupCall \ {g} : job'[h] = job[h]
        BY <2>1, JobMoves DEF JobStatus
  <2>3. turn'[1] = g /\ Len(turn') = 1 /\ DOMAIN turn' = {1} /\ turn' # << >>
        BY <2>1
  <2>4. QED BY <2>1, <2>2, <2>3 DEF LoopsOK
<1>7. ASSUME NEW g \in GroupCall, NEW list, DispatchTo(g, list) PROVE LoopsOK'
  <2>1. /\ job[g].status = "idle" /\ turn' = <<g>> \o turn
        /\ job'[g].kind = "dispatchTo" /\ job'[g].status = "looping"
        /\ \A h \in GroupCall \ {g} : job'[h] = job[h]
        BY <1>7 DEF DispatchTo, GroupOK
  <2>2. /\ turn' # << >> /\ Len(turn') = Len(turn) + 1 /\ DOMAIN turn' = 1 .. Len(turn) + 1
        /\ turn'[1] = g /\ \A i \in DOMAIN turn' : i # 1 => turn'[i] = turn[i - 1]
        BY <1>1, <2>1
  <2>3. \A i \in DOMAIN turn' : i # 1 => i - 1 \in DOMAIN turn
        BY <1>1, <2>2
  <2>4. \A i \in DOMAIN turn : turn[i] \in GroupCall \ {g}
        BY <1>1, <2>1 DEF LoopsOK
  <2>5. \A i \in DOMAIN turn' : job'[turn'[i]].status = "looping"
    <3>1. ASSUME NEW i \in DOMAIN turn', i # 1 PROVE job'[turn'[i]].status = "looping"
      <4>1. turn'[i] = turn[i - 1] /\ i - 1 \in DOMAIN turn /\ turn[i - 1] \in GroupCall \ {g}
            BY <2>2, <2>3, <2>4, <3>1
      <4>2. job[turn[i - 1]].status = "looping"
            BY <4>1 DEF LoopsOK
      <4>3. QED BY <2>1, <4>1, <4>2
    <3>2. QED BY <2>1, <2>2, <3>1
  <2>6. \A i, j \in DOMAIN turn' : turn'[i] = turn'[j] => i = j
    <3>1. SUFFICES ASSUME NEW i \in DOMAIN turn', NEW j \in DOMAIN turn', turn'[i] = turn'[j]
                   PROVE  i = j
          OBVIOUS
    <3>2. CASE i = 1 \/ j = 1
          BY <2>2, <2>3, <2>4, <3>1, <3>2
    <3>3. CASE i # 1 /\ j # 1
      <4>1. turn[i - 1] = turn[j - 1] /\ i - 1 \in DOMAIN turn /\ j - 1 \in DOMAIN turn
            BY <2>2, <2>3, <3>1, <3>3
      <4>2. i - 1 = j - 1
            BY <4>1 DEF LoopsOK
      <4>3. QED BY <1>1, <2>2, <4>2
    <3>4. QED BY <3>2, <3>3
  <2>7. \A h \in GroupCall \ {g} : job[h].kind # "dispatchTo" /\ job[h].status = "looping" =>
            turn'[Len(turn')] = h
    <3>1. turn # << >> => Len(turn) \in DOMAIN turn /\ Len(turn) # 0
          BY <1>1
    <3>2. turn # << >> => turn'[Len(turn')] = turn[Len(turn)]
          BY <1>1, <2>2, <3>1
    <3>3. QED BY <3>2 DEF LoopsOK
  <2>8. QED BY <2>1, <2>2, <2>5, <2>6, <2>7 DEF LoopsOK
<1>8. ASSUME NEW g \in GroupCall, LoopEnds(g) PROVE LoopsOK'
  <2>1. /\ turn # << >> /\ g = Head(turn) /\ turn' = Tail(turn)
        /\ (JobBecomes(g, "nobody") \/ JobBecomes(g, "gathering"))
        BY <1>8 DEF LoopEnds
  <2>2. /\ job'[g].status \in {"nobody", "gathering"} /\ job'[g].kind = job[g].kind
        /\ job'[g].list = job[g].list
        /\ \A h \in GroupCall \ {g} : job'[h] = job[h]
        BY <2>1, JobMoves DEF JobStatus
  <2>3. /\ Len(turn') = Len(turn) - 1 /\ DOMAIN turn' = 1 .. Len(turn) - 1
        /\ Len(turn) > 0 /\ turn[1] = g
        /\ \A i \in DOMAIN turn' : turn'[i] = turn[i + 1]
        BY <1>1, <2>1
  <2>4. \A i \in DOMAIN turn' : i \in Nat /\ i + 1 \in DOMAIN turn /\ i + 1 # 1
        BY <1>1, <2>3
  <2>5. 1 \in DOMAIN turn
        BY <1>1, <2>3
  <2>6. \A i \in DOMAIN turn' : turn'[i] \in GroupCall \ {g}
        BY <1>1, <2>3, <2>4, <2>5 DEF LoopsOK
  <2>7. \A i \in DOMAIN turn' : job'[turn'[i]].status = "looping"
        BY <2>2, <2>3, <2>4, <2>6 DEF LoopsOK
  <2>8. \A i, j \in DOMAIN turn' : turn'[i] = turn'[j] => i = j
    <3>1. SUFFICES ASSUME NEW i \in DOMAIN turn', NEW j \in DOMAIN turn', turn'[i] = turn'[j]
                   PROVE  i = j
          OBVIOUS
    <3>2. i + 1 = j + 1
          BY <2>3, <2>4, <3>1 DEF LoopsOK
    <3>3. QED BY <2>4, <3>2
  <2>9. \A h \in GroupCall \ {g} : job[h].kind # "dispatchTo" /\ job[h].status = "looping" =>
            turn' # << >> /\ turn'[Len(turn')] = h
    <3>1. SUFFICES ASSUME NEW h \in GroupCall \ {g}, job[h].kind # "dispatchTo",
                          job[h].status = "looping"
                   PROVE  turn' # << >> /\ turn'[Len(turn')] = h
          OBVIOUS
    <3>2. turn[Len(turn)] = h
          BY <3>1 DEF LoopsOK
    <3>3. Len(turn) # 1
          BY <2>3, <3>2
    <3>4. Len(turn') \in DOMAIN turn' /\ Len(turn') + 1 = Len(turn)
          BY <1>1, <2>3, <3>3
    <3>5. QED BY <2>3, <3>2, <3>4
  <2>10. ASSUME NEW h \in GroupCall, job'[h].kind # "dispatchTo"
         PROVE  /\ job'[h].status = "looping" => turn' # << >> /\ turn'[Len(turn')] = h
                /\ job'[h].status # "idle" => job'[h].list = Members
    <3>1. CASE h = g
      <4>1. job[g].status # "idle"
            BY <2>1, <2>3, <2>5 DEF LoopsOK
      <4>2. QED BY <2>2, <2>10, <3>1, <4>1 DEF LoopsOK
    <3>2. CASE h # g
          BY <2>2, <2>9, <2>10, <3>2 DEF LoopsOK
    <3>3. QED BY <3>1, <3>2
  <2>11. QED BY <2>7, <2>8, <2>10 DEF LoopsOK
<1>9. QED BY <1>2, <1>3, <1>4, <1>5, <1>6, <1>7, <1>8 DEF GroupNext, LoopStep, CallMade

(***************************************************************************)
(* The order of broadcasts                                                 *)
(***************************************************************************)
Fresh(g) == \A p \in Pos : got[g][p] = 0

\* A step that gives nobody an event changes only calls whose loop begins.
LEMMA BroadcastsFrame ==
    ASSUME GroupOK, BroadcastsOK, UNCHANGED <<got, next>>,
           \A g \in GroupCall : Fresh(g) \/
               /\ job'[g].kind = job[g].kind /\ job'[g].list = job[g].list
               /\ \/ job'[g].status = job[g].status
                  \/ job'[g].status \notin {"idle", "scheduled", "looping"}
    PROVE  BroadcastsOK'
<1>1. ASSUME NEW g \in GroupCall, NEW p \in Pos, got[g][p] # 0
      PROVE  Begun(g)' /\ p \in DOMAIN job'[g].list /\ got[g][p] < next[Recipient(g, p)']
  <2>1. ~Fresh(g) /\ job'[g].list = job[g].list
        BY <1>1 DEF Fresh
  <2>2. Recipient(g, p)' = Recipient(g, p)
        BY <2>1 DEF Recipient
  <2>3. Begun(g) /\ p \in DOMAIN job[g].list /\ got[g][p] < next[Recipient(g, p)]
        BY <1>1 DEF BroadcastsOK
  <2>4. QED BY <2>1, <2>2, <2>3 DEF Begun
<1>2. ASSUME NEW g \in GroupCall, NEW h \in GroupCall, Dispatches(g)', Dispatches(h)', g # h
      PROVE  /\ Before(g, h) \/ Before(h, g)
             /\ job'[g].status = "looping" => Before(h, g)
  <2>1. CASE Fresh(g) \/ Fresh(h)
        BY <2>1 DEF Fresh, Before
  <2>2. CASE ~Fresh(g) /\ ~Fresh(h)
    <3>1. /\ Dispatches(g) /\ Dispatches(h)
          /\ job'[g].status = "looping" => job[g].status = "looping"
          BY <1>2, <2>2 DEF Dispatches
    <3>2. QED BY <1>2, <3>1 DEF BroadcastsOK
  <2>3. QED BY <2>1, <2>2
<1>3. \A g, h \in GroupCall : Before(g, h)' <=> Before(g, h)
      BY DEF Before
<1>4. \A g \in GroupCall, p \in Pos : got'[g][p] # 0 =>
          Begun(g)' /\ p \in DOMAIN job'[g].list /\ got'[g][p] < next'[Recipient(g, p)']
      BY <1>1
<1>5. QED BY <1>2, <1>3, <1>4 DEF BroadcastsOK

\* The event that a recipient takes is later than all it took before.
LEMMA OfferKeepsOrder ==
    ASSUME MachinesOK, GroupOK, LoopsOK, BroadcastsOK,
           NEW g \in GroupCall, NEW p \in Pos, NEW x \in Member, Offer(g, p, x)
    PROVE  BroadcastsOK'
<1>1. At(g, p, x)
      BY DEF Offer
<1>2. /\ job'[g].status = job[g].status /\ job'[g].kind = job[g].kind
      /\ job'[g].list = job[g].list
      /\ \A h \in GroupCall \ {g} : job'[h] = job[h]
      /\ turn # << >> /\ 1 \in DOMAIN turn /\ turn[1] = g
      /\ p \in DOMAIN job[g].list /\ x = Recipient(g, p)
      BY <1>1, LoopMoves
<1>3. /\ got'[g][p] = next[x] /\ next'[x] = next[x] + 1 /\ next[x] \in Nat
      /\ \A q \in Pos \ {p} : got'[g][q] = got[g][q]
      /\ \A h \in GroupCall \ {g} : got'[h] = got[h]
      /\ \A y \in Member \ {x} : next'[y] = next[y]
      BY OfferMoves DEF MachinesOK
<1>4. job[g].status = "looping"
      BY <1>2 DEF LoopsOK
<1>5. \A h \in GroupCall, q \in Pos : got[h][q] \in Nat
      BY DEF GroupOK
<1>6. \A h \in GroupCall : /\ job'[h].status = job[h].status /\ job'[h].kind = job[h].kind
                           /\ job'[h].list = job[h].list
      BY <1>2
<1>7. \A h \in GroupCall : \A q \in DOMAIN job[h].list : Recipient(h, q) \in Member
      BY DEF GroupOK, Job, Recipient
<1>8. ASSUME NEW h \in GroupCall, NEW q \in Pos, got'[h][q] # 0
      PROVE  Begun(h)' /\ q \in DOMAIN job'[h].list /\ got'[h][q] < next'[Recipient(h, q)']
  <2>1. Recipient(h, q)' = Recipient(h, q)
        BY <1>6 DEF Recipient
  <2>2. CASE h = g /\ q = p
        BY <1>2, <1>3, <1>4, <1>6, <2>1, <2>2 DEF Begun
  <2>3. CASE ~(h = g /\ q = p)
    <3>1. got'[h][q] = got[h][q]
          BY <1>3, <2>3
    <3>2. Begun(h) /\ q \in DOMAIN job[h].list /\ got[h][q] < next[Recipient(h, q)]
          BY <1>8, <3>1 DEF BroadcastsOK
    <3>3. Recipient(h, q) \in Member /\ next[Recipient(h, q)] \in Nat
          BY <1>7, <3>2 DEF MachinesOK
    <3>4. next'[Recipient(h, q)] >= next[Recipient(h, q)]
          BY <1>3, <3>3
    <3>5. got[h][q] < next'[Recipient(h, q)]
      <4>1. next'[Recipient(h, q)] \in Nat
            BY <1>3, <3>3
      <4>2. QED BY <1>5, <3>2, <3>3, <3>4, <4>1
    <3>6. QED BY <1>6, <2>1, <3>1, <3>2, <3>5 DEF Begun
  <2>4. QED BY <2>2, <2>3
\* A dispatch whose loop runs is alone, and comes after the others.
<1>9. ASSUME NEW h \in GroupCall \ {g}, Dispatches(g), Dispatches(h)
      PROVE  Before(h, g)' /\ job[h].status # "looping"
  <2>1. job[h].status # "looping"
        BY <1>4, <1>9 DEF LoopsOK, Dispatches
  <2>2. Before(h, g)
        BY <1>4, <1>9 DEF BroadcastsOK
  <2>3. ASSUME got[h][p] # 0 PROVE got[h][p] < next[x]
    <3>1. job[h].list = Members /\ job[g].list = Members
          BY <1>4, <1>9, <2>3 DEF BroadcastsOK, Begun, LoopsOK, Dispatches
    <3>2. Recipient(h, p) = x
          BY <1>2, <3>1 DEF Recipient
    <3>3. QED BY <2>3, <3>2 DEF BroadcastsOK
  <2>4. \A q \in Pos : 0 \notin {got'[h][q], got'[g][q]} => got'[h][q] < got'[g][q]
        BY <1>3, <1>9, <2>2, <2>3 DEF Before
  <2>5. QED BY <2>1, <2>4 DEF Before
<1>10. ASSUME NEW h \in GroupCall, NEW k \in GroupCall, Dispatches(h)', Dispatches(k)', h # k
       PROVE  /\ Before(h, k)' \/ Before(k, h)'
              /\ job'[h].status = "looping" => Before(k, h)'
  <2>1. Dispatches(h) /\ Dispatches(k) /\ job'[h].status = job[h].status
        BY <1>6, <1>10 DEF Dispatches
  <2>2. CASE h = g \/ k = g
        BY <1>9, <1>10, <2>1, <2>2
  <2>3. CASE h # g /\ k # g
    <3>1. /\ Before(h, k) \/ Before(k, h)
          /\ job[h].status = "looping" => Before(k, h)
          BY <1>10, <2>1 DEF BroadcastsOK
    <3>2. (Before(h, k)' <=> Before(h, k)) /\ (Before(k, h)' <=> Before(k, h))
          BY <1>3, <2>3 DEF Before
    <3>3. QED BY <2>1, <3>1, <3>2
  <2>4. QED BY <2>2, <2>3
<1>11. QED BY <1>8, <1>10 DEF BroadcastsOK

LEMMA BroadcastsKept ==
    ASSUME MachinesOK, GroupOK, LoopsOK, BroadcastsOK, GroupNext
    PROVE  BroadcastsOK'
<1>1. ASSUME NEW x \in Member, MemberStep(x) PROVE BroadcastsOK'
  <2>1. UNCHANGED <<job, got, next>>
    <3>1. CASE \/ MemberStarts(x) \/ MemberWorks(x) \/ MemberReleases(x) \/ MemberRaises(x)
               \/ MemberListens(x)
          BY <3>1 DEF MemberStarts, MemberWorks, MemberReleases, MemberRaises, MemberListens,
                      groupVars, Start, Starts, Arrives, Ends, StopEnds, Raises, Listens
    <3>2. CASE \E c \in Client : MemberRetries(x, c) \/ MemberStopped(x, c) \/ MemberRestarts(x, c)
          BY <3>2 DEF MemberRetries, MemberStopped, MemberRestarts, groupVars, StopRetry,
                      StopAsks, StopReturns, RestartStarts, RestartFails, Starts
    <3>3. QED BY <1>1, <3>1, <3>2 DEF MemberStep
  <2>2. QED BY <2>1, BroadcastsFrame
<1>2. ASSUME NEW g \in GroupCall, NEW p \in Pos, NEW x \in Member,
             Skip(g, p, x) \/ AskStop(g, p, x) \/ AskRestart(g, p, x)
      PROVE  BroadcastsOK'
  <2>1. At(g, p, x) /\ UNCHANGED <<got, next>>
        BY <1>2 DEF Skip, AskStop, AskRestart, mach, StopCall, StopAsks
  <2>2. /\ job'[g].status = job[g].status /\ job'[g].kind = job[g].kind
        /\ job'[g].list = job[g].list
        /\ \A h \in GroupCall \ {g} : job'[h] = job[h]
        BY <2>1, LoopMoves
  <2>3. QED BY <2>1, <2>2, BroadcastsFrame
<1>3. ASSUME NEW g \in GroupCall, CallMade(g) \/ Begin(g)
      PROVE  BroadcastsOK'
  <2>1. UNCHANGED <<got, next>> /\ ~Begun(g)
        BY <1>3 DEF CallMade, Schedule, DispatchTo, Begin, mach, Begun
  <2>2. Fresh(g)
        BY <2>1 DEF BroadcastsOK, Fresh
  <2>3. \A h \in GroupCall \ {g} : job'[h] = job[h]
        BY <1>3 DEF CallMade, Schedule, DispatchTo, Begin, JobBecomes, GroupOK
  <2>4. QED BY <2>1, <2>2, <2>3, BroadcastsFrame
<1>4. ASSUME NEW g \in GroupCall, LoopEnds(g) \/ Gather(g)
      PROVE  BroadcastsOK'
  <2>1. /\ UNCHANGED <<got, next>>
        /\ \E s \in {"nobody", "gathering", "failed", "ok"} : JobBecomes(g, s)
        BY <1>4 DEF LoopEnds, Gather, mach
  <2>2. /\ job'[g].status \in {"nobody", "gathering", "failed", "ok"}
        /\ job'[g].kind = job[g].kind /\ job'[g].list = job[g].list
        /\ \A h \in GroupCall \ {g} : job'[h] = job[h]
        BY <2>1, JobMoves DEF JobStatus
  <2>3. QED BY <2>1, <2>2, BroadcastsFrame
<1>5. QED BY <1>1, <1>2, <1>3, <1>4, OfferKeepsOrder DEF GroupNext, LoopStep

(***************************************************************************)
(* The part of a call for one of its recipients                            *)
(***************************************************************************)
\* A step that neither begins nor ends a stop() of c.
CallGoesOn(c) ==
    \A y \in Member :
        /\ call'[y][c].status = "idle" <=> call[y][c].status = "idle"
        /\ call'[y][c].mode = call[y][c].mode
        /\ call'[y][c].status = "stopped" => call[y][c].status = "stopped" \/ Quiet(y)'

CallIsOver(c) == \A y \in Member : call'[y][c].status = "idle"

\* What a step may do to the part of g at p.
PartStays(g, p) ==
    /\ part'[g][p] = part[g][p] /\ CallGoesOn(<<g, p>>)
    /\ part[g][p] = "starting" => owner'[Recipient(g, p)] = owner[Recipient(g, p)]

PartIsAsked(g, p) ==
    /\ part[g][p] = "none" /\ part'[g][p] = "asked"
    /\ job[g].status = "looping" /\ p \in DOMAIN job[g].list /\ p < job'[g].pos
    /\ CallOf(g, p).status = "idle"
    /\ call'[Recipient(g, p)][<<g, p>>].status \in {"waiting", "running"}
    /\ call'[Recipient(g, p)][<<g, p>>].mode = job[g].kind
    /\ \A y \in Member \ {Recipient(g, p)} : call'[y][<<g, p>>] = call[y][<<g, p>>]

PartIsRefused(g, p) ==
    /\ part[g][p] = "none" /\ part'[g][p] = "failed" /\ CallGoesOn(<<g, p>>)
    /\ job[g].status = "looping" /\ p \in DOMAIN job[g].list /\ p < job'[g].pos

PartEnds(g, p) ==
    /\ part[g][p] = "asked" /\ CallIsOver(<<g, p>>)
    /\ \/ part'[g][p] = "failed"
       \/ part'[g][p] = "done" /\ CallOf(g, p) = [status |-> "stopped", mode |-> "stop"]
       \/ /\ part'[g][p] = "starting" /\ CallOf(g, p) = [status |-> "stopped", mode |-> "restart"]
          /\ owner'[Recipient(g, p)] = Startup
          /\ starts'[Recipient(g, p)] = starts[Recipient(g, p)] + 1

PartStarted(g, p) ==
    part[g][p] = "starting" /\ part'[g][p] = "done" /\ CallGoesOn(<<g, p>>)

PartStep(g, p) ==
    PartStays(g, p) \/ PartIsAsked(g, p) \/ PartIsRefused(g, p) \/ PartEnds(g, p)
    \/ PartStarted(g, p)

LEMMA CallsAlone ==
    ASSUME UNCHANGED call, NEW c
    PROVE  CallGoesOn(c)
BY DEF CallGoesOn

\* A release wakes calls and ends none, but the one of a callback that raises.
LEMMA ReleaseGoesOn ==
    ASSUME MachinesOK, NEW x \in Member, MutexKept(x), NEW c \in Client,
           Ends(x) \/ StopEnds(x) \/ (Raises(x) /\ c # owner[x])
    PROVE  CallGoesOn(c)
<1>1. /\ Woken(x)[c].mode = call[x][c].mode
      /\ Woken(x)[c].status = IF call[x][c].status = "waiting" THEN "woken"
                                                            ELSE call[x][c].status
      /\ Woken(x) \in [Client -> Call]
      BY WokenType
<1>2. \A y \in Member \ {x} : call'[y] = call[y]
      BY DEF Ends, StopEnds, Raises, MachinesOK
<1>3. CASE Ends(x) \/ (Raises(x) /\ c # owner[x])
  <2>1. call'[x][c] = Woken(x)[c]
        BY <1>3 DEF Ends, Raises, MachinesOK
  <2>2. QED BY <1>1, <1>2, <2>1 DEF CallGoesOn
<1>4. CASE StopEnds(x)
  <2>1. /\ owner[x] \in Client /\ owner'[x] = Free /\ ~inside'[x]
        /\ call'[x] = [Woken(x) EXCEPT ![owner[x]].status = "stopped"]
        BY <1>4 DEF StopEnds, Releases, Takes, MachinesOK
  <2>2. Quiet(x)'
        BY <2>1, HolderAssumption DEF Quiet
  <2>3. call[x][owner[x]].status = "running"
        BY <2>1 DEF MutexKept
  <2>4. CASE c = owner[x]
    <3>1. call'[x][c].status = "stopped" /\ call'[x][c].mode = Woken(x)[c].mode
          BY <1>1, <2>1, <2>4 DEF Call
    <3>2. QED BY <1>1, <1>2, <2>2, <2>3, <2>4, <3>1 DEF CallGoesOn
  <2>5. CASE c # owner[x]
    <3>1. call'[x][c] = Woken(x)[c]
          BY <1>1, <2>1, <2>5
    <3>2. QED BY <1>1, <1>2, <3>1 DEF CallGoesOn
  <2>6. QED BY <2>4, <2>5
<1>5. QED BY <1>3, <1>4

\* A call of stop() leaves the other calls alone.
LEMMA OtherCallGoesOn ==
    ASSUME MachinesOK, NEW x \in Member, NEW d \in Client, NEW c \in Client, c # d,
           NEW status \in CallStatus, NEW mode \in {"stop", "restart"},
           CallIs(x, d, status, mode)
    PROVE  CallGoesOn(c)
<1>1. /\ \A e \in Client \ {d} : call'[x][e] = call[x][e]
      /\ \A y \in Member \ {x} : call'[y] = call[y]
      BY CallIsType
<1>2. \A y \in Member : call'[y][c] = call[y][c]
      BY <1>1
<1>3. QED BY <1>2 DEF CallGoesOn

LEMMA CallIsDone ==
    ASSUME MachinesOK, GroupOK, NEW g \in GroupCall, NEW p \in Pos, PartOK(g, p),
           NEW x \in Member, CallIs(x, <<g, p>>, "idle", "stop"), call[x][<<g, p>>].status # "idle"
    PROVE  CallIsOver(<<g, p>>) /\ x = Recipient(g, p) /\ part[g][p] = "asked"
<1>1. <<g, p>> \in Client
      BY GroupAssumption
<1>2. /\ call'[x][<<g, p>>] = [status |-> "idle", mode |-> "stop"]
      /\ \A y \in Member \ {x} : call'[y] = call[y]
      BY <1>1, CallIsType DEF CallStatus
<1>3. call'[x][<<g, p>>].status = "idle"
      BY <1>2
<1>4. x = Recipient(g, p) /\ part[g][p] = "asked"
      BY DEF PartOK
<1>5. \A y \in Member \ {x} : call[y][<<g, p>>].status = "idle"
      BY <1>4 DEF PartOK
<1>6. QED BY <1>2, <1>3, <1>4, <1>5 DEF CallIsOver

LEMMA MemberMovesParts ==
    ASSUME MachinesOK, GroupOK, NEW x \in Member, MutexKept(x), MemberStep(x),
           NEW g \in GroupCall, NEW p \in Pos, PartOK(g, p)
    PROVE  PartStep(g, p)
<1> DEFINE c == <<g, p>>
<1>1. c \in Client
      BY GroupAssumption
<1>2. \A d \in Client : d # Free /\ d # Startup /\ d # Process
      BY HolderAssumption
<1>3. part[g][p] = "starting" => owner[Recipient(g, p)] = Startup /\ Recipient(g, p) \in Member
      BY DEF PartOK, GroupOK, Job, Recipient
<1>4. CASE MemberStarts(x) \/ MemberWorks(x) \/ MemberListens(x)
  <2>1. UNCHANGED <<call, part>>
        BY <1>4 DEF MemberStarts, MemberWorks, MemberListens, groupVars, Start, Arrives, Listens
  <2>2. UNCHANGED owner \/ owner' = [owner EXCEPT ![x] = Startup]
        BY <1>4 DEF MemberStarts, MemberWorks, MemberListens, Start, Starts, Takes, Arrives, Listens
  <2>3. part[g][p] = "starting" => owner'[Recipient(g, p)] = owner[Recipient(g, p)]
        BY <1>3, <2>2 DEF MachinesOK
  <2>4. QED BY <2>1, <2>3, CallsAlone DEF PartStep, PartStays
<1>5. CASE MemberReleases(x) \/ (MemberRaises(x) /\ owner[x] # c)
  <2>1. CallGoesOn(c)
        BY <1>1, <1>5, ReleaseGoesOn DEF MemberReleases, MemberRaises
  <2>2. owner' = [owner EXCEPT ![x] = Free]
        BY <1>5 DEF MemberReleases, MemberRaises, Ends, StopEnds, Raises, Releases, Takes
  <2>3. part'[g][p] = IF Started(x, g, p) THEN "done" ELSE part[g][p]
    <3>1. CASE MemberReleases(x)
          BY <3>1, StartupsMove DEF MemberReleases
    <3>2. CASE MemberRaises(x) /\ owner[x] # c
          BY <3>2, RaiseMoves
    <3>3. QED BY <1>5, <3>1, <3>2
  <2>4. CASE Started(x, g, p)
        BY <2>1, <2>3, <2>4 DEF Started, PartStep, PartStarted
  <2>5. CASE ~Started(x, g, p)
    <3>1. part[g][p] = "starting" => owner'[Recipient(g, p)] = owner[Recipient(g, p)]
          BY <2>2, <2>5 DEF Started, MachinesOK
    <3>2. QED BY <2>1, <2>3, <2>5, <3>1 DEF PartStep, PartStays
  <2>6. QED BY <2>4, <2>5
<1>6. CASE MemberRaises(x) /\ owner[x] = c
  <2>1. /\ part'[g][p] = "failed"
        /\ call' = [call EXCEPT ![x] =
                        [d \in Client |-> IF d = owner[x] THEN IdleCall ELSE Woken(x)[d]]]
        BY <1>6, RaiseMoves DEF MemberRaises, Raises
  <2>2. call[x][c].status = "running"
        BY <1>1, <1>6 DEF MutexKept
  <2>3. x = Recipient(g, p) /\ part[g][p] = "asked"
        BY <2>2 DEF PartOK
  <2>4. call'[x][c].status = "idle" /\ \A y \in Member \ {x} : call'[y] = call[y]
        BY <1>1, <1>6, <2>1 DEF IdleCall, MachinesOK
  <2>5. \A y \in Member \ {x} : call[y][c].status = "idle"
        BY <2>3 DEF PartOK
  <2>6. CallIsOver(c)
        BY <2>4, <2>5 DEF CallIsOver
  <2>7. QED BY <2>1, <2>3, <2>6 DEF PartStep, PartEnds
<1>7. ASSUME NEW d \in Client, MemberRetries(x, d) PROVE PartStep(g, p)
  <2>1. /\ UNCHANGED part /\ StopAsks(x, d, call[x][d].mode) /\ call[x][d].status = "woken"
        /\ call[x][d].mode \in {"stop", "restart"}
        BY <1>7 DEF MemberRetries, groupVars, StopRetry, MachinesOK, Call
  <2>2. PICK s \in {"running", "waiting"} : CallIs(x, d, s, call[x][d].mode)
        BY <2>1 DEF StopAsks
  <2>3. UNCHANGED owner \/ (owner[x] = Free /\ owner' = [owner EXCEPT ![x] = d])
        BY <2>1 DEF StopAsks, Takes
  <2>4. part[g][p] = "starting" => owner'[Recipient(g, p)] = owner[Recipient(g, p)]
        BY <1>3, <2>3, HolderAssumption DEF MachinesOK
  <2>5. CallGoesOn(c)
    <3>1. CASE c # d
          BY <1>1, <2>1, <2>2, <3>1, OtherCallGoesOn DEF CallStatus
    <3>2. CASE c = d
      <4>1. /\ call'[x][c] = [status |-> s, mode |-> call[x][c].mode]
            /\ \A y \in Member \ {x} : call'[y] = call[y]
            BY <1>1, <2>1, <2>2, <3>2, CallIsType DEF CallStatus
      <4>2. call'[x][c].status = s /\ call'[x][c].mode = call[x][c].mode
            BY <4>1
      <4>3. QED BY <2>1, <3>2, <4>1, <4>2 DEF CallGoesOn
    <3>3. QED BY <3>1, <3>2
  <2>6. QED BY <2>1, <2>4, <2>5 DEF PartStep, PartStays
<1>8. ASSUME NEW d \in Client, MemberStopped(x, d) PROVE PartStep(g, p)
  <2>1. /\ call[x][d] = [status |-> "stopped", mode |-> "stop"]
        /\ CallIs(x, d, "idle", "stop") /\ UNCHANGED owner /\ PartIs(d, "done")
        BY <1>8 DEF MemberStopped, StopReturns
  <2>2. part'[g][p] = IF c = d THEN "done" ELSE part[g][p]
        BY <2>1, PartMoves DEF Part
  <2>3. CASE c = d
    <3>1. CallIsOver(c) /\ x = Recipient(g, p) /\ part[g][p] = "asked"
          BY <2>1, <2>3, CallIsDone
    <3>2. QED BY <2>1, <2>2, <2>3, <3>1 DEF PartStep, PartEnds, CallOf
  <2>4. CASE c # d
        BY <1>1, <2>1, <2>2, <2>4, OtherCallGoesOn DEF PartStep, PartStays, CallStatus
  <2>5. QED BY <2>3, <2>4
<1>9. ASSUME NEW d \in Client, MemberRestarts(x, d) PROVE PartStep(g, p)
  <2>1. /\ call[x][d] = [status |-> "stopped", mode |-> "restart"]
        /\ CallIs(x, d, "idle", "stop")
        BY <1>9 DEF MemberRestarts, RestartStarts, RestartFails
  <2>2. \/ /\ PartIs(d, "starting") /\ StartCounts(x)
           /\ owner[x] = Free /\ owner' = [owner EXCEPT ![x] = Startup]
        \/ PartIs(d, "failed") /\ UNCHANGED <<owner, starts>>
        BY <1>9 DEF MemberRestarts, RestartStarts, RestartFails, Starts, Takes, Startable
  <2>3. CASE c = d
    <3>1. CallIsOver(c) /\ x = Recipient(g, p) /\ part[g][p] = "asked"
          BY <2>1, <2>3, CallIsDone
    <3>2. CASE PartIs(d, "failed")
      <4>1. part'[g][p] = "failed"
            BY <2>3, <3>2, PartMoves DEF Part
      <4>2. QED BY <2>3, <3>1, <4>1 DEF PartStep, PartEnds
    <3>3. CASE PartIs(d, "starting") /\ StartCounts(x) /\ owner' = [owner EXCEPT ![x] = Startup]
      <4>1. part'[g][p] = "starting"
            BY <2>3, <3>3, PartMoves DEF Part
      <4>2. owner'[x] = Startup /\ starts'[x] = starts[x] + 1
            BY <3>3, StartMoves DEF MachinesOK
      <4>3. QED BY <2>1, <2>3, <3>1, <4>1, <4>2 DEF PartStep, PartEnds, CallOf
    <3>4. QED BY <2>2, <3>2, <3>3
  <2>4. CASE c # d
    <3>1. CallGoesOn(c)
          BY <1>1, <2>1, <2>4, OtherCallGoesOn DEF CallStatus
    <3>2. part'[g][p] = part[g][p]
          BY <2>2, <2>4, PartMoves DEF Part
    <3>3. part[g][p] = "starting" => owner'[Recipient(g, p)] = owner[Recipient(g, p)]
          BY <1>3, <2>2, HolderAssumption DEF MachinesOK
    <3>4. QED BY <3>1, <3>2, <3>3 DEF PartStep, PartStays
  <2>5. QED BY <2>3, <2>4
<1>10. QED BY <1>4, <1>5, <1>6, <1>7, <1>8, <1>9 DEF MemberStep

LEMMA LoopMovesParts ==
    ASSUME MachinesOK, GroupOK, LoopsOK,
           NEW h \in GroupCall, NEW q \in Pos, NEW x \in Member, MutexKept(x),
           Skip(h, q, x) \/ Offer(h, q, x) \/ AskStop(h, q, x) \/ AskRestart(h, q, x),
           NEW g \in GroupCall, NEW p \in Pos, PartOK(g, p)
    PROVE  PartStep(g, p)
<1> DEFINE c == <<g, p>>
           d == <<h, q>>
<1>1. c \in Client /\ d \in Client
      BY GroupAssumption
<1>2. /\ turn # << >> /\ 1 \in DOMAIN turn /\ turn[1] = h
      /\ q \in DOMAIN job[h].list /\ x = Recipient(h, q)
      /\ q = job[h].pos /\ job'[h].pos = job[h].pos + 1 /\ q \in Nat
  <2>1. At(h, q, x)
        BY DEF Skip, Offer, AskStop, AskRestart
  <2>2. q \in Nat
        BY GroupAssumption DEF Pos
  <2>3. QED BY <2>1, <2>2, LoopMoves
<1>3. job[h].status = "looping"
      BY <1>2 DEF LoopsOK
<1>4. part[g][p] = "starting" => owner[Recipient(g, p)] = Startup /\ Recipient(g, p) \in Member
      BY DEF PartOK, GroupOK, Job, Recipient
<1>5. Free # Startup
      BY HolderAssumption
<1>6. CASE Skip(h, q, x) \/ Offer(h, q, x)
  <2>1. UNCHANGED <<part, call>>
        BY <1>6 DEF Skip, Offer, Take, mach
  <2>2. \/ UNCHANGED owner
        \/ owner[x] = Free /\ owner' = [owner EXCEPT ![x] = Process]
        BY <1>6 DEF Skip, Offer, Take, mach
  <2>3. part[g][p] = "starting" => owner'[Recipient(g, p)] = owner[Recipient(g, p)]
        BY <1>4, <1>5, <2>2 DEF MachinesOK
  <2>4. QED BY <2>1, <2>3, CallsAlone DEF PartStep, PartStays
<1>7. ASSUME NEW m \in {"stop", "restart"}, StopCall(x, d, m), PartIs(d, "asked"), job[h].kind = m
      PROVE  PartStep(g, p)
  <2>1. call[x][d].status = "idle" /\ StopAsks(x, d, m)
        BY <1>7 DEF StopCall
  <2>2. PICK s \in {"running", "waiting"} : CallIs(x, d, s, m)
        BY <2>1 DEF StopAsks
  <2>3. part'[g][p] = IF c = d THEN "asked" ELSE part[g][p]
        BY <1>1, <1>7, PartMoves DEF Part
  <2>4. CASE c = d
    <3>1. g = h /\ p = q
          BY <2>4
    <3>2. part[g][p] = "none"
          BY <1>2, <3>1 DEF PartOK
    <3>3. /\ call'[x][c] = [status |-> s, mode |-> m]
          /\ \A y \in Member \ {x} : call'[y] = call[y]
          BY <1>1, <2>2, <2>4, CallIsType DEF CallStatus
    <3>4. call'[x][c].status = s /\ call'[x][c].mode = m
          BY <3>3
    <3>5. p < job'[g].pos
          BY <1>2, <3>1
    <3>6. QED BY <1>2, <1>3, <1>7, <2>1, <2>3, <2>4, <3>1, <3>2, <3>3, <3>4, <3>5
              DEF PartStep, PartIsAsked, CallOf
  <2>5. CASE c # d
    <3>1. CallGoesOn(c)
          BY <1>1, <2>2, <2>5, OtherCallGoesOn DEF CallStatus
    <3>2. UNCHANGED owner \/ (owner[x] = Free /\ owner' = [owner EXCEPT ![x] = d])
          BY <2>1 DEF StopAsks, Takes
    <3>3. part[g][p] = "starting" => owner'[Recipient(g, p)] = owner[Recipient(g, p)]
          BY <1>4, <1>5, <3>2 DEF MachinesOK
    <3>4. QED BY <2>3, <2>5, <3>1, <3>3 DEF PartStep, PartStays
  <2>6. QED BY <2>4, <2>5
<1>8. CASE PartIs(d, "failed") /\ UNCHANGED mach
  <2>1. part'[g][p] = IF c = d THEN "failed" ELSE part[g][p]
        BY <1>1, <1>8, PartMoves DEF Part
  <2>2. CallGoesOn(c) /\ UNCHANGED owner
        BY <1>8, CallsAlone DEF mach
  <2>3. CASE c = d
    <3>1. g = h /\ p = q
          BY <2>3
    <3>2. part[g][p] = "none" /\ p < job'[g].pos
          BY <1>2, <3>1 DEF PartOK
    <3>3. QED BY <1>2, <1>3, <2>1, <2>2, <2>3, <3>1, <3>2 DEF PartStep, PartIsRefused
  <2>4. CASE c # d
        BY <2>1, <2>2, <2>4 DEF PartStep, PartStays
  <2>5. QED BY <2>3, <2>4
<1>9. CASE AskStop(h, q, x)
      BY <1>7, <1>9 DEF AskStop
<1>10. CASE AskRestart(h, q, x)
      BY <1>7, <1>8, <1>10 DEF AskRestart
<1>11. QED BY <1>6, <1>9, <1>10

LEMMA GroupMovesParts ==
    ASSUME MachinesOK, MachinesInv, GroupOK, LoopsOK, GroupNext,
           NEW g \in GroupCall, NEW p \in Pos, PartOK(g, p)
    PROVE  PartStep(g, p)
<1>1. ASSUME NEW x \in Member, MemberStep(x) PROVE PartStep(g, p)
      BY <1>1, MemberMovesParts DEF MachinesInv
<1>2. ASSUME NEW h \in GroupCall, NEW q \in Pos, NEW x \in Member,
             Skip(h, q, x) \/ Offer(h, q, x) \/ AskStop(h, q, x) \/ AskRestart(h, q, x)
      PROVE  PartStep(g, p)
      BY <1>2, LoopMovesParts DEF MachinesInv
<1>3. ASSUME NEW h \in GroupCall, CallMade(h) \/ Begin(h) \/ LoopEnds(h) \/ Gather(h)
      PROVE  PartStep(g, p)
  <2>1. UNCHANGED <<part, mach>>
        BY <1>3 DEF CallMade, Schedule, DispatchTo, Begin, LoopEnds, Gather
  <2>2. UNCHANGED <<part, owner, call>>
        BY <2>1 DEF mach
  <2>3. QED BY <2>2, CallsAlone DEF PartStep, PartStays
<1>4. QED BY <1>1, <1>2, <1>3 DEF GroupNext, LoopStep

\* A call that has begun keeps its kind and its recipients.
LEMMA BegunStays ==
    ASSUME GroupOK, GroupNext, NEW g \in GroupCall, Begun(g)
    PROVE  /\ Begun(g)' /\ job'[g].kind = job[g].kind /\ job'[g].list = job[g].list
           /\ job[g].pos <= job'[g].pos /\ since'[g] = since[g]
<1>1. job[g].pos \in Nat
      BY DEF GroupOK, Job
<1>2. CASE job'[g] = job[g] /\ since'[g] = since[g]
      BY <1>1, <1>2 DEF Begun
<1>3. ASSUME NEW x \in Member, MemberStep(x) PROVE UNCHANGED <<job, since>>
      BY <1>3 DEF MemberStep, MemberStarts, MemberWorks, MemberReleases, MemberRaises,
                  MemberListens, MemberRetries, MemberStopped, MemberRestarts, groupVars
<1>4. ASSUME NEW h \in GroupCall, NEW p \in Pos, NEW x \in Member, At(h, p, x), UNCHANGED since
      PROVE  /\ Begun(g)' /\ job'[g].kind = job[g].kind /\ job'[g].list = job[g].list
             /\ job[g].pos <= job'[g].pos /\ since'[g] = since[g]
  <2>1. /\ job'[h].status = job[h].status /\ job'[h].pos = job[h].pos + 1
        /\ job'[h].kind = job[h].kind /\ job'[h].list = job[h].list
        /\ \A k \in GroupCall \ {h} : job'[k] = job[k]
        BY <1>4, LoopMoves
  <2>2. QED BY <1>1, <1>2, <1>4, <2>1 DEF Begun
<1>5. ASSUME NEW h \in GroupCall, UNCHANGED since,
             NEW s \in JobStatus \ {"idle", "scheduled"}, JobBecomes(h, s)
      PROVE  /\ Begun(g)' /\ job'[g].kind = job[g].kind /\ job'[g].list = job[g].list
             /\ job[g].pos <= job'[g].pos /\ since'[g] = since[g]
  <2>1. /\ job'[h].status = s /\ job'[h].pos = job[h].pos
        /\ job'[h].kind = job[h].kind /\ job'[h].list = job[h].list
        /\ \A k \in GroupCall \ {h} : job'[k] = job[k]
        BY <1>5, JobMoves
  <2>2. QED BY <1>1, <1>2, <1>5, <2>1 DEF Begun
<1>6. ASSUME NEW h \in GroupCall, CallMade(h) \/ Begin(h)
      PROVE  job'[g] = job[g] /\ since'[g] = since[g]
  <2>1. h # g
        BY <1>6 DEF CallMade, Schedule, DispatchTo, Begin, Begun
  <2>2. QED BY <1>6, <2>1 DEF CallMade, Schedule, DispatchTo, Begin, JobBecomes, GroupOK
<1>7. ASSUME NEW h \in GroupCall, LoopEnds(h) \/ Gather(h)
      PROVE  UNCHANGED since /\ \E s \in JobStatus \ {"idle", "scheduled"} : JobBecomes(h, s)
      BY <1>7 DEF LoopEnds, Gather, JobStatus
<1>8. ASSUME NEW h \in GroupCall, NEW p \in Pos, NEW x \in Member,
             Skip(h, p, x) \/ Offer(h, p, x) \/ AskStop(h, p, x) \/ AskRestart(h, p, x)
      PROVE  At(h, p, x) /\ UNCHANGED since
      BY <1>8 DEF Skip, Offer, AskStop, AskRestart
<1>9. QED BY <1>2, <1>3, <1>4, <1>5, <1>6, <1>7, <1>8 DEF GroupNext, LoopStep

LEMMA PartsKept ==
    ASSUME MachinesOK, GroupOK, GroupNext,
           NEW g \in GroupCall, NEW p \in Pos, PartOK(g, p), PartStep(g, p)
    PROVE  PartOK(g, p)'
<1>1. Begun(g) => /\ Begun(g)' /\ job'[g].kind = job[g].kind /\ job'[g].list = job[g].list
                  /\ job[g].pos <= job'[g].pos /\ job[g].pos \in Nat /\ job'[g].pos \in Nat
                  /\ Recipient(g, p)' = Recipient(g, p)
  <2>1. GroupOK'
        BY GroupTypes
  <2>2. QED BY <2>1, BegunStays DEF GroupOK, Job, Recipient
<1>2. job[g].status = "looping" => Begun(g)
      BY DEF Begun
<1>3. p \in Nat
      BY GroupAssumption DEF Pos
<1>4. CASE PartStays(g, p)
  <2>1. CASE part[g][p] = "none"
        BY <1>4, <2>1 DEF PartStays, CallGoesOn, PartOK
  <2>2. CASE part[g][p] # "none"
    <3>1. /\ Begun(g) /\ p \in DOMAIN job[g].list /\ p < job[g].pos
          /\ Recipient(g, p) \in Member
          BY <2>2 DEF PartOK, GroupOK, Job, Recipient
    <3>2. p < job'[g].pos
          BY <1>1, <1>3, <3>1
    <3>3. QED BY <1>1, <1>4, <3>1, <3>2 DEF PartStays, CallGoesOn, PartOK, CallOf
  <2>3. QED BY <2>1, <2>2
<1>5. CASE PartIsAsked(g, p)
      BY <1>1, <1>2, <1>5 DEF PartIsAsked, PartOK, CallOf
<1>6. CASE PartIsRefused(g, p)
      BY <1>1, <1>2, <1>6 DEF PartIsRefused, PartOK, CallGoesOn
<1>7. CASE PartEnds(g, p)
  <2>1. /\ Begun(g) /\ p \in DOMAIN job[g].list /\ p < job[g].pos
        /\ Recipient(g, p) \in Member
        BY <1>7 DEF PartEnds, PartOK, GroupOK, Job, Recipient
  <2>2. p < job'[g].pos
        BY <1>1, <1>3, <2>1
  <2>3. part'[g][p] = "starting" => job[g].kind = "restart" /\ owner'[Recipient(g, p)] = Startup
        BY <1>7, <2>1 DEF PartEnds, PartOK, CallOf
  <2>4. QED BY <1>1, <1>7, <2>1, <2>2, <2>3 DEF PartEnds, PartOK, CallIsOver
<1>8. CASE PartStarted(g, p)
  <2>1. Begun(g) /\ p \in DOMAIN job[g].list /\ p < job[g].pos
        BY <1>8 DEF PartStarted, PartOK
  <2>2. p < job'[g].pos
        BY <1>1, <1>3, <2>1
  <2>3. QED BY <1>1, <1>8, <2>1, <2>2 DEF PartStarted, PartOK, CallGoesOn
<1>9. QED BY <1>4, <1>5, <1>6, <1>7, <1>8 DEF PartStep

(***************************************************************************)
(* What the calls have achieved                                            *)
(***************************************************************************)
SinceOK == \A g \in GroupCall, x \in Member : since[g][x] <= starts[x]

LEMMA StartsGrow ==
    ASSUME GroupOK, GroupNext, NEW x \in Member
    PROVE  starts[x] <= starts'[x] /\ starts[x] \in Nat /\ starts'[x] \in Nat
<1>1. starts[x] \in Nat
      BY DEF GroupOK
<1>2. CASE UNCHANGED starts
      BY <1>1, <1>2
<1>3. ASSUME NEW y \in Member, StartCounts(y) PROVE starts[x] <= starts'[x] /\ starts'[x] \in Nat
      BY <1>3, StartMoves
<1>4. ASSUME NEW y \in Member, MemberStep(y) PROVE UNCHANGED starts \/ StartCounts(y)
      BY <1>4 DEF MemberStep, MemberStarts, MemberWorks, MemberReleases, MemberRaises,
                  MemberListens, MemberRetries, MemberStopped, MemberRestarts
<1>5. ASSUME NEW g \in GroupCall, CallMade(g) \/ Begin(g) \/ LoopStep(g) \/ Gather(g)
      PROVE  UNCHANGED starts
      BY <1>5 DEF CallMade, Schedule, DispatchTo, Begin, LoopStep, Skip, Offer, AskStop,
                  AskRestart, LoopEnds, Gather
<1>6. QED BY <1>1, <1>2, <1>3, <1>4, <1>5 DEF GroupNext

LEMMA SinceKept ==
    ASSUME GroupOK, SinceOK, GroupNext
    PROVE  SinceOK'
<1> SUFFICES ASSUME NEW g \in GroupCall, NEW x \in Member PROVE since'[g][x] <= starts'[x]
    BY DEF SinceOK
<1>1. starts[x] <= starts'[x] /\ starts[x] \in Nat /\ starts'[x] \in Nat
      BY StartsGrow
<1>2. since[g][x] <= starts[x] /\ since[g][x] \in Nat
      BY DEF SinceOK, GroupOK
<1>3. since'[g] = since[g] \/ since'[g] = starts
  <2>1. ASSUME NEW y \in Member, MemberStep(y) PROVE UNCHANGED since
        BY <2>1 DEF MemberStep, MemberStarts, MemberWorks, MemberReleases, MemberRaises,
                    MemberListens, MemberRetries, MemberStopped, MemberRestarts, groupVars
  <2>2. ASSUME NEW h \in GroupCall, LoopStep(h) \/ Gather(h) PROVE UNCHANGED since
        BY <2>2 DEF LoopStep, Skip, Offer, AskStop, AskRestart, LoopEnds, Gather
  <2>3. ASSUME NEW h \in GroupCall, CallMade(h) \/ Begin(h)
        PROVE  UNCHANGED since \/ since' = [since EXCEPT ![h] = starts]
        BY <2>3 DEF CallMade, Schedule, DispatchTo, Begin
  <2>4. QED BY <2>1, <2>2, <2>3 DEF GroupNext, GroupOK
<1>4. QED BY <1>1, <1>2, <1>3

\* A machine that nobody works on is started before it enters a state.
LEMMA QuietStays ==
    ASSUME MachinesOK, GroupOK, GroupNext, NEW x \in Member, Quiet(x)
    PROVE  Quiet(x)' \/ starts'[x] = starts[x] + 1
<1>1. ASSUME NEW y \in Member, y # x, MachineStep(y) PROVE Quiet(x)'
      BY <1>1, OthersAlone DEF Quiet
<1>2. \A d \in Client : d # Startup /\ d # Process
      BY HolderAssumption
<1>3. Free # Startup /\ Free # Process
      BY HolderAssumption
<1>4. UNCHANGED mach => Quiet(x)'
      BY DEF mach, Quiet
<1>5. ASSUME NEW y \in Member, MemberStep(y) PROVE Quiet(x)' \/ starts'[x] = starts[x] + 1
  <2>1. CASE y # x
    <3>1. MachineStep(y)
          BY <1>5 DEF MemberStep, MemberStarts, MemberWorks, MemberReleases, MemberRaises,
                      MemberListens, MemberRetries, MemberStopped, MemberRestarts,
                      MachineStep, CallStep
    <3>2. QED BY <1>1, <2>1, <3>1
  <2>2. CASE y = x
    <3>1. CASE MemberStarts(x)
          BY <3>1, StartMoves DEF MemberStarts
    <3>2. CASE MemberWorks(x)
          BY <3>2 DEF MemberWorks, Arrives, Quiet
    <3>3. CASE MemberReleases(x) \/ MemberRaises(x)
      <4>1. owner' = [owner EXCEPT ![x] = Free]
            /\ (UNCHANGED inside \/ inside' = [inside EXCEPT ![x] = FALSE])
            BY <3>3 DEF MemberReleases, MemberRaises, Ends, StopEnds, Raises, Releases, Takes
      <4>2. QED BY <1>3, <4>1 DEF Quiet, MachinesOK
    <3>4. CASE MemberListens(x)
          BY <3>4 DEF MemberListens, Listens, Quiet
    <3>5. ASSUME NEW d \in Client, MemberRetries(x, d) PROVE Quiet(x)'
      <4>1. UNCHANGED inside /\ (UNCHANGED owner \/ owner' = [owner EXCEPT ![x] = d])
            BY <3>5 DEF MemberRetries, StopRetry, StopAsks, Takes
      <4>2. QED BY <1>2, <4>1 DEF Quiet, MachinesOK
    <3>6. ASSUME NEW d \in Client, MemberStopped(x, d) PROVE Quiet(x)'
          BY <3>6 DEF MemberStopped, StopReturns, Quiet
    <3>7. ASSUME NEW d \in Client, MemberRestarts(x, d)
          PROVE  Quiet(x)' \/ starts'[x] = starts[x] + 1
      <4>1. StartCounts(x) \/ UNCHANGED <<owner, inside>>
            BY <3>7 DEF MemberRestarts, RestartFails
      <4>2. QED BY <4>1, StartMoves DEF Quiet
    <3>8. QED BY <1>5, <2>2, <3>1, <3>2, <3>3, <3>4, <3>5, <3>6, <3>7 DEF MemberStep
  <2>3. QED BY <2>1, <2>2
<1>6. ASSUME NEW g \in GroupCall, NEW p \in Pos, NEW y \in Member,
             Skip(g, p, y) \/ Offer(g, p, y) \/ AskStop(g, p, y) \/ AskRestart(g, p, y)
      PROVE  Quiet(x)'
  <2>1. <<g, p>> \in Client
        BY GroupAssumption
  <2>2. CASE Offer(g, p, y)
    <3>1. Take(y) /\ y # x
          BY <2>2 DEF Offer, Quiet
    <3>2. QED BY <1>1, <3>1 DEF MachineStep
  <2>3. ASSUME NEW m, StopCall(y, <<g, p>>, m) PROVE Quiet(x)'
    <3>1. UNCHANGED inside /\ (UNCHANGED owner \/ owner' = [owner EXCEPT ![y] = <<g, p>>])
          BY <2>3 DEF StopCall, StopAsks, Takes
    <3>2. QED BY <1>2, <2>1, <3>1 DEF Quiet, MachinesOK
  <2>4. \/ Offer(g, p, y) \/ UNCHANGED mach
        \/ \E m \in {"stop", "restart"} : StopCall(y, <<g, p>>, m)
        BY <1>6 DEF Skip, AskStop, AskRestart
  <2>5. QED BY <1>4, <2>2, <2>3, <2>4
<1>7. ASSUME NEW g \in GroupCall, CallMade(g) \/ Begin(g) \/ LoopEnds(g) \/ Gather(g)
      PROVE  UNCHANGED mach
      BY <1>7 DEF CallMade, Schedule, DispatchTo, Begin, LoopEnds, Gather
<1>8. QED BY <1>4, <1>5, <1>6, <1>7 DEF GroupNext, LoopStep

LEMMA OutStays ==
    ASSUME MachinesOK, GroupOK, SinceOK, GroupNext, NEW g \in GroupCall, Begun(g),
           NEW x \in Member
    PROVE  /\ StartedSince(g, x) => StartedSince(g, x)'
           /\ starts'[x] = starts[x] + 1 => StartedSince(g, x)'
           /\ Out(g, x) => Out(g, x)'
<1>1. starts[x] <= starts'[x] /\ starts[x] \in Nat /\ starts'[x] \in Nat
      BY StartsGrow
<1>2. since'[g] = since[g] /\ since[g][x] \in Nat /\ since[g][x] <= starts[x]
      BY BegunStays DEF GroupOK, SinceOK
<1>3. StartedSince(g, x) => StartedSince(g, x)'
      BY <1>1, <1>2 DEF StartedSince
<1>4. starts'[x] = starts[x] + 1 => StartedSince(g, x)'
      BY <1>1, <1>2 DEF StartedSince
<1>5. Quiet(x) => Quiet(x)' \/ starts'[x] = starts[x] + 1
      BY QuietStays
<1>6. QED BY <1>3, <1>4, <1>5 DEF Out

LEMMA OutcomesKept ==
    ASSUME MachinesOK, GroupOK, SinceOK, GroupNext, NEW g \in GroupCall, NEW p \in Pos,
           PartOK(g, p), OutcomeOK(g, p), PartStep(g, p)
    PROVE  OutcomeOK(g, p)'
<1> DEFINE c == <<g, p>>
<1>3. PICK r : r = Recipient(g, p)
      OBVIOUS
<1>1. CASE ~Begun(g)
  <2>1. part[g][p] = "none" /\ job[g].status # "looping"
        BY <1>1 DEF PartOK, Begun
  <2>2. part'[g][p] = "none"
        BY <2>1 DEF PartStep, PartStays, PartIsAsked, PartIsRefused, PartEnds, PartStarted
  <2>3. QED BY <2>2 DEF OutcomeOK
<1>2. CASE Begun(g)
  <2>1. job'[g].kind = job[g].kind /\ Recipient(g, p)' = r /\ CallOf(g, p)' = call'[r][c]
        BY <1>2, <1>3, BegunStays DEF Recipient, CallOf
  <2>2. part[g][p] # "none" => r \in Member
        BY <1>3 DEF PartOK, GroupOK, Job, Recipient
  <2>3. r \in Member => /\ StartedSince(g, r) => StartedSince(g, r)'
                        /\ starts'[r] = starts[r] + 1 => StartedSince(g, r)'
                        /\ Out(g, r) => Out(g, r)'
        BY <1>2, OutStays
  <2>4. OutcomeOK(g, p)' <=>
            /\ job[g].kind = "stop" /\ part'[g][p] = "done" => Out(g, r)'
            /\ job[g].kind = "stop" /\ part'[g][p] = "asked" /\ call'[r][c].status = "stopped" =>
                   Out(g, r)'
            /\ job[g].kind = "restart" /\ part'[g][p] \in {"starting", "done"} =>
                   StartedSince(g, r)'
        BY <2>1 DEF OutcomeOK, Out, Quiet, StartedSince
  <2>5. part'[g][p] \in {"none", "failed"} => OutcomeOK(g, p)'
        BY <2>4
  <2>6. Quiet(r)' => Out(g, r)'
        BY DEF Out
  <2> HIDE DEF c
  <2>7. CASE PartStays(g, p)
    <3>1. part'[g][p] = part[g][p] /\ CallGoesOn(c)
          BY <2>7 DEF PartStays, c
    <3>2. r \in Member /\ call'[r][c].status = "stopped" =>
              call[r][c].status = "stopped" \/ Quiet(r)'
          BY <3>1 DEF CallGoesOn
    <3>3. QED BY <1>3, <2>2, <2>3, <2>4, <2>5, <2>6, <3>1, <3>2 DEF OutcomeOK, CallOf, c
  <2>8. CASE PartIsAsked(g, p) \/ PartIsRefused(g, p)
        BY <1>3, <2>4, <2>8 DEF PartIsAsked, PartIsRefused, c
  <2>9. CASE PartEnds(g, p)
    <3>1. r \in Member /\ part[g][p] = "asked" /\ call[r][c].mode = job[g].kind
          BY <1>3, <2>2, <2>9 DEF PartEnds, PartOK, CallOf, c
    <3>2. CASE part'[g][p] = "failed"
          BY <2>5, <3>2
    <3>3. CASE part'[g][p] = "done" /\ call[r][c] = [status |-> "stopped", mode |-> "stop"]
      <4>1. job[g].kind = "stop" /\ call[r][c].status = "stopped"
            BY <3>1, <3>3
      <4>2. Out(g, r)
            BY <1>3, <3>1, <4>1 DEF OutcomeOK, CallOf, c
      <4>3. QED BY <2>3, <2>4, <3>1, <3>3, <4>1, <4>2
    <3>4. CASE /\ part'[g][p] = "starting"
               /\ call[r][c] = [status |-> "stopped", mode |-> "restart"]
               /\ starts'[r] = starts[r] + 1
          BY <2>3, <2>4, <3>1, <3>4
    <3>5. QED BY <1>3, <2>9, <3>2, <3>3, <3>4 DEF PartEnds, CallOf, c
  <2>10. CASE PartStarted(g, p)
    <3>1. part[g][p] = "starting" /\ part'[g][p] = "done" /\ job[g].kind = "restart"
          BY <2>10 DEF PartStarted, PartOK
    <3>2. StartedSince(g, r)
          BY <1>3, <3>1 DEF OutcomeOK
    <3>3. QED BY <2>2, <2>3, <2>4, <3>1, <3>2
  <2>11. QED BY <2>7, <2>8, <2>9, <2>10 DEF PartStep
<1>4. QED BY <1>1, <1>2

(***************************************************************************)
(* The inductive invariant, whole                                          *)
(***************************************************************************)
\* The recipients of a call are no more than the members.
ListsOK == \A g \in GroupCall : DOMAIN job[g].list \subseteq Pos

LEMMA ListsKept ==
    ASSUME GroupOK, ListsOK, GroupNext
    PROVE  ListsOK'
<1> SUFFICES ASSUME NEW g \in GroupCall PROVE DOMAIN job'[g].list \subseteq Pos
    BY DEF ListsOK
<1>1. CASE Begun(g)
      BY <1>1, BegunStays DEF ListsOK
<1>2. ASSUME NEW h \in GroupCall, CallMade(h) PROVE DOMAIN job'[g].list \subseteq Pos
  <2>1. ASSUME NEW kind, Schedule(h, kind) PROVE DOMAIN job'[g].list \subseteq Pos
    <3>1. job'[g] = job[g] \/ job'[g].list = Members
          BY <2>1 DEF Schedule, GroupOK
    <3>2. QED BY <3>1 DEF ListsOK, Pos
  <2>2. ASSUME NEW n \in 0 .. Len(Members), NEW list \in [1 .. n -> Member], DispatchTo(h, list)
        PROVE  DOMAIN job'[g].list \subseteq Pos
    <3>1. job'[g] = job[g] \/ job'[g].list = list
          BY <2>2 DEF DispatchTo, GroupOK
    <3>2. Pos = 1 .. Len(Members) /\ Len(Members) \in Nat
          BY GroupAssumption DEF Pos
    <3>3. DOMAIN list \subseteq Pos
          BY <3>2
    <3>4. QED BY <3>1, <3>3 DEF ListsOK
  <2>3. QED BY <1>2, <2>1, <2>2 DEF CallMade
<1>3. ASSUME NEW x \in Member, MemberStep(x) PROVE UNCHANGED job
      BY <1>3 DEF MemberStep, MemberStarts, MemberWorks, MemberReleases, MemberRaises,
                  MemberListens, MemberRetries, MemberStopped, MemberRestarts, groupVars
<1>4. ASSUME NEW h \in GroupCall, Begin(h) PROVE job'[g].list = job[g].list
  <2>1. JobBecomes(h, "looping")
        BY <1>4 DEF Begin
  <2>2. /\ job'[h].list = job[h].list
        /\ \A k \in GroupCall \ {h} : job'[k] = job[k]
        BY <2>1, JobMoves DEF JobStatus
  <2>3. QED BY <2>2
<1>5. ASSUME NEW h \in GroupCall, LoopEnds(h) \/ Gather(h) PROVE job'[g].list = job[g].list
  <2>1. \E s \in JobStatus : JobBecomes(h, s)
        BY <1>5 DEF LoopEnds, Gather, JobStatus
  <2>2. /\ job'[h].list = job[h].list
        /\ \A k \in GroupCall \ {h} : job'[k] = job[k]
        BY <2>1, JobMoves
  <2>3. QED BY <2>2
<1>6. ASSUME NEW h \in GroupCall, NEW p \in Pos, NEW x \in Member,
             Skip(h, p, x) \/ Offer(h, p, x) \/ AskStop(h, p, x) \/ AskRestart(h, p, x)
      PROVE  job'[g].list = job[g].list
  <2>1. At(h, p, x)
        BY <1>6 DEF Skip, Offer, AskStop, AskRestart
  <2>2. /\ job'[h].list = job[h].list
        /\ \A k \in GroupCall \ {h} : job'[k] = job[k]
        BY <2>1, LoopMoves
  <2>3. QED BY <2>2
<1>7. QED BY <1>2, <1>3, <1>4, <1>5, <1>6 DEF GroupNext, LoopStep, ListsOK

GroupInv ==
    /\ LoopsOK /\ BroadcastsOK /\ ListsOK /\ SinceOK
    /\ \A g \in GroupCall, p \in Pos : PartOK(g, p) /\ OutcomeOK(g, p)

LEMMA GroupInvKept ==
    ASSUME MachinesOK, GroupOK, MachinesInv, GroupInv, [GroupNext]_allVars
    PROVE  GroupInv'
<1>1. /\ LoopsOK /\ BroadcastsOK /\ ListsOK /\ SinceOK
      /\ \A g \in GroupCall, p \in Pos : PartOK(g, p) /\ OutcomeOK(g, p)
      BY DEF GroupInv
<1>2. CASE GroupNext
  <2>1. LoopsOK' /\ BroadcastsOK' /\ ListsOK' /\ SinceOK'
        BY <1>1, <1>2, LoopsKept, BroadcastsKept, ListsKept, SinceKept
  <2>2. ASSUME NEW g \in GroupCall, NEW p \in Pos PROVE (PartOK(g, p) /\ OutcomeOK(g, p))'
    <3>1. PartOK(g, p) /\ OutcomeOK(g, p)
          BY <1>1
    <3>2. PartStep(g, p)
          BY <1>1, <1>2, <3>1, GroupMovesParts
    <3>3. QED BY <1>1, <1>2, <3>1, <3>2, PartsKept, OutcomesKept
  <2>3. QED BY <2>1, <2>2 DEF GroupInv
<1>3. CASE UNCHANGED allVars
  <2>1. UNCHANGED <<owner, inside, next, call, job, part, got, turn, starts, since>>
        BY <1>3 DEF allVars, groupVars, mach
  <2>2. LoopsOK' /\ BroadcastsOK' /\ ListsOK' /\ SinceOK'
        BY <1>1, <2>1, LoopsFrame, BroadcastsFrame DEF SinceOK, ListsOK, GroupOK
  <2>3. ASSUME NEW g \in GroupCall, NEW p \in Pos PROVE (PartOK(g, p) /\ OutcomeOK(g, p))'
        BY <1>1, <2>1 DEF PartOK, OutcomeOK, Begun, CallOf, Recipient, Out, Quiet, StartedSince
  <2>4. QED BY <2>2, <2>3 DEF GroupInv
<1>4. QED BY <1>2, <1>3

(***************************************************************************)
(* HsmGroup: the stack of loops, the order of broadcasts, and what has     *)
(* become of each part of a call: whether its recipient's stop() still     *)
(* goes on, and what was stopped or started since the call began.          *)
(***************************************************************************)
THEOREM GroupKeeps == GroupSpec => []((MachinesOK /\ GroupOK) /\ MachinesInv /\ GroupInv)
<1>1. GroupInit => GroupInv
  <2> SUFFICES ASSUME GroupInit PROVE GroupInv
      OBVIOUS
  <2>1. /\ \A g \in GroupCall : job[g].status = "idle" /\ job[g].list = << >>
        /\ \A g \in GroupCall, p \in Pos : part[g][p] = "none" /\ got[g][p] = 0
        /\ \A g \in GroupCall, x \in Member : since[g][x] = 0 /\ starts[x] = 0
        /\ DOMAIN turn = {}
        BY DEF GroupInit
  <2>2. \A g \in GroupCall, p \in Pos : \A x \in Member : call[x][<<g, p>>].status = "idle"
    <3>1. \A x \in Member, c \in Client : call[x][c].status = "idle"
          BY DEF GroupInit, MachinesInit, IdleCall
    <3>2. \A g \in GroupCall, p \in Pos : <<g, p>> \in Client
          BY GroupAssumption
    <3>3. QED BY <3>1, <3>2
  <2>3. LoopsOK /\ BroadcastsOK /\ ListsOK /\ SinceOK
        BY <2>1 DEF LoopsOK, BroadcastsOK, Before, ListsOK, SinceOK
  <2>4. ASSUME NEW g \in GroupCall, NEW p \in Pos PROVE PartOK(g, p) /\ OutcomeOK(g, p)
        BY <2>1, <2>2 DEF PartOK, OutcomeOK
  <2>5. QED BY <2>3, <2>4 DEF GroupInv
<1>2. MachinesOK /\ GroupOK /\ MachinesInv /\ GroupInv /\ [GroupNext]_allVars => GroupInv'
      BY GroupInvKept
<1>3. QED BY <1>1, <1>2, GroupTyped, GroupDrivesMachines, MachinesKeepTheMutex, PTL DEF GroupSpec

(***************************************************************************)
(* HsmGroup, Group.dispatch: any two broadcasts of a group reach the       *)
(* members they share in the same order, whatever the callbacks of the     *)
(* members call meanwhile.                                                 *)
(***************************************************************************)
THEOREM BroadcastsInOrder == GroupSpec => []BroadcastOrder
<1>1. GroupOK /\ GroupInv => BroadcastOrder
  <2> SUFFICES ASSUME GroupOK, BroadcastsOK, NEW g \in GroupCall, NEW h \in GroupCall,
                      job[g].kind = "dispatch", job[h].kind = "dispatch",
                      NEW p \in Pos, NEW q \in Pos,
                      0 \notin {got[g][p], got[g][q], got[h][p], got[h][q]}
               PROVE  got[g][p] < got[h][p] <=> got[g][q] < got[h][q]
      BY DEF BroadcastOrder, GroupInv
  <2>1. /\ got[g][p] \in Nat /\ got[g][q] \in Nat
        /\ got[h][p] \in Nat /\ got[h][q] \in Nat
        BY DEF GroupOK
  <2>2. CASE g = h
        BY <2>1, <2>2
  <2>3. CASE g # h
    <3>1. Before(g, h) \/ Before(h, g)
          BY <2>3 DEF BroadcastsOK, Dispatches
    <3>2. QED BY <2>1, <3>1 DEF Before
  <2>4. QED BY <2>2, <2>3
<1>2. QED BY <1>1, GroupKeeps, PTL

(***************************************************************************)
(* gather and Mutex.release: a call of a group never waits for a machine   *)
(* that is idle and that nobody is about to continue, whatever its members *)
(* and the other calls do.                                                 *)
(***************************************************************************)
THEOREM GroupWaitsForWork == GroupSpec => []WaitsForWork
<1>1. MachinesOK /\ GroupOK /\ MachinesInv /\ GroupInv => WaitsForWork
  <2> SUFFICES ASSUME MachinesOK, GroupOK, MachinesInv, GroupInv,
                      NEW g \in GroupCall, NEW p \in DOMAIN job[g].list,
                      Result(g, p) \in {"asked", "starting"}
               PROVE  LET x == Recipient(g, p)
                      IN  \/ owner[x] # Free
                          \/ got[g][p] # 0 /\ answer[x][got[g][p]] = "sent"
                          \/ call[x][<<g, p>>].status \in {"woken", "stopped"}
      BY DEF WaitsForWork
  <2>1. PICK x \in Member : x = Recipient(g, p)
        BY DEF GroupOK, Job, Recipient
  <2>2. MutexKept(x) /\ p \in Pos
        BY DEF MachinesInv, GroupInv, ListsOK
  <2>3. CASE Broadcasts(g)
    <3>1. got[g][p] # 0 /\ answer[x][got[g][p]] \notin {"true", "failed"}
          BY <2>1, <2>3 DEF Result
    <3>2. /\ got[g][p] \in Nat /\ got[g][p] < next[x] /\ next[x] \in Nat
          /\ next[x] <= MaxEvents + 1
          BY <2>1, <2>2, <3>1 DEF GroupInv, BroadcastsOK, GroupOK, MachinesOK, MutexKept
    <3>3. got[g][p] \in EventId
          BY <3>1, <3>2, HolderAssumption DEF EventId
    <3>4. answer[x][got[g][p]] \in {"run", "sent", "wait"}
          BY <2>2, <3>1, <3>2, <3>3 DEF MutexKept, MachinesOK, Answer
    <3>5. QED BY <2>1, <2>2, <3>1, <3>3, <3>4 DEF MutexKept
  <2>4. CASE ~Broadcasts(g)
    <3>1. part[g][p] \in {"asked", "starting"} /\ PartOK(g, p)
          BY <2>2, <2>4 DEF Result, GroupInv
    <3>2. CASE part[g][p] = "starting"
          BY <2>1, <3>1, <3>2, HolderAssumption DEF PartOK
    <3>3. CASE part[g][p] = "asked"
      <4>1. call[x][<<g, p>>].status # "idle" /\ <<g, p>> \in Client
            BY <2>1, <2>2, <3>1, <3>3, GroupAssumption DEF PartOK, CallOf
      <4>2. call[x][<<g, p>>].status \in {"waiting", "woken", "running", "stopped"}
            BY <4>1 DEF MachinesOK, Call, CallStatus
      <4>3. QED BY <2>1, <2>2, <4>1, <4>2 DEF MutexKept
    <3>4. QED BY <3>1, <3>2, <3>3
  <2>5. QED BY <2>3, <2>4
<1>2. QED BY <1>1, GroupKeeps, PTL

(***************************************************************************)
(* What stop() and restart() of a group have done when they return         *)
(***************************************************************************)
\* gather: a call of a group returns when each part of it is done.
LEMMA ReturnsAfterAll ==
    ASSUME GroupOK, GroupInv, GroupNext, NEW g \in GroupCall,
           job[g].kind \in {"stop", "restart"}, job[g].status # "ok", job'[g].status = "ok"
    PROVE  /\ job'[g].kind = job[g].kind /\ since'[g] = since[g]
           /\ UNCHANGED <<owner, inside, starts>>
           /\ \A x \in Member : \E p \in Pos : part[g][p] = "done" /\ Recipient(g, p) = x
<1>1. Gather(g)
  <2>1. ASSUME NEW x \in Member, MemberStep(x) PROVE UNCHANGED job
        BY <2>1 DEF MemberStep, MemberStarts, MemberWorks, MemberReleases, MemberRaises,
                    MemberListens, MemberRetries, MemberStopped, MemberRestarts, groupVars
  <2>2. ASSUME NEW h \in GroupCall, NEW p \in Pos, NEW x \in Member,
               Skip(h, p, x) \/ Offer(h, p, x) \/ AskStop(h, p, x) \/ AskRestart(h, p, x)
        PROVE  job'[g].status = job[g].status
    <3>1. At(h, p, x)
          BY <2>2 DEF Skip, Offer, AskStop, AskRestart
    <3>2. job'[h].status = job[h].status /\ \A k \in GroupCall \ {h} : job'[k] = job[k]
          BY <3>1, LoopMoves
    <3>3. QED BY <3>2
  <2>3. ASSUME NEW h \in GroupCall, CallMade(h)
        PROVE  job'[g] = job[g] \/ job'[g].status \in {"scheduled", "looping"}
        BY <2>3 DEF CallMade, Schedule, DispatchTo, GroupOK
  <2>4. ASSUME NEW h \in GroupCall,
               NEW s \in {"looping", "nobody", "gathering"}, JobBecomes(h, s)
        PROVE  job'[g].status # "ok"
    <3>1. job'[h].status = s /\ \A k \in GroupCall \ {h} : job'[k] = job[k]
          BY <2>4, JobMoves DEF JobStatus
    <3>2. QED BY <3>1
  <2>5. ASSUME NEW h \in GroupCall, Begin(h) \/ LoopEnds(h)
        PROVE  \E s \in {"looping", "nobody", "gathering"} : JobBecomes(h, s)
        BY <2>5 DEF Begin, LoopEnds
  <2>6. ASSUME NEW h \in GroupCall, h # g, Gather(h) PROVE job'[g] = job[g]
        BY <2>6 DEF Gather, JobBecomes, GroupOK
  <2>7. QED BY <2>1, <2>2, <2>3, <2>4, <2>5, <2>6 DEF GroupNext, LoopStep
<1>2. /\ job[g].status = "gathering" /\ UNCHANGED <<mach, starts, since>>
      /\ (JobBecomes(g, "failed") \/ \A p \in DOMAIN job[g].list : Result(g, p) = "done")
      BY <1>1 DEF Gather
<1>3. job'[g].kind = job[g].kind /\ ~JobBecomes(g, "failed")
  <2>1. \E s \in {"failed", "ok"} : JobBecomes(g, s)
        BY <1>1 DEF Gather
  <2>2. JobBecomes(g, "failed") => job'[g].status = "failed"
        BY JobMoves DEF JobStatus
  <2>3. QED BY <2>1, <2>2, JobMoves DEF JobStatus
<1>4. job[g].list = Members
      BY <1>2 DEF GroupInv, LoopsOK
<1>5. \A p \in Pos : part[g][p] = "done" /\ Recipient(g, p) = Members[p]
      BY <1>2, <1>3, <1>4 DEF Result, Broadcasts, Recipient, Pos
<1>6. \A x \in Member : \E p \in Pos : Members[p] = x
      BY GroupAssumption
<1>7. UNCHANGED <<owner, inside>>
      BY <1>2 DEF mach
<1>8. QED BY <1>2, <1>3, <1>5, <1>6, <1>7

(***************************************************************************)
(* Group.stop: when it returns, each machine of the group is out of its    *)
(* states, unless somebody has started it after the call began.            *)
(***************************************************************************)
THEOREM GroupStopBringsDown == GroupSpec => StopBringsDown
<1>1. GroupOK /\ GroupInv /\ [GroupNext]_allVars =>
          [\A g \in GroupCall : Becomes(g, "stop", "ok") =>
              \A x \in Member : ~inside'[x] \/ starts'[x] > since'[g][x]]_job
  <2> SUFFICES ASSUME GroupOK, GroupInv, [GroupNext]_allVars, job' # job,
                      NEW g \in GroupCall, Becomes(g, "stop", "ok"), NEW x \in Member
               PROVE  ~inside'[x] \/ starts'[x] > since'[g][x]
      OBVIOUS
  <2>1. GroupNext
        BY DEF allVars, groupVars
  <2>2. PICK p \in Pos : part[g][p] = "done" /\ Recipient(g, p) = x
        BY <2>1, ReturnsAfterAll DEF Becomes
  <2>3. Out(g, x)
        BY <2>2 DEF GroupInv, OutcomeOK, Becomes
  <2>4. UNCHANGED <<owner, inside, starts>> /\ since'[g] = since[g]
        BY <2>1, ReturnsAfterAll DEF Becomes
  <2>5. QED BY <2>3, <2>4 DEF Out, Quiet, StartedSince
<1>2. QED BY <1>1, GroupKeeps, PTL DEF GroupSpec, StopBringsDown

(***************************************************************************)
(* Group.restart: when it returns, each machine of the group was started   *)
(* after the call began.                                                   *)
(***************************************************************************)
THEOREM GroupRestartBringsUp == GroupSpec => RestartBringsUp
<1>1. GroupOK /\ GroupInv /\ [GroupNext]_allVars =>
          [\A g \in GroupCall : Becomes(g, "restart", "ok") =>
              \A x \in Member : starts'[x] > since'[g][x]]_job
  <2> SUFFICES ASSUME GroupOK, GroupInv, [GroupNext]_allVars, job' # job,
                      NEW g \in GroupCall, Becomes(g, "restart", "ok"), NEW x \in Member
               PROVE  starts'[x] > since'[g][x]
      OBVIOUS
  <2>1. GroupNext
        BY DEF allVars, groupVars
  <2>2. PICK p \in Pos : part[g][p] = "done" /\ Recipient(g, p) = x
        BY <2>1, ReturnsAfterAll DEF Becomes
  <2>3. StartedSince(g, x)
        BY <2>2 DEF GroupInv, OutcomeOK, Becomes
  <2>4. UNCHANGED starts /\ since'[g] = since[g]
        BY <2>1, ReturnsAfterAll DEF Becomes
  <2>5. QED BY <2>3, <2>4 DEF StartedSince
<1>2. QED BY <1>1, GroupKeeps, PTL DEF GroupSpec, RestartBringsUp
=============================================================================
