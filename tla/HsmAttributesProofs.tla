------------------------- MODULE HsmAttributesProofs -------------------------
(***************************************************************************)
(* Attributes and operations add no behaviour to the machine: what is      *)
(* proved of HsmRuntime holds whatever is set and called.  The changes that*)
(* are announced tell the value, and none is told to a later run.          *)
(***************************************************************************)
EXTENDS HsmAttributes, HsmEventProofs, HsmConfigurationProofs

\* A change that is announced is a dispatch of a client, or nothing.
LEMMA SetIsStep ==
    ASSUME NEW a \in Attribute, NEW v \in Value, Set(a, v)
    PROVE  [Next]_vars
<1>1. CASE attributes[a] # v
  <2>1. ChangeEvent[a] \in DispatchName /\ Dispatch(ChangeEvent[a])
        BY <1>1, AttributesAssumption DEF Set
  <2>2. QED BY <2>1 DEF ClientStep, Next
<1>2. QED BY <1>1 DEF Set

LEMMA AnnouncedIsStep ==
    ASSUME returned \in Seq(Caller), CallAnnounced PROVE [Next]_vars
<1>1. Head(returned) \in Caller
      BY HeadTailProperties DEF CallAnnounced
<1>2. CallEvent[Head(returned)] \in DispatchName
      BY <1>1, AttributesAssumption
<1>3. CASE Dispatch(CallEvent[Head(returned)])
      BY <1>2, <1>3 DEF ClientStep, Next
<1>4. QED BY <1>3 DEF CallAnnounced, DispatchedWhenDone

LEMMA StartsIsStep == Starts => Next
<1>1. ASSUME NEW c \in Client, RestartStarts(c) PROVE Next
      BY <1>1 DEF CallStep, Next
<1>2. Start => Next
      BY DEF ClientStep, Next
<1>3. QED BY <1>1, <1>2 DEF Starts

LEMMA PlainIsStep == PlainStep => Next
<1>1. ASSUME NEW n \in ClientName, Dispatch(n) PROVE Next
      BY <1>1, AttributesAssumption DEF ClientStep, Next
<1>2. ASSUME NEW c \in Client,
             StopRetry(c) \/ StopReturns(c) \/ RestartFails(c) \/ RestartAbandoned(c)
      PROVE  Next
      BY <1>2 DEF CallStep, Next
<1>3. ASSUME ParentEnds \/ \E c \in Client, m \in CallMode : StopCall(c, m) PROVE Next
      BY <1>3 DEF ClientStep, Next
<1>4. QED BY <1>1, <1>2, <1>3 DEF PlainStep, Next

\* The variables of HsmAttributes keep their types; dispatch_when_done runs
\* for a call that was made.
LEMMA AttributesStayTyped ==
    TypeOK /\ AttributesOK /\ [AttributedNext]_<<vars, attributeVars>> => AttributesOK'
<1> SUFFICES ASSUME TypeOK, AttributesOK, [AttributedNext]_<<vars, attributeVars>>
             PROVE  AttributesOK'
    OBVIOUS
<1>1. ASSUME NEW a \in Attribute, NEW v \in Value, Set(a, v) PROVE AttributesOK'
  <2>1. attributes' \in [Attribute -> Value \cup {None}]
        BY <1>1 DEF Set, AttributesOK
  <2>2. attributes[a] \in Value \cup {None}
        BY DEF AttributesOK
  <2>3. [attr |-> a, old |-> attributes[a], new |-> v] \in Change
        BY <2>2 DEF Change
  <2>4. change' \in [EventId -> Change \cup {NoChange}]
        BY <1>1, <2>3 DEF Set, AttributesOK
  <2>5. QED BY <1>1, <2>1, <2>4 DEF Set, AttributesOK, callVars
<1>2. ASSUME NEW k \in Caller, CallBegins(k) \/ CallEnds(k) PROVE AttributesOK'
      BY <1>2 DEF CallBegins, CallEnds, AttributesOK
<1>3. CASE CallAnnounced
  <2>1. Head(returned) \in Caller /\ Tail(returned) \in Seq(Caller)
        BY <1>3, HeadTailProperties DEF CallAnnounced, AttributesOK
  <2>2. QED BY <1>3, <2>1 DEF CallAnnounced, AttributesOK
<1>4. QED
  <2>1. CASE PlainStep \/ UNCHANGED attributeVars
        BY <2>1 DEF PlainStep, attributeVars, callVars, AttributesOK
  <2>2. CASE Starts
    <3>1. attributes' \in [Attribute -> Value \cup {None}]
          BY <2>2, AttributesAssumption DEF Starts, ResetAttributes
    <3>2. since' \in 0 .. MaxEvents + 1
          BY <2>2, BoundsAssumption DEF Starts, TypeOK
    <3>3. QED BY <2>2, <3>1, <3>2 DEF Starts, callVars, AttributesOK
  <2>3. QED BY <1>1, <1>2, <1>3, <2>1, <2>2 DEF AttributedNext

LEMMA AttributedStepIsStep ==
    AttributesOK /\ [AttributedNext]_<<vars, attributeVars>> => [Next]_vars
<1>1. ASSUME NEW k \in Caller, CallBegins(k) \/ CallEnds(k) PROVE UNCHANGED vars
      BY <1>1 DEF CallBegins, CallEnds
<1>2. QED BY <1>1, SetIsStep, AnnouncedIsStep, StartsIsStep, PlainIsStep
          DEF AttributedNext, AttributesOK

(***************************************************************************)
(* set, call and _start: what they keep has its type, and a scheduled      *)
(* dispatch_when_done belongs to a call.                                   *)
(***************************************************************************)
THEOREM AttributesTyped == AttributedSpec => [](TypeOK /\ AttributesOK)
<1>1. AttributedInit => TypeOK /\ AttributesOK
  <2> SUFFICES ASSUME AttributedInit PROVE TypeOK /\ AttributesOK
      OBVIOUS
  <2>1. << >> \in Seq(Caller) /\ 0 \in 0 .. MaxEvents + 1
        BY EmptySeq, BoundsAssumption
  <2>2. QED BY <2>1, InitialTypes DEF AttributedInit, AttributesOK
<1>2. TypeOK /\ AttributesOK /\ [AttributedNext]_<<vars, attributeVars>>
          => (TypeOK /\ AttributesOK)'
      BY AttributesStayTyped, AttributedStepIsStep, StepTypes
<1>3. QED BY <1>1, <1>2, PTL DEF AttributedSpec

(***************************************************************************)
(* set, call and dispatch_when_done: a machine whose attributes are set    *)
(* and whose operations are called is the machine of HsmRuntime.           *)
(***************************************************************************)
THEOREM AttributesRefine == AttributedSpec => AttributesImplementRuntime
<1>1. AttributedInit => Init
      BY DEF AttributedInit
<1>2. QED BY <1>1, AttributesTyped, AttributedStepIsStep, PTL
          DEF AttributedSpec, AttributesImplementRuntime, Spec

(***************************************************************************)
(* dispatch, from a set() or the end of a call too, never takes a mutex    *)
(* that is held, and nobody waits for a free one.                          *)
(***************************************************************************)
THEOREM AttributesKeepTheMutex == AttributedSpec => []MutexInv
BY AttributesRefine, MutexInvariant, PTL DEF AttributesImplementRuntime

(***************************************************************************)
(* What the changes of an attribute tell                                   *)
(***************************************************************************)
LEMMA ValueKept ==
    ASSUME NEW f, NEW g, NEW start, NEW S, \A i \in S : f[i] = g[i]
    PROVE  ValueAfter(f, start, S) = ValueAfter(g, start, S)
<1>1. CASE Last(S) = {}
      BY <1>1 DEF ValueAfter
<1>2. CASE Last(S) # {}
  <2>1. (CHOOSE i \in Last(S) : TRUE) \in S
        BY <1>2 DEF Last
  <2>2. QED BY <1>2, <2>1 DEF ValueAfter
<1>3. QED BY <1>1, <1>2

LEMMA ValueNew ==
    ASSUME NEW f, NEW start, NEW S \in SUBSET Nat, NEW m \in Nat, \A i \in S : i < m
    PROVE  ValueAfter(f, start, S \cup {m}) = f[m].new
<1>1. Last(S \cup {m}) = {m}
  <2>1. m \in Last(S \cup {m})
        BY DEF Last
  <2>2. ASSUME NEW i \in Last(S \cup {m}) PROVE i = m
    <3>1. i \in S \cup {m} /\ m <= i
          BY DEF Last
    <3>2. QED BY <3>1
  <2>3. QED BY <2>1, <2>2
<1>2. QED BY <1>1 DEF ValueAfter

\* The changes are those of events that were dispatched.
ToldInv ==
    /\ ChangesTold
    /\ since <= nextId
    /\ \A i \in EventId : change[i] # NoChange => i < nextId

LEMMA ToldStays ==
    ASSUME TypeOK, ToldInv, UNCHANGED <<attributes, change, since>>, nextId <= nextId',
           nextId' \in Nat, since \in Nat
    PROVE  ToldInv'
<1>1. ChangesTold'
      BY DEF ToldInv, ChangesTold, ChangesOf, StartValue
<1>2. QED BY <1>1 DEF ToldInv, TypeOK, EventId

\* set(): the change follows everything told of the attribute before.
LEMMA SetTells ==
    ASSUME TypeOK, AttributesOK, ToldInv, NEW a \in Attribute, NEW v \in Value,
           Set(a, v), attributes[a] # v
    PROVE  ToldInv'
<1> DEFINE c == [attr |-> a, old |-> attributes[a], new |-> v]
<1>1. /\ nextId \in EventId /\ nextId \in Nat /\ nextId' = nextId + 1 /\ since' = since
      /\ attributes' = [attributes EXCEPT ![a] = v]
      /\ change' = [change EXCEPT ![nextId] = c]
      BY DEF Set, Dispatch, Accept, EventId
<1>2. change \in [EventId -> Change \cup {NoChange}] /\ since \in Nat
      BY DEF AttributesOK
<1>3. change'[nextId] = c /\ \A i \in EventId : i # nextId => change'[i] = change[i]
      BY <1>1, <1>2
<1>4. c.attr = a /\ c.old = attributes[a] /\ c.new = v
      OBVIOUS
<1> HIDE DEF c
<1>5. change[nextId] = NoChange
      BY <1>1 DEF ToldInv
<1>6. ASSUME NEW b \in Attribute
      PROVE  /\ \A i \in ChangesOf(b) : i \in Nat /\ i < nextId /\ change'[i] = change[i]
             /\ b # a => ChangesOf(b)' = ChangesOf(b)
             /\ b = a => ChangesOf(b)' = ChangesOf(b) \cup {nextId}
  <2>1. NoChange.attr # b
        BY AttributesAssumption DEF NoChange
  <2>2. ASSUME NEW i \in ChangesOf(b)
        PROVE  i \in Nat /\ i < nextId /\ change'[i] = change[i]
        BY <1>3, <1>5, <2>1 DEF ChangesOf, ToldInv, EventId
  <2>3. b # a => ChangesOf(b)' = ChangesOf(b)
        BY <1>1, <1>3, <1>4, <1>5, <2>1 DEF ChangesOf
  <2>4. b = a => ChangesOf(b)' = ChangesOf(b) \cup {nextId}
        BY <1>1, <1>3, <1>4 DEF ChangesOf, ToldInv
  <2>5. QED BY <2>2, <2>3, <2>4
<1>7. ASSUME NEW b \in Attribute PROVE StartValue(b)' = StartValue(b)
      BY <1>1 DEF StartValue
<1> DEFINE Told(f, b, S) == ValueAfter(f, StartValue(b), S)
<1>8. ASSUME NEW b \in Attribute
      PROVE  /\ Told(change', b, ChangesOf(b)) = attributes[b]
             /\ \A i \in ChangesOf(b) :
                   /\ change'[i].old = Told(change', b, {j \in ChangesOf(b) : j < i})
                   /\ change'[i].new # change'[i].old
  <2>1. Told(change', b, ChangesOf(b)) = Told(change, b, ChangesOf(b))
        BY <1>6, ValueKept
  <2>2. ASSUME NEW i \in ChangesOf(b)
        PROVE  Told(change', b, {j \in ChangesOf(b) : j < i})
                   = Told(change, b, {j \in ChangesOf(b) : j < i})
    <3>1. \A j \in {k \in ChangesOf(b) : k < i} : change'[j] = change[j]
          BY <1>6
    <3>2. QED BY <3>1, ValueKept
  <2>3. QED BY <1>6, <2>1, <2>2 DEF ToldInv, ChangesTold
<1>9. ASSUME NEW b \in Attribute
      PROVE  /\ attributes'[b] = Told(change', b, ChangesOf(b)')
             /\ \A i \in ChangesOf(b)' :
                   /\ change'[i].old = Told(change', b, {j \in ChangesOf(b)' : j < i})
                   /\ change'[i].new # change'[i].old
  <2>1. CASE b # a
    <3>1. attributes'[b] = attributes[b] /\ ChangesOf(b)' = ChangesOf(b)
          BY <1>1, <1>6, <2>1 DEF AttributesOK
    <3>2. QED BY <1>8, <3>1
  <2>2. CASE b = a
    <3>1. ChangesOf(b)' = ChangesOf(b) \cup {nextId} /\ attributes'[b] = v
          BY <1>1, <1>6, <2>2 DEF AttributesOK
    <3>2. ChangesOf(b) \in SUBSET Nat
          BY <1>6
    <3>3. Told(change', b, ChangesOf(b)') = change'[nextId].new
      <4>1. nextId \in Nat /\ \A i \in ChangesOf(b) : i < nextId
            BY <1>1, <1>6
      <4>2. ValueAfter(change', StartValue(b), ChangesOf(b) \cup {nextId})
                = change'[nextId].new
            BY <3>2, <4>1, ValueNew, Zenon
      <4>3. QED BY <3>1, <4>2
    <3>4. ASSUME NEW i \in ChangesOf(b)
          PROVE  {j \in ChangesOf(b)' : j < i} = {j \in ChangesOf(b) : j < i}
      <4>1. i \in Nat /\ i < nextId /\ nextId \in Nat
            BY <1>1, <1>6
      <4>2. ~(nextId < i)
            BY <4>1
      <4>3. QED BY <3>1, <4>2
    <3>5. {j \in ChangesOf(b)' : j < nextId} = ChangesOf(b)
          BY <1>1, <1>6, <3>1
    <3>6. change'[nextId].old = Told(change', b, {j \in ChangesOf(b)' : j < nextId})
          BY <1>3, <1>4, <1>8, <2>2, <3>5
    <3>7. QED BY <1>3, <1>4, <1>8, <3>1, <3>3, <3>4, <3>6
  <2>3. QED BY <2>1, <2>2
<1>10. ChangesTold'
      BY <1>7, <1>9 DEF ChangesTold
<1>11. since' <= nextId' /\ \A i \in EventId : change'[i] # NoChange => i < nextId'
      BY <1>1, <1>2, <1>3 DEF ToldInv, EventId
<1>12. QED BY <1>10, <1>11 DEF ToldInv

\* _start: nothing is told of the new run yet.
LEMMA StartTells ==
    ASSUME TypeOK, AttributesOK, ToldInv, Starts PROVE ToldInv'
<1>1. /\ nextId' = nextId /\ nextId \in Nat \ {0}
      /\ since' = nextId /\ change' = change /\ attributes' = Default
      BY DEF Starts, Start, RestartStarts, BeginStartup, ghostVars, ResetAttributes, TypeOK
<1>2. ASSUME NEW a \in Attribute PROVE ChangesOf(a)' = {} /\ StartValue(a)' = Default[a]
  <2>1. NoChange.attr # a
        BY AttributesAssumption DEF NoChange
  <2>2. \A i \in EventId : nextId <= i => change[i].attr # a
        BY <1>1, <2>1 DEF ToldInv, EventId
  <2>3. QED BY <1>1, <2>2 DEF ChangesOf, StartValue
<1>3. Last({}) = {}
      BY DEF Last
<1>4. ChangesTold'
      BY <1>1, <1>2, <1>3 DEF ChangesTold, ValueAfter
<1>5. QED BY <1>1, <1>4 DEF ToldInv

(***************************************************************************)
(* set and _start: whatever else happens, the changes announced since the  *)
(* start of the machine lead to the values its attributes have.            *)
(***************************************************************************)
THEOREM ChangesTellTheStory == AttributedSpec => []ChangesTold
<1>1. AttributedInit => ToldInv
  <2> SUFFICES ASSUME AttributedInit PROVE ToldInv
      OBVIOUS
  <2>1. /\ nextId = 1 /\ since = 0 /\ attributes = [a \in Attribute |-> None]
        /\ \A i \in EventId : change[i] = NoChange
        BY DEF AttributedInit, Init
  <2>2. ASSUME NEW a \in Attribute PROVE ChangesOf(a) = {} /\ StartValue(a) = None
        BY <2>1, AttributesAssumption DEF ChangesOf, NoChange, StartValue
  <2>3. Last({}) = {}
        BY DEF Last
  <2>4. QED BY <2>1, <2>2, <2>3 DEF ToldInv, ChangesTold, ValueAfter
<1>2. TypeOK /\ AttributesOK /\ ToldInv /\ [AttributedNext]_<<vars, attributeVars>>
          => ToldInv'
  <2> SUFFICES ASSUME TypeOK, AttributesOK, ToldInv,
                      [AttributedNext]_<<vars, attributeVars>>
               PROVE  ToldInv'
      OBVIOUS
  <2>1. nextId <= nextId' /\ nextId' \in Nat /\ since \in Nat
        BY AttributedStepIsStep, IdsGrow DEF AttributesOK
  <2>2. ASSUME UNCHANGED <<attributes, change, since>> PROVE ToldInv'
        BY <2>1, <2>2, ToldStays
  <2>3. ASSUME NEW a \in Attribute, NEW v \in Value, Set(a, v) PROVE ToldInv'
    <3>1. CASE attributes[a] = v
      <4>1. UNCHANGED <<attributes, change, since>>
            BY <2>3, <3>1 DEF Set, AttributesOK
      <4>2. QED BY <2>2, <4>1
    <3>2. QED BY <2>3, <3>1, SetTells
  <2>4. CASE \E k \in Caller : CallBegins(k) \/ CallEnds(k)
        BY <2>2, <2>4 DEF CallBegins, CallEnds
  <2>5. CASE CallAnnounced
        BY <2>2, <2>5 DEF CallAnnounced
  <2>6. CASE Starts
        BY <2>6, StartTells
  <2>7. CASE PlainStep \/ UNCHANGED <<vars, attributeVars>>
        BY <2>2, <2>7 DEF PlainStep, attributeVars
  <2>8. QED BY <2>3, <2>4, <2>5, <2>6, <2>7 DEF AttributedNext
<1>3. QED BY <1>1, <1>2, AttributesTyped, PTL DEF AttributedSpec, ToldInv

(***************************************************************************)
(* What is left of an earlier run                                          *)
(***************************************************************************)
\* What became of an event stays.
LEMMA SettledStays ==
    ASSUME TypeOK, [Next]_vars, NEW i \in EventId, outcome[i] # "none"
    PROVE  outcome'[i] # "none"
<1> USE DEF vars, machineVars, queueVars, runVars, workVars, eventVars, stateVars, restVars,
            taskVars, lifeVars, ghostVars, GoTo, Continue, TaskEnds, CallBecomes
<1>1. ASSUME NEW ids, NEW what, what # "none", outcome' = Settle(ids, what)
      PROVE  outcome'[i] # "none"
      BY <1>1 DEF Settle
<1>2. ASSUME Unhandled \/ Arrive \/ Replay PROVE outcome'[i] # "none"
      BY <1>1, <1>2 DEF Unhandled, Arrive, Replay
<1>3. CASE ProcessStep
      BY <1>2, <1>3 DEF ProcessStep, PopDeferred, PopEvent, TakeTransition, GuardFails,
             HandlerRuns, NextCandidate, NoTransition, NoResult, Replayed, Drain, PutBack, Finish
<1>4. CASE TransitionStep
      BY <1>4 DEF TransitionStep, Effect, EnterState, EnterFinal, EnterSimple, EnterInitial,
             EnterPseudo, EnterHistory, NoBranch, Spawn, SpawnFails, Accept, Terminate,
             Resume, Leave
<1>5. CASE StopFinish
      BY <1>1, <1>5 DEF StopFinish, ClearQueue
<1>6. CASE Raise
      BY <1>6 DEF Raise
<1>7. ASSUME NEW c, NEW m, BeginStop(c, m) \/ StopWaits(c, m) PROVE UNCHANGED outcome
      BY <1>7 DEF BeginStop, StopWaits
<1>8. ASSUME BeginStartup PROVE UNCHANGED outcome
      BY <1>8 DEF BeginStartup
<1>9. ASSUME NEW t \in TaskId, TaskStep(t) PROVE UNCHANGED outcome
      BY <1>9 DEF TaskStep, TaskFinishes, TaskCancelled, TaskFails, TaskCleanup, Accept
<1>10. ASSUME NEW c \in Client, CallStep(c) PROVE UNCHANGED outcome
      BY <1>7, <1>8, <1>10 DEF CallStep, StopRetry, RestartStarts, StopReturns,
             RestartFails, RestartAbandoned
<1>11. CASE ClientStep
      BY <1>7, <1>8, <1>11 DEF ClientStep, Start, ParentEnds, Dispatch, Accept, StopCall
<1>12. CASE \E j \in EventId : WaitBegins(j)
      BY <1>12 DEF WaitBegins
<1>13. QED BY <1>3, <1>4, <1>5, <1>6, <1>9, <1>10, <1>11, <1>12 DEF Next, HolderStep

\* When the machine is stopped, something has become of every event.
LEMMA StoppedHasSettled ==
    ASSUME TypeOK, MutexInv, EventsInv, HeldInv, StoppedIsQuiet, Startable, faults = 0,
           NEW i \in EventId, i < nextId
    PROVE  outcome[i] # "none"
<1>1. lifo = << >> /\ fifo = << >> /\ deferred = << >>
      BY HolderAssumption DEF StoppedIsQuiet, QueueEmpty, HeldInv, Startable
<1>2. ~InQueue(i) /\ ~HeldOnce(deferred, i)
      BY <1>1 DEF InQueue, Once, HeldOnce
<1>3. cur.id # i
  <2>1. cur.id = 0
        BY HolderAssumption DEF EventsInv, HandInUse, Startable
  <2>2. QED BY <2>1 DEF EventId
<1>4. Placed(i)
  <2>1. ~(nextId <= i)
        BY DEF TypeOK, EventId
  <2>2. QED BY <2>1 DEF EventsInv, EventsConserved, Fresh
<1>5. QED BY <1>2, <1>3, <1>4 DEF Placed

\* While no callback raises, something has become of every event of the runs
\* before this one.
PastInv == faults = 0 => \A i \in EventId : i < since => outcome[i] # "none"

LEMMA PastStays ==
    ASSUME TypeOK, AttributesOK, MutexInv, EventsInv, HeldInv, StoppedIsQuiet, PastInv,
           [AttributedNext]_<<vars, attributeVars>>
    PROVE  PastInv'
<1> SUFFICES ASSUME faults' = 0, NEW i \in EventId, i < since'
             PROVE  outcome'[i] # "none"
    BY DEF PastInv
<1>1. [Next]_vars
      BY AttributedStepIsStep
<1>2. faults = 0
      BY <1>1, FaultsStay
<1>3. CASE Starts
  <2>1. Startable /\ since' = nextId
        BY <1>3 DEF Starts, Start, RestartStarts, BeginStartup
  <2>2. outcome[i] # "none"
        BY <1>2, <2>1, StoppedHasSettled
  <2>3. QED BY <1>1, <2>2, SettledStays
<1>4. CASE UNCHANGED since
  <2>1. outcome[i] # "none"
        BY <1>2, <1>4 DEF PastInv
  <2>2. QED BY <1>1, <2>1, SettledStays
<1>5. Starts \/ UNCHANGED since
      BY DEF AttributedNext, Set, CallBegins, CallEnds, CallAnnounced, PlainStep, attributeVars
<1>6. QED BY <1>3, <1>4, <1>5

(***************************************************************************)
(* set and _start: the changes of this run lead to the values, and, while  *)
(* no callback raises and no empty history is entered, no change of an     *)
(* earlier run is still to be looked at.                                   *)
(***************************************************************************)
THEOREM ChangesStayInTheirRun ==
    ASSUME PointsEnter, PointsJoin, ActivitiesApart, ModelLeads
    PROVE  AttributedSpec /\ []HistoryLeads => []ChangesTellTheValue
<1>1. AttributedInit => PastInv
      BY DEF AttributedInit, PastInv, EventId
<1>2. TypeOK /\ AttributesOK /\ MutexInv /\ EventsInv /\ HeldInv /\ StoppedIsQuiet /\ PastInv
          /\ [AttributedNext]_<<vars, attributeVars>> => PastInv'
      BY PastStays
<1>3. TypeOK /\ AttributesOK /\ EventsInv /\ ChangesTold /\ PastInv => ChangesTellTheValue
  <2> SUFFICES ASSUME TypeOK, AttributesOK, EventsInv, PastInv, faults = 0,
                      NEW e \in Queued, e.id # 0
               PROVE  e.id >= since
      BY DEF ChangesTellTheValue
  <2>1. e \in Event /\ e.id \in EventId
    <3>1. e \in Event
          BY DEF Queued, TypeOK
    <3>2. QED BY <3>1 DEF Event
  <2>2. ~NotInQueue(e.id)
        BY DEF Queued, NotInQueue, Never
  <2>3. outcome[e.id] = "none"
        BY <2>1, <2>2 DEF EventsInv, EventsConserved, Placed, Fresh
  <2>4. ~(e.id < since)
        BY <2>1, <2>3 DEF PastInv
  <2>5. QED BY <2>1, <2>4 DEF AttributesOK, EventId
<1>4. AttributedSpec => Spec
      BY AttributesRefine DEF AttributesImplementRuntime
<1>5. QED BY <1>1, <1>2, <1>3, <1>4, AttributesTyped, MutexInvariant, EventsInvariant,
             HeldInvariant, StoppedMachineIsQuiet, ChangesTellTheStory, PTL DEF AttributedSpec
=============================================================================
