---------------------------- MODULE HsmAttributes ----------------------------
(***************************************************************************)
(* The attributes and operations of one machine.  set() stores a value and *)
(* then dispatches the change; call() runs a method of the instance and    *)
(* leaves its event to a callback of the loop.  Both may come from any     *)
(* task or callback.  Everything else is a step of HsmRuntime.             *)
(***************************************************************************)
EXTENDS HsmRuntimeProps

CONSTANTS
    Attribute,   \* the attributes of the model
    Value,       \* values they accept
    Default,     \* the default of each dynamic one, None for the others
    ChangeEvent, \* the event of a change
    Caller,      \* the calls of operations that can be under way at a time
    CallEvent,   \* the event of each of them, the name of its operation
    ClientName   \* names of the events clients dispatch themselves

ASSUME AttributesAssumption ==
    /\ None \notin Value /\ None \notin Attribute
    /\ Default \in [Attribute -> Value \cup {None}]
    /\ ChangeEvent \in [Attribute -> DispatchName]
    /\ CallEvent \in [Caller -> DispatchName]
    /\ ClientName \subseteq DispatchName

VARIABLES
    attributes, \* _attributes, None for a name it does not have
    change,     \* the AttributeChange each event carries
    since,      \* the first id of this run, 0 before the first one
    call,       \* the future of each call
    returned    \* the calls whose dispatch_when_done is scheduled

callVars      == <<call, returned>>
attributeVars == <<attributes, change, since, callVars>>

Change   == [attr : Attribute, old : Value \cup {None}, new : Value]
NoChange == [attr |-> None]

(***************************************************************************)
(* get and set                                                             *)
(***************************************************************************)
\* The value is stored at once.  A value equal to the old one is no change,
\* but the first value of an attribute without a default is.
Set(a, v) ==
    /\ Yielded
    /\ ~Startable
    /\ attributes' = [attributes EXCEPT ![a] = v]
    /\ IF attributes[a] # v
       THEN /\ Dispatch(ChangeEvent[a])
            /\ change' = [change EXCEPT ![nextId] =
                             [attr |-> a, old |-> attributes[a], new |-> v]]
       ELSE UNCHANGED <<vars, change>>
    /\ UNCHANGED <<since, callVars>>

(***************************************************************************)
(* call                                                                    *)
(***************************************************************************)
\* The method runs inside the call: it has returned, or awaits something.
\* A method that raises changes nothing.
CallBegins(k) ==
    /\ Yielded
    /\ ~Startable
    /\ call[k] = "idle"
    /\ \/ call' = [call EXCEPT ![k] = "done"] /\ returned' = Append(returned, k)
       \/ call' = [call EXCEPT ![k] = "running"] /\ UNCHANGED returned
    /\ UNCHANGED <<vars, attributes, change, since>>

CallEnds(k) ==
    /\ Suspended
    /\ call[k] = "running"
    /\ \/ call' = [call EXCEPT ![k] = "done"] /\ returned' = Append(returned, k)
       \/ call' = [call EXCEPT ![k] = "idle"] /\ UNCHANGED returned
    /\ UNCHANGED <<vars, attributes, change, since>>

\* Mutant: the event is queued without dispatch().
PushedWhenDone(n) ==
    /\ Accept(n)
    /\ UNCHANGED <<workVars, cur, taken, deferred, stateVars, restVars>>

DispatchedWhenDone(n) == Dispatch(n)

\* dispatch_when_done: a machine that does not run any more rejects the event.
CallAnnounced ==
    /\ Suspended
    /\ returned # << >>
    /\ call' = [call EXCEPT ![Head(returned)] = "idle"]
    /\ returned' = Tail(returned)
    /\ DispatchedWhenDone(CallEvent[Head(returned)]) \/ (Startable /\ UNCHANGED vars)
    /\ UNCHANGED <<attributes, change, since>>

(***************************************************************************)
(* _start                                                                  *)
(***************************************************************************)
\* Mutant: the values of the last run are kept.
KeepAttributes == UNCHANGED attributes

ResetAttributes == attributes' = Default

Starts ==
    /\ Start \/ \E c \in Client : RestartStarts(c)
    /\ ResetAttributes
    /\ since' = nextId
    /\ UNCHANGED <<change, callVars>>

(***************************************************************************)
(* The specification                                                       *)
(***************************************************************************)
AttributedInit ==
    /\ Init
    /\ attributes = [a \in Attribute |-> None]
    /\ change = [i \in EventId |-> NoChange]
    /\ since = 0
    /\ call = [k \in Caller |-> "idle"] /\ returned = << >>

\* The steps that no attribute and no operation takes part in.
PlainStep ==
    /\ \/ HolderStep
       \/ Raise
       \/ \E t \in TaskId : TaskStep(t)
       \/ \E c \in Client : \/ StopRetry(c) \/ StopReturns(c)
                            \/ RestartFails(c) \/ RestartAbandoned(c)
       \/ \E i \in EventId : WaitBegins(i)
       \/ ParentEnds
       \/ \E c \in Client, m \in CallMode : StopCall(c, m)
       \/ \E n \in ClientName : Dispatch(n)
    /\ UNCHANGED attributeVars

AttributedNext ==
    \/ \E a \in Attribute, v \in Value : Set(a, v)
    \/ \E k \in Caller : CallBegins(k) \/ CallEnds(k)
    \/ CallAnnounced
    \/ Starts
    \/ PlainStep

AttributedSpec == AttributedInit /\ [][AttributedNext]_<<vars, attributeVars>>

AttributesOK ==
    /\ attributes \in [Attribute -> Value \cup {None}]
    /\ change \in [EventId -> Change \cup {NoChange}]
    /\ since \in 0 .. MaxEvents + 1
    /\ call \in [Caller -> {"idle", "running", "done"}]
    /\ returned \in Seq(Caller)

(***************************************************************************)
(* Properties                                                              *)
(***************************************************************************)
\* Set, call and dispatch: whatever is set and called, the machine sees the
\* steps of clients that HsmRuntime has.
AttributesImplementRuntime == Spec

\* The changes of a in this run, and the value it had before them.
ChangesOf(a)  == {i \in EventId : since <= i /\ change[i].attr = a}
StartValue(a) == IF since = 0 THEN None ELSE Default[a]

\* The value after the changes with ids S, of which the last one counts.
Last(S) == {i \in S : \A j \in S : j <= i}
ValueAfter(changes, start, S) ==
    IF Last(S) = {} THEN start ELSE changes[CHOOSE i \in Last(S) : TRUE].new

\* Each change of an attribute goes on where the one before left off, and the
\* last one leads to the value the attribute has.
ChangesTold ==
    \A a \in Attribute :
        /\ attributes[a] = ValueAfter(change, StartValue(a), ChangesOf(a))
        /\ \A i \in ChangesOf(a) :
              /\ change[i].old =
                     ValueAfter(change, StartValue(a), {j \in ChangesOf(a) : j < i})
              /\ change[i].new # change[i].old

\* set and _start: the events of an attribute tell its whole story since the
\* machine was started, and no change of an earlier run is still to be looked
\* at unless a callback raised.
ChangesTellTheValue ==
    /\ ChangesTold
    /\ faults = 0 => \A e \in Queued : e.id # 0 /\ change[e.id] # NoChange => e.id >= since
=============================================================================
