------------------------------ MODULE HsmBuilder ------------------------------
(***************************************************************************)
(* The model builder of hsm.py: Define() and Redefine() replay a list of   *)
(* declared elements into a fresh model.  Each redefine() adds members     *)
(* under their qualified names, sees the elements it is nested in on the   *)
(* Python stack, and leaves to resolvers what cannot be known yet; once all*)
(* is declared the resolvers run in the order they were left,              *)
(* DefaultModelValidator accepts or rejects the model (HsmValidator), and  *)
(* the observations are woven into its behaviours.                         *)
(*                                                                         *)
(* A declaration is a record d with its kind d.el; "End" closes the        *)
(* innermost open element (its redefine() returns), "Done" the definition. *)
(* A qualified name is the sequence of its parts, so posixpath.dirname is  *)
(* Front and join concatenates; a reference written in a declaration is    *)
(* Abs(path), Rel(path) or Up(n, path) for "../"s.                         *)
(***************************************************************************)
EXTENDS HsmValidator, FiniteSetsExt, TLC

CONSTANT Plans   \* bound: what is declared, sequences of sets of blocks: one
                 \* block of each set in turn, a block is a sequence of declarations

VARIABLES
    plan,       \* what may still be declared
    phase,      \* "idle", "declaring", "resolving", "rejected" or "accepted"
    root,       \* model.qualified_name
    members,    \* model.members
    events,     \* the names in model.events
    stack,      \* the open elements, outermost first
    pending,    \* the resolvers appended to model.owned_elements
    script,     \* what was declared in this definition (owned_elements)
    todo,       \* declarations of another model that are being replayed
    library     \* the models defined so far

modelVars == <<members, events, stack, pending>>
vars == <<plan, phase, root, members, events, stack, pending, script, todo, library>>

(***************************************************************************)
(* The stack                                                               *)
(***************************************************************************)
\* "model" and "machine" are Model objects, "boundary" is the submachine
\* state a machine is being replayed into.
StateEl  == {"model", "machine", "boundary", "state"}
VertexEl == StateEl \cup {"vertex"}

Open(el, path) == [el |-> el, path |-> path]
Top == Last(stack)

\* find(stack, *maybe_kinds): the innermost, << >> when there is none
Indexes(els) == {i \in DOMAIN stack : stack[i].el \in els}
Find(els) == IF Indexes(els) = {} THEN << >> ELSE stack[Max(Indexes(els))].path

Here == Find(StateEl)
This == Find({"transition"})

(***************************************************************************)
(* Members                                                                 *)
(***************************************************************************)
\* A member replaced under its name keeps its place in the dictionary.
PutIn(ms, path, element) ==
    LET at == IF path \in DOMAIN ms THEN ms[path].at ELSE Cardinality(DOMAIN ms) + 1
    IN  [p \in DOMAIN ms \cup {path} |->
            IF p = path THEN element @@ [at |-> at] ELSE ms[p]]
Put(path, element) == PutIn(members, path, element)

\* _model_member_count
Count(ms) == Cardinality({p \in DOMAIN ms :
                 ms[p].type \notin {"attribute", "operation", "observation"}})
NameOr(name, base, ms) == IF name = "" THEN base \o "_" \o ToString(Count(ms)) ELSE name

InOrder(paths) == SetToSortSeq(paths, LAMBDA p, q : members[p].at < members[q].at)

NewVertex(type) == [type |-> type, transitions |-> << >>]
NewState(type)  == [type |-> type, transitions |-> << >>, initial |-> NoPath,
                    entry |-> << >>, exit |-> << >>, activity |-> << >>, deferred |-> << >>]
NewTransition == [type |-> "transition", source |-> <<".">>, target |-> NoPath,
                  guard |-> NoPath, effect |-> << >>, events |-> << >>, kind |-> "none"]

Reject == phase' = "rejected" /\ UNCHANGED modelVars

\* "... already defined"
AddNew(path, element, opened) ==
    IF path \in DOMAIN members THEN Reject
    ELSE /\ members' = Put(path, element)
         /\ stack' = Append(stack, Open(opened, path))
         /\ UNCHANGED <<phase, events, pending>>

(***************************************************************************)
(* References                                                              *)
(***************************************************************************)
Abs(path)   == [abs |-> TRUE,  up |-> 0, path |-> path]
Rel(path)   == [abs |-> FALSE, up |-> 0, path |-> path]
Up(n, path) == [abs |-> FALSE, up |-> n, path |-> path]
Join(path, ref) == SubSeq(path, 1, Len(path) - ref.up) \o ref.path

\* The innermost of the open models of that name that has an open state
\* below it, and the outermost of those states.
Composed(name) ==
    LET below(i) == {j \in Indexes(StateEl) : j > i}
        models == {i \in Indexes({"model", "machine"}) :
                       Last(stack[i].path) = name /\ below(i) # {}}
    IN  IF models = {} THEN << >> ELSE stack[Min(below(Max(models)))].path

\* The innermost state above Here of that name.
AboveNamed(name) ==
    LET found == {n \in 1 .. Len(Here) : Here[n] = name}
    IN  IF found = {} THEN << >> ELSE SubSeq(Here, 1, Max(found))

InnermostSubmachine ==
    LET subs == {i \in Indexes({"boundary", "state"}) :
                     members[stack[i].path].type = "submachine"}
    IN  IF subs = {} THEN << >> ELSE stack[Max(subs)].path


\* _resolve_source_or_target_qualified_name: an absolute name that is not
\* below this model is one of a model being replayed, and is relocated.
Resolve(ref) ==
    LET name == Head(ref.path)
        rest == Tail(ref.path)
        boundary == InnermostSubmachine
    IN  IF ~ref.abs THEN Join(Here, ref)
        ELSE IF IsAncestor(root, ref.path) THEN ref.path
        ELSE IF Composed(name) # << >> THEN Composed(name) \o rest
        ELSE IF AboveNamed(name) # << >> THEN AboveNamed(name) \o rest
        ELSE IF boundary # << >> THEN boundary \o rest
        ELSE Dirname(Here) \o ref.path

(***************************************************************************)
(* States and pseudostates                                                 *)
(***************************************************************************)
State(d) == AddNew(Append(Here, d.name), NewState("state"), "state")

\* The submachine state, and below it the model and the state its elements
\* are replayed in.
SubmachineState(d) ==
    LET path == Append(Here, d.name)
    IN  IF path \in DOMAIN members THEN Reject
        ELSE /\ members' = Put(path, NewState("submachine"))
             /\ stack' = stack \o <<Open("machine", library[d.machine].root),
                                    Open("boundary", path)>>
             /\ UNCHANGED <<phase, events, pending>>

\* The machine is replayed: what follows is declared in the submachine state.
Replayed(d) ==
    /\ stack' = Append(SubSeq(stack, 1, Len(stack) - 2), Open("state", Top.path))
    /\ UNCHANGED <<phase, members, events, pending>>

HistoryVertex(d) ==
    AddNew(Append(Here, NameOr(d.name, d.type \o "_history", members)),
           NewVertex(d.type), "vertex")

\* Final states, entry and exit points and choices replace what is already
\* there under their name.
FinalState(d) ==
    /\ members' = Put(Append(Here, NameOr(d.name, "final", members)), NewState("final"))
    /\ UNCHANGED <<phase, events, stack, pending>>

\* In a transition a choice is declared as its target, under the name of the
\* transition unless that one leaves a pseudostate.
Choice(d) ==
    LET source == IF members[This].source = <<".">> THEN Find(VertexEl)
                  ELSE members[This].source
        asTarget == Top.el = "transition"
        owner == IF asTarget /\ ~(source \in DOMAIN members /\ IsPseudostate(members, source))
                 THEN This ELSE Here
        path  == Append(owner, NameOr(d.name, "choice", members))
    IN  IF asTarget /\ members[This].target # NoPath THEN Reject
        ELSE /\ members' = Put(path, NewVertex("choice"))
             /\ stack' = Append(stack, Open("vertex", path))
             /\ UNCHANGED <<phase, events, pending>>

(***************************************************************************)
(* Transitions                                                             *)
(***************************************************************************)
Transition(d) ==
    AddNew(Append(Find(VertexEl), NameOr(d.name, "transition", members)),
           NewTransition, "transition")

\* A pseudostate that comes with its one transition.
OpenWithTransition(ms, vertex, source, target) ==
    LET path == Append(vertex, NameOr("", "transition", ms))
    IN  IF path \in DOMAIN ms THEN Reject
        ELSE /\ members' = PutIn(ms, path, [NewTransition EXCEPT !.source = source,
                                                                !.target = target])
             /\ stack' = stack \o <<Open("vertex", vertex), Open("transition", path)>>
             /\ UNCHANGED <<phase, events, pending>>

Initial(d) ==
    LET path == Append(Here, ".initial")
        ms   == [Put(path, NewVertex("initial")) EXCEPT ![Here].initial = path]
    IN  IF path \in DOMAIN members THEN Reject
        ELSE OpenWithTransition(ms, path, path, NoPath)

\* The transitions of an exit point keep the guarded handlers of a
\* submachine state before its handlers without one.
InsertGuarded(ms, point, t) ==
    LET ts == ms[point].transitions
        open == {i \in DOMAIN ts : /\ ms[ts[i]].guard = NoPath
                                   /\ ms[ts[i]].target # Dirname(point)}
    IN  IF open = {} THEN Append(ts, t) ELSE InsertAt(ts, Min(open), t)

\* Mutant: in the order of their declarations.
AddOutgoingLast(ms, v, t) == [ms EXCEPT ![v].transitions = Append(@, t)]

AddOutgoing(ms, v, t) ==
    [ms EXCEPT ![v].transitions =
        IF ms[t].guard # NoPath /\ ms[v].type = "exitPoint"
        THEN InsertGuarded(ms, v, t) ELSE Append(@, t)]

\* RedefinableTransition.redefine() returns to the pseudostate or state the
\* transition is declared in.
CloseTransition ==
    LET t      == Top.path
        under  == stack[Len(stack) - 1].path
        owned  == members[under].type \in {"initial", "entryPoint", "exitPoint"}
        vertex == Dirname(t)
        source == IF members[t].source = <<".">> THEN vertex ELSE members[t].source
        ms     == [members EXCEPT
                      ![t].source = source,
                      ![t].events = IF members[under].type = "initial"
                                    THEN Append(@, InitialEvent) ELSE @,
                      ![t].kind = IF owned /\ members[under].type # "initial"
                                  THEN "local" ELSE @]
    IN  IF ~IsVertex(members, source) THEN Reject
        ELSE /\ members' = AddOutgoing(ms, source, t)
             /\ stack' = SubSeq(stack, 1, Len(stack) - IF owned THEN 2 ELSE 1)
             /\ events' = IF members[under].type = "initial"
                          THEN events \cup {InitialEvent} ELSE events
             /\ pending' = Append(pending, [resolves |-> "kind", transition |-> t])
             /\ UNCHANGED phase

Source(d) ==
    IF members[This].source # <<".">> THEN Reject
    ELSE /\ members' = [members EXCEPT ![This].source = Resolve(d.ref)]
         /\ UNCHANGED <<phase, events, stack, pending>>

\* A target that is not declared yet is left to a resolver.
Target(d) ==
    LET target == Resolve(d.ref)
    IN  IF members[This].target # NoPath THEN Reject
        ELSE IF target \in DOMAIN members
        THEN /\ members' = [members EXCEPT ![This].target = target]
             /\ UNCHANGED <<phase, events, stack, pending>>
        ELSE /\ pending' = Append(pending, [resolves |-> "target", transition |-> This,
                                           name |-> target])
             /\ UNCHANGED <<phase, members, events, stack>>

\* The transition of a choice's Target() gets it when the choice is closed.
CloseVertex ==
    LET under == stack[Len(stack) - 1]
    IN  /\ stack' = Front(stack)
        /\ members' = IF under.el = "transition"
                      THEN [members EXCEPT ![under.path].target = Top.path] ELSE members
        /\ UNCHANGED <<phase, events, pending>>

CloseState == stack' = Front(stack) /\ UNCHANGED <<phase, members, events, pending>>

End == CASE Top.el = "transition" -> CloseTransition
         [] Top.el = "vertex"     -> CloseVertex
         [] OTHER                 -> CloseState

(***************************************************************************)
(* Triggers                                                                *)
(***************************************************************************)
Triggers(ms, names) ==
    /\ members' = [ms EXCEPT ![This].events = @ \o names]
    /\ events' = events \cup ToSet(names)
    /\ UNCHANGED <<phase, stack, pending>>

\* RedefinableTransitionWithEvents
On(d) == Triggers(members, d.events)

\* Mutant: the attribute is one of the innermost submachine.
OnSetBelow(d) ==
    LET name == Append(IF InnermostSubmachine = << >> THEN root ELSE InnermostSubmachine, d.name)
    IN  Triggers(Put(name, [type |-> "attribute", implicit |-> TRUE]), <<name>>)

\* OnSet(name) and When(name) declare the attribute when nobody did; what
\* else has its name is replaced.
OnSet(d) ==
    LET name == Append(root, d.name)
    IN  Triggers(IF name \in DOMAIN members /\ members[name].type = "attribute"
                 THEN members ELSE Put(name, [type |-> "attribute", implicit |-> TRUE]),
                 <<name>>)

OnCall(d) == Triggers(members, <<Append(root, d.name)>>)

\* The guard that a condition adds.  When it is evaluated it first asks the
\* constraint that has the name after then.
Constraint(fn, async, after) ==
    [type |-> "constraint", fn |-> fn, async |-> async, after |-> after]

\* When(predicate): the change of any attribute of the model declared so far
\* that is not a trigger already, else any event.  It replaces the guard.
WhenPredicate(d) ==
    LET attributes == {p \in DOMAIN members : /\ members[p].type = "attribute"
                                              /\ Dirname(p) = root
                                              /\ p \notin ToSet(members[This].events)}
        name == Append(This, IF d.fn.name = "" THEN ".when" ELSE d.fn.name)
    IN  Triggers([Put(name, Constraint(d.fn.fn, d.fn.async, NoPath))
                      EXCEPT ![This].guard = name],
                 IF attributes = {} THEN <<AnyEvent>> ELSE InOrder(attributes))

\* After, At, Every and the activity their resolver adds to the source
TimeEvent(d) ==
    LET name == Append(This, NameOr(d.name, "time", members))
    IN  /\ members' = [members EXCEPT ![This].events = Append(@, name)]
        /\ events' = events \cup {name}
        /\ pending' = Append(pending, [resolves |-> "activity", transition |-> This,
                                      event |-> name])
        /\ UNCHANGED <<phase, stack>>

(***************************************************************************)
(* Behaviours and guards                                                   *)
(***************************************************************************)
IsOperation(name) == Append(root, name) \in DOMAIN members
                     /\ members[Append(root, name)].type = "operation"
\* An operation named by a callback must have been declared before.
Missing(calls) == \E c \in ToSet(calls) : c.by = "operation" /\ ~IsOperation(c.name)

\* The operation behind a callback and whether it is a coroutine function.
Method(c) == IF c.by = "operation" THEN members[Append(root, c.name)].fn ELSE c.fn
IsAsync(c) == IF c.by = "operation" THEN members[Append(root, c.name)].async ELSE c.async

BehaviorElement(c, concurrent) ==
    LET of == IF c.by = "element" THEN c.concurrent ELSE concurrent
    IN  [type |-> IF of THEN "concurrent" ELSE "behavior", fn |-> Method(c), wraps |-> << >>,
         async |-> IsAsync(c) \/ (c.by = "operation" /\ of)]

\* RedefinableBehaviors.redefine_all(): the members and the names added.
RedefineAll(calls, owner, concurrent) ==
    FoldLeft(LAMBDA acc, c :
                LET name == Append(owner, NameOr(c.name, "behavior", acc.members))
                IN  [members |-> PutIn(acc.members, name, BehaviorElement(c, concurrent)),
                     names   |-> Append(acc.names, name)],
             [members |-> members, names |-> << >>], calls)

Behaviors(d, owner, field, concurrent) ==
    LET added == RedefineAll(d.calls, owner, concurrent)
    IN  IF Missing(d.calls) THEN Reject
        ELSE /\ members' = [added.members EXCEPT ![owner][field] = @ \o added.names]
             /\ UNCHANGED <<phase, events, stack, pending>>

Entry(d)    == Behaviors(d, Here, "entry", FALSE)
Exit(d)     == Behaviors(d, Here, "exit", FALSE)
Activity(d) == Behaviors(d, Here, "activity", TRUE)
Effect(d)   == Behaviors(d, This, "effect", FALSE)

Defer(d) ==
    /\ members' = [members EXCEPT ![Here].deferred = @ \o d.events]
    /\ events' = events \cup ToSet(d.events)
    /\ UNCHANGED <<phase, stack, pending>>

\* A guard after another one looks the first up by its name and tests both;
\* the combination is a plain function.
Guard(d) ==
    LET name  == Append(This, IF d.fn.by = "operation" THEN ".guard" ELSE d.fn.name)
        first == members[This].guard
    IN  IF Missing(<<d.fn>>) THEN Reject
        ELSE /\ members' = [Put(name, Constraint(Method(d.fn),
                                                IsAsync(d.fn) /\ first = NoPath, first))
                                EXCEPT ![This].guard = name]
             /\ UNCHANGED <<phase, events, stack, pending>>

(***************************************************************************)
(* Entry and exit points, attributes, operations, observations             *)
(***************************************************************************)
\* In a transition: the point of the submachine it goes to, or comes from.
ResolveLater(d, resolves) ==
    /\ pending' = Append(pending, [resolves |-> resolves, transition |-> This, point |-> d.name])
    /\ UNCHANGED <<phase, members, events, stack>>

EntryPoint(d) ==
    LET path == Append(Here, d.name)
    IN  IF This # << >> THEN ResolveLater(d, "entryPoint")
        ELSE OpenWithTransition(Put(path, NewVertex("entryPoint")), path, <<".">>, NoPath)

\* Its own transition, when it has one, goes to the state it belongs to.
ExitPoint(d) ==
    LET path == Append(Here, d.name)
        ms   == Put(path, NewVertex("exitPoint"))
    IN  IF This # << >> THEN ResolveLater(d, "exitPoint")
        ELSE IF d.handled THEN OpenWithTransition(ms, path, <<".">>, Here)
        ELSE members' = ms /\ UNCHANGED <<phase, events, stack, pending>>

\* Attributes belong to the model; in a state they are an error, unless a
\* machine that is being replayed declares them.
Attribute(d) ==
    LET path == Append(root, d.name)
    IN  IF \/ Top.el \notin {"model", "boundary"} \/ ~d.fits
           \/ path \in DOMAIN members /\ members[path].type # "attribute"
        THEN Reject
        ELSE /\ members' = Put(path, [type |-> "attribute", implicit |-> FALSE])
             /\ UNCHANGED <<phase, events, stack, pending>>

Operation(d) ==
    LET path == Append(root, d.name)
    IN  IF path \in DOMAIN members /\ members[path].type # "operation" THEN Reject
        ELSE /\ members' = Put(path, [type |-> "operation", fn |-> d.fn, wraps |-> << >>,
                                     async |-> d.async])
             /\ UNCHANGED <<phase, events, stack, pending>>

Observe(d) ==
    LET others == Cardinality({p \in DOMAIN members : members[p].type = "observation"})
        name == IF d.name # "" THEN d.name
                ELSE "observation_" \o ToString(Count(members) + others)
    IN  /\ members' = Put(Append(root, name), [type |-> "observation", fn |-> d.fn,
                                               targets |-> d.targets])
        /\ UNCHANGED <<phase, events, stack, pending>>

Declare(d) ==
    CASE d.el = "State"         -> State(d)
      [] d.el = "Submachine"    -> SubmachineState(d)
      [] d.el = "Replayed"      -> Replayed(d)
      [] d.el = "Initial"       -> Initial(d)
      [] d.el = "History"       -> HistoryVertex(d)
      [] d.el = "Final"         -> FinalState(d)
      [] d.el = "Choice"        -> Choice(d)
      [] d.el = "Transition"    -> Transition(d)
      [] d.el = "Source"        -> Source(d)
      [] d.el = "Target"        -> Target(d)
      [] d.el = "On"            -> On(d)
      [] d.el = "OnSet"         -> OnSet(d)
      [] d.el = "OnCall"        -> OnCall(d)
      [] d.el = "When"          -> WhenPredicate(d)
      [] d.el = "Time"          -> TimeEvent(d)
      [] d.el = "Guard"         -> Guard(d)
      [] d.el = "Effect"        -> Effect(d)
      [] d.el = "Entry"         -> Entry(d)
      [] d.el = "Exit"          -> Exit(d)
      [] d.el = "Activity"      -> Activity(d)
      [] d.el = "Defer"         -> Defer(d)
      [] d.el = "EntryPoint"    -> EntryPoint(d)
      [] d.el = "ExitPoint"     -> ExitPoint(d)
      [] d.el = "Attribute"     -> Attribute(d)
      [] d.el = "Operation"     -> Operation(d)
      [] d.el = "Observe"       -> Observe(d)
      [] d.el = "End"           -> End

(***************************************************************************)
(* Resolvers                                                               *)
(***************************************************************************)
Resolved(ms) ==
    members' = ms /\ pending' = Tail(pending) /\ UNCHANGED <<phase, events, stack>>

ResolveTarget(r) ==
    IF members[r.transition].target # NoPath THEN Reject
    ELSE Resolved([members EXCEPT ![r.transition].target = r.name])

PointsNamed(type, name, v) == {p \in DOMAIN members :
                                  members[p].type = type /\ Last(p) = name /\ IsAncestor(v, p)}

\* Mutant: in the order of their declarations.
PointAnywhere(type, name, v, depth) ==
    LET points == PointsNamed(type, name, v)
    IN  IF points = {} THEN << >> ELSE Head(InOrder(points))

\* The first declared point of that name below v, one that is at most depth
\* levels below it before all others; << >> when there is none.
PointBelow(type, name, v, depth) ==
    LET points == PointsNamed(type, name, v)
        near == {p \in points : Len(p) <= Len(v) + depth}
    IN  IF points = {} THEN << >> ELSE Head(InOrder(IF near = {} THEN points ELSE near))

ResolveEntryPoint(r) ==
    LET target == members[r.transition].target
        point  == PointBelow("entryPoint", r.point, target, 2)
    IN  IF target = NoPath \/ point = << >> THEN Reject
        ELSE Resolved([members EXCEPT ![r.transition].target = point])

\* Mutant: the submachine state keeps the transition in its list.
ResolveExitPointKeeping(r) ==
    LET source == members[r.transition].source
        point  == PointBelow("exitPoint", r.point, source, 1)
    IN  IF ~IsSubmachine(members, source) \/ point = << >> THEN Reject
        ELSE Resolved(AddOutgoing([members EXCEPT ![r.transition].source = point],
                                  point, r.transition))

\* A handler of an exit point moves from its submachine state to the point.
ResolveExitPoint(r) ==
    LET t      == r.transition
        source == members[t].source
        point  == PointBelow("exitPoint", r.point, source, 1)
    IN  IF ~IsSubmachine(members, source) \/ point = << >> THEN Reject
        ELSE Resolved(AddOutgoing(
                 [members EXCEPT ![source].transitions = SelectSeq(@, LAMBDA u : u # t),
                                 ![t].source = point],
                 point, t))

\* Mutant: entry points are not looked through.
KindOfNames(t) ==
    LET e == members[t]
    IN  IF e.kind # "none" THEN e.kind
        ELSE IF e.target = e.source THEN "self"
        ELSE IF e.target = NoPath THEN "internal"
        ELSE IF IsAncestor(e.source, e.target) THEN "local"
        ELSE "external"

\* KindResolver
KindOf(t) ==
    LET e == members[t]
    IN  IF e.kind # "none" THEN e.kind
        ELSE IF /\ e.target \in DOMAIN members
                /\ members[e.target].type = "entryPoint"
                /\ e.source = PointBoundary(members, e.target)
        THEN "external"
        ELSE IF e.target = e.source THEN "self"
        ELSE IF e.target = NoPath THEN "internal"
        ELSE IF IsAncestor(e.source, e.target) THEN "local"
        ELSE "external"

ResolveKind(r) == Resolved([members EXCEPT ![r.transition].kind = KindOf(r.transition)])

\* A timer's activity runs while the source of its transition is active; two
\* transitions of one state never share one.
ResolveActivity(r) ==
    LET source == members[r.transition].source
        name   == source \o <<"activity">> \o r.event
        added  == IF name \in DOMAIN members THEN members
                  ELSE Put(name, [type |-> "concurrent", fn |-> "timer", wraps |-> << >>,
                                    async |-> TRUE])
    IN  IF ~IsState(members, source) THEN Resolved(members)
        ELSE Resolved([added EXCEPT ![source].activity =
                          IF name \in ToSet(@) THEN @ ELSE Append(@, name)])

Resolver(r) ==
    CASE r.resolves = "target"     -> ResolveTarget(r)
      [] r.resolves = "entryPoint" -> ResolveEntryPoint(r)
      [] r.resolves = "exitPoint"  -> ResolveExitPoint(r)
      [] r.resolves = "kind"       -> ResolveKind(r)
      [] r.resolves = "activity"   -> ResolveActivity(r)

(***************************************************************************)
(* Observations                                                            *)
(***************************************************************************)
\* Mutant: in the order of their declarations.
ObservationsForward(ms) ==
    LET os == {p \in DOMAIN ms : ms[p].type = "observation"}
    IN  SetToSortSeq(os, LAMBDA p, q : ms[p].at < ms[q].at)

\* The observations, the last one declared first; one with the callback and
\* the targets of an earlier one in this order is not applied again.
Observations(ms) ==
    LET os == {p \in DOMAIN ms : ms[p].type = "observation"}
        again(p) == \E q \in os : /\ ms[q].at > ms[p].at /\ ms[q].fn = ms[p].fn
                                  /\ ms[q].targets = ms[p].targets
    IN  SetToSortSeq({p \in os : ~again(p)}, LAMBDA p, q : ms[p].at > ms[q].at)

\* Mutant: only what was declared before an observation is observed by it.
ObservableSoFar(ms, path) == {p \in DOMAIN ms : ms[p].at \in 1 .. ms[path].at}

\* Mutant: what one observation adds is observed by the next.
ObservableAll(ms, path) == DOMAIN ms

\* Everything but what observations add, which is below them.
Observable(ms, path) ==
    {p \in DOMAIN ms : \A q \in DOMAIN ms : ms[q].type = "observation" => ~IsAncestor(q, p)}

Matches(o, names) == o.targets = {} \/ o.targets \cap names # {}

\* An observation goes before the effects of the transitions it matches and
\* wraps the behaviours it matches.
Observed(ms, path) ==
    LET o == ms[path]
        behavior(t) == path \o <<"event">> \o t
        ts == {p \in Observable(ms, path) : /\ ms[p].type = "transition"
                                            /\ Matches(o, {p} \cup ToSet(ms[p].events))}
        bs == {p \in Observable(ms, path) :
                  ms[p].type \in {"behavior", "concurrent", "operation"} /\ Matches(o, {p})}
        woven == [p \in DOMAIN ms |->
                     IF p \in ts THEN [ms[p] EXCEPT !.effect = <<behavior(p)>> \o @]
                     ELSE IF p \in bs THEN [ms[p] EXCEPT !.wraps = <<path>> \o @]
                     ELSE ms[p]]
    IN  [b \in {behavior(t) : t \in ts} |->
            [type |-> "behavior", fn |-> o.fn, wraps |-> << >>, async |-> FALSE, at |-> 0]] @@ woven

(***************************************************************************)
(* Definitions                                                             *)
(***************************************************************************)
Model == [NewState("model") EXCEPT !.type = "model"]

Start(name, from) ==
    /\ phase' = "declaring" /\ root' = <<name>>
    /\ members' = (<<name>> :> (Model @@ [at |-> 1]))
    /\ events' = {} /\ pending' = << >>
    /\ stack' = <<Open("model", <<name>>)>>
    /\ script' = from /\ todo' = from
    /\ UNCHANGED library

Define(d)   == phase = "idle" /\ d.el = "Define" /\ Start(d.name, << >>)
Redefine(d) == phase = "idle" /\ d.el = "Redefine" /\ Start(d.name, library[d.of].script)

\* The next declaration of the model being defined.
DeclareNext(d) ==
    /\ phase = "declaring" /\ todo = << >>
    /\ d.el \notin {"Define", "Redefine", "Done"}
    /\ Declare(d)
    /\ script' = Append(script, d)
    /\ todo' = IF d.el = "Submachine"
               THEN Append(library[d.machine].script, [el |-> "Replayed"]) ELSE << >>
    /\ UNCHANGED <<root, library>>

\* The next declaration of a model that is being replayed.
Replay ==
    LET d == Head(todo)
    IN  /\ phase = "declaring" /\ todo # << >>
        /\ Declare(d)
        /\ todo' = (IF d.el = "Submachine"
                    THEN Append(library[d.machine].script, [el |-> "Replayed"]) ELSE << >>)
                   \o Tail(todo)
        /\ UNCHANGED <<plan, root, script, library>>

Done(d) ==
    /\ phase = "declaring" /\ todo = << >> /\ d.el = "Done" /\ Len(stack) = 1
    /\ phase' = "resolving"
    /\ UNCHANGED <<root, members, events, stack, pending, script, todo, library>>

ResolveNext ==
    /\ phase = "resolving" /\ pending # << >>
    /\ Resolver(Head(pending))
    /\ UNCHANGED <<plan, root, script, todo, library>>

\* The validator, then the observations of the finalizer.
ValidateAndFinalize ==
    /\ phase = "resolving" /\ pending = << >>
    /\ IF Valid(members, root, events)
       THEN /\ phase' = "accepted"
            /\ members' = FoldLeft(Observed, members, Observations(members))
            /\ UNCHANGED <<events, stack, pending>>
       ELSE Reject
    /\ UNCHANGED <<plan, root, script, todo, library>>

\* The model is kept for later definitions.
Keep ==
    /\ phase = "accepted" /\ plan # << >>
    /\ phase' = "idle"
    /\ library' = (root[1] :> [root |-> root, script |-> script, members |-> members]) @@ library
    /\ UNCHANGED <<plan, root, modelVars, script, todo>>

Init ==
    /\ plan \in Plans
    /\ phase = "idle" /\ root = << >> /\ members = << >> /\ events = {}
    /\ stack = << >> /\ pending = << >> /\ script = << >> /\ todo = << >>
    /\ library = << >>

Read(d) == \/ Define(d)
           \/ Redefine(d)
           \/ DeclareNext(d)
           \/ Done(d)

\* An empty block leaves out what the others of its set declare.
ReadNext(block) ==
    IF block = << >>
    THEN /\ plan' = Tail(plan)
         /\ UNCHANGED <<phase, root, modelVars, script, todo, library>>
    ELSE /\ plan' = (IF Len(block) = 1 THEN << >> ELSE <<{Tail(block)}>>) \o Tail(plan)
         /\ Read(Head(block))

Next ==
    \/ plan # << >> /\ \E block \in Head(plan) : ReadNext(block)
    \/ Replay
    \/ ResolveNext
    \/ ValidateAndFinalize
    \/ Keep

Spec == Init /\ [][Next]_vars
=============================================================================
