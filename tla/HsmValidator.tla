----------------------------- MODULE HsmValidator -----------------------------
(***************************************************************************)
(* DefaultModelValidator: which members a declared model may have.  ms is  *)
(* model.members, a function of qualified names; every member is checked by*)
(* the most special of the methods for its class.                          *)
(***************************************************************************)
EXTENDS Integers, FiniteSets, SequencesExt

NoPath       == << >>
InitialEvent == <<"hsm/initial">>
AnyEvent     == <<"*">>

Dirname(path) == IF path = << >> THEN << >> ELSE Front(path)
IsAncestor(current, target) == IsStrictPrefix(current, target)

StateType  == {"model", "state", "submachine", "final"}
PseudoType == {"initial", "choice", "shallow", "deep", "entryPoint", "exitPoint"}

Is(ms, path, types)   == path \in DOMAIN ms /\ ms[path].type \in types
IsState(ms, path)     == Is(ms, path, StateType)
IsSubmachine(ms, path) == Is(ms, path, {"submachine"})
IsPseudostate(ms, path) == Is(ms, path, PseudoType)
IsVertex(ms, path)    == Is(ms, path, StateType \cup PseudoType)
IsBehavior(ms, path)  == Is(ms, path, {"behavior", "concurrent", "operation"})

Owned(ms, path, types) == {p \in DOMAIN ms : Dirname(p) = path /\ ms[p].type \in types}

\* The submachine state an entry point belongs to: its owner, or else what
\* is above that.
PointBoundary(ms, point) ==
    LET owner == Dirname(point)
    IN  IF IsSubmachine(ms, owner) THEN owner ELSE Dirname(owner)

Synchronous(ms, behaviors) == \A b \in ToSet(behaviors) : IsBehavior(ms, b) /\ ~ms[b].async

(***************************************************************************)
(* States                                                                  *)
(***************************************************************************)
\* No state has a `submachine`: a submachine state is one by its kind, and
\* may have nested states.
ValidState(ms, s) ==
    /\ \A type \in {"initial", "shallow", "deep"} : Cardinality(Owned(ms, s, {type})) <= 1
    /\ ms[s].initial # NoPath => Is(ms, ms[s].initial, {"initial"})
    /\ Synchronous(ms, ms[s].entry) /\ Synchronous(ms, ms[s].exit)
    /\ \A a \in ToSet(ms[s].activity) : IsBehavior(ms, a)

ValidModel(ms, s) ==
    /\ Len(s) = 1
    /\ ms[s].initial # NoPath /\ ms[s].entry = << >> /\ ms[s].exit = << >>
    /\ ValidState(ms, s)

\* A final state has nothing below it but what it defers.
ValidFinalState(ms, s) ==
    /\ ms[s].transitions = << >> /\ ms[s].initial = NoPath
    /\ Owned(ms, s, StateType \cup PseudoType \cup {"transition"}) = {}
    /\ ms[s].entry = << >> /\ ms[s].exit = << >> /\ ms[s].activity = << >>

(***************************************************************************)
(* Pseudostates                                                            *)
(***************************************************************************)
ValidPseudostate(ms, v) ==
    /\ ms[v].type # "exitPoint" => Len(ms[v].transitions) <= 1
    /\ (ms[v].type = "entryPoint" /\ ms[v].transitions # << >>
            /\ ms[v].transitions[1] \in DOMAIN ms)
           => ms[ms[v].transitions[1]].guard = NoPath

\* Mutant: the last way out of a choice may be guarded.
ValidChoiceOpen(ms, v) ==
    /\ ms[v].transitions # << >>
    /\ \E t \in DOMAIN ms : ms[t].type = "transition" /\ ms[t].target = v

ValidChoice(ms, v) ==
    /\ ms[v].transitions # << >>
    /\ \E t \in DOMAIN ms : ms[t].type = "transition" /\ ms[t].target = v
    /\ LET last == Last(ms[v].transitions)
       IN  Is(ms, last, {"transition"}) => ms[last].guard = NoPath

(***************************************************************************)
(* Transitions                                                             *)
(***************************************************************************)
\* Only a submachine state has entry points that can be targeted, and only
\* from outside it or from an exit point.
ValidEntry(ms, source, target) ==
    /\ Is(ms, source, {"exitPoint"}) \/ ~IsAncestor(Dirname(target), source)
    /\ IsSubmachine(ms, PointBoundary(ms, target))

ValidEnds(ms, source, target) ==
    /\ IsVertex(ms, source)
    /\ IF target = NoPath THEN ~IsPseudostate(ms, source) ELSE IsVertex(ms, target)
    /\ Is(ms, target, {"entryPoint"}) => ValidEntry(ms, source, target)

ValidTriggers(ms, t, events) ==
    LET source == ms[t].source
        names  == ToSet(ms[t].events)
    IN  /\ IF Is(ms, source, {"initial"})
           THEN names \subseteq {InitialEvent} /\ ms[t].guard = NoPath
           ELSE IF IsPseudostate(ms, source) THEN names = {} ELSE names # {}
        /\ names \subseteq events

ValidTransition(ms, t, events) ==
    LET source == ms[t].source
    IN  /\ ValidEnds(ms, source, ms[t].target)
        /\ ms[t].target = NoPath => ms[t].effect # << >>
        /\ ValidTriggers(ms, t, events)
        /\ ms[t].guard # NoPath => Is(ms, ms[t].guard, {"constraint"}) /\ ~ms[ms[t].guard].async
        /\ Synchronous(ms, ms[t].effect)
        /\ ms[t].kind = "external" => ~Is(ms, source, {"entryPoint"})
        /\ ms[t].kind = "internal" => IsState(ms, source)

ValidMember(ms, p, events) ==
    CASE ms[p].type = "model"      -> ValidModel(ms, p)
      [] ms[p].type \in {"state", "submachine"} -> ValidState(ms, p)
      [] ms[p].type = "final"      -> ValidFinalState(ms, p)
      [] ms[p].type = "choice"     -> ValidChoice(ms, p)
      [] ms[p].type \in PseudoType \ {"choice"} -> ValidPseudostate(ms, p)
      [] ms[p].type = "transition" -> ValidTransition(ms, p, events)
      [] ms[p].type = "concurrent" -> ms[p].async
      [] OTHER -> TRUE

Valid(ms, root, events) == \A p \in DOMAIN ms : ValidMember(ms, p, events)
=============================================================================
