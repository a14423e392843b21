------------------------------ MODULE HsmTables ------------------------------
(***************************************************************************)
(* The FinalizedModel (hsm.py): the lookup tables of one model, which the  *)
(* finalizer computes once and the runtime only reads.                     *)
(***************************************************************************)
EXTENDS Integers, Sequences

CONSTANTS
    Model,  \* the FinalizedModel, a record: see HsmFinalizer!Finalize
    None    \* Python's None and the empty name

Root              == Model.root
Vertex            == Model.vertex
StateVertex       == Model.states
Transition        == Model.transition
EventName         == Model.event
Kind(v)           == Model.kind[v]
Chain(v)          == Model.chain[v]
Initial(v)        == Model.initial[v]
Outgoing(v)       == Model.outgoing[v]
Source(t)         == Model.source[t]
Target(t)         == Model.target[t]
Guarded(t)        == t \in Model.guarded
Activity          == Model.activity
Activities(v)     == Model.activities[v]
EnterPath(t, v)   == Model.paths[t][v].enter
ExitPath(t, v)    == Model.paths[t][v].exit
History           == Model.histories
HistoryTargets(v, skip) == Model.historyTargets[v][skip]
HistoryPath(h, v) == Model.historyPath[h][v]
TransitionMap(s, n) == Model.transitionMap[s][n]
DeferredMap(s, n) == Model.deferredMap[s][n]
Submachine(s)     == Model.submachine[s]

IsAncestor(v, w) == v # w /\ \E i \in DOMAIN Chain(w) : Chain(w)[i] = v

\* A transition from an exit point to the submachine state that owns it is a
\* handler: its effects run and the branches are gone through further.
IsHandler(t) == Kind(Source(t)) = "exit" /\ Target(t) = Chain(Source(t))[2]

(***************************************************************************)
(* The types of the tables                                                 *)
(***************************************************************************)
NamesTyped ==
    /\ Root \in StateVertex /\ StateVertex \subseteq Vertex /\ None \notin Vertex
    /\ History \subseteq Vertex \ StateVertex

VerticesTyped == \A v \in Vertex :
    /\ Chain(v) \in Seq(Vertex) /\ Chain(v) # << >>
    /\ v \in History => Len(Chain(v)) > 1
    /\ Initial(v) \in Transition \cup {None} /\ Outgoing(v) \in Seq(Transition)
    /\ Submachine(v) \in Vertex \cup {None}
    /\ Activities(v) \in Seq(Activity)
    /\ \A n \in EventName : /\ TransitionMap(v, n) \in Seq(Transition)
                            /\ DeferredMap(v, n) \in Vertex \cup {None}
    /\ \A skip \in Vertex \cup {None} :
           HistoryTargets(v, skip) \in [History -> Vertex \cup {None}]
    /\ \A h \in History : HistoryPath(h, v) \in Seq(Vertex)

TransitionsTyped == \A t \in Transition :
    /\ Source(t) \in Vertex /\ Target(t) \in Vertex \cup {None}
    /\ \A v \in Vertex : EnterPath(t, v) \in Seq(Vertex) /\ ExitPath(t, v) \in Seq(Vertex)

TablesTyped == NamesTyped /\ VerticesTyped /\ TransitionsTyped

(***************************************************************************)
(* Ways through a model.  The active states are one state, the tip, and    *)
(* its ancestors.  Base(v) is the tip while the machine is in v, Foot(v)   *)
(* the tip when it may enter v: an entry point is entered, and its         *)
(* submachine with the target of its transition, from outside of it.       *)
(***************************************************************************)
Up(v) == IF v = Root THEN Root ELSE Chain(v)[2]

EntryPoint == {v \in Vertex \ StateVertex : Kind(v) = "entry"}

Boundary(v) == IF Kind(Up(v)) = "submachine" THEN Up(v) ELSE Up(Up(v))

Foot(v) == IF v \in EntryPoint THEN Up(Boundary(v)) ELSE Up(v)
Base(v) == IF v \in StateVertex THEN v ELSE Foot(v)

\* The transition t is followed from v.
Fires(t, v) ==
    IF v \in StateVertex
    THEN \/ t = Initial(v) /\ t # None
         \/ \E n \in EventName : \E i \in DOMAIN TransitionMap(v, n) : TransitionMap(v, n)[i] = t
    ELSE ~IsHandler(t) /\ \E i \in DOMAIN Outgoing(v) : Outgoing(v)[i] = t

\* The path e leads from the tip s down to the target.
Descends(e, s, target) ==
    /\ e # << >> /\ e[Len(e)] = target
    /\ \A i \in DOMAIN e : Foot(e[i]) = IF i = 1 THEN s ELSE e[i - 1]
    /\ \A i \in 1 .. Len(e) - 1 : e[i] \in StateVertex \ {Root, target}

\* The path x leads from v up.
Ascends(x, v) ==
    /\ \A i \in DOMAIN x : x[i] = IF i = 1 THEN v ELSE Up(x[i - 1])
    /\ v \in EntryPoint => x = << >>

\* The tip after the path x.
Summit(x, v) == IF x = << >> THEN Base(v) ELSE Up(x[Len(x)])

\* Going up the exit path of t from v and down its enter path ends in the
\* target.  A transition without a target stays in its state.
Leads(t, v) ==
    LET x == ExitPath(t, v)
        e == EnterPath(t, v)
    IN  /\ Ascends(x, v)
        /\ IF Target(t) = None THEN v \in StateVertex /\ x = << >>
           ELSE IF e = << >> THEN Target(t) = Summit(x, v)
           ELSE Descends(e, Summit(x, v), Target(t))

ByEntryPoint(t, v) == v \in EntryPoint \/ Target(t) \in EntryPoint

(***************************************************************************)
(* What DefaultModelFinalizer promises of the tables                       *)
(***************************************************************************)
\* posixpath.dirname: the chain of a vertex is its own name and the chain of
\* its parent, a state, up to the root.
TreeShaped == \A v \in Vertex :
    LET c == Chain(v)
    IN  /\ c[1] = v /\ c[Len(c)] = Root
        /\ v = Root \/ Len(c) > 1
        /\ \A i \in DOMAIN c : /\ Chain(c[i]) = SubSeq(c, i, Len(c))
                               /\ i > 1 => c[i] \in StateVertex

\* _finalize_path_for_current: the paths of a transition join where it is
\* followed from with where it goes.
PathsLead == \A t \in Transition, v \in Vertex :
    Fires(t, v) /\ ~ByEntryPoint(t, v) => Leads(t, v)

\* The same for the ways to and from an entry point.  The finalizer promises
\* this only for a submachine whose parent is the tip when it is entered.
PointsJoin == \A t \in Transition, v \in Vertex :
    Fires(t, v) /\ ByEntryPoint(t, v) => Leads(t, v)

\* A target that is not a state is the end of the enter path.
PathsEnd == \A t \in Transition, v \in Vertex :
    Fires(t, v) /\ Target(t) \in Vertex \ StateVertex =>
        LET e == EnterPath(t, v) IN e # << >> /\ e[Len(e)] = Target(t)

\* _history_targets and _finalize_history_paths: a history remembers states
\* below its owner, and its path leads down to what it remembers.
HistoriesReturn == \A h \in History :
    /\ h \notin EntryPoint
    /\ \A v \in Vertex, skip \in Vertex \cup {None} :
           LET r == HistoryTargets(v, skip)[h]
           IN  r # None => r \in StateVertex /\ IsAncestor(Up(h), r)
    /\ \A r \in StateVertex :
           IsAncestor(Up(h), r) => Descends(HistoryPath(h, r), Up(h), r)

\* DefaultModelValidator: the transitions of a vertex start there and, when
\* it is not a state, have a target; those of an entry point have no guard,
\* and one of a choice has none.
BranchesLead == \A v \in Vertex \ StateVertex :
    /\ \A i \in DOMAIN Outgoing(v) :
           LET t == Outgoing(v)[i]
           IN  /\ Source(t) = v /\ Target(t) # None
               /\ v \in EntryPoint => ~Guarded(t)
    /\ v \in History \cup EntryPoint \/ Kind(v) = "exit"
          \/ \E i \in DOMAIN Outgoing(v) : ~Guarded(Outgoing(v)[i])

\* An entry point has a transition: the validator asks for none.
PointsEnter == \A v \in EntryPoint : Outgoing(v) # << >>

\* Activities are filed under their qualified names: each stands in one place
\* of one state.  The model has none: stop() does not end those.
ActivitiesApart ==
    /\ \A v \in (Vertex \ StateVertex) \cup {Root} : Activities(v) = << >>
    /\ \A v, w \in StateVertex : \A i \in DOMAIN Activities(v) : \A j \in DOMAIN Activities(w) :
           Activities(v)[i] = Activities(w)[j] => v = w /\ i = j

\* No machine that runs comes to rest in its model: the default entry of the
\* model leads to a state in it, and nothing leads back.
ModelLeads ==
    /\ Kind(Root) # "final" /\ Initial(Root) # None /\ Target(Initial(Root)) # None
    /\ \A t \in Transition : Target(t) # Root
=============================================================================
