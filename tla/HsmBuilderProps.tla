---------------------------- MODULE HsmBuilderProps ----------------------------
(***************************************************************************)
(* What every model that Define() and Redefine() accept is like.           *)
(***************************************************************************)
EXTENDS HsmBuilder

Of(types)   == {p \in DOMAIN members : members[p].type \in types}
Transitions == Of({"transition"})
Vertices    == Of(StateType \cup PseudoType)

Accepted == phase = "accepted"

(***************************************************************************)
(* A transition leaves where it is listed: it is once in the transitions of*)
(* its source and in no others, after Source(), the handlers that move to  *)
(* an exit point and the replays.  The finalizer looks transitions up by   *)
(* these lists, _transition by their source.  A choice that is declared    *)
(* again has only the transitions of its last declaration; the others stay *)
(* members that nothing lists.                                             *)
(***************************************************************************)
Listed(t, v) == Cardinality({i \in DOMAIN members[v].transitions :
                                 members[v].transitions[i] = t})
Dropped(t) ==
    LET v == members[t].source
    IN  /\ Dirname(t) = v /\ members[v].type = "choice"
        /\ \A u \in ToSet(members[v].transitions) : members[t].at < members[u].at
OutgoingIsSource ==
    Accepted => \A t \in Transitions, v \in Vertices :
                    \/ Listed(t, v) = IF v = members[t].source THEN 1 ELSE 0
                    \/ Listed(t, v) = 0 /\ Dropped(t)

(***************************************************************************)
(* README.md "Transition kinds are inferred", of the ends a transition has *)
(* once everything is resolved: one that stays in its state is internal or *)
(* goes below it, and one that enters by an entry point of its own state   *)
(* leaves the state first.                                                 *)
(***************************************************************************)
EntersItself(t) == LET e == members[t]
                   IN  Is(members, e.target, {"entryPoint"})
                       /\ IsAncestor(e.source, e.target)
                       /\ IsSubmachine(members, e.source)
KindsOfEnds ==
    Accepted => \A t \in Transitions :
        LET e == members[t]
        IN  members[e.source].type \in StateType =>
                /\ e.kind = "internal" <=> e.target = NoPath
                /\ e.kind = "self"     <=> e.target = e.source
                /\ e.kind = "local"    <=> /\ IsAncestor(e.source, e.target)
                                           /\ ~EntersItself(t)

(***************************************************************************)
(* README.md "Composed submachines flatten the referenced model": a        *)
(* composed machine is the machine.  Each vertex has its image below the   *)
(* submachine state, with as many transitions, of the same kinds, to the   *)
(* images of their targets and on the images of their triggers (attributes *)
(* move to the top-level model), and as many activities.  Exit points get  *)
(* handlers, and the machine itself is the submachine state.  A model      *)
(* redefined under its own name is itself and more.  Machines are composed *)
(* directly in the model here, and their vertices and timers have names.   *)
(***************************************************************************)
Image(machine, boundary, name) ==
    CASE ~IsPrefix(machine.root, name) -> name
      [] Dirname(name) = machine.root /\ Is(machine.members, name, {"attribute"})
            -> Append(root, Last(name))
      [] OTHER -> boundary \o Tail(name)

Flattened(machine, boundary) ==
    LET was == machine.members
        image(name) == Image(machine, boundary, name)
        alike(t, u) == /\ u.target = image(t.target) /\ u.kind = t.kind
                       /\ u.events = [i \in DOMAIN t.events |-> image(t.events[i])]
        fixed == {p \in DOMAIN was : /\ was[p].type \in StateType \cup PseudoType
                                     /\ was[p].type # "exitPoint" /\ p # machine.root}
    IN  \A v \in fixed :
            LET w == members[image(v)]
            IN  /\ image(v) \in DOMAIN members /\ w.type = was[v].type
                /\ was[v].type \in StateType => Len(w.activity) = Len(was[v].activity)
                /\ Len(w.transitions) = Len(was[v].transitions)
                /\ \A i \in DOMAIN w.transitions :
                       alike(was[was[v].transitions[i]], members[w.transitions[i]])

FlattenedAlike ==
    Accepted =>
        /\ \A d \in {e \in ToSet(script) : e.el = "Submachine"} :
               Flattened(library[d.machine], Append(root, d.name))
        /\ root[1] \in DOMAIN library => Flattened(library[root[1]], root)

(***************************************************************************)
(* A handler of an exit point without a guard hides no guarded handler:    *)
(* whatever is declared first, the guards are asked before.                *)
(***************************************************************************)
OutcomesInOrder ==
    Accepted => \A v \in Of({"exitPoint"}) :
        LET ts == members[v].transitions
            handler(i) == members[ts[i]].target # Dirname(v)
        IN  \A i, j \in DOMAIN ts :
                (handler(i) /\ handler(j) /\ members[ts[i]].guard = NoPath
                    /\ members[ts[j]].guard # NoPath) => j < i

(***************************************************************************)
(* CHANGELOG.md 1.3.11: the handler that a host declares on a submachine   *)
(* state is one of the composed machine's own exit point, whatever points  *)
(* of that name are deeper in it.                                          *)
(***************************************************************************)
HandlersOfOwnPoint ==
    Accepted => \A t \in Transitions :
        LET point == members[t].source
            own   == Append(Dirname(t), Last(point))
        IN  (/\ Is(members, point, {"exitPoint"})
             /\ IsSubmachine(members, Dirname(t))
             /\ Is(members, own, {"exitPoint"})) => point = own

(***************************************************************************)
(* CHANGELOG.md 1.3.10, "covered exactly once", also what a redefinition   *)
(* adds: of the observations that match a transition or a behaviour, those *)
(* of one callback and the same targets observe it once, none is missing,  *)
(* they run in the order of their declarations and before its own effects. *)
(* What observations add themselves is not observed.                       *)
(***************************************************************************)
Observers == Of({"observation"})
Callback(o) == [fn |-> members[o].fn, targets |-> members[o].targets]

\* The observation that added the behaviour e, NoPath for one of the model.
AddedBy(e) == LET os == {o \in Observers : IsAncestor(o, e)}
              IN  IF os = {} THEN NoPath ELSE CHOOSE o \in os : TRUE

\* The observations os, in this order, are those of what goes by these names.
ObservedBy(os, names) ==
    /\ {Callback(os[i]) : i \in DOMAIN os} =
           {Callback(o) : o \in {q \in Observers : Matches(members[q], names)}}
    /\ \A i, j \in DOMAIN os : i < j => /\ members[os[i]].at < members[os[j]].at
                                        /\ Callback(os[i]) # Callback(os[j])

ObservedOnce ==
    Accepted =>
        /\ \A t \in Transitions :
               LET added == [i \in DOMAIN members[t].effect |-> AddedBy(members[t].effect[i])]
                   own   == SelectSeq(added, LAMBDA o : o = NoPath)
                   os    == SelectSeq(added, LAMBDA o : o # NoPath)
               IN  added = os \o own /\ ObservedBy(os, {t} \cup ToSet(members[t].events))
        /\ \A b \in Of({"behavior", "concurrent", "operation"}) :
               IF AddedBy(b) = NoPath THEN ObservedBy(members[b].wraps, {b})
               ELSE members[b].wraps = << >>

(***************************************************************************)
(* What the finalizer and the runtime take for granted: they look up every *)
(* prefix of a name in model.members, and follow a transition from where it*)
(* is listed.  A model that is accepted is a chart of HsmFinalizer: every  *)
(* vertex is in a state, or, a choice, in a transition of one; transitions *)
(* start where they are listed, and those of a pseudostate go somewhere.   *)
(* No transition that leaves a state is declared in a choice here: a choice*)
(* as its target would have the other one in its name.  _enter and         *)
(* _enter_entry_point return a pseudostate itself when none of its         *)
(* transitions is taken, and the machine would rest in it: none does not   *)
(* lead on, also once a choice is declared again under its name.           *)
(***************************************************************************)
Finalizer == INSTANCE HsmFinalizer

Name(path) == IF path = NoPath THEN Finalizer!Nothing
              ELSE FoldLeft(LAMBDA name, part : name \o "/" \o part, "", path)

ChartKind(type) == CASE type = "model"      -> "state"
                     [] type = "entryPoint" -> "entry"
                     [] type = "exitPoint"  -> "exit"
                     [] OTHER               -> type

\* The state a vertex is declared in.
Owner(v) == IF v = root THEN v
            ELSE IF Is(members, Dirname(v), {"transition"}) THEN Dirname(Dirname(v))
            ELSE Dirname(v)

\* The one transition of the initial vertex of a state, which starts there.
FirstOf(s) == IF ~IsState(members, s) \/ members[s].initial = NoPath THEN NoPath
              ELSE members[members[s].initial].transitions[1]

SourceOf(t) == LET v == members[t].source
             IN  IF members[v].type = "initial" THEN Dirname(v) ELSE v

Charted ==
    LET vertices == Vertices \ Of({"initial"})
        Named(paths, f(_)) == [n \in {Name(p) : p \in paths} |->
                                  f(CHOOSE p \in paths : Name(p) = n)]
        NamesOf(paths) == [i \in DOMAIN paths |-> Name(paths[i])]
        ActivitiesOf(v) == IF IsState(members, v) THEN members[v].activity ELSE << >>
    IN  [root       |-> Name(root),
         vertex     |-> {Name(v) : v \in vertices},
         kind       |-> Named(vertices, LAMBDA v : ChartKind(members[v].type)),
         parent     |-> Named(vertices, LAMBDA v : Name(Owner(v))),
         initial    |-> Named(vertices, LAMBDA v : Name(FirstOf(v))),
         outgoing   |-> Named(vertices, LAMBDA v : NamesOf(members[v].transitions)),
         activities |-> Named(vertices, LAMBDA v : NamesOf(ActivitiesOf(v))),
         activity   |-> {Name(p) : p \in {q \in DOMAIN members : IsBehavior(members, q)}},
         transition |-> {Name(t) : t \in Transitions},
         source     |-> Named(Transitions, LAMBDA t : Name(SourceOf(t))),
         target     |-> Named(Transitions, LAMBDA t : Name(members[t].target)),
         guarded    |-> {Name(t) : t \in {u \in Transitions : members[u].guard # NoPath}}]

LeadsOn(v) ==
    LET ts == members[v].transitions
    IN  /\ ts # << >> /\ members[Last(ts)].guard = NoPath
        /\ \A t \in ToSet(ts) : members[t].target \in Vertices \ {v}

AcceptedIsChart ==
    Accepted => /\ Finalizer!IsChart(Charted) /\ Finalizer!WaysOpen(Charted)
                /\ Finalizer!ActivitiesListed(Charted)
                /\ \A v \in Of({"initial", "choice", "entryPoint"}) : LeadsOn(v)
=============================================================================
