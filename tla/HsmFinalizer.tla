---------------------------- MODULE HsmFinalizer ----------------------------
(***************************************************************************)
(* DefaultModelFinalizer: the lookup tables that hsm.py computes once from *)
(* a declared chart and that the runtime then only reads: the exit and     *)
(* enter path of every transition from every vertex it can be taken in,    *)
(* the candidate transitions and the deferred events of every state, and   *)
(* what every history vertex remembers and replays.                        *)
(*                                                                         *)
(* A chart m is a record.  A qualified name is a vertex, posixpath.dirname *)
(* is the function m.parent, and the "/" above the model root is Top.  The *)
(* name of a transition that a choice is declared in is left out of paths: *)
(* _enter and _exit do nothing for it, so the state around it is the       *)
(* parent.  The kind of a vertex is "state", "final", "submachine",        *)
(* "choice", "shallow", "deep", "entry" or "exit"; the initial pseudostate *)
(* of a state is not a vertex of the chart: m.initial gives its one        *)
(* transition, whose source is its state.                                  *)
(***************************************************************************)
EXTENDS Integers, FiniteSets, SequencesExt

Top  == "/"
Nothing == "-"   \* what is absent: None, the empty name

\* The elements of s that are in keep, in their order.
Only(s, keep) ==
    LET upTo[i \in 0 .. Len(s)] ==
            IF i = 0 THEN << >>
            ELSE IF s[i] \in keep THEN Append(upTo[i - 1], s[i]) ELSE upTo[i - 1]
    IN  upTo[Len(s)]

(***************************************************************************)
(* Names                                                                   *)
(***************************************************************************)
Dirname(m, v) == IF v \in {m.root, Top} THEN Top ELSE m.parent[v]

\* v, its parent, ... up to the root.
Chain(m, v) ==
    LET chain[w \in m.vertex] ==
            IF w = m.root THEN <<w>> ELSE <<w>> \o chain[m.parent[w]]
    IN  IF v = Top THEN << >> ELSE chain[v]

IsAncestor(m, current, target) ==
    /\ current # target
    /\ current = Top \/ current \in ToSet(Chain(m, target))

\* Mutant: two children of one vertex are not recognised.
LCAOfCousins(m, a, b) ==
    LET lca[p \in (m.vertex \cup {Top}) \X (m.vertex \cup {Top})] ==
            IF p[1] = p[2] THEN Dirname(m, p[1])
            ELSE IF IsAncestor(m, p[1], p[2]) THEN p[1]
            ELSE IF IsAncestor(m, p[2], p[1]) THEN p[2]
            ELSE lca[<<Dirname(m, p[1]), Dirname(m, p[2])>>]
    IN  lca[<<a, b>>]

LCA(m, a, b) ==
    LET lca[p \in (m.vertex \cup {Top}) \X (m.vertex \cup {Top})] ==
            IF p[1] = p[2] \/ Dirname(m, p[1]) = Dirname(m, p[2]) THEN Dirname(m, p[1])
            ELSE IF IsAncestor(m, p[1], p[2]) THEN p[1]
            ELSE IF IsAncestor(m, p[2], p[1]) THEN p[2]
            ELSE lca[<<Dirname(m, p[1]), Dirname(m, p[2])>>]
    IN  lca[<<a, b>>]

(***************************************************************************)
(* Vertices and transitions of a chart                                     *)
(***************************************************************************)
States(m)    == {v \in m.vertex : m.kind[v] \in {"state", "final", "submachine"}}
Histories(m) == {v \in m.vertex : m.kind[v] \in {"shallow", "deep"}}
SelfOrBelow(m, v) == {w \in m.vertex : w = v \/ IsAncestor(m, v, w)}
Initials(m)  == {m.initial[s] : s \in States(m)} \ {Nothing}

Is(m, v, kind) == v \in m.vertex /\ m.kind[v] = kind

\* The submachine state that the entry point v leads into.
Boundary(m, v) ==
    IF Is(m, Dirname(m, v), "submachine") THEN Dirname(m, v) ELSE Dirname(m, Dirname(m, v))

\* KindResolver, on a transition whose kind was not declared.
TransitionKind(m, t) ==
    CASE /\ Is(m, m.target[t], "entry")
         /\ m.source[t] = Boundary(m, m.target[t])    -> "external"
      [] m.target[t] = m.source[t]                  -> "self"
      [] m.target[t] = Nothing                         -> "internal"
      [] IsAncestor(m, m.source[t], m.target[t])    -> "local"
      [] OTHER                                      -> "external"

\* The vertices a transition can be taken from.
CurrentVerticesFor(m, t) ==
    IF t \in Initials(m) \/ m.kind[m.source[t]] = "choice"
    THEN {m.source[t]}
    ELSE SelfOrBelow(m, m.source[t])

(***************************************************************************)
(* Paths                                                                   *)
(***************************************************************************)
\* The vertices met going up from v before the first one in stop.
Climb(m, v, stop) ==
    LET c == Chain(m, v)
        n == CHOOSE i \in 1 .. Len(c) + 1 :
                /\ i > Len(c) \/ c[i] \in stop
                /\ \A j \in 1 .. i - 1 : c[j] \notin stop
    IN  SubSeq(c, 1, n - 1)

\* Mutant: every ancestor of the target is entered.
EnterPathAll(m, lca, target) == Reverse(Climb(m, target, {m.root}))

EnterPath(m, lca, target) == Reverse(Climb(m, target, {lca, m.root}))
ExitPath(m, lca, current) == Climb(m, current, {lca})

\* Mutant: a self transition is nothing special.
PathLCAOfEnds(m, current, t) == LCA(m, current, m.target[t])

\* An initial transition is kept local to its state: its source vertex is
\* the pseudostate below the state, so it is neither self nor external.
PathLCA(m, current, t) ==
    IF t \in Initials(m) THEN LCA(m, current, m.target[t])
    ELSE IF TransitionKind(m, t) = "self" THEN Dirname(m, m.source[t])
    ELSE IF /\ TransitionKind(m, t) = "local"
            /\ m.kind[m.target[t]] = "submachine"
            /\ IsAncestor(m, m.target[t], current)
    THEN Dirname(m, m.target[t])
    ELSE LCA(m, current, m.target[t])

\* Where the way to an entry point begins: outside its submachine state.
EntryLCA(m, current, t) ==
    LET boundary == Boundary(m, m.target[t])
    IN  IF TransitionKind(m, t) = "self" THEN Dirname(m, m.source[t])
        ELSE IF m.source[t] = boundary THEN Dirname(m, boundary)
        ELSE LCA(m, current, boundary)

NoPath == [enter |-> << >>, exit |-> << >>]

\* An entry point is entered first and its submachine state with its target:
\* nothing above the submachine state is.  A handler of an exit point leaves
\* and enters nothing.
PathForCurrent(m, current, t) ==
    IF \/ m.target[t] = Nothing
       \/ Is(m, m.source[t], "exit") /\ m.target[t] = Dirname(m, m.source[t])
    THEN NoPath
    ELSE IF Is(m, m.source[t], "entry")
    THEN [enter |-> EnterPath(m, Dirname(m, Boundary(m, m.source[t])), m.target[t]),
          exit  |-> << >>]
    ELSE IF Is(m, m.target[t], "entry")
    THEN [enter |-> <<m.target[t]>>, exit |-> ExitPath(m, EntryLCA(m, current, t), current)]
    ELSE LET lca == PathLCA(m, current, t)
         IN  [enter |-> EnterPath(m, lca, m.target[t]),
              exit  |-> ExitPath(m, lca, current)]

TransitionPaths(m) ==
    [t \in m.transition |->
        [v \in m.vertex |-> IF v \in CurrentVerticesFor(m, t)
                            THEN PathForCurrent(m, v, t) ELSE NoPath]]

(***************************************************************************)
(* History                                                                 *)
(***************************************************************************)
HistoryOwner(m, h) == Dirname(m, h)

\* Mutant: a shallow history remembers its owner.
HistoryTargetOwner(m, h, target) ==
    IF m.kind[h] = "deep" THEN target ELSE HistoryOwner(m, h)

\* What h remembers when its owner is left from target: target itself, or
\* for a shallow history the child of the owner above it.
HistoryTarget(m, h, target) ==
    IF m.kind[h] = "deep" THEN target
    ELSE CHOOSE v \in ToSet(Chain(m, target)) : Dirname(m, v) = HistoryOwner(m, h)

\* The histories updated when target is left, Nothing for the others; the
\* ones owned by skip, the owner of a targeted history, are left alone.
HistoryTargets(m, target, skip) ==
    [h \in Histories(m) |->
        IF /\ target \in States(m)
           /\ IsAncestor(m, HistoryOwner(m, h), target)
           /\ HistoryOwner(m, h) # skip
        THEN HistoryTarget(m, h, target) ELSE Nothing]

HistoryPath(m, h, remembered) == EnterPath(m, HistoryOwner(m, h), remembered)

(***************************************************************************)
(* Candidate transitions and deferred events of a state                    *)
(***************************************************************************)
\* _transition_handles_at_or_below
HandlesAtOrBelow(m, t, v) ==
    \/ m.source[t] = v /\ Dirname(m, v) = m.root
    \/ IsAncestor(m, v, m.source[t])
    \/ m.owner[t] = v
    \/ IsAncestor(m, v, m.owner[t])

\* The transitions vertex v adds for event e to a state at or below it.
VertexTransitions(m, v, e) ==
    Only(m.outgoing[v],
         {t \in m.transition : /\ e \in m.events[t]
                               /\ \/ e \notin m.deferred[v]
                                  \/ m.owner[t] = v
                                  \/ HandlesAtOrBelow(m, t, v)})

\* Innermost first; an event deferred by a state is shadowed above it.
TransitionMap(m, s, e) ==
    LET c == Chain(m, s)
        shadowed(i) == \E j \in 1 .. i - 1 : e \in m.deferred[c[j]]
    IN  FlattenSeq([i \in DOMAIN c |-> IF shadowed(i) THEN << >>
                                       ELSE VertexTransitions(m, c[i], e)])

\* The innermost state that defers e in s, Nothing when e is not deferred in s
\* or a transition without a guard handles it there.
DeferredMap(m, s, e) ==
    LET owners == Only(Chain(m, s), {v \in m.vertex : e \in m.deferred[v]})
        handled == \E t \in ToSet(TransitionMap(m, s, e)) : t \notin m.guarded
    IN  IF owners = << >> \/ handled THEN Nothing ELSE Head(owners)

\* The submachine state whose exit discards the events owner deferred.
EnclosingSubmachine(m, owner) ==
    LET subs == Only(Tail(Chain(m, owner)), {v \in m.vertex : m.kind[v] = "submachine"})
    IN  IF subs = << >> THEN Nothing ELSE Head(subs)

\* _enter_exit_point: the handlers are gone through before the outcomes.
BranchOrder(m, v) ==
    LET handlers == {t \in m.transition : Is(m, v, "exit") /\ m.target[t] = Dirname(m, v)}
    IN  Only(m.outgoing[v], handlers) \o Only(m.outgoing[v], m.transition \ handlers)

(***************************************************************************)
(* What the builder and DefaultModelValidator hand over                    *)
(***************************************************************************)
\* Names are finite and every vertex is declared in a state: the chain of a
\* vertex is its own name and the chain of its parent.
IsTree(m) ==
    /\ m.root \in States(m) /\ Top \notin m.vertex /\ Nothing \notin m.vertex
    /\ \A v \in m.vertex :
           /\ Chain(m, v) \in Seq(m.vertex)
           /\ IF v = m.root THEN Chain(m, v) = <<v>>
              ELSE /\ m.parent[v] \in States(m)
                   /\ Chain(m, v) = <<v>> \o Chain(m, m.parent[v])

\* Transitions are listed where they start, the initial ones apart, and the
\* ones of a pseudostate lead somewhere.
IsChart(m) ==
    /\ IsTree(m)
    /\ Nothing \notin m.transition
    /\ \A t \in m.transition :
           m.source[t] \in m.vertex /\ m.target[t] \in m.vertex \cup {Nothing}
    /\ \A v \in m.vertex :
           /\ m.initial[v] # Nothing =>
                  m.initial[v] \in m.transition /\ m.source[m.initial[v]] = v
           /\ m.outgoing[v] \in Seq(m.transition \ Initials(m))
           /\ \A i \in DOMAIN m.outgoing[v] :
                  LET t == m.outgoing[v][i]
                  IN  /\ m.source[t] = v
                      /\ v \notin States(m) => m.target[t] # Nothing

\* A pseudostate lets the machine on: an entry point has no guards, a choice
\* has a way without one.
WaysOpen(m) ==
    \A v \in m.vertex \ States(m) :
        LET out  == ToSet(m.outgoing[v])
        IN  CASE m.kind[v] = "entry"  -> out \cap m.guarded = {}
              [] m.kind[v] = "choice" -> out \ m.guarded # {}
              [] OTHER -> m.kind[v] \in {"shallow", "deep", "exit"}

\* An entry point is reached from below the parent of its submachine, but not
\* from inside of it, or by the initial transition of that parent, and leads on
\* to a vertex that is no entry point itself.  DefaultModelValidator asks for
\* less: see HsmTables!PointsJoin.
PointsApart(m) ==
    \A t \in m.transition :
        LET s == m.source[t]
            w == m.target[t]
            above(v) == Dirname(m, Boundary(m, v))
        IN  IF Is(m, s, "entry")
            THEN ~Is(m, w, "entry") /\ (w = above(s) \/ IsAncestor(m, above(s), w))
            ELSE Is(m, w, "entry") =>
                     /\ Is(m, Boundary(m, w), "submachine")
                     /\ \/ t \in Initials(m) /\ s = above(w)
                        \/ IsAncestor(m, above(w), s) /\ ~IsAncestor(m, Boundary(m, w), s)

\* What a chart says of its vertices besides: which activities they have.
ActivitiesListed(m) == \A v \in m.vertex : m.activities[v] \in Seq(m.activity)

(***************************************************************************)
(* The FinalizedModel                                                      *)
(***************************************************************************)
Finalize(m) ==
    [root       |-> m.root,
     event      |-> m.event,
     vertex     |-> m.vertex,
     states     |-> States(m),
     kind       |-> m.kind,
     chain      |-> [v \in m.vertex |-> Chain(m, v)],
     initial    |-> m.initial,
     outgoing   |-> [v \in m.vertex |-> BranchOrder(m, v)],
     entry      |-> m.entry,
     exit       |-> m.exit,
     activity   |-> m.activity,
     activities |-> m.activities,
     transition |-> m.transition,
     source     |-> m.source,
     target     |-> m.target,
     guarded    |-> m.guarded,
     effect     |-> m.effect,
     paths      |-> TransitionPaths(m),
     histories  |-> Histories(m),
     historyTargets |-> [v \in m.vertex |-> [skip \in m.vertex \cup {Nothing} |->
                            HistoryTargets(m, v, skip)]],
     historyPath |-> [h \in Histories(m) |-> [v \in m.vertex |->
                            IF v \in States(m) /\ IsAncestor(m, HistoryOwner(m, h), v)
                            THEN HistoryPath(m, h, v) ELSE << >>]],
     transitionMap |-> [v \in m.vertex |-> [e \in m.event |->
                            IF v \in States(m) THEN TransitionMap(m, v, e) ELSE << >>]],
     deferredMap   |-> [v \in m.vertex |-> [e \in m.event |->
                            IF v \in States(m) THEN DeferredMap(m, v, e) ELSE Nothing]],
     submachine    |-> [v \in m.vertex |-> EnclosingSubmachine(m, v)]]
=============================================================================
