--------------------------- MODULE HsmFinalizerCheck ---------------------------
(***************************************************************************)
(* DefaultModelFinalizer on every small chart: a chart grows by one vertex *)
(* at a time, then its one transition is drawn between any two vertices.   *)
(* The properties compare the paths with what the states active before and *)
(* after a transition are.                                                 *)
(***************************************************************************)
EXTENDS HsmFinalizer

CONSTANTS Names,    \* the vertices below the root, a sequence of names
          Kinds     \* their kinds

ASSUME NamesAssumption ==
    /\ Names \in Seq(STRING \ {"m", Top, Nothing})
    /\ \A i, j \in DOMAIN Names : Names[i] = Names[j] => i = j

\* Entry points are not among them: the finalizer promises less of their paths,
\* see HsmTables!PointsJoin.
ASSUME KindsAssumption ==
    Kinds \subseteq {"state", "final", "submachine", "choice", "shallow", "deep", "exit"}

VARIABLES chart,    \* a chart with one transition, drawn or not
          drawn,
          model     \* its FinalizedModel

\* The tables of a finalized model f.
Of(f) == INSTANCE HsmTables WITH Model <- f, None <- Nothing

\* A chart that has no transition yet, none of whose states has a behaviour.
Blank == [root |-> "m", vertex |-> {"m"}, event |-> {"e"},
          kind |-> [v \in {"m"} |-> "state"], parent |-> [v \in {"m"} |-> "m"],
          initial |-> [v \in {"m"} |-> Nothing], outgoing |-> [v \in {"m"} |-> << >>],
          deferred |-> [v \in {"m"} |-> {}], activities |-> [v \in {"m"} |-> << >>],
          transition |-> {"t"}, source |-> [t \in {"t"} |-> "m"],
          owner |-> [t \in {"t"} |-> "m"], target |-> [t \in {"t"} |-> Nothing],
          events |-> [t \in {"t"} |-> {}],
          guarded |-> {}, effect |-> {}, entry |-> {}, exit |-> {}, activity |-> {}]

CheckInit == chart = Blank /\ drawn = FALSE /\ model = Finalize(chart)

\* The vertices come in the order of their parents: another order names the
\* same charts differently.
Rank(v) == IF v = "m" THEN 0 ELSE CHOOSE i \in DOMAIN Names : Names[i] = v

AddVertex(name, above, type) ==
    /\ chart.kind[above] \in {"state", "submachine"}
    /\ \A v \in chart.vertex : Rank(chart.parent[v]) <= Rank(above)
    /\ LET vs == chart.vertex \cup {name}
           With(f, x) == [v \in vs |-> IF v = name THEN x ELSE f[v]]
       IN  chart' = [chart EXCEPT !.vertex     = vs,
                                  !.kind       = With(@, type),
                                  !.parent     = With(@, above),
                                  !.initial    = With(@, Nothing),
                                  !.outgoing   = With(@, << >>),
                                  !.deferred   = With(@, {}),
                                  !.activities = With(@, << >>)]
    /\ UNCHANGED drawn

\* The transition goes from v to w, or nowhere when it is internal.
Draw(v, w) ==
    /\ v \notin States(chart) => w # Nothing
    /\ chart' = [chart EXCEPT !.source["t"] = v, !.owner["t"] = v, !.target["t"] = w,
                              !.events["t"] = IF v \in States(chart) THEN {"e"} ELSE {},
                              !.outgoing = [x \in chart.vertex |-> IF x = v THEN <<"t">> ELSE << >>],
                              !.initial  = [x \in chart.vertex |-> Nothing]]
    /\ drawn' = TRUE

\* It is the initial transition of v.
DrawInitial(v, w) ==
    /\ v \in States(chart)
    /\ chart' = [chart EXCEPT !.source["t"] = v, !.owner["t"] = v, !.target["t"] = w,
                              !.events["t"] = {},
                              !.outgoing = [x \in chart.vertex |-> << >>],
                              !.initial  = [x \in chart.vertex |-> IF x = v THEN "t" ELSE Nothing]]
    /\ drawn' = TRUE

CheckNext ==
    /\ ~drawn
    /\ \/ /\ Cardinality(chart.vertex) <= Len(Names)
          /\ \E above \in chart.vertex, type \in Kinds :
                 AddVertex(Names[Cardinality(chart.vertex)], above, type)
       \/ \E v \in chart.vertex, w \in chart.vertex \cup {Nothing} : Draw(v, w)
       \/ \E v, w \in chart.vertex : DrawInitial(v, w)
    /\ model' = Finalize(chart')

CheckSpec == CheckInit /\ [][CheckNext]_<<chart, drawn, model>>

(***************************************************************************)
(* Properties                                                              *)
(***************************************************************************)
AncestorsOrSelf(v) == {w \in chart.vertex \cup {Top} : w = v \/ IsAncestor(chart, w, v)}

\* LCA: the deepest vertex above both that is not both of them.
LCAIsDeepest ==
    \A a, b \in chart.vertex :
        LET common == (AncestorsOrSelf(a) \cap AncestorsOrSelf(b))
                          \ (IF a = b THEN {a} ELSE {})
        IN  /\ LCA(chart, a, b) \in common
            /\ common \subseteq AncestorsOrSelf(LCA(chart, a, b))

Target    == chart.target["t"]
Source    == chart.source["t"]
ActiveIn(v) == AncestorsOrSelf(v) \ {"m", Top}
Currents  == CurrentVerticesFor(chart, "t") \cap States(chart)
Exit(v)   == ToSet(PathForCurrent(chart, v, "t").exit)
Enter(v)  == ToSet(PathForCurrent(chart, v, "t").enter)

\* _finalize_path_for_current: leaving the exit path of any state the
\* transition is taken in, and then entering the enter path, makes exactly
\* the target and its ancestors active: nothing is left or entered twice.
\* In the tables, the paths join for every vertex the transition is followed
\* from, a choice, a history or an exit point too.
PathsJoin ==
    /\ Target # Nothing => \A v \in Currents :
           /\ Exit(v) \subseteq AncestorsOrSelf(v)
           /\ Enter(v) \cap (ActiveIn(v) \ Exit(v)) = {}
           /\ (ActiveIn(v) \ Exit(v)) \cup Enter(v) = ActiveIn(Target)
    /\ Of(model)!TreeShaped /\ Of(model)!PathsLead /\ Of(model)!PathsEnd

\* KindResolver with _finalize_path_for_current: an external transition
\* leaves its source, a self transition leaves it and enters it again, a
\* local one leaves only what is below its source, an internal one nothing.
KindDecidesExit ==
    \A v \in Currents :
        CASE TransitionKind(chart, "t") = "external" -> Source \in Exit(v)
          [] TransitionKind(chart, "t") = "self" ->
                 Source \in Exit(v) /\ (Source # "m" => Source \in Enter(v))
          [] TransitionKind(chart, "t") = "local" -> Source \notin Exit(v)
          [] OTHER -> Exit(v) = {} /\ Enter(v) = {}

\* _finalize_history_paths and the history targets: going back through a
\* deep history reaches the state that was left, through a shallow one the
\* child of the owner above it, and enters every state on the way once.
HistoryReturns ==
    /\ \A h \in Histories(chart), v \in States(chart) :
           LET owner == HistoryOwner(chart, h)
               kept  == HistoryTargets(chart, v, Nothing)[h]
           IN  IsAncestor(chart, owner, v) =>
                   /\ kept \in States(chart)
                   /\ IF chart.kind[h] = "deep" THEN kept = v
                      ELSE Dirname(chart, kept) = owner /\ kept \in AncestorsOrSelf(v)
                   /\ ToSet(HistoryPath(chart, h, kept)) = ActiveIn(kept) \ ActiveIn(owner)
                   /\ Len(HistoryPath(chart, h, kept)) =
                          Cardinality(ActiveIn(kept)) - Cardinality(ActiveIn(owner))
    /\ Of(model)!HistoriesReturn
=============================================================================
