------------------------------ MODULE MCCharts ------------------------------
(***************************************************************************)
(* Small charts for the model checker, as the builder hands them to        *)
(* DefaultModelFinalizer, and the FinalizedModel of each.                  *)
(***************************************************************************)
EXTENDS HsmFinalizer

Node(type, above, first, out) ==
    [kind |-> type, parent |-> above, initial |-> first, outgoing |-> out, deferred |-> {}]

Leaf(above, out) == Node("state", above, Nothing, out)

Defers(node, names) == [node EXCEPT !.deferred = names]

Edge(v, w, names) == [source |-> v, target |-> w, events |-> names]

Reserved == {"*", "hsm/final", "hsm/error", "hsm/initial"}

NoBehaviour == [guarded |-> {}, effect |-> {}, entry |-> {}, exit |-> {}, activity |-> << >>]

\* Every transition is declared where it starts.
Chart(nodes, edges, behaviour) ==
    [root       |-> "m",
     vertex     |-> DOMAIN nodes,
     event      |-> Reserved \cup UNION {edges[t].events : t \in DOMAIN edges}
                             \cup UNION {nodes[v].deferred : v \in DOMAIN nodes},
     kind       |-> [v \in DOMAIN nodes |-> nodes[v].kind],
     parent     |-> [v \in DOMAIN nodes |-> nodes[v].parent],
     initial    |-> [v \in DOMAIN nodes |-> nodes[v].initial],
     outgoing   |-> [v \in DOMAIN nodes |-> nodes[v].outgoing],
     deferred   |-> [v \in DOMAIN nodes |-> nodes[v].deferred],
     transition |-> DOMAIN edges,
     source     |-> [t \in DOMAIN edges |-> edges[t].source],
     owner      |-> [t \in DOMAIN edges |-> edges[t].source],
     target     |-> [t \in DOMAIN edges |-> edges[t].target],
     events     |-> [t \in DOMAIN edges |-> edges[t].events],
     guarded    |-> behaviour.guarded,
     effect     |-> behaviour.effect,
     entry      |-> behaviour.entry,
     exit       |-> behaviour.exit,
     activity   |-> UNION {ToSet(behaviour.activity[v]) : v \in DOMAIN behaviour.activity},
     activities |-> [v \in DOMAIN nodes |-> IF v \in DOMAIN behaviour.activity
                                            THEN behaviour.activity[v] ELSE << >>]]

(***************************************************************************)
(* Two composite states, a transition up and over, a self, a local and an  *)
(* internal one; a is a submachine that is entered and left through points;*)
(* p remembers and is re-entered through its histories; b reacts to        *)
(* changes of two attributes, q to the call of an operation.               *)
(***************************************************************************)
Hierarchy == Chart(
    [m  |-> Node("state", "m", "iM", << >>),
     p  |-> Node("state", "m", "iP", <<"self">>),
     a  |-> Node("submachine", "p", "iA", << >>),
     a1 |-> Leaf("a", <<"next", "out">>),
     en |-> Node("entry", "a", Nothing, <<"enter">>),
     ex |-> Node("exit", "a", Nothing, <<"left", "tidy">>),
     b  |-> Leaf("p", <<"note", "warm", "dive">>),
     hs |-> Node("shallow", "p", Nothing, << >>),
     hd |-> Node("deep", "p", Nothing, << >>),
     ch |-> Node("choice", "m", Nothing, <<"ch1", "ch2">>),
     q  |-> Leaf("m", <<"back", "deep", "ask">>)],
    [iM   |-> Edge("m", "p", {}),       iP   |-> Edge("p", "a", {}),
     iA   |-> Edge("a", "a1", {}),      next |-> Edge("a1", "b", {"x"}),
     out  |-> Edge("a1", "ex", {"y"}),  self |-> Edge("p", "p", {"z"}),
     dive |-> Edge("b", "en", {"y"}),   enter |-> Edge("en", "a1", {}),
     tidy |-> Edge("ex", "a", {}),      left |-> Edge("ex", "ch", {}),
     note |-> Edge("b", Nothing, {"x"}),
     back |-> Edge("q", "hs", {"x"}),   deep |-> Edge("q", "hd", {"y"}),
     ch1  |-> Edge("ch", "b", {}),      ch2  |-> Edge("ch", "q", {}),
     warm |-> Edge("b", "q", {"level", "mode"}), ask |-> Edge("q", "a", {"ask"})],
    [NoBehaviour EXCEPT !.guarded = {"ch1"}, !.effect = {"note", "tidy"}, !.entry = {"a1"}])

HierarchyModel == Finalize(Hierarchy)

(***************************************************************************)
(* An entry point of a submachine inside a state that need not be active.  *)
(***************************************************************************)
Gateway == Chart(
    [m  |-> Node("state", "m", "iM", << >>),
     q  |-> Leaf("m", <<"go">>),
     p  |-> Node("state", "m", Nothing, << >>),
     s  |-> Node("submachine", "p", Nothing, << >>),
     s1 |-> Leaf("s", << >>),
     en |-> Node("entry", "s", Nothing, <<"warm">>)],
    [iM |-> Edge("m", "q", {}), go |-> Edge("q", "en", {"x"}), warm |-> Edge("en", "s1", {})],
    NoBehaviour)

GatewayModel == Finalize(Gateway)

(***************************************************************************)
(* Activities at two levels: p and its substate a run one each, q another; *)
(* an error is handled in q only; p is entered again where it was left.    *)
(***************************************************************************)
Workshop == Chart(
    [m |-> Node("state", "m", "iM", << >>),
     p |-> Node("state", "m", "iP", <<"toQ">>),
     a |-> Leaf("p", <<"toB">>),
     b |-> Leaf("p", <<"again">>),
     hs |-> Node("shallow", "p", Nothing, << >>),
     q |-> Leaf("m", <<"toP", "oops">>)],
    [iM    |-> Edge("m", "p", {}),      iP   |-> Edge("p", "a", {}),
     toB   |-> Edge("a", "b", {"x"}),   toQ  |-> Edge("p", "q", {"y"}),
     toP   |-> Edge("q", "hs", {"x"}),  oops |-> Edge("q", "p", {"hsm/error"}),
     again |-> Edge("b", "b", {"x"})],
    [NoBehaviour EXCEPT !.activity = [p |-> <<"pAct">>, a |-> <<"aAct">>, q |-> <<"qAct">>]])

WorkshopModel == Finalize(Workshop)

(***************************************************************************)
(* Deferral: a submachine state s whose substate s1 defers x and y, a      *)
(* final state, and an exit point whose outcome has a guard; a state q that*)
(* defers x unless a guard lets it through and swallows every other event  *)
(* but w, which asks for the history of a state that was never entered.    *)
(***************************************************************************)
Deferral == Chart(
    [m  |-> Node("state", "m", "iM", << >>),
     s  |-> Node("submachine", "m", "iS", <<"leave", "end">>),
     s1 |-> Defers(Leaf("s", <<"step", "jump">>), {"x", "y"}),
     s2 |-> Leaf("s", <<"back", "finish">>),
     f  |-> Node("final", "s", Nothing, << >>),
     ex |-> Node("exit", "s", Nothing, <<"tidy", "left">>),
     q  |-> Defers(Leaf("m", <<"enter", "any", "recall">>), {"x"}),
     p  |-> Leaf("m", << >>),
     hs |-> Node("shallow", "p", Nothing, << >>)],
    [iM     |-> Edge("m", "s", {}),       iS    |-> Edge("s", "s1", {}),
     step   |-> Edge("s1", "s2", {"z"}),  jump  |-> Edge("s1", "ex", {"w"}),
     tidy   |-> Edge("ex", "s", {}),      left  |-> Edge("ex", "q", {}),
     back   |-> Edge("s2", "s1", {"x"}),  finish |-> Edge("s2", "f", {"y"}),
     leave  |-> Edge("s", "q", {"w"}),    end   |-> Edge("s", "q", {"hsm/final"}),
     enter  |-> Edge("q", "s", {"x"}),    any   |-> Edge("q", Nothing, {"*"}),
     recall |-> Edge("q", "hs", {"w"})],
    [NoBehaviour EXCEPT !.guarded = {"enter", "left"}, !.effect = {"any", "step", "iM", "tidy"}])

DeferralModel == Finalize(Deferral)

(***************************************************************************)
(* Callbacks of every sort, an activity below an entry behaviour, a        *)
(* deferral, and a history whose default transition has a guard.           *)
(***************************************************************************)
Fragile == Chart(
    [m  |-> Node("state", "m", "iM", << >>),
     q  |-> Defers(Leaf("m", <<"go", "recall">>), {"x"}),
     p  |-> Node("state", "m", "iP", <<"out">>),
     a  |-> Leaf("p", <<"next">>),
     b  |-> Leaf("p", << >>),
     hs |-> Node("shallow", "p", Nothing, <<"default">>)],
    [iM     |-> Edge("m", "q", {}),       iP      |-> Edge("p", "a", {}),
     go     |-> Edge("q", "p", {"y"}),    recall  |-> Edge("q", "hs", {"z"}),
     next   |-> Edge("a", "b", {"x"}),    out     |-> Edge("p", "q", {"y"}),
     default |-> Edge("hs", "b", {})],
    [guarded |-> {"default"}, effect |-> {"go"}, entry |-> {"a"}, exit |-> {"q", "b"},
     activity |-> [p |-> <<"pAct">>]])

FragileModel == Finalize(Fragile)

(***************************************************************************)
(* Timers: p has an activity and a timer that leads to q, q an activity    *)
(* and a timer that ticks.                                                 *)
(***************************************************************************)
Clockwork == Chart(
    [m |-> Node("state", "m", "iM", << >>),
     p |-> Leaf("m", <<"again", "late">>),
     q |-> Leaf("m", <<"tick", "back">>)],
    [iM    |-> Edge("m", "p", {}),
     again |-> Edge("p", "p", {"x"}),     late |-> Edge("p", "q", {"after"}),
     tick  |-> Edge("q", Nothing, {"every"}), back |-> Edge("q", "p", {"x"})],
    [NoBehaviour EXCEPT !.effect = {"tick"},
                        !.activity = [p |-> <<"pAct", "pAfter">>, q |-> <<"qAct", "qEvery">>]])

ClockworkModel == Finalize(Clockwork)

=============================================================================
