------------------------------ MODULE MCBuilder ------------------------------
(***************************************************************************)
(* HsmBuilder on definitions that vary what each part of the builder looks *)
(* at: the names of sources and targets, submachines with their points, the*)
(* triggers, the behaviours and guards, the pseudostates, the observations,*)
(* and a model that is redefined.                                          *)
(***************************************************************************)
EXTENDS HsmBuilderProps

Define_(name)      == {<<[el |-> "Define", name |-> name]>>}
Redefine_(of, name) == {<<[el |-> "Redefine", of |-> of, name |-> name]>>}
Complete           == {<<[el |-> "Done"]>>}

Block(d, body)    == <<d>> \o body \o <<[el |-> "End"]>>
OpenState(name)   == <<[el |-> "State", name |-> name]>>
Close             == <<[el |-> "End"]>>
Leaf(name)        == OpenState(name) \o Close
Initially(ref)    == Block([el |-> "Initial"], <<[el |-> "Target", ref |-> ref]>>)
To(ref)           == <<[el |-> "Target", ref |-> ref]>>
OfSource(ref)     == <<[el |-> "Source", ref |-> ref]>>
Event_(e)         == <<[el |-> "On", events |-> <<<<e>>>>]>>
Tr(body)          == Block([el |-> "Transition", name |-> ""], body)
OpenTr(name)      == <<[el |-> "Transition", name |-> name]>>
Fn(name)          == [by |-> "function", name |-> name, fn |-> name, async |-> FALSE]
Async(name)       == [by |-> "function", name |-> name, fn |-> name, async |-> TRUE]
Op(name)          == [by |-> "operation", name |-> name, fn |-> "", async |-> FALSE]
Guarded(c)        == <<[el |-> "Guard", fn |-> c]>>
Calls(el, cs)     == <<[el |-> el, calls |-> cs]>>
Entering(p)       == <<[el |-> "EntryPoint", name |-> p]>>
Leaving(p)        == <<[el |-> "ExitPoint", name |-> p, handled |-> FALSE]>>
None_             == << >>

\* Sources and targets, named from a nested state before and after what they
\* name is declared.
Ends == { Rel(<< >>), Rel(<<"c">>), Up(1, << >>), Up(1, <<"b">>), Up(2, <<"c">>),
          Abs(<<"m", "a">>), Abs(<<"m", "c", "d">>), Abs(<<"m", "a", "b">>) }
References ==
    << Define_("m"), {Initially(Rel(<<"a">>)), Initially(Abs(<<"m", "c">>))},
       {OpenState("a")}, {OpenState("b")}, {OpenTr("t")},
       {None_, OfSource(Rel(<< >>)), OfSource(Up(1, << >>)), OfSource(Rel(<<"c">>))},
       {None_} \cup {To(r) : r \in Ends}, {None_, Event_("e")},
       {None_, Calls("Effect", <<Fn("f")>>)},
       {Close}, {Close}, {Close}, {OpenState("c")}, {Leaf("d")}, {Close}, Complete >>

\* A machine, its points, and a model that composes it: what the machine
\* names by its own absolute names, how its points are targeted and handled.
Motor ==
    << Define_("motor"), {Initially(Rel(<<"run">>)), Initially(Abs(<<"motor", "run">>))},
       {OpenState("run")},
       {Tr(Event_("e") \o To(r)) : r \in {Up(1, <<"out">>), Abs(<<"motor", "out">>),
                                          Abs(<<"motor", "run">>)}}
         \cup {OpenTr("t") \o b \o To(Up(1, <<"halt">>)) \o Close :
                   b \in {<<[el |-> "OnSet", name |-> "x"]>>,
                          <<[el |-> "Time", name |-> "late"]>>}},
       {Close},
       {None_, Block(Entering("in")[1], To(Rel(<<"run">>))),
               Block(Entering("in")[1], To(Abs(<<"motor", "run">>)))},
       {Leaving("out"), Block([Leaving("out")[1] EXCEPT !.handled = TRUE],
                              Calls("Effect", <<Fn("f")>>))},
       {Leaf("halt")}, Complete >>

Handler(body) == Tr(Leaving("out") \o body)
Car ==
    << Define_("car"), {Initially(Rel(<<"drive">>))},
       {OpenState("idle")},
       {Tr(Event_("go") \o b) : b \in {To(Abs(<<"car", "drive">>)) \o Entering("in"),
                                       Entering("in") \o To(Abs(<<"car", "drive">>)),
                                       To(Abs(<<"car", "drive", "in">>)),
                                       To(Abs(<<"motor", "run">>))}},
       {Close},
       {<<[el |-> "Submachine", name |-> "drive", machine |-> "motor"]>>},
       {None_, Handler(To(Up(1, <<"idle">>)))},
       {None_, Handler(Guarded(Fn("g")) \o To(Up(1, <<"idle">>)))},
       {None_, Tr(Event_("back") \o To(Rel(<< >>)) \o Entering("in")),
               Tr(Event_("back") \o To(Up(1, <<"idle">>)))},
       {Close}, Complete >>

\* A machine in a machine in a model; the innermost one has a state named as
\* the outermost model, and a point that a handler two levels up reaches.
Nested ==
    << Define_("motor"), {Initially(Abs(<<"motor", "car">>))},
       {OpenState("car")}, {None_, Tr(Event_("e") \o To(Abs(<<"motor", "out">>)))},
       {Close}, {Leaving("out")}, Complete,
       Define_("axle"), {Initially(Rel(<<"drive">>))},
       {<<[el |-> "Submachine", name |-> "drive", machine |-> "motor"]>>},
       {None_, Handler(To(Up(1, <<"rest">>)))},
       {None_, Tr(Event_("e") \o To(Abs(<<"axle", "rest">>)))},
       {Close}, {None_, Leaving("out")}, {Leaf("rest")}, Complete,
       Define_("car"), {Initially(Rel(<<"front">>))},
       {<<[el |-> "Submachine", name |-> "front", machine |-> "axle"]>>},
       {None_, Handler(To(Rel(<<"rest">>)))}, {None_, Handler(To(Abs(<<"car", "off">>)))},
       {Close}, {Leaf("off")}, Complete >>

\* Callbacks by themselves and by the names of operations.
Callbacks ==
    << Define_("m"),
       {None_, <<[el |-> "Operation", name |-> "op", fn |-> "method", async |-> FALSE]>>,
               <<[el |-> "Operation", name |-> "op", fn |-> "method", async |-> TRUE]>>},
       {Initially(Rel(<<"a">>))}, {OpenState("a")},
       {Calls("Entry", cs) : cs \in {<<Fn("f"), Op("op")>>, <<Async("f")>>, <<Fn(""), Fn("")>>}},
       {None_, Calls("Exit", <<Fn("f"), Fn("g")>>)},
       {Calls("Activity", cs) : cs \in {<<Async("h"), Op("op")>>, <<Async("f")>>, <<Fn("h")>>}},
       {OpenTr("t"), OpenTr("")},
       {None_, Guarded(Fn("f")), Guarded(Op("op")), Guarded(Async("f"))},
       {None_, Guarded(Fn("g")), <<[el |-> "When", fn |-> Fn("g")]>>},
       {Event_("e") \o Calls("Effect", <<Op("op"), Fn("f")>>)},
       {Close}, {Close}, Complete >>

\* Triggers, and the attributes some of them declare.
Triggered ==
    << Define_("m"), {None_, <<[el |-> "Attribute", name |-> "x", fits |-> TRUE]>>,
                             <<[el |-> "Attribute", name |-> "x", fits |-> FALSE]>>},
       {Initially(Rel(<<"a">>)), Block([el |-> "Initial"], To(Rel(<<"a">>)) \o Event_("e"))},
       {OpenState("a")}, {None_, <<[el |-> "Defer", events |-> <<<<"e">>, <<"f">>>>]>>,
                                 <<[el |-> "Attribute", name |-> "y", fits |-> TRUE]>>},
       {OpenTr("")},
       {<<[el |-> "OnSet", name |-> "x"]>>, <<[el |-> "OnSet", name |-> "y"]>>,
        <<[el |-> "OnCall", name |-> "op"]>>, <<[el |-> "Time", name |-> ""]>>},
       {None_, <<[el |-> "When", fn |-> Fn("p")]>>, <<[el |-> "When", fn |-> Fn("")]>>},
       {None_, <<[el |-> "Time", name |-> "late"]>>}, {To(Rel(<< >>))},
       {Close}, {Close}, {None_, <<[el |-> "Attribute", name |-> "y", fits |-> TRUE]>>,
                                 <<[el |-> "Attribute", name |-> "a", fits |-> TRUE]>>,
                                 <<[el |-> "Operation", name |-> "y", fn |-> "o", async |-> FALSE]>>},
       Complete >>

\* Choices, histories and final states, some under names already taken.
Branch(name, body) == Block([el |-> "Choice", name |-> name], body)
Way(body, r)       == Tr(body \o To(r))
History_(type, name, body) == Block([el |-> "History", type |-> type, name |-> name], body)
Pseudostates ==
    << Define_("m"),
       {Initially(Rel(<<"a">>)),
        Block([el |-> "Initial"], Branch("", Way(Guarded(Fn("g")), Rel(<<"b">>)) \o Way(None_, Rel(<<"a">>))))},
       {OpenState("a")}, {Leaf("x"), History_("shallow", "x", None_)},
       {None_, History_("shallow", "", Way(None_, Rel(<<"x">>))), History_("deep", "x", None_)},
       {None_, History_("shallow", "h", Way(None_, Rel(<<"x">>)) \o Way(None_, Rel(<<"x">>)))},
       {Tr(Event_("e") \o Branch(n, w)) :
            n \in {"", "c"},
            w \in {None_, Way(Guarded(Fn("g")), Rel(<<"x">>)),
                   Way(Guarded(Fn("g")), Rel(<<"x">>)) \o Way(None_, Up(1, <<"b">>))}},
       {Close}, {Leaf("b"), Leaf("a"), None_},
       {None_, <<[el |-> "Final", name |-> "b"]>>, <<[el |-> "Final", name |-> ""]>>},
       {None_, Branch("c", Way(None_, Rel(<<"a">>)))},
       {None_, Branch("c", Way(None_, Rel(<<"a">>))), Tr(OfSource(Rel(<<"a">>)) \o Event_("f") \o To(Rel(<<"c">>)))
               \o Branch("c", Way(Guarded(Fn("g")), Rel(<<"a">>)) \o Way(None_, Rel(<<"b">>)))},
       Complete >>

\* Observations of transitions, events and behaviours, repeated and replayed.
Watch(name, fn, targets) == <<[el |-> "Observe", name |-> name, fn |-> fn, targets |-> targets]>>
Watched == {{}, {<<"e">>}, {<<"m", "a", "f">>}, {<<"m", "b", "f">>, <<"m", "op">>}, {<<"m", "a", "t">>, <<"e">>}}
Observing ==
    << Define_("m"), {Initially(Rel(<<"a">>))}, {Watch("w", "w", t) : t \in Watched},
       {<<[el |-> "Operation", name |-> "op", fn |-> "method", async |-> FALSE]>>},
       {OpenState("a")}, {Calls("Entry", <<Fn("f")>>) \o Calls("Activity", <<Async("g")>>)},
       {OpenTr("t")}, {Event_("e") \o To(Rel(<< >>))}, {None_, Calls("Effect", <<Fn("f")>>)}, {Close},
       {None_, Watch("", "v", {}), Watch("", "w", {<<"e">>})}, {Close},
       {None_, Watch("", "v", {}), Watch("", "w", {})}, Complete,
       Redefine_("m", "m"),
       {Leaf("b"), OpenState("b") \o Calls("Entry", <<Fn("f")>>)
                       \o Tr(Event_("e") \o To(Up(1, <<"a">>))) \o Close},
       {None_, Watch("", "u", {<<"e">>})}, Complete >>

\* Nothing but a new name, which absolute paths do not follow.
Renamed == << Define_("m"), {Initially(Rel(<<"a">>)), Initially(Abs(<<"m", "a">>))},
              {Leaf("a")}, Complete, Redefine_("m", "n"), Complete >>

PlanSet == {References, Motor \o Car, Nested, Callbacks, Triggered, Pseudostates, Observing, Renamed}
=============================================================================
