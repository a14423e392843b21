------------------------ MODULE HsmConfigurationProofs ------------------------
(***************************************************************************)
(* The configuration of a machine: which states are entered, in what order *)
(* they are entered and left, and where the machine comes to rest, for     *)
(* every model the validator accepts, as far as the tables promise it.     *)
(***************************************************************************)
EXTENDS HsmCharts, HsmRuntimeProofs

(***************************************************************************)
(* Where the machine rests                                                 *)
(***************************************************************************)
\* Only _enter may return a vertex that is no state, which the entry of that
\* vertex then replaces; default entries are those of states.
Sound(ag) ==
    \A i \in DOMAIN ag :
        /\ ag[i].op = "default" => ag[i].v \in StateVertex
        /\ ag[i].op = "arrive" /\ ag[i].v \notin StateVertex =>
               i > 1 /\ ag[i - 1] = ToDo("enter", ag[i].v)

SelectsInState ==
    stage = "select" => from = state /\ \A i \in DOMAIN cands : Fires(cands[i], from)

BranchesOn ==
    stage = "branch" =>
        /\ from \in Vertex \ StateVertex
        /\ \A i \in DOMAIN cands :
               \E j \in DOMAIN Outgoing(from) : cands[i] = Outgoing(from)[j]
        /\ from \in History \/ Kind(from) = "exit"
               \/ \E i \in DOMAIN cands : ~Guarded(cands[i])

\* The inductive invariant of RestsInStates.
StatesInv == RestsInStates /\ Sound(agenda) /\ SelectsInState /\ BranchesOn

(***************************************************************************)
(* The way of the tip through an agenda                                    *)
(***************************************************************************)
\* The step o of an agenda takes the tip from s to z.
Moves(s, o, z) ==
    /\ o.op = "exit" => o.v \notin EntryPoint /\ s = Base(o.v) /\ z = Up(o.v)
    /\ o.op = "through" => o.v \in StateVertex \ {Root}
    /\ o.op \in {"through", "enter"} => s = Foot(o.v) /\ z = Base(o.v)
    /\ o.op = "default" => s = o.v
    /\ o.op = "arrive" => s = Base(o.v)
    /\ o.op = "halt" => s = Root
    /\ o.op \in {"effect", "spawn", "default", "arrive"} => z = s

\* An agenda that takes the tip from s to z.
Way(s, ag, z) ==
    \E f \in [1 .. Len(ag) + 1 -> StateVertex] :
        /\ f[1] = s /\ f[Len(ag) + 1] = z
        /\ \A i \in 1 .. Len(ag) : Moves(f[i], ag[i], f[i + 1])

\* The states entered and not left are the tip and its ancestors.
EnteredAt(tip) ==
    \A v \in StateVertex \ {Root} : balance[v] = IF v \in ActiveIn(tip) THEN 1 ELSE 0

TipAt(tip) ==
    /\ stage \notin {"run", "branch"} => tip = state
    /\ stage = "branch" => tip = Base(from)
    /\ stage = "run" => \E z \in StateVertex : Way(tip, agenda, z)

\* The inductive invariant of ConfigurationEntered, while no callback raises
\* and no empty history is entered.
ConfigInv == faults = 0 => \E tip \in StateVertex : EnteredAt(tip) /\ TipAt(tip)

\* No history without memory and default transition is entered.
HistoryLeads == ~Doing("none")

(***************************************************************************)
(* The tree of the states                                                  *)
(***************************************************************************)
LEMMA UpState ==
    ASSUME NEW v \in Vertex
    PROVE  Up(v) \in StateVertex /\ Foot(v) \in StateVertex /\ Base(v) \in StateVertex
<1>1. \A w \in Vertex : Up(w) \in StateVertex
  <2> SUFFICES ASSUME NEW w \in Vertex, w # Root PROVE Chain(w)[2] \in StateVertex
      BY TableNames DEF Up
  <2>1. Chain(w) \in Seq(Vertex) /\ Len(Chain(w)) > 1
        BY VertexTableTypes, TreeAssumption DEF TreeShaped
  <2>2. 2 \in DOMAIN Chain(w)
        BY <2>1
  <2>3. QED BY <2>2, TreeAssumption DEF TreeShaped
<1>2. QED BY <1>1, TableNames DEF Foot, Base, Boundary

\* The chain of the parent is the chain without the vertex itself.
LEMMA ChainUp ==
    ASSUME NEW v \in Vertex, v # Root
    PROVE  /\ Chain(v) \in Seq(Vertex) /\ Len(Chain(v)) > 1
           /\ Chain(v)[1] = v /\ Chain(v)[2] = Up(v)
           /\ Len(Chain(Up(v))) = Len(Chain(v)) - 1
           /\ \A i \in 1 .. Len(Chain(v)) - 1 : Chain(Up(v))[i] = Chain(v)[i + 1]
<1> DEFINE c == Chain(v)
<1>1. c \in Seq(Vertex) /\ Len(c) > 1 /\ c[1] = v
      BY VertexTableTypes, TreeAssumption DEF TreeShaped
<1>2. Up(v) = c[2] /\ 2 \in DOMAIN c
      BY <1>1 DEF Up
<1>3. Chain(Up(v)) = SubSeq(c, 2, Len(c))
      BY <1>2, TreeAssumption DEF TreeShaped
<1>4. QED BY <1>1, <1>2, <1>3

\* No two vertices are above each other.
LEMMA AboveOnce ==
    ASSUME NEW v \in Vertex, NEW w \in Vertex, IsAncestor(v, w)
    PROVE  ~IsAncestor(w, v) /\ Len(Chain(v)) < Len(Chain(w))
<1>1. \A a, b \in Vertex : IsAncestor(a, b) => Len(Chain(a)) < Len(Chain(b))
  <2> SUFFICES ASSUME NEW a \in Vertex, NEW b \in Vertex, IsAncestor(a, b)
               PROVE  Len(Chain(a)) < Len(Chain(b))
      OBVIOUS
  <2>1. PICK i \in DOMAIN Chain(b) : Chain(b)[i] = a /\ a # b
        BY DEF IsAncestor
  <2>2. Chain(b) \in Seq(Vertex) /\ Chain(b)[1] = b
        BY VertexTableTypes, TreeAssumption DEF TreeShaped
  <2>3. i \in 2 .. Len(Chain(b))
        BY <2>1, <2>2
  <2>4. Chain(a) = SubSeq(Chain(b), i, Len(Chain(b)))
        BY <2>1, TreeAssumption DEF TreeShaped
  <2>5. QED BY <2>2, <2>3, <2>4
<1>2. Len(Chain(v)) \in Nat /\ Len(Chain(w)) \in Nat
      BY VertexTableTypes
<1>3. QED BY <1>1, <1>2

LEMMA RootChain == Chain(Root) \in Seq(Vertex) /\ Len(Chain(Root)) = 1 /\ Chain(Root)[1] = Root
<1>1. Chain(Root) \in Seq(Vertex) /\ Root \in Vertex /\ Len(Chain(Root)) > 0
      /\ Chain(Root)[1] = Root /\ Chain(Root)[Len(Chain(Root))] = Root
      BY TableNames, VertexTableTypes, TreeAssumption DEF TreeShaped
<1>2. \A i \in DOMAIN Chain(Root) :
          Chain(Chain(Root)[i]) = SubSeq(Chain(Root), i, Len(Chain(Root)))
      BY <1>1, TreeAssumption DEF TreeShaped
<1>3. Len(Chain(Root)) \in DOMAIN Chain(Root)
      BY <1>1
<1>4. Chain(Root) = SubSeq(Chain(Root), Len(Chain(Root)), Len(Chain(Root)))
      BY <1>1, <1>2, <1>3
<1>5. QED BY <1>1, <1>4

LEMMA RootAlone ==
    ASSUME NEW v \in Vertex PROVE ~IsAncestor(v, Root)
BY RootChain DEF IsAncestor

\* _stop: the path from a state up to, not including, the model.
LEMMA StopAscends ==
    ASSUME NEW s \in StateVertex
    PROVE  LET x == SubSeq(Chain(s), 1, Len(Chain(s)) - 1)
           IN  x \in Seq(Vertex) /\ Ascends(x, s) /\ Summit(x, s) = Root
<1> DEFINE c == Chain(s)
           x == SubSeq(c, 1, Len(c) - 1)
<1>1. s \in Vertex /\ c \in Seq(Vertex) /\ Len(c) \in Nat /\ Len(c) > 0 /\ c[1] = s /\ c[Len(c)] = Root
      BY TableNames, VertexTableTypes, TreeAssumption, EmptySeq DEF TreeShaped
<1>2. x \in Seq(Vertex) /\ Len(x) = Len(c) - 1 /\ \A i \in 1 .. Len(c) - 1 : x[i] = c[i]
  <2>1. 1 \in Int /\ Len(c) - 1 \in Int /\ \A i \in 1 .. Len(c) - 1 : c[i] \in Vertex
        BY <1>1, ElementOfSeq
  <2>2. /\ x \in Seq(Vertex)
        /\ Len(x) = IF 1 <= Len(c) - 1 THEN Len(c) - 1 - 1 + 1 ELSE 0
        /\ \A i \in 1 .. Len(c) - 1 - 1 + 1 : x[i] = c[1 + i - 1]
    <3> HIDE DEF c
    <3>1. QED BY <2>1, SubSeqProperties
  <2>3. \A i \in 1 .. Len(c) - 1 : x[i] = c[i]
    <3> HIDE DEF c, x
    <3>1. QED BY <1>1, <2>2
  <2>4. Len(x) = Len(c) - 1
    <3>1. \A n \in Nat : n > 0 => (IF 1 <= n - 1 THEN n - 1 - 1 + 1 ELSE 0) = n - 1
          OBVIOUS
    <3> HIDE DEF c, x
    <3>2. QED BY <1>1, <2>2, <3>1
  <2>5. QED BY <2>2, <2>3, <2>4
<1>3. \A i \in 1 .. Len(c) - 1 : Up(c[i]) = c[i + 1]
  <2> SUFFICES ASSUME NEW i \in 1 .. Len(c) - 1 PROVE Up(c[i]) = c[i + 1]
      OBVIOUS
  <2>1. Chain(c[i]) = SubSeq(c, i, Len(c))
    <3>1. i \in DOMAIN c
          BY <1>1
    <3>2. QED BY <1>1, <3>1, TreeAssumption DEF TreeShaped
  <2>2. Len(Chain(c[i])) > 1 /\ Chain(c[i])[2] = c[i + 1]
        BY <1>1, <2>1
  <2>3. QED BY <2>2, RootChain DEF Up
<1>4. Ascends(x, s)
  <2>1. \A i \in DOMAIN x : x[i] = IF i = 1 THEN s ELSE Up(x[i - 1])
    <3> SUFFICES ASSUME NEW i \in 1 .. Len(c) - 1, i # 1 PROVE x[i] = Up(x[i - 1])
        BY <1>1, <1>2
    <3>1. i - 1 \in 1 .. Len(c) - 1 /\ (i - 1) + 1 = i
          BY <1>1
    <3>2. QED BY <1>2, <1>3, <3>1
  <2>2. QED BY <2>1 DEF Ascends, EntryPoint
<1>5. Summit(x, s) = Root
  <2>1. CASE Len(c) = 1
        BY <1>1, <1>2, <2>1, EmptySeq DEF Summit, Base
  <2>2. CASE Len(c) # 1
    <3>1. Len(c) - 1 \in 1 .. Len(c) - 1 /\ x # << >>
      <4> HIDE DEF c, x
      <4>1. QED BY <1>1, <1>2, <2>2, EmptySeq
    <3>2. Up(x[Len(x)]) = c[Len(c)]
      <4>1. Up(c[Len(c) - 1]) = c[(Len(c) - 1) + 1]
            BY <1>3, <3>1
      <4>2. QED BY <1>1, <1>2, <3>1, <4>1
    <3>3. QED BY <1>1, <3>1, <3>2 DEF Summit
  <2>3. QED BY <2>1, <2>2
<1>6. QED BY <1>2, <1>4, <1>5

\* The active states of a state are itself and those of its parent.
LEMMA ActiveUp ==
    ASSUME NEW v \in StateVertex, v # Root
    PROVE  v \notin ActiveIn(Up(v)) /\ ActiveIn(v) = ActiveIn(Up(v)) \cup {v}
<1>1. v \in Vertex /\ Up(v) \in Vertex /\ Up(v) \in StateVertex
      BY UpState, TableNames
<1>2. Up(v) # v /\ ~IsAncestor(v, Up(v))
  <2>1. IsAncestor(Up(v), v) \/ Up(v) = v
        BY <1>1, ChainUp DEF IsAncestor
  <2>2. Len(Chain(Up(v))) # Len(Chain(v))
        BY <1>1, ChainUp
  <2>3. QED BY <1>1, <2>1, <2>2, AboveOnce
<1>3. \A w \in StateVertex : IsAncestor(w, v) <=> w = Up(v) \/ IsAncestor(w, Up(v))
  <2> SUFFICES ASSUME NEW w \in StateVertex
               PROVE  IsAncestor(w, v) <=> w = Up(v) \/ IsAncestor(w, Up(v))
      OBVIOUS
  <2>1. Chain(Up(v)) \in Seq(Vertex)
        BY <1>1, VertexTableTypes
  <2>2. ASSUME IsAncestor(w, v) PROVE w = Up(v) \/ IsAncestor(w, Up(v))
    <3>1. PICK i \in DOMAIN Chain(v) : Chain(v)[i] = w /\ w # v
          BY <2>2 DEF IsAncestor
    <3>2. i \in 2 .. Len(Chain(v))
          BY <1>1, <3>1, ChainUp
    <3>3. i - 1 \in DOMAIN Chain(Up(v)) /\ Chain(Up(v))[i - 1] = w
          BY <1>1, <2>1, <3>1, <3>2, ChainUp
    <3>4. QED BY <3>3 DEF IsAncestor
  <2>3. ASSUME IsAncestor(w, Up(v)) PROVE IsAncestor(w, v)
    <3>1. PICK i \in DOMAIN Chain(Up(v)) : Chain(Up(v))[i] = w
          BY <2>3 DEF IsAncestor
    <3>2. i + 1 \in DOMAIN Chain(v) /\ Chain(v)[i + 1] = w
          BY <1>1, <2>1, <3>1, ChainUp
    <3>3. QED BY <1>2, <2>3, <3>2 DEF IsAncestor
  <2>4. ASSUME w = Up(v) PROVE IsAncestor(w, v)
        BY <1>1, <1>2, <2>4, ChainUp DEF IsAncestor
  <2>5. QED BY <2>2, <2>3, <2>4
<1>4. QED BY <1>1, <1>2, <1>3, TableNames DEF ActiveIn

LEMMA ActiveRoot == ActiveIn(Root) = {}
BY RootAlone, TableNames DEF ActiveIn

(***************************************************************************)
(* The parts of an agenda                                                  *)
(***************************************************************************)
LEMMA OneOp == \A name \in VertexOp, v \in Vertex : <<ToDo(name, v)>> \in Seq(Op)
BY OpTakes DEF Takes

LEMMA PathOps ==
    ASSUME NEW path \in Seq(Vertex)
    PROVE  Exits(path) \in Seq(Op) /\ \A target : Enters(path, target) \in Seq(Op)
<1>1. Takes(Op, {"exit"}) /\ Takes(Op, {"enter", "through"})
      BY OpTakes DEF Takes, VertexOp, OpName
<1>2. Exits(path) \in Seq(Op)
      BY <1>1, ExitsType
<1>3. ASSUME NEW target PROVE Enters(path, target) \in Seq(Op)
      BY <1>1, PathType
<1>4. QED BY <1>2, <1>3

(***************************************************************************)
(* Ways                                                                    *)
(***************************************************************************)
LEMMA WayOne ==
    ASSUME NEW s \in StateVertex, NEW z \in StateVertex, NEW o, Moves(s, o, z)
    PROVE  Way(s, <<o>>, z)
<1> DEFINE f == [i \in 1 .. 2 |-> IF i = 1 THEN s ELSE z]
<1>1. f \in [1 .. Len(<<o>>) + 1 -> StateVertex] /\ f[1] = s /\ f[Len(<<o>>) + 1] = z
      OBVIOUS
<1>2. \A i \in 1 .. Len(<<o>>) : Moves(f[i], <<o>>[i], f[i + 1])
      OBVIOUS
<1>3. QED BY <1>1, <1>2 DEF Way

\* The first step, and what is left.
LEMMA WayTail ==
    ASSUME NEW s, NEW z, NEW ag \in Seq(Op), ag # << >>, Way(s, ag, z)
    PROVE  \E m \in StateVertex : Moves(s, Head(ag), m) /\ Way(m, Tail(ag), z)
<1>1. PICK f \in [1 .. Len(ag) + 1 -> StateVertex] :
          /\ f[1] = s /\ f[Len(ag) + 1] = z
          /\ \A i \in 1 .. Len(ag) : Moves(f[i], ag[i], f[i + 1])
      BY DEF Way
<1>2. Len(ag) \in Nat /\ Len(ag) > 0 /\ Head(ag) = ag[1] /\ Len(Tail(ag)) = Len(ag) - 1
      /\ \A i \in 1 .. Len(ag) - 1 : Tail(ag)[i] = ag[i + 1]
      BY HeadTailProperties
<1> DEFINE g == [i \in 1 .. Len(ag) |-> f[i + 1]]
<1>3. g \in [1 .. Len(Tail(ag)) + 1 -> StateVertex] /\ g[1] = f[2]
      /\ g[Len(Tail(ag)) + 1] = z
      BY <1>1, <1>2
<1>4. \A i \in 1 .. Len(Tail(ag)) : Moves(g[i], Tail(ag)[i], g[i + 1])
      BY <1>1, <1>2
<1>5. Way(f[2], Tail(ag), z)
      BY <1>3, <1>4 DEF Way
<1>6. Moves(s, Head(ag), f[2]) /\ f[2] \in StateVertex
      BY <1>1, <1>2
<1>7. QED BY <1>5, <1>6

LEMMA WayJoin ==
    ASSUME NEW s, NEW m, NEW z, NEW a \in Seq(Op), NEW b \in Seq(Op),
           Way(s, a, m), Way(m, b, z)
    PROVE  Way(s, a \o b, z)
<1>1. PICK f \in [1 .. Len(a) + 1 -> StateVertex] :
          /\ f[1] = s /\ f[Len(a) + 1] = m
          /\ \A i \in 1 .. Len(a) : Moves(f[i], a[i], f[i + 1])
      BY DEF Way
<1>2. PICK g \in [1 .. Len(b) + 1 -> StateVertex] :
          /\ g[1] = m /\ g[Len(b) + 1] = z
          /\ \A i \in 1 .. Len(b) : Moves(g[i], b[i], g[i + 1])
      BY DEF Way
<1> DEFINE h == [i \in 1 .. Len(a) + Len(b) + 1 |-> IF i <= Len(a) THEN f[i] ELSE g[i - Len(a)]]
<1>3. Len(a) \in Nat /\ Len(b) \in Nat /\ Len(a \o b) = Len(a) + Len(b)
      OBVIOUS
<1>4. h \in [1 .. Len(a \o b) + 1 -> StateVertex] /\ h[1] = s /\ h[Len(a \o b) + 1] = z
      BY <1>1, <1>2, <1>3
<1>5. \A i \in 1 .. Len(a \o b) : Moves(h[i], (a \o b)[i], h[i + 1])
  <2> SUFFICES ASSUME NEW i \in 1 .. Len(a \o b) PROVE Moves(h[i], (a \o b)[i], h[i + 1])
      OBVIOUS
  <2>1. CASE i <= Len(a)
    <3>1. (a \o b)[i] = a[i] /\ h[i] = f[i] /\ h[i + 1] = f[i + 1]
          BY <1>1, <1>2, <1>3, <2>1
    <3>2. QED BY <1>1, <1>3, <2>1, <3>1
  <2>2. CASE i > Len(a)
    <3>1. /\ i - Len(a) \in 1 .. Len(b) /\ (a \o b)[i] = b[i - Len(a)]
          /\ h[i] = g[i - Len(a)] /\ h[i + 1] = g[(i - Len(a)) + 1]
          BY <1>3, <2>2
    <3>2. QED BY <1>2, <3>1
  <2>3. QED BY <1>3, <2>1, <2>2
<1>6. QED BY <1>4, <1>5 DEF Way

\* Effects and activities leave the tip alone.
LEMMA WayStays ==
    ASSUME NEW s \in StateVertex, NEW ag \in Seq(Op),
           \A i \in DOMAIN ag : ag[i].op \in {"effect", "spawn"}
    PROVE  Way(s, ag, s)
<1> DEFINE f == [i \in 1 .. Len(ag) + 1 |-> s]
<1>1. f \in [1 .. Len(ag) + 1 -> StateVertex] /\ f[1] = s /\ f[Len(ag) + 1] = s
      OBVIOUS
<1>2. \A i \in 1 .. Len(ag) : Moves(f[i], ag[i], f[i + 1])
      BY DEF Moves
<1>3. QED BY <1>1, <1>2 DEF Way

LEMMA WayExits ==
    ASSUME NEW v \in Vertex, NEW x \in Seq(Vertex), Ascends(x, v)
    PROVE  Way(Base(v), Exits(x), Summit(x, v)) /\ Summit(x, v) \in StateVertex
<1>1. \A w \in Vertex : Up(w) \in StateVertex /\ Base(w) \in StateVertex
      BY UpState
<1>2. Len(x) \in Nat /\ DOMAIN x = 1 .. Len(x) /\ \A i \in 1 .. Len(x) : x[i] \in Vertex
      BY ElementOfSeq
<1>3. Len(Exits(x)) = Len(x) /\ \A i \in 1 .. Len(x) : Exits(x)[i] = ToDo("exit", x[i])
      BY <1>2 DEF Exits
<1> DEFINE f == [i \in 1 .. Len(x) + 1 |-> IF i = 1 THEN Base(v) ELSE Up(x[i - 1])]
<1>4. f \in [1 .. Len(Exits(x)) + 1 -> StateVertex] /\ f[1] = Base(v)
      BY <1>1, <1>2, <1>3
<1>5. f[Len(Exits(x)) + 1] = Summit(x, v)
      BY <1>2, <1>3, EmptySeq DEF Summit
<1>6. \A i \in 1 .. Len(x) : Moves(f[i], ToDo("exit", x[i]), f[i + 1])
  <2> SUFFICES ASSUME NEW i \in 1 .. Len(x) PROVE Moves(f[i], ToDo("exit", x[i]), f[i + 1])
      OBVIOUS
  <2>1. x # << >> /\ v \notin EntryPoint
        BY <1>2 DEF Ascends
  <2>2. f[i + 1] = Up(x[i])
        BY <1>2
  <2>3. f[i] = Base(x[i]) /\ x[i] \notin EntryPoint
    <3>1. CASE i = 1
      <4>1. f[i] = Base(v)
            BY <1>4, <3>1
      <4>2. x[i] = v
            BY <1>2, <3>1 DEF Ascends
      <4>3. QED BY <2>1, <4>1, <4>2
    <3>2. CASE i # 1
      <4>1. i - 1 \in 1 .. Len(x) /\ f[i] = Up(x[i - 1])
            BY <3>2, LenProperties
      <4>2. x[i] = Up(x[i - 1])
            BY <1>2, <3>2 DEF Ascends
      <4>3. x[i] \in StateVertex
            BY <1>1, <1>2, <4>1, <4>2
      <4>4. QED BY <4>1, <4>2, <4>3 DEF Base, EntryPoint
    <3>3. QED BY <3>1, <3>2
  <2>4. QED BY <2>2, <2>3 DEF Moves, ToDo
<1>7. Way(Base(v), Exits(x), Summit(x, v))
      BY <1>3, <1>4, <1>5, <1>6 DEF Way
<1>8. QED BY <1>1, <1>2, <1>7, EmptySeq DEF Summit

LEMMA WayEnters ==
    ASSUME NEW s \in StateVertex, NEW e \in Seq(Vertex), NEW target \in Vertex,
           Descends(e, s, target)
    PROVE  Way(s, Enters(e, target), Base(target))
<1>1. \A w \in Vertex : Foot(w) \in StateVertex /\ Base(w) \in StateVertex
      BY UpState
<1>2. Len(e) \in Nat /\ Len(e) > 0 /\ DOMAIN e = 1 .. Len(e)
      /\ \A i \in 1 .. Len(e) : e[i] \in Vertex
      BY ElementOfSeq, EmptySeq DEF Descends
<1>3. /\ Len(Enters(e, target)) = Len(e)
      /\ \A i \in 1 .. Len(e) : Enters(e, target)[i] =
             ToDo(IF e[i] = target THEN "enter" ELSE "through", e[i])
      BY <1>2 DEF Enters
<1> DEFINE f == [i \in 1 .. Len(e) + 1 |-> IF i = 1 THEN s ELSE Base(e[i - 1])]
<1>4. f \in [1 .. Len(Enters(e, target)) + 1 -> StateVertex] /\ f[1] = s
      /\ f[Len(Enters(e, target)) + 1] = Base(target)
      BY <1>1, <1>2, <1>3 DEF Descends
<1>5. \A i \in 1 .. Len(e) :
          Moves(f[i], ToDo(IF e[i] = target THEN "enter" ELSE "through", e[i]), f[i + 1])
  <2> SUFFICES ASSUME NEW i \in 1 .. Len(e)
               PROVE  Moves(f[i], ToDo(IF e[i] = target THEN "enter" ELSE "through", e[i]),
                            f[i + 1])
      OBVIOUS
  <2>1. f[i + 1] = Base(e[i])
        BY <1>2
  <2>2. f[i] = Foot(e[i])
    <3>1. CASE i = 1
          BY <1>2, <3>1 DEF Descends
    <3>2. CASE i # 1
      <4>1. Foot(e[i]) = e[i - 1] /\ i - 1 \in 1 .. Len(e) - 1 /\ f[i] = Base(e[i - 1])
            BY <1>2, <3>2 DEF Descends
      <4>2. e[i - 1] \in StateVertex
            BY <4>1 DEF Descends
      <4>3. QED BY <4>1, <4>2 DEF Base
    <3>3. QED BY <3>1, <3>2
  <2>3. e[i] # target => e[i] \in StateVertex \ {Root}
    <3>1. i = Len(e) => e[i] = target
          BY DEF Descends
    <3>2. i # Len(e) => i \in 1 .. Len(e) - 1
          BY LenProperties
    <3>3. QED BY <3>1, <3>2 DEF Descends
  <2>4. QED BY <2>1, <2>2, <2>3 DEF Moves, ToDo
<1>6. QED BY <1>3, <1>4, <1>5 DEF Way

\* The vertex that follows in a transition is where the way of its agenda goes.
LEMMA WayOfTransition ==
    ASSUME NEW t \in Transition, NEW v \in Vertex, Leads(t, v)
    PROVE  \E z \in StateVertex : Way(Base(v), TransitionAgenda(t, v), z)
<1> DEFINE x == ExitPath(t, v)
           e == EnterPath(t, v)
           s == Summit(x, v)
           up == Exits(x) \o Effects(t, v)
<1>1. x \in Seq(Vertex) /\ e \in Seq(Vertex) /\ Target(t) \in Vertex \cup {None}
      BY TransitionTableTypes
<1>2. Ascends(x, v)
      BY DEF Leads
<1>3. Way(Base(v), Exits(x), s) /\ s \in StateVertex
      BY <1>1, <1>2, WayExits
<1>4. Exits(x) \in Seq(Op)
      BY <1>1, ExitsType, OpTakes DEF Takes, VertexOp, OpName
<1>5. \A name \in {"effect", "arrive"}, w \in Vertex : <<ToDo(name, w)>> \in Seq(Op)
      BY OpTakes DEF Takes, VertexOp, OpName
<1>6. Effects(t, v) \in Seq(Op)
      BY <1>5, EmptySeq DEF Effects
<1>7. Way(s, Effects(t, v), s)
  <2>1. \A i \in DOMAIN Effects(t, v) : Effects(t, v)[i].op \in {"effect", "spawn"}
        BY DEF Effects, ToDo
  <2>2. QED BY <1>3, <1>6, <2>1, WayStays
<1>8. Way(Base(v), up, s) /\ up \in Seq(Op)
      BY <1>3, <1>4, <1>6, <1>7, WayJoin
<1>9. \A w \in Vertex : Way(Base(w), <<ToDo("arrive", w)>>, Base(w)) /\ Base(w) \in StateVertex
  <2> SUFFICES ASSUME NEW w \in Vertex
               PROVE  Way(Base(w), <<ToDo("arrive", w)>>, Base(w)) /\ Base(w) \in StateVertex
      OBVIOUS
  <2>1. Base(w) \in StateVertex
        BY UpState
  <2>2. Moves(Base(w), ToDo("arrive", w), Base(w))
        BY DEF Moves, ToDo
  <2>3. QED BY <2>1, <2>2, WayOne
<1>10. CASE Target(t) = None
  <2>1. s = Base(v)
        BY <1>10 DEF Leads, Summit
  <2>2. TransitionAgenda(t, v) = up \o <<ToDo("arrive", v)>>
        BY <1>10 DEF TransitionAgenda
  <2>3. QED BY <1>5, <1>8, <1>9, <2>1, <2>2, WayJoin
<1>11. CASE Target(t) # None
  <2> DEFINE w == Target(t)
             down == Enters(e, w)
             last == <<ToDo("arrive", w)>>
  <2>1. w \in Vertex
        BY <1>1, <1>11
  <2>2. down \in Seq(Op) /\ last \in Seq(Op)
        BY <1>1, <1>5, <2>1, PathType, OpTakes DEF Takes, VertexOp, OpName
  <2>3. Way(s, down, Base(w))
    <3>1. CASE e = << >>
      <4>1. w = s
            BY <1>11, <3>1 DEF Leads
      <4>2. Base(w) = s
            BY <1>3, <4>1 DEF Base
      <4>3. down = << >>
            BY <3>1 DEF Enters
      <4>4. \A i \in DOMAIN down : down[i].op \in {"effect", "spawn"}
            BY <4>3
      <4>5. QED BY <1>3, <2>2, <4>2, <4>4, WayStays
    <3>2. CASE e # << >>
      <4>1. Descends(e, s, w)
            BY <1>11, <3>2 DEF Leads
      <4>2. QED BY <1>1, <1>3, <2>1, <4>1, WayEnters
    <3>3. QED BY <3>1, <3>2
  <2>4. TransitionAgenda(t, v) = up \o (down \o last)
        BY <1>11 DEF TransitionAgenda
  <2>5. Way(Base(w), last, Base(w)) /\ Base(w) \in StateVertex
        BY <1>9, <2>1
  <2> HIDE DEF up, down, last, s
  <2>6. Way(s, down \o last, Base(w)) /\ down \o last \in Seq(Op)
        BY <2>2, <2>3, <2>5, WayJoin
  <2>7. Way(Base(v), up \o (down \o last), Base(w))
        BY <1>8, <2>6, WayJoin
  <2>8. QED BY <2>4, <2>5, <2>7
<1>12. QED BY <1>10, <1>11

LEMMA FiredLeads ==
    ASSUME PointsJoin, NEW t \in Transition, NEW v \in Vertex, Fires(t, v)
    PROVE  Leads(t, v)
BY PathsAssumption DEF PointsJoin, PathsLead

(***************************************************************************)
(* Sound agendas                                                           *)
(***************************************************************************)
LEMMA SoundPlain ==
    ASSUME NEW ag, \A i \in DOMAIN ag : ag[i].op \notin {"default", "arrive"}
    PROVE  Sound(ag)
BY DEF Sound

LEMMA SoundTail ==
    ASSUME NEW ag \in Seq(Op), ag # << >>, Sound(ag), Head(ag).op # "enter"
    PROVE  Sound(Tail(ag))
<1>1. Len(ag) \in Nat /\ Len(ag) > 0 /\ Head(ag) = ag[1] /\ Len(Tail(ag)) = Len(ag) - 1
      /\ DOMAIN ag = 1 .. Len(ag) /\ DOMAIN Tail(ag) = 1 .. Len(ag) - 1
      /\ \A i \in 1 .. Len(ag) - 1 : Tail(ag)[i] = ag[i + 1]
      BY HeadTailProperties
<1> SUFFICES ASSUME NEW i \in DOMAIN Tail(ag)
             PROVE  /\ Tail(ag)[i].op = "default" => Tail(ag)[i].v \in StateVertex
                    /\ Tail(ag)[i].op = "arrive" /\ Tail(ag)[i].v \notin StateVertex =>
                           i > 1 /\ Tail(ag)[i - 1] = ToDo("enter", Tail(ag)[i].v)
    BY DEF Sound
<1>2. i + 1 \in DOMAIN ag /\ Tail(ag)[i] = ag[i + 1]
      BY <1>1
<1>3. ag[i + 1].op = "default" => ag[i + 1].v \in StateVertex
      BY <1>2 DEF Sound
<1>4. ASSUME ag[i + 1].op = "arrive", ag[i + 1].v \notin StateVertex
      PROVE  i > 1 /\ Tail(ag)[i - 1] = ToDo("enter", ag[i + 1].v)
  <2>1. ag[(i + 1) - 1] = ToDo("enter", ag[i + 1].v)
        BY <1>2, <1>4 DEF Sound
  <2>2. (i + 1) - 1 = i
        BY <1>1
  <2>3. i # 1
    <3>1. ag[i].op = "enter"
          BY <2>1, <2>2 DEF ToDo
    <3>2. QED BY <1>1, <3>1
  <2>4. i > 1 /\ Tail(ag)[i - 1] = ag[i]
        BY <1>1, <2>3
  <2>5. QED BY <2>1, <2>2, <2>4
<1>5. QED BY <1>2, <1>3, <1>4

LEMMA SoundJoin ==
    ASSUME NEW a \in Seq(Op), NEW b \in Seq(Op), Sound(a), Sound(b)
    PROVE  Sound(a \o b)
<1> DEFINE c == a \o b
<1>1. Len(a) \in Nat /\ Len(b) \in Nat /\ DOMAIN c = 1 .. Len(a) + Len(b)
      /\ DOMAIN a = 1 .. Len(a) /\ DOMAIN b = 1 .. Len(b)
      OBVIOUS
<1> SUFFICES ASSUME NEW i \in DOMAIN c
             PROVE  /\ c[i].op = "default" => c[i].v \in StateVertex
                    /\ c[i].op = "arrive" /\ c[i].v \notin StateVertex =>
                           i > 1 /\ c[i - 1] = ToDo("enter", c[i].v)
    BY DEF Sound
<1>2. CASE i <= Len(a)
  <2>1. i \in DOMAIN a /\ c[i] = a[i] /\ (i > 1 => c[i - 1] = a[i - 1])
        BY <1>1, <1>2
  <2>2. QED BY <2>1 DEF Sound
<1>3. CASE i > Len(a)
  <2>1. i - Len(a) \in DOMAIN b /\ c[i] = b[i - Len(a)]
        BY <1>1, <1>3
  <2>2. i - Len(a) > 1 => i > 1 /\ c[i - 1] = b[(i - Len(a)) - 1]
        BY <1>1, <1>3
  <2>3. QED BY <2>1, <2>2 DEF Sound
<1>4. QED BY <1>1, <1>2, <1>3

\* What _transition does to the agenda, for a transition that is followed.
LEMMA SoundTransition ==
    ASSUME NEW t \in Transition, NEW v \in Vertex, Fires(t, v),
           Target(t) = None => v \in StateVertex
    PROVE  Sound(TransitionAgenda(t, v))
<1> DEFINE x == ExitPath(t, v)
           e == EnterPath(t, v)
           up == Exits(x) \o Effects(t, v)
<1>1. x \in Seq(Vertex) /\ e \in Seq(Vertex) /\ Target(t) \in Vertex \cup {None}
      BY TransitionTableTypes
<1>2. Exits(x) \in Seq(Op)
      BY <1>1, ExitsType, OpTakes DEF Takes, VertexOp, OpName
<1>3. \A name \in {"effect", "arrive"}, w \in Vertex : <<ToDo(name, w)>> \in Seq(Op)
      BY OpTakes DEF Takes, VertexOp, OpName
<1>4. Effects(t, v) \in Seq(Op)
      BY <1>3, EmptySeq DEF Effects
<1>5. Sound(Exits(x)) /\ Sound(Effects(t, v))
      BY SoundPlain DEF Exits, Effects, ToDo
<1>6. Sound(up) /\ up \in Seq(Op)
      BY <1>2, <1>4, <1>5, SoundJoin
<1>7. \A w \in StateVertex : Sound(<<ToDo("arrive", w)>>)
      BY DEF Sound, ToDo
<1>8. CASE Target(t) = None
  <2>1. TransitionAgenda(t, v) = up \o <<ToDo("arrive", v)>>
        BY <1>8 DEF TransitionAgenda
  <2> HIDE DEF up
  <2>2. QED BY <1>3, <1>6, <1>7, <1>8, <2>1, SoundJoin
<1>9. CASE Target(t) # None
  <2> DEFINE w == Target(t)
             down == Enters(e, w)
             last == <<ToDo("arrive", w)>>
  <2>1. w \in Vertex
        BY <1>1, <1>9
  <2>2. down \in Seq(Op) /\ last \in Seq(Op)
        BY <1>1, <1>3, <2>1, PathType, OpTakes DEF Takes, VertexOp, OpName
  <2>3. TransitionAgenda(t, v) = up \o (down \o last)
        BY <1>9 DEF TransitionAgenda
  <2>4. Sound(down)
        BY SoundPlain DEF Enters, ToDo
  <2>5. Sound(down \o last)
    <3>1. CASE w \in StateVertex
          BY <1>7, <2>2, <2>4, <3>1, SoundJoin
    <3>2. CASE w \notin StateVertex
      <4>1. Len(e) \in Nat /\ Len(e) > 0 /\ e[Len(e)] = w
        <5>1. e # << >> /\ e[Len(e)] = w
              BY <2>1, <3>2, PathsAssumption DEF PathsEnd
        <5>2. QED BY <1>1, <5>1, EmptySeq
      <4>2. DOMAIN down = 1 .. Len(e) /\ Len(down) = Len(e) /\ down[Len(e)] = ToDo("enter", w)
            BY <1>1, <4>1 DEF Enters
      <4>3. \A i \in 1 .. Len(e) : (down \o last)[i].op \notin {"default", "arrive"}
            BY <2>2, <4>2 DEF Enters, ToDo
      <4>4. DOMAIN (down \o last) = 1 .. Len(e) + 1 /\ (down \o last)[Len(e) + 1] = ToDo("arrive", w)
            /\ (down \o last)[Len(e)] = ToDo("enter", w)
            BY <2>2, <4>1, <4>2
      <4>5. ToDo("arrive", w).v = w /\ ToDo("arrive", w).op = "arrive"
            BY DEF ToDo
      <4>6. QED BY <4>1, <4>3, <4>4, <4>5 DEF Sound
    <3>3. QED BY <3>1, <3>2
  <2> HIDE DEF up, down, last
  <2>6. down \o last \in Seq(Op)
        BY <2>2
  <2>7. Sound(up \o (down \o last))
        BY <1>6, <2>5, <2>6, SoundJoin
  <2>8. QED BY <2>3, <2>7
<1>10. QED BY <1>8, <1>9

(***************************************************************************)
(* Steps of others                                                         *)
(***************************************************************************)
\* Somebody other than the holder moves, and takes the mutex at most to run
\* the loop.
Bystander ==
    /\ UNCHANGED <<workVars, stateVars, faults>>
    /\ UNCHANGED stage \/ (holder = Free /\ stage' = "pop")

OthersMove ==
    \/ ClientStep
    \/ \E t \in TaskId : TaskStep(t)
    \/ \E c \in Client : CallStep(c)
    \/ \E i \in EventId : WaitBegins(i)

LEMMA OthersStandBy ==
    ASSUME OthersMove
    PROVE  Bystander \/ BeginStartup \/ \E c \in Client : \E m : BeginStop(c, m)
<1> USE DEF machineVars, queueVars, runVars, workVars, eventVars, stateVars, restVars,
            TaskEnds, CallBecomes
<1>1. ASSUME NEW n, Accept(n), UNCHANGED <<workVars, stateVars, faults>> PROVE Bystander
      BY <1>1 DEF Accept, Bystander
<1>2. ASSUME NEW t \in TaskId, TaskStep(t) PROVE Bystander
  <2>1. CASE TaskFinishes(t) \/ TaskCancelled(t)
        BY <2>1 DEF TaskFinishes, TaskCancelled, Bystander
  <2>2. CASE TaskFails(t) \/ \E n \in DispatchName : TaskCleanup(t, n)
        BY <1>1, <2>2 DEF TaskFails, TaskCleanup
  <2>3. QED BY <1>2, <2>1, <2>2 DEF TaskStep
<1>3. ASSUME NEW c, NEW m, StopWaits(c, m) PROVE Bystander
      BY <1>3 DEF StopWaits, Bystander
<1>4. ASSUME NEW c \in Client, CallStep(c)
      PROVE  Bystander \/ BeginStartup \/ \E m : BeginStop(c, m)
      BY <1>3, <1>4 DEF CallStep, StopRetry, StopReturns, RestartStarts, RestartFails,
                        RestartAbandoned, Bystander
<1>5. CASE ClientStep
  <2>1. CASE Start
        BY <2>1 DEF Start
  <2>2. CASE ParentEnds
        BY <2>2 DEF ParentEnds, Bystander
  <2>3. CASE \E n \in DispatchName : Dispatch(n)
        BY <1>1, <2>3 DEF Dispatch
  <2>4. CASE \E c \in Client, m \in CallMode : StopCall(c, m)
        BY <1>3, <2>4 DEF StopCall
  <2>5. QED BY <1>5, <2>1, <2>2, <2>3, <2>4 DEF ClientStep
<1>6. ASSUME NEW i \in EventId, WaitBegins(i) PROVE Bystander
      BY <1>6 DEF WaitBegins, Bystander
<1>7. QED BY <1>2, <1>4, <1>5, <1>6 DEF OthersMove

(***************************************************************************)
(* Every step keeps the machine in states                                  *)
(***************************************************************************)
LEMMA StatesStay ==
    ASSUME StatesInv, UNCHANGED <<state, history>>, Sound(agenda'),
           UNCHANGED <<stage, cands, from>> \/ stage' \notin {"select", "branch"}
    PROVE  StatesInv'
BY DEF StatesInv, RestsInStates, SelectsInState, BranchesOn

LEMMA SoundEmpty == Sound(<< >>)
BY DEF Sound

\* _transition remembers only what the history table says.
LEMMA StatesFollow ==
    ASSUME TypeOK, StatesInv, NEW t \in Transition, NEW v \in Vertex, Fires(t, v),
           Target(t) = None => v \in StateVertex, Follow(t, v), UNCHANGED state
    PROVE  StatesInv'
<1>1. Sound(agenda') /\ stage' = "run"
      BY SoundTransition DEF Follow
<1>2. SkipOwner(t) \in Vertex \cup {None}
  <2>1. \A h \in History : h \in Vertex /\ h # Root
        BY TableNames
  <2>2. \A h \in History : Chain(h)[2] \in Vertex
        BY <2>1, UpState, TableNames DEF Up
  <2>3. QED BY <2>2 DEF SkipOwner
<1>3. \A h \in History : LET r == HistoryTargets(v, SkipOwner(t))[h]
                         IN  r # None => r \in StateVertex /\ IsAncestor(Chain(h)[2], r)
      BY <1>2, HistoryAssumption, TableNames DEF HistoriesReturn, Up
<1>4. \A h \in History :
          \/ history'[h] = history[h]
          \/ /\ history'[h] = HistoryTargets(v, SkipOwner(t))[h]
             /\ HistoryTargets(v, SkipOwner(t))[h] # None
      BY DEF Follow, Remember, TypeOK
<1>5. RestsInStates'
      BY <1>3, <1>4 DEF StatesInv, RestsInStates
<1>6. QED BY <1>1, <1>5 DEF StatesInv, SelectsInState, BranchesOn

LEMMA StatesLoop ==
    ASSUME TypeOK, StatesInv, ProcessStep PROVE StatesInv'
<1> USE DEF queueVars, runVars, workVars, eventVars, stateVars, restVars, GoTo
<1>1. Sound(agenda)
      BY DEF StatesInv
<1>2. CASE PopDeferred \/ Replay \/ Replayed \/ Drain \/ PutBack
      BY <1>1, <1>2, StatesStay DEF PopDeferred, Replay, Replayed, Drain, PutBack
<1>3. CASE PopEvent
  <2>1. NextEvent.name \in EventName
    <3>1. NextEvent \in Event
      <4>1. lifo # << >> \/ fifo # << >>
            BY <1>3 DEF PopEvent, QueueEmpty
      <4>2. QED BY <4>1, HeadTailProperties DEF NextEvent, TypeOK
    <3>2. QED BY <3>1 DEF Event
  <2>2. state \in StateVertex /\ AnyEvent \in EventName /\ state \in Vertex
        BY TableNames DEF StatesInv, RestsInStates
  <2>3. \A n \in EventName : TransitionMap(state, n) \in Seq(Transition)
        /\ \A i \in DOMAIN TransitionMap(state, n) : Fires(TransitionMap(state, n)[i], state)
        BY <2>2, VertexTableTypes DEF Fires
  <2>4. \A i \in DOMAIN Candidates(NextEvent) : Fires(Candidates(NextEvent)[i], state)
    <3> DEFINE a == TransitionMap(state, NextEvent.name)
               b == IF NextEvent.name = AnyEvent THEN << >> ELSE TransitionMap(state, AnyEvent)
    <3>1. /\ a \in Seq(Transition) /\ \A i \in DOMAIN a : Fires(a[i], state)
          /\ b \in Seq(Transition) /\ \A i \in DOMAIN b : Fires(b[i], state)
          BY <2>1, <2>2, <2>3, EmptySeq
    <3>2. Candidates(NextEvent) = a \o b
          BY DEF Candidates
    <3> HIDE DEF a, b
    <3>3. \A i \in DOMAIN (a \o b) : \/ i \in DOMAIN a /\ (a \o b)[i] = a[i]
                                     \/ i - Len(a) \in DOMAIN b /\ (a \o b)[i] = b[i - Len(a)]
          BY <3>1
    <3>4. QED BY <3>1, <3>2, <3>3
  <2>5. /\ UNCHANGED <<state, history, agenda>> /\ from' = state /\ stage' = "select"
        /\ cands' = Candidates(NextEvent)
        BY <1>3 DEF PopEvent
  <2>6. QED BY <1>1, <2>4, <2>5 DEF StatesInv, RestsInStates, SelectsInState, BranchesOn
<1>4. CASE TakeTransition
  <2> DEFINE t == Head(cands)
  <2>1. t \in Transition /\ from \in Vertex /\ t = cands[1] /\ 1 \in DOMAIN cands
        BY <1>4, CandsType, HeadTailProperties, LenProperties, EmptySeq DEF TakeTransition, TypeOK
  <2>2. Fires(t, from) /\ (Target(t) = None => from \in StateVertex)
    <3>1. CASE stage = "select"
          BY <2>1, <3>1 DEF StatesInv, SelectsInState, RestsInStates
    <3>2. CASE stage = "branch"
      <4>1. from \in Vertex \ StateVertex
            /\ \E j \in DOMAIN Outgoing(from) : t = Outgoing(from)[j]
            BY <2>1, <3>2 DEF StatesInv, BranchesOn
      <4>2. ~IsHandler(t)
            BY <1>4, <3>2 DEF TakeTransition, HandlerNext
      <4>3. Target(t) # None
            BY <4>1, BranchAssumption DEF BranchesLead
      <4>4. QED BY <4>1, <4>2, <4>3 DEF Fires
    <3>3. QED BY <1>4, <3>1, <3>2 DEF TakeTransition
  <2>3. Follow(t, from) /\ UNCHANGED state
        BY <1>4 DEF TakeTransition
  <2>4. QED BY <2>1, <2>2, <2>3, StatesFollow
<1>5. CASE GuardFails \/ HandlerRuns
  <2>1. /\ cands' = Tail(cands) /\ cands # << >> /\ UNCHANGED <<state, history, stage, agenda, from>>
        BY <1>5 DEF GuardFails, HandlerRuns, InGuard, HandlerNext, NextCandidate
  <2>2. /\ Len(cands) \in Nat /\ DOMAIN cands = 1 .. Len(cands)
        /\ DOMAIN cands' = 1 .. Len(cands) - 1
        /\ \A i \in 1 .. Len(cands) - 1 : cands'[i] = cands[i + 1]
        /\ Head(cands) = cands[1]
        BY <2>1, HeadTailProperties DEF TypeOK
  <2>3. \A i \in DOMAIN cands' : i + 1 \in DOMAIN cands /\ cands'[i] = cands[i + 1]
        BY <2>2
  <2>4. SelectsInState'
        BY <2>1, <2>3 DEF StatesInv, SelectsInState
  <2>5. ASSUME stage = "branch",
               from \notin History, Kind(from) # "exit"
        PROVE  \E i \in DOMAIN cands' : ~Guarded(cands'[i])
    <3>1. PICK i \in DOMAIN cands : ~Guarded(cands[i])
          BY <2>5 DEF StatesInv, BranchesOn
    <3>2. Guarded(cands[1])
      <4>1. CASE GuardFails
            BY <2>2, <4>1 DEF GuardFails, InGuard
      <4>2. CASE HandlerRuns
        <5>1. IsHandler(cands[1])
              BY <2>2, <4>2 DEF HandlerRuns, HandlerNext
        <5>2. PICK j \in DOMAIN Outgoing(from) : cands[1] = Outgoing(from)[j]
              BY <2>1, <2>2, <2>5, <3>1 DEF StatesInv, BranchesOn
        <5>3. Source(cands[1]) = from
              BY <2>5, <5>2, BranchAssumption DEF BranchesLead, StatesInv, BranchesOn
        <5>4. QED BY <2>5, <5>1, <5>3 DEF IsHandler
      <4>3. QED BY <1>5, <4>1, <4>2
    <3>3. i - 1 \in DOMAIN cands' /\ cands'[i - 1] = cands[i]
          BY <2>2, <3>1, <3>2
    <3>4. QED BY <3>1, <3>3
  <2>6. BranchesOn'
        BY <2>1, <2>3, <2>5 DEF StatesInv, BranchesOn
  <2>7. QED BY <2>1, <2>4, <2>6 DEF StatesInv, RestsInStates
<1>6. CASE NoTransition \/ NoResult
      BY <1>6, SoundEmpty, StatesStay DEF NoTransition, NoResult, Unhandled
<1>7. CASE Arrive
  <2>1. Head(agenda).op = "arrive" /\ agenda \in Seq(Op) /\ agenda # << >>
        BY <1>7 DEF Arrive, Doing, TypeOK
  <2>2. Head(agenda) = agenda[1] /\ 1 \in DOMAIN agenda
        BY <2>1, HeadTailProperties, EmptySeq
  <2>3. Vtx \in StateVertex
        BY <1>1, <2>1, <2>2 DEF Sound, Vtx
  <2>4. RestsInStates'
        BY <1>7, <2>3 DEF Arrive, StatesInv, RestsInStates
  <2>5. QED BY <1>7, <2>4, SoundEmpty DEF Arrive, StatesInv, SelectsInState, BranchesOn
<1>8. CASE Finish
      BY <1>8, SoundEmpty, StatesStay DEF Finish, Release
<1>9. QED BY <1>2, <1>3, <1>4, <1>5, <1>6, <1>7, <1>8 DEF ProcessStep

\* The vertex of a default entry, and of the first step of an agenda.
LEMMA HeadSound ==
    ASSUME TypeOK, agenda # << >>, Sound(agenda)
    PROVE  /\ Head(agenda).op = "default" => Vtx \in StateVertex
           /\ Head(agenda).op = "arrive" => Vtx \in StateVertex
           /\ Head(agenda).op # "enter" => Sound(Tail(agenda))
<1>1. Head(agenda) = agenda[1] /\ 1 \in DOMAIN agenda /\ agenda \in Seq(Op)
      BY HeadTailProperties, EmptySeq DEF TypeOK
<1>2. Head(agenda).op # "enter" => Sound(Tail(agenda))
      BY <1>1, SoundTail
<1>3. QED BY <1>1, <1>2 DEF Sound, Vtx

\* What a history remembers is where its path leads.
LEMMA HistoryLeadsDown ==
    ASSUME StatesInv, NEW h \in History, history[h] # None
    PROVE  Descends(HistoryPath(h, history[h]), Up(h), history[h])
<1>1. history[h] \in StateVertex /\ IsAncestor(Up(h), history[h])
      BY TableNames DEF StatesInv, RestsInStates, Up
<1>2. QED BY <1>1, HistoryAssumption DEF HistoriesReturn

LEMMA StatesExecutor ==
    ASSUME PointsEnter, TypeOK, StatesInv, TransitionStep PROVE StatesInv'
<1> USE DEF queueVars, runVars, workVars, eventVars, stateVars, restVars, Continue
<1>1. Sound(agenda)
      BY DEF StatesInv
<1>2. CASE Effect \/ Spawn \/ Leave
      BY <1>1, <1>2, HeadSound, StatesStay DEF Effect, Spawn, File, Leave, Doing
<1>3. CASE SpawnFails
  <2>1. UNCHANGED <<state, history, cands, from>> /\ Sound(agenda')
        BY <1>1, <1>3, HeadSound DEF SpawnFails, File, Doing
  <2>2. UNCHANGED stage \/ stage' = "pop"
        BY <1>3 DEF SpawnFails, Accept
  <2>3. QED BY <2>1, <2>2, StatesStay
<1>4. CASE EnterState
  <2>1. Vtx \in StateVertex /\ Vtx \in Vertex /\ agenda # << >>
        BY <1>4, TableNames DEF EnterState, Doing
  <2>2. Spawns(Vtx) \in Seq(Op) /\ <<ToDo("default", Vtx)>> \in Seq(Op) /\ Tail(agenda) \in Seq(Op)
        BY <2>1, AgendaType, SpawnsType, OpTakes DEF Takes, VertexOp, OpName, Op, ToDo
  <2>3. Sound(Spawns(Vtx))
        BY SoundPlain DEF Spawns, ToDo
  <2>4. Sound(<<ToDo("default", Vtx)>>)
        BY <2>1 DEF Sound, ToDo
  <2>5. Sound(agenda')
        BY <1>1, <1>4, <2>1, <2>2, <2>3, <2>4, HeadSound, SoundJoin DEF EnterState, Doing
  <2>6. QED BY <1>4, <2>5, StatesStay DEF EnterState
<1>5. CASE EnterFinal \/ EnterSimple
  <2>1. Vtx \in StateVertex
        BY <1>1, <1>5, HeadSound DEF EnterFinal, EnterSimple, Doing
  <2>2. Sound(<<ToDo("arrive", Vtx)>>)
        BY <2>1 DEF Sound, ToDo
  <2>3. QED BY <1>5, <2>2, StatesStay DEF EnterFinal, EnterSimple
<1>6. CASE EnterInitial
  <2>1. Vtx \in StateVertex /\ Vtx \in Vertex
        BY <1>1, <1>6, HeadSound, TableNames DEF EnterInitial, Doing
  <2>2. Initial(Vtx) \in Transition /\ Fires(Initial(Vtx), Vtx)
        BY <1>6, <2>1, VertexTableTypes DEF EnterInitial, Fires
  <2>3. QED BY <1>6, <2>1, <2>2, StatesFollow DEF EnterInitial
<1>7. CASE EnterPseudo
  <2>1. Vtx \in Vertex \ StateVertex
        BY <1>7, AgendaType DEF EnterPseudo, Doing
  <2>2. Vtx \in History \/ Kind(Vtx) = "exit"
            \/ \E i \in DOMAIN Outgoing(Vtx) : ~Guarded(Outgoing(Vtx)[i])
    <3>1. CASE Vtx \in EntryPoint
      <4>1. Outgoing(Vtx) \in Seq(Transition) /\ Outgoing(Vtx) # << >>
            BY <2>1, <3>1, VertexTableTypes DEF PointsEnter
      <4>2. 1 \in DOMAIN Outgoing(Vtx)
            BY <4>1, EmptySeq
      <4>3. QED BY <2>1, <3>1, <4>2, BranchAssumption DEF BranchesLead
    <3>2. QED BY <2>1, <3>1, BranchAssumption DEF BranchesLead
  <2>3. /\ UNCHANGED <<state, history>> /\ agenda' = << >> /\ stage' = "branch"
        /\ cands' = Outgoing(Vtx) /\ from' = Vtx
        BY <1>7 DEF EnterPseudo
  <2>4. QED BY <2>1, <2>2, <2>3, SoundEmpty DEF StatesInv, RestsInStates, SelectsInState, BranchesOn
<1>8. CASE EnterHistory
  <2>1. Vtx \in History /\ history[Vtx] # None
        BY <1>8 DEF EnterHistory
  <2>2. Vtx \in Vertex /\ history[Vtx] \in Vertex
        BY <2>1, TableNames DEF TypeOK
  <2> DEFINE down == Enters(HistoryPath(Vtx, history[Vtx]), history[Vtx])
             last == <<ToDo("none", Vtx)>>
  <2>3. down \in Seq(Op) /\ last \in Seq(Op)
    <3>1. HistoryPath(Vtx, history[Vtx]) \in Seq(Vertex)
          BY <2>1, <2>2, VertexTableTypes
    <3>2. QED BY <2>2, <3>1, PathOps, OneOp DEF VertexOp, OpName
  <2>4. Sound(down) /\ Sound(last)
        BY SoundPlain DEF Enters, ToDo
  <2>5. agenda' = down \o last
        BY <1>8 DEF EnterHistory
  <2> HIDE DEF down, last
  <2>6. Sound(agenda')
        BY <2>3, <2>4, <2>5, SoundJoin
  <2>7. QED BY <1>8, <2>6, StatesStay DEF EnterHistory
<1>9. CASE NoBranch
  <2>1. from \in History
        BY <1>9 DEF NoBranch, StatesInv, BranchesOn
  <2>2. agenda' = <<ToDo("none", from)>>
        BY <1>9, <2>1 DEF NoBranch
  <2>3. Sound(agenda')
        BY <2>2 DEF Sound, ToDo
  <2>4. QED BY <1>9, <2>3, StatesStay DEF NoBranch
<1>10. CASE Terminate \/ Resume
      BY <1>1, <1>10, StatesStay DEF Terminate, Resume
<1>11. QED BY <1>2, <1>3, <1>4, <1>5, <1>6, <1>7, <1>8, <1>9, <1>10 DEF TransitionStep

LEMMA StatesOthers ==
    ASSUME TypeOK, StatesInv, OthersMove \/ Raise \/ StopFinish PROVE StatesInv'
<1> USE DEF queueVars, runVars, workVars, eventVars, stateVars, restVars
<1>1. CASE Raise
      BY <1>1, SoundEmpty, StatesStay DEF Raise, Release
<1>2. CASE StopFinish
      BY <1>2, SoundEmpty, TableNames
      DEF StopFinish, Release, ClearQueue, StatesInv, RestsInStates, SelectsInState, BranchesOn
<1>3. CASE Bystander
      BY <1>3, StatesStay DEF Bystander, StatesInv
<1>4. CASE BeginStartup
  <2>1. Sound(agenda')
        BY <1>4 DEF BeginStartup, Sound, ToDo
  <2>2. RestsInStates'
        BY <1>4 DEF BeginStartup, StatesInv, RestsInStates
  <2>3. QED BY <1>4, <2>1, <2>2 DEF BeginStartup, StatesInv, SelectsInState, BranchesOn
<1>5. ASSUME NEW c \in Client, NEW m, BeginStop(c, m) PROVE StatesInv'
  <2>1. Sound(agenda')
    <3> DEFINE x == SubSeq(Chain(state), 1, Len(Chain(state)) - 1)
    <3>1. x \in Seq(Vertex)
          BY VertexTableTypes DEF TypeOK
    <3>2. Exits(x) \in Seq(Op) /\ <<ToDo("halt", Root)>> \in Seq(Op)
          BY <3>1, PathOps, OneOp, TableNames DEF VertexOp, OpName
    <3>3. Sound(Exits(x)) /\ Sound(<<ToDo("halt", Root)>>)
          BY SoundPlain DEF Exits, ToDo
    <3>4. agenda' = Exits(x) \o <<ToDo("halt", Root)>>
          BY <1>5 DEF BeginStop
    <3> HIDE DEF x
    <3>5. QED BY <3>2, <3>3, <3>4, SoundJoin
  <2>2. QED BY <1>5, <2>1, StatesStay DEF BeginStop
<1>6. QED BY <1>1, <1>2, <1>3, <1>4, <1>5, OthersStandBy

(***************************************************************************)
(* DefaultModelFinalizer and _enter: whatever callbacks raise, the machine *)
(* never rests in a choice, a point or a history vertex, and a history     *)
(* remembers a state below its owner, so it can always be entered again.   *)
(***************************************************************************)
THEOREM StatesInvariant == ASSUME PointsEnter PROVE Spec => []StatesInv
<1>1. Init => StatesInv
      BY SoundEmpty, TableNames
      DEF Init, StatesInv, RestsInStates, SelectsInState, BranchesOn
<1>2. TypeOK /\ StatesInv /\ [Next]_vars => StatesInv'
  <2> SUFFICES ASSUME TypeOK, StatesInv, [Next]_vars PROVE StatesInv'
      OBVIOUS
  <2>1. CASE UNCHANGED vars
        BY <2>1 DEF vars, machineVars, runVars, workVars, stateVars, StatesInv, RestsInStates,
                    SelectsInState, BranchesOn
  <2>2. CASE Next
        BY <2>2, StatesLoop, StatesExecutor, StatesOthers DEF Next, HolderStep, OthersMove
  <2>3. QED BY <2>1, <2>2
<1>3. QED BY <1>1, <1>2, TypeCorrect, PTL DEF Spec

\* DefaultModelFinalizer and _enter: between two transitions the machine is
\* in a state, and its histories remember states they can return to.
THEOREM MachineRestsInStates == ASSUME PointsEnter PROVE Spec => []RestsInStates
<1>1. StatesInv => RestsInStates
      BY DEF StatesInv
<1>2. QED BY <1>1, StatesInvariant, PTL

(***************************************************************************)
(* The balance of entries and exits                                        *)
(***************************************************************************)
LEMMA BalanceEnter ==
    ASSUME TypeOK, NEW v \in StateVertex, EnteredAt(Foot(v)),
           balance' = [balance EXCEPT ![v] = @ + 1]
    PROVE  EnteredAt(v)'
<1>1. Foot(v) = Up(v)
      BY DEF Foot, EntryPoint
<1>2. balance \in [StateVertex -> Int]
      BY DEF TypeOK
<1>3. CASE v = Root
      BY <1>1, <1>2, <1>3 DEF EnteredAt, Up
<1>4. CASE v # Root
  <2>1. v \notin ActiveIn(Up(v)) /\ ActiveIn(v) = ActiveIn(Up(v)) \cup {v}
        BY <1>4, ActiveUp
  <2>2. QED BY <1>1, <1>2, <2>1 DEF EnteredAt
<1>5. QED BY <1>3, <1>4

LEMMA BalanceLeave ==
    ASSUME TypeOK, NEW v \in StateVertex, EnteredAt(v),
           balance' = [balance EXCEPT ![v] = @ - 1]
    PROVE  EnteredAt(Up(v))'
<1>1. balance \in [StateVertex -> Int]
      BY DEF TypeOK
<1>2. CASE v = Root
      BY <1>1, <1>2 DEF EnteredAt, Up
<1>3. CASE v # Root
  <2>1. v \notin ActiveIn(Up(v)) /\ ActiveIn(v) = ActiveIn(Up(v)) \cup {v}
        BY <1>3, ActiveUp
  <2>2. QED BY <1>1, <2>1 DEF EnteredAt
<1>4. QED BY <1>2, <1>3

\* A step that leaves the tip where it is.
LEMMA ConfigStays ==
    ASSUME ConfigInv, faults' = 0 => faults = 0, UNCHANGED <<balance, state>>,
           \/ UNCHANGED <<stage, agenda, from>>
           \/ {stage, stage'} \cap {"run", "branch"} = {}
    PROVE  ConfigInv'
<1> SUFFICES ASSUME faults = 0 PROVE \E tip \in StateVertex : EnteredAt(tip)' /\ TipAt(tip)'
    BY DEF ConfigInv
<1>1. PICK tip \in StateVertex : EnteredAt(tip) /\ TipAt(tip)
      BY DEF ConfigInv
<1>2. EnteredAt(tip)'
      BY <1>1 DEF EnteredAt
<1>3. TipAt(tip)'
      BY <1>1 DEF TipAt
<1>4. QED BY <1>2, <1>3

\* A new tip for a new agenda.
LEMMA ConfigRuns ==
    ASSUME NEW tip \in StateVertex, NEW z \in StateVertex, EnteredAt(tip)',
           stage' = "run", Way(tip, agenda', z)
    PROVE  ConfigInv'
BY DEF ConfigInv, TipAt

LEMMA ConfigFollow ==
    ASSUME PointsJoin, NEW t \in Transition, NEW v \in Vertex, Fires(t, v), Follow(t, v),
           EnteredAt(Base(v)), UNCHANGED balance
    PROVE  ConfigInv'
<1>1. PICK z \in StateVertex : Way(Base(v), TransitionAgenda(t, v), z)
      BY FiredLeads, WayOfTransition
<1>2. EnteredAt(Base(v))' /\ stage' = "run" /\ agenda' = TransitionAgenda(t, v)
      BY DEF Follow, EnteredAt
<1>3. QED BY <1>1, <1>2, UpState, ConfigRuns

\* The next step of the holder, at the tip.
LEMMA ConfigHead ==
    ASSUME TypeOK, ConfigInv, faults = 0, stage = "run", agenda # << >>
    PROVE  \E tip, m, z \in StateVertex :
               EnteredAt(tip) /\ Moves(tip, Head(agenda), m) /\ Way(m, Tail(agenda), z)
<1>1. PICK tip \in StateVertex, z \in StateVertex : EnteredAt(tip) /\ Way(tip, agenda, z)
      BY DEF ConfigInv, TipAt
<1>2. agenda \in Seq(Op)
      BY DEF TypeOK
<1>3. QED BY <1>1, <1>2, WayTail

LEMMA ConfigLoop ==
    ASSUME PointsJoin, HistoryLeads, TypeOK, StatesInv, ConfigInv, ProcessStep
    PROVE  ConfigInv'
<1> USE DEF queueVars, runVars, workVars, eventVars, stateVars, restVars, GoTo
<1>1. UNCHANGED faults
      BY DEF ProcessStep, PopDeferred, PopEvent, TakeTransition, GuardFails, HandlerRuns,
             NextCandidate, NoTransition, NoResult, Unhandled, Arrive, Replay, Replayed,
             Drain, PutBack, Finish
<1>2. CASE PopDeferred \/ Replay \/ PutBack \/ GuardFails \/ HandlerRuns
      BY <1>1, <1>2, ConfigStays
      DEF PopDeferred, Replay, PutBack, GuardFails, HandlerRuns, NextCandidate
<1>3. CASE PopEvent \/ Replayed \/ Drain \/ NoTransition \/ Finish
      BY <1>1, <1>3, ConfigStays
      DEF PopEvent, Replayed, Drain, NoTransition, Unhandled, Finish, Release, Running
<1>4. CASE TakeTransition
  <2> SUFFICES ASSUME faults = 0 PROVE ConfigInv'
      BY <1>1 DEF ConfigInv
  <2> DEFINE t == Head(cands)
  <2>1. t \in Transition /\ from \in Vertex /\ t = cands[1] /\ 1 \in DOMAIN cands
        BY <1>4, CandsType, HeadTailProperties, LenProperties, EmptySeq DEF TakeTransition, TypeOK
  <2>2. PICK tip \in StateVertex : EnteredAt(tip) /\ TipAt(tip)
        BY DEF ConfigInv
  <2>3. Fires(t, from) /\ tip = Base(from)
    <3>1. CASE stage = "select"
      <4>1. from = state /\ state \in StateVertex /\ tip = state
            BY <2>2, <3>1 DEF StatesInv, SelectsInState, RestsInStates, TipAt
      <4>2. QED BY <2>1, <3>1, <4>1 DEF StatesInv, SelectsInState, Base
    <3>2. CASE stage = "branch"
      <4>1. from \in Vertex \ StateVertex
            /\ \E j \in DOMAIN Outgoing(from) : t = Outgoing(from)[j]
            BY <2>1, <3>2 DEF StatesInv, BranchesOn
      <4>2. ~IsHandler(t)
            BY <1>4, <3>2 DEF TakeTransition, HandlerNext
      <4>3. QED BY <2>2, <3>2, <4>1, <4>2 DEF Fires, TipAt
    <3>3. QED BY <1>4, <3>1, <3>2 DEF TakeTransition
  <2>4. Follow(t, from) /\ UNCHANGED balance
        BY <1>4 DEF TakeTransition
  <2>5. QED BY <2>1, <2>2, <2>3, <2>4, ConfigFollow
<1>5. CASE NoResult
      BY <1>5 DEF NoResult, HistoryLeads
<1>6. CASE Arrive
  <2> SUFFICES ASSUME faults = 0 PROVE ConfigInv'
      BY <1>1 DEF ConfigInv
  <2>1. stage = "run" /\ agenda # << >> /\ Head(agenda).op = "arrive"
        BY <1>6 DEF Arrive, Doing, Running
  <2>2. PICK tip, m, z \in StateVertex :
            EnteredAt(tip) /\ Moves(tip, Head(agenda), m) /\ Way(m, Tail(agenda), z)
        BY <2>1, ConfigHead
  <2>3. Vtx \in StateVertex /\ tip = Vtx
        BY <2>1, <2>2, HeadSound DEF Moves, Base, Vtx, StatesInv
  <2>4. state' = Vtx /\ UNCHANGED balance /\ stage' = "replay"
        BY <1>6 DEF Arrive
  <2>5. EnteredAt(tip)' /\ TipAt(tip)'
        BY <2>2, <2>3, <2>4 DEF EnteredAt, TipAt
  <2>6. QED BY <2>5 DEF ConfigInv
<1>7. QED BY <1>2, <1>3, <1>4, <1>5, <1>6 DEF ProcessStep

LEMMA ConfigExecutor ==
    ASSUME PointsJoin, TypeOK, MutexInv, StatesInv, ConfigInv, TransitionStep
    PROVE  ConfigInv'
<1> USE DEF queueVars, runVars, workVars, eventVars, stateVars, restVars, Continue
<1>1. UNCHANGED faults
      BY DEF TransitionStep, Effect, EnterState, EnterFinal, EnterSimple, EnterInitial,
             EnterPseudo, EnterHistory, NoBranch, Spawn, SpawnFails, Terminate, Resume, Leave
<1> SUFFICES ASSUME faults = 0 PROVE ConfigInv'
    BY <1>1 DEF ConfigInv
<1>2. CASE Terminate \/ Resume
      BY <1>1, <1>2, ConfigStays DEF Terminate, Resume
<1>3. CASE NoBranch
  <2>1. stage = "branch" /\ from \in History /\ UNCHANGED balance /\ stage' = "run"
        /\ agenda' = <<ToDo("none", from)>>
        BY <1>3 DEF NoBranch, StatesInv, BranchesOn
  <2>2. PICK tip \in StateVertex : EnteredAt(tip)
        BY DEF ConfigInv
  <2>3. Moves(tip, ToDo("none", from), tip)
        BY DEF Moves, ToDo
  <2>4. Way(tip, agenda', tip)
        BY <2>1, <2>3, WayOne
  <2>5. EnteredAt(tip)'
        BY <2>1, <2>2 DEF EnteredAt
  <2>6. QED BY <2>1, <2>4, <2>5, ConfigRuns
<1>4. ASSUME stage = "run", agenda # << >>, ~Terminate, ~Resume, ~NoBranch PROVE ConfigInv'
  <2>1. PICK tip, m, z \in StateVertex :
            EnteredAt(tip) /\ Moves(tip, Head(agenda), m) /\ Way(m, Tail(agenda), z)
        BY <1>4, ConfigHead
  <2>2. Head(agenda) \in Op /\ agenda \in Seq(Op) /\ Tail(agenda) \in Seq(Op)
        BY <1>4, AgendaType
  <2>3. UNCHANGED balance => EnteredAt(tip)'
        BY <2>1 DEF EnteredAt
  <2>4. ASSUME Effect \/ Spawn \/ SpawnFails PROVE ConfigInv'
    <3>1. Head(agenda).op \in {"effect", "spawn"} /\ agenda' = Tail(agenda) /\ UNCHANGED balance
          BY <2>4 DEF Effect, Spawn, SpawnFails, File, Doing
    <3>2. stage' = "run"
      <4>1. holder # Free
            BY <1>4 DEF MutexInv, NoLostWakeup
      <4>2. QED BY <1>4, <2>4, <4>1 DEF Effect, Spawn, SpawnFails, Accept
    <3>3. m = tip
          BY <2>1, <3>1 DEF Moves
    <3>4. QED BY <2>1, <2>3, <3>1, <3>2, <3>3, ConfigRuns
  <2>5. CASE EnterState
    <3>1. /\ Head(agenda).op \in {"through", "enter"} /\ Vtx \in StateVertex /\ Vtx \in Vertex
          /\ stage' = "run" /\ balance' = [balance EXCEPT ![Vtx] = @ + 1]
          BY <1>4, <2>5, TableNames DEF EnterState, Doing
    <3>2. tip = Foot(Vtx) /\ m = Vtx
          BY <2>1, <3>1 DEF Moves, Base, Vtx
    <3>3. EnteredAt(m)'
      <4>1. m \in StateVertex /\ EnteredAt(Foot(m)) /\ balance' = [balance EXCEPT ![m] = @ + 1]
            BY <2>1, <3>1, <3>2
      <4>2. QED BY <4>1, BalanceEnter
    <3> DEFINE begin == Spawns(Vtx)
               rest == IF Head(agenda).op = "enter" THEN <<ToDo("default", Vtx)>> ELSE Tail(agenda)
    <3>4. agenda' = begin \o rest
          BY <2>5 DEF EnterState
    <3>5. begin \in Seq(Op) /\ Way(m, begin, m)
      <4>1. begin \in Seq(Op)
        <5>1. \A a \in Activity : ToDo("spawn", a) \in Op
              BY DEF ToDo, Op
        <5>2. QED BY <3>1, <5>1, SpawnsType
      <4>2. \A i \in DOMAIN begin : begin[i].op \in {"effect", "spawn"}
            BY DEF Spawns, ToDo
      <4>3. QED BY <4>1, <4>2, WayStays
    <3>6. rest \in Seq(Op) /\ \E y \in StateVertex : Way(m, rest, y)
      <4>1. Moves(m, ToDo("default", Vtx), m)
            BY <3>2 DEF Moves, ToDo
      <4>2. Way(m, <<ToDo("default", Vtx)>>, m) /\ <<ToDo("default", Vtx)>> \in Seq(Op)
            BY <3>1, <4>1, WayOne, OneOp DEF VertexOp, OpName
      <4>3. QED BY <2>1, <2>2, <4>2
    <3>7. PICK y \in StateVertex : Way(m, rest, y)
          BY <3>6
    <3> HIDE DEF begin, rest
    <3>8. Way(m, agenda', y)
          BY <3>4, <3>5, <3>6, <3>7, WayJoin
    <3>9. QED BY <3>1, <3>3, <3>8, ConfigRuns
  <2>6. CASE EnterFinal \/ EnterSimple
    <3>1. Head(agenda).op = "default" /\ agenda' = <<ToDo("arrive", Vtx)>> /\ stage' = "run"
          /\ UNCHANGED balance
          BY <1>4, <2>6 DEF EnterFinal, EnterSimple, Doing
    <3>2. tip = Vtx /\ Vtx \in StateVertex
          BY <2>1, <3>1 DEF Moves, Vtx
    <3>3. Moves(tip, ToDo("arrive", Vtx), tip)
          BY <3>2 DEF Moves, ToDo, Base
    <3>4. QED BY <2>1, <2>3, <3>1, <3>3, WayOne, ConfigRuns
  <2>7. CASE EnterInitial
    <3>1. Head(agenda).op = "default" /\ Initial(Vtx) # None /\ Follow(Initial(Vtx), Vtx)
          /\ UNCHANGED balance
          BY <2>7 DEF EnterInitial, Doing
    <3>2. tip = Vtx /\ Vtx \in StateVertex /\ Base(Vtx) = Vtx
          BY <2>1, <3>1 DEF Moves, Vtx, Base
    <3>3. Vtx \in Vertex /\ Initial(Vtx) \in Transition /\ Fires(Initial(Vtx), Vtx)
          BY <3>1, <3>2, TableNames, VertexTableTypes DEF Fires
    <3>4. QED BY <2>1, <3>1, <3>2, <3>3, ConfigFollow
  <2>8. CASE EnterPseudo
    <3>1. /\ Head(agenda).op = "enter" /\ Vtx \notin StateVertex
          /\ stage' = "branch" /\ from' = Vtx /\ UNCHANGED balance
          BY <2>8 DEF EnterPseudo, Doing
    <3>2. tip = Base(Vtx)
          BY <2>1, <3>1 DEF Moves, Base, Vtx
    <3>3. TipAt(tip)'
      <4>1. tip = Base(from')
            BY <3>1, <3>2
      <4>2. QED BY <3>1, <4>1 DEF TipAt
    <3>4. QED BY <2>3, <3>1, <3>3 DEF ConfigInv
  <2>9. CASE EnterHistory
    <3> DEFINE h == Vtx
               r == history[h]
               path == HistoryPath(h, r)
               down == Enters(path, r)
               last == <<ToDo("none", h)>>
    <3>1. /\ Head(agenda).op = "enter" /\ h \in History /\ r # None
          /\ agenda' = down \o last /\ stage' = "run" /\ UNCHANGED balance
          BY <1>4, <2>9 DEF EnterHistory, Doing
    <3>2. h \in Vertex \ StateVertex /\ r \in StateVertex /\ r \in Vertex /\ h \notin EntryPoint
          BY <3>1, TableNames, HistoryAssumption DEF StatesInv, RestsInStates, HistoriesReturn
    <3>3. tip = Up(h)
          BY <2>1, <3>1, <3>2 DEF Moves, Foot, Vtx
    <3>4. path \in Seq(Vertex) /\ Descends(path, tip, r)
          BY <3>1, <3>2, <3>3, HistoryLeadsDown, VertexTableTypes
    <3>5. Way(tip, down, Base(r)) /\ Base(r) \in StateVertex
          BY <3>2, <3>4, WayEnters, UpState
    <3>6. down \in Seq(Op) /\ last \in Seq(Op)
          BY <3>2, <3>4, PathOps, OneOp DEF VertexOp, OpName
    <3>7. Way(Base(r), last, Base(r))
      <4>1. Moves(Base(r), ToDo("none", h), Base(r))
            BY DEF Moves, ToDo
      <4>2. QED BY <3>5, <4>1, WayOne
    <3> HIDE DEF down, last
    <3>8. Way(tip, agenda', Base(r))
          BY <3>1, <3>5, <3>6, <3>7, WayJoin
    <3>9. QED BY <2>3, <3>1, <3>5, <3>8, ConfigRuns
  <2>10. CASE Leave
    <3>1. /\ Head(agenda).op = "exit" /\ agenda' = Tail(agenda) /\ stage' = "run"
          /\ balance' = IF Vtx \in StateVertex THEN [balance EXCEPT ![Vtx] = @ - 1] ELSE balance
          BY <1>4, <2>10 DEF Leave, Doing
    <3>2. Vtx \notin EntryPoint /\ tip = Base(Vtx) /\ m = Up(Vtx)
          BY <2>1, <3>1 DEF Moves, Vtx
    <3>3. EnteredAt(m)'
      <4>1. CASE Vtx \in StateVertex
        <5>1. tip \in StateVertex /\ EnteredAt(tip) /\ balance' = [balance EXCEPT ![tip] = @ - 1]
              /\ m = Up(tip)
              BY <2>1, <3>1, <3>2, <4>1 DEF Base
        <5>2. EnteredAt(Up(tip))'
              BY <5>1, BalanceLeave
        <5>3. QED BY <5>1, <5>2
      <4>2. CASE Vtx \notin StateVertex
        <5>1. m = tip
              BY <3>2, <4>2 DEF Base, Foot
        <5>2. QED BY <2>3, <3>1, <4>2, <5>1
      <4>3. QED BY <4>1, <4>2
    <3>4. QED BY <2>1, <3>1, <3>3, ConfigRuns
  <2>11. QED BY <1>4, <2>4, <2>5, <2>6, <2>7, <2>8, <2>9, <2>10 DEF TransitionStep
<1>5. TransitionStep => Terminate \/ Resume \/ NoBranch \/ (stage = "run" /\ agenda # << >>)
      BY DEF TransitionStep, Effect, EnterState, EnterFinal, EnterSimple, EnterInitial,
             EnterPseudo, EnterHistory, Spawn, SpawnFails, File, Leave, Doing, Running
<1>6. QED BY <1>2, <1>3, <1>4, <1>5

LEMMA ConfigOthers ==
    ASSUME TypeOK, MutexInv, StatesInv, ConfigInv, OthersMove \/ Raise \/ StopFinish
    PROVE  ConfigInv'
<1> USE DEF queueVars, runVars, workVars, eventVars, stateVars, restVars
<1>1. CASE Raise
      BY <1>1 DEF Raise, ConfigInv, TypeOK
<1>2. holder = Free => stage = "idle"
      BY DEF MutexInv, NoLostWakeup
<1>3. CASE Bystander
      BY <1>2, <1>3, ConfigStays DEF Bystander
<1>4. CASE StopFinish
  <2> SUFFICES ASSUME faults = 0 PROVE ConfigInv'
      BY <1>4 DEF StopFinish, ConfigInv
  <2>1. stage = "run" /\ agenda # << >> /\ Head(agenda).op = "halt"
        BY <1>4 DEF StopFinish, Doing, Running
  <2>2. PICK tip, m, z \in StateVertex :
            EnteredAt(tip) /\ Moves(tip, Head(agenda), m) /\ Way(m, Tail(agenda), z)
        BY <2>1, ConfigHead
  <2>3. state' = tip /\ UNCHANGED balance /\ stage' = "idle"
        BY <1>4, <2>1, <2>2 DEF StopFinish, Release, Moves
  <2>4. EnteredAt(tip)' /\ TipAt(tip)'
        BY <2>2, <2>3 DEF EnteredAt, TipAt
  <2>5. QED BY <2>4 DEF ConfigInv
<1>5. CASE BeginStartup
  <2> SUFFICES ASSUME faults = 0 PROVE ConfigInv'
      BY <1>5 DEF BeginStartup, ConfigInv
  <2>1. EnteredAt(Root) /\ Root \in StateVertex
        BY <1>2, <1>5, TableNames DEF BeginStartup, Startable, ConfigInv, TipAt
  <2>2. balance' = [balance EXCEPT ![Root] = 0] /\ agenda' = <<ToDo("enter", Root)>>
        /\ stage' = "run"
        BY <1>5 DEF BeginStartup
  <2>3. EnteredAt(Root)'
        BY <2>1, <2>2 DEF EnteredAt, TypeOK
  <2>4. Moves(Root, ToDo("enter", Root), Root)
        BY <2>1 DEF Moves, ToDo, Foot, Base, Up, EntryPoint
  <2>5. QED BY <2>1, <2>2, <2>3, <2>4, WayOne, ConfigRuns
<1>6. ASSUME NEW c \in Client, NEW m, BeginStop(c, m) PROVE ConfigInv'
  <2> SUFFICES ASSUME faults = 0 PROVE ConfigInv'
      BY <1>6 DEF BeginStop, ConfigInv
  <2> DEFINE x == SubSeq(Chain(state), 1, Len(Chain(state)) - 1)
  <2>1. PICK tip \in StateVertex : EnteredAt(tip) /\ tip = state
        BY <1>2, <1>6 DEF BeginStop, ConfigInv, TipAt
  <2>2. x \in Seq(Vertex) /\ Way(tip, Exits(x), Root)
    <3>1. x \in Seq(Vertex) /\ Ascends(x, state) /\ Summit(x, state) = Root
          BY <2>1, StopAscends
    <3>2. Base(state) = tip /\ state \in Vertex
          BY <2>1, TableNames DEF Base
    <3> HIDE DEF x
    <3>3. QED BY <3>1, <3>2, WayExits
  <2>3. Exits(x) \in Seq(Op) /\ <<ToDo("halt", Root)>> \in Seq(Op)
        BY <2>2, PathOps, OneOp, TableNames DEF VertexOp, OpName
  <2>4. Way(Root, <<ToDo("halt", Root)>>, Root)
    <3>1. Moves(Root, ToDo("halt", Root), Root)
          BY DEF Moves, ToDo
    <3>2. QED BY <3>1, TableNames, WayOne
  <2>5. agenda' = Exits(x) \o <<ToDo("halt", Root)>> /\ stage' = "run" /\ UNCHANGED balance
        BY <1>6 DEF BeginStop
  <2> HIDE DEF x
  <2>6. Way(tip, agenda', Root)
        BY <2>2, <2>3, <2>4, <2>5, WayJoin
  <2>7. EnteredAt(tip)'
        BY <2>1, <2>5 DEF EnteredAt
  <2>8. QED BY <2>5, <2>6, <2>7, TableNames, ConfigRuns
<1>7. QED BY <1>1, <1>3, <1>4, <1>5, <1>6, OthersStandBy

LEMMA ConfigNext ==
    ASSUME PointsJoin, HistoryLeads, TypeOK, MutexInv, StatesInv, ConfigInv, [Next]_vars
    PROVE  ConfigInv'
<1>1. CASE UNCHANGED vars
      BY <1>1, ConfigStays
      DEF vars, machineVars, runVars, workVars, stateVars
<1>2. CASE Next
      BY <1>2, ConfigLoop, ConfigExecutor, ConfigOthers DEF Next, HolderStep, OthersMove
<1>3. QED BY <1>1, <1>2

(***************************************************************************)
(* _transition, _enter, _exit: as long as no callback raises and no        *)
(* history without memory and default transition is entered, the states    *)
(* entered and not left are, at every step, one state and its ancestors,   *)
(* once each, and what is left to do continues from that state.            *)
(***************************************************************************)
THEOREM ConfigurationInvariant ==
    ASSUME PointsEnter, PointsJoin PROVE Spec /\ []HistoryLeads => []ConfigInv
<1>1. Init => ConfigInv
  <2> SUFFICES ASSUME Init PROVE ConfigInv
      OBVIOUS
  <2>1. EnteredAt(Root)
        BY ActiveRoot DEF Init, EnteredAt
  <2>2. TipAt(Root)
        BY DEF Init, TipAt
  <2>3. QED BY <2>1, <2>2, TableNames DEF ConfigInv
<1>2. HistoryLeads /\ TypeOK /\ MutexInv /\ StatesInv /\ ConfigInv /\ [Next]_vars => ConfigInv'
      BY ConfigNext
<1>3. QED BY <1>1, <1>2, TypeCorrect, MutexInvariant, StatesInvariant, PTL DEF Spec

(***************************************************************************)
(* Between two transitions the active states are the current state and its *)
(* ancestors, entered once each.                                           *)
(***************************************************************************)
THEOREM ConfigurationIsEntered ==
    ASSUME PointsEnter, PointsJoin PROVE Spec /\ []HistoryLeads => []ConfigurationEntered
<1>1. ConfigInv => ConfigurationEntered
  <2>1. Settled => stage \notin {"run", "branch"}
        BY DEF Settled
  <2>2. QED BY <2>1 DEF ConfigInv, TipAt, EnteredAt, ConfigurationEntered
<1>2. QED BY <1>1, ConfigurationInvariant, PTL

(***************************************************************************)
(* The order of entries and exits                                          *)
(***************************************************************************)
\* The action of EntryExitOrder.
Ordered(v) ==
    /\ balance'[v] > balance[v] =>
           balance[v] = 0 /\ (Chain(v)[2] = Root \/ balance[Chain(v)[2]] = 1)
    /\ balance'[v] < balance[v] =>
           /\ balance[v] = 1
           /\ \A w \in StateVertex : IsAncestor(v, w) => balance[w] = 0

\* The steps that enter or leave a state.
LEMMA BalanceSteps ==
    ASSUME [Next]_vars, balance' # balance
    PROVE  EnterState \/ Leave \/ BeginStartup
<1> USE DEF queueVars, runVars, workVars, eventVars, stateVars, restVars, Continue, GoTo
<1>1. Next
      BY DEF vars, machineVars
<1>2. ProcessStep => UNCHANGED balance
      BY DEF ProcessStep, PopDeferred, PopEvent, TakeTransition, GuardFails, HandlerRuns,
             NextCandidate, NoTransition, NoResult, Unhandled, Arrive, Replay, Replayed,
             Drain, PutBack, Finish
<1>3. TransitionStep => EnterState \/ Leave \/ UNCHANGED balance
      BY DEF TransitionStep, Effect, EnterFinal, EnterSimple, EnterInitial,
             EnterPseudo, EnterHistory, NoBranch, Spawn, SpawnFails, Terminate, Resume
<1>4. OthersMove => BeginStartup \/ UNCHANGED balance
      BY OthersStandBy DEF Bystander, BeginStop
<1>5. Raise \/ StopFinish => UNCHANGED balance
      BY DEF Raise, StopFinish
<1>6. QED BY <1>1, <1>2, <1>3, <1>4, <1>5 DEF Next, HolderStep, OthersMove

LEMMA OrderStep ==
    ASSUME TypeOK, ConfigInv, [Next]_vars, balance' # balance, faults' = 0,
           NEW v \in StateVertex \ {Root}
    PROVE  Ordered(v)
<1>1. balance \in [StateVertex -> Int] /\ agenda \in Seq(Op) /\ v \in Vertex
      BY TableNames DEF TypeOK
<1>2. CASE BeginStartup
      BY <1>1, <1>2 DEF BeginStartup, Ordered
<1>3. faults = 0
      BY BalanceSteps DEF EnterState, Leave, BeginStartup, restVars
<1>4. ASSUME stage = "run", agenda # << >>
      PROVE  \E tip, m \in StateVertex : EnteredAt(tip) /\ Moves(tip, Head(agenda), m)
      BY <1>3, <1>4, ConfigHead
<1>5. CASE EnterState
  <2>1. /\ stage = "run" /\ agenda # << >> /\ Head(agenda).op \in {"through", "enter"}
        /\ Vtx \in StateVertex /\ balance' = [balance EXCEPT ![Vtx] = @ + 1]
        BY <1>5 DEF EnterState, Doing, Running
  <2>2. PICK tip \in StateVertex : EnteredAt(tip) /\ tip = Foot(Vtx)
        BY <1>4, <2>1 DEF Moves, Vtx
  <2>3. CASE v = Vtx
    <3>1. tip = Up(v) /\ Up(v) = Chain(v)[2]
          BY <2>2, <2>3 DEF Foot, EntryPoint, Up
    <3>2. v \notin ActiveIn(tip) /\ (tip = Root \/ tip \in ActiveIn(tip))
          BY <2>2, <3>1, ActiveUp DEF ActiveIn
    <3>3. balance[v] = 0 /\ (tip = Root \/ balance[tip] = 1)
          BY <2>2, <3>2 DEF EnteredAt
    <3>4. balance'[v] = balance[v] + 1
          BY <1>1, <2>1, <2>3
    <3>5. QED BY <1>1, <3>1, <3>3, <3>4 DEF Ordered
  <2>4. CASE v # Vtx
        BY <1>1, <2>1, <2>4 DEF Ordered
  <2>5. QED BY <2>3, <2>4
<1>6. CASE Leave
  <2>1. /\ stage = "run" /\ agenda # << >> /\ Head(agenda).op = "exit"
        /\ Vtx \in StateVertex /\ balance' = [balance EXCEPT ![Vtx] = @ - 1]
        BY <1>6 DEF Leave, Doing, Running
  <2>2. PICK tip \in StateVertex : EnteredAt(tip) /\ tip = Vtx
        BY <1>4, <2>1 DEF Moves, Vtx, Base
  <2>3. CASE v = Vtx
    <3>1. balance[v] = 1
          BY <2>2, <2>3 DEF EnteredAt, ActiveIn
    <3>2. ASSUME NEW w \in StateVertex, IsAncestor(v, w) PROVE balance[w] = 0
      <4>1. w \in Vertex /\ w # Root /\ w # v
            BY <1>1, <3>2, RootAlone, TableNames DEF IsAncestor
      <4>2. ~IsAncestor(w, v)
            BY <1>1, <3>2, <4>1, AboveOnce
      <4>3. w \notin ActiveIn(tip)
            BY <2>2, <2>3, <4>1, <4>2 DEF ActiveIn
      <4>4. QED BY <2>2, <4>1, <4>3 DEF EnteredAt
    <3>3. balance'[v] = balance[v] - 1
          BY <1>1, <2>1, <2>3
    <3>4. QED BY <1>1, <3>1, <3>2, <3>3 DEF Ordered
  <2>4. CASE v # Vtx
        BY <1>1, <2>1, <2>4 DEF Ordered
  <2>5. QED BY <2>3, <2>4
<1>7. QED BY <1>2, <1>5, <1>6, BalanceSteps

(***************************************************************************)
(* transition_paths: a state is entered when its parent is and it is not,  *)
(* and left when it is entered and none of its substates is.               *)
(***************************************************************************)
THEOREM EntriesAndExitsInOrder ==
    ASSUME PointsEnter, PointsJoin PROVE Spec /\ []HistoryLeads => EntryExitOrder
<1>1. TypeOK /\ ConfigInv /\ [Next]_vars
          => [faults' = 0 => \A v \in StateVertex \ {Root} : Ordered(v)]_balance
      BY OrderStep
<1>2. [faults' = 0 => \A v \in StateVertex \ {Root} : Ordered(v)]_balance
      => [faults' = 0 => \A v \in StateVertex \ {Root} :
            /\ balance'[v] > balance[v] =>
                   balance[v] = 0 /\ (Chain(v)[2] = Root \/ balance[Chain(v)[2]] = 1)
            /\ balance'[v] < balance[v] =>
                   /\ balance[v] = 1
                   /\ \A w \in StateVertex : IsAncestor(v, w) => balance[w] = 0]_balance
      BY DEF Ordered
<1>3. QED BY <1>1, <1>2, TypeCorrect, ConfigurationInvariant, PTL DEF Spec, EntryExitOrder


(***************************************************************************)
(* The activities of the entered states                                    *)
(***************************************************************************)
\* Agendas of one transition before anything is entered spawn nothing.
PlainOp == [op : OpName \ {"spawn"}, v : Vertex]

\* The activity a is still to be spawned in the state being entered.
ToSpawn(a) == stage = "run" /\ \E k \in DOMAIN agenda : agenda[k].op = "spawn" /\ agenda[k].v = a

\* The activities of v are being cancelled.
Leaving(v) == stage = "run" /\ agenda # << >> /\ Head(agenda).op = "exit" /\ Vtx = v

\* What is to be spawned comes first, each activity once.
SpawnsFirst(ag) ==
    \A k \in DOMAIN ag : ag[k].op = "spawn" =>
        \A j \in 1 .. k - 1 : ag[j].op = "spawn" /\ ag[j].v # ag[k].v

Owns(v, a) == \E i \in DOMAIN Activities(v) : Activities(v)[i] = a

\* The activities of a state that is not entered have no task; those of an
\* entered state have one, are still to be spawned, or are being cancelled.
FiledAt(v) ==
    \A a \in Activity : Owns(v, a) =>
        /\ balance[v] = 0 => active[a] = None /\ ~ToSpawn(a)
        /\ ToSpawn(a) => active[a] = None
        /\ balance[v] # 0 => ToSpawn(a) \/ active[a] # None \/ Leaving(v)

\* Only activities of a state in the model have a task.
Homes ==
    \A a \in Activity : active[a] # None \/ ToSpawn(a) => \E v \in StateVertex \ {Root} : Owns(v, a)

Filed ==
    /\ stage = "run" => SpawnsFirst(agenda)
    /\ \A v \in StateVertex \ {Root} : FiledAt(v)
    /\ Homes

\* An unfinished task is the one filed, or the one awaited.
Tasks == \A t \in TaskId : Unfinished(t) =>
    task[t].home \in Activity /\ (active[task[t].home] = t \/ waitOn = t)

Awaited == waitOn # None => task[waitOn].status \in {"cancelling", "cleanwait", "done"}

\* The inductive invariant of ActivityScope.
ActivityInv == Awaited /\ (faults = 0 => Filed /\ Tasks)

(***************************************************************************)
(* Agendas that spawn nothing                                              *)
(***************************************************************************)
LEMMA PlainTakes == Takes(PlainOp, VertexOp)
BY DEF Takes, ToDo, PlainOp, VertexOp

LEMMA PlainAgendas ==
    /\ \A t \in Transition, v \in Vertex : TransitionAgenda(t, v) \in Seq(PlainOp)
    /\ \A path \in Seq(Vertex) : /\ Exits(path) \in Seq(PlainOp)
                                 /\ \A target : Enters(path, target) \in Seq(PlainOp)
    /\ \A name \in VertexOp, v \in Vertex : <<ToDo(name, v)>> \in Seq(PlainOp)
<1>1. Takes(PlainOp, {"exit"}) /\ Takes(PlainOp, {"enter", "through"})
      /\ Takes(PlainOp, {"exit", "effect", "enter", "through", "arrive"})
      BY PlainTakes DEF Takes, VertexOp, OpName
<1>2. \A name \in VertexOp, v \in Vertex : <<ToDo(name, v)>> \in Seq(PlainOp)
      BY PlainTakes DEF Takes, VertexOp
<1>3. QED BY <1>1, <1>2, TransitionAgendaType, ExitsType, PathType

LEMMA PlainSpawnsNothing ==
    ASSUME NEW ag \in Seq(PlainOp)
    PROVE  \A k \in DOMAIN ag : ag[k].op # "spawn"
<1>1. \A k \in DOMAIN ag : ag[k] \in PlainOp
      OBVIOUS
<1>2. \A o \in PlainOp : o.op # "spawn"
      BY DEF PlainOp
<1>3. QED BY <1>1, <1>2

\* When the first step of an agenda spawns nothing, none does.
LEMMA PlainHead ==
    ASSUME NEW ag \in Seq(Op), SpawnsFirst(ag), ag # << >>, Head(ag).op # "spawn"
    PROVE  \A k \in DOMAIN ag : ag[k].op # "spawn"
<1> SUFFICES ASSUME NEW k \in DOMAIN ag, ag[k].op = "spawn" PROVE FALSE
    OBVIOUS
<1>1. k \in 1 .. Len(ag) /\ ag[1].op # "spawn"
      OBVIOUS
<1>2. k # 1 /\ 1 \in 1 .. k - 1
      BY <1>1
<1>3. QED BY <1>1, <1>2 DEF SpawnsFirst

LEMMA PlainTail ==
    ASSUME NEW ag \in Seq(Op), ag # << >>, \A k \in DOMAIN ag : ag[k].op # "spawn"
    PROVE  \A k \in DOMAIN Tail(ag) : Tail(ag)[k].op # "spawn"
OBVIOUS

NoSpawn(ag) == \A k \in DOMAIN ag : ag[k].op # "spawn"

LEMMA PlainNoSpawn == \A ag \in Seq(PlainOp) : NoSpawn(ag)
BY PlainSpawnsNothing DEF NoSpawn

\* A step to an agenda that spawns nothing, from one that neither spawns nor
\* leaves.
LEMMA FiledMoves ==
    ASSUME TypeOK, Filed, UNCHANGED active, \A v \in StateVertex \ {Root} : balance'[v] = balance[v],
           stage = "run" => agenda # << >> /\ Head(agenda).op \notin {"spawn", "exit"},
           stage' = "run" => NoSpawn(agenda')
    PROVE  Filed'
<1>1. \A a : ~ToSpawn(a)
  <2>1. CASE stage = "run"
    <3>1. agenda \in Seq(Op) /\ SpawnsFirst(agenda)
          BY <2>1 DEF TypeOK, Filed
    <3>2. \A k \in DOMAIN agenda : agenda[k].op # "spawn"
          BY <2>1, <3>1, PlainHead
    <3>3. QED BY <3>2 DEF ToSpawn
  <2>2. CASE stage # "run"
        BY <2>2 DEF ToSpawn
  <2>3. QED BY <2>1, <2>2
<1>2. \A a : ~ToSpawn(a)'
      BY DEF ToSpawn, NoSpawn
<1>3. \A v : ~Leaving(v)
      BY DEF Leaving
<1>4. \A v \in StateVertex \ {Root} : FiledAt(v)'
      BY <1>1, <1>2, <1>3 DEF Filed, FiledAt
<1>5. Homes'
      BY <1>1, <1>2 DEF Filed, Homes
<1>6. (stage = "run" => SpawnsFirst(agenda))'
      BY DEF SpawnsFirst, NoSpawn
<1>7. QED BY <1>4, <1>5, <1>6 DEF Filed

\* A step that leaves the agenda and the activities alone, of the holder or
\* of somebody who takes a free mutex.
LEMMA FiledStays ==
    ASSUME Filed, UNCHANGED <<balance, active, agenda>>, UNCHANGED stage \/ "run" \notin {stage, stage'}
    PROVE  Filed'
<1>1. \A a : ToSpawn(a)' <=> ToSpawn(a)
      BY DEF ToSpawn
<1>2. \A v : Leaving(v)' <=> Leaving(v)
      BY DEF Leaving, Vtx
<1>3. QED BY <1>1, <1>2 DEF Filed, FiledAt, Homes

LEMMA TasksStay ==
    ASSUME UNCHANGED <<active, waitOn, task>>
    PROVE  (Tasks => Tasks') /\ (Awaited => Awaited')
BY DEF Tasks, Awaited, Unfinished

(***************************************************************************)
(* The loop                                                                *)
(***************************************************************************)
LEMMA ActivityLoop ==
    ASSUME TypeOK, ActivityInv, ProcessStep
    PROVE  ActivityInv'
<1> USE DEF queueVars, runVars, workVars, eventVars, stateVars, restVars, taskVars, GoTo,
            NextCandidate, Unhandled
<1>1. UNCHANGED <<balance, active, waitOn, task, faults>>
      BY DEF ProcessStep, PopDeferred, PopEvent, TakeTransition, GuardFails, HandlerRuns,
             NoTransition, NoResult, Arrive, Replay, Replayed, Drain, PutBack, Finish,
             Release, Running
<1>2. SUFFICES ASSUME faults = 0, Filed PROVE Filed'
      BY <1>1, TasksStay DEF ActivityInv
<1>3. CASE TakeTransition
  <2>1. cands # << >> /\ from \in Vertex /\ Head(cands) \in Transition /\ stage # "run"
        BY <1>3 DEF TakeTransition, TypeOK
  <2>2. agenda' \in Seq(PlainOp)
        BY <1>3, <2>1, PlainAgendas DEF TakeTransition, Follow
  <2>3. NoSpawn(agenda')
        BY <2>2, PlainNoSpawn
  <2>4. QED BY <1>1, <1>2, <2>1, <2>3, FiledMoves
<1>4. CASE NoResult \/ Arrive
      BY <1>1, <1>2, <1>4, FiledMoves DEF NoResult, Arrive, Doing, Running
<1>5. CASE ~TakeTransition /\ ~NoResult /\ ~Arrive
  <2>1. "run" \notin {stage, stage'}
        BY <1>5 DEF ProcessStep, PopDeferred, PopEvent, GuardFails, HandlerRuns, HandlerNext,
                    InGuard, NoTransition, Replay, Replayed, Drain, PutBack, Finish, Release,
                    Running
  <2>2. QED BY <1>1, <1>2, <2>1, FiledMoves
<1>6. QED BY <1>3, <1>4, <1>5

(***************************************************************************)
(* The executor                                                            *)
(***************************************************************************)
\* The activities of a state in the model are of no other state.
LEMMA OneOwnerOf ==
    ASSUME ActivitiesApart, NEW v \in StateVertex, NEW w \in StateVertex, NEW a,
           Owns(v, a), Owns(w, a)
    PROVE  v = w /\ v # Root
BY TableNames DEF ActivitiesApart, Owns

\* An agenda that spawns the activities of v and nothing else.
SpawnsOf(v, ag) ==
    /\ SpawnsFirst(ag)
    /\ \A a : (\E k \in DOMAIN ag : ag[k].op = "spawn" /\ ag[k].v = a) <=> Owns(v, a)

LEMMA SpawnsLead ==
    ASSUME ActivitiesApart, NEW v \in StateVertex, NEW rest \in Seq(Op), NoSpawn(rest)
    PROVE  SpawnsOf(v, Spawns(v) \o rest)
<1>0. SUFFICES ASSUME NEW ag, ag = Spawns(v) \o rest PROVE SpawnsOf(v, ag)
      OBVIOUS
<1> DEFINE acts == Activities(v)
<1> DEFINE sp == Spawns(v)
<1>1. acts \in Seq(Activity) /\ v \in Vertex
      BY VertexTableTypes, TableNames
<1>2. sp \in Seq(Op)
  <2>1. \A a \in Activity : ToDo("spawn", a) \in Op
        BY DEF ToDo, Op
  <2>2. QED BY <1>1, <2>1, SpawnsType
<1>3. Len(sp) = Len(acts) /\ Len(acts) \in Nat
      /\ \A k \in 1 .. Len(acts) : sp[k].op = "spawn" /\ sp[k].v = acts[k]
      BY <1>1 DEF Spawns, ToDo
<1>4. \A j, k \in 1 .. Len(acts) : acts[j] = acts[k] => j = k
      BY <1>1 DEF ActivitiesApart
<1>5. \A a : Owns(v, a) <=> \E k \in 1 .. Len(acts) : acts[k] = a
      BY <1>1 DEF Owns
<1> HIDE DEF acts, sp
<1>6. /\ DOMAIN ag = 1 .. Len(acts) + Len(rest) /\ Len(rest) \in Nat
      /\ \A k \in 1 .. Len(acts) : ag[k] = sp[k]
      /\ \A k \in Len(acts) + 1 .. Len(acts) + Len(rest) : ag[k] = rest[k - Len(acts)]
  <2>1. ag = sp \o rest
        BY <1>0 DEF sp
  <2>2. ag \in Seq(Op) /\ Len(ag) = Len(sp) + Len(rest)
        BY <1>2, <2>1
  <2>3. \A k \in 1 .. Len(sp) : ag[k] = sp[k]
        BY <1>2, <2>1
  <2>4. \A k \in Len(sp) + 1 .. Len(sp) + Len(rest) : ag[k] = rest[k - Len(sp)]
        BY <1>2, <2>1
  <2>5. Len(rest) \in Nat /\ DOMAIN ag = 1 .. Len(ag)
        BY <2>2
  <2>6. QED BY <1>3, <2>2, <2>3, <2>4, <2>5
<1>7. \A k \in DOMAIN ag : IF k <= Len(acts) THEN ag[k].op = "spawn" /\ ag[k].v = acts[k]
                                             ELSE ag[k].op # "spawn"
  <2> SUFFICES ASSUME NEW k \in DOMAIN ag
               PROVE  IF k <= Len(acts) THEN ag[k].op = "spawn" /\ ag[k].v = acts[k]
                                        ELSE ag[k].op # "spawn"
      OBVIOUS
  <2>1. CASE k <= Len(acts)
        BY <1>3, <1>6, <2>1
  <2>2. CASE k > Len(acts)
    <3>1. k - Len(acts) \in DOMAIN rest /\ ag[k] = rest[k - Len(acts)]
          BY <1>3, <1>6, <2>2
    <3>2. QED BY <1>3, <1>6, <2>2, <3>1 DEF NoSpawn
  <2>3. QED BY <1>3, <1>6, <2>1, <2>2
<1>8. SpawnsFirst(ag)
  <2> SUFFICES ASSUME NEW k \in DOMAIN ag, ag[k].op = "spawn", NEW j \in 1 .. k - 1
               PROVE  ag[j].op = "spawn" /\ ag[j].v # ag[k].v
      BY DEF SpawnsFirst
  <2>1. k \in 1 .. Len(acts) /\ ag[k].v = acts[k]
        BY <1>3, <1>6, <1>7
  <2>2. j \in 1 .. Len(acts) /\ j \in DOMAIN ag /\ j # k
        BY <1>3, <1>6, <2>1
  <2>3. ag[j].op = "spawn" /\ ag[j].v = acts[j]
        BY <1>7, <2>2
  <2>4. QED BY <1>4, <2>1, <2>2, <2>3
<1>9. \A a : (\E k \in DOMAIN ag : ag[k].op = "spawn" /\ ag[k].v = a) <=> Owns(v, a)
  <2>1. \A k \in 1 .. Len(acts) : k \in DOMAIN ag /\ k <= Len(acts)
        BY <1>3, <1>6
  <2>2. \A k \in DOMAIN ag : ag[k].op = "spawn" => k \in 1 .. Len(acts)
        BY <1>3, <1>6, <1>7
  <2>3. QED BY <1>5, <1>7, <2>1, <2>2
<1>10. QED BY <1>8, <1>9 DEF SpawnsOf

LEMMA ActivityEnter ==
    ASSUME ActivitiesApart, TypeOK, ConfigInv, ActivityInv, EnterState, faults = 0
    PROVE  Filed'
<1>1. /\ stage = "run" /\ stage' = "run" /\ agenda # << >>
      /\ Head(agenda).op \in {"through", "enter"} /\ Vtx \in StateVertex
      /\ balance' = [balance EXCEPT ![Vtx] = @ + 1]
      /\ UNCHANGED <<active, faults>>
      BY DEF EnterState, Doing, Running, restVars, taskVars
<1>2. PICK v \in StateVertex : v = Vtx
      BY <1>1
<1>3. agenda \in Seq(Op) /\ balance \in [StateVertex -> Int] /\ Filed
      BY DEF TypeOK, ActivityInv
<1>4. NoSpawn(agenda)
      BY <1>1, <1>3, PlainHead DEF Filed, NoSpawn
<1>5. \A a : ~ToSpawn(a)
      BY <1>4 DEF ToSpawn, NoSpawn
<1>6. \A w : ~Leaving(w)
      BY <1>1 DEF Leaving
<1> DEFINE rest == IF Head(agenda).op = "enter" THEN <<ToDo("default", Vtx)>> ELSE Tail(agenda)
<1>7. rest \in Seq(Op) /\ NoSpawn(rest)
  <2>1. <<ToDo("default", Vtx)>> \in Seq(PlainOp) /\ <<ToDo("default", Vtx)>> \in Seq(Op)
        BY <1>1, PlainAgendas, OneOp, TableNames DEF VertexOp, OpName
  <2>2. Tail(agenda) \in Seq(Op) /\ NoSpawn(Tail(agenda))
        BY <1>1, <1>3, <1>4, PlainTail DEF NoSpawn
  <2>3. QED BY <2>1, <2>2, PlainNoSpawn
<1>8. agenda' = Spawns(v) \o rest
      BY <1>2 DEF EnterState
<1> HIDE DEF rest
<1>9. SpawnsFirst(agenda') /\ \A a : ToSpawn(a)' <=> Owns(v, a)
  <2>1. SpawnsOf(v, agenda')
        BY <1>7, <1>8, SpawnsLead
  <2>2. QED BY <1>1, <2>1 DEF ToSpawn, SpawnsOf
<1>10. v # Root => balance[v] = 0
  <2>1. ASSUME v # Root PROVE balance[v] = 0
    <3>1. balance'[v] > balance[v] /\ balance' # balance
          BY <1>1, <1>2, <1>3
    <3>2. [Next]_vars /\ faults' = 0
          BY <1>1 DEF Next, HolderStep, TransitionStep
    <3>3. Ordered(v)
          BY <2>1, <3>1, <3>2, OrderStep
    <3>4. QED BY <3>1, <3>3 DEF Ordered
  <2>2. QED BY <2>1
<1>11. ASSUME NEW w \in StateVertex \ {Root} PROVE FiledAt(w)'
  <2>1. FiledAt(w)
        BY <1>3 DEF Filed
  <2>2. CASE w = v
    <3>1. balance[w] = 0 /\ balance'[w] = 1
          BY <1>1, <1>2, <1>3, <1>10, <2>2
    <3>2. QED BY <1>1, <1>9, <2>1, <2>2, <3>1 DEF FiledAt
  <2>3. CASE w # v
    <3>1. balance'[w] = balance[w]
          BY <1>1, <1>2, <1>3, <2>3
    <3>2. \A a \in Activity : Owns(w, a) => ~ToSpawn(a)'
          BY <1>9, <2>3, OneOwnerOf
    <3>3. QED BY <1>1, <1>5, <1>6, <2>1, <3>1, <3>2 DEF FiledAt
  <2>4. QED BY <2>2, <2>3
<1>12. Homes'
      BY <1>1, <1>3, <1>9, OneOwnerOf DEF Filed, Homes
<1>13. QED BY <1>9, <1>11, <1>12 DEF Filed

\* The next activity is spawned: its task is filed where none was.
LEMMA ActivityFile ==
    ASSUME ActivitiesApart, TypeOK, ActivityInv, faults = 0,
           NEW status \in TaskStatus, File(status), UNCHANGED <<balance, stage, waitOn>>
    PROVE  Filed' /\ Tasks'
<1>1. /\ stage = "run" /\ waitOn = None /\ agenda # << >> /\ agenda \in Seq(Op)
      /\ Head(agenda).op = "spawn" /\ agenda' = Tail(agenda)
      BY DEF File, Doing, Running, TypeOK
<1>2. Filed /\ Tasks /\ SpawnsFirst(agenda)
      BY <1>1 DEF ActivityInv, Filed
<1>3. NextTask \in TaskId /\ NextTask # None /\ IsFree(NextTask)
      BY HolderAssumption DEF File, NextTask
<1>4. Head(agenda) = agenda[1] /\ 1 \in DOMAIN agenda
      BY <1>1
<1>5. PICK a0 \in Activity : a0 = Vtx
      BY <1>1, AgendaType DEF File, Doing
<1>6. ToSpawn(a0)
      BY <1>1, <1>4, <1>5 DEF ToSpawn, Vtx
<1>7. PICK v0 \in StateVertex \ {Root} : Owns(v0, a0)
      BY <1>2, <1>6 DEF Filed, Homes
<1>8. active[a0] = None /\ balance[v0] # 0
      BY <1>2, <1>6, <1>7 DEF Filed, FiledAt
<1>9. active' = [active EXCEPT ![a0] = NextTask]
      /\ task' = [task EXCEPT ![NextTask] = [status |-> status, home |-> a0]]
      BY <1>5 DEF File
<1>10. \A a : ToSpawn(a)' <=> ToSpawn(a) /\ a # a0
  <2>1. \A k \in DOMAIN Tail(agenda) : k + 1 \in DOMAIN agenda /\ Tail(agenda)[k] = agenda[k + 1]
        BY <1>1
  <2>2. \A k \in DOMAIN agenda : k # 1 =>
            k - 1 \in DOMAIN Tail(agenda) /\ Tail(agenda)[k - 1] = agenda[k]
        BY <1>1
  <2>3. agenda[1].v = a0
        BY <1>4, <1>5 DEF Vtx
  <2>4. \A k \in DOMAIN agenda : k # 1 /\ agenda[k].op = "spawn" => agenda[k].v # a0
    <3> SUFFICES ASSUME NEW k \in DOMAIN agenda, k # 1, agenda[k].op = "spawn"
                 PROVE  agenda[k].v # a0
        OBVIOUS
    <3>1. 1 \in 1 .. k - 1
          BY <1>1
    <3>2. QED BY <1>2, <2>3, <3>1 DEF SpawnsFirst
  <2>5. \A k \in DOMAIN Tail(agenda) : k + 1 # 1
        BY <1>1
  <2>6. ASSUME NEW a, ToSpawn(a)' PROVE ToSpawn(a) /\ a # a0
        BY <1>1, <2>1, <2>4, <2>5, <2>6 DEF ToSpawn
  <2>7. ASSUME NEW a, ToSpawn(a), a # a0 PROVE ToSpawn(a)'
        BY <1>1, <2>2, <2>3, <2>7 DEF ToSpawn
  <2>8. QED BY <2>6, <2>7
<1>11. SpawnsFirst(Tail(agenda))
  <2> SUFFICES ASSUME NEW k \in DOMAIN Tail(agenda), Tail(agenda)[k].op = "spawn",
                      NEW j \in 1 .. k - 1
               PROVE  Tail(agenda)[j].op = "spawn" /\ Tail(agenda)[j].v # Tail(agenda)[k].v
      BY DEF SpawnsFirst
  <2>1. k + 1 \in DOMAIN agenda /\ Tail(agenda)[k] = agenda[k + 1]
        BY <1>1
  <2>2. j + 1 \in 1 .. (k + 1) - 1 /\ Tail(agenda)[j] = agenda[j + 1]
        BY <1>1
  <2>3. QED BY <1>2, <2>1, <2>2 DEF SpawnsFirst
<1>12. \A v : ~Leaving(v)
      BY <1>1 DEF Leaving
<1>13. active \in [Activity -> TaskId \cup {None}] /\ task \in [TaskId -> [status : TaskStatus, home : Activity \cup {None}]]
      BY DEF TypeOK
<1>14. active'[a0] = NextTask /\ \A a \in Activity : a # a0 => active'[a] = active[a]
      BY <1>9, <1>13
<1>15. ASSUME NEW v \in StateVertex \ {Root} PROVE FiledAt(v)'
  <2>1. FiledAt(v)
        BY <1>2 DEF Filed
  <2>2. v = v0 => balance[v] # 0
        BY <1>8
  <2>3. ~Owns(v, a0) \/ v = v0
        BY <1>7, OneOwnerOf
  <2>4. ASSUME NEW a \in Activity, Owns(v, a)
        PROVE  /\ balance[v] = 0 => active'[a] = None /\ ~ToSpawn(a)'
               /\ ToSpawn(a)' => active'[a] = None
               /\ balance[v] # 0 => ToSpawn(a)' \/ active'[a] # None
    <3>1. CASE a = a0
          BY <1>3, <1>10, <1>14, <2>2, <2>3, <2>4, <3>1
    <3>2. CASE a # a0
          BY <1>10, <1>12, <1>14, <2>1, <2>4, <3>2 DEF FiledAt
    <3>3. QED BY <3>1, <3>2
  <2>5. QED BY <2>4 DEF FiledAt, Owns
<1>16. Homes'
      BY <1>2, <1>7, <1>10, <1>14 DEF Filed, Homes, Owns
<1>17. Tasks'
  <2> SUFFICES ASSUME NEW t \in TaskId, Unfinished(t)'
               PROVE  task'[t].home \in Activity /\ (active'[task'[t].home] = t \/ waitOn' = t)
      BY DEF Tasks
  <2>1. CASE t = NextTask
        BY <1>3, <1>9, <1>13, <1>14, <2>1
  <2>2. CASE t # NextTask
    <3>1. task'[t] = task[t] /\ Unfinished(t)
          BY <1>9, <1>13, <2>2 DEF Unfinished
    <3>2. task[t].home \in Activity /\ active[task[t].home] = t /\ t # None
          BY <1>1, <1>2, <3>1, HolderAssumption DEF Tasks
    <3>3. task[t].home # a0
          BY <1>8, <3>2
    <3>4. QED BY <1>14, <3>1, <3>2, <3>3
  <2>3. QED BY <2>1, <2>2
<1>18. QED BY <1>1, <1>11, <1>15, <1>16, <1>17 DEF Filed

\* The next activity of the state being left is cancelled and awaited.
LEMMA ActivityTerminate ==
    ASSUME ActivitiesApart, TypeOK, ActivityInv, faults = 0, Terminate
    PROVE  Filed' /\ Tasks' /\ Awaited'
<1>1. /\ stage = "run" /\ waitOn = None /\ agenda # << >> /\ agenda \in Seq(Op)
      /\ Head(agenda).op = "exit" /\ Vtx \in Vertex /\ Filed /\ Tasks
      /\ UNCHANGED <<stage, agenda, balance>>
      BY AgendaType DEF Terminate, Doing, Running, TypeOK, ActivityInv, stateVars
<1>2. PICK i \in DOMAIN Activities(Vtx) :
          /\ active[Activities(Vtx)[i]] # None
          /\ active' = [active EXCEPT ![Activities(Vtx)[i]] = None]
          /\ IF task[active[Activities(Vtx)[i]]].status = "done" THEN UNCHANGED <<task, waitOn>>
             ELSE Cancel(active[Activities(Vtx)[i]])
      BY DEF Terminate
<1>3. Activities(Vtx) \in Seq(Activity)
      BY <1>1, VertexTableTypes
<1>4. PICK a0 \in Activity : a0 = Activities(Vtx)[i]
      BY <1>2, <1>3
<1>5. PICK v0 : v0 = Vtx /\ v0 \in StateVertex \ {Root} /\ Owns(v0, a0)
  <2>1. Activities(Vtx) # << >>
        BY <1>2
  <2>2. Vtx \in StateVertex \ {Root}
        BY <1>1, <2>1 DEF ActivitiesApart
  <2>3. QED BY <1>2, <1>4, <2>2 DEF Owns
<1>6. active \in [Activity -> TaskId \cup {None}] /\ task \in [TaskId -> [status : TaskStatus, home : Activity \cup {None}]]
      BY DEF TypeOK
<1>7. active'[a0] = None /\ \A a \in Activity : a # a0 => active'[a] = active[a]
      BY <1>2, <1>4, <1>6
<1>8. \A k \in DOMAIN agenda : agenda[k].op # "spawn"
      BY <1>1, PlainHead DEF Filed
<1>9. (\A a : ~ToSpawn(a)) /\ (\A a : ~ToSpawn(a)')
      BY <1>1, <1>8 DEF ToSpawn
<1>10. \A v : (Leaving(v) <=> v = v0) /\ (Leaving(v)' <=> v = v0)
      BY <1>1, <1>5 DEF Leaving, Vtx
<1>11. ASSUME NEW v \in StateVertex \ {Root} PROVE FiledAt(v)'
  <2>1. FiledAt(v)
        BY <1>1 DEF Filed
  <2>2. Owns(v, a0) => v = v0
        BY <1>5, OneOwnerOf
  <2>3. QED BY <1>1, <1>7, <1>9, <1>10, <2>1, <2>2 DEF FiledAt, Owns
<1>12. Homes'
      BY <1>1, <1>7, <1>9 DEF Filed, Homes, Owns
<1>13. SpawnsFirst(agenda')
      BY <1>1, <1>8 DEF SpawnsFirst
<1>14. Filed'
      BY <1>11, <1>12, <1>13 DEF Filed
<1>15. PICK t0 \in TaskId : t0 = active[a0]
      BY <1>2, <1>4, <1>6
<1>16. CASE task[t0].status = "done"
  <2>1. UNCHANGED <<task, waitOn>>
        BY <1>2, <1>4, <1>15, <1>16
  <2>2. ASSUME NEW t \in TaskId, Unfinished(t)
        PROVE  task[t].home \in Activity /\ active'[task[t].home] = t
    <3>1. task[t].home \in Activity /\ active[task[t].home] = t
          BY <1>1, <2>2, HolderAssumption DEF Tasks
    <3>2. task[t].home # a0
          BY <1>15, <1>16, <2>2, <3>1 DEF Unfinished
    <3>3. QED BY <1>7, <3>1, <3>2
  <2>3. QED BY <1>1, <1>14, <2>1, <2>2 DEF Tasks, Unfinished, Awaited
<1>17. CASE task[t0].status # "done"
  <2>1. task' = [task EXCEPT ![t0].status = "cancelling"] /\ waitOn' = t0
        BY <1>2, <1>4, <1>15, <1>17 DEF Cancel
  <2>2. ASSUME NEW t \in TaskId, Unfinished(t)'
        PROVE  task'[t].home \in Activity /\ (active'[task'[t].home] = t \/ waitOn' = t)
    <3>1. task'[t].home = task[t].home /\ Unfinished(t)
          BY <1>6, <1>17, <2>1, <2>2 DEF Unfinished
    <3>2. task[t].home \in Activity /\ active[task[t].home] = t
          BY <1>1, <3>1, HolderAssumption DEF Tasks
    <3>3. task[t].home # a0 \/ t = t0
          BY <1>15, <3>2
    <3>4. QED BY <1>7, <2>1, <3>1, <3>2, <3>3
  <2>3. task'[t0].status = "cancelling"
        BY <1>6, <2>1
  <2>4. QED BY <1>14, <2>1, <2>2, <2>3 DEF Tasks, Awaited
<1>18. QED BY <1>16, <1>17

\* A state is left when no activity of it is filed any more.
LEMMA ActivityLeave ==
    ASSUME ActivitiesApart, TypeOK, ConfigInv, ActivityInv, Leave, faults = 0
    PROVE  Filed'
<1>1. /\ stage = "run" /\ stage' = "run" /\ agenda # << >> /\ agenda \in Seq(Op)
      /\ Head(agenda).op = "exit" /\ Vtx \in Vertex /\ ~HasActive(Vtx) /\ Filed
      /\ balance' = (IF Vtx \in StateVertex THEN [balance EXCEPT ![Vtx] = @ - 1] ELSE balance)
      /\ agenda' = Tail(agenda) /\ UNCHANGED <<active, faults>>
      /\ balance \in [StateVertex -> Int]
      BY AgendaType DEF Leave, Doing, Running, TypeOK, ActivityInv, restVars, taskVars
<1>2. PICK v0 \in Vertex : v0 = Vtx
      BY <1>1
<1>3. NoSpawn(agenda) /\ NoSpawn(agenda')
      BY <1>1, PlainHead, PlainTail DEF Filed, NoSpawn
<1>4. (\A a : ~ToSpawn(a)) /\ (\A a : ~ToSpawn(a)')
      BY <1>3 DEF ToSpawn, NoSpawn
<1>5. \A v : Leaving(v) <=> v = v0
      BY <1>1, <1>2 DEF Leaving
<1>6. v0 \in StateVertex \ {Root} => balance[v0] = 1
  <2>1. ASSUME v0 \in StateVertex \ {Root} PROVE balance[v0] = 1
    <3>1. balance'[v0] < balance[v0] /\ balance' # balance
          BY <1>1, <1>2, <2>1
    <3>2. [Next]_vars /\ faults' = 0
          BY <1>1 DEF Next, HolderStep, TransitionStep
    <3>3. Ordered(v0)
          BY <2>1, <3>1, <3>2, OrderStep
    <3>4. QED BY <3>1, <3>3 DEF Ordered
  <2>2. QED BY <2>1
<1>7. ASSUME NEW v \in StateVertex \ {Root} PROVE FiledAt(v)'
  <2>1. FiledAt(v)
        BY <1>1 DEF Filed
  <2>2. CASE v = v0
    <3>1. balance'[v] = 0
          BY <1>1, <1>2, <1>6, <2>2
    <3>2. \A a \in Activity : Owns(v, a) => active[a] = None
          BY <1>1, <1>2, <2>2 DEF Owns, HasActive
    <3>3. QED BY <1>1, <1>4, <3>1, <3>2 DEF FiledAt, Owns
  <2>3. CASE v # v0
    <3>1. balance'[v] = balance[v]
          BY <1>1, <1>2, <2>3
    <3>2. QED BY <1>1, <1>4, <1>5, <2>1, <2>3, <3>1 DEF FiledAt, Owns
  <2>4. QED BY <2>2, <2>3
<1>8. Homes'
      BY <1>1, <1>4 DEF Filed, Homes, Owns
<1>9. SpawnsFirst(agenda')
      BY <1>3 DEF SpawnsFirst, NoSpawn
<1>10. QED BY <1>7, <1>8, <1>9 DEF Filed

LEMMA ActivityExecutor ==
    ASSUME ActivitiesApart, TypeOK, MutexInv, ConfigInv, ActivityInv, TransitionStep
    PROVE  ActivityInv'
<1> USE DEF queueVars, runVars, workVars, eventVars, stateVars, restVars, taskVars, Continue
<1>1. UNCHANGED faults
      BY DEF TransitionStep, Effect, EnterState, EnterFinal, EnterSimple, EnterInitial,
             EnterPseudo, EnterHistory, NoBranch, Spawn, SpawnFails, Terminate, Resume, Leave
<1>2. agenda \in Seq(Op) /\ Awaited /\ (faults = 0 => Filed /\ Tasks)
      BY DEF TypeOK, ActivityInv
<1>3. CASE Effect
  <2>1. /\ stage = "run" /\ agenda # << >> /\ Head(agenda).op = "effect" /\ agenda' = Tail(agenda)
        /\ UNCHANGED <<active, task, waitOn, balance>>
        BY <1>3 DEF Effect, Doing, Running
  <2>2. Filed => NoSpawn(agenda')
        BY <1>2, <2>1, PlainHead, PlainTail DEF Filed, NoSpawn
  <2>3. QED BY <1>1, <1>2, <2>1, <2>2, FiledMoves, TasksStay DEF ActivityInv
<1>4. CASE EnterState
  <2>1. UNCHANGED <<active, task, waitOn>>
        BY <1>4 DEF EnterState
  <2>2. faults = 0 => Filed'
        BY <1>4, ActivityEnter
  <2>3. QED BY <1>1, <1>2, <2>1, <2>2, TasksStay DEF ActivityInv
<1>5. ASSUME /\ stage = "run" => agenda # << >> /\ Head(agenda).op \notin {"spawn", "exit"}
             /\ stage' = "run" => agenda' \in Seq(PlainOp)
             /\ UNCHANGED <<active, task, waitOn, balance>>
      PROVE  ActivityInv'
  <2>1. stage' = "run" => NoSpawn(agenda')
        BY <1>5, PlainNoSpawn
  <2>2. QED BY <1>1, <1>2, <1>5, <2>1, FiledMoves, TasksStay DEF ActivityInv
<1>6. CASE EnterFinal \/ EnterSimple
  <2>1. Vtx \in Vertex
        BY <1>6, AgendaType DEF EnterFinal, EnterSimple, Doing
  <2>2. agenda' \in Seq(PlainOp)
        BY <1>6, <2>1, PlainAgendas DEF EnterFinal, EnterSimple, VertexOp, OpName
  <2>3. QED BY <1>5, <1>6, <2>2 DEF EnterFinal, EnterSimple, Doing, Running
<1>7. CASE EnterInitial
  <2>1. Vtx \in Vertex /\ Initial(Vtx) \in Transition
        BY <1>7, AgendaType, VertexTableTypes DEF EnterInitial, Doing
  <2>2. agenda' \in Seq(PlainOp)
        BY <1>7, <2>1, PlainAgendas DEF EnterInitial, Follow
  <2>3. QED BY <1>5, <1>7, <2>2 DEF EnterInitial, Doing, Running
<1>8. CASE EnterPseudo
      BY <1>5, <1>8 DEF EnterPseudo, Doing, Running
<1>9. CASE EnterHistory
  <2>1. Vtx \in History /\ Vtx \in Vertex /\ history[Vtx] \in Vertex
        BY <1>9, AgendaType DEF EnterHistory, Doing, TypeOK
  <2>2. HistoryPath(Vtx, history[Vtx]) \in Seq(Vertex)
        BY <2>1, VertexTableTypes
  <2>3. /\ Enters(HistoryPath(Vtx, history[Vtx]), history[Vtx]) \in Seq(PlainOp)
        /\ <<ToDo("none", Vtx)>> \in Seq(PlainOp)
        BY <2>1, <2>2, PlainAgendas DEF VertexOp, OpName
  <2>4. agenda' \in Seq(PlainOp)
        BY <1>9, <2>3 DEF EnterHistory
  <2>5. QED BY <1>5, <1>9, <2>4 DEF EnterHistory, Doing, Running
<1>10. CASE NoBranch
  <2>1. from \in Vertex
        BY DEF TypeOK
  <2>2. agenda' \in Seq(PlainOp)
        BY <1>10, <2>1, PlainAgendas DEF NoBranch, VertexOp, OpName
  <2>3. QED BY <1>5, <1>10, <2>2 DEF NoBranch
<1>11. CASE Spawn \/ SpawnFails
  <2>1. PICK status \in TaskStatus : File(status) /\ UNCHANGED <<balance, waitOn>>
        BY <1>11 DEF Spawn, SpawnFails, TaskStatus
  <2>2. stage = "run" /\ waitOn = None
        BY <2>1 DEF File, Doing, Running
  <2>3. UNCHANGED stage
        BY <1>11, <2>2, Busy DEF Spawn, SpawnFails, Accept
  <2>4. faults = 0 => Filed' /\ Tasks'
        BY <2>1, <2>3, ActivityFile
  <2>5. Awaited'
        BY <2>1, <2>2 DEF Awaited
  <2>6. QED BY <1>1, <2>4, <2>5 DEF ActivityInv
<1>12. CASE Terminate
  <2>1. faults = 0 => Filed' /\ Tasks'
        BY <1>12, ActivityTerminate
  <2>2. Awaited'
    <3>1. waitOn = None /\ active \in [Activity -> TaskId \cup {None}]
          /\ task \in [TaskId -> [status : TaskStatus, home : Activity \cup {None}]]
          BY <1>12 DEF Terminate, Doing, Running, TypeOK
    <3>2. \A t \in TaskId : Cancel(t) => Awaited'
          BY <3>1 DEF Cancel, Awaited
    <3>3. \A v \in Vertex : \A i \in DOMAIN Activities(v) : active[Activities(v)[i]] \in TaskId \cup {None}
      <4> SUFFICES ASSUME NEW v \in Vertex, NEW i \in DOMAIN Activities(v)
                   PROVE  active[Activities(v)[i]] \in TaskId \cup {None}
          OBVIOUS
      <4>1. Activities(v)[i] \in Activity
            BY VertexTableTypes
      <4>2. QED BY <3>1, <4>1
    <3>4. Vtx \in Vertex
          BY <1>12, AgendaType DEF Terminate, Doing
    <3>5. QED BY <1>12, <3>1, <3>2, <3>3, <3>4 DEF Terminate, Awaited
  <2>3. QED BY <1>1, <2>1, <2>2 DEF ActivityInv
<1>13. CASE Resume
  <2>1. UNCHANGED <<balance, active, agenda, stage, task>> /\ waitOn' = None
        /\ task[waitOn].status = "done"
        BY <1>13 DEF Resume
  <2>2. Awaited' /\ (Tasks => Tasks')
        BY <2>1 DEF Awaited, Tasks, Unfinished
  <2>3. QED BY <1>1, <1>2, <2>1, <2>2, FiledStays DEF ActivityInv
<1>14. CASE Leave
  <2>1. UNCHANGED <<active, task, waitOn>>
        BY <1>14 DEF Leave
  <2>2. faults = 0 => Filed'
        BY <1>14, ActivityLeave
  <2>3. QED BY <1>1, <1>2, <2>1, <2>2, TasksStay DEF ActivityInv
<1>15. QED BY <1>3, <1>4, <1>6, <1>7, <1>8, <1>9, <1>10, <1>11, <1>12, <1>13, <1>14
           DEF TransitionStep

(***************************************************************************)
(* Steps of others                                                         *)
(***************************************************************************)
\* What may happen to a task that the holder does not start or cancel.
GoesOn(t) ==
    /\ task'[t].home = task[t].home
    /\ \/ task'[t].status = task[t].status
       \/ task'[t].status = "done"
       \/ /\ task[t].status \in {"cancelling", "cleanwait"}
          /\ task'[t].status \in {"cancelling", "cleanwait"}
       \/ /\ task[t].status = "live"
          /\ task'[t].status \in {"stray", "orphan"}

LEMMA TasksGoOn ==
    ASSUME UNCHANGED active, waitOn' = waitOn \/ (waitOn = None /\ waitOn' = None),
           \A t \in TaskId : GoesOn(t), TypeOK
    PROVE  (Tasks => Tasks') /\ (Awaited => Awaited')
<1>1. \A t \in TaskId : Unfinished(t)' => Unfinished(t)
      BY DEF GoesOn, Unfinished
<1>2. Tasks => Tasks'
      BY <1>1 DEF Tasks, GoesOn
<1>3. waitOn \in TaskId \cup {None}
      BY DEF TypeOK
<1>4. Awaited => Awaited'
      BY <1>3 DEF Awaited, GoesOn
<1>5. QED BY <1>2, <1>4

LEMMA LiveGoOn ==
    ASSUME TypeOK, NEW status \in {"stray", "orphan"}, task' = LiveBecome(status)
    PROVE  \A t \in TaskId : GoesOn(t)
BY DEF TypeOK, LiveBecome, GoesOn

LEMMA OneGoesOn ==
    ASSUME TypeOK, NEW t \in TaskId, NEW status, task' = [task EXCEPT ![t].status = status],
           \/ status \in {"done", task[t].status}
           \/ task[t].status = "cancelling" /\ status = "cleanwait"
    PROVE  \A u \in TaskId : GoesOn(u)
BY DEF TypeOK, GoesOn

LEMMA TaskStepGoesOn ==
    ASSUME TypeOK, NEW t \in TaskId, TaskStep(t)
    PROVE  UNCHANGED <<active, waitOn, balance>> /\ \A u \in TaskId : GoesOn(u)
<1> USE DEF machineVars, queueVars, runVars, workVars, eventVars, stateVars, restVars
<1>1. CASE TaskFinishes(t) \/ TaskCancelled(t)
      BY <1>1, OneGoesOn DEF TaskFinishes, TaskCancelled, TaskEnds
<1>2. CASE TaskFails(t)
      BY <1>2, OneGoesOn DEF TaskFails
<1>3. ASSUME NEW n \in DispatchName, TaskCleanup(t, n)
      PROVE  UNCHANGED <<active, waitOn, balance>> /\ \A u \in TaskId : GoesOn(u)
  <2>1. PICK status : /\ task' = [task EXCEPT ![t].status = status]
                      /\ status = IF ctxDone THEN task[t].status ELSE "cleanwait"
        BY <1>3 DEF TaskCleanup, TypeOK
  <2>2. task[t].status = "cancelling"
        BY <1>3 DEF TaskCleanup
  <2>3. QED BY <1>3, <2>1, <2>2, OneGoesOn DEF TaskCleanup
<1>4. QED BY <1>1, <1>2, <1>3 DEF TaskStep

\* The tasks and calls of others: none of them files or forgets an activity.
LEMMA OthersGoOn ==
    ASSUME TypeOK, OthersMove
    PROVE  /\ UNCHANGED <<active, waitOn>> /\ \A u \in TaskId : GoesOn(u)
           /\ \A v \in StateVertex \ {Root} : balance'[v] = balance[v]
<1> USE DEF machineVars, queueVars, runVars, workVars, eventVars, stateVars, restVars, taskVars,
            CallBecomes
<1>1. UNCHANGED task => \A u \in TaskId : GoesOn(u)
      BY DEF GoesOn
<1>2. ASSUME BeginStartup
      PROVE  /\ UNCHANGED <<active, waitOn>> /\ \A u \in TaskId : GoesOn(u)
             /\ \A v \in StateVertex \ {Root} : balance'[v] = balance[v]
      BY <1>2, LiveGoOn DEF BeginStartup, TypeOK
<1>3. ASSUME NEW c, NEW m, BeginStop(c, m)
      PROVE  UNCHANGED <<active, waitOn, balance>> /\ \A u \in TaskId : GoesOn(u)
      BY <1>3, LiveGoOn DEF BeginStop
<1>4. ASSUME NEW c, NEW m, StopWaits(c, m)
      PROVE  UNCHANGED <<active, waitOn, balance>> /\ \A u \in TaskId : GoesOn(u)
      BY <1>1, <1>4 DEF StopWaits
<1>5. ASSUME NEW c \in Client, RestartAbandoned(c)
      PROVE  UNCHANGED <<active, waitOn, balance>> /\ \A u \in TaskId : GoesOn(u)
  <2>1. CASE UNCHANGED task
        BY <1>1, <1>5, <2>1 DEF RestartAbandoned
  <2>2. CASE task' = [t \in TaskId |-> IF t = waitOn /\ task[t].status = "cleanwait"
                                       THEN [task[t] EXCEPT !.status = "cancelling"] ELSE task[t]]
    <3>1. \A u \in TaskId : GoesOn(u)
          BY <2>2 DEF GoesOn, TypeOK
    <3>2. QED BY <1>5, <3>1 DEF RestartAbandoned
  <2>3. QED BY <1>5, <2>1, <2>2 DEF RestartAbandoned
<1>6. ASSUME NEW c \in Client, CallStep(c)
      PROVE  /\ UNCHANGED <<active, waitOn>> /\ \A u \in TaskId : GoesOn(u)
             /\ \A v \in StateVertex \ {Root} : balance'[v] = balance[v]
      BY <1>1, <1>2, <1>3, <1>4, <1>5, <1>6 DEF CallStep, StopRetry, StopReturns, RestartStarts,
         RestartFails
<1>7. ASSUME NEW i \in EventId, WaitBegins(i)
      PROVE  UNCHANGED <<active, waitOn, balance>> /\ \A u \in TaskId : GoesOn(u)
      BY <1>1, <1>7 DEF WaitBegins
<1>8. CASE ClientStep
  <2>1. CASE Start
        BY <1>2, <2>1 DEF Start
  <2>2. CASE ParentEnds
        BY <2>2, LiveGoOn DEF ParentEnds
  <2>3. CASE \E n \in DispatchName : Dispatch(n)
        BY <1>1, <2>3 DEF Dispatch
  <2>4. CASE \E c \in Client, m \in CallMode : StopCall(c, m)
        BY <1>3, <1>4, <2>4 DEF StopCall
  <2>5. QED BY <1>8, <2>1, <2>2, <2>3, <2>4 DEF ClientStep
<1>9. QED BY <1>6, <1>7, <1>8, TaskStepGoesOn DEF OthersMove

\* Once a callback has raised, it has.
LEMMA FaultsStay ==
    ASSUME TypeOK, [Next]_vars, faults' = 0 PROVE faults = 0
<1> USE DEF vars, machineVars, queueVars, runVars, workVars, eventVars, stateVars, restVars,
            taskVars, lifeVars, ghostVars, GoTo, Continue
<1>1. CASE ProcessStep
      BY <1>1 DEF ProcessStep, PopDeferred, PopEvent, TakeTransition, GuardFails, Unhandled, Arrive,
             HandlerRuns, NextCandidate, NoTransition, NoResult, Replay, Replayed, Drain, PutBack,
             Finish
<1>2. CASE TransitionStep
      BY <1>2 DEF TransitionStep, Effect, EnterState, EnterFinal, EnterSimple, EnterInitial,
             EnterPseudo, EnterHistory, NoBranch, Spawn, SpawnFails, Terminate, Resume, Leave
<1>3. CASE StopFinish
      BY <1>3 DEF StopFinish
<1>4. ~Raise
      BY DEF Raise, TypeOK
<1>5. CASE OthersMove
      BY <1>5, OthersStandBy DEF Bystander, BeginStartup, BeginStop
<1>6. QED BY <1>1, <1>2, <1>3, <1>4, <1>5 DEF Next, HolderStep, OthersMove

LEMMA ActivityOthers ==
    ASSUME TypeOK, MutexInv, ActivityInv, OthersMove \/ Raise \/ StopFinish
    PROVE  ActivityInv'
<1> USE DEF queueVars, runVars, workVars, eventVars, stateVars, restVars, taskVars
<1>1. CASE Raise
  <2>1. waitOn' = None /\ faults' = faults + 1 /\ faults \in Nat
        BY <1>1 DEF Raise, Release, TypeOK
  <2>2. faults' # 0
        BY <2>1
  <2>3. QED BY <2>1, <2>2 DEF ActivityInv, Awaited
<1>2. CASE StopFinish
  <2>1. /\ stage = "run" /\ waitOn = None /\ agenda # << >> /\ Head(agenda).op = "halt"
        /\ stage' = "idle" /\ waitOn' = None /\ UNCHANGED <<balance, active, task, faults>>
        BY <1>2 DEF StopFinish, Release, Doing, Running
  <2>2. QED BY <2>1, FiledMoves, TasksStay DEF ActivityInv
<1>3. CASE OthersMove
  <2>1. /\ UNCHANGED <<active, waitOn>> /\ \A u \in TaskId : GoesOn(u)
        /\ \A v \in StateVertex \ {Root} : balance'[v] = balance[v]
        BY <1>3, OthersGoOn
  <2>2. (Tasks => Tasks') /\ (Awaited => Awaited')
        BY <2>1, TasksGoOn
  <2>3. holder = Free => stage = "idle"
        BY DEF MutexInv, NoLostWakeup
  <2>4. CASE Bystander
    <3>1. UNCHANGED <<balance, agenda, faults>> /\ (UNCHANGED stage \/ "run" \notin {stage, stage'})
          BY <2>3, <2>4 DEF Bystander
    <3>2. Filed => Filed'
          BY <2>1, <3>1, FiledStays
    <3>3. QED BY <2>2, <3>1, <3>2 DEF ActivityInv
  <2>5. CASE BeginStartup
    <3>1. <<ToDo("enter", Root)>> \in Seq(PlainOp)
          BY PlainAgendas, TableNames DEF VertexOp, OpName
    <3>2. NoSpawn(agenda')
          BY <2>5, <3>1, PlainNoSpawn DEF BeginStartup
    <3>3. stage # "run" /\ UNCHANGED faults
          BY <2>3, <2>5 DEF BeginStartup, Startable
    <3>4. QED BY <2>1, <2>2, <3>2, <3>3, FiledMoves DEF ActivityInv
  <2>6. ASSUME NEW c \in Client, NEW m, BeginStop(c, m) PROVE ActivityInv'
    <3> DEFINE x == SubSeq(Chain(state), 1, Len(Chain(state)) - 1)
    <3>1. state \in Vertex /\ Chain(state) \in Seq(Vertex) /\ Chain(state) # << >>
          BY VertexTableTypes DEF TypeOK
    <3>2. x \in Seq(Vertex)
          BY <3>1
    <3> HIDE DEF x
    <3>3. Exits(x) \in Seq(PlainOp) /\ <<ToDo("halt", Root)>> \in Seq(PlainOp)
          BY <3>2, PlainAgendas, TableNames DEF VertexOp, OpName
    <3>4. Exits(x) \o <<ToDo("halt", Root)>> \in Seq(PlainOp)
          BY <3>3
    <3>5. NoSpawn(agenda')
          BY <2>6, <3>4, PlainNoSpawn DEF BeginStop, x
    <3>6. stage # "run" /\ UNCHANGED faults
          BY <2>3, <2>6 DEF BeginStop
    <3>7. QED BY <2>1, <2>2, <3>5, <3>6, FiledMoves DEF ActivityInv
  <2>7. QED BY <1>3, <2>4, <2>5, <2>6, OthersStandBy
<1>4. QED BY <1>1, <1>2, <1>3

LEMMA ActivityNext ==
    ASSUME ActivitiesApart, TypeOK, MutexInv, ConfigInv, ActivityInv, [Next]_vars
    PROVE  ActivityInv'
<1>1. CASE UNCHANGED vars
  <2>1. UNCHANGED <<balance, active, agenda, stage, task, waitOn, faults>>
        BY <1>1 DEF vars, machineVars, runVars, workVars, stateVars, taskVars
  <2>2. QED BY <2>1, FiledStays, TasksStay DEF ActivityInv
<1>2. CASE Next
      BY <1>2, ActivityLoop, ActivityExecutor, ActivityOthers DEF Next, HolderStep, OthersMove
<1>3. QED BY <1>1, <1>2

(***************************************************************************)
(* _execute and _terminate: as long as no callback raises and no empty     *)
(* history is entered, the activities that are filed are, at every step,   *)
(* those of the entered states, but for the ones that are still to be      *)
(* spawned or that are being cancelled, and no other task is unfinished.   *)
(***************************************************************************)
THEOREM ActivityInvariant ==
    ASSUME PointsEnter, PointsJoin, ActivitiesApart
    PROVE  Spec /\ []HistoryLeads => []ActivityInv
<1>1. Init => ActivityInv
  <2> SUFFICES ASSUME Init PROVE ActivityInv
      OBVIOUS
  <2>1. Filed
        BY TableNames DEF Init, Filed, FiledAt, Homes, ToSpawn
  <2>2. Tasks /\ Awaited
        BY DEF Init, Tasks, Awaited, Unfinished
  <2>3. QED BY <2>1, <2>2 DEF ActivityInv
<1>2. TypeOK /\ MutexInv /\ ConfigInv /\ ActivityInv /\ [Next]_vars => ActivityInv'
      BY ActivityNext
<1>3. QED BY <1>1, <1>2, TypeCorrect, MutexInvariant, ConfigurationInvariant, PTL DEF Spec

(***************************************************************************)
(* Between two transitions exactly the activities of the active states are *)
(* filed, and every activity that has not ended is filed or awaited.       *)
(***************************************************************************)
THEOREM ActivitiesFollowStates ==
    ASSUME PointsEnter, PointsJoin, ActivitiesApart
    PROVE  Spec /\ []HistoryLeads => []ActivityScope
<1>1. TypeOK /\ ConfigurationEntered /\ ActivityInv => ActivityScope
  <2> SUFFICES ASSUME TypeOK, ConfigurationEntered, ActivityInv, faults = 0 PROVE ActivityScope
      BY DEF ActivityScope
  <2>1. \A t \in TaskId : Unfinished(t) => active[task[t].home] = t \/ waitOn = t
        BY DEF ActivityInv, Tasks
  <2>2. ASSUME Settled, NEW v \in StateVertex \ {Root}, NEW i \in DOMAIN Activities(v)
        PROVE  active[Activities(v)[i]] # None <=> v \in ActiveIn(state)
    <3>1. stage # "run" /\ balance[v] = IF v \in ActiveIn(state) THEN 1 ELSE 0
          BY <2>2 DEF Settled, ConfigurationEntered
    <3>2. PICK a \in Activity : a = Activities(v)[i] /\ Owns(v, a)
      <4>1. Activities(v) \in Seq(Activity)
            BY VertexTableTypes, TableNames
      <4>2. QED BY <2>2, <4>1 DEF Owns
    <3>3. FiledAt(v)
          BY DEF ActivityInv, Filed
    <3>4. ~ToSpawn(a) /\ ~Leaving(v)
          BY <3>1 DEF ToSpawn, Leaving
    <3>5. QED BY <3>1, <3>2, <3>3, <3>4 DEF FiledAt
  <2>3. QED BY <2>1, <2>2 DEF ActivityScope
<1>2. QED BY <1>1, TypeCorrect, ConfigurationIsEntered, ActivityInvariant, PTL

(***************************************************************************)
(* A machine that runs is in a state of its model                          *)
(***************************************************************************)
\* No call returns the model.
Inside(ag) == \A k \in DOMAIN ag : ag[k].op = "arrive" => ag[k].v # Root

\* The loop never runs for a machine in its model; the start of one, only up
\* to the end of the first entry.
RunsInside ==
    holder = Process \/ (holder # Free /\ stage \notin {"run", "branch"}) => state # Root

InsideInv == Inside(agenda) /\ RunsInside

LEMMA InsidePlain ==
    ASSUME NEW ag, \A k \in DOMAIN ag : ag[k].op # "arrive"
    PROVE  Inside(ag)
BY DEF Inside

LEMMA InsideOne ==
    ASSUME NEW name, NEW v, name # "arrive" \/ v # Root
    PROVE  Inside(<<ToDo(name, v)>>)
BY DEF Inside, ToDo

LEMMA InsideTail ==
    ASSUME NEW ag \in Seq(Op), ag # << >>, Inside(ag)
    PROVE  Inside(Tail(ag)) /\ (Head(ag).op = "arrive" => Head(ag).v # Root)
<1>1. Len(ag) \in Nat /\ Len(ag) > 0 /\ Head(ag) = ag[1]
      /\ DOMAIN ag = 1 .. Len(ag) /\ DOMAIN Tail(ag) = 1 .. Len(ag) - 1
      /\ \A i \in 1 .. Len(ag) - 1 : Tail(ag)[i] = ag[i + 1]
      BY HeadTailProperties
<1>2. \A k \in DOMAIN Tail(ag) : k + 1 \in DOMAIN ag /\ Tail(ag)[k] = ag[k + 1]
      BY <1>1
<1>3. 1 \in DOMAIN ag
      BY <1>1
<1>4. QED BY <1>1, <1>2, <1>3 DEF Inside

LEMMA InsideJoin ==
    ASSUME NEW a \in Seq(Op), NEW b \in Seq(Op), Inside(a), Inside(b)
    PROVE  Inside(a \o b)
<1>1. \A k \in DOMAIN (a \o b) : \/ k \in DOMAIN a /\ (a \o b)[k] = a[k]
                                 \/ k - Len(a) \in DOMAIN b /\ (a \o b)[k] = b[k - Len(a)]
      OBVIOUS
<1>2. QED BY <1>1 DEF Inside

LEMMA InsideTransition ==
    ASSUME ModelLeads, NEW t \in Transition, NEW v \in Vertex, Target(t) = None => v # Root
    PROVE  Inside(TransitionAgenda(t, v))
<1>1. ExitPath(t, v) \in Seq(Vertex) /\ EnterPath(t, v) \in Seq(Vertex)
      BY TransitionTableTypes
<1>2. Exits(ExitPath(t, v)) \in Seq(Op)
      BY <1>1, PathOps
<1>3. \A name \in {"effect", "arrive"}, w \in Vertex : <<ToDo(name, w)>> \in Seq(Op)
      BY OneOp DEF VertexOp, OpName
<1>4. Effects(t, v) \in Seq(Op)
      BY <1>3, EmptySeq DEF Effects
<1>5. Inside(Exits(ExitPath(t, v))) /\ Inside(Effects(t, v))
      BY InsidePlain DEF Exits, Effects, ToDo
<1>6. PICK up \in Seq(Op) : up = Exits(ExitPath(t, v)) \o Effects(t, v) /\ Inside(up)
  <2>1. Inside(Exits(ExitPath(t, v)) \o Effects(t, v))
        BY <1>2, <1>4, <1>5, InsideJoin
  <2>2. Exits(ExitPath(t, v)) \o Effects(t, v) \in Seq(Op)
        BY <1>2, <1>4
  <2>3. QED BY <2>1, <2>2
<1>7. CASE Target(t) = None
  <2>1. TransitionAgenda(t, v) = up \o <<ToDo("arrive", v)>>
        BY <1>6, <1>7 DEF TransitionAgenda
  <2>2. QED BY <1>3, <1>6, <1>7, <2>1, InsideJoin, InsideOne
<1>8. CASE Target(t) # None
  <2>1. PICK w \in Vertex : w = Target(t) /\ w # Root
        BY <1>8, TransitionTableTypes DEF ModelLeads
  <2>2. PICK down \in Seq(Op) : down = Enters(EnterPath(t, v), w)
        BY <1>1, PathOps
  <2>3. Inside(down)
        BY <2>2, InsidePlain DEF Enters, ToDo
  <2>4. PICK last \in Seq(Op) : last = <<ToDo("arrive", w)>> /\ Inside(last)
        BY <1>3, <2>1, InsideOne
  <2>5. TransitionAgenda(t, v) = up \o (down \o last)
        BY <1>6, <1>8, <2>1, <2>2, <2>4 DEF TransitionAgenda
  <2>6. down \o last \in Seq(Op)
        OBVIOUS
  <2>7. Inside(down \o last)
        BY <2>3, <2>4, InsideJoin
  <2>8. QED BY <1>6, <2>5, <2>6, <2>7, InsideJoin
<1>9. QED BY <1>7, <1>8

\* A step of the holder in the middle of a transition.
LEMMA InsideRuns ==
    ASSUME InsideInv, Inside(agenda'), UNCHANGED <<state, holder>>, stage' \in {"run", "branch", stage}
    PROVE  InsideInv'
BY DEF InsideInv, RunsInside

LEMMA InsideLoop ==
    ASSUME ModelLeads, HistoryLeads, TypeOK, MutexInv, StatesInv, InsideInv, ProcessStep
    PROVE  InsideInv'
<1> USE DEF queueVars, runVars, workVars, eventVars, stateVars, restVars, GoTo
<1>1. Inside(<< >>)
      BY DEF Inside
<1>2. stage \notin {"idle", "run", "branch"} => state # Root
      BY Busy DEF InsideInv, RunsInside
<1>3. CASE PopDeferred \/ Replay \/ Replayed \/ Drain \/ PutBack
      BY <1>2, <1>3 DEF PopDeferred, Replay, Replayed, Drain, PutBack, Running, InsideInv, RunsInside
<1>4. CASE PopEvent
      BY <1>2, <1>4 DEF PopEvent, Running, InsideInv, RunsInside
<1>5. CASE TakeTransition
  <2>1. Head(cands) \in Transition /\ from \in Vertex
        BY <1>5, CandsType DEF TakeTransition, TypeOK
  <2>2. from # Root
    <3>1. CASE stage = "select"
          BY <1>2, <3>1 DEF StatesInv, SelectsInState
    <3>2. CASE stage = "branch"
          BY <3>2, TableNames DEF StatesInv, BranchesOn
    <3>3. QED BY <1>5, <3>1, <3>2 DEF TakeTransition
  <2>3. Inside(agenda') /\ stage' = "run" /\ UNCHANGED <<state, holder>>
        BY <1>5, <2>1, <2>2, InsideTransition DEF TakeTransition, Follow
  <2>4. QED BY <2>3, InsideRuns
<1>6. CASE GuardFails \/ HandlerRuns
      BY <1>6, InsideRuns DEF GuardFails, HandlerRuns, NextCandidate, InsideInv
<1>7. CASE NoTransition
      BY <1>1, <1>2, <1>7 DEF NoTransition, Unhandled, InsideInv, RunsInside
<1>8. ~NoResult
      BY DEF NoResult, HistoryLeads
<1>9. CASE Arrive
  <2>1. agenda \in Seq(Op) /\ agenda # << >> /\ Head(agenda).op = "arrive"
        BY <1>9 DEF Arrive, Doing, TypeOK
  <2>2. Vtx # Root
        BY <2>1, InsideTail DEF InsideInv, Vtx
  <2>3. QED BY <1>1, <1>9, <2>2 DEF Arrive, InsideInv, RunsInside
<1>10. CASE Finish
      BY <1>1, <1>10, HolderAssumption DEF Finish, Release, InsideInv, RunsInside
<1>11. QED BY <1>3, <1>4, <1>5, <1>6, <1>7, <1>8, <1>9, <1>10 DEF ProcessStep

LEMMA InsideExecutor ==
    ASSUME ModelLeads, TypeOK, MutexInv, StatesInv, InsideInv, TransitionStep
    PROVE  InsideInv'
<1> USE DEF queueVars, runVars, workVars, eventVars, stateVars, restVars, Continue
<1>1. Inside(agenda) /\ (agenda # << >> => Inside(Tail(agenda)))
      BY InsideTail DEF InsideInv, TypeOK
<1>2. CASE Effect \/ Spawn \/ Leave
      BY <1>1, <1>2, InsideRuns DEF Effect, Spawn, File, Leave, Doing
<1>3. CASE SpawnFails
  <2>1. stage = "run" /\ agenda # << >> /\ agenda' = Tail(agenda) /\ UNCHANGED state
        BY <1>3 DEF SpawnFails, File, Doing, Running
  <2>2. UNCHANGED <<holder, stage>>
        BY <1>3, <2>1, Busy DEF SpawnFails, Accept
  <2>3. QED BY <1>1, <2>1, <2>2, InsideRuns
<1>4. CASE EnterState
  <2>1. Vtx \in StateVertex /\ Vtx \in Vertex /\ agenda # << >>
        BY <1>4, TableNames DEF EnterState, Doing
  <2>2. Spawns(Vtx) \in Seq(Op) /\ <<ToDo("default", Vtx)>> \in Seq(Op) /\ Tail(agenda) \in Seq(Op)
        BY <2>1, AgendaType, SpawnsType, OneOp, OpTakes DEF Takes, VertexOp, OpName, Op, ToDo
  <2>3. Inside(Spawns(Vtx)) /\ Inside(<<ToDo("default", Vtx)>>)
        BY InsidePlain, InsideOne DEF Spawns, ToDo
  <2>4. Inside(agenda')
        BY <1>1, <1>4, <2>1, <2>2, <2>3, InsideJoin DEF EnterState
  <2>5. QED BY <1>4, <2>4, InsideRuns DEF EnterState
<1>5. CASE EnterFinal \/ EnterSimple
  <2>1. Vtx # Root
        BY <1>5 DEF EnterFinal, EnterSimple, ModelLeads
  <2>2. Inside(<<ToDo("arrive", Vtx)>>)
        BY <2>1, InsideOne
  <2>3. QED BY <1>5, <2>2, InsideRuns DEF EnterFinal, EnterSimple
<1>6. CASE EnterInitial
  <2>1. agenda # << >> /\ Head(agenda).op = "default"
        BY <1>6 DEF EnterInitial, Doing
  <2>2. Vtx \in Vertex /\ Initial(Vtx) \in Transition
        BY <1>6, <2>1, AgendaType, VertexTableTypes DEF EnterInitial
  <2>3. Target(Initial(Vtx)) = None => Vtx # Root
        BY DEF ModelLeads
  <2>4. Inside(agenda') /\ stage' = "run" /\ UNCHANGED <<state, holder>>
        BY <1>6, <2>2, <2>3, InsideTransition DEF EnterInitial, Follow
  <2>5. QED BY <2>4, InsideRuns
<1>7. CASE EnterPseudo
  <2>1. Inside(agenda')
        BY <1>7 DEF EnterPseudo, Inside
  <2>2. QED BY <1>7, <2>1, InsideRuns DEF EnterPseudo
<1>8. CASE EnterHistory
  <2>1. Vtx \in History /\ history[Vtx] \in Vertex /\ Vtx \in Vertex
        BY <1>8, TableNames DEF EnterHistory, TypeOK
  <2>2. HistoryPath(Vtx, history[Vtx]) \in Seq(Vertex)
        BY <2>1, VertexTableTypes
  <2>3. PICK down \in Seq(Op) : down = Enters(HistoryPath(Vtx, history[Vtx]), history[Vtx])
        BY <2>2, PathOps
  <2>4. PICK last \in Seq(Op) : last = <<ToDo("none", Vtx)>>
        BY <2>1, OneOp DEF VertexOp, OpName
  <2>5. Inside(down) /\ Inside(last)
        BY <2>3, <2>4, InsidePlain, InsideOne DEF Enters, ToDo
  <2>6. agenda' = down \o last
        BY <1>8, <2>3, <2>4 DEF EnterHistory
  <2>7. Inside(agenda')
        BY <2>5, <2>6, InsideJoin
  <2>8. QED BY <1>8, <2>7, InsideRuns DEF EnterHistory
<1>9. CASE NoBranch
  <2>1. from # Root
        BY <1>9, TableNames DEF NoBranch, StatesInv, BranchesOn
  <2>2. Inside(agenda')
        BY <1>9, <2>1, InsideOne DEF NoBranch
  <2>3. QED BY <1>9, <2>2, InsideRuns DEF NoBranch
<1>10. CASE Terminate \/ Resume
      BY <1>1, <1>10, InsideRuns DEF Terminate, Resume
<1>11. QED BY <1>2, <1>3, <1>4, <1>5, <1>6, <1>7, <1>8, <1>9, <1>10 DEF TransitionStep

\* A task or a caller takes the mutex to run the loop only of a machine that
\* was started.
LEMMA OthersWakeInside ==
    ASSUME MutexInv, OthersMove, Bystander
    PROVE  /\ UNCHANGED <<state, agenda>>
           /\ \/ UNCHANGED <<holder, stage>>
              \/ ~Startable /\ holder = Free /\ holder' = Process /\ stage' = "pop"
<1> USE DEF machineVars, queueVars, runVars, workVars, eventVars, stateVars, restVars,
            TaskEnds, CallBecomes
<1>1. UNCHANGED <<state, agenda>>
      BY DEF Bystander
<1> DEFINE G == \/ UNCHANGED <<holder, stage>>
                \/ ~Startable /\ holder = Free /\ holder' = Process /\ stage' = "pop"
<1>2. ASSUME NEW n, Accept(n), ~Startable \/ holder # Free PROVE G
      BY <1>2 DEF Accept
<1>3. ASSUME NEW t \in TaskId, TaskStep(t) PROVE G
  <2>1. CASE TaskFinishes(t) \/ TaskCancelled(t)
        BY <2>1 DEF TaskFinishes, TaskCancelled
  <2>2. CASE TaskFails(t) \/ \E n \in DispatchName : TaskCleanup(t, n)
        BY <1>2, <2>2 DEF TaskFails, TaskCleanup
  <2>3. QED BY <1>3, <2>1, <2>2 DEF TaskStep
<1>4. ~BeginStartup
      BY DEF BeginStartup, Startable, Bystander, MutexInv, NoLostWakeup
<1>5. ASSUME NEW c, NEW m PROVE ~BeginStop(c, m)
      BY DEF BeginStop, Bystander, MutexInv, NoLostWakeup
<1>6. ASSUME NEW c \in Client, CallStep(c) PROVE G
      BY <1>4, <1>5, <1>6 DEF CallStep, StopRetry, StopReturns, RestartStarts, RestartFails,
                              RestartAbandoned, StopWaits
<1>7. CASE ClientStep
  <2>1. ~Start
        BY <1>4 DEF Start
  <2>2. CASE ParentEnds
        BY <2>2 DEF ParentEnds
  <2>3. CASE \E n \in DispatchName : Dispatch(n)
        BY <1>2, <2>3 DEF Dispatch
  <2>4. CASE \E c \in Client, m \in CallMode : StopCall(c, m)
        BY <1>5, <2>4 DEF StopCall, StopWaits
  <2>5. QED BY <1>7, <2>1, <2>2, <2>3, <2>4 DEF ClientStep
<1>8. ASSUME NEW i \in EventId, WaitBegins(i) PROVE G
      BY <1>8 DEF WaitBegins
<1>9. QED BY <1>1, <1>3, <1>6, <1>7, <1>8 DEF OthersMove

LEMMA InsideOthers ==
    ASSUME TypeOK, MutexInv, InsideInv, OthersMove \/ Raise \/ StopFinish
    PROVE  InsideInv'
<1> USE DEF queueVars, runVars, workVars, eventVars, stateVars, restVars
<1>1. Inside(<< >>)
      BY DEF Inside
<1>2. CASE Raise \/ StopFinish
      BY <1>1, <1>2, HolderAssumption DEF Raise, StopFinish, Release, InsideInv, RunsInside
<1>3. CASE OthersMove
  <2>1. CASE Bystander
    <3>1. holder = Free => stage = "idle"
          BY DEF MutexInv, NoLostWakeup
    <3>2. QED BY <1>3, <2>1, <3>1, OthersWakeInside DEF InsideInv, RunsInside, Startable
  <2>2. CASE BeginStartup
    <3>1. Inside(agenda')
          BY <2>2, InsideOne DEF BeginStartup
    <3>2. QED BY <2>2, <3>1, HolderAssumption DEF BeginStartup, InsideInv, RunsInside
  <2>3. ASSUME NEW c \in Client, NEW m, BeginStop(c, m) PROVE InsideInv'
    <3> DEFINE x == SubSeq(Chain(state), 1, Len(Chain(state)) - 1)
    <3>1. x \in Seq(Vertex)
          BY VertexTableTypes DEF TypeOK
    <3>2. agenda' = Exits(x) \o <<ToDo("halt", Root)>>
          BY <2>3 DEF BeginStop
    <3> HIDE DEF x
    <3>3. Exits(x) \in Seq(Op) /\ <<ToDo("halt", Root)>> \in Seq(Op)
          BY <3>1, PathOps, OneOp, TableNames DEF VertexOp, OpName
    <3>4. Inside(Exits(x)) /\ Inside(<<ToDo("halt", Root)>>)
          BY InsidePlain, InsideOne DEF Exits, ToDo
    <3>5. Inside(agenda')
          BY <3>2, <3>3, <3>4, InsideJoin
    <3>6. holder' # Process /\ stage' = "run"
          BY <2>3, HolderAssumption DEF BeginStop
    <3>7. QED BY <3>5, <3>6 DEF InsideInv, RunsInside
  <2>4. QED BY <1>3, <2>1, <2>2, <2>3, OthersStandBy
<1>4. QED BY <1>2, <1>3

(***************************************************************************)
(* _start and _process: whoever runs the loop does so for a machine in a   *)
(* state below its model.                                                  *)
(***************************************************************************)
THEOREM InsideInvariant ==
    ASSUME PointsEnter, ModelLeads PROVE Spec /\ []HistoryLeads => []InsideInv
<1>1. Init => InsideInv
      BY HolderAssumption DEF Init, InsideInv, Inside, RunsInside
<1>2. TypeOK /\ MutexInv /\ StatesInv /\ InsideInv /\ HistoryLeads /\ [Next]_vars => InsideInv'
  <2> SUFFICES ASSUME TypeOK, MutexInv, StatesInv, InsideInv, HistoryLeads, [Next]_vars
               PROVE  InsideInv'
      OBVIOUS
  <2>1. CASE UNCHANGED vars
        BY <2>1 DEF vars, machineVars, runVars, workVars, stateVars, InsideInv, RunsInside, Inside
  <2>2. CASE Next
        BY <2>2, InsideLoop, InsideExecutor, InsideOthers DEF Next, HolderStep, OthersMove
  <2>3. QED BY <2>1, <2>2
<1>3. QED BY <1>1, <1>2, TypeCorrect, MutexInvariant, StatesInvariant, PTL DEF Spec

(***************************************************************************)
(* A machine that is stopped                                               *)
(***************************************************************************)
\* When stop() has left the states, no activity is left.
LEMMA HaltedQuiet ==
    ASSUME TypeOK, ConfigInv, ActivityInv, faults = 0, StopFinish, NEW t \in TaskId
    PROVE  task[t].status = "done"
<1>1. stage = "run" /\ agenda # << >> /\ Head(agenda).op = "halt" /\ waitOn = None
      BY DEF StopFinish, Doing, Running
<1>2. PICK tip, m \in StateVertex : EnteredAt(tip) /\ Moves(tip, Head(agenda), m)
      BY <1>1, ConfigHead
<1>3. tip = Root
      BY <1>1, <1>2 DEF Moves
<1>4. \A v \in StateVertex \ {Root} : balance[v] = 0
      BY <1>2, <1>3, ActiveRoot DEF EnteredAt
<1>5. Filed /\ Tasks
      BY DEF ActivityInv
<1>6. \A a \in Activity : active[a] = None
      BY <1>4, <1>5 DEF Filed, FiledAt, Homes
<1>7. QED BY <1>1, <1>5, <1>6, HolderAssumption DEF Tasks, Unfinished

\* Nobody disturbs a machine that is stopped, short of starting it.
LEMMA StoppedLeftAlone ==
    ASSUME MutexInv, OthersMove, Bystander, Startable
    PROVE  UNCHANGED <<lifo, fifo, registered>>
<1> USE DEF machineVars, queueVars, runVars, workVars, eventVars, stateVars, restVars, lifeVars,
            TaskEnds, CallBecomes, Startable
<1>1. holder = Free /\ stage = "idle"
      BY DEF MutexInv, NoLostWakeup
<1>2. ~BeginStartup /\ \A c, m : ~BeginStop(c, m)
      BY <1>1 DEF BeginStartup, BeginStop, Bystander
<1>3. ASSUME NEW t \in TaskId, TaskStep(t) PROVE UNCHANGED <<lifo, fifo, registered>>
      BY <1>1, <1>3 DEF TaskStep, TaskFinishes, TaskCancelled, TaskFails, TaskCleanup
<1>4. ASSUME NEW c \in Client, CallStep(c) PROVE UNCHANGED <<lifo, fifo, registered>>
      BY <1>1, <1>2, <1>4 DEF CallStep, StopRetry, StopReturns, RestartStarts, RestartFails,
                              RestartAbandoned, StopWaits
<1>5. CASE ClientStep
      BY <1>1, <1>2, <1>5 DEF ClientStep, Start, ParentEnds, Dispatch, StopCall, StopWaits
<1>6. ASSUME NEW i \in EventId, WaitBegins(i) PROVE UNCHANGED <<lifo, fifo, registered>>
      BY <1>6 DEF WaitBegins
<1>7. QED BY <1>3, <1>4, <1>5, <1>6 DEF OthersMove

LEMMA QuietNext ==
    ASSUME HistoryLeads, TypeOK, MutexInv, ConfigInv, ActivityInv, InsideInv, StoppedIsQuiet, Next
    PROVE  StoppedIsQuiet'
<1> SUFFICES ASSUME Startable', faults' = 0
             PROVE  QueueEmpty' /\ (\A t \in TaskId : ~Unfinished(t))' /\ registered' = FALSE
    BY DEF StoppedIsQuiet
<1> USE DEF queueVars, runVars, workVars, eventVars, stateVars, restVars, Continue, GoTo, lifeVars,
            taskVars
<1>1. state' = Root /\ holder' = Free
      BY DEF Startable
<1>2. ~ProcessStep
  <2>1. ASSUME PopDeferred \/ PopEvent \/ TakeTransition \/ GuardFails \/ HandlerRuns
                   \/ NoTransition \/ NoResult \/ Arrive \/ Replay \/ Replayed \/ Drain \/ PutBack
        PROVE  holder' = holder /\ stage # "idle"
        BY <2>1 DEF PopDeferred, PopEvent, TakeTransition, GuardFails, HandlerRuns, NextCandidate,
                    NoTransition, NoResult, Unhandled, Arrive, Replay, Replayed, Drain, PutBack,
                    Running, Doing, InGuard, HandlerNext
  <2>2. ~Finish
        BY <1>1, Busy DEF Finish, Running, InsideInv, RunsInside
  <2>3. QED BY <1>1, <2>1, <2>2, Busy DEF ProcessStep
<1>3. ~TransitionStep
  <2>1. TransitionStep => holder' = holder /\ stage # "idle"
    <3>1. SpawnFails => holder' = holder /\ stage # "idle"
          BY Busy DEF SpawnFails, File, Doing, Running, Accept
    <3>2. Resume => holder' = holder /\ stage # "idle"
          BY DEF Resume, MutexInv, NoLostWakeup, OneOwner
    <3>3. Terminate => holder' = holder /\ stage # "idle"
          BY DEF Terminate, Doing, Running
    <3>4. Effect \/ EnterFinal \/ EnterSimple \/ EnterInitial => holder' = holder /\ stage # "idle"
          BY DEF Effect, EnterFinal, EnterSimple, EnterInitial, Doing, Running
    <3>5. EnterState \/ EnterPseudo \/ EnterHistory => holder' = holder /\ stage # "idle"
          BY DEF EnterState, EnterPseudo, EnterHistory, Doing, Running
    <3>6. NoBranch \/ Spawn \/ Leave => holder' = holder /\ stage # "idle"
          BY DEF NoBranch, Spawn, File, Leave, Doing, Running
    <3>7. QED BY <3>1, <3>2, <3>3, <3>4, <3>5, <3>6 DEF TransitionStep
  <2>2. QED BY <1>1, <2>1, Busy
<1>4. ~Raise
      BY DEF Raise, TypeOK
<1>5. CASE StopFinish
  <2>1. \A t \in TaskId : task[t].status = "done"
        BY <1>5, HaltedQuiet DEF StopFinish
  <2>2. QED BY <1>5, <2>1 DEF StopFinish, ClearQueue, QueueEmpty, Unfinished
<1>6. CASE OthersMove
  <2>1. ~BeginStartup /\ \A c \in Client : \A m : ~BeginStop(c, m)
        BY <1>1, HolderAssumption DEF BeginStartup, BeginStop
  <2>2. Bystander
        BY <1>6, <2>1, OthersStandBy
  <2>3. UNCHANGED <<holder, state, faults>>
        BY <1>1, <1>6, <2>2, OthersWakeInside, HolderAssumption DEF Bystander
  <2>4. Startable /\ faults = 0
        BY <1>1, <2>3 DEF Startable
  <2>5. UNCHANGED <<lifo, fifo, registered>>
        BY <1>6, <2>2, <2>4, StoppedLeftAlone
  <2>6. \A t \in TaskId : GoesOn(t)
        BY <1>6, OthersGoOn
  <2>7. \A t \in TaskId : Unfinished(t)' => Unfinished(t)
        BY <2>6 DEF GoesOn, Unfinished
  <2>8. QED BY <2>4, <2>5, <2>7 DEF StoppedIsQuiet, QueueEmpty, TypeOK
<1>7. QED BY <1>2, <1>3, <1>4, <1>5, <1>6 DEF Next, HolderStep, OthersMove

(***************************************************************************)
(* _stop and dispatch: as long as no callback raises and no empty history  *)
(* is entered, a machine in its model has nothing queued, no activity and  *)
(* no entry in the registry, however often it was started and stopped.     *)
(***************************************************************************)
THEOREM StoppedMachineIsQuiet ==
    ASSUME PointsEnter, PointsJoin, ActivitiesApart, ModelLeads
    PROVE  Spec /\ []HistoryLeads => []StoppedIsQuiet
<1>1. Init => StoppedIsQuiet
      BY DEF Init, StoppedIsQuiet, QueueEmpty, Unfinished
<1>2. HistoryLeads /\ TypeOK /\ MutexInv /\ ConfigInv /\ ActivityInv /\ InsideInv
          /\ StoppedIsQuiet /\ [Next]_vars => StoppedIsQuiet'
  <2> SUFFICES ASSUME HistoryLeads, TypeOK, MutexInv, ConfigInv, ActivityInv, InsideInv,
                      StoppedIsQuiet, [Next]_vars
               PROVE  StoppedIsQuiet'
      OBVIOUS
  <2>1. CASE UNCHANGED vars
        BY <2>1 DEF vars, machineVars, queueVars, runVars, stateVars, taskVars, lifeVars,
                    StoppedIsQuiet, Startable, QueueEmpty, Unfinished
  <2>2. QED BY <2>1, QuietNext
<1>3. QED BY <1>1, <1>2, TypeCorrect, MutexInvariant, ConfigurationInvariant, ActivityInvariant,
             InsideInvariant, PTL DEF Spec
=============================================================================
