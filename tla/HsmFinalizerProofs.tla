-------------------------- MODULE HsmFinalizerProofs --------------------------
(***************************************************************************)
(* That the tables of DefaultModelFinalizer are right for every chart.     *)
(***************************************************************************)
EXTENDS HsmFinalizerCheck, SequenceTheorems, FiniteSetTheorems, WellFoundedInduction, TLAPS

(***************************************************************************)
(* Induction, as the least of the numbers that have a property, and what   *)
(* the recursive functions of sequences compute.                           *)
(***************************************************************************)
\* A set of numbers that is not empty has a least one.
LEMMA Least ==
    ASSUME NEW T \in SUBSET Nat, T # {}
    PROVE  \E n \in T : \A k \in T : n <= k
<1>1. PICK n \in T : \A k \in T : ~(<<k, n>> \in OpToRel(<, Nat))
  BY NatLessThanWellFounded, WFMin
<1>2. \A k \in T : ~(k < n)
  BY <1>1 DEF OpToRel
<1> QED
  BY <1>2

\* f is the function of Only(s, keep).
Filters(f, s, keep) ==
    /\ f[0] = << >>
    /\ \A i \in 1 .. Len(s) :
           f[i] = IF s[i] \in keep THEN Append(f[i - 1], s[i]) ELSE f[i - 1]
    /\ f[Len(s)] = Only(s, keep)

\* The recursion of Only ends: its function is defined up to any length.
LEMMA OnlyUpTo ==
    ASSUME NEW S, NEW s \in Seq(S), NEW keep
    PROVE  \E f \in [0 .. Len(s) -> Seq(S \cap keep)] : Filters(f, s, keep)
<1> DEFINE Q == Seq(S \cap keep)
           Body(f, i) == IF i = 0 THEN << >>
                         ELSE IF s[i] \in keep THEN Append(f[i - 1], s[i]) ELSE f[i - 1]
           Good(f, n) == \A i \in 0 .. n : f[i] = Body(f, i)
           Bad == {n \in 0 .. Len(s) : ~ \E f \in [0 .. n -> Q] : Good(f, n)}
<1>0. /\ Len(s) \in Nat
      /\ \A i \in 1 .. Len(s) : s[i] \in S
  OBVIOUS
<1>1. ASSUME NEW n \in Bad, \A k \in Bad : n <= k PROVE FALSE
  <2>1. CASE n = 0
    <3> DEFINE f == [i \in 0 .. 0 |-> << >>]
    <3>1. f \in [0 .. 0 -> Q] /\ Good(f, 0)
      OBVIOUS
    <3> QED
      BY <2>1, <3>1
  <2>2. CASE n # 0
    <3>0. n \in 1 .. Len(s) /\ n - 1 \in 0 .. Len(s)
      BY <1>0, <2>2
    <3>1. n - 1 \notin Bad
      <4> HIDE DEF Bad
      <4> QED  BY <1>1, <3>0
    <3>2. PICK g \in [0 .. n - 1 -> Q] : Good(g, n - 1)
      BY <3>0, <3>1
    <3> DEFINE f == [i \in 0 .. n |-> IF i = n THEN Body(g, n) ELSE g[i]]
    <3>3. g[n - 1] \in Q /\ s[n] \in S
      BY <1>0, <3>0, <3>2
    <3>4. Body(g, n) \in Q
      BY <3>3, <2>2
    <3>5. f \in [0 .. n -> Q]
      BY <3>4, <3>2, <1>0
    <3>6. ASSUME NEW i \in 0 .. n PROVE f[i] = Body(f, i)
      <4>1. f[i] = IF i = n THEN Body(g, n) ELSE g[i]
        OBVIOUS
      <4>2. i > 0 => f[i - 1] = g[i - 1]
        BY <3>0
      <4>3. i \in 0 .. n - 1 \/ i = n
        BY <3>0
      <4>4. i \in 0 .. n - 1 => g[i] = Body(g, i)
        BY <3>2
      <4>5. Body(f, i) = Body(g, i)
        <5> HIDE DEF f
        <5> QED  BY <4>2
      <4> HIDE DEF f, Body
      <4> QED  BY <4>1, <4>3, <4>4, <4>5
    <3> QED
      BY <3>5, <3>6, <1>1
  <2> QED
    BY <2>1, <2>2
<1>2. Bad = {}
  <2>1. Bad \in SUBSET Nat
    BY <1>0
  <2> HIDE DEF Bad
  <2> QED
    BY <1>1, <2>1, Least
<1>3. PICK g \in [0 .. Len(s) -> Q] : Good(g, Len(s))
  <2>1. Len(s) \in 0 .. Len(s) /\ Len(s) \notin Bad
    <3> HIDE DEF Bad
    <3> QED  BY <1>2, <1>0
  <2> QED
    BY <2>1
<1> DEFINE f == CHOOSE f : f = [i \in 0 .. Len(s) |-> Body(f, i)]
<1>4. g = [i \in 0 .. Len(s) |-> Body(g, i)]
  BY <1>3
<1>5. f = [i \in 0 .. Len(s) |-> Body(f, i)]
  BY <1>4
<1>6. Only(s, keep) = f[Len(s)]
  BY DEF Only
<1> HIDE DEF f
<1> DEFINE Off == {n \in 0 .. Len(s) : f[n] \notin Q}
<1>7. ASSUME NEW n \in Off, \A k \in Off : n <= k PROVE FALSE
  <2>1. n # 0 => f[n - 1] \in Q
    <3> SUFFICES ASSUME n # 0, n - 1 \in Off PROVE FALSE
      BY <1>0
    <3> HIDE DEF Off
    <3>1. n <= n - 1
      BY <1>7
    <3>2. n \in 0 .. Len(s)
      BY DEF Off
    <3> QED
      BY <3>1, <3>2, <1>0
  <2>2. f[n] = Body(f, n)
    BY <1>5
  <2>3. n # 0 => s[n] \in S
    BY <1>0
  <2>4. Body(f, n) \in Q
    <3>1. CASE n = 0
      BY <3>1
    <3>2. CASE n # 0
      BY <2>1, <2>3, <3>2
    <3> QED  BY <3>1, <3>2
  <2> QED
    BY <2>2, <2>4
<1>8. Off = {}
  <2>1. Off \in SUBSET Nat
    BY <1>0
  <2> HIDE DEF Off
  <2> QED
    BY <1>7, <2>1, Least
<1>9. f \in [0 .. Len(s) -> Q]
  BY <1>5, <1>8
<1>10. f[0] = << >>
  <2>1. 0 \in 0 .. Len(s)
    BY <1>0
  <2>2. f[0] = Body(f, 0)
    BY <1>5, <2>1
  <2> QED
    BY <2>2
<1>11. ASSUME NEW i \in 1 .. Len(s)
       PROVE  f[i] = IF s[i] \in keep THEN Append(f[i - 1], s[i]) ELSE f[i - 1]
  <2>1. i \in 0 .. Len(s) /\ i # 0
    BY <1>0
  <2>2. f[i] = Body(f, i)
    BY <1>5, <2>1
  <2> QED
    BY <2>1, <2>2
<1> QED
  BY <1>6, <1>9, <1>10, <1>11 DEF Filters

\* x has the elements of s that are in keep, and no others.
Kept(x, s, S, keep) ==
    /\ x \in Seq(S \cap keep)
    /\ \A i \in DOMAIN x : \E j \in DOMAIN s : s[j] = x[i]
    /\ \A j \in DOMAIN s : s[j] \in keep => \E i \in DOMAIN x : x[i] = s[j]

LEMMA OnlyKeeps ==
    ASSUME NEW S, NEW s \in Seq(S), NEW keep
    PROVE  Kept(Only(s, keep), s, S, keep)
<1>0. Len(s) \in Nat /\ DOMAIN s = 1 .. Len(s) /\ \A i \in 1 .. Len(s) : s[i] \in S
  OBVIOUS
<1> DEFINE Q == Seq(S \cap keep)
<1>a. PICK f \in [0 .. Len(s) -> Q] : Filters(f, s, keep)
  BY OnlyUpTo
<1>1. /\ f[0] = << >>
      /\ \A i \in 1 .. Len(s) :
             f[i] = IF s[i] \in keep THEN Append(f[i - 1], s[i]) ELSE f[i - 1]
      /\ f[Len(s)] = Only(s, keep)
      /\ f \in [0 .. Len(s) -> Q]
  BY <1>a DEF Filters
<1> DEFINE From(n) == \A i \in DOMAIN f[n] : \E j \in 1 .. n : s[j] = f[n][i]
           To(n)   == \A j \in 1 .. n : s[j] \in keep => \E i \in DOMAIN f[n] : f[n][i] = s[j]
           Bad     == {n \in 0 .. Len(s) : ~ (From(n) /\ To(n))}
<1>2. ASSUME NEW n \in Bad, \A k \in Bad : n <= k PROVE FALSE
  <2>0. n \in 0 .. Len(s) /\ ~ (From(n) /\ To(n))
    OBVIOUS
  <2>1. CASE n = 0
    <3>1. f[n] = << >>
      BY <2>1, <1>1
    <3>2. From(n) /\ To(n)
      BY <2>1, <3>1
    <3> HIDE DEF From, To
    <3> QED  BY <2>0, <3>2
  <2> HIDE DEF From, To
  <2>2. CASE n # 0
    <3>1. n \in 1 .. Len(s) /\ n - 1 \in 0 .. Len(s)
      BY <2>0, <2>2, <1>0
    <3>2. n - 1 \notin Bad
      <4> HIDE DEF Bad
      <4> QED  BY <1>2, <3>1
    <3>3. From(n - 1) /\ To(n - 1)
      BY <3>1, <3>2
    <3>4. f[n - 1] \in Q /\ s[n] \in S /\ f[n] \in Q
      BY <3>1, <1>0, <1>1
    <3>5. CASE s[n] \notin keep
      <4>1. f[n] = f[n - 1]
        BY <3>1, <3>5, <1>1
      <4>2. From(n)
        BY <4>1, <3>1, <3>3 DEF From
      <4>3. To(n)
        BY <4>1, <3>1, <3>3, <3>5 DEF To
      <4> QED  BY <4>2, <4>3, <2>0
    <3>6. CASE s[n] \in keep
      <4>1. f[n] = Append(f[n - 1], s[n])
        BY <3>1, <3>6, <1>1
      <4>2. /\ DOMAIN f[n] = 1 .. Len(f[n - 1]) + 1
            /\ DOMAIN f[n - 1] = 1 .. Len(f[n - 1])
            /\ Len(f[n - 1]) \in Nat
            /\ f[n][Len(f[n - 1]) + 1] = s[n]
            /\ \A i \in 1 .. Len(f[n - 1]) : f[n][i] = f[n - 1][i]
        BY <4>1, <3>4, <3>6
      <4>3. From(n)
        <5> SUFFICES ASSUME NEW i \in DOMAIN f[n] PROVE \E j \in 1 .. n : s[j] = f[n][i]
          BY DEF From
        <5>1. CASE i = Len(f[n - 1]) + 1
          BY <5>1, <4>2, <3>1
        <5>2. CASE i # Len(f[n - 1]) + 1
          <6>1. i \in DOMAIN f[n - 1] /\ f[n][i] = f[n - 1][i]
            BY <5>2, <4>2
          <6>2. PICK j \in 1 .. n - 1 : s[j] = f[n - 1][i]
            BY <6>1, <3>3 DEF From
          <6> QED  BY <6>1, <6>2, <3>1
        <5> QED  BY <5>1, <5>2
      <4>4. To(n)
        <5> SUFFICES ASSUME NEW j \in 1 .. n, s[j] \in keep
                     PROVE  \E i \in DOMAIN f[n] : f[n][i] = s[j]
          BY DEF To
        <5>1. CASE j = n
          BY <5>1, <4>2
        <5>2. CASE j # n
          <6>1. j \in 1 .. n - 1
            BY <5>2, <3>1
          <6>2. PICK i \in DOMAIN f[n - 1] : f[n - 1][i] = s[j]
            BY <6>1, <3>3 DEF To
          <6> QED  BY <6>2, <4>2
        <5> QED  BY <5>1, <5>2
      <4> QED  BY <4>3, <4>4, <2>0
    <3> QED  BY <3>5, <3>6
  <2> QED  BY <2>1, <2>2
<1>3. Bad = {}
  <2>1. Bad \in SUBSET Nat
    BY <1>0
  <2> HIDE DEF Bad
  <2> QED  BY <1>2, <2>1, Least
<1>4. From(Len(s)) /\ To(Len(s))
  <2>1. Len(s) \in 0 .. Len(s) /\ Len(s) \notin Bad
    <3> HIDE DEF Bad
    <3> QED  BY <1>0, <1>3
  <2> QED  BY <2>1
<1>5. Only(s, keep) \in Q
  BY <1>0, <1>1
<1> DEFINE x == Only(s, keep)
<1>6. x \in Q /\ x = f[Len(s)]
  BY <1>1, <1>5
<1> HIDE DEF x
<1>7. Kept(x, s, S, keep)
  BY <1>0, <1>4, <1>6 DEF Kept
<1> QED  BY <1>7 DEF x

\* Its head is the first of them.
LEMMA OnlyFirst ==
    ASSUME NEW S, NEW s \in Seq(S), NEW keep
    PROVE  IF Only(s, keep) = << >> THEN \A j \in DOMAIN s : s[j] \notin keep
           ELSE \E j \in DOMAIN s : /\ s[j] \in keep /\ Head(Only(s, keep)) = s[j]
                                    /\ \A i \in 1 .. j - 1 : s[i] \notin keep
<1>0. Len(s) \in Nat /\ DOMAIN s = 1 .. Len(s) /\ \A i \in 1 .. Len(s) : s[i] \in S
  OBVIOUS
<1> DEFINE Q == Seq(S \cap keep)
           x == Only(s, keep)
<1>1. PICK f \in [0 .. Len(s) -> Q] : Filters(f, s, keep)
  BY OnlyUpTo
<1>2. Kept(x, s, S, keep)
  BY OnlyKeeps
<1> HIDE DEF x
<1>3. /\ x \in Q
      /\ \A i \in DOMAIN x : \E j \in DOMAIN s : s[j] = x[i]
      /\ \A j \in DOMAIN s : s[j] \in keep => \E i \in DOMAIN x : x[i] = s[j]
  BY <1>2 DEF Kept
<1>4. CASE x = << >>
  <2>1. \A j \in DOMAIN s : s[j] \notin keep
    BY <1>3, <1>4
  <2> QED  BY <1>4, <2>1 DEF x
<1>5. CASE x # << >>
  <2> DEFINE T == {j \in 1 .. Len(s) : s[j] \in keep}
  <2>1. x[1] \in keep /\ 1 \in DOMAIN x
    BY <1>3, <1>5
  <2>2. PICK j \in DOMAIN s : s[j] = x[1]
    BY <1>3, <2>1
  <2>3. j \in T
    BY <1>0, <2>1, <2>2
  <2>4. PICK first \in T : \A k \in T : first <= k
    <3>1. T \in SUBSET Nat
      BY <1>0
    <3> HIDE DEF T
    <3> QED  BY <2>3, <3>1, Least
  <2>5. first \in 1 .. Len(s) /\ s[first] \in keep /\ \A i \in 1 .. first - 1 : s[i] \notin keep
    <3>1. first \in 1 .. Len(s) /\ s[first] \in keep
      OBVIOUS
    <3>2. ASSUME NEW i \in 1 .. first - 1 PROVE i \notin T /\ i \in 1 .. Len(s)
      <4>1. i \in 1 .. Len(s) /\ ~(first <= i)
        BY <1>0, <3>1
      <4> HIDE DEF T
      <4> QED  BY <2>4, <4>1
    <3> QED  BY <3>1, <3>2
  <2> HIDE DEF T
  <2> DEFINE Good(n) == IF n < first THEN f[n] = << >> ELSE f[n] # << >> /\ f[n][1] = s[first]
             Bad == {n \in 0 .. Len(s) : ~Good(n)}
  <2>6. ASSUME NEW n \in Bad, \A k \in Bad : n <= k PROVE FALSE
    <3>0. n \in 0 .. Len(s) /\ ~Good(n)
      OBVIOUS
    <3>1. CASE n = 0
      BY <3>0, <3>1, <1>1, <2>5 DEF Filters
    <3>2. CASE n # 0
      <4>1. n \in 1 .. Len(s) /\ n - 1 \in 0 .. Len(s)
        BY <1>0, <3>0, <3>2
      <4>2. n - 1 \notin Bad
        <5> HIDE DEF Bad
        <5> QED  BY <2>6, <4>1, <3>0
      <4>3. Good(n - 1)
        BY <4>1, <4>2
      <4>4. /\ f[n] = IF s[n] \in keep THEN Append(f[n - 1], s[n]) ELSE f[n - 1]
            /\ f[n - 1] \in Q
        BY <4>1, <1>1 DEF Filters
      <4>5. CASE n < first
        <5>1. n \in 1 .. first - 1 /\ n - 1 < first
          BY <4>1, <4>5, <2>5
        <5> QED  BY <5>1, <4>3, <4>4, <4>5, <2>5, <3>0
      <4>6. CASE n = first
        <5>1. n - 1 < first
          BY <4>1, <4>6
        <5>2. f[n - 1] = << >> /\ f[n] = Append(f[n - 1], s[n])
          BY <5>1, <4>3, <4>4, <4>6, <2>5
        <5>3. f[n] # << >> /\ f[n][1] = s[n]
          BY <5>2
        <5> QED  BY <5>3, <4>6, <3>0, <2>5
      <4>7. CASE n > first
        <5>1. ~(n - 1 < first) /\ ~(n < first)
          BY <4>1, <4>7, <2>5
        <5>2. f[n - 1] # << >> /\ f[n - 1][1] = s[first]
          BY <5>1, <4>3
        <5>3. f[n] # << >> /\ f[n][1] = f[n - 1][1]
          <6>1. CASE s[n] \notin keep
            BY <6>1, <4>4, <5>2
          <6>2. CASE s[n] \in keep
            <7>1. Len(f[n - 1]) \in Nat \ {0}
              BY <4>4, <5>2
            <7> QED  BY <6>2, <7>1, <4>4
          <6> QED  BY <6>1, <6>2
        <5> QED  BY <5>1, <5>2, <5>3, <3>0
      <4> QED  BY <4>1, <4>5, <4>6, <4>7, <2>5
    <3> QED  BY <3>1, <3>2
  <2>7. Bad = {}
    <3>1. Bad \in SUBSET Nat
      BY <1>0
    <3> HIDE DEF Bad
    <3> QED  BY <2>6, <3>1, Least
  <2>8. Good(Len(s))
    <3>1. Len(s) \in 0 .. Len(s) /\ Len(s) \notin Bad
      <4> HIDE DEF Bad
      <4> QED  BY <1>0, <2>7
    <3> QED  BY <3>1
  <2>9. f[Len(s)] = x
    BY <1>1 DEF Filters, x
  <2>10. x[1] = s[first]
    BY <2>5, <2>8, <2>9, <1>0
  <2>11. Head(x) = s[first] /\ first \in DOMAIN s
    BY <1>0, <2>5, <2>10
  <2> QED  BY <1>5, <2>5, <2>11 DEF x
<1> QED  BY <1>4, <1>5

\* x has the elements of the first j of the parts ss, one part after another.
Joined(x, ss, S, j) ==
    /\ x \in Seq(S)
    /\ \E part \in [DOMAIN x -> 1 .. j] :
           /\ \A i \in DOMAIN x : \E k \in DOMAIN ss[part[i]] : ss[part[i]][k] = x[i]
           /\ \A h, i \in DOMAIN x : h <= i => part[h] <= part[i]
    /\ \A l \in 1 .. j : \A k \in DOMAIN ss[l] : \E i \in DOMAIN x : x[i] = ss[l][k]

LEMMA JoinNone == ASSUME NEW S, NEW ss PROVE Joined(<< >>, ss, S, 0)
<1> DEFINE part == [i \in DOMAIN << >> |-> 0]
<1>1. DOMAIN << >> = {} /\ << >> \in Seq(S) /\ 1 .. 0 = {}
  OBVIOUS
<1>2. part \in [DOMAIN << >> -> 1 .. 0]
  BY <1>1
<1> HIDE DEF part
<1> QED  BY <1>1, <1>2 DEF Joined

LEMMA JoinNext ==
    ASSUME NEW S, NEW ss, NEW j \in Nat \ {0}, ss[j] \in Seq(S), NEW x, Joined(x, ss, S, j - 1)
    PROVE  Joined(x \o ss[j], ss, S, j)
<1> DEFINE y == x \o ss[j]
           n == Len(x)
<1>1. PICK part \in [DOMAIN x -> 1 .. j - 1] :
          /\ \A i \in DOMAIN x : \E k \in DOMAIN ss[part[i]] : ss[part[i]][k] = x[i]
          /\ \A h, i \in DOMAIN x : h <= i => part[h] <= part[i]
  BY DEF Joined
<1>2. /\ x \in Seq(S)
      /\ \A l \in 1 .. j - 1 : \A k \in DOMAIN ss[l] : \E i \in DOMAIN x : x[i] = ss[l][k]
  BY DEF Joined
<1>3. /\ y \in Seq(S) /\ n \in Nat /\ Len(ss[j]) \in Nat
      /\ DOMAIN x = 1 .. n /\ DOMAIN ss[j] = 1 .. Len(ss[j])
      /\ DOMAIN y = 1 .. n + Len(ss[j])
      /\ \A i \in 1 .. n : y[i] = x[i]
      /\ \A i \in 1 .. Len(ss[j]) : y[n + i] = ss[j][i]
  BY <1>2
<1> HIDE DEF y, n
<1> DEFINE to == [i \in DOMAIN y |-> IF i \in DOMAIN x THEN part[i] ELSE j]
<1>4. \A i \in DOMAIN x : i \in DOMAIN y /\ to[i] = part[i] /\ part[i] \in 1 .. j - 1 /\ y[i] = x[i]
  BY <1>1, <1>3
<1>5. \A i \in DOMAIN y \ DOMAIN x : /\ to[i] = j /\ i - n \in DOMAIN ss[j]
                                     /\ y[i] = ss[j][i - n] /\ i > n
  <2> SUFFICES ASSUME NEW i \in DOMAIN y \ DOMAIN x
               PROVE  /\ to[i] = j /\ i - n \in DOMAIN ss[j]
                      /\ y[i] = ss[j][i - n] /\ i > n
    OBVIOUS
  <2>1. i - n \in 1 .. Len(ss[j]) /\ n + (i - n) = i /\ i > n
    BY <1>3
  <2>2. y[n + (i - n)] = ss[j][i - n]
    BY <1>3, <2>1
  <2> QED  BY <1>3, <2>1, <2>2
<1> HIDE DEF to
<1>6. to \in [DOMAIN y -> 1 .. j]
  <2>1. \A i \in DOMAIN y : to[i] \in 1 .. j
    BY <1>4, <1>5
  <2> QED  BY <2>1 DEF to
<1>7. \A i \in DOMAIN y : \E k \in DOMAIN ss[to[i]] : ss[to[i]][k] = y[i]
  BY <1>1, <1>4, <1>5
<1>8. ASSUME NEW h \in DOMAIN y, NEW i \in DOMAIN y, h <= i PROVE to[h] <= to[i]
  <2>1. CASE i \in DOMAIN x
    <3>1. h \in DOMAIN x
      BY <1>3, <1>8, <2>1
    <3> QED  BY <1>1, <1>4, <1>8, <2>1, <3>1
  <2>2. CASE i \notin DOMAIN x
    BY <1>5, <1>6, <2>2
  <2> QED  BY <2>1, <2>2
<1>9. ASSUME NEW l \in 1 .. j, NEW k \in DOMAIN ss[l] PROVE \E i \in DOMAIN y : y[i] = ss[l][k]
  <2>1. CASE l = j
    <3>1. k \in 1 .. Len(ss[j]) /\ n + k \in DOMAIN y
      BY <1>3, <2>1
    <3>2. y[n + k] = ss[l][k]
      BY <1>3, <2>1, <3>1
    <3> QED  BY <3>1, <3>2
  <2>2. CASE l # j
    <3>1. PICK i \in DOMAIN x : x[i] = ss[l][k]
      BY <1>2, <2>2
    <3> QED  BY <3>1, <1>4
  <2> QED  BY <2>1, <2>2
<1>10. Joined(y, ss, S, j)
  BY <1>3, <1>6, <1>7, <1>8, <1>9 DEF Joined
<1> QED  BY <1>10 DEF y

\* FlattenSeq: its recursion ends, and it joins the parts.
LEMMA FlattenJoins ==
    ASSUME NEW S, NEW ss \in Seq(Seq(S))
    PROVE  Joined(FlattenSeq(ss), ss, S, Len(ss))
<1> DEFINE n == Len(ss)
           Body(f, i) == IF i = 1 THEN ss[i] ELSE f[i - 1] \o ss[i]
           Good(f, j) == \A i \in 1 .. j : f[i] = Body(f, i)
           Bad == {j \in 1 .. n : ~ \E f \in [1 .. j -> Seq(S)] : Good(f, j)}
<1>0. n \in Nat /\ DOMAIN ss = 1 .. n /\ \A j \in 1 .. n : ss[j] \in Seq(S)
  OBVIOUS
<1>1. CASE n = 0
  <2>1. FlattenSeq(ss) = << >>
    BY <1>1 DEF FlattenSeq
  <2>2. Joined(<< >>, ss, S, 0)
    BY JoinNone
  <2> QED  BY <1>1, <2>1, <2>2
<1>2. CASE n # 0
  <2>1. ASSUME NEW j \in Bad, \A k \in Bad : j <= k PROVE FALSE
    <3>0. j \in 1 .. n
      OBVIOUS
    <3>1. CASE j = 1
      <4> DEFINE f == [i \in 1 .. 1 |-> ss[1]]
      <4>1. f \in [1 .. 1 -> Seq(S)] /\ Good(f, 1)
        BY <1>0, <3>0, <3>1
      <4> QED  BY <4>1, <3>1
    <3>2. CASE j # 1
      <4>0. j - 1 \in 1 .. n
        BY <1>0, <3>0, <3>2
      <4>1. j - 1 \notin Bad
        <5> HIDE DEF Bad
        <5> QED  BY <2>1, <4>0, <3>0
      <4>2. PICK g \in [1 .. j - 1 -> Seq(S)] : Good(g, j - 1)
        BY <4>0, <4>1
      <4> DEFINE f == [i \in 1 .. j |-> IF i = j THEN Body(g, j) ELSE g[i]]
      <4>3. g[j - 1] \in Seq(S) /\ ss[j] \in Seq(S)
        BY <1>0, <4>0, <4>2
      <4>4. Body(g, j) \in Seq(S)
        BY <4>3, <3>2
      <4>5. f \in [1 .. j -> Seq(S)]
        BY <4>4, <4>2, <3>0, <1>0
      <4>6. ASSUME NEW i \in 1 .. j PROVE f[i] = Body(f, i)
        <5>1. f[i] = IF i = j THEN Body(g, j) ELSE g[i]
          OBVIOUS
        <5>2. i > 1 => f[i - 1] = g[i - 1]
          BY <4>0
        <5>3. i \in 1 .. j - 1 \/ i = j
          BY <4>0
        <5>4. i \in 1 .. j - 1 => g[i] = Body(g, i)
          BY <4>2
        <5>5. Body(f, i) = Body(g, i)
          <6> HIDE DEF f
          <6> QED  BY <5>2
        <5> HIDE DEF f, Body
        <5> QED  BY <5>1, <5>3, <5>4, <5>5
      <4> QED
        BY <4>5, <4>6
    <3> QED  BY <3>1, <3>2
  <2>2. Bad = {}
    <3>1. Bad \in SUBSET Nat
      BY <1>0
    <3> HIDE DEF Bad
    <3> QED  BY <2>1, <3>1, Least
  <2>3. n \in 1 .. n /\ n \notin Bad
    <3> HIDE DEF Bad
    <3> QED  BY <1>0, <1>2, <2>2
  <2>4. PICK g \in [1 .. n -> Seq(S)] : Good(g, n)
    BY <2>3
  <2> DEFINE f == CHOOSE f : f = [i \in 1 .. n |-> Body(f, i)]
  <2>5. g = [i \in 1 .. n |-> Body(g, i)]
    BY <2>4
  <2>6. f = [i \in 1 .. n |-> Body(f, i)]
    BY <2>5
  <2>7. FlattenSeq(ss) = f[n]
    BY <1>2 DEF FlattenSeq
  <2> HIDE DEF f
  <2> DEFINE Off == {j \in 1 .. n : ~Joined(f[j], ss, S, j)}
  <2>8. ASSUME NEW j \in Off, \A k \in Off : j <= k PROVE FALSE
    <3>0. j \in 1 .. n /\ ~Joined(f[j], ss, S, j) /\ ss[j] \in Seq(S) /\ j \in Nat \ {0}
      BY <1>0
    <3>1. f[j] = Body(f, j)
      BY <2>6, <3>0
    <3>2. CASE j = 1
      <4>1. Joined(<< >>, ss, S, j - 1)
        <5>1. j - 1 = 0
          BY <3>2
        <5> QED  BY <5>1, JoinNone
      <4>2. << >> \o ss[j] = f[j]
        BY <3>0, <3>1, <3>2
      <4> QED  BY <3>0, <4>1, <4>2, JoinNext
    <3>3. CASE j # 1
      <4>1. j - 1 \in 1 .. n
        BY <1>0, <3>0, <3>3
      <4>2. j - 1 \notin Off
        <5> HIDE DEF Off
        <5> QED  BY <2>8, <4>1, <3>0
      <4>3. Joined(f[j - 1], ss, S, j - 1)
        BY <4>1, <4>2
      <4>4. f[j] = f[j - 1] \o ss[j]
        BY <3>1, <3>3
      <4> QED  BY <3>0, <4>3, <4>4, JoinNext
    <3> QED  BY <3>2, <3>3
  <2>9. Off = {}
    <3>1. Off \in SUBSET Nat
      BY <1>0
    <3> HIDE DEF Off
    <3> QED  BY <2>8, <3>1, Least
  <2>10. n \notin Off
    <3> HIDE DEF Off
    <3> QED  BY <2>9
  <2>11. Joined(f[n], ss, S, n)
    BY <2>3, <2>10
  <2> QED
    BY <2>7, <2>11
<1> QED
  BY <1>1, <1>2, <1>0

(***************************************************************************)
(* Chains                                                                  *)
(***************************************************************************)
\* The chain of v is v and then the chain of its parent.
StepsUp(m, v) ==
    /\ Chain(m, v) \in Seq(m.vertex) /\ Chain(m, Top) = << >>
    /\ Dirname(m, v) \in States(m) \cup {Top}
    /\ v = m.root <=> Dirname(m, v) = Top
    /\ Chain(m, Dirname(m, v)) \in Seq(m.vertex)
    /\ Len(Chain(m, v)) = Len(Chain(m, Dirname(m, v))) + 1
    /\ Chain(m, v)[1] = v
    /\ \A i \in 1 .. Len(Chain(m, Dirname(m, v))) :
           Chain(m, v)[i + 1] = Chain(m, Dirname(m, v))[i]

LEMMA ChainStep ==
    ASSUME NEW m, IsTree(m), NEW v \in m.vertex
    PROVE  StepsUp(m, v)
<1>1. Chain(m, Top) = << >>
  BY DEF Chain
<1>2. Chain(m, v) \in Seq(m.vertex) /\ v # Top
  BY DEF IsTree
<1>3. CASE v = m.root
  <2>1. Chain(m, v) = <<v>> /\ Dirname(m, v) = Top
    BY <1>3 DEF IsTree, Dirname
  <2> QED  BY <1>1, <1>2, <1>3, <2>1 DEF StepsUp
<1>4. CASE v # m.root
  <2>1. /\ m.parent[v] \in States(m) /\ Dirname(m, v) = m.parent[v]
        /\ Chain(m, v) = <<v>> \o Chain(m, m.parent[v])
    BY <1>2, <1>4 DEF IsTree, Dirname
  <2>2. m.parent[v] \in m.vertex /\ m.parent[v] # Top
    BY <2>1 DEF States, IsTree
  <2>3. Chain(m, m.parent[v]) \in Seq(m.vertex)
    BY <2>2 DEF IsTree
  <2> QED  BY <1>1, <1>2, <1>4, <2>1, <2>2, <2>3 DEF StepsUp
<1> QED  BY <1>3, <1>4

\* The rest of a sequence from its place j on.
LEMMA Suffix ==
    ASSUME NEW S, NEW c \in Seq(S), NEW j \in 1 .. Len(c)
    PROVE  /\ SubSeq(c, j, Len(c)) \in Seq(S)
           /\ Len(SubSeq(c, j, Len(c))) = Len(c) - j + 1
           /\ \A k \in 1 .. Len(c) - j + 1 : SubSeq(c, j, Len(c))[k] = c[j - 1 + k]
<1>1. SubSeq(c, j, Len(c)) = [k \in 1 .. Len(c) - j + 1 |-> c[j + k - 1]]
  BY SMT
<1>2. Len(c) - j + 1 \in Nat
  OBVIOUS
<1>3. ASSUME NEW k \in 1 .. Len(c) - j + 1 PROVE c[j + k - 1] \in S /\ j + k - 1 = j - 1 + k
  OBVIOUS
<1> QED  BY <1>1, <1>2, <1>3

\* The chain of a vertex on the way up from v is the rest of that way.
LEMMA ChainRest ==
    ASSUME NEW m, IsTree(m), NEW v \in m.vertex,
           NEW i \in 1 .. Len(Chain(m, v))
    PROVE  /\ Chain(m, v)[i] \in m.vertex
           /\ Chain(m, Chain(m, v)[i]) = SubSeq(Chain(m, v), i, Len(Chain(m, v)))
<1> DEFINE c == Chain(m, v)
           n == Len(c)
           Bad == {j \in 1 .. n : Chain(m, c[j]) # SubSeq(c, j, n)}
<1>1. c \in Seq(m.vertex) /\ n \in Nat /\ \A j \in 1 .. n : c[j] \in m.vertex
  <2>1. c \in Seq(m.vertex)
    BY ChainStep DEF StepsUp
  <2> HIDE DEF c
  <2> QED  BY <2>1
<1>2. ASSUME NEW j \in Bad, \A k \in Bad : j <= k PROVE FALSE
  <2>0. j \in 1 .. n /\ Chain(m, c[j]) # SubSeq(c, j, n)
    OBVIOUS
  <2> HIDE DEF c
  <2>1. CASE j = 1
    <3>1. c[1] = v
      BY ChainStep DEF c, StepsUp
    <3>2. SubSeq(c, 1, n) = c
      BY <1>1
    <3> QED  BY <2>0, <2>1, <3>1, <3>2 DEF c
  <2>2. CASE j # 1
    <3>1. j - 1 \in 1 .. n
      BY <1>1, <2>0, <2>2
    <3>2. j - 1 \notin Bad
      <4> HIDE DEF Bad
      <4> QED  BY <1>2, <2>0, <3>1
    <3> DEFINE w == c[j - 1]
               d == Chain(m, w)
               e == Chain(m, Dirname(m, w))
    <3>3. w \in m.vertex /\ d = SubSeq(c, j - 1, n)
      BY <1>1, <3>1, <3>2
    <3>4. /\ Len(d) = n - j + 2
          /\ \A k \in 1 .. n - j + 2 : d[k] = c[j - 2 + k]
      BY <1>1, <2>0, <3>1, <3>3, SubSeqProperties
    <3>5. /\ e \in Seq(m.vertex) /\ Len(d) = Len(e) + 1
          /\ \A k \in 1 .. Len(e) : d[k + 1] = e[k]
          /\ Dirname(m, w) \in States(m) \cup {Top}
      <4>1. StepsUp(m, w)
        BY <3>3, ChainStep
      <4> QED  BY <4>1 DEF StepsUp
    <3>6. Len(e) = n - j + 1 /\ \A k \in 1 .. Len(e) : e[k] = c[j - 1 + k]
      <4> HIDE DEF d, e
      <4>1. Len(e) \in Nat
        BY <3>5
      <4>2. Len(e) = n - j + 1
        <5>1. Len(d) = n - j + 2 /\ Len(d) = Len(e) + 1
          BY <3>4, <3>5
        <5>2. n \in Nat /\ j \in Nat
          BY <2>0, <1>1
        <5> HIDE DEF n, Bad
        <5> QED  BY <4>1, <5>1, <5>2
      <4>3. ASSUME NEW k \in 1 .. Len(e) PROVE e[k] = c[j - 1 + k]
        <5>1. k + 1 \in 1 .. n - j + 2 /\ j - 2 + (k + 1) = j - 1 + k
          BY <4>2, <4>1, <2>0, <1>1
        <5>2. d[k + 1] = c[j - 2 + (k + 1)]
          BY <3>4, <5>1
        <5> QED  BY <5>1, <5>2, <3>5
      <4> QED  BY <4>2, <4>3
    <3>7. e = SubSeq(c, j, n)
      <4>1. /\ SubSeq(c, j, n) \in Seq(m.vertex) /\ Len(SubSeq(c, j, n)) = n - j + 1
            /\ \A k \in 1 .. n - j + 1 : SubSeq(c, j, n)[k] = c[j - 1 + k]
        BY <1>1, <2>0, Suffix
      <4> HIDE DEF d, e
      <4> QED  BY <3>5, <3>6, <4>1, SeqEqual
    <3>8. e[1] = c[j] /\ e # << >>
      BY <3>6, <2>0, <1>1
    <3>9. Dirname(m, w) \in m.vertex
      BY <3>5, <3>8, ChainStep DEF States, StepsUp
    <3>10. c[j] = Dirname(m, w)
      BY <3>8, <3>9, ChainStep DEF StepsUp
    <3> QED  BY <2>0, <3>7, <3>10
  <2> QED  BY <2>1, <2>2
<1>3. Bad = {}
  <2>1. Bad \in SUBSET Nat
    BY <1>1
  <2> HIDE DEF Bad
  <2> QED  BY <1>2, <2>1, Least
<1>4. i \notin Bad
  <2> HIDE DEF Bad
  <2> QED  BY <1>3
<1> QED  BY <1>1, <1>4

\* A chain goes up from parent to parent to the root, which comes last.
LEMMA ChainLinks ==
    ASSUME NEW m, IsTree(m), NEW v \in m.vertex
    PROVE  LET c == Chain(m, v)
           IN  /\ c \in Seq(m.vertex) /\ Len(c) \in Nat \ {0}
               /\ DOMAIN c = 1 .. Len(c)
               /\ c[1] = v /\ c[Len(c)] = m.root
               /\ \A i \in 2 .. Len(c) : c[i] = Dirname(m, c[i - 1]) /\ c[i] \in States(m)
               /\ \A i \in 1 .. Len(c) : c[i] = m.root <=> i = Len(c)
               /\ \A i, j \in 1 .. Len(c) : c[i] = c[j] => i = j
<1> DEFINE c == Chain(m, v)
           n == Len(c)
<1>1. /\ c \in Seq(m.vertex) /\ n \in Nat \ {0} /\ DOMAIN c = 1 .. n /\ c[1] = v
      /\ \A i \in 1 .. n : c[i] \in m.vertex
  <2>1. c \in Seq(m.vertex) /\ c[1] = v /\ Len(c) = Len(Chain(m, Dirname(m, v))) + 1
        /\ Chain(m, Dirname(m, v)) \in Seq(m.vertex)
    BY ChainStep DEF StepsUp
  <2>2. Len(Chain(m, Dirname(m, v))) \in Nat
    BY <2>1
  <2> HIDE DEF c
  <2> QED  BY <2>1, <2>2
<1>2. ASSUME NEW i \in 1 .. n
      PROVE  /\ Chain(m, c[i]) = SubSeq(c, i, n)
             /\ Len(Chain(m, c[i])) = n - i + 1
             /\ \A k \in 1 .. n - i + 1 : Chain(m, c[i])[k] = c[i - 1 + k]
  <2>1. Chain(m, c[i]) = SubSeq(c, i, n)
    BY ChainRest
  <2> QED  BY <2>1, <1>1, SubSeqProperties
<1>3. ASSUME NEW i \in 1 .. n, NEW j \in 1 .. n, c[i] = c[j] PROVE i = j
  <2> HIDE DEF c
  <2>1. n - i + 1 = n - j + 1
    BY <1>2, <1>3
  <2> QED  BY <2>1, <1>1
<1>4. ASSUME NEW i \in 1 .. n PROVE c[i] = m.root <=> i = n
  <2>1. /\ Len(Chain(m, c[i])) = Len(Chain(m, Dirname(m, c[i]))) + 1
        /\ c[i] = m.root <=> Dirname(m, c[i]) = Top
        /\ Chain(m, Top) = << >>
        /\ Dirname(m, c[i]) \in m.vertex \cup {Top}
    BY <1>1, ChainStep DEF States, StepsUp
  <2> DEFINE w == Dirname(m, c[i])
  <2>2. w # Top => Len(Chain(m, w)) \in Nat \ {0}
    <3> SUFFICES ASSUME w # Top PROVE Len(Chain(m, w)) \in Nat \ {0}
      OBVIOUS
    <3>1. w \in m.vertex
      BY <2>1
    <3> HIDE DEF w
    <3>2. /\ Len(Chain(m, w)) = Len(Chain(m, Dirname(m, w))) + 1
          /\ Chain(m, Dirname(m, w)) \in Seq(m.vertex)
      BY <3>1, ChainStep DEF StepsUp
    <3> QED  BY <3>2
  <2>3. Len(Chain(m, c[i])) = 1 <=> c[i] = m.root
    <3> HIDE DEF c
    <3>1. CASE w = Top
      BY <3>1, <2>1
    <3>2. CASE w # Top
      <4>1. c[i] # m.root
        BY <3>2, <2>1
      <4>2. Len(Chain(m, c[i])) # 1
        <5> HIDE DEF w
        <5> QED  BY <3>2, <2>1, <2>2 DEF w
      <4> QED  BY <4>1, <4>2
    <3> QED  BY <3>1, <3>2
  <2>4. Len(Chain(m, c[i])) = n - i + 1
    BY <1>2
  <2>5. n \in Int /\ i \in Int
    BY <1>1
  <2> HIDE DEF c, n
  <2> QED  BY <2>3, <2>4, <2>5
<1>5. ASSUME NEW i \in 2 .. n PROVE c[i] = Dirname(m, c[i - 1]) /\ c[i] \in States(m)
  <2> DEFINE w == c[i - 1]
  <2>1. i - 1 \in 1 .. n /\ i - 1 # n
    BY <1>1
  <2>2. w \in m.vertex /\ w # m.root
    BY <1>1, <1>4, <2>1
  <2>3. Dirname(m, w) \in States(m)
    BY <2>2, ChainStep DEF StepsUp
  <2>4. Dirname(m, w) \in m.vertex
    BY <2>3 DEF States
  <2>5. Chain(m, w)[2] = c[i]
    <3> HIDE DEF c
    <3> QED  BY <2>1, <1>1, <1>2
  <2>6. Chain(m, w)[2] = Dirname(m, w)
    <3> DEFINE u == Dirname(m, w)
    <3> HIDE DEF u
    <3>1. u \in m.vertex
      BY <2>4 DEF u
    <3>2. /\ Chain(m, u)[1] = u /\ Len(Chain(m, u)) = Len(Chain(m, Dirname(m, u))) + 1
          /\ Chain(m, Dirname(m, u)) \in Seq(m.vertex)
      BY <3>1, ChainStep DEF StepsUp
    <3>3. 1 \in 1 .. Len(Chain(m, u))
      BY <3>2
    <3>4. \A k \in 1 .. Len(Chain(m, u)) : Chain(m, w)[k + 1] = Chain(m, u)[k]
      <4> HIDE DEF w
      <4> QED  BY <2>2, ChainStep DEF u, StepsUp
    <3>5. Chain(m, w)[1 + 1] = Chain(m, u)[1]
      BY <3>3, <3>4
    <3> QED  BY <3>2, <3>5 DEF u
  <2>7. c[i] = Dirname(m, w)
    <3> HIDE DEF c, w
    <3> QED  BY <2>5, <2>6
  <2>8. c[i] \in States(m)
    <3> HIDE DEF c, w
    <3> QED  BY <2>3, <2>7, Zenon
  <2> HIDE DEF c
  <2> QED  BY <2>7, <2>8
<1> HIDE DEF c
<1>7. \A i, j \in 1 .. n : c[i] = c[j] => i = j
  BY <1>3
<1>8. \A i \in 1 .. n : c[i] = m.root <=> i = n
  BY <1>4
<1>9. \A i \in 2 .. n : c[i] = Dirname(m, c[i - 1]) /\ c[i] \in States(m)
  BY <1>5
<1>6. c[n] = m.root
  <2>1. n \in 1 .. n
    BY <1>1
  <2> HIDE DEF n
  <2> QED  BY <2>1, <1>8
<1> QED  BY <1>1, <1>6, <1>7, <1>8, <1>9 DEF c

(***************************************************************************)
(* The order of the vertices: Above(m, v) is v and all that is above it,   *)
(* the "/" above the root included.                                        *)
(***************************************************************************)
Above(m, v) == ToSet(Chain(m, v)) \cup {Top}
Depth(m, v) == Len(Chain(m, v))
All(m)      == m.vertex \cup {Top}

\* IsAncestor goes strictly up.
LEMMA AncestorIsAbove ==
    ASSUME NEW m, NEW u, NEW v
    PROVE  IsAncestor(m, u, v) <=> u # v /\ u \in Above(m, v)
BY DEF IsAncestor, Above

LEMMA AboveTop ==
    ASSUME NEW m, IsTree(m)
    PROVE  Above(m, Top) = {Top} /\ Depth(m, Top) = 0 /\ Dirname(m, Top) = Top
BY DEF Above, Depth, Dirname, Chain, ToSet

\* One step up.
LEMMA AboveStep ==
    ASSUME NEW m, IsTree(m), NEW v \in m.vertex
    PROVE  /\ Dirname(m, v) \in States(m) \cup {Top}
           /\ Dirname(m, v) \in All(m)
           /\ v = m.root <=> Dirname(m, v) = Top
           /\ Above(m, v) = {v} \cup Above(m, Dirname(m, v))
           /\ v \notin Above(m, Dirname(m, v))
           /\ Depth(m, v) \in Nat /\ Depth(m, Dirname(m, v)) \in Nat
           /\ Depth(m, v) = Depth(m, Dirname(m, v)) + 1
<1> DEFINE c == Chain(m, v)
           d == Chain(m, Dirname(m, v))
<1>1. /\ Dirname(m, v) \in States(m) \cup {Top}
      /\ v = m.root <=> Dirname(m, v) = Top
      /\ c \in Seq(m.vertex) /\ d \in Seq(m.vertex) /\ Len(c) = Len(d) + 1
      /\ c[1] = v /\ \A i \in 1 .. Len(d) : c[i + 1] = d[i]
  <2>1. StepsUp(m, v)
    BY ChainStep
  <2> QED  BY <2>1, Zenon DEF StepsUp
<1>2. \A i, j \in 1 .. Len(c) : c[i] = c[j] => i = j
  BY ChainLinks
<1>3. v # Top
  BY DEF IsTree
<1> HIDE DEF c, d
<1>4. DOMAIN c = 1 .. Len(d) + 1 /\ DOMAIN d = 1 .. Len(d) /\ Len(d) \in Nat /\ Len(c) \in Nat
  BY <1>1
<1>5. ToSet(c) = {v} \cup ToSet(d)
  <2>1. ASSUME NEW i \in DOMAIN c PROVE c[i] \in {v} \cup ToSet(d)
    <3>1. CASE i = 1
      BY <3>1, <1>1
    <3>2. CASE i # 1
      <4>1. i - 1 \in DOMAIN d /\ (i - 1) + 1 = i
        BY <3>2, <1>4
      <4>2. c[i] = d[i - 1]
        BY <4>1, <1>1, <1>4
      <4> QED  BY <4>1, <4>2 DEF ToSet
    <3> QED  BY <3>1, <3>2
  <2>2. ASSUME NEW i \in DOMAIN d PROVE d[i] \in ToSet(c)
    <3>1. i + 1 \in DOMAIN c /\ c[i + 1] = d[i]
      BY <1>1, <1>4
    <3> QED  BY <3>1 DEF ToSet
  <2>3. v \in ToSet(c)
    <3>1. 1 \in DOMAIN c
      BY <1>4
    <3> QED  BY <3>1, <1>1 DEF ToSet
  <2> QED  BY <2>1, <2>2, <2>3 DEF ToSet
<1>6. v \notin ToSet(d)
  <2> SUFFICES ASSUME NEW i \in DOMAIN d, d[i] = v PROVE FALSE
    BY DEF ToSet
  <2>1. i + 1 \in 1 .. Len(c) /\ 1 \in 1 .. Len(c) /\ c[i + 1] = c[1] /\ i + 1 # 1
    BY <1>1, <1>4
  <2> QED  BY <2>1, <1>2
<1>7. Dirname(m, v) \in All(m)
  BY <1>1 DEF States, All
<1> QED  BY <1>1, <1>3, <1>4, <1>5, <1>6, <1>7 DEF c, d, Above, Depth

\* Induction up the chart: a set of vertices has a topmost member.
LEMMA Topmost ==
    ASSUME NEW m, IsTree(m), NEW T \in SUBSET All(m), T # {}
    PROVE  \E v \in T : v \in m.vertex => Dirname(m, v) \notin T
<1> DEFINE D == {Depth(m, v) : v \in T}
<1>1. D \in SUBSET Nat /\ D # {}
  BY AboveTop, AboveStep DEF All
<1>2. PICK n \in D : \A k \in D : n <= k
  BY <1>1, Least
<1>3. PICK v \in T : Depth(m, v) = n
  OBVIOUS
<1>4. ASSUME v \in m.vertex, Dirname(m, v) \in T PROVE FALSE
  <2>1. Depth(m, Dirname(m, v)) \in D
    BY <1>4
  <2>2. n <= Depth(m, Dirname(m, v))
    BY <1>2, <2>1
  <2>3. /\ Depth(m, v) = Depth(m, Dirname(m, v)) + 1
        /\ Depth(m, Dirname(m, v)) \in Nat
    BY <1>4, AboveStep
  <2> HIDE DEF D
  <2> QED  BY <2>2, <2>3, <1>3
<1> QED  BY <1>3, <1>4

\* What is above what is above v is above v.
Ordered(m, v) ==
    /\ Top \in Above(m, v) /\ v \in Above(m, v)
    /\ \A u \in Above(m, v) :
           /\ u \in All(m) /\ Depth(m, u) \in Nat /\ Depth(m, v) \in Nat
           /\ Above(m, u) \subseteq Above(m, v)
           /\ u # v => /\ Depth(m, u) < Depth(m, v)
                       /\ u \in Above(m, Dirname(m, v))
                       /\ u \in States(m) \cup {Top}

LEMMA AboveOrdered ==
    ASSUME NEW m, IsTree(m), NEW v \in All(m)
    PROVE  Ordered(m, v)
<1> DEFINE T == {w \in All(m) : ~Ordered(m, w)}
<1>1. SUFFICES ASSUME T # {} PROVE FALSE
  OBVIOUS
<1>2. PICK w \in T : w \in m.vertex => Dirname(m, w) \notin T
  <2>1. T \in SUBSET All(m)
    OBVIOUS
  <2> HIDE DEF T
  <2> QED  BY <1>1, <2>1, Topmost
<1>3. CASE w = Top
  BY <1>3, AboveTop DEF Ordered, All
<1>4. CASE w # Top
  <2> DEFINE d == Dirname(m, w)
  <2>1. w \in m.vertex
    BY <1>4 DEF All
  <2>2. /\ d \in States(m) \cup {Top} /\ d \in All(m)
        /\ Above(m, w) = {w} \cup Above(m, d) /\ w \notin Above(m, d)
        /\ Depth(m, w) \in Nat /\ Depth(m, d) \in Nat /\ Depth(m, w) = Depth(m, d) + 1
    BY <2>1, AboveStep
  <2>3. Ordered(m, d)
    BY <1>2, <2>1, <2>2
  <2> HIDE DEF d, T
  <2>4. ASSUME NEW u \in Above(m, w), u # w
        PROVE  /\ u \in All(m) /\ Depth(m, u) \in Nat
               /\ Above(m, u) \subseteq Above(m, w)
               /\ Depth(m, u) < Depth(m, w) /\ u \in Above(m, d) /\ u \in States(m) \cup {Top}
    <3>1. u \in Above(m, d)
      BY <2>2, <2>4
    <3>2. /\ u \in All(m) /\ Depth(m, u) \in Nat /\ Above(m, u) \subseteq Above(m, d)
          /\ u = d \/ Depth(m, u) < Depth(m, d)
          /\ u \in States(m) \cup {Top}
      BY <3>1, <2>2, <2>3 DEF Ordered
    <3> QED  BY <3>1, <3>2, <2>2
  <2>5. Ordered(m, w)
    BY <2>1, <2>2, <2>3, <2>4 DEF Ordered, d, All
  <2> QED  BY <2>5, <1>2 DEF T
<1> QED  BY <1>3, <1>4

\* Two vertices that are above each other are the same.
LEMMA AboveAntisymmetric ==
    ASSUME NEW m, IsTree(m), NEW u \in All(m), NEW v \in All(m),
           u \in Above(m, v), v \in Above(m, u)
    PROVE  u = v
<1>1. Ordered(m, u) /\ Ordered(m, v)
  BY AboveOrdered
<1>2. SUFFICES ASSUME u # v PROVE FALSE
  OBVIOUS
<1>3. /\ Depth(m, u) \in Nat /\ Depth(m, v) \in Nat
      /\ Depth(m, u) < Depth(m, v) /\ Depth(m, v) < Depth(m, u)
  BY <1>1, <1>2 DEF Ordered
<1> QED  BY <1>3

\* What is above both of two vertices is above one vertex.
LEMMA Meets ==
    ASSUME NEW m, IsTree(m), NEW a \in All(m), NEW b \in All(m)
    PROVE  \E u \in All(m) : Above(m, a) \cap Above(m, b) = Above(m, u)
<1> DEFINE Meet(w) == \E u \in All(m) : Above(m, w) \cap Above(m, b) = Above(m, u)
           T == {w \in All(m) : ~Meet(w)}
<1>1. SUFFICES ASSUME T # {} PROVE FALSE
  OBVIOUS
<1>2. PICK w \in T : w \in m.vertex => Dirname(m, w) \notin T
  <2>1. T \in SUBSET All(m)
    OBVIOUS
  <2> HIDE DEF T
  <2> QED  BY <1>1, <2>1, Topmost
<1>3. Ordered(m, w) /\ Ordered(m, b)
  BY AboveOrdered
<1>4. CASE w \in Above(m, b)
  <2>1. Above(m, w) \cap Above(m, b) = Above(m, w)
    BY <1>3, <1>4 DEF Ordered
  <2> QED  BY <2>1, <1>2
<1>5. CASE w \notin Above(m, b)
  <2>1. w \in m.vertex
    BY <1>3, <1>5 DEF All, Ordered
  <2>2. /\ Above(m, w) = {w} \cup Above(m, Dirname(m, w)) /\ Dirname(m, w) \in All(m)
    BY <2>1, AboveStep
  <2>3. Meet(Dirname(m, w))
    BY <2>1, <2>2, <1>2
  <2>4. Above(m, w) \cap Above(m, b) = Above(m, Dirname(m, w)) \cap Above(m, b)
    BY <2>2, <1>5
  <2> QED  BY <2>3, <2>4, <1>2
<1> QED  BY <1>4, <1>5

\* The lowest vertex above both a and b.
Meet(m, a, b) == CHOOSE u \in All(m) : Above(m, a) \cap Above(m, b) = Above(m, u)

LEMMA MeetIs ==
    ASSUME NEW m, IsTree(m), NEW a \in All(m), NEW b \in All(m)
    PROVE  /\ Meet(m, a, b) \in All(m)
           /\ Above(m, a) \cap Above(m, b) = Above(m, Meet(m, a, b))
           /\ \A u \in All(m) : Above(m, a) \cap Above(m, b) = Above(m, u) => u = Meet(m, a, b)
<1>1. /\ Meet(m, a, b) \in All(m)
      /\ Above(m, a) \cap Above(m, b) = Above(m, Meet(m, a, b))
  BY Meets DEF Meet
<1>2. ASSUME NEW u \in All(m), Above(m, a) \cap Above(m, b) = Above(m, u)
      PROVE  u = Meet(m, a, b)
  <2>1. Ordered(m, u) /\ Ordered(m, Meet(m, a, b))
    BY <1>1, AboveOrdered
  <2>2. u \in Above(m, Meet(m, a, b)) /\ Meet(m, a, b) \in Above(m, u)
    BY <1>1, <1>2, <2>1 DEF Ordered
  <2> QED  BY <1>1, <2>2, AboveAntisymmetric
<1> QED  BY <1>1, <1>2

\* One step of the recursion of LCA leads to the same vertex.
LEMMA MeetStep ==
    ASSUME NEW m, IsTree(m), NEW a \in All(m), NEW b \in All(m), a # b
    PROVE  /\ IsAncestor(m, a, b) => Meet(m, a, b) = a
           /\ IsAncestor(m, b, a) => Meet(m, a, b) = b
           /\ (~IsAncestor(m, a, b) /\ ~IsAncestor(m, b, a)) =>
                  /\ a \in m.vertex /\ b \in m.vertex
                  /\ Above(m, a) \cap Above(m, b) =
                         Above(m, Dirname(m, a)) \cap Above(m, Dirname(m, b))
           /\ Dirname(m, a) = Dirname(m, b) => Meet(m, a, b) = Dirname(m, a)
<1>0. Ordered(m, a) /\ Ordered(m, b)
  BY AboveOrdered
<1>1. ASSUME IsAncestor(m, a, b) PROVE Meet(m, a, b) = a
  <2>1. Above(m, a) \cap Above(m, b) = Above(m, a)
    BY <1>0, <1>1, AncestorIsAbove DEF Ordered
  <2> QED  BY <2>1, MeetIs
<1>2. ASSUME IsAncestor(m, b, a) PROVE Meet(m, a, b) = b
  <2>1. Above(m, a) \cap Above(m, b) = Above(m, b)
    BY <1>0, <1>2, AncestorIsAbove DEF Ordered
  <2> QED  BY <2>1, MeetIs
<1>3. ASSUME ~IsAncestor(m, a, b), ~IsAncestor(m, b, a)
      PROVE  /\ a \in m.vertex /\ b \in m.vertex
             /\ Above(m, a) \cap Above(m, b) =
                    Above(m, Dirname(m, a)) \cap Above(m, Dirname(m, b))
  <2>1. a \notin Above(m, b) /\ b \notin Above(m, a)
    BY <1>3, AncestorIsAbove
  <2>2. a \in m.vertex /\ b \in m.vertex
    BY <2>1, <1>0 DEF All, Ordered
  <2>3. /\ Above(m, a) = {a} \cup Above(m, Dirname(m, a))
        /\ Above(m, b) = {b} \cup Above(m, Dirname(m, b))
    BY <2>2, AboveStep
  <2> QED  BY <2>1, <2>2, <2>3
<1>4. ASSUME Dirname(m, a) = Dirname(m, b) PROVE Meet(m, a, b) = Dirname(m, a)
  <2>1. CASE a = Top \/ b = Top
    <3>1. Dirname(m, a) = Top
      BY <2>1, <1>4, AboveTop
    <3>2. Above(m, a) \cap Above(m, b) = Above(m, Top) /\ Top \in All(m)
      BY <2>1, <1>0, AboveTop DEF Ordered, All
    <3> QED  BY <3>1, <3>2, MeetIs
  <2>2. CASE a # Top /\ b # Top
    <3>1. a \in m.vertex /\ b \in m.vertex
      BY <2>2 DEF All
    <3>2. /\ Above(m, a) = {a} \cup Above(m, Dirname(m, a)) /\ Dirname(m, a) \in All(m)
          /\ Above(m, b) = {b} \cup Above(m, Dirname(m, a))
          /\ a \notin Above(m, Dirname(m, a)) /\ b \notin Above(m, Dirname(m, a))
      BY <3>1, <1>4, AboveStep
    <3>3. Above(m, a) \cap Above(m, b) = Above(m, Dirname(m, a))
      BY <3>2
    <3> QED  BY <3>2, <3>3, MeetIs
  <2> QED  BY <2>1, <2>2
<1> QED  BY <1>1, <1>2, <1>3, <1>4

\* LCA: the recursion ends, in the lowest vertex above both that is not both
\* of them.
LEMMA LCAMeets ==
    ASSUME NEW m, IsTree(m), NEW a \in All(m), NEW b \in All(m)
    PROVE  /\ a = b => LCA(m, a, b) = Dirname(m, a)
           /\ a # b => LCA(m, a, b) = Meet(m, a, b)
<1> DEFINE D == All(m) \X All(m)
           Body(f, p) ==
               IF p[1] = p[2] \/ Dirname(m, p[1]) = Dirname(m, p[2]) THEN Dirname(m, p[1])
               ELSE IF IsAncestor(m, p[1], p[2]) THEN p[1]
               ELSE IF IsAncestor(m, p[2], p[1]) THEN p[2]
               ELSE f[<<Dirname(m, p[1]), Dirname(m, p[2])>>]
           G(p) == IF p[1] = p[2] THEN Dirname(m, p[1]) ELSE Meet(m, p[1], p[2])
           g == [p \in D |-> G(p)]
           f == CHOOSE f : f = [p \in D |-> Body(f, p)]
           Further(p) == /\ p[1] # p[2] /\ Dirname(m, p[1]) # Dirname(m, p[2])
                         /\ ~IsAncestor(m, p[1], p[2]) /\ ~IsAncestor(m, p[2], p[1])
           up(p) == <<Dirname(m, p[1]), Dirname(m, p[2])>>
<1>1. ASSUME NEW p \in D
      PROVE  /\ Further(p) => p[1] \in m.vertex /\ up(p) \in D /\ G(up(p)) = G(p)
             /\ ~Further(p) => \A h : Body(h, p) = G(p)
  <2>0. p[1] \in All(m) /\ p[2] \in All(m)
    OBVIOUS
  <2>1. CASE Further(p)
    <3>1. /\ p[1] \in m.vertex /\ p[2] \in m.vertex
          /\ Above(m, p[1]) \cap Above(m, p[2]) =
                 Above(m, Dirname(m, p[1])) \cap Above(m, Dirname(m, p[2]))
      BY <2>0, <2>1, MeetStep
    <3>2. Dirname(m, p[1]) \in All(m) /\ Dirname(m, p[2]) \in All(m)
      BY <3>1, AboveStep
    <3>3. Meet(m, Dirname(m, p[1]), Dirname(m, p[2])) = Meet(m, p[1], p[2])
      BY <3>1 DEF Meet
    <3>4. G(up(p)) = G(p)
      BY <3>3, <2>1
    <3> QED  BY <3>1, <3>2, <3>4, <2>1
  <2>2. CASE ~Further(p)
    BY <2>0, <2>2, MeetStep
  <2> QED  BY <2>1, <2>2
<1>2. g = [p \in D |-> Body(g, p)]
  <2>1. ASSUME NEW p \in D PROVE G(p) = Body(g, p)
    <3>1. CASE Further(p)
      <4>1. Body(g, p) = g[up(p)]
        BY <3>1
      <4>2. up(p) \in D /\ G(up(p)) = G(p)
        BY <1>1, <3>1
      <4>3. g[up(p)] = G(up(p))
        <5> HIDE DEF G, D, up
        <5> QED  BY <4>2
      <4> HIDE DEF G, D, up, g
      <4> QED  BY <4>1, <4>2, <4>3
    <3>2. CASE ~Further(p)
      <4> HIDE DEF G, D, Further, Body, g
      <4> QED  BY <1>1, <3>2
    <3> QED  BY <3>1, <3>2
  <2> HIDE DEF G, D, Body
  <2> QED  BY <2>1 DEF g
<1>3. f = [p \in D |-> Body(f, p)]
  <2> HIDE DEF g, D, Body
  <2> QED  BY <1>2
<1>4. LCA(m, a, b) = f[<<a, b>>]
  BY DEF LCA, All
<1> HIDE DEF f
<1>5. \A p \in D : f[p] = G(p)
  <2> DEFINE T == {w \in All(m) : \E p \in D : p[1] = w /\ f[p] # G(p)}
  <2>1. SUFFICES ASSUME T # {} PROVE FALSE
    OBVIOUS
  <2>2. PICK w \in T : w \in m.vertex => Dirname(m, w) \notin T
    <3>1. T \in SUBSET All(m)
      OBVIOUS
    <3> HIDE DEF T
    <3> QED  BY <2>1, <3>1, Topmost
  <2>3. PICK p \in D : p[1] = w /\ f[p] # G(p)
    OBVIOUS
  <2>4. f[p] = Body(f, p)
    <3> HIDE DEF D, Body
    <3> QED  BY <1>3
  <2>5. Further(p)
    <3> HIDE DEF G, D, Further, Body
    <3> QED  BY <1>1, <2>3, <2>4
  <2>6. f[p] = f[up(p)]
    BY <2>4, <2>5
  <2>7. p[1] \in m.vertex /\ up(p) \in D /\ G(up(p)) = G(p)
    BY <1>1, <2>5
  <2>8. up(p)[1] = Dirname(m, w) /\ Dirname(m, w) \in All(m)
    BY <2>3, <2>7
  <2>9. f[up(p)] # G(up(p))
    <3> HIDE DEF G, up
    <3> QED  BY <2>3, <2>6, <2>7
  <2>10. Dirname(m, w) \in T
    <3> HIDE DEF G, D, up
    <3> QED  BY <2>7, <2>8, <2>9
  <2> QED  BY <2>2, <2>3, <2>7, <2>10
<1>6. f[<<a, b>>] = G(<<a, b>>)
  <2> HIDE DEF G
  <2> QED  BY <1>5
<1> QED  BY <1>4, <1>6

(***************************************************************************)
(* Paths: what Climb goes through.                                         *)
(***************************************************************************)
\* The rungs of the chain of v, and where they are.
Rungs(c, m, v) ==
    /\ c \in Seq(m.vertex) /\ Len(c) \in Nat \ {0} /\ DOMAIN c = 1 .. Len(c)
    /\ c[1] = v /\ c[Len(c)] = m.root
    /\ \A i \in 1 .. Len(c) :
           /\ c[i] \in m.vertex /\ c[i] \in Above(m, v)
           /\ Depth(m, c[i]) = Len(c) - i + 1
           /\ \A j \in i .. Len(c) : c[j] \in Above(m, c[i])
    /\ \A i \in 2 .. Len(c) : c[i] = Dirname(m, c[i - 1]) /\ c[i] \in States(m)
    /\ \A u \in Above(m, v) \ {Top} : \E i \in 1 .. Len(c) : c[i] = u

LEMMA ChainRungs ==
    ASSUME NEW m, IsTree(m), NEW v \in m.vertex
    PROVE  Rungs(Chain(m, v), m, v)
<1> DEFINE c == Chain(m, v)
           n == Len(c)
<1>1. /\ c \in Seq(m.vertex) /\ n \in Nat \ {0} /\ DOMAIN c = 1 .. n
      /\ c[1] = v /\ c[n] = m.root
      /\ \A i \in 2 .. n : c[i] = Dirname(m, c[i - 1]) /\ c[i] \in States(m)
  BY ChainLinks
<1>2. ASSUME NEW i \in 1 .. n
      PROVE  /\ c[i] \in m.vertex /\ c[i] \in Above(m, v)
             /\ Depth(m, c[i]) = n - i + 1
             /\ \A j \in i .. n : c[j] \in Above(m, c[i])
  <2> DEFINE d == Chain(m, c[i])
  <2>1. c[i] \in m.vertex /\ d = SubSeq(c, i, n)
    BY ChainRest
  <2> HIDE DEF c
  <2>2. /\ d \in Seq(m.vertex) /\ Len(d) = n - i + 1
        /\ \A k \in 1 .. n - i + 1 : d[k] = c[i - 1 + k]
    <3>1. /\ SubSeq(c, i, n) \in Seq(m.vertex) /\ Len(SubSeq(c, i, n)) = n - i + 1
          /\ \A k \in 1 .. n - i + 1 : SubSeq(c, i, n)[k] = c[i - 1 + k]
      BY <1>1, Suffix
    <3> HIDE DEF d, n
    <3> QED  BY <3>1, <2>1
  <2>3. c[i] \in Above(m, v)
    BY <1>1 DEF c, Above, ToSet
  <2>4. ASSUME NEW j \in i .. n PROVE c[j] \in Above(m, c[i])
    <3> HIDE DEF d
    <3>1. j - i + 1 \in 1 .. n - i + 1 /\ i - 1 + (j - i + 1) = j /\ n \in Nat
      BY <1>1
    <3>2. d[j - i + 1] = c[j]
      BY <2>2, <3>1
    <3>3. j - i + 1 \in DOMAIN d
      BY <2>2, <3>1
    <3> QED  BY <3>2, <3>3 DEF d, Above, ToSet
  <2> QED  BY <2>1, <2>2, <2>3, <2>4 DEF Depth
<1>3. \A u \in Above(m, v) \ {Top} : \E i \in 1 .. n : c[i] = u
  BY <1>1 DEF Above, ToSet
<1> HIDE DEF c
<1> QED  BY <1>1, <1>2, <1>3 DEF c, Rungs

\* The way x from v up, l being the first that is not on it.
Climbs(x, m, v, l) ==
    /\ x \in Seq(m.vertex) /\ Len(x) \in Nat /\ DOMAIN x = 1 .. Len(x)
    /\ Len(x) = Depth(m, v) - Depth(m, l)
    /\ ToSet(x) = Above(m, v) \ Above(m, l)
    /\ Len(x) = 0 <=> v = l
    /\ Len(x) # 0 => x[1] = v /\ Dirname(m, x[Len(x)]) = l
    /\ \A i \in 2 .. Len(x) : x[i] = Dirname(m, x[i - 1]) /\ x[i] \in States(m)
    /\ \A i, j \in 1 .. Len(x) : x[i] = x[j] => i = j

LEMMA ClimbTo ==
    ASSUME NEW m, IsTree(m), NEW v \in m.vertex, NEW l \in Above(m, v), NEW stop,
           l = Top \/ l \in stop,
           \A u \in Above(m, v) \cap stop : u \in Above(m, l)
    PROVE  Climbs(Climb(m, v, stop), m, v, l)
<1> DEFINE c == Chain(m, v)
           n == Len(c)
           k == n - Depth(m, l)
<1>1. Rungs(c, m, v)
  BY ChainRungs
<1>2. Ordered(m, v) /\ Ordered(m, l) /\ l \in All(m) /\ n = Depth(m, v)
  <2>1. Ordered(m, v) /\ n = Depth(m, v)
    BY AboveOrdered DEF All, Depth
  <2>2. l \in All(m)
    BY <2>1 DEF Ordered
  <2> QED  BY <2>1, <2>2, AboveOrdered
<1> HIDE DEF c
<1>3. /\ n \in Nat \ {0} /\ k \in 0 .. n /\ Depth(m, l) \in Nat /\ Depth(m, l) = n - k
      /\ l = Top <=> k = n
      /\ l # Top => k + 1 \in 1 .. n /\ c[k + 1] = l
  <2>1. n \in Nat \ {0}
    BY <1>1 DEF Rungs
  <2>2. CASE l = Top
    <3>1. Depth(m, l) = 0
      BY <2>2, AboveTop
    <3> QED  BY <2>1, <2>2, <3>1
  <2>3. CASE l # Top
    <3>1. PICK i \in 1 .. n : c[i] = l
      BY <1>1, <2>3 DEF Rungs
    <3>2. Depth(m, l) = n - i + 1
      BY <1>1, <3>1 DEF Rungs
    <3> HIDE DEF n
    <3>3. k = i - 1
      BY <3>2, <2>1
    <3> QED  BY <2>1, <2>3, <3>1, <3>2, <3>3
  <2> QED  BY <2>2, <2>3
<1> HIDE DEF k
<1>4. ASSUME NEW j \in 1 .. k PROVE c[j] \notin Above(m, l)
  <2> SUFFICES ASSUME c[j] \in Above(m, l) PROVE FALSE
    OBVIOUS
  <2>1. c[j] # l => Depth(m, c[j]) < Depth(m, l)
    BY <1>2 DEF Ordered
  <2>2. j \in 1 .. n
    <3> HIDE DEF n
    <3> QED  BY <1>3
  <2>3. Depth(m, c[j]) = n - j + 1
    BY <1>1, <2>2 DEF Rungs
  <2> HIDE DEF n
  <2> QED  BY <2>1, <2>2, <2>3, <1>3
<1>5. ASSUME NEW j \in 1 .. k PROVE c[j] \notin stop
  <2>1. j \in 1 .. n
    <3> HIDE DEF n
    <3> QED  BY <1>3
  <2>2. c[j] \in Above(m, v)
    BY <1>1, <2>1 DEF Rungs
  <2> QED  BY <2>2, <1>4
<1>6. Climb(m, v, stop) = SubSeq(c, 1, k)
  <2> DEFINE End(i) == /\ i > n \/ c[i] \in stop
                       /\ \A j \in 1 .. i - 1 : c[j] \notin stop
  <2>1. k + 1 \in 1 .. n + 1 /\ End(k + 1)
    <3> HIDE DEF n
    <3>1. k + 1 \in 1 .. n + 1 /\ (k + 1) - 1 = k
      BY <1>3
    <3>2. k + 1 > n \/ c[k + 1] \in stop
      BY <1>3
    <3> QED  BY <3>1, <3>2, <1>5
  <2>2. ASSUME NEW i \in 1 .. n + 1, End(i) PROVE i = k + 1
    <3> HIDE DEF n
    <3>1. CASE i <= k
      <4>1. i \in 1 .. k /\ ~(i > n)
        BY <3>1, <1>3
      <4> QED  BY <4>1, <2>2, <1>5
    <3>2. CASE i > k + 1
      <4>1. k + 1 \in 1 .. i - 1 /\ k + 1 <= n
        BY <3>2, <1>3
      <4>2. c[k + 1] \in stop
        BY <4>1, <1>3
      <4> QED  BY <4>1, <4>2, <2>2
    <3> QED  BY <3>1, <3>2, <1>3
  <2>3. k + 1 = CHOOSE i \in 1 .. n + 1 : End(i)
    <3> HIDE DEF n, End
    <3> QED  BY <2>1, <2>2
  <2>4. Climb(m, v, stop) = SubSeq(c, 1, (k + 1) - 1)
    <3>1. Climb(m, v, stop) = SubSeq(c, 1, (CHOOSE i \in 1 .. n + 1 : End(i)) - 1)
      BY DEF Climb, c
    <3> HIDE DEF End, n
    <3> QED  BY <3>1, <2>3
  <2>5. (k + 1) - 1 = k
    BY <1>3
  <2> HIDE DEF n
  <2> QED  BY <2>4, <2>5
<1> DEFINE x == SubSeq(c, 1, k)
<1>7. /\ x \in Seq(m.vertex) /\ Len(x) = k /\ DOMAIN x = 1 .. k
      /\ \A i \in 1 .. k : x[i] = c[i] /\ i \in 1 .. n
  <2>1. c \in Seq(m.vertex) /\ n \in Nat
    BY <1>1 DEF Rungs
  <2>2. x = [i \in 1 .. k |-> c[i]]
    BY <2>1, <1>3
  <2>3. \A i \in 1 .. k : i \in 1 .. n /\ c[i] \in m.vertex
    BY <2>1, <1>3
  <2>4. k \in Nat
    BY <1>3
  <2> HIDE DEF x, n
  <2>5. x \in [1 .. k -> m.vertex]
    BY <2>2, <2>3
  <2> QED  BY <2>2, <2>3, <2>4, <2>5
<1> HIDE DEF x
<1>8. ToSet(x) = Above(m, v) \ Above(m, l)
  <2>1. ASSUME NEW i \in 1 .. k PROVE x[i] \in Above(m, v) \ Above(m, l)
    BY <1>1, <1>4, <1>7 DEF Rungs
  <2>2. ASSUME NEW u \in Above(m, v) \ Above(m, l) PROVE \E i \in 1 .. k : x[i] = u
    <3>1. u # Top
      BY <1>2 DEF Ordered
    <3>2. PICK i \in 1 .. n : c[i] = u
      BY <3>1, <1>1 DEF Rungs
    <3>3. i \in 1 .. k
      <4> SUFFICES ASSUME i \notin 1 .. k PROVE FALSE
        OBVIOUS
      <4>1. k # n /\ i \in k + 1 .. n
        <5> HIDE DEF n
        <5> QED  BY <1>3
      <4>2. c[k + 1] = l /\ k + 1 \in 1 .. n
        BY <1>3, <4>1
      <4>3. c[i] \in Above(m, l)
        BY <4>1, <4>2, <1>1 DEF Rungs
      <4> QED  BY <4>3, <3>2
    <3> QED  BY <3>2, <3>3, <1>7
  <2> QED  BY <2>1, <2>2, <1>7 DEF ToSet
<1>9. k = 0 <=> v = l
  <2>1. c[1] = v /\ v # Top
    BY <1>1 DEF Rungs, IsTree
  <2>2. ASSUME k = 0 PROVE v = l
    <3> HIDE DEF n
    <3>1. k + 1 = 1
      BY <2>2
    <3> QED  BY <2>1, <2>2, <3>1, <1>3
  <2>3. ASSUME v = l PROVE k = 0
    <3> HIDE DEF n
    <3> QED  BY <2>3, <1>2, <1>3
  <2> QED  BY <2>2, <2>3
<1>10. ASSUME k # 0 PROVE x[1] = v /\ Dirname(m, x[k]) = l
  <2>1. 1 \in 1 .. k /\ k \in 1 .. k /\ k \in 1 .. n
    <3> HIDE DEF n
    <3> QED  BY <1>3, <1>10
  <2>2. x[1] = v
    BY <2>1, <1>7, <1>1 DEF Rungs
  <2>3. CASE l = Top
    <3>1. x[k] = m.root
      BY <2>1, <2>3, <1>7, <1>3, <1>1 DEF Rungs
    <3> QED  BY <2>2, <2>3, <3>1 DEF Dirname
  <2>4. CASE l # Top
    <3>1. k + 1 \in 2 .. n /\ (k + 1) - 1 = k
      <4> HIDE DEF n
      <4> QED  BY <1>3, <2>1, <2>4
    <3>2. c[k + 1] = Dirname(m, c[(k + 1) - 1])
      BY <3>1, <1>1 DEF Rungs
    <3> HIDE DEF n
    <3> QED  BY <2>2, <3>2, <3>1, <1>7, <2>1, <1>3, <2>4
  <2> QED  BY <2>3, <2>4
<1>11. ASSUME NEW i \in 2 .. k PROVE x[i] = Dirname(m, x[i - 1]) /\ x[i] \in States(m)
  <2>1. i \in 1 .. k /\ i - 1 \in 1 .. k /\ i \in 2 .. n
    <3> HIDE DEF n
    <3> QED  BY <1>3
  <2>2. c[i] = Dirname(m, c[i - 1]) /\ c[i] \in States(m)
    BY <2>1, <1>1 DEF Rungs
  <2> QED  BY <2>1, <2>2, <1>7
<1>12. ASSUME NEW i \in 1 .. k, NEW j \in 1 .. k, x[i] = x[j] PROVE i = j
  <2>1. i \in 1 .. n /\ j \in 1 .. n /\ c[i] = c[j]
    BY <1>7, <1>12
  <2>2. Depth(m, c[i]) = n - i + 1 /\ Depth(m, c[j]) = n - j + 1
    BY <2>1, <1>1 DEF Rungs
  <2> HIDE DEF n
  <2> QED  BY <2>1, <2>2, <1>3
<1>13. k = Depth(m, v) - Depth(m, l)
  BY <1>2 DEF k
<1>14. x \in Seq(m.vertex) /\ k = Len(x) /\ k \in Nat /\ DOMAIN x = 1 .. k
  BY <1>3, <1>7
<1>15. \A i \in 2 .. k : x[i] = Dirname(m, x[i - 1]) /\ x[i] \in States(m)
  BY <1>11
<1>16. \A i, j \in 1 .. k : x[i] = x[j] => i = j
  BY <1>12
<1>17. k # 0 => x[1] = v /\ Dirname(m, x[k]) = l
  BY <1>10
<1> HIDE DEF n
<1>18. Climbs(x, m, v, l)
  BY <1>8, <1>9, <1>13, <1>14, <1>15, <1>16, <1>17 DEF Climbs
<1> QED  BY <1>6, <1>18 DEF x

LEMMA RootAbove ==
    ASSUME NEW m, IsTree(m), NEW v \in m.vertex
    PROVE  m.root \in Above(m, v)
<1> DEFINE c == Chain(m, v)
<1>1. Rungs(c, m, v)
  BY ChainRungs
<1> HIDE DEF c
<1>2. Len(c) \in 1 .. Len(c) /\ c[Len(c)] = m.root
  BY <1>1 DEF Rungs
<1>3. c[Len(c)] \in Above(m, v)
  BY <1>1, <1>2 DEF Rungs
<1> QED  BY <1>2, <1>3

\* The way e from s, the tip, down to v.
Falls(e, m, s, v) ==
    /\ e \in Seq(m.vertex) /\ Len(e) \in Nat /\ DOMAIN e = 1 .. Len(e)
    /\ Len(e) = Depth(m, v) - Depth(m, s)
    /\ ToSet(e) = Above(m, v) \ Above(m, s)
    /\ Len(e) = 0 <=> v = s
    /\ Len(e) # 0 => e[Len(e)] = v /\ Dirname(m, e[1]) = s
    /\ \A i \in 2 .. Len(e) : Dirname(m, e[i]) = e[i - 1]
    /\ \A i \in 1 .. Len(e) : e[i] # m.root /\ (i # Len(e) => e[i] \in States(m) \ {v})

LEMMA ReverseFalls ==
    ASSUME NEW m, IsTree(m), NEW v \in m.vertex, NEW s \in m.vertex, s \in Above(m, v),
           NEW x, Climbs(x, m, v, s)
    PROVE  Falls(Reverse(x), m, s, v)
<1> DEFINE n == Len(x)
           e == Reverse(x)
<1>1. /\ x \in Seq(m.vertex) /\ n \in Nat /\ DOMAIN x = 1 .. n
      /\ n = Depth(m, v) - Depth(m, s)
      /\ ToSet(x) = Above(m, v) \ Above(m, s)
      /\ n = 0 <=> v = s
      /\ n # 0 => x[1] = v /\ Dirname(m, x[n]) = s
      /\ \A i \in 2 .. n : x[i] = Dirname(m, x[i - 1]) /\ x[i] \in States(m)
      /\ \A i, j \in 1 .. n : x[i] = x[j] => i = j
  BY DEF Climbs
<1>2. \A i \in 1 .. n : x[i] \in m.vertex
  BY <1>1
<1>3. e = [i \in 1 .. n |-> x[(n - i) + 1]]
  BY DEF Reverse
<1> HIDE DEF n, e
<1>4. \A i \in 1 .. n : (n - i) + 1 \in 1 .. n
  BY <1>1
<1>5. e \in Seq(m.vertex) /\ Len(e) = n /\ DOMAIN e = 1 .. n
  <2>1. e \in [1 .. n -> m.vertex]
    BY <1>2, <1>3, <1>4
  <2>2. n \in Nat
    BY <1>1
  <2> QED  BY <2>1, <2>2
<1>6. ToSet(e) = ToSet(x)
  <2>1. \A i \in 1 .. n : e[i] = x[(n - i) + 1]
    BY <1>3
  <2>2. \A i \in 1 .. n : x[i] = e[(n - i) + 1]
    <3> SUFFICES ASSUME NEW i \in 1 .. n PROVE x[i] = e[(n - i) + 1]
      OBVIOUS
    <3>1. (n - i) + 1 \in 1 .. n
      BY <1>4
    <3>2. e[(n - i) + 1] = x[(n - ((n - i) + 1)) + 1]
      BY <2>1, <3>1
    <3>3. (n - ((n - i) + 1)) + 1 = i
      BY <1>1
    <3> QED  BY <3>2, <3>3
  <2> QED  BY <2>1, <2>2, <1>1, <1>4, <1>5 DEF ToSet
<1>7. ASSUME n # 0 PROVE e[n] = v /\ Dirname(m, e[1]) = s
  <2>1. n \in 1 .. n /\ 1 \in 1 .. n /\ (n - n) + 1 = 1 /\ (n - 1) + 1 = n
    BY <1>1, <1>7
  <2>2. e[n] = x[1] /\ e[1] = x[n]
    BY <2>1, <1>3
  <2> QED  BY <2>2, <1>1, <1>7
<1>8. ASSUME NEW i \in 2 .. n PROVE Dirname(m, e[i]) = e[i - 1]
  <2>1. /\ i \in 1 .. n /\ i - 1 \in 1 .. n
        /\ (n - i) + 1 \in 1 .. n /\ (n - (i - 1)) + 1 \in 2 .. n
        /\ ((n - (i - 1)) + 1) - 1 = (n - i) + 1
    BY <1>1
  <2>2. e[i] = x[(n - i) + 1] /\ e[i - 1] = x[(n - (i - 1)) + 1]
    BY <2>1, <1>3
  <2>3. x[(n - (i - 1)) + 1] = Dirname(m, x[((n - (i - 1)) + 1) - 1])
    BY <2>1, <1>1
  <2> QED  BY <2>1, <2>2, <2>3
<1>9. ASSUME NEW i \in 1 .. n
      PROVE  e[i] # m.root /\ (i # n => e[i] \in States(m) \ {v})
  <2>1. (n - i) + 1 \in 1 .. n /\ e[i] = x[(n - i) + 1]
    BY <1>3, <1>4
  <2>2. e[i] # m.root
    <3>1. e[i] \in ToSet(e)
      BY <1>5 DEF ToSet
    <3>2. m.root \in Above(m, s)
      BY RootAbove
    <3> QED  BY <3>1, <3>2, <1>6, <1>1
  <2>3. ASSUME i # n PROVE e[i] \in States(m) \ {v}
    <3>1. (n - i) + 1 \in 2 .. n /\ 1 \in 1 .. n /\ (n - i) + 1 # 1 /\ n # 0
      BY <2>3, <1>1
    <3>2. e[i] \in States(m)
      BY <3>1, <2>1, <1>1
    <3>3. e[i] # x[1]
      BY <3>1, <2>1, <1>1
    <3> QED  BY <3>1, <3>2, <3>3, <1>1
  <2> QED  BY <2>2, <2>3
<1>10. Falls(e, m, s, v)
  BY <1>1, <1>5, <1>6, <1>7, <1>8, <1>9 DEF Falls
<1> QED  BY <1>10 DEF e

\* Where the machine is when it begins to go down a path from l.
TipAt(m, l) == IF l = Top THEN m.root ELSE l

\* The enter path leads from the tip down to the target.
LEMMA EnterPathFalls ==
    ASSUME NEW m, IsTree(m), NEW v \in m.vertex, NEW l \in Above(m, v)
    PROVE  /\ TipAt(m, l) \in m.vertex /\ TipAt(m, l) \in Above(m, v)
           /\ Falls(EnterPath(m, l, v), m, TipAt(m, l), v)
<1> DEFINE s == TipAt(m, l)
<1>1. Ordered(m, v) /\ m.root \in m.vertex /\ m.root \in Above(m, v)
  BY AboveOrdered, RootAbove DEF All, IsTree, States
<1>2. s \in m.vertex /\ s \in Above(m, v) /\ s # Top /\ s \in {l, m.root}
  BY <1>1 DEF TipAt, All, Ordered, IsTree
<1>3. ASSUME NEW u \in Above(m, v) \cap {l, m.root} PROVE u \in Above(m, s)
  <2>1. Ordered(m, s) /\ m.root \in Above(m, s)
    BY <1>2, AboveOrdered, RootAbove DEF All
  <2> QED  BY <2>1, <1>2 DEF TipAt, Ordered
<1>4. Climbs(Climb(m, v, {l, m.root}), m, v, s)
  <2> HIDE DEF s
  <2> QED  BY <1>2, <1>3, ClimbTo
<1>5. Falls(Reverse(Climb(m, v, {l, m.root})), m, s, v)
  <2> HIDE DEF s
  <2> QED  BY <1>2, <1>4, ReverseFalls
<1> QED  BY <1>2, <1>5 DEF EnterPath

\* The exit path leads from the vertex up to l.
LEMMA ExitPathClimbs ==
    ASSUME NEW m, IsTree(m), NEW v \in m.vertex, NEW l \in Above(m, v)
    PROVE  Climbs(ExitPath(m, l, v), m, v, l)
<1>1. Ordered(m, v)
  BY AboveOrdered DEF All
<1>2. l \in All(m)
  BY <1>1 DEF Ordered
<1>3. l \in Above(m, l)
  BY <1>2, AboveOrdered DEF Ordered
<1>4. Climbs(Climb(m, v, {l}), m, v, l)
  BY <1>3, ClimbTo
<1> QED  BY <1>4 DEF ExitPath

(***************************************************************************)
(* Transitions                                                             *)
(***************************************************************************)
\* LCA, for two vertices: above both, and below all that is above both.
Joins(m, l, a, b) ==
    /\ l \in Above(m, a) /\ l \in Above(m, b)
    /\ l = a => a \in States(m) /\ a # b
    /\ l = b => b \in States(m) /\ a # b
    /\ \A u \in Above(m, a) \cap Above(m, b) : u # a \/ a # b => u \in Above(m, l)

LEMMA LCAJoins ==
    ASSUME NEW m, IsTree(m), NEW a \in m.vertex, NEW b \in m.vertex
    PROVE  Joins(m, LCA(m, a, b), a, b)
<1>0. a \in All(m) /\ b \in All(m) /\ a # Top /\ b # Top
  BY DEF All, IsTree
<1>1. Ordered(m, a) /\ Ordered(m, b)
  BY <1>0, AboveOrdered
<1>2. CASE a = b
  <2> DEFINE d == Dirname(m, a)
  <2>1. LCA(m, a, b) = d
    BY <1>0, <1>2, LCAMeets
  <2>2. /\ d \in All(m) /\ Above(m, a) = {a} \cup Above(m, d) /\ a \notin Above(m, d)
    BY AboveStep
  <2>3. d \in Above(m, d)
    BY <2>2, AboveOrdered DEF Ordered
  <2> HIDE DEF d
  <2> QED  BY <1>2, <2>1, <2>2, <2>3 DEF Joins
<1>3. CASE a # b
  <2> DEFINE l == Meet(m, a, b)
  <2>1. LCA(m, a, b) = l
    BY <1>0, <1>3, LCAMeets
  <2>2. l \in All(m) /\ Above(m, a) \cap Above(m, b) = Above(m, l)
    BY <1>0, MeetIs
  <2> HIDE DEF l
  <2>3. l \in Above(m, l)
    BY <2>2, AboveOrdered DEF Ordered
  <2>4. l = a => a \in States(m)
    BY <1>0, <1>1, <1>3, <2>2, <2>3 DEF Ordered
  <2>5. l = b => b \in States(m)
    BY <1>0, <1>1, <1>3, <2>2, <2>3 DEF Ordered
  <2> QED  BY <1>3, <2>1, <2>2, <2>3, <2>4, <2>5 DEF Joins
<1> QED  BY <1>2, <1>3

\* KindResolver, on a transition that does not go to an entry point.
LEMMA KindOfEnds ==
    ASSUME NEW m, NEW t, m.target[t] # Nothing, ~Is(m, m.target[t], "entry")
    PROVE  /\ TransitionKind(m, t) = "self" <=> m.target[t] = m.source[t]
           /\ TransitionKind(m, t) = "local" <=> IsAncestor(m, m.source[t], m.target[t])
           /\ TransitionKind(m, t) = "external" <=>
                  m.target[t] # m.source[t] /\ ~IsAncestor(m, m.source[t], m.target[t])
<1>1. IsAncestor(m, m.source[t], m.target[t]) => m.target[t] # m.source[t]
  BY DEF IsAncestor
<1>2. CASE m.target[t] = m.source[t]
  <2>1. TransitionKind(m, t) = "self"
    BY <1>1, <1>2 DEF TransitionKind
  <2> QED  BY <1>1, <1>2, <2>1
<1>3. CASE IsAncestor(m, m.source[t], m.target[t])
  <2>1. TransitionKind(m, t) = "local"
    BY <1>1, <1>3 DEF TransitionKind
  <2> QED  BY <1>1, <1>3, <2>1
<1>4. CASE m.target[t] # m.source[t] /\ ~IsAncestor(m, m.source[t], m.target[t])
  <2>1. TransitionKind(m, t) = "external"
    BY <1>4 DEF TransitionKind
  <2> QED  BY <1>4, <2>1
<1> QED  BY <1>2, <1>3, <1>4

\* A transition is taken in its source or below it.
LEMMA TakenBelowSource ==
    ASSUME NEW m, IsChart(m), NEW t \in m.transition, NEW v \in CurrentVerticesFor(m, t)
    PROVE  /\ v \in m.vertex /\ m.source[t] \in m.vertex
           /\ m.source[t] \in Above(m, v)
<1>1. m.source[t] \in m.vertex /\ IsTree(m)
  BY DEF IsChart
<1>2. v = m.source[t] \/ (v \in m.vertex /\ IsAncestor(m, m.source[t], v))
  BY DEF CurrentVerticesFor, SelfOrBelow
<1>3. v \in m.vertex
  BY <1>1, <1>2
<1>4. v \in Above(m, v)
  BY <1>1, <1>3, AboveOrdered DEF Ordered, All
<1> QED  BY <1>1, <1>2, <1>3, <1>4, AncestorIsAbove

\* Where the paths of a transition meet, the vertex they are taken in is left
\* or stays a state, and the target is entered or stays one.
LEMMA PathLCAJoins ==
    ASSUME NEW m, IsChart(m), NEW t \in m.transition, NEW v \in CurrentVerticesFor(m, t),
           m.target[t] # Nothing, ~Is(m, m.target[t], "entry")
    PROVE  LET l == PathLCA(m, v, t)
           IN  /\ m.target[t] \in m.vertex
               /\ l \in Above(m, v) /\ l \in Above(m, m.target[t])
               /\ l = v => v \in States(m) /\ v # m.target[t]
               /\ l = m.target[t] => l \in States(m)
<1> DEFINE s == m.source[t]
           w == m.target[t]
           l == PathLCA(m, v, t)
<1>1. IsTree(m) /\ w \in m.vertex /\ w \in All(m)
  BY DEF IsChart, All
<1>2. v \in m.vertex /\ v \in All(m) /\ s \in m.vertex /\ s \in Above(m, v)
  BY TakenBelowSource DEF All
<1>3. Ordered(m, v) /\ Ordered(m, w)
  BY <1>1, <1>2, AboveOrdered
<1>4. CASE l = LCA(m, v, w)
  BY <1>1, <1>2, <1>4, LCAJoins DEF Joins
<1>5. CASE l = Dirname(m, w) /\ w \in Above(m, v)
  <2> DEFINE d == Dirname(m, w)
  <2>1. d \in All(m) /\ Above(m, w) = {w} \cup Above(m, d) /\ w \notin Above(m, d)
    BY <1>1, AboveStep
  <2>2. d \in Above(m, d)
    BY <1>1, <2>1, AboveOrdered DEF Ordered
  <2>3. d \in Above(m, w) /\ d \in Above(m, v) /\ d # w
    BY <2>1, <2>2, <1>3, <1>5 DEF Ordered
  <2>4. d # v
    BY <2>1, <1>5
  <2>5. l = d
    BY <1>5
  <2> QED  BY <1>1, <2>3, <2>4, <2>5
<1>6. \/ l = LCA(m, v, w)
      \/ l = Dirname(m, w) /\ w \in Above(m, v)
  <2>1. CASE t \in Initials(m)
    BY <2>1 DEF PathLCA
  <2>2. CASE t \notin Initials(m) /\ TransitionKind(m, t) = "self"
    BY <2>2, <1>2, KindOfEnds DEF PathLCA
  <2>3. CASE t \notin Initials(m) /\ TransitionKind(m, t) # "self"
    BY <2>3, AncestorIsAbove DEF PathLCA
  <2> QED  BY <2>1, <2>2, <2>3
<1> HIDE DEF l, w
<1> QED  BY <1>1, <1>4, <1>5, <1>6 DEF l, w

(***************************************************************************)
(* The tables that the runtime reads                                       *)
(***************************************************************************)
\* The vertices in the tables are those of the chart.
VerticesAre(m) ==
    /\ Of(Finalize(m))!Vertex = m.vertex /\ Of(Finalize(m))!StateVertex = States(m)
    /\ Of(Finalize(m))!Root = m.root
    /\ Of(Finalize(m))!History = Histories(m) /\ Of(Finalize(m))!EventName = m.event
    /\ \A v \in m.vertex : Of(Finalize(m))!Chain(v) = Chain(m, v)
    /\ \A v \in m.vertex : /\ Of(Finalize(m))!Kind(v) = m.kind[v]
                           /\ Of(Finalize(m))!Up(v) = IF v = m.root THEN m.root ELSE Dirname(m, v)
                           /\ Of(Finalize(m))!Up(v) \in States(m)
    /\ \A v \in m.vertex : v \in Of(Finalize(m))!EntryPoint <=> m.kind[v] = "entry"

LEMMA VerticesOf == ASSUME NEW m, IsTree(m) PROVE VerticesAre(m)
<1>1. /\ Of(Finalize(m))!Vertex = m.vertex /\ Of(Finalize(m))!StateVertex = States(m)
      /\ Of(Finalize(m))!Root = m.root
      /\ Of(Finalize(m))!History = Histories(m) /\ Of(Finalize(m))!EventName = m.event
  BY DEF Of!Vertex, Of!StateVertex, Of!Root, Of!History, Of!EventName, Finalize
<1>2. \A v \in m.vertex : /\ Of(Finalize(m))!Chain(v) = Chain(m, v)
                          /\ Of(Finalize(m))!Kind(v) = m.kind[v]
  BY DEF Of!Chain, Of!Kind, Finalize
<1>3. ASSUME NEW v \in m.vertex
      PROVE  /\ Of(Finalize(m))!Up(v) = IF v = m.root THEN m.root ELSE Dirname(m, v)
             /\ Of(Finalize(m))!Up(v) \in States(m)
  <2>1. CASE v = m.root
    BY <1>1, <2>1 DEF Of!Up, IsTree
  <2>2. CASE v # m.root
    <3> DEFINE c == Chain(m, v)
    <3>1. Rungs(c, m, v)
      BY ChainRungs
    <3> HIDE DEF c
    <3>2. Len(c) # 1
      BY <3>1, <2>2 DEF Rungs
    <3>3. 2 \in 2 .. Len(c) /\ 2 - 1 = 1
      BY <3>1, <3>2 DEF Rungs
    <3>4. c[2] = Dirname(m, c[2 - 1]) /\ c[2] \in States(m) /\ c[1] = v
      BY <3>1, <3>3 DEF Rungs
    <3>5. Of(Finalize(m))!Up(v) = c[2]
      BY <1>1, <1>2, <2>2 DEF Of!Up, c
    <3> QED  BY <2>2, <3>3, <3>4, <3>5
  <2> QED  BY <2>1, <2>2
<1>4. ASSUME NEW v \in m.vertex PROVE v \in Of(Finalize(m))!EntryPoint <=> m.kind[v] = "entry"
  BY <1>1, <1>2 DEF Of!EntryPoint, States
<1> QED  BY <1>1, <1>2, <1>3, <1>4 DEF VerticesAre

TransitionsAre(m) ==
    /\ Of(Finalize(m))!Transition = m.transition
    /\ \A v \in m.vertex : /\ Of(Finalize(m))!Initial(v) = m.initial[v]
                           /\ Of(Finalize(m))!Outgoing(v) = BranchOrder(m, v)
    /\ \A v \in States(m), e \in m.event :
           Of(Finalize(m))!TransitionMap(v, e) = TransitionMap(m, v, e)
    /\ \A t \in m.transition :
           /\ Of(Finalize(m))!Source(t) = m.source[t] /\ Of(Finalize(m))!Target(t) = m.target[t]
           /\ \A v \in m.vertex : v \in CurrentVerticesFor(m, t) =>
                  /\ Of(Finalize(m))!EnterPath(t, v) = PathForCurrent(m, v, t).enter
                  /\ Of(Finalize(m))!ExitPath(t, v) = PathForCurrent(m, v, t).exit

LEMMA TransitionsOf == ASSUME NEW m, IsTree(m) PROVE TransitionsAre(m)
<1>1. /\ Of(Finalize(m))!Transition = m.transition
      /\ \A v \in m.vertex : /\ Of(Finalize(m))!Initial(v) = m.initial[v]
                             /\ Of(Finalize(m))!Outgoing(v) = BranchOrder(m, v)
      /\ \A t \in m.transition :
             Of(Finalize(m))!Source(t) = m.source[t] /\ Of(Finalize(m))!Target(t) = m.target[t]
  BY DEF Of!Transition, Of!Initial, Of!Outgoing, Of!Source, Of!Target, Finalize
<1>2. \A v \in States(m), e \in m.event :
          Of(Finalize(m))!TransitionMap(v, e) = TransitionMap(m, v, e)
  <2>1. \A v \in States(m) : v \in m.vertex
    BY DEF States
  <2> QED  BY <2>1 DEF Of!TransitionMap, Finalize
<1>3. ASSUME NEW t \in m.transition, NEW v \in m.vertex, v \in CurrentVerticesFor(m, t)
      PROVE  /\ Of(Finalize(m))!EnterPath(t, v) = PathForCurrent(m, v, t).enter
             /\ Of(Finalize(m))!ExitPath(t, v) = PathForCurrent(m, v, t).exit
  <2>1. Finalize(m).paths = TransitionPaths(m)
    BY DEF Finalize
  <2>2. TransitionPaths(m)[t][v] = PathForCurrent(m, v, t)
    BY <1>3 DEF TransitionPaths
  <2> QED  BY <2>1, <2>2 DEF Of!EnterPath, Of!ExitPath
<1> QED  BY <1>1, <1>2, <1>3 DEF TransitionsAre

\* DefaultModelFinalizer: every vertex hangs in its parent, a state.
THEOREM FinalizedTreeShaped == ASSUME NEW m, IsTree(m) PROVE Of(Finalize(m))!TreeShaped
<1>1. VerticesAre(m)
  BY VerticesOf
<1>2. ASSUME NEW v \in m.vertex
      PROVE  LET c == Chain(m, v)
             IN  /\ c[1] = v /\ c[Len(c)] = m.root
                 /\ v = m.root \/ Len(c) > 1
                 /\ \A i \in DOMAIN c : /\ Of(Finalize(m))!Chain(c[i]) = SubSeq(c, i, Len(c))
                                        /\ i > 1 => c[i] \in States(m)
  <2> DEFINE c == Chain(m, v)
  <2>1. /\ c[1] = v /\ c[Len(c)] = m.root /\ DOMAIN c = 1 .. Len(c) /\ Len(c) \in Nat \ {0}
        /\ \A i \in 2 .. Len(c) : c[i] \in States(m)
    BY ChainLinks
  <2>2. ASSUME NEW i \in 1 .. Len(c) PROVE Of(Finalize(m))!Chain(c[i]) = SubSeq(c, i, Len(c))
    <3>1. c[i] \in m.vertex /\ Chain(m, c[i]) = SubSeq(c, i, Len(c))
      BY ChainRest
    <3> QED  BY <3>1, <1>1 DEF VerticesAre
  <2> HIDE DEF c
  <2>3. v = m.root \/ Len(c) > 1
    BY <2>1
  <2>4. \A i \in DOMAIN c : /\ Of(Finalize(m))!Chain(c[i]) = SubSeq(c, i, Len(c))
                            /\ i > 1 => c[i] \in States(m)
    BY <2>1, <2>2
  <2> QED  BY <2>1, <2>3, <2>4 DEF c
<1> QED  BY <1>1, <1>2 DEF Of!TreeShaped, VerticesAre

\* _finalize_outgoing: the same transitions, in another order.
LEMMA BranchOrderKeeps ==
    ASSUME NEW m, IsChart(m), NEW v \in m.vertex
    PROVE  /\ BranchOrder(m, v) \in Seq(m.transition)
           /\ \A i \in DOMAIN BranchOrder(m, v) :
                  \E j \in DOMAIN m.outgoing[v] : m.outgoing[v][j] = BranchOrder(m, v)[i]
           /\ \A j \in DOMAIN m.outgoing[v] :
                  \E i \in DOMAIN BranchOrder(m, v) : BranchOrder(m, v)[i] = m.outgoing[v][j]
<1> DEFINE out == m.outgoing[v]
           handlers == {t \in m.transition : Is(m, v, "exit") /\ m.target[t] = Dirname(m, v)}
           others == m.transition \ handlers
           a == Only(out, handlers)
           b == Only(out, others)
<1>1. out \in Seq(m.transition) /\ \A j \in DOMAIN out : out[j] \in m.transition
  BY DEF IsChart
<1> HIDE DEF out
<1>2. Kept(a, out, m.transition, handlers) /\ Kept(b, out, m.transition, others)
  <2> HIDE DEF handlers, others
  <2> QED  BY <1>1, OnlyKeeps
<1>3. /\ a \in Seq(m.transition \cap handlers) /\ b \in Seq(m.transition \cap others)
      /\ \A i \in DOMAIN a : \E j \in DOMAIN out : out[j] = a[i]
      /\ \A i \in DOMAIN b : \E j \in DOMAIN out : out[j] = b[i]
  <2> HIDE DEF handlers, others, a, b
  <2> QED  BY <1>2 DEF Kept
<1>9. \A j \in DOMAIN out : out[j] \in handlers => \E i \in DOMAIN a : a[i] = out[j]
  <2> HIDE DEF handlers, others, a, b
  <2> QED  BY <1>2 DEF Kept
<1>10. \A j \in DOMAIN out : out[j] \in others => \E i \in DOMAIN b : b[i] = out[j]
  <2> HIDE DEF handlers, others, a, b
  <2> QED  BY <1>2 DEF Kept
<1>4. BranchOrder(m, v) = a \o b
  BY DEF BranchOrder, out
<1> HIDE DEF a, b
<1>5. a \in Seq(m.transition) /\ b \in Seq(m.transition)
  <2> HIDE DEF handlers, others
  <2> QED  BY <1>3
<1> HIDE DEF handlers
<1>6. /\ a \o b \in Seq(m.transition)
      /\ DOMAIN (a \o b) = 1 .. Len(a) + Len(b) /\ DOMAIN a = 1 .. Len(a) /\ DOMAIN b = 1 .. Len(b)
      /\ Len(a) \in Nat /\ Len(b) \in Nat
      /\ \A i \in 1 .. Len(a) : (a \o b)[i] = a[i]
      /\ \A i \in 1 .. Len(b) : (a \o b)[Len(a) + i] = b[i]
  BY <1>5
<1> DEFINE c == a \o b
<1> HIDE DEF c
<1>7. ASSUME NEW i \in DOMAIN c PROVE \E j \in DOMAIN out : out[j] = c[i]
  <2>1. CASE i \in 1 .. Len(a)
    BY <2>1, <1>3, <1>6 DEF c
  <2>2. CASE i \notin 1 .. Len(a)
    <3>1. i - Len(a) \in 1 .. Len(b) /\ Len(a) + (i - Len(a)) = i
      BY <2>2, <1>6 DEF c
    <3>2. c[i] = b[i - Len(a)]
      BY <3>1, <1>6 DEF c
    <3> QED  BY <3>1, <3>2, <1>3, <1>6
  <2> QED  BY <2>1, <2>2
<1>8. ASSUME NEW j \in DOMAIN out PROVE \E i \in DOMAIN c : c[i] = out[j]
  <2>1. CASE out[j] \in handlers
    <3>1. PICK i \in DOMAIN a : a[i] = out[j]
      BY <2>1, <1>9
    <3>2. i \in DOMAIN c /\ c[i] = a[i]
      BY <1>6 DEF c
    <3> QED  BY <3>1, <3>2
  <2>2. CASE out[j] \notin handlers
    <3>1. PICK i \in DOMAIN b : b[i] = out[j]
      BY <2>2, <1>1, <1>10
    <3>2. Len(a) + i \in DOMAIN c /\ c[Len(a) + i] = b[i]
      BY <1>6 DEF c
    <3> QED  BY <3>1, <3>2
  <2> QED  BY <2>1, <2>2
<1> QED  BY <1>4, <1>6, <1>7, <1>8 DEF c, out

\* What the vertex v adds to the candidates for e.
Heard(m, v, e) == {t \in m.transition : /\ e \in m.events[t]
                                        /\ \/ e \notin m.deferred[v]
                                           \/ m.owner[t] = v
                                           \/ HandlesAtOrBelow(m, t, v)}

LEMMA VertexTransitionsKeep ==
    ASSUME NEW m, IsChart(m), NEW v \in m.vertex, NEW e
    PROVE  /\ VertexTransitions(m, v, e) \in Seq(m.transition)
           /\ Kept(VertexTransitions(m, v, e), m.outgoing[v], m.transition, Heard(m, v, e))
<1> DEFINE out == m.outgoing[v]
           keep == Heard(m, v, e)
<1>1. out \in Seq(m.transition)
  BY DEF IsChart
<1>2. VertexTransitions(m, v, e) = Only(out, keep)
  BY DEF VertexTransitions, Heard
<1> HIDE DEF out, keep
<1>3. Kept(Only(out, keep), out, m.transition, keep)
  BY <1>1, OnlyKeeps
<1>4. Only(out, keep) \in Seq(m.transition \cap keep)
  BY <1>3 DEF Kept
<1>5. Only(out, keep) \in Seq(m.transition)
  BY <1>4
<1> QED  BY <1>2, <1>3, <1>5 DEF out, keep

\* What the i-th vertex from s up adds to the candidates of s for e.
Part(m, s, e, i) ==
    LET c == Chain(m, s)
    IN  IF \E j \in 1 .. i - 1 : e \in m.deferred[c[j]] THEN << >>
        ELSE VertexTransitions(m, c[i], e)

\* _finalize_transition_map: the candidates are what the vertices from s up add.
LEMMA TransitionMapJoins ==
    ASSUME NEW m, IsChart(m), NEW s \in m.vertex, NEW e
    PROVE  \E ss : /\ Joined(TransitionMap(m, s, e), ss, m.transition, Len(Chain(m, s)))
                   /\ \A i \in 1 .. Len(Chain(m, s)) : ss[i] = Part(m, s, e, i)
<1> DEFINE c == Chain(m, s)
           n == Len(c)
           ss == [i \in DOMAIN c |-> Part(m, s, e, i)]
<1>1. DOMAIN c = 1 .. n /\ n \in Nat /\ \A i \in 1 .. n : c[i] \in m.vertex
  <2>1. Rungs(c, m, s)
    BY ChainRungs DEF IsChart
  <2> HIDE DEF c
  <2> QED  BY <2>1 DEF Rungs
<1>2. ASSUME NEW i \in 1 .. n PROVE Part(m, s, e, i) \in Seq(m.transition)
  <2>1. VertexTransitions(m, c[i], e) \in Seq(m.transition) /\ << >> \in Seq(m.transition)
    BY <1>1, VertexTransitionsKeep
  <2> QED  BY <2>1 DEF Part
<1>3. TransitionMap(m, s, e) = FlattenSeq(ss)
  BY DEF TransitionMap, Part
<1> HIDE DEF c, n
<1>4. /\ ss \in Seq(Seq(m.transition)) /\ Len(ss) = n
      /\ \A i \in 1 .. n : ss[i] = Part(m, s, e, i)
  <2>1. ss \in [1 .. n -> Seq(m.transition)]
    BY <1>1, <1>2
  <2>2. \A i \in 1 .. n : ss[i] = Part(m, s, e, i)
    BY <1>1
  <2> HIDE DEF ss
  <2> QED  BY <1>1, <2>1, <2>2
<1> HIDE DEF ss
<1>5. Joined(FlattenSeq(ss), ss, m.transition, n)
  BY <1>4, FlattenJoins
<1> QED  BY <1>3, <1>4, <1>5 DEF c, n

\* The candidates of a state are transitions of the state or of one above it.
LEMMA TransitionMapKeeps ==
    ASSUME NEW m, IsChart(m), NEW s \in m.vertex, NEW e
    PROVE  /\ TransitionMap(m, s, e) \in Seq(m.transition)
           /\ \A i \in DOMAIN TransitionMap(m, s, e) :
                  \E k \in 1 .. Len(Chain(m, s)) :
                      \E j \in DOMAIN m.outgoing[Chain(m, s)[k]] :
                          m.outgoing[Chain(m, s)[k]][j] = TransitionMap(m, s, e)[i]
<1> DEFINE c == Chain(m, s)
           n == Len(c)
           x == TransitionMap(m, s, e)
<1>1. \A i \in 1 .. n : c[i] \in m.vertex
  <2>1. Rungs(c, m, s)
    BY ChainRungs DEF IsChart
  <2> HIDE DEF c
  <2> QED  BY <2>1 DEF Rungs
<1>2. PICK ss : Joined(x, ss, m.transition, n) /\ \A i \in 1 .. n : ss[i] = Part(m, s, e, i)
  BY TransitionMapJoins
<1>3. ASSUME NEW i \in 1 .. n, NEW k \in DOMAIN ss[i]
      PROVE  \E j \in DOMAIN m.outgoing[c[i]] : m.outgoing[c[i]][j] = ss[i][k]
  <2>1. ss[i] = << >> \/ ss[i] = VertexTransitions(m, c[i], e)
    BY <1>2 DEF Part
  <2>2. ss[i] = VertexTransitions(m, c[i], e)
    BY <1>3, <2>1
  <2> HIDE DEF c
  <2>3. Kept(ss[i], m.outgoing[c[i]], m.transition, Heard(m, c[i], e))
    BY <1>1, <2>2, VertexTransitionsKeep
  <2> QED  BY <2>3 DEF Kept
<1> HIDE DEF x, n, c
<1>4. /\ x \in Seq(m.transition)
      /\ \A i \in DOMAIN x : \E l \in 1 .. n : \E k \in DOMAIN ss[l] : ss[l][k] = x[i]
  BY <1>2 DEF Joined
<1>5. \A i \in DOMAIN x : \E l \in 1 .. n : \E j \in DOMAIN m.outgoing[c[l]] :
          m.outgoing[c[l]][j] = x[i]
  BY <1>3, <1>4
<1> QED  BY <1>4, <1>5 DEF x, n, c

\* Where a transition is followed from.
FollowedFrom(m, t, v) ==
    /\ t \in m.transition /\ v \in m.vertex /\ v \in CurrentVerticesFor(m, t)
    /\ v \in States(m) => m.source[t] \in States(m)
    /\ v \notin States(m) => /\ m.source[t] = v /\ m.target[t] # Nothing
                             /\ ~(Is(m, v, "exit") /\ m.target[t] = Dirname(m, v))

LEMMA FiresFollows ==
    ASSUME NEW m, IsChart(m), NEW t \in m.transition, NEW v \in m.vertex,
           Of(Finalize(m))!Fires(t, v)
    PROVE  FollowedFrom(m, t, v)
<1>1. IsTree(m) /\ VerticesAre(m) /\ TransitionsAre(m)
  BY VerticesOf, TransitionsOf DEF IsChart
<1>2. CASE v \in States(m)
  <2>1. CASE t = m.initial[v] /\ t # Nothing
    <3>1. t \in Initials(m) /\ m.source[t] = v
      BY <1>2, <2>1 DEF IsChart, Initials
    <3> QED  BY <1>2, <3>1 DEF FollowedFrom, CurrentVerticesFor
  <2>2. CASE ~(t = m.initial[v] /\ t # Nothing)
    <3>1. \E n \in m.event : \E i \in DOMAIN Of(Finalize(m))!TransitionMap(v, n) :
              Of(Finalize(m))!TransitionMap(v, n)[i] = t
      BY <1>1, <1>2, <2>2 DEF Of!Fires, VerticesAre, TransitionsAre
    <3>2. PICK n \in m.event :
              \E i \in DOMAIN TransitionMap(m, v, n) : TransitionMap(m, v, n)[i] = t
      BY <3>1, <1>1, <1>2 DEF TransitionsAre
    <3> DEFINE c == Chain(m, v)
    <3>3. PICK k \in 1 .. Len(c) : \E j \in DOMAIN m.outgoing[c[k]] : m.outgoing[c[k]][j] = t
      BY <3>2, TransitionMapKeeps
    <3>4. Rungs(c, m, v)
      BY <1>1, ChainRungs
    <3> HIDE DEF c
    <3>5. c[k] \in m.vertex /\ c[k] \in Above(m, v)
      BY <3>4 DEF Rungs
    <3>6. c[k] \in States(m)
      <4>1. CASE k = 1
        BY <4>1, <3>4, <1>2 DEF Rungs
      <4>2. CASE k # 1
        <5>1. k \in 2 .. Len(c)
          BY <4>2, <3>4 DEF Rungs
        <5> QED  BY <5>1, <3>4 DEF Rungs
      <4> QED  BY <4>1, <4>2
    <3>7. m.source[t] = c[k]
      BY <3>3, <3>5 DEF IsChart
    <3>8. v = c[k] \/ IsAncestor(m, c[k], v)
      BY <3>5, AncestorIsAbove
    <3>9. t \notin Initials(m)
      <4>1. m.outgoing[c[k]] \in Seq(m.transition \ Initials(m))
        BY <3>5 DEF IsChart
      <4> QED  BY <4>1, <3>3
    <3>10. m.kind[c[k]] # "choice"
      BY <3>6 DEF States
    <3>11. v \in CurrentVerticesFor(m, t)
      BY <3>7, <3>8, <3>9, <3>10 DEF CurrentVerticesFor, SelfOrBelow
    <3> QED  BY <3>6, <3>7, <3>11, <1>2 DEF FollowedFrom
  <2> QED  BY <2>1, <2>2
<1>3. CASE v \notin States(m)
  <2>1. /\ ~Of(Finalize(m))!IsHandler(t)
        /\ \E i \in DOMAIN BranchOrder(m, v) : BranchOrder(m, v)[i] = t
    BY <1>1, <1>3 DEF Of!Fires, VerticesAre, TransitionsAre
  <2>2. PICK j \in DOMAIN m.outgoing[v] : m.outgoing[v][j] = t
    BY <2>1, BranchOrderKeeps
  <2>3. m.source[t] = v /\ m.target[t] # Nothing
    BY <2>2, <1>3 DEF IsChart
  <2>4. t \notin Initials(m)
    <3>1. m.outgoing[v] \in Seq(m.transition \ Initials(m))
      BY DEF IsChart
    <3> QED  BY <3>1, <2>2
  <2>5. v \in CurrentVerticesFor(m, t)
    BY <2>3 DEF CurrentVerticesFor, SelfOrBelow
  <2>6. ~(Is(m, v, "exit") /\ m.target[t] = Dirname(m, v))
    <3> SUFFICES ASSUME m.kind[v] = "exit", m.target[t] = Dirname(m, v) PROVE FALSE
      BY DEF Is
    <3>1. v # m.root
      BY <1>1, <1>3 DEF IsTree
    <3> DEFINE c == Chain(m, v)
    <3>2. Rungs(c, m, v) /\ Of(Finalize(m))!Chain(v) = c
      BY <1>1, ChainRungs DEF VerticesAre
    <3> HIDE DEF c
    <3>3. Len(c) # 1
      BY <3>2, <3>1 DEF Rungs
    <3>4. 2 \in 2 .. Len(c) /\ 2 - 1 = 1 /\ c[1] = v
      BY <3>2, <3>3 DEF Rungs
    <3>5. c[2] = Dirname(m, v)
      BY <3>2, <3>4 DEF Rungs
    <3>6. Of(Finalize(m))!IsHandler(t)
      BY <1>1, <2>3, <3>2, <3>5 DEF Of!IsHandler, VerticesAre, TransitionsAre
    <3> QED  BY <3>6, <2>1
  <2> QED  BY <1>3, <2>3, <2>5, <2>6 DEF FollowedFrom
<1> QED  BY <1>2, <1>3

LEMMA FallsDescends ==
    ASSUME NEW m, IsTree(m), NEW v \in m.vertex, NEW s \in m.vertex, v # s,
           m.kind[v] # "entry", NEW e, Falls(e, m, s, v)
    PROVE  Of(Finalize(m))!Descends(e, s, v)
<1>1. VerticesAre(m)
  BY VerticesOf
<1>2. e \in Seq(m.vertex) /\ Len(e) \in Nat \ {0} /\ DOMAIN e = 1 .. Len(e)
  BY DEF Falls
<1>3. e[Len(e)] = v /\ Dirname(m, e[1]) = s
  BY <1>2 DEF Falls
<1>4. \A i \in 2 .. Len(e) : Dirname(m, e[i]) = e[i - 1]
  BY DEF Falls
<1>5. \A i \in 1 .. Len(e) : e[i] # m.root /\ (i # Len(e) => e[i] \in States(m) \ {v})
  BY DEF Falls
<1>6. \A i \in 1 .. Len(e) : e[i] \in m.vertex
  BY <1>2
<1>7. ASSUME NEW i \in DOMAIN e PROVE Of(Finalize(m))!Foot(e[i]) = IF i = 1 THEN s ELSE e[i - 1]
  <2>1. e[i] \in m.vertex /\ e[i] # m.root
    BY <1>2, <1>5, <1>6
  <2>2. m.kind[e[i]] # "entry"
    BY <1>2, <1>3, <1>5 DEF States
  <2>3. Of(Finalize(m))!Foot(e[i]) = Dirname(m, e[i])
    <3>1. e[i] \notin Of(Finalize(m))!EntryPoint /\ Of(Finalize(m))!Up(e[i]) = Dirname(m, e[i])
      BY <1>1, <2>1, <2>2 DEF VerticesAre
    <3> QED  BY <3>1 DEF Of!Foot
  <2>4. i # 1 => i \in 2 .. Len(e)
    BY <1>2
  <2> QED  BY <1>3, <1>4, <2>3, <2>4
<1>8. ASSUME NEW i \in 1 .. Len(e) - 1
      PROVE  e[i] \in Of(Finalize(m))!StateVertex \ {Of(Finalize(m))!Root, v}
  <2>1. i \in 1 .. Len(e) /\ i # Len(e)
    BY <1>2
  <2>2. e[i] # m.root /\ e[i] \in States(m) \ {v}
    BY <1>5, <2>1
  <2> QED  BY <1>1, <2>2 DEF VerticesAre
<1>9. e # << >>
  BY <1>2
<1> QED  BY <1>3, <1>7, <1>8, <1>9 DEF Of!Descends

LEMMA ClimbsAscends ==
    ASSUME NEW m, IsTree(m), NEW v \in m.vertex, m.kind[v] # "entry",
           NEW l \in Above(m, v), l = v => v \in States(m),
           NEW x, Climbs(x, m, v, l)
    PROVE  Of(Finalize(m))!Ascends(x, v) /\ Of(Finalize(m))!Summit(x, v) = TipAt(m, l)
<1>1. VerticesAre(m) /\ v # Top
  BY VerticesOf DEF IsTree
<1>2. /\ x \in Seq(m.vertex) /\ Len(x) \in Nat /\ DOMAIN x = 1 .. Len(x)
      /\ Len(x) = 0 <=> v = l
      /\ Len(x) # 0 => x[1] = v /\ Dirname(m, x[Len(x)]) = l
      /\ \A i \in 2 .. Len(x) : x[i] = Dirname(m, x[i - 1]) /\ x[i] \in States(m)
  BY DEF Climbs
<1>3. \A i \in 1 .. Len(x) : x[i] \in m.vertex
  BY <1>2
<1>4. ASSUME NEW i \in DOMAIN x PROVE x[i] = IF i = 1 THEN v ELSE Of(Finalize(m))!Up(x[i - 1])
  <2>1. CASE i = 1
    <3>1. Len(x) # 0
      BY <1>2
    <3> QED  BY <2>1, <3>1, <1>2
  <2>2. CASE i # 1
    <3>1. i \in 2 .. Len(x) /\ i - 1 \in 1 .. Len(x)
      BY <2>2, <1>2
    <3>2. x[i] = Dirname(m, x[i - 1]) /\ x[i] \in m.vertex /\ x[i - 1] \in m.vertex
      BY <3>1, <1>2, <1>3 DEF States
    <3>3. x[i - 1] # m.root
      BY <3>2 DEF Dirname, IsTree
    <3> QED  BY <2>2, <3>2, <3>3, <1>1 DEF VerticesAre
  <2> QED  BY <2>1, <2>2
<1>5. Of(Finalize(m))!Ascends(x, v)
  BY <1>1, <1>4 DEF Of!Ascends, VerticesAre
<1>6. CASE Len(x) = 0
  <2>1. x = << >> /\ v = l /\ v \in States(m)
    BY <1>2, <1>6
  <2>2. Of(Finalize(m))!Summit(x, v) = v
    BY <1>1, <2>1 DEF Of!Summit, Of!Base, VerticesAre
  <2> QED  BY <1>1, <1>5, <2>1, <2>2 DEF TipAt
<1>7. CASE Len(x) # 0
  <2>1. x # << >> /\ Len(x) \in 1 .. Len(x)
    BY <1>2, <1>7
  <2>2. x[Len(x)] \in m.vertex /\ Dirname(m, x[Len(x)]) = l
    BY <1>2, <1>3, <1>7, <2>1
  <2>3. l = Top <=> x[Len(x)] = m.root
    BY <2>2, AboveStep
  <2>4. Of(Finalize(m))!Summit(x, v) = Of(Finalize(m))!Up(x[Len(x)])
    BY <2>1 DEF Of!Summit
  <2> QED  BY <1>1, <1>5, <2>2, <2>3, <2>4 DEF TipAt, VerticesAre
<1> QED  BY <1>6, <1>7

\* The paths of a transition that is not about an entry or exit point.
Plain(m, t) ==
    /\ m.target[t] # Nothing /\ ~Is(m, m.target[t], "entry") /\ ~Is(m, m.source[t], "entry")
    /\ ~(Is(m, m.source[t], "exit") /\ m.target[t] = Dirname(m, m.source[t]))

LEMMA PlainPaths ==
    ASSUME NEW m, IsChart(m), NEW t \in m.transition, NEW v \in CurrentVerticesFor(m, t),
           Plain(m, t)
    PROVE  LET l == PathLCA(m, v, t)
               p == PathForCurrent(m, v, t)
               w == m.target[t]
           IN  /\ v \in m.vertex /\ w \in m.vertex
               /\ l \in Above(m, v) /\ l \in Above(m, w)
               /\ l = v => v \in States(m) /\ v # w
               /\ l = w => w \in States(m)
               /\ Climbs(p.exit, m, v, l)
               /\ TipAt(m, l) \in m.vertex /\ TipAt(m, l) \in Above(m, w)
               /\ Falls(p.enter, m, TipAt(m, l), w)
<1> DEFINE l == PathLCA(m, v, t)
           p == PathForCurrent(m, v, t)
           w == m.target[t]
<1>1. IsTree(m) /\ v \in m.vertex
  BY TakenBelowSource DEF IsChart
<1>2. /\ w \in m.vertex /\ l \in Above(m, v) /\ l \in Above(m, w)
      /\ l = v => v \in States(m) /\ v # w
      /\ l = w => w \in States(m)
  BY PathLCAJoins DEF Plain
<1>3. p = [enter |-> EnterPath(m, l, w), exit |-> ExitPath(m, l, v)]
  BY DEF Plain, PathForCurrent
<1> HIDE DEF l
<1>4. Climbs(p.exit, m, v, l)
  BY <1>1, <1>2, <1>3, ExitPathClimbs
<1>5. /\ TipAt(m, l) \in m.vertex /\ TipAt(m, l) \in Above(m, w)
      /\ Falls(p.enter, m, TipAt(m, l), w)
  BY <1>1, <1>2, <1>3, EnterPathFalls
<1> QED  BY <1>1, <1>2, <1>4, <1>5 DEF l

\* _finalize_path_for_current: in every chart, going up the exit path of a
\* transition and down its enter path leads from wherever it is followed to
\* its target, nothing entered twice; without a target nothing is left.
THEOREM FinalizedPathsLead == ASSUME NEW m, IsChart(m) PROVE Of(Finalize(m))!PathsLead
<1>0. IsTree(m) /\ VerticesAre(m) /\ TransitionsAre(m)
  BY VerticesOf, TransitionsOf DEF IsChart
<1> SUFFICES ASSUME NEW t \in m.transition, NEW v \in m.vertex,
                    Of(Finalize(m))!Fires(t, v), ~Of(Finalize(m))!ByEntryPoint(t, v)
             PROVE  Of(Finalize(m))!Leads(t, v)
  BY <1>0 DEF Of!PathsLead, VerticesAre, TransitionsAre
<1> DEFINE p == PathForCurrent(m, v, t)
           w == m.target[t]
<1>1. FollowedFrom(m, t, v)
  BY FiresFollows
<1>2. v \in CurrentVerticesFor(m, t)
  BY <1>1 DEF FollowedFrom
<1>3. /\ Of(Finalize(m))!EnterPath(t, v) = p.enter /\ Of(Finalize(m))!ExitPath(t, v) = p.exit
      /\ Of(Finalize(m))!Target(t) = w
  BY <1>0, <1>2 DEF TransitionsAre
<1>4. m.kind[v] # "entry" /\ ~Is(m, w, "entry")
  BY <1>0, <1>3 DEF Of!ByEntryPoint, VerticesAre, Is
<1>5. CASE w = Nothing
  <2>1. v \in States(m)
    BY <1>1, <1>5 DEF FollowedFrom
  <2>2. p.exit = << >>
    BY <1>5 DEF PathForCurrent, NoPath
  <2>3. Of(Finalize(m))!Ascends(p.exit, v)
    BY <2>2 DEF Of!Ascends
  <2> QED  BY <1>0, <1>3, <1>5, <2>1, <2>2, <2>3 DEF Of!Leads, VerticesAre
<1>6. CASE w # Nothing
  <2> DEFINE l == PathLCA(m, v, t)
             s == TipAt(m, l)
  <2>1. Plain(m, t)
    BY <1>1, <1>4, <1>6 DEF Plain, FollowedFrom, States, Is
  <2>2. /\ w \in m.vertex /\ v \in m.vertex /\ l \in Above(m, v)
        /\ Climbs(p.exit, m, v, l) /\ s \in m.vertex /\ Falls(p.enter, m, s, w)
    BY <1>2, <2>1, PlainPaths
  <2>3. l = v => v \in States(m)
    BY <1>2, <2>1, PlainPaths
  <2> HIDE DEF l, w, p, s
  <2>4. Of(Finalize(m))!Ascends(p.exit, v) /\ Of(Finalize(m))!Summit(p.exit, v) = TipAt(m, l)
    BY <1>0, <1>2, <1>4, <2>2, <2>3, ClimbsAscends
  <2>5. w \in m.vertex /\ m.kind[w] # "entry"
    BY <2>2, <1>4 DEF Is
  <2>6. CASE w = s
    <3>1. p.enter = << >>
      BY <2>2, <2>6 DEF Falls
    <3> QED  BY <1>0, <1>3, <1>6, <2>4, <2>6, <3>1 DEF Of!Leads, s
  <2>7. CASE w # s
    <3>1. Of(Finalize(m))!Descends(p.enter, s, w)
      BY <1>0, <2>2, <2>5, <2>7, FallsDescends
    <3>2. p.enter # << >>
      BY <2>2, <2>7 DEF Falls
    <3> QED  BY <1>0, <1>3, <1>6, <2>4, <3>1, <3>2 DEF Of!Leads, s
  <2> QED  BY <2>6, <2>7
<1> QED  BY <1>5, <1>6

\* A vertex that is neither the root nor l itself is the end of its enter path.
LEMMA EnterPathEnds ==
    ASSUME NEW m, IsTree(m), NEW w \in m.vertex, NEW l, w # l, w # m.root
    PROVE  EnterPath(m, l, w) # << >> /\ EnterPath(m, l, w)[Len(EnterPath(m, l, w))] = w
<1> DEFINE e == EnterPath(m, l, w)
<1>1. \E s \in m.vertex : s # w /\ Falls(e, m, s, w)
  <2>1. CASE l \in Above(m, w)
    <3>1. TipAt(m, l) \in m.vertex /\ Falls(e, m, TipAt(m, l), w)
      BY <2>1, EnterPathFalls
    <3>2. TipAt(m, l) # w
      BY DEF TipAt
    <3> QED  BY <3>1, <3>2
  <2>2. CASE l \notin Above(m, w)
    <3>1. m.root \in m.vertex /\ m.root \in Above(m, w)
      BY RootAbove DEF IsTree, States
    <3>2. m.root \in Above(m, m.root)
      BY <3>1, RootAbove
    <3>3. Climbs(Climb(m, w, {l, m.root}), m, w, m.root)
      BY <2>2, <3>1, <3>2, ClimbTo
    <3>4. Falls(e, m, m.root, w)
      BY <3>1, <3>3, ReverseFalls DEF EnterPath
    <3> QED  BY <3>1, <3>4
  <2> QED  BY <2>1, <2>2
<1>2. PICK s \in m.vertex : s # w /\ Falls(e, m, s, w)
  BY <1>1
<1> HIDE DEF e
<1>3. Len(e) # 0 /\ e[Len(e)] = w
  BY <1>2 DEF Falls
<1>4. e # << >>
  BY <1>3
<1> QED  BY <1>3, <1>4 DEF e

\* _finalize_path_for_current: a transition to a pseudostate enters it last.
THEOREM FinalizedPathsEnd == ASSUME NEW m, IsChart(m) PROVE Of(Finalize(m))!PathsEnd
<1>0. IsTree(m) /\ VerticesAre(m) /\ TransitionsAre(m)
  BY VerticesOf, TransitionsOf DEF IsChart
<1> SUFFICES ASSUME NEW t \in m.transition, NEW v \in m.vertex, Of(Finalize(m))!Fires(t, v),
                    m.target[t] \in m.vertex \ States(m)
             PROVE  LET e == Of(Finalize(m))!EnterPath(t, v)
                    IN  e # << >> /\ e[Len(e)] = m.target[t]
  BY <1>0 DEF Of!PathsEnd, VerticesAre, TransitionsAre
<1> DEFINE p == PathForCurrent(m, v, t)
           w == m.target[t]
<1>1. FollowedFrom(m, t, v)
  BY FiresFollows
<1>2. v \in CurrentVerticesFor(m, t)
  BY <1>1 DEF FollowedFrom
<1>3. Of(Finalize(m))!EnterPath(t, v) = p.enter
  BY <1>0, <1>2 DEF TransitionsAre
<1>4. w \in m.vertex /\ w # Nothing /\ w # m.root /\ w # Top /\ m.source[t] \in m.vertex
  BY <1>0 DEF IsTree, IsChart
<1>5. ~(Is(m, m.source[t], "exit") /\ w = Dirname(m, m.source[t]))
  <2>1. Dirname(m, m.source[t]) \in States(m) \cup {Top}
    BY <1>0, <1>4, AboveStep
  <2> QED  BY <2>1, <1>4
<1>6. CASE Is(m, m.source[t], "entry")
  <2> DEFINE l == Dirname(m, Boundary(m, m.source[t]))
  <2>1. p.enter = EnterPath(m, l, w)
    BY <1>4, <1>5, <1>6 DEF PathForCurrent
  <2>2. l # w
    <3>1. \A u \in All(m) : Dirname(m, u) \in All(m) /\ Dirname(m, u) # w
      <4>1. States(m) \subseteq m.vertex /\ w \notin States(m)
        BY DEF States
      <4> QED  BY <1>0, <1>4, <4>1, AboveStep, AboveTop DEF All
    <3> HIDE DEF w
    <3>2. Boundary(m, m.source[t]) \in All(m)
      BY <1>4, <3>1 DEF Boundary, All
    <3> QED  BY <3>1, <3>2
  <2> HIDE DEF l
  <2> QED  BY <1>0, <1>3, <1>4, <2>1, <2>2, EnterPathEnds
<1>7. CASE ~Is(m, m.source[t], "entry") /\ Is(m, w, "entry")
  <2>1. p.enter = <<w>>
    BY <1>4, <1>5, <1>7 DEF PathForCurrent
  <2> QED  BY <1>3, <2>1
<1>8. CASE ~Is(m, m.source[t], "entry") /\ ~Is(m, w, "entry")
  <2> DEFINE l == PathLCA(m, v, t)
  <2>1. Plain(m, t)
    BY <1>4, <1>5, <1>8 DEF Plain
  <2>2. l = w => w \in States(m)
    BY <1>2, <2>1, PlainPaths
  <2>3. Falls(p.enter, m, TipAt(m, l), w)
    BY <1>2, <2>1, PlainPaths
  <2> HIDE DEF l, p
  <2>4. w # TipAt(m, l)
    BY <1>4, <2>2 DEF TipAt
  <2>5. Len(p.enter) # 0 /\ p.enter[Len(p.enter)] = w
    BY <2>3, <2>4 DEF Falls
  <2>6. p.enter # << >>
    BY <2>5
  <2> QED  BY <1>3, <2>5, <2>6
<1> QED  BY <1>6, <1>7, <1>8

(***************************************************************************)
(* Entry points                                                            *)
(***************************************************************************)
\* Of two vertices above a third, one is above the other.
LEMMA AboveLinear ==
    ASSUME NEW m, IsTree(m), NEW v \in m.vertex,
           NEW a \in Above(m, v), NEW b \in Above(m, v)
    PROVE  a \in Above(m, b) \/ b \in Above(m, a)
<1> DEFINE c == Chain(m, v)
<1>1. Rungs(c, m, v)
  BY ChainRungs
<1>2. CASE a = Top \/ b = Top
  BY <1>2 DEF Above
<1>3. CASE a # Top /\ b # Top
  <2> HIDE DEF c
  <2>1. PICK i \in 1 .. Len(c) : c[i] = a
    BY <1>1, <1>3 DEF Rungs
  <2>2. PICK j \in 1 .. Len(c) : c[j] = b
    BY <1>1, <1>3 DEF Rungs
  <2>3. Len(c) \in Nat
    BY <1>1 DEF Rungs
  <2>4. CASE i <= j
    <3>1. j \in i .. Len(c)
      BY <2>3, <2>4
    <3> QED  BY <3>1, <2>1, <2>2, <1>1 DEF Rungs
  <2>5. CASE ~(i <= j)
    <3>1. i \in j .. Len(c)
      BY <2>3, <2>5
    <3> QED  BY <3>1, <2>1, <2>2, <1>1 DEF Rungs
  <2> QED  BY <2>4, <2>5
<1> QED  BY <1>2, <1>3

\* Where the machine is when it may enter an entry point: in the parent of its
\* submachine.
LEMMA FootOfEntry ==
    ASSUME NEW m, IsTree(m), NEW v \in m.vertex, m.kind[v] = "entry"
    PROVE  Of(Finalize(m))!Foot(v) = TipAt(m, Dirname(m, Boundary(m, v)))
<1>1. VerticesAre(m)
  BY VerticesOf
<1>2. ASSUME NEW u \in m.vertex
      PROVE  Of(Finalize(m))!Up(u) = TipAt(m, Dirname(m, u))
  <2>1. u = m.root <=> Dirname(m, u) = Top
    BY AboveStep
  <2> QED  BY <1>1, <2>1 DEF VerticesAre, TipAt
<1> DEFINE p == Dirname(m, v)
<1>3. v # m.root
  BY DEF IsTree, States
<1>4. p \in m.vertex /\ p # Top
  <2>1. p \in States(m) \cup {Top} /\ p # Top
    BY <1>3, AboveStep
  <2> QED  BY <2>1 DEF States
<1>5. Of(Finalize(m))!Up(v) = p
  BY <1>2, <1>4 DEF TipAt
<1>6. Of(Finalize(m))!Foot(v) = Of(Finalize(m))!Up(Of(Finalize(m))!Boundary(v))
  BY <1>1 DEF Of!Foot, VerticesAre
<1> HIDE DEF p
<1>7. CASE m.kind[p] = "submachine"
  <2>1. Of(Finalize(m))!Boundary(v) = p
    BY <1>1, <1>4, <1>5, <1>7 DEF Of!Boundary, VerticesAre
  <2>2. Boundary(m, v) = p
    BY <1>4, <1>7 DEF Boundary, Is, p
  <2> QED  BY <1>2, <1>4, <1>6, <2>1, <2>2
<1>8. CASE m.kind[p] # "submachine"
  <2>1. Of(Finalize(m))!Boundary(v) = TipAt(m, Dirname(m, p))
    BY <1>1, <1>2, <1>4, <1>5, <1>8 DEF Of!Boundary, VerticesAre
  <2>2. Boundary(m, v) = Dirname(m, p)
    BY <1>4, <1>8 DEF Boundary, Is, p
  <2>3. CASE Dirname(m, p) = Top
    <3>1. m.root \in m.vertex /\ Dirname(m, m.root) = Top /\ Dirname(m, Top) = Top
      BY DEF IsTree, States, Dirname
    <3>2. Of(Finalize(m))!Boundary(v) = m.root
      BY <2>1, <2>3 DEF TipAt
    <3> QED  BY <1>2, <1>6, <2>2, <2>3, <3>1, <3>2
  <2>4. CASE Dirname(m, p) # Top
    <3>1. Dirname(m, p) \in m.vertex
      BY <1>4, <2>4, AboveStep DEF All
    <3>2. Of(Finalize(m))!Boundary(v) = Dirname(m, p)
      BY <2>1, <2>4 DEF TipAt
    <3> QED  BY <1>2, <1>6, <2>2, <3>1, <3>2
  <2> QED  BY <2>3, <2>4
<1> QED  BY <1>7, <1>8

\* LCA, of a vertex below the parent of b that is not in b.
LEMMA LCAOutside ==
    ASSUME NEW m, IsTree(m), NEW v \in m.vertex, NEW b \in m.vertex,
           Dirname(m, b) \in Above(m, v), v = b \/ b \notin Above(m, v)
    PROVE  LCA(m, v, b) = Dirname(m, b)
<1> DEFINE d == Dirname(m, b)
<1>1. v \in All(m) /\ b \in All(m)
  BY DEF All
<1>2. CASE v = b
  BY <1>1, <1>2, LCAMeets
<1>3. CASE b \notin Above(m, v)
  <2>1. d \in All(m) /\ Above(m, b) = {b} \cup Above(m, d)
    BY AboveStep
  <2>2. Above(m, d) \subseteq Above(m, v) /\ v \in Above(m, v)
    BY <1>1, AboveOrdered DEF Ordered
  <2> HIDE DEF d
  <2>3. Above(m, v) \cap Above(m, b) = Above(m, d)
    BY <1>3, <2>1, <2>2
  <2>4. d = Meet(m, v, b)
    BY <1>1, <2>1, <2>3, MeetIs
  <2> QED  BY <1>1, <1>3, <2>2, <2>4, LCAMeets DEF d
<1> QED  BY <1>2, <1>3

\* A transition to an entry point leaves what is below the parent of its
\* submachine.
LEMMA EntryLCAIs ==
    ASSUME NEW m, IsChart(m), PointsApart(m),
           NEW t \in m.transition, NEW v \in CurrentVerticesFor(m, t),
           ~Is(m, m.source[t], "entry"), Is(m, m.target[t], "entry")
    PROVE  LET l == Dirname(m, Boundary(m, m.target[t]))
           IN  EntryLCA(m, v, t) = l /\ l \in Above(m, v) /\ (l = v => v \in States(m))
<1> DEFINE s == m.source[t]
           w == m.target[t]
           b == Boundary(m, w)
           l == Dirname(m, b)
<1>1. IsTree(m) /\ v \in m.vertex /\ s \in m.vertex /\ s \in Above(m, v)
  BY TakenBelowSource DEF IsChart
<1>2. /\ b \in m.vertex
      /\ \/ t \in Initials(m) /\ s = l
         \/ IsAncestor(m, l, s) /\ ~IsAncestor(m, b, s)
  BY DEF PointsApart, Is
<1> HIDE DEF b
<1>3. /\ l \in States(m) \cup {Top} /\ Above(m, b) = {b} \cup Above(m, l) /\ b \notin Above(m, l)
      /\ v \in All(m) /\ s \in All(m) /\ b \in All(m) /\ v # Top /\ s # Top /\ b # Top
  BY <1>1, <1>2, AboveStep DEF All, IsTree
<1>4. Ordered(m, v) /\ Ordered(m, s) /\ Ordered(m, b)
  BY <1>1, <1>3, AboveOrdered
<1> HIDE DEF l
<1>5. l = v => v \in States(m)
  BY <1>3
<1>6. TransitionKind(m, t) # "self"
  <2>1. w # s
    OBVIOUS
  <2>2. TransitionKind(m, t) = "self" => w = s
    BY DEF TransitionKind
  <2> QED  BY <2>1, <2>2
<1>7. EntryLCA(m, v, t) = IF s = b THEN l ELSE LCA(m, v, b)
  BY <1>6 DEF EntryLCA, l, b
<1>8. CASE s = b
  <2>1. l \in Above(m, b)
    <3>1. l \in Above(m, l)
      BY <1>1, <1>3, AboveOrdered DEF Ordered, All, States
    <3> QED  BY <1>3, <3>1
  <2>2. l \in Above(m, v)
    BY <1>1, <1>4, <1>8, <2>1 DEF Ordered
  <2> QED  BY <1>5, <1>7, <1>8, <2>2 DEF l, b
<1>9. CASE s # b
  <2>1. l \in Above(m, v) /\ b \notin Above(m, v)
    <3>1. CASE t \in Initials(m) /\ s = l
      <4>1. v = s
        BY <3>1 DEF CurrentVerticesFor
      <4> QED  BY <1>3, <1>4, <3>1, <4>1 DEF Ordered
    <3>2. CASE IsAncestor(m, l, s) /\ ~IsAncestor(m, b, s)
      <4>1. l # s /\ l \in Above(m, s) /\ b \notin Above(m, s)
        BY <1>9, <3>2, AncestorIsAbove
      <4>2. l \in Above(m, v)
        BY <1>1, <1>4, <4>1 DEF Ordered
      <4>3. b \in Above(m, v) => s \in Above(m, b)
        BY <1>1, <4>1, AboveLinear
      <4>4. s \in Above(m, b) => s \in Above(m, l)
        BY <1>3, <1>9
      <4>5. s \in Above(m, l) => s = l
        <5>1. l \in All(m)
          BY <1>3 DEF All, States
        <5> QED  BY <5>1, <1>1, <1>3, <4>1, AboveAntisymmetric
      <4> QED  BY <4>1, <4>2, <4>3, <4>4, <4>5
    <3> QED  BY <1>2, <3>1, <3>2
  <2>2. LCA(m, v, b) = l
    BY <1>1, <1>2, <2>1, LCAOutside DEF l
  <2> QED  BY <1>5, <1>7, <1>9, <2>1, <2>2 DEF l, b
<1> QED  BY <1>8, <1>9

\* _finalize_path_for_current: in a chart whose entry points are reached from
\* outside of their submachines, the paths to and from them join as the others
\* do: up the exit path, the point, and down from the parent of the submachine.
THEOREM FinalizedPointsJoin ==
    ASSUME NEW m, IsChart(m), PointsApart(m)
    PROVE  Of(Finalize(m))!PointsJoin
<1>0. IsTree(m) /\ VerticesAre(m) /\ TransitionsAre(m) /\ Nothing \notin m.vertex
  BY VerticesOf, TransitionsOf DEF IsChart, IsTree
<1> SUFFICES ASSUME NEW t \in m.transition, NEW v \in m.vertex,
                    Of(Finalize(m))!Fires(t, v), Of(Finalize(m))!ByEntryPoint(t, v)
             PROVE  Of(Finalize(m))!Leads(t, v)
  BY <1>0 DEF Of!PointsJoin, VerticesAre, TransitionsAre
<1> DEFINE p == PathForCurrent(m, v, t)
           w == m.target[t]
           s == m.source[t]
<1>1. FollowedFrom(m, t, v)
  BY FiresFollows
<1>2. v \in CurrentVerticesFor(m, t) /\ s \in m.vertex
  BY <1>1 DEF FollowedFrom, IsChart
<1>3. /\ Of(Finalize(m))!EnterPath(t, v) = p.enter /\ Of(Finalize(m))!ExitPath(t, v) = p.exit
      /\ Of(Finalize(m))!Target(t) = w
  BY <1>0, <1>2 DEF TransitionsAre
<1>4. /\ w # Nothing => w \in m.vertex
      /\ m.kind[v] = "entry" \/ Is(m, w, "entry")
      /\ v \notin States(m) => s = v /\ w # Nothing
      /\ m.kind[v] = "entry" => v \notin States(m)
  <2>1. w # Nothing => w \in m.vertex
    BY DEF IsChart
  <2>2. m.kind[v] = "entry" \/ Is(m, w, "entry")
    <3>1. v \in Of(Finalize(m))!EntryPoint \/ w \in Of(Finalize(m))!EntryPoint
      BY <1>3 DEF Of!ByEntryPoint
    <3>2. w \in Of(Finalize(m))!EntryPoint => w \in m.vertex
      BY <1>0 DEF Of!EntryPoint, VerticesAre
    <3> QED  BY <1>0, <3>1, <3>2 DEF VerticesAre, Is
  <2>3. v \notin States(m) => s = v /\ w # Nothing
    BY <1>1 DEF FollowedFrom
  <2>4. m.kind[v] = "entry" => v \notin States(m)
    BY DEF States
  <2> HIDE DEF s, w
  <2> QED  BY <2>1, <2>2, <2>3, <2>4
<1>5. CASE m.kind[v] = "entry"
  <2> DEFINE l == Dirname(m, Boundary(m, v))
             tip == TipAt(m, l)
  <2>1. s = v /\ w \in m.vertex /\ Is(m, s, "entry")
    BY <1>4, <1>5 DEF Is
  <2>2. m.kind[w] # "entry" /\ l \in Above(m, w)
    <3>1. ~Is(m, w, "entry") /\ (w = l \/ IsAncestor(m, l, w))
      BY <2>1 DEF PointsApart
    <3>2. w \in Above(m, w)
      BY <1>0, <2>1, AboveOrdered DEF Ordered, All
    <3> QED  BY <2>1, <3>1, <3>2, AncestorIsAbove DEF Is
  <2>3. p = [enter |-> EnterPath(m, l, w), exit |-> << >>]
    BY <1>0, <2>1 DEF PathForCurrent, Is
  <2>4. tip \in m.vertex /\ Falls(p.enter, m, tip, w)
    BY <1>0, <2>1, <2>2, <2>3, EnterPathFalls
  <2>5. p.exit = << >>
    BY <2>3
  <2>6. Of(Finalize(m))!Summit(p.exit, v) = tip
    <3>1. Of(Finalize(m))!Summit(p.exit, v) = Of(Finalize(m))!Foot(v)
      BY <1>0, <1>4, <1>5, <2>5 DEF Of!Summit, Of!Base, VerticesAre
    <3> QED  BY <1>0, <1>5, <3>1, FootOfEntry
  <2>7. Of(Finalize(m))!Ascends(p.exit, v)
    BY <2>5 DEF Of!Ascends
  <2> HIDE DEF l, w, p, tip
  <2>8. CASE w = tip
    <3>1. p.enter = << >>
      BY <2>4, <2>8 DEF Falls
    <3> QED  BY <1>0, <1>3, <2>1, <2>6, <2>7, <2>8, <3>1 DEF Of!Leads
  <2>9. CASE w # tip
    <3>1. Of(Finalize(m))!Descends(p.enter, tip, w)
      BY <1>0, <2>1, <2>2, <2>4, <2>9, FallsDescends
    <3>2. p.enter # << >>
      BY <2>4, <2>9 DEF Falls
    <3> QED  BY <1>0, <1>3, <2>1, <2>6, <2>7, <3>1, <3>2 DEF Of!Leads
  <2> QED  BY <2>8, <2>9
<1>6. CASE m.kind[v] # "entry"
  <2> DEFINE l == Dirname(m, Boundary(m, w))
  <2>1. Is(m, w, "entry") /\ ~Is(m, s, "entry") /\ w \in m.vertex
    <3>1. v \in States(m) => s \in States(m)
      BY <1>1 DEF FollowedFrom
    <3> QED  BY <1>4, <1>6, <3>1 DEF Is, States
  <2>2. EntryLCA(m, v, t) = l /\ l \in Above(m, v) /\ (l = v => v \in States(m))
    BY <1>2, <2>1, EntryLCAIs
  <2>3. p = [enter |-> <<w>>, exit |-> ExitPath(m, l, v)]
    <3>1. ~(Is(m, s, "exit") /\ w = Dirname(m, s))
      <4>1. Dirname(m, s) \in States(m) \cup {Top}
        BY <1>0, <1>2, AboveStep
      <4> QED  BY <1>0, <2>1, <4>1 DEF Is, States, IsTree
    <3>2. w # Nothing
      BY <1>0, <2>1
    <3> QED  BY <2>1, <2>2, <3>1, <3>2 DEF PathForCurrent
  <2>4. Climbs(p.exit, m, v, l)
    BY <1>0, <2>2, <2>3, ExitPathClimbs
  <2>5. /\ Of(Finalize(m))!Ascends(p.exit, v)
        /\ Of(Finalize(m))!Summit(p.exit, v) = TipAt(m, l)
    <3> HIDE DEF l, p
    <3> QED  BY <1>0, <1>6, <2>2, <2>4, ClimbsAscends
  <2>6. Of(Finalize(m))!Foot(w) = TipAt(m, l)
    BY <1>0, <2>1, FootOfEntry DEF Is
  <2>7. p.enter = <<w>>
    BY <2>3
  <2> HIDE DEF l, p, w
  <2>8. p.enter # << >> /\ Of(Finalize(m))!Descends(p.enter, TipAt(m, l), w)
    <3>1. <<w>> # << >> /\ Len(<<w>>) = 1 /\ <<w>>[1] = w /\ DOMAIN <<w>> = {1} /\ 1 .. 1 - 1 = {}
      OBVIOUS
    <3> DEFINE e == <<w>>
    <3>2. /\ e # << >> /\ e[Len(e)] = w
          /\ \A i \in DOMAIN e : Of(Finalize(m))!Foot(e[i]) = IF i = 1 THEN TipAt(m, l) ELSE e[i - 1]
          /\ 1 .. Len(e) - 1 = {}
      BY <2>6, <3>1
    <3> HIDE DEF e
    <3>3. Of(Finalize(m))!Descends(e, TipAt(m, l), w)
      BY <3>2 DEF Of!Descends
    <3> QED  BY <2>7, <3>2, <3>3 DEF e
  <2> QED  BY <1>0, <1>3, <2>1, <2>5, <2>8 DEF Of!Leads
<1> QED  BY <1>5, <1>6

(***************************************************************************)
(* Histories                                                               *)
(***************************************************************************)
\* The owner of a history is a state above the root's parent.
LEMMA OwnerOfHistory ==
    ASSUME NEW m, IsTree(m), NEW h \in Histories(m)
    PROVE  /\ h \in m.vertex /\ h \notin States(m) /\ h # m.root /\ m.kind[h] # "entry"
           /\ HistoryOwner(m, h) \in States(m) /\ HistoryOwner(m, h) \in m.vertex
           /\ HistoryOwner(m, h) # Top
<1>1. h \in m.vertex /\ h \notin States(m) /\ h # m.root /\ m.kind[h] # "entry"
  BY DEF Histories, States, IsTree
<1>2. Dirname(m, h) \in States(m) \cup {Top} /\ Dirname(m, h) # Top
  BY <1>1, AboveStep
<1>3. Top \notin m.vertex /\ States(m) \subseteq m.vertex
  BY DEF IsTree, States
<1> QED  BY <1>1, <1>2, <1>3 DEF HistoryOwner

\* What a history remembers is a state below its owner: the one that was left
\* or, of a shallow history, the child of the owner above it.
LEMMA HistoryRemembers ==
    ASSUME NEW m, IsTree(m), NEW h \in Histories(m), NEW v \in States(m),
           IsAncestor(m, HistoryOwner(m, h), v)
    PROVE  LET r == HistoryTarget(m, h, v)
           IN  /\ r \in States(m) /\ IsAncestor(m, HistoryOwner(m, h), r)
               /\ r \in Above(m, v)
               /\ m.kind[h] = "deep" => r = v
               /\ m.kind[h] # "deep" => Dirname(m, r) = HistoryOwner(m, h)
<1> DEFINE o == HistoryOwner(m, h)
<1>1. o \in m.vertex /\ o # Top
  BY OwnerOfHistory
<1>2. v \in m.vertex /\ v \in Above(m, v)
  BY AboveOrdered DEF States, All, Ordered
<1>3. CASE m.kind[h] = "deep"
  <2>1. HistoryTarget(m, h, v) = v
    BY <1>3 DEF HistoryTarget
  <2> QED  BY <1>2, <1>3, <2>1
<1>4. CASE m.kind[h] # "deep"
  <2> DEFINE c == Chain(m, v)
  <2>1. Rungs(c, m, v)
    BY <1>2, ChainRungs
  <2>2. o # v /\ o \in Above(m, v)
    BY AncestorIsAbove
  <2> HIDE DEF c, o
  <2>3. PICK k \in 1 .. Len(c) : c[k] = o
    BY <1>1, <2>1, <2>2 DEF Rungs
  <2>4. k \in 2 .. Len(c) /\ k - 1 \in 1 .. Len(c)
    BY <2>1, <2>2, <2>3 DEF Rungs
  <2>5. c[k - 1] \in ToSet(c) /\ Dirname(m, c[k - 1]) = o
    BY <2>1, <2>3, <2>4 DEF Rungs, ToSet
  <2> DEFINE r == CHOOSE u \in ToSet(c) : Dirname(m, u) = o
  <2>6. r \in ToSet(c) /\ Dirname(m, r) = o
    BY <2>5
  <2>7. HistoryTarget(m, h, v) = r
    BY <1>4 DEF HistoryTarget, c, o
  <2> HIDE DEF r
  <2>8. PICK j \in 1 .. Len(c) : c[j] = r
    BY <2>1, <2>6 DEF Rungs, ToSet
  <2>9. r \in m.vertex /\ r \in Above(m, v)
    BY <2>1, <2>8 DEF Rungs
  <2>10. r \in States(m)
    <3>1. CASE j = 1
      BY <3>1, <2>1, <2>8 DEF Rungs
    <3>2. CASE j # 1
      <4>1. j \in 2 .. Len(c)
        BY <3>2, <2>1 DEF Rungs
      <4> QED  BY <4>1, <2>1, <2>8 DEF Rungs
    <3> QED  BY <3>1, <3>2
  <2>11. IsAncestor(m, o, r)
    <3>1. /\ Above(m, r) = {r} \cup Above(m, o) /\ r \notin Above(m, o)
      BY <2>6, <2>9, AboveStep
    <3>2. o \in Above(m, o)
      BY <1>1, AboveOrdered DEF Ordered, All
    <3> QED  BY <3>1, <3>2, AncestorIsAbove
  <2> QED  BY <1>4, <2>6, <2>7, <2>9, <2>10, <2>11 DEF o
<1> QED  BY <1>3, <1>4

\* The path of a history leads from its owner down to any state below it.
LEMMA HistoryPathFalls ==
    ASSUME NEW m, IsTree(m), NEW h \in Histories(m), NEW r \in States(m),
           IsAncestor(m, HistoryOwner(m, h), r)
    PROVE  Falls(HistoryPath(m, h, r), m, HistoryOwner(m, h), r)
<1> DEFINE o == HistoryOwner(m, h)
<1>1. r \in m.vertex /\ o \in Above(m, r) /\ o # Top
  BY AncestorIsAbove, OwnerOfHistory DEF States
<1>2. Falls(EnterPath(m, o, r), m, TipAt(m, o), r)
  <2> HIDE DEF o
  <2> QED  BY <1>1, EnterPathFalls
<1> QED  BY <1>1, <1>2 DEF TipAt, HistoryPath

\* _history_targets and _finalize_history_paths: in every chart, what a history
\* remembers is below its owner, and going back to it enters the states on
\* the way there, each once.
THEOREM FinalizedHistoriesReturn == ASSUME NEW m, IsTree(m) PROVE Of(Finalize(m))!HistoriesReturn
<1>0. VerticesAre(m)
  BY VerticesOf
<1> SUFFICES ASSUME NEW h \in Histories(m)
             PROVE  /\ h \notin Of(Finalize(m))!EntryPoint
                    /\ \A v \in m.vertex, skip \in m.vertex \cup {Nothing} :
                           LET r == Of(Finalize(m))!HistoryTargets(v, skip)[h]
                           IN  r # Nothing =>
                                   /\ r \in States(m)
                                   /\ Of(Finalize(m))!IsAncestor(Of(Finalize(m))!Up(h), r)
                    /\ \A r \in States(m) :
                           Of(Finalize(m))!IsAncestor(Of(Finalize(m))!Up(h), r) =>
                               Of(Finalize(m))!Descends(Of(Finalize(m))!HistoryPath(h, r),
                                                        Of(Finalize(m))!Up(h), r)
  BY <1>0 DEF Of!HistoriesReturn, VerticesAre
<1> DEFINE o == HistoryOwner(m, h)
<1>1. /\ h \in m.vertex /\ h # m.root /\ m.kind[h] # "entry" /\ o \in m.vertex /\ o # Top
      /\ o = Dirname(m, h)
  BY OwnerOfHistory DEF HistoryOwner
<1>2. h \notin Of(Finalize(m))!EntryPoint /\ Of(Finalize(m))!Up(h) = o
  BY <1>0, <1>1 DEF VerticesAre
<1> HIDE DEF o
<1>3. ASSUME NEW u \in States(m)
      PROVE  u \in m.vertex /\ (Of(Finalize(m))!IsAncestor(o, u) <=> IsAncestor(m, o, u))
  <2>1. u \in m.vertex /\ Of(Finalize(m))!Chain(u) = Chain(m, u)
    BY <1>0 DEF States, VerticesAre
  <2> QED  BY <1>1, <2>1 DEF Of!IsAncestor, IsAncestor, ToSet
<1>4. ASSUME NEW v \in m.vertex, NEW skip \in m.vertex \cup {Nothing},
             Of(Finalize(m))!HistoryTargets(v, skip)[h] # Nothing
      PROVE  /\ Of(Finalize(m))!HistoryTargets(v, skip)[h] \in States(m)
             /\ Of(Finalize(m))!IsAncestor(o, Of(Finalize(m))!HistoryTargets(v, skip)[h])
  <2>1. Of(Finalize(m))!HistoryTargets(v, skip) = HistoryTargets(m, v, skip)
    BY DEF Of!HistoryTargets, Finalize
  <2>2. /\ HistoryTargets(m, v, skip)[h] = HistoryTarget(m, h, v)
        /\ v \in States(m) /\ IsAncestor(m, o, v)
    BY <1>4, <2>1 DEF HistoryTargets, o
  <2> DEFINE r == HistoryTarget(m, h, v)
  <2>3. r \in States(m) /\ IsAncestor(m, o, r)
    BY <2>2, HistoryRemembers DEF o
  <2> HIDE DEF r
  <2>4. Of(Finalize(m))!IsAncestor(o, r)
    BY <1>3, <2>3
  <2> QED  BY <2>1, <2>2, <2>3, <2>4 DEF r
<1>5. ASSUME NEW r \in States(m), Of(Finalize(m))!IsAncestor(o, r)
      PROVE  Of(Finalize(m))!Descends(Of(Finalize(m))!HistoryPath(h, r), o, r)
  <2>1. r \in m.vertex /\ IsAncestor(m, o, r)
    BY <1>3, <1>5
  <2>2. Of(Finalize(m))!HistoryPath(h, r) = HistoryPath(m, h, r)
    BY <2>1 DEF Of!HistoryPath, Finalize, o
  <2>3. Falls(HistoryPath(m, h, r), m, o, r)
    BY <2>1, HistoryPathFalls DEF o
  <2>4. o # r /\ m.kind[r] # "entry"
    BY <2>1 DEF IsAncestor, States
  <2> QED  BY <1>1, <2>1, <2>2, <2>3, <2>4, FallsDescends
<1> QED  BY <1>2, <1>4, <1>5

(***************************************************************************)
(* The types of the tables                                                 *)
(***************************************************************************)
\* The vertices met going up from v are vertices, wherever the way ends.
LEMMA ClimbType ==
    ASSUME NEW m, IsTree(m), NEW v \in m.vertex, NEW stop
    PROVE  Climb(m, v, stop) \in Seq(m.vertex)
<1> DEFINE c == Chain(m, v)
           Stops(i) == /\ i > Len(c) \/ c[i] \in stop
                       /\ \A j \in 1 .. i - 1 : c[j] \notin stop
           T == {i \in 1 .. Len(c) + 1 : i > Len(c) \/ c[i] \in stop}
           n == CHOOSE i \in 1 .. Len(c) + 1 : Stops(i)
<1>1. c \in Seq(m.vertex) /\ Len(c) \in Nat
  <2>1. Rungs(c, m, v)
    BY ChainRungs
  <2> HIDE DEF c
  <2> QED  BY <2>1 DEF Rungs
<1>2. Climb(m, v, stop) = SubSeq(c, 1, n - 1)
  BY DEF Climb
<1> HIDE DEF c
<1>3. PICK i \in T : \A j \in T : i <= j
  <2>1. T \in SUBSET Nat /\ Len(c) + 1 \in T
    BY <1>1
  <2> HIDE DEF T
  <2> QED  BY <2>1, Least
<1>4. \A j \in 1 .. i - 1 : j \in 1 .. Len(c) + 1 /\ ~(i <= j)
  BY <1>1
<1>5. Stops(i)
  BY <1>3, <1>4
<1>6. n \in 1 .. Len(c) + 1
  <2>1. i \in 1 .. Len(c) + 1
    OBVIOUS
  <2> HIDE DEF Stops
  <2> QED  BY <1>5, <2>1
<1> HIDE DEF n
<1>7. n - 1 \in Int /\ \A k \in 1 .. n - 1 : k \in 1 .. Len(c)
  BY <1>1, <1>6
<1>8. \A k \in 1 .. Len(c) : c[k] \in m.vertex
  BY <1>1
<1> HIDE DEF Stops
<1>9. SubSeq(c, 1, n - 1) \in Seq(m.vertex)
  <2> DEFINE k == n - 1
  <2>1. k \in Int /\ 1 \in Int /\ \A j \in 1 .. k : c[j] \in m.vertex
    BY <1>7, <1>8
  <2> HIDE DEF k
  <2>2. SubSeq(c, 1, k) \in Seq(m.vertex)
    BY ONLY <2>1, SubSeqProperties
  <2> QED  BY <2>2 DEF k
<1> QED  BY <1>2, <1>9

\* Where paths lead through entry points too, they are of vertices.
LEMMA PathTypes ==
    ASSUME NEW m, IsTree(m), NEW v \in m.vertex, NEW t,
           m.target[t] \in m.vertex \cup {Nothing}
    PROVE  /\ PathForCurrent(m, v, t).enter \in Seq(m.vertex)
           /\ PathForCurrent(m, v, t).exit \in Seq(m.vertex)
<1> DEFINE p == PathForCurrent(m, v, t)
           w == m.target[t]
<1>1. \A l : w # Nothing => EnterPath(m, l, w) \in Seq(m.vertex)
  <2> SUFFICES ASSUME NEW l, w # Nothing PROVE EnterPath(m, l, w) \in Seq(m.vertex)
    OBVIOUS
  <2> DEFINE x == Climb(m, w, {l, m.root})
  <2>1. x \in Seq(m.vertex)
    BY ClimbType
  <2> HIDE DEF x
  <2>2. Reverse(x) \in Seq(m.vertex)
    <3>1. Len(x) \in Nat /\ \A i \in 1 .. Len(x) : x[i] \in m.vertex
      BY <2>1
    <3>2. \A i \in 1 .. Len(x) : (Len(x) - i) + 1 \in 1 .. Len(x)
      BY <3>1
    <3>3. Reverse(x) \in [1 .. Len(x) -> m.vertex]
      BY <3>1, <3>2 DEF Reverse
    <3> QED  BY <3>1, <3>3
  <2> QED  BY <2>2 DEF EnterPath, x
<1>2. \A l : ExitPath(m, l, v) \in Seq(m.vertex)
  BY ClimbType DEF ExitPath
<1>3. << >> \in Seq(m.vertex) /\ (w # Nothing => <<w>> \in Seq(m.vertex))
  <2>1. w \in m.vertex \cup {Nothing}
    OBVIOUS
  <2> HIDE DEF w
  <2> QED  BY <2>1
<1>4. \/ p = NoPath
      \/ /\ w # Nothing
         /\ \E l : p = [enter |-> EnterPath(m, l, w), exit |-> << >>]
      \/ /\ w # Nothing
         /\ \E l : p = [enter |-> <<w>>, exit |-> ExitPath(m, l, v)]
      \/ /\ w # Nothing
         /\ \E l : p = [enter |-> EnterPath(m, l, w), exit |-> ExitPath(m, l, v)]
  BY DEF PathForCurrent
<1> HIDE DEF p, w
<1>5. p.enter \in Seq(m.vertex) /\ p.exit \in Seq(m.vertex)
  <2>1. CASE p = NoPath
    BY <2>1, <1>3 DEF NoPath
  <2>2. ASSUME w # Nothing, NEW l, p = [enter |-> EnterPath(m, l, w), exit |-> << >>]
        PROVE  p.enter \in Seq(m.vertex) /\ p.exit \in Seq(m.vertex)
    BY <2>2, <1>1, <1>3
  <2>3. ASSUME w # Nothing, NEW l, p = [enter |-> <<w>>, exit |-> ExitPath(m, l, v)]
        PROVE  p.enter \in Seq(m.vertex) /\ p.exit \in Seq(m.vertex)
    BY <2>3, <1>2, <1>3
  <2>4. ASSUME w # Nothing, NEW l,
               p = [enter |-> EnterPath(m, l, w), exit |-> ExitPath(m, l, v)]
        PROVE  p.enter \in Seq(m.vertex) /\ p.exit \in Seq(m.vertex)
    BY <2>4, <1>1, <1>2
  <2> QED  BY <2>1, <2>2, <2>3, <2>4, <1>4
<1> QED  BY <1>5 DEF p

\* The head of what is left of a sequence is one of its elements.
LEMMA FirstKept ==
    ASSUME NEW S, NEW s \in Seq(S), NEW keep, Only(s, keep) # << >>
    PROVE  Head(Only(s, keep)) \in S
<1> DEFINE x == Only(s, keep)
<1>1. x \in Seq(S \cap keep)
  BY OnlyKeeps DEF Kept
<1> HIDE DEF x
<1>2. x # << >> => Head(x) \in S
  BY <1>1
<1> QED  BY <1>2 DEF x

\* DefaultModelFinalizer: the tables of every chart are of the types that the
\* runtime takes them to be of.
THEOREM FinalizedTablesTyped ==
    ASSUME NEW m, IsChart(m), ActivitiesListed(m)
    PROVE  Of(Finalize(m))!TablesTyped
<1>0. IsTree(m) /\ VerticesAre(m) /\ TransitionsAre(m)
  BY VerticesOf, TransitionsOf DEF IsChart
<1>1. Of(Finalize(m))!NamesTyped
  <2>1. m.root \in States(m) /\ States(m) \subseteq m.vertex /\ Nothing \notin m.vertex
    BY <1>0 DEF IsTree, States
  <2>2. Histories(m) \subseteq m.vertex \ States(m)
    BY DEF Histories, States
  <2> QED  BY <1>0, <2>1, <2>2 DEF Of!NamesTyped, VerticesAre
<1>2. ASSUME NEW v \in m.vertex
      PROVE  /\ Of(Finalize(m))!Chain(v) \in Seq(m.vertex)
             /\ Of(Finalize(m))!Chain(v) # << >>
             /\ v \in Histories(m) => Len(Of(Finalize(m))!Chain(v)) > 1
             /\ Of(Finalize(m))!Submachine(v) \in m.vertex \cup {Nothing}
  <2> DEFINE c == Chain(m, v)
  <2>1. Rungs(c, m, v) /\ Of(Finalize(m))!Chain(v) = c
    BY <1>0, ChainRungs DEF VerticesAre
  <2>2. v \in Histories(m) => v # m.root
    BY <1>0, OwnerOfHistory
  <2>3. Of(Finalize(m))!Submachine(v) = EnclosingSubmachine(m, v)
    BY DEF Of!Submachine, Finalize
  <2> DEFINE r == Tail(c)
             keep == {u \in m.vertex : m.kind[u] = "submachine"}
  <2>4. EnclosingSubmachine(m, v) = IF Only(r, keep) = << >> THEN Nothing ELSE Head(Only(r, keep))
    BY DEF EnclosingSubmachine
  <2> HIDE DEF c, keep
  <2>5. c \in Seq(m.vertex) /\ Len(c) \in Nat \ {0} /\ c[1] = v /\ c[Len(c)] = m.root
    BY <2>1 DEF Rungs
  <2>6. c # << >> /\ r \in Seq(m.vertex) /\ (v # m.root => Len(c) > 1)
    BY <2>5
  <2> HIDE DEF r
  <2>7. Only(r, keep) # << >> => Head(Only(r, keep)) \in m.vertex
    BY <2>6, FirstKept
  <2> QED  BY <2>1, <2>2, <2>3, <2>4, <2>5, <2>6, <2>7
<1>3. ASSUME NEW v \in m.vertex
      PROVE  /\ Of(Finalize(m))!Initial(v) \in m.transition \cup {Nothing}
             /\ Of(Finalize(m))!Outgoing(v) \in Seq(m.transition)
             /\ Of(Finalize(m))!Activities(v) \in Seq(Of(Finalize(m))!Activity)
  <2>1. m.initial[v] \in m.transition \cup {Nothing}
    BY DEF IsChart
  <2>2. BranchOrder(m, v) \in Seq(m.transition)
    BY BranchOrderKeeps
  <2>3. Of(Finalize(m))!Activities(v) = m.activities[v] /\ Of(Finalize(m))!Activity = m.activity
    BY DEF Of!Activities, Of!Activity, Finalize
  <2> QED  BY <1>0, <2>1, <2>2, <2>3 DEF TransitionsAre, ActivitiesListed
<1>4. ASSUME NEW v \in m.vertex, NEW n \in m.event
      PROVE  /\ Of(Finalize(m))!TransitionMap(v, n) \in Seq(m.transition)
             /\ Of(Finalize(m))!DeferredMap(v, n) \in m.vertex \cup {Nothing}
  <2>1. /\ Of(Finalize(m))!TransitionMap(v, n) =
               IF v \in States(m) THEN TransitionMap(m, v, n) ELSE << >>
        /\ Of(Finalize(m))!DeferredMap(v, n) =
               IF v \in States(m) THEN DeferredMap(m, v, n) ELSE Nothing
    BY DEF Of!TransitionMap, Of!DeferredMap, Finalize
  <2>2. TransitionMap(m, v, n) \in Seq(m.transition) /\ << >> \in Seq(m.transition)
    BY TransitionMapKeeps
  <2> DEFINE c == Chain(m, v)
             keep == {u \in m.vertex : n \in m.deferred[u]}
  <2>3. DeferredMap(m, v, n) \in {Nothing, Head(Only(c, keep))}
        /\ (Only(c, keep) = << >> => DeferredMap(m, v, n) = Nothing)
    BY DEF DeferredMap
  <2>4. c \in Seq(m.vertex)
    BY <1>0 DEF IsTree
  <2> HIDE DEF c, keep
  <2>5. Only(c, keep) # << >> => Head(Only(c, keep)) \in m.vertex
    BY <2>4, FirstKept
  <2> QED  BY <2>1, <2>2, <2>3, <2>5
<1>5. ASSUME NEW v \in m.vertex, NEW skip \in m.vertex \cup {Nothing}
      PROVE  Of(Finalize(m))!HistoryTargets(v, skip) \in [Histories(m) -> m.vertex \cup {Nothing}]
  <2>1. Of(Finalize(m))!HistoryTargets(v, skip) = HistoryTargets(m, v, skip)
    BY DEF Of!HistoryTargets, Finalize
  <2>2. ASSUME NEW h \in Histories(m), v \in States(m), IsAncestor(m, HistoryOwner(m, h), v)
        PROVE  HistoryTarget(m, h, v) \in m.vertex
    <3>1. HistoryTarget(m, h, v) \in States(m)
      BY <1>0, <2>2, HistoryRemembers
    <3> QED  BY <3>1 DEF States
  <2> QED  BY <2>1, <2>2 DEF HistoryTargets
<1>6. ASSUME NEW v \in m.vertex, NEW h \in Histories(m)
      PROVE  Of(Finalize(m))!HistoryPath(h, v) \in Seq(m.vertex)
  <2>1. Of(Finalize(m))!HistoryPath(h, v) =
            IF v \in States(m) /\ IsAncestor(m, HistoryOwner(m, h), v)
            THEN HistoryPath(m, h, v) ELSE << >>
    BY DEF Of!HistoryPath, Finalize
  <2>2. ASSUME v \in States(m), IsAncestor(m, HistoryOwner(m, h), v)
        PROVE  HistoryPath(m, h, v) \in Seq(m.vertex)
    <3>1. Falls(HistoryPath(m, h, v), m, HistoryOwner(m, h), v)
      BY <1>0, <2>2, HistoryPathFalls
    <3> QED  BY <3>1 DEF Falls
  <2>3. << >> \in Seq(m.vertex)
    OBVIOUS
  <2> QED  BY <2>1, <2>2, <2>3
<1>7. ASSUME NEW t \in m.transition
      PROVE  /\ Of(Finalize(m))!Source(t) \in m.vertex
             /\ Of(Finalize(m))!Target(t) \in m.vertex \cup {Nothing}
  BY <1>0 DEF TransitionsAre, IsChart
<1>8. ASSUME NEW t \in m.transition, NEW v \in m.vertex
      PROVE  /\ Of(Finalize(m))!EnterPath(t, v) \in Seq(m.vertex)
             /\ Of(Finalize(m))!ExitPath(t, v) \in Seq(m.vertex)
  <2>1. m.target[t] \in m.vertex \cup {Nothing}
    BY DEF IsChart
  <2>2. /\ PathForCurrent(m, v, t).enter \in Seq(m.vertex)
        /\ PathForCurrent(m, v, t).exit \in Seq(m.vertex)
    BY <1>0, <2>1, PathTypes
  <2>3. Finalize(m).paths = TransitionPaths(m)
    BY DEF Finalize
  <2>4. TransitionPaths(m)[t][v] \in {PathForCurrent(m, v, t), NoPath}
    BY DEF TransitionPaths
  <2>5. NoPath.enter \in Seq(m.vertex) /\ NoPath.exit \in Seq(m.vertex)
    BY DEF NoPath
  <2> DEFINE p == TransitionPaths(m)[t][v]
  <2>6. Of(Finalize(m))!EnterPath(t, v) = p.enter /\ Of(Finalize(m))!ExitPath(t, v) = p.exit
    BY <2>3 DEF Of!EnterPath, Of!ExitPath
  <2>7. p.enter \in Seq(m.vertex) /\ p.exit \in Seq(m.vertex)
    <3> HIDE DEF p
    <3>1. p \in {PathForCurrent(m, v, t), NoPath}
      BY <2>4 DEF p
    <3> QED  BY <3>1, <2>2, <2>5
  <2> QED  BY <2>6, <2>7
<1>9. Of(Finalize(m))!VerticesTyped
  BY <1>0, <1>2, <1>3, <1>4, <1>5, <1>6 DEF Of!VerticesTyped, VerticesAre, TransitionsAre
<1>10. Of(Finalize(m))!TransitionsTyped
  BY <1>0, <1>7, <1>8 DEF Of!TransitionsTyped, VerticesAre, TransitionsAre
<1> QED  BY <1>1, <1>9, <1>10 DEF Of!TablesTyped

\* _finalize_outgoing and DefaultModelValidator: in the tables of a chart that
\* lets the machine on, the transitions of a pseudostate start in it and lead
\* somewhere, and one of a choice can always be taken.
THEOREM FinalizedBranchesLead ==
    ASSUME NEW m, IsChart(m), WaysOpen(m)
    PROVE  Of(Finalize(m))!BranchesLead
<1>0. VerticesAre(m) /\ TransitionsAre(m)
  BY VerticesOf, TransitionsOf DEF IsChart
<1>1. \A t : Of(Finalize(m))!Guarded(t) <=> t \in m.guarded
  BY DEF Of!Guarded, Finalize
<1>2. ASSUME NEW v \in m.vertex \ States(m), NEW i \in DOMAIN BranchOrder(m, v)
      PROVE  LET t == BranchOrder(m, v)[i]
             IN  /\ t \in m.transition /\ m.source[t] = v /\ m.target[t] # Nothing
                 /\ m.kind[v] = "entry" => t \notin m.guarded
  <2> DEFINE t == BranchOrder(m, v)[i]
  <2>1. PICK j \in DOMAIN m.outgoing[v] : m.outgoing[v][j] = t
    BY BranchOrderKeeps
  <2> HIDE DEF t
  <2>2. m.outgoing[v] \in Seq(m.transition) /\ m.source[t] = v /\ m.target[t] # Nothing
    BY <2>1 DEF IsChart
  <2>3. t \in m.transition /\ t \in ToSet(m.outgoing[v])
    BY <2>1, <2>2 DEF ToSet
  <2>4. m.kind[v] = "entry" => ToSet(m.outgoing[v]) \cap m.guarded = {}
    BY DEF WaysOpen
  <2> QED  BY <2>2, <2>3, <2>4 DEF t
<1>3. ASSUME NEW v \in m.vertex \ States(m)
      PROVE  \/ v \in Histories(m) \/ m.kind[v] = "entry" \/ m.kind[v] = "exit"
             \/ \E i \in DOMAIN BranchOrder(m, v) : BranchOrder(m, v)[i] \notin m.guarded
  <2>1. CASE m.kind[v] = "choice"
    <3>1. PICK t \in ToSet(m.outgoing[v]) : t \notin m.guarded
      BY <2>1 DEF WaysOpen
    <3>2. PICK j \in DOMAIN m.outgoing[v] : m.outgoing[v][j] = t
      BY DEF ToSet
    <3>3. PICK i \in DOMAIN BranchOrder(m, v) : BranchOrder(m, v)[i] = m.outgoing[v][j]
      BY BranchOrderKeeps
    <3> QED  BY <3>1, <3>2, <3>3
  <2>2. CASE m.kind[v] # "choice"
    BY <2>2 DEF WaysOpen, Histories
  <2> QED  BY <2>1, <2>2
<1>4. ASSUME NEW v \in m.vertex \ States(m)
      PROVE  /\ Of(Finalize(m))!Outgoing(v) = BranchOrder(m, v)
             /\ Of(Finalize(m))!Kind(v) = m.kind[v]
             /\ v \in Of(Finalize(m))!EntryPoint <=> m.kind[v] = "entry"
  BY <1>0 DEF VerticesAre, TransitionsAre
<1>5. ASSUME NEW v \in m.vertex \ States(m), NEW i \in DOMAIN Of(Finalize(m))!Outgoing(v)
      PROVE  LET t == Of(Finalize(m))!Outgoing(v)[i]
             IN  /\ Of(Finalize(m))!Source(t) = v /\ Of(Finalize(m))!Target(t) # Nothing
                 /\ v \in Of(Finalize(m))!EntryPoint => ~Of(Finalize(m))!Guarded(t)
  <2> DEFINE t == Of(Finalize(m))!Outgoing(v)[i]
  <2>1. /\ t \in m.transition /\ m.source[t] = v /\ m.target[t] # Nothing
        /\ m.kind[v] = "entry" => t \notin m.guarded
    BY <1>2, <1>4
  <2> HIDE DEF t
  <2>2. Of(Finalize(m))!Source(t) = v /\ Of(Finalize(m))!Target(t) # Nothing
    BY <2>1, <1>0 DEF TransitionsAre
  <2>3. v \in Of(Finalize(m))!EntryPoint => ~Of(Finalize(m))!Guarded(t)
    BY <1>1, <1>4, <2>1
  <2> QED  BY <2>2, <2>3 DEF t
<1>6. ASSUME NEW v \in m.vertex \ States(m)
      PROVE  \/ v \in Histories(m) \cup Of(Finalize(m))!EntryPoint
             \/ Of(Finalize(m))!Kind(v) = "exit"
             \/ \E i \in DOMAIN Of(Finalize(m))!Outgoing(v) :
                    ~Of(Finalize(m))!Guarded(Of(Finalize(m))!Outgoing(v)[i])
  <2>1. CASE \E i \in DOMAIN BranchOrder(m, v) : BranchOrder(m, v)[i] \notin m.guarded
    <3>1. PICK i \in DOMAIN BranchOrder(m, v) : BranchOrder(m, v)[i] \notin m.guarded
      BY <2>1
    <3> QED  BY <3>1, <1>1, <1>4
  <2>2. CASE v \in Histories(m) \/ m.kind[v] = "entry" \/ m.kind[v] = "exit"
    BY <2>2, <1>4
  <2> QED  BY <1>3, <2>1, <2>2
<1> QED  BY <1>0, <1>5, <1>6 DEF Of!BranchesLead, VerticesAre

(***************************************************************************)
(* Candidates and deferral                                                 *)
(***************************************************************************)
\* No state that is left on the way from s up to v defers e.
Undeferred(m, s, v, e) == \A u \in Above(m, s) \ Above(m, v) : e \notin m.deferred[u]

LEMMA ChainBelow ==
    ASSUME NEW m, IsTree(m), NEW s \in m.vertex, NEW i \in 1 .. Len(Chain(m, s))
    PROVE  /\ \A j \in 1 .. i - 1 : /\ Chain(m, s)[j] \in Above(m, s)
                                    /\ Chain(m, s)[j] \notin Above(m, Chain(m, s)[i])
           /\ \A u \in Above(m, s) \ Above(m, Chain(m, s)[i]) :
                  \E j \in 1 .. i - 1 : u = Chain(m, s)[j]
<1> DEFINE c == Chain(m, s)
           n == Len(c)
           v == c[i]
<1>1. Rungs(c, m, s) /\ i \in 1 .. n
  BY ChainRungs
<1> HIDE DEF c
<1>2. n \in Nat /\ v \in m.vertex /\ Depth(m, v) = n - i + 1
  BY <1>1 DEF Rungs
<1>3. Ordered(m, v) /\ Top \in Above(m, v)
  BY <1>2, AboveOrdered DEF All, Above
<1>4. ASSUME NEW j \in 1 .. i - 1 PROVE c[j] \in Above(m, s) /\ c[j] \notin Above(m, v)
  <2>1. j \in 1 .. n /\ j < i
    BY <1>1, <1>2
  <2>2. c[j] \in Above(m, s) /\ Depth(m, c[j]) = n - j + 1
    BY <1>1, <2>1 DEF Rungs
  <2>3. c[j] \in Above(m, v) => c[j] = v \/ Depth(m, c[j]) < Depth(m, v)
    BY <1>3 DEF Ordered
  <2>4. n - j + 1 > n - i + 1
    BY <2>1, <1>1, <1>2
  <2> HIDE DEF v, n
  <2>5. c[j] # v /\ ~(Depth(m, c[j]) < Depth(m, v))
    BY <2>2, <2>4, <1>1, <1>2, <2>1
  <2> QED  BY <2>2, <2>3, <2>5
<1>5. ASSUME NEW u \in Above(m, s) \ Above(m, v) PROVE \E j \in 1 .. i - 1 : u = c[j]
  <2>1. PICK k \in 1 .. n : c[k] = u
    BY <1>1, <1>3 DEF Rungs
  <2>2. \A j \in i .. n : c[j] \in Above(m, v)
    BY <1>1 DEF Rungs
  <2>3. k \notin i .. n
    BY <2>1, <2>2
  <2> QED  BY <2>1, <2>3, <1>1, <1>2
<1> QED  BY <1>4, <1>5 DEF c

LEMMA UndeferredBelow ==
    ASSUME NEW m, IsTree(m), NEW s \in m.vertex, NEW i \in 1 .. Len(Chain(m, s)), NEW e
    PROVE  Undeferred(m, s, Chain(m, s)[i], e)
               <=> ~ \E j \in 1 .. i - 1 : e \in m.deferred[Chain(m, s)[j]]
<1> DEFINE c == Chain(m, s)
<1>1. /\ \A j \in 1 .. i - 1 : c[j] \in Above(m, s) \ Above(m, c[i])
      /\ \A u \in Above(m, s) \ Above(m, c[i]) : \E j \in 1 .. i - 1 : u = c[j]
  BY ChainBelow
<1> HIDE DEF c
<1>2. Undeferred(m, s, c[i], e) <=> ~ \E j \in 1 .. i - 1 : e \in m.deferred[c[j]]
  BY <1>1 DEF Undeferred
<1> QED  BY <1>2 DEF c

\* The candidates of s for e: transitions triggered by e of s and the states
\* above it, innermost first, up to the innermost that defers e, whose own are
\* the last.  None of a state below that one is left out.
CandidatesInOrder(m, s, e) ==
    LET x == Of(Finalize(m))!TransitionMap(s, e)
    IN  /\ \A i \in DOMAIN x : /\ e \in m.events[x[i]] /\ m.source[x[i]] \in Above(m, s)
                               /\ Undeferred(m, s, m.source[x[i]], e)
        /\ \A i, j \in DOMAIN x : i <= j => m.source[x[j]] \in Above(m, m.source[x[i]])
        /\ \A v \in Above(m, s) \ {Top} :
               Undeferred(m, s, v, e) /\ e \notin m.deferred[v] =>
                   \A t \in ToSet(m.outgoing[v]) : e \in m.events[t] => t \in ToSet(x)

\* _finalize_transition_map: an event is offered to the states from the
\* current one up, and to none above the first that defers it.
THEOREM FinalizedCandidates ==
    ASSUME NEW m, IsChart(m), NEW s \in States(m), NEW e \in m.event
    PROVE  CandidatesInOrder(m, s, e)
<1> DEFINE c == Chain(m, s)
           n == Len(c)
           x == TransitionMap(m, s, e)
<1>0. IsTree(m) /\ s \in m.vertex
  BY DEF IsChart, States
<1>1. Of(Finalize(m))!TransitionMap(s, e) = x
  BY <1>0, TransitionsOf DEF TransitionsAre
<1>2. PICK ss : Joined(x, ss, m.transition, n) /\ \A i \in 1 .. n : ss[i] = Part(m, s, e, i)
  BY <1>0, TransitionMapJoins
<1>3. Rungs(c, m, s)
  BY <1>0, ChainRungs
<1> HIDE DEF x
<1>4. ASSUME NEW i \in 1 .. n, NEW k \in DOMAIN ss[i]
      PROVE  /\ e \in m.events[ss[i][k]] /\ m.source[ss[i][k]] = c[i]
             /\ Undeferred(m, s, c[i], e)
  <2>1. ss[i] # << >>
    BY <1>4
  <2>2. /\ ~ \E j \in 1 .. i - 1 : e \in m.deferred[c[j]]
        /\ ss[i] = VertexTransitions(m, c[i], e)
    BY <1>2, <2>1 DEF Part
  <2>3. Undeferred(m, s, c[i], e)
    BY <1>0, <2>2, UndeferredBelow
  <2> HIDE DEF c
  <2>4. c[i] \in m.vertex
    BY <1>3 DEF Rungs
  <2>5. Kept(ss[i], m.outgoing[c[i]], m.transition, Heard(m, c[i], e))
    BY <2>2, <2>4, VertexTransitionsKeep
  <2>6. ss[i] \in Seq(m.transition \cap Heard(m, c[i], e))
    BY <2>5 DEF Kept
  <2>7. PICK j \in DOMAIN m.outgoing[c[i]] : m.outgoing[c[i]][j] = ss[i][k]
    BY <1>4, <2>5 DEF Kept
  <2>8. m.source[ss[i][k]] = c[i]
    BY <2>4, <2>7 DEF IsChart
  <2>9. ss[i][k] \in Heard(m, c[i], e)
    BY <1>4, <2>6
  <2> QED  BY <2>3, <2>8, <2>9 DEF Heard
<1>5. PICK part \in [DOMAIN x -> 1 .. n] :
          /\ \A i \in DOMAIN x : \E k \in DOMAIN ss[part[i]] : ss[part[i]][k] = x[i]
          /\ \A h, i \in DOMAIN x : h <= i => part[h] <= part[i]
  BY <1>2 DEF Joined
<1>6. \A l \in 1 .. n : \A k \in DOMAIN ss[l] : \E i \in DOMAIN x : x[i] = ss[l][k]
  BY <1>2 DEF Joined
<1>7. ASSUME NEW i \in DOMAIN x
      PROVE  /\ e \in m.events[x[i]] /\ m.source[x[i]] = c[part[i]]
             /\ Undeferred(m, s, m.source[x[i]], e)
  <2>1. part[i] \in 1 .. n
    BY <1>5
  <2>2. PICK k \in DOMAIN ss[part[i]] : ss[part[i]][k] = x[i]
    BY <1>5
  <2> QED  BY <1>4, <2>1, <2>2
<1>8. ASSUME NEW v \in Above(m, s) \ {Top}, Undeferred(m, s, v, e), e \notin m.deferred[v],
             NEW t \in ToSet(m.outgoing[v]), e \in m.events[t]
      PROVE  t \in ToSet(x)
  <2>1. PICK l \in 1 .. n : c[l] = v
    BY <1>3 DEF Rungs
  <2>2. v \in m.vertex
    BY <1>3, <2>1 DEF Rungs
  <2>3. ~ \E j \in 1 .. l - 1 : e \in m.deferred[c[j]]
    BY <1>0, <1>8, <2>1, UndeferredBelow
  <2>4. ss[l] = VertexTransitions(m, v, e)
    BY <1>2, <2>1, <2>3 DEF Part
  <2> HIDE DEF c, n
  <2>5. Kept(ss[l], m.outgoing[v], m.transition, Heard(m, v, e))
    BY <2>2, <2>4, VertexTransitionsKeep
  <2>6. PICK j \in DOMAIN m.outgoing[v] : m.outgoing[v][j] = t
    BY DEF ToSet
  <2>7. t \in m.transition
    BY <2>2, <2>6 DEF IsChart
  <2>8. t \in Heard(m, v, e)
    BY <1>8, <2>7 DEF Heard
  <2>9. PICK k \in DOMAIN ss[l] : ss[l][k] = t
    BY <2>5, <2>6, <2>8 DEF Kept
  <2>10. PICK i \in DOMAIN x : x[i] = ss[l][k]
    BY <1>6, <2>1, <2>9
  <2> QED  BY <2>9, <2>10 DEF ToSet
<1> HIDE DEF c
<1>9. ASSUME NEW i \in DOMAIN x, NEW j \in DOMAIN x, i <= j
      PROVE  m.source[x[j]] \in Above(m, m.source[x[i]])
  <2>1. part[i] \in 1 .. n /\ part[j] \in part[i] .. n
    <3>1. part[i] \in 1 .. n /\ part[j] \in 1 .. n /\ part[i] <= part[j]
      BY <1>5, <1>9
    <3> QED  BY <3>1
  <2>2. c[part[j]] \in Above(m, c[part[i]])
    BY <1>3, <2>1 DEF Rungs
  <2> QED  BY <1>7, <2>2
<1>10. \A i \in DOMAIN x : m.source[x[i]] \in Above(m, s)
  BY <1>3, <1>5, <1>7 DEF Rungs
<1> QED  BY <1>1, <1>7, <1>8, <1>9, <1>10 DEF CandidatesInOrder

\* The state that defers e for s is the innermost that can, and none does when
\* a candidate without a guard will take e.
DeferredInnermost(m, s, e) ==
    LET o == Of(Finalize(m))!DeferredMap(s, e)
        x == ToSet(Of(Finalize(m))!TransitionMap(s, e))
    IN  IF o = Nothing
        THEN (\A v \in Above(m, s) \ {Top} : e \notin m.deferred[v]) \/ x \ m.guarded # {}
        ELSE /\ o \in Above(m, s) \ {Top} /\ e \in m.deferred[o] /\ Undeferred(m, s, o, e)
             /\ x \subseteq m.guarded

\* _finalize_deferred_map: an event is held back for the innermost state that
\* defers it, and only when every candidate for it can decline.
THEOREM FinalizedDeferral ==
    ASSUME NEW m, IsChart(m), NEW s \in States(m), NEW e \in m.event
    PROVE  DeferredInnermost(m, s, e)
<1> DEFINE c == Chain(m, s)
           n == Len(c)
           x == ToSet(TransitionMap(m, s, e))
           keep == {v \in m.vertex : e \in m.deferred[v]}
           owners == Only(c, keep)
           o == DeferredMap(m, s, e)
<1>0. IsTree(m) /\ s \in m.vertex
  BY DEF IsChart, States
<1>1. /\ Of(Finalize(m))!TransitionMap(s, e) = TransitionMap(m, s, e)
      /\ Of(Finalize(m))!DeferredMap(s, e) = o
  BY <1>0, TransitionsOf DEF TransitionsAre, Of!DeferredMap, Finalize
<1>2. o = IF owners = << >> \/ x \ m.guarded # {} THEN Nothing ELSE Head(owners)
  <2>1. (\E t \in x : t \notin m.guarded) <=> x \ m.guarded # {}
    OBVIOUS
  <2> QED  BY <2>1 DEF DeferredMap
<1>3. Rungs(c, m, s)
  BY <1>0, ChainRungs
<1>4. \A i \in 1 .. n : Undeferred(m, s, c[i], e) <=> ~ \E j \in 1 .. i - 1 : e \in m.deferred[c[j]]
  BY <1>0, UndeferredBelow
<1> HIDE DEF c, x, o
<1>5. /\ c \in Seq(m.vertex) /\ DOMAIN c = 1 .. n /\ n \in Nat
      /\ \A i \in 1 .. n : c[i] \in m.vertex /\ c[i] \in Above(m, s)
      /\ \A u \in Above(m, s) \ {Top} : \E i \in 1 .. n : c[i] = u
      /\ Top \notin m.vertex /\ Nothing \notin m.vertex
  BY <1>0, <1>3 DEF Rungs, IsTree
<1>6. IF owners = << >> THEN \A j \in DOMAIN c : c[j] \notin keep
      ELSE \E j \in DOMAIN c : /\ c[j] \in keep /\ Head(owners) = c[j]
                               /\ \A i \in 1 .. j - 1 : c[i] \notin keep
  <2> HIDE DEF keep
  <2> QED  BY <1>5, OnlyFirst
<1> HIDE DEF owners
<1>7. CASE owners = << >>
  <2>1. \A v \in Above(m, s) \ {Top} : e \notin m.deferred[v]
    BY <1>5, <1>6, <1>7
  <2>2. o = Nothing
    BY <1>2, <1>7
  <2> QED  BY <1>1, <2>1, <2>2 DEF DeferredInnermost, x
<1>8. CASE owners # << >> /\ x \ m.guarded # {}
  <2>1. o = Nothing
    BY <1>2, <1>8
  <2> QED  BY <1>1, <1>8, <2>1 DEF DeferredInnermost, x
<1>9. CASE owners # << >> /\ x \ m.guarded = {}
  <2>1. PICK j \in DOMAIN c : /\ c[j] \in keep /\ Head(owners) = c[j]
                              /\ \A i \in 1 .. j - 1 : c[i] \notin keep
    BY <1>6, <1>9
  <2>2. o = c[j] /\ x \subseteq m.guarded
    BY <1>2, <1>9, <2>1
  <2>3. \A i \in 1 .. j - 1 : i \in 1 .. n
    BY <1>5
  <2>4. ~ \E i \in 1 .. j - 1 : e \in m.deferred[c[i]]
    BY <1>5, <2>1, <2>3
  <2>5. Undeferred(m, s, c[j], e)
    BY <1>4, <1>5, <2>4
  <2>6. /\ c[j] \in Above(m, s) \ {Top} /\ c[j] # Nothing /\ e \in m.deferred[c[j]]
    BY <1>5, <2>1
  <2> QED  BY <1>1, <2>2, <2>5, <2>6 DEF DeferredInnermost, x
<1> QED  BY <1>7, <1>8, <1>9

(***************************************************************************)
(* The charts of HsmFinalizerCheck                                         *)
(***************************************************************************)
\* A tree that a vertex is added to is a tree.
LEMMA TreeGrows ==
    ASSUME NEW m, IsTree(m), NEW name, name \notin m.vertex, name # Top, name # Nothing,
           NEW above \in States(m),
           NEW k, k.root = m.root, k.vertex = m.vertex \cup {name}, k.parent[name] = above,
           \A w \in m.vertex : k.parent[w] = m.parent[w] /\ k.kind[w] = m.kind[w]
    PROVE  IsTree(k)
<1> DEFINE Body(f, w) == IF w = m.root THEN <<w>> ELSE <<w>> \o f[k.parent[w]]
           g == [w \in k.vertex |->
                    IF w = name THEN <<name>> \o Chain(m, above) ELSE Chain(m, w)]
           f == CHOOSE f : f = [w \in k.vertex |-> Body(f, w)]
<1>1. /\ m.root \in States(m) /\ m.root \in m.vertex /\ above \in m.vertex
      /\ Top \notin k.vertex /\ Nothing \notin k.vertex
  BY DEF IsTree, States
<1>2. ASSUME NEW w \in m.vertex
      PROVE  /\ Chain(m, w) \in Seq(m.vertex)
             /\ w = m.root => Chain(m, w) = <<w>>
             /\ w # m.root => /\ m.parent[w] \in States(m) /\ m.parent[w] \in m.vertex
                              /\ Chain(m, w) = <<w>> \o Chain(m, m.parent[w])
  BY DEF IsTree, States
<1>3. g = [w \in k.vertex |-> Body(g, w)]
  <2>1. ASSUME NEW w \in k.vertex PROVE g[w] = Body(g, w)
    <3>1. CASE w = name
      <4>1. w # m.root /\ k.parent[w] = above /\ above # name
        BY <3>1, <1>1
      <4>2. g[above] = Chain(m, above)
        BY <4>1, <1>1
      <4>3. g[w] = <<name>> \o Chain(m, above)
        BY <3>1
      <4> HIDE DEF g
      <4> QED  BY <3>1, <4>1, <4>2, <4>3
    <3>2. CASE w # name
      <4>1. w \in m.vertex /\ g[w] = Chain(m, w)
        BY <3>2
      <4>2. w # m.root => g[k.parent[w]] = Chain(m, m.parent[w])
        BY <4>1, <1>2
      <4> HIDE DEF g
      <4> QED  BY <4>1, <4>2, <1>2
    <3> QED  BY <3>1, <3>2
  <2> HIDE DEF Body
  <2>2. g = [w \in k.vertex |-> g[w]]
    OBVIOUS
  <2> HIDE DEF g
  <2> QED  BY <2>1, <2>2
<1>4. f = [w \in k.vertex |-> Body(f, w)]
  <2> HIDE DEF g, Body
  <2> QED  BY <1>3
<1>5. \A w \in k.vertex : Chain(k, w) = f[w]
  BY <1>1 DEF Chain
<1> HIDE DEF f, g
<1>6. \A w \in k.vertex : f[w] = Body(f, w)
  BY <1>4
<1>7. \A w \in m.vertex : f[w] = Chain(m, w)
  <2> DEFINE T == {w \in m.vertex : f[w] # Chain(m, w)}
  <2>1. SUFFICES ASSUME T # {} PROVE FALSE
    OBVIOUS
  <2>2. PICK w \in T : w \in m.vertex => Dirname(m, w) \notin T
    <3>1. T \in SUBSET All(m)
      BY DEF All
    <3> HIDE DEF T
    <3> QED  BY <2>1, <3>1, Topmost
  <2>3. w \in m.vertex /\ f[w] # Chain(m, w) /\ f[w] = Body(f, w)
    BY <1>6
  <2>4. CASE w = m.root
    BY <2>3, <2>4, <1>2
  <2>5. CASE w # m.root
    <3>1. Dirname(m, w) = m.parent[w] /\ m.parent[w] \in m.vertex /\ k.parent[w] = m.parent[w]
      BY <2>3, <2>5, <1>1, <1>2 DEF Dirname
    <3>2. f[m.parent[w]] = Chain(m, m.parent[w])
      BY <2>2, <2>3, <3>1
    <3>3. f[w] = <<w>> \o f[m.parent[w]]
      BY <2>3, <2>5, <3>1
    <3>4. Chain(m, w) = <<w>> \o Chain(m, m.parent[w])
      BY <2>3, <2>5, <1>2
    <3> QED  BY <2>3, <3>2, <3>3, <3>4
  <2> QED  BY <2>4, <2>5
<1>8. f[name] = <<name>> \o Chain(m, above)
  BY <1>1, <1>6, <1>7
<1>9. States(m) \subseteq States(k)
  BY DEF States
<1>10. ASSUME NEW w \in k.vertex
       PROVE  /\ Chain(k, w) \in Seq(k.vertex)
              /\ IF w = k.root THEN Chain(k, w) = <<w>>
                 ELSE k.parent[w] \in States(k) /\ Chain(k, w) = <<w>> \o Chain(k, k.parent[w])
  <2>1. CASE w = name
    <3>1. Chain(k, w) = <<w>> \o Chain(m, above) /\ Chain(k, above) = Chain(m, above)
      BY <2>1, <1>1, <1>5, <1>7, <1>8
    <3>2. Chain(m, above) \in Seq(k.vertex)
      BY <1>1, <1>2, SeqMonotonic
    <3> QED  BY <2>1, <3>1, <3>2, <1>1, <1>9
  <2>2. CASE w # name
    <3>1. w \in m.vertex /\ Chain(k, w) = Chain(m, w)
      BY <2>2, <1>5, <1>7
    <3>2. Chain(m, w) \in Seq(k.vertex)
      BY <3>1, <1>2, SeqMonotonic
    <3>3. CASE w = m.root
      BY <3>1, <3>2, <3>3, <1>2
    <3>4. CASE w # m.root
      <4>1. m.parent[w] \in States(m) /\ m.parent[w] \in m.vertex
            /\ Chain(m, w) = <<w>> \o Chain(m, m.parent[w]) /\ k.parent[w] = m.parent[w]
        BY <3>1, <3>4, <1>2
      <4>2. Chain(k, m.parent[w]) = Chain(m, m.parent[w])
        BY <4>1, <1>5, <1>7
      <4> QED  BY <3>1, <3>2, <3>4, <4>1, <4>2, <1>9
    <3> QED  BY <3>3, <3>4
  <2> QED  BY <2>1, <2>2
<1>11. k.root \in States(k)
  BY <1>1, <1>9
<1> QED  BY <1>1, <1>10, <1>11 DEF IsTree

\* The same names and parents make the same tree.
LEMMA TreeStays ==
    ASSUME NEW m, IsTree(m), NEW k, k.root = m.root, k.vertex = m.vertex,
           k.parent = m.parent, k.kind = m.kind
    PROVE  IsTree(k) /\ States(k) = States(m)
<1>1. States(k) = States(m)
  BY DEF States
<1>2. \A w : Chain(k, w) = Chain(m, w)
  BY DEF Chain
<1> QED  BY <1>1, <1>2 DEF IsTree

\* The fields of a chart.
Fields == {"root", "vertex", "event", "kind", "parent", "initial", "outgoing", "deferred",
           "activities", "transition", "source", "owner", "target", "events", "guarded",
           "effect", "entry", "exit", "activity"}

\* What CheckNext keeps of a chart with one transition.
ChartShape ==
    /\ DOMAIN chart = Fields
    /\ chart.root = "m" /\ chart.transition = {"t"}
    /\ DOMAIN chart.source = {"t"} /\ DOMAIN chart.target = {"t"}
    /\ \A v \in chart.vertex : chart.kind[v] # "entry"
    /\ \E k \in 0 .. Len(Names) :
           /\ chart.vertex = {"m"} \cup {Names[i] : i \in 1 .. k}
           /\ IsFiniteSet(chart.vertex) /\ Cardinality(chart.vertex) = k + 1
    /\ ~drawn => \A v \in chart.vertex : chart.initial[v] = Nothing /\ chart.outgoing[v] = << >>

ChartInv == IsChart(chart) /\ ChartShape /\ model = Finalize(chart)

\* A tree none of whose transitions is listed anywhere.
LEMMA UnlistedIsChart ==
    ASSUME NEW m, IsTree(m), Nothing \notin m.transition,
           \A t \in m.transition :
               m.source[t] \in m.vertex /\ m.target[t] \in m.vertex \cup {Nothing},
           \A v \in m.vertex : m.initial[v] = Nothing /\ m.outgoing[v] = << >>
    PROVE  IsChart(m)
<1>1. DOMAIN << >> = {}
  OBVIOUS
<1>2. << >> \in Seq(m.transition \ Initials(m))
  OBVIOUS
<1>3. ASSUME NEW v \in m.vertex
      PROVE  /\ m.initial[v] # Nothing =>
                    m.initial[v] \in m.transition /\ m.source[m.initial[v]] = v
             /\ m.outgoing[v] \in Seq(m.transition \ Initials(m))
             /\ DOMAIN m.outgoing[v] = {}
  BY <1>1, <1>2
<1> QED  BY <1>3 DEF IsChart

LEMMA ChartInit == ASSUME CheckInit PROVE ChartInv
<1>0. /\ chart = Blank /\ drawn = FALSE /\ model = Finalize(chart)
      /\ Blank.root = "m" /\ Blank.vertex = {"m"} /\ Blank.kind["m"] = "state"
      /\ Blank.transition = {"t"} /\ Blank.source["t"] = "m" /\ Blank.target["t"] = Nothing
      /\ Blank.initial["m"] = Nothing /\ Blank.outgoing["m"] = << >>
      /\ DOMAIN Blank.source = {"t"} /\ DOMAIN Blank.target = {"t"}
      /\ DOMAIN Blank = Fields
  BY DEF CheckInit, Blank, Fields
<1>1. IsTree(Blank)
  <2> DEFINE Body(f, w) == IF w = Blank.root THEN <<w>> ELSE <<w>> \o f[Blank.parent[w]]
             g == [w \in Blank.vertex |-> <<w>>]
             f == CHOOSE f : f = [w \in Blank.vertex |-> Body(f, w)]
  <2>1. g = [w \in Blank.vertex |-> Body(g, w)]
    BY <1>0
  <2>2. f = [w \in Blank.vertex |-> Body(f, w)]
    <3> HIDE DEF g, Body
    <3> QED  BY <2>1
  <2>3. Chain(Blank, "m") = f["m"]
    BY DEF Chain, Top
  <2> HIDE DEF f
  <2>4. f["m"] = <<"m">>
    BY <1>0, <2>2
  <2>5. States(Blank) = {"m"}
    BY <1>0 DEF States
  <2>6. Top \notin {"m"} /\ Nothing \notin {"m"}
    BY DEF Top, Nothing
  <2>7. Chain(Blank, "m") = <<"m">> /\ <<"m">> \in Seq({"m"})
    BY <2>3, <2>4
  <2> QED  BY <1>0, <2>5, <2>6, <2>7 DEF IsTree
<1>2. IsChart(Blank)
  <2>1. "t" # Nothing
    BY DEF Nothing
  <2> QED  BY <1>0, <1>1, <2>1, UnlistedIsChart
<1>3. /\ Blank.vertex = {"m"} \cup {Names[i] : i \in 1 .. 0}
      /\ IsFiniteSet(Blank.vertex) /\ Cardinality(Blank.vertex) = 0 + 1
      /\ 0 \in 0 .. Len(Names)
  <2>1. 1 .. 0 = {} /\ 0 + 1 = 1
    OBVIOUS
  <2>2. IsFiniteSet({"m"}) /\ Cardinality({"m"}) = 1
    BY FS_Singleton
  <2>3. Len(Names) \in Nat
    BY NamesAssumption
  <2> QED  BY <1>0, <2>1, <2>2, <2>3
<1> QED  BY <1>0, <1>2, <1>3 DEF ChartInv, ChartShape

LEMMA ChartAddVertex ==
    ASSUME ChartInv, ~drawn, Cardinality(chart.vertex) <= Len(Names),
           NEW above \in chart.vertex, NEW type \in Kinds,
           AddVertex(Names[Cardinality(chart.vertex)], above, type),
           model' = Finalize(chart')
    PROVE  ChartInv'
<1> DEFINE m == chart
           k == chart'
           name == Names[Cardinality(chart.vertex)]
           vs == chart.vertex \cup {name}
           With(f, x) == [v \in vs |-> IF v = name THEN x ELSE f[v]]
<1>1. PICK n \in 0 .. Len(Names) :
          /\ m.vertex = {"m"} \cup {Names[i] : i \in 1 .. n}
          /\ IsFiniteSet(m.vertex) /\ Cardinality(m.vertex) = n + 1
  BY DEF ChartInv, ChartShape
<1>2. /\ Len(Names) \in Nat /\ n + 1 \in 1 .. Len(Names) /\ name = Names[n + 1]
      /\ name \notin m.vertex /\ name # Top /\ name # Nothing
  <2>1. Len(Names) \in Nat /\ DOMAIN Names = 1 .. Len(Names)
        /\ \A i \in 1 .. Len(Names) : Names[i] \notin {"m", Top, Nothing}
    BY NamesAssumption
  <2>2. n + 1 \in 1 .. Len(Names) /\ name = Names[n + 1]
    BY <1>1, <2>1
  <2>3. \A i \in 1 .. n : i \in 1 .. Len(Names) /\ i # n + 1
    BY <2>1, <2>2
  <2>4. \A i \in 1 .. n : Names[i] # name
    BY <2>1, <2>2, <2>3, NamesAssumption
  <2> HIDE DEF name
  <2> QED  BY <1>1, <2>1, <2>2, <2>4
<1>3. /\ DOMAIN m = Fields /\ m.root = "m" /\ m.transition = {"t"}
      /\ DOMAIN m.source = {"t"} /\ DOMAIN m.target = {"t"}
      /\ \A v \in m.vertex : /\ m.kind[v] # "entry"
                             /\ m.initial[v] = Nothing /\ m.outgoing[v] = << >>
      /\ IsChart(m)
  BY DEF ChartInv, ChartShape
<1>4. /\ m.kind[above] \in {"state", "submachine"} /\ drawn' = drawn
      /\ k = [m EXCEPT !.vertex = vs, !.kind = With(@, type), !.parent = With(@, above),
                       !.initial = With(@, Nothing), !.outgoing = With(@, << >>),
                       !.deferred = With(@, {}), !.activities = With(@, << >>)]
  BY DEF AddVertex
<1> HIDE DEF name
<1>5. /\ DOMAIN k = Fields /\ k.root = "m" /\ k.transition = {"t"} /\ k.vertex = vs
      /\ k.source = m.source /\ k.target = m.target
      /\ k.kind = With(m.kind, type) /\ k.parent = With(m.parent, above)
      /\ k.initial = With(m.initial, Nothing) /\ k.outgoing = With(m.outgoing, << >>)
  <2> HIDE DEF With, vs, m, k
  <2>1. DOMAIN m = Fields
    BY <1>3
  <2> QED  BY <1>3, <1>4 DEF Fields
<1> HIDE DEF m, k
<1>6. /\ k.kind[name] = type /\ k.parent[name] = above
      /\ k.initial[name] = Nothing /\ k.outgoing[name] = << >>
      /\ \A v \in m.vertex : /\ k.kind[v] = m.kind[v] /\ k.parent[v] = m.parent[v]
                             /\ k.initial[v] = Nothing /\ k.outgoing[v] = << >>
  <2>1. ASSUME NEW f, NEW x
        PROVE  With(f, x)[name] = x /\ \A v \in m.vertex : With(f, x)[v] = f[v]
    <3>1. name \in vs /\ \A v \in m.vertex : v \in vs /\ v # name
      BY <1>2 DEF m
    <3> HIDE DEF vs
    <3> QED  BY <3>1
  <2> HIDE DEF With, vs
  <2>2. \A v \in m.vertex : m.initial[v] = Nothing /\ m.outgoing[v] = << >>
    BY <1>3
  <2> QED  BY <1>5, <2>1, <2>2
<1>7. k.vertex = m.vertex \cup {name} /\ above \in States(m)
  BY <1>4, <1>5 DEF States, m
<1> HIDE DEF vs, With
<1>8. IsTree(k)
  <2>1. IsTree(m)
    BY <1>3 DEF IsChart
  <2> QED  BY <2>1, <1>2, <1>3, <1>5, <1>6, <1>7, TreeGrows
<1>9. IsChart(k)
  <2>1. Nothing \notin k.transition
    BY <1>5 DEF Nothing
  <2>2. m.source["t"] \in m.vertex /\ m.target["t"] \in m.vertex \cup {Nothing}
    BY <1>3 DEF IsChart
  <2>3. \A v \in k.vertex : k.initial[v] = Nothing /\ k.outgoing[v] = << >>
    BY <1>6, <1>7
  <2>4. \A t \in k.transition :
           k.source[t] \in k.vertex /\ k.target[t] \in k.vertex \cup {Nothing}
    BY <1>5, <1>7, <2>2
  <2> QED  BY <1>8, <2>1, <2>3, <2>4, UnlistedIsChart
<1>10. \A v \in k.vertex : k.kind[v] # "entry" /\ k.initial[v] = Nothing /\ k.outgoing[v] = << >>
  BY <1>3, <1>6, <1>7, KindsAssumption
<1>11. /\ n + 1 \in 0 .. Len(Names)
       /\ k.vertex = {"m"} \cup {Names[i] : i \in 1 .. n + 1}
       /\ IsFiniteSet(k.vertex) /\ Cardinality(k.vertex) = (n + 1) + 1
  <2>1. IsFiniteSet(k.vertex) /\ Cardinality(k.vertex) = (n + 1) + 1
    <3>1. /\ IsFiniteSet(m.vertex \cup {name})
          /\ Cardinality(m.vertex \cup {name}) = Cardinality(m.vertex) + 1
      BY <1>1, <1>2, FS_AddElement DEF m
    <3> QED  BY <3>1, <1>1, <1>7 DEF m
  <2>2. 1 .. n + 1 = 1 .. n \cup {n + 1} /\ n + 1 \in 0 .. Len(Names)
    BY <1>2
  <2>3. k.vertex = {"m"} \cup {Names[i] : i \in 1 .. n + 1}
    BY <1>1, <1>2, <1>7, <2>2
  <2> QED  BY <2>1, <2>2, <2>3
<1> QED  BY <1>3, <1>5, <1>9, <1>10, <1>11 DEF ChartInv, ChartShape, k

LEMMA ChartDraw ==
    ASSUME ChartInv, NEW v \in chart.vertex, NEW w \in chart.vertex \cup {Nothing},
           Draw(v, w), model' = Finalize(chart')
    PROVE  ChartInv'
<1> DEFINE m == chart
           k == chart'
           out == [x \in m.vertex |-> IF x = v THEN <<"t">> ELSE << >>]
           ini == [x \in m.vertex |-> Nothing]
<1>1. /\ DOMAIN m = Fields /\ m.root = "m" /\ m.transition = {"t"}
      /\ DOMAIN m.source = {"t"} /\ DOMAIN m.target = {"t"}
      /\ \A x \in m.vertex : m.kind[x] # "entry"
      /\ IsChart(m) /\ IsTree(m)
  BY DEF ChartInv, ChartShape, IsChart
<1>2. /\ v \notin States(m) => w # Nothing
      /\ drawn' = TRUE
      /\ k = [m EXCEPT !.source["t"] = v, !.owner["t"] = v, !.target["t"] = w,
                       !.events["t"] = IF v \in States(m) THEN {"e"} ELSE {},
                       !.outgoing = out, !.initial = ini]
  BY DEF Draw
<1> HIDE DEF out, ini, m, k
<1>3. /\ DOMAIN k = Fields /\ k.root = m.root /\ k.vertex = m.vertex /\ k.parent = m.parent
      /\ k.kind = m.kind /\ k.transition = m.transition
      /\ k.source = [m.source EXCEPT !["t"] = v] /\ k.target = [m.target EXCEPT !["t"] = w]
      /\ k.outgoing = out /\ k.initial = ini
  BY <1>1, <1>2 DEF Fields
<1>4. IsTree(k) /\ States(k) = States(m)
  BY <1>1, <1>3, TreeStays
<1>5. /\ DOMAIN k.source = {"t"} /\ DOMAIN k.target = {"t"}
      /\ k.source["t"] = v /\ k.target["t"] = w
  BY <1>1, <1>3
<1>6. v \in m.vertex /\ w \in m.vertex \cup {Nothing}
  BY DEF m
<1>7. IsChart(k)
  <2>1. "t" # Nothing
    BY DEF Nothing
  <2>2. \A x \in k.vertex : k.initial[x] = Nothing
    BY <1>3 DEF ini
  <2>3. k.transition \ Initials(k) = {"t"}
    <3>1. Initials(k) = {}
      BY <2>2 DEF Initials, States
    <3> QED  BY <3>1, <1>1, <1>3
  <2>4. ASSUME NEW x \in k.vertex
        PROVE  /\ k.outgoing[x] \in Seq({"t"})
               /\ \A i \in DOMAIN k.outgoing[x] : k.outgoing[x][i] = "t" /\ x = v
    <3>1. k.outgoing[x] = IF x = v THEN <<"t">> ELSE << >>
      BY <1>3 DEF out
    <3>2. CASE x = v
      <4>1. k.outgoing[x] = <<"t">>
        BY <3>1, <3>2
      <4> QED  BY <4>1, <3>2
    <3>3. CASE x # v
      <4>1. k.outgoing[x] = << >>
        BY <3>1, <3>3
      <4> QED  BY <4>1
    <3> QED  BY <3>2, <3>3
  <2>5. ASSUME NEW x \in k.vertex, NEW i \in DOMAIN k.outgoing[x]
        PROVE  LET t == k.outgoing[x][i]
               IN  k.source[t] = x /\ (x \notin States(k) => k.target[t] # Nothing)
    BY <1>2, <1>4, <1>5, <2>4
  <2>6. \A t \in k.transition :
           k.source[t] \in k.vertex /\ k.target[t] \in k.vertex \cup {Nothing}
    BY <1>1, <1>3, <1>5, <1>6
  <2>7. Nothing \notin k.transition
    BY <1>1, <1>3, <2>1
  <2>8. \A x \in k.vertex : k.outgoing[x] \in Seq(k.transition \ Initials(k))
    BY <2>3, <2>4
  <2> QED  BY <1>4, <2>2, <2>5, <2>6, <2>7, <2>8 DEF IsChart
<1>8. \E n \in 0 .. Len(Names) :
          /\ k.vertex = {"m"} \cup {Names[i] : i \in 1 .. n}
          /\ IsFiniteSet(k.vertex) /\ Cardinality(k.vertex) = n + 1
  BY <1>3 DEF ChartInv, ChartShape, m
<1> QED  BY <1>1, <1>2, <1>3, <1>5, <1>7, <1>8 DEF ChartInv, ChartShape, k

LEMMA ChartDrawInitial ==
    ASSUME ChartInv, NEW v \in chart.vertex, NEW w \in chart.vertex,
           DrawInitial(v, w), model' = Finalize(chart')
    PROVE  ChartInv'
<1> DEFINE m == chart
           k == chart'
           out == [x \in m.vertex |-> << >>]
           ini == [x \in m.vertex |-> IF x = v THEN "t" ELSE Nothing]
<1>1. /\ DOMAIN m = Fields /\ m.root = "m" /\ m.transition = {"t"}
      /\ DOMAIN m.source = {"t"} /\ DOMAIN m.target = {"t"}
      /\ \A x \in m.vertex : m.kind[x] # "entry"
      /\ IsChart(m) /\ IsTree(m)
  BY DEF ChartInv, ChartShape, IsChart
<1>2. /\ drawn' = TRUE
      /\ k = [m EXCEPT !.source["t"] = v, !.owner["t"] = v, !.target["t"] = w,
                       !.events["t"] = {}, !.outgoing = out, !.initial = ini]
  BY DEF DrawInitial
<1> HIDE DEF out, ini, m, k
<1>3. /\ DOMAIN k = Fields /\ k.root = m.root /\ k.vertex = m.vertex /\ k.parent = m.parent
      /\ k.kind = m.kind /\ k.transition = m.transition
      /\ k.source = [m.source EXCEPT !["t"] = v] /\ k.target = [m.target EXCEPT !["t"] = w]
      /\ k.outgoing = out /\ k.initial = ini
  BY <1>1, <1>2 DEF Fields
<1>4. IsTree(k) /\ States(k) = States(m)
  BY <1>1, <1>3, TreeStays
<1>5. /\ DOMAIN k.source = {"t"} /\ DOMAIN k.target = {"t"}
      /\ k.source["t"] = v /\ k.target["t"] = w
  BY <1>1, <1>3
<1>6. v \in m.vertex /\ w \in m.vertex
  BY DEF m
<1>7. IsChart(k)
  <2>1. "t" # Nothing
    BY DEF Nothing
  <2>2. \A x \in k.vertex : k.initial[x] # Nothing => k.initial[x] = "t" /\ x = v
    BY <1>3 DEF ini
  <2>3. \A x \in k.vertex : k.outgoing[x] = << >>
    BY <1>3 DEF out
  <2>4. << >> \in Seq(k.transition \ Initials(k)) /\ DOMAIN << >> = {}
    OBVIOUS
  <2>5. ASSUME NEW x \in k.vertex
        PROVE  /\ k.outgoing[x] \in Seq(k.transition \ Initials(k))
               /\ DOMAIN k.outgoing[x] = {}
    BY <2>3, <2>4
  <2>6. \A t \in k.transition :
           k.source[t] \in k.vertex /\ k.target[t] \in k.vertex \cup {Nothing}
    BY <1>1, <1>3, <1>5, <1>6
  <2>7. Nothing \notin k.transition
    BY <1>1, <1>3, <2>1
  <2>8. \A x \in k.vertex : k.initial[x] # Nothing =>
            k.initial[x] \in k.transition /\ k.source[k.initial[x]] = x
    BY <1>1, <1>3, <1>5, <2>2
  <2> QED  BY <1>4, <2>5, <2>6, <2>7, <2>8 DEF IsChart
<1>8. \E n \in 0 .. Len(Names) :
          /\ k.vertex = {"m"} \cup {Names[i] : i \in 1 .. n}
          /\ IsFiniteSet(k.vertex) /\ Cardinality(k.vertex) = n + 1
  BY <1>3 DEF ChartInv, ChartShape, m
<1> QED  BY <1>1, <1>2, <1>3, <1>5, <1>7, <1>8 DEF ChartInv, ChartShape, k

\* Every chart that HsmFinalizerCheck draws is one.
THEOREM ChartsAreCharts == CheckSpec => []ChartInv
<1>1. CheckInit => ChartInv
  BY ChartInit
<1>2. ChartInv /\ [CheckNext]_<<chart, drawn, model>> => ChartInv'
  <2> SUFFICES ASSUME ChartInv, [CheckNext]_<<chart, drawn, model>> PROVE ChartInv'
    OBVIOUS
  <2>1. CASE CheckNext
    <3>1. ~drawn /\ model' = Finalize(chart')
      BY <2>1 DEF CheckNext
    <3>2. CASE /\ Cardinality(chart.vertex) <= Len(Names)
               /\ \E above \in chart.vertex, type \in Kinds :
                      AddVertex(Names[Cardinality(chart.vertex)], above, type)
      BY <3>1, <3>2, ChartAddVertex
    <3>3. CASE \E v \in chart.vertex, w \in chart.vertex \cup {Nothing} : Draw(v, w)
      BY <3>1, <3>3, ChartDraw
    <3>4. CASE \E v, w \in chart.vertex : DrawInitial(v, w)
      BY <3>1, <3>4, ChartDrawInitial
    <3> QED  BY <2>1, <3>2, <3>3, <3>4 DEF CheckNext
  <2>2. CASE UNCHANGED <<chart, drawn, model>>
    BY <2>2 DEF ChartInv, ChartShape
  <2> QED  BY <2>1, <2>2
<1> QED  BY <1>1, <1>2, PTL DEF CheckSpec

(***************************************************************************)
(* The properties of HsmFinalizerCheck                                     *)
(***************************************************************************)
LEMMA AncestorsAreAbove ==
    ASSUME ChartInv, NEW v \in chart.vertex
    PROVE  AncestorsOrSelf(v) = Above(chart, v)
<1>1. IsTree(chart)
  BY DEF ChartInv, IsChart
<1>2. v \in Above(chart, v) /\ \A u \in Above(chart, v) : u \in All(chart)
  BY <1>1, AboveOrdered DEF Ordered, All
<1> QED  BY <1>2, AncestorIsAbove DEF AncestorsOrSelf, All

\* LCA: on every chart it is the deepest vertex above both.
THEOREM CheckLCAIsDeepest == CheckSpec => []LCAIsDeepest
<1>1. ChartInv => LCAIsDeepest
  <2> SUFFICES ASSUME ChartInv, NEW a \in chart.vertex, NEW b \in chart.vertex
               PROVE  LET common == (AncestorsOrSelf(a) \cap AncestorsOrSelf(b))
                                        \ (IF a = b THEN {a} ELSE {})
                      IN  /\ LCA(chart, a, b) \in common
                          /\ common \subseteq AncestorsOrSelf(LCA(chart, a, b))
    BY DEF LCAIsDeepest
  <2> DEFINE l == LCA(chart, a, b)
             common == (Above(chart, a) \cap Above(chart, b)) \ (IF a = b THEN {a} ELSE {})
  <2>1. IsTree(chart) /\ Ordered(chart, a) /\ a \in All(chart)
    BY AboveOrdered DEF ChartInv, IsChart, All
  <2>2. Joins(chart, l, a, b)
    BY <2>1, LCAJoins
  <2>3. AncestorsOrSelf(a) = Above(chart, a) /\ AncestorsOrSelf(b) = Above(chart, b)
    BY AncestorsAreAbove
  <2>4. l \in All(chart)
    BY <2>1, <2>2 DEF Joins, Ordered
  <2>5. AncestorsOrSelf(l) = Above(chart, l)
    <3>1. CASE l = Top
      <4>1. \A w \in All(chart) : ~IsAncestor(chart, w, Top)
        BY <2>1, AboveTop, AncestorIsAbove
      <4> QED  BY <2>1, <3>1, <4>1, AboveTop DEF AncestorsOrSelf, All
    <3>2. CASE l # Top
      BY <2>4, <3>2, AncestorsAreAbove DEF All
    <3> QED  BY <3>1, <3>2
  <2> HIDE DEF l
  <2>6. l \in common /\ common \subseteq Above(chart, l)
    BY <2>2 DEF Joins
  <2> QED  BY <2>3, <2>5, <2>6 DEF l
<1> QED  BY <1>1, ChartsAreCharts, PTL

\* Where the transition of the chart is taken from a state.
LEMMA CurrentsAre ==
    ASSUME ChartInv, NEW v \in Currents
    PROVE  /\ IsTree(chart) /\ IsChart(chart) /\ "t" \in chart.transition
           /\ v \in CurrentVerticesFor(chart, "t") /\ v \in States(chart) /\ v \in chart.vertex
           /\ Source \in States(chart) /\ Source \in chart.vertex
           /\ Source \in Above(chart, v)
           /\ Target \in chart.vertex \cup {Nothing}
           /\ Target # Nothing => Plain(chart, "t")
<1> DEFINE s == chart.source["t"]
           w == chart.target["t"]
<1>1. /\ IsTree(chart) /\ IsChart(chart) /\ "t" \in chart.transition
      /\ \A x \in chart.vertex : chart.kind[x] # "entry"
  BY DEF ChartInv, ChartShape, IsChart
<1>2. v \in CurrentVerticesFor(chart, "t") /\ v \in States(chart) /\ v \in chart.vertex
  BY DEF Currents, States
<1>3. s \in chart.vertex /\ s \in Above(chart, v)
  BY <1>1, <1>2, TakenBelowSource
<1>4. s \in States(chart)
  <2>1. CASE v = s
    BY <1>2, <2>1
  <2>2. CASE v # s
    <3>1. Ordered(chart, v) /\ s # Top
      BY <1>1, <1>2, <1>3, AboveOrdered DEF All, IsTree
    <3> QED  BY <1>3, <2>2, <3>1 DEF Ordered
  <2> QED  BY <2>1, <2>2
<1>5. w \in chart.vertex \cup {Nothing}
  BY <1>1 DEF IsChart
<1>6. w # Nothing => Plain(chart, "t")
  BY <1>1, <1>3, <1>4, <1>5 DEF Plain, Is, States
<1> QED  BY <1>1, <1>2, <1>3, <1>4, <1>5, <1>6 DEF Source, Target

\* What its paths leave and enter.
LEMMA ExitAndEnter ==
    ASSUME ChartInv, NEW v \in Currents, Target # Nothing
    PROVE  LET l == PathLCA(chart, v, "t")
           IN  /\ l \in Above(chart, v) /\ l \in Above(chart, Target) /\ l \in All(chart)
               /\ Target \in chart.vertex
               /\ TipAt(chart, l) \in chart.vertex
               /\ Exit(v) = Above(chart, v) \ Above(chart, l)
               /\ Enter(v) = Above(chart, Target) \ Above(chart, TipAt(chart, l))
<1> DEFINE l == PathLCA(chart, v, "t")
           p == PathForCurrent(chart, v, "t")
<1>1. /\ IsTree(chart) /\ IsChart(chart) /\ "t" \in chart.transition
      /\ v \in CurrentVerticesFor(chart, "t") /\ Plain(chart, "t") /\ v \in chart.vertex
  BY CurrentsAre
<1>2. /\ Target \in chart.vertex
      /\ l \in Above(chart, v) /\ l \in Above(chart, Target)
      /\ Climbs(p.exit, chart, v, l)
      /\ TipAt(chart, l) \in chart.vertex
      /\ Falls(p.enter, chart, TipAt(chart, l), Target)
  BY <1>1, PlainPaths DEF Target
<1>3. l \in All(chart)
  BY <1>1, <1>2, AboveOrdered DEF Ordered, All
<1>4. Exit(v) = ToSet(p.exit) /\ Enter(v) = ToSet(p.enter)
  BY DEF Exit, Enter
<1> HIDE DEF l, p
<1>5. Exit(v) = Above(chart, v) \ Above(chart, l)
  BY <1>2, <1>4 DEF Climbs
<1>6. Enter(v) = Above(chart, Target) \ Above(chart, TipAt(chart, l))
  BY <1>2, <1>4 DEF Falls
<1> QED  BY <1>2, <1>3, <1>5, <1>6 DEF l

\* _finalize_path_for_current: on every chart, leaving the exit path and then
\* entering the enter path makes exactly the target and its ancestors active.
THEOREM CheckPathsJoin == CheckSpec => []PathsJoin
<1>1. ASSUME ChartInv, Target # Nothing, NEW v \in Currents
      PROVE  /\ Exit(v) \subseteq AncestorsOrSelf(v)
             /\ Enter(v) \cap (ActiveIn(v) \ Exit(v)) = {}
             /\ (ActiveIn(v) \ Exit(v)) \cup Enter(v) = ActiveIn(Target)
  <2> DEFINE l == PathLCA(chart, v, "t")
             s == TipAt(chart, l)
  <2>1. IsTree(chart) /\ v \in chart.vertex /\ chart.root = "m"
    BY <1>1, CurrentsAre DEF ChartInv, ChartShape
  <2>2. /\ l \in Above(chart, v) /\ l \in Above(chart, Target) /\ l \in All(chart)
        /\ Target \in chart.vertex /\ s \in chart.vertex
        /\ Exit(v) = Above(chart, v) \ Above(chart, l)
        /\ Enter(v) = Above(chart, Target) \ Above(chart, s)
    BY <1>1, ExitAndEnter
  <2>3. /\ ActiveIn(v) = Above(chart, v) \ {"m", Top}
        /\ ActiveIn(Target) = Above(chart, Target) \ {"m", Top}
        /\ AncestorsOrSelf(v) = Above(chart, v)
    BY <1>1, <2>1, <2>2, AncestorsAreAbove DEF ActiveIn
  <2>4. /\ Above(chart, l) \subseteq Above(chart, v)
        /\ Above(chart, l) \subseteq Above(chart, Target)
    BY <2>1, <2>2, AboveOrdered DEF Ordered, All
  <2>5. "m" \in Above(chart, s) /\ Top \in Above(chart, s)
    BY <2>1, <2>2, RootAbove, AboveOrdered DEF Ordered, All
  <2>6. CASE l = Top
    <3>1. s = "m" /\ Above(chart, l) = {Top}
      BY <2>1, <2>6, AboveTop DEF TipAt
    <3>2. Above(chart, s) = {"m", Top}
      BY <2>1, <2>2, <3>1, AboveStep, AboveTop
    <3> HIDE DEF l, s
    <3> QED  BY <2>2, <2>3, <3>1, <3>2
  <2>7. CASE l # Top
    <3>1. s = l
      BY <2>7 DEF TipAt
    <3> HIDE DEF l, s
    <3> QED  BY <2>2, <2>3, <2>4, <2>5, <3>1
  <2> QED  BY <2>6, <2>7
<1>2. ChartInv => Of(model)!TreeShaped /\ Of(model)!PathsLead /\ Of(model)!PathsEnd
  <2> SUFFICES ASSUME ChartInv
               PROVE  Of(model)!TreeShaped /\ Of(model)!PathsLead /\ Of(model)!PathsEnd
    OBVIOUS
  <2>1. IsTree(chart) /\ IsChart(chart) /\ model = Finalize(chart)
    BY DEF ChartInv, IsChart
  <2>2. /\ Of(Finalize(chart))!TreeShaped /\ Of(Finalize(chart))!PathsLead
        /\ Of(Finalize(chart))!PathsEnd
    BY <2>1, FinalizedTreeShaped, FinalizedPathsLead, FinalizedPathsEnd
  <2> QED  BY <2>1, <2>2
<1>3. ChartInv => PathsJoin
  BY <1>1, <1>2 DEF PathsJoin
<1> QED  BY <1>3, ChartsAreCharts, PTL

\* KindResolver with _finalize_path_for_current: on every chart the kind of a
\* transition decides whether its source is left.
THEOREM CheckKindDecidesExit == CheckSpec => []KindDecidesExit
<1>1. ASSUME ChartInv, NEW v \in Currents, Target = Nothing
      PROVE  /\ TransitionKind(chart, "t") \in {"internal", "local"}
             /\ Exit(v) = {} /\ Enter(v) = {}
  <2>1. Source \in chart.vertex /\ Nothing \notin chart.vertex
    BY <1>1, CurrentsAre DEF IsTree
  <2>2. TransitionKind(chart, "t") \in {"internal", "local"}
    BY <1>1, <2>1 DEF TransitionKind, Source, Target, Is
  <2>3. PathForCurrent(chart, v, "t") = NoPath
    BY <1>1 DEF PathForCurrent, Target
  <2> QED  BY <2>2, <2>3 DEF Exit, Enter, NoPath, ToSet
<1>2. ASSUME ChartInv, NEW v \in Currents, Target # Nothing
      PROVE  CASE TransitionKind(chart, "t") = "external" -> Source \in Exit(v)
               [] TransitionKind(chart, "t") = "self" ->
                      Source \in Exit(v) /\ (Source # "m" => Source \in Enter(v))
               [] TransitionKind(chart, "t") = "local" -> Source \notin Exit(v)
               [] OTHER -> Exit(v) = {} /\ Enter(v) = {}
  <2> DEFINE m == chart
             s == Source
             w == Target
             l == PathLCA(m, v, "t")
             d == Dirname(m, s)
  <2>1. /\ IsTree(m) /\ m.root = "m" /\ Plain(m, "t") /\ v \in m.vertex /\ s \in m.vertex
        /\ s \in Above(m, v) /\ v \in CurrentVerticesFor(m, "t")
    BY <1>2, CurrentsAre DEF ChartInv, ChartShape
  <2>2. /\ l \in Above(m, v) /\ l \in Above(m, w) /\ l \in All(m) /\ w \in m.vertex
        /\ Exit(v) = Above(m, v) \ Above(m, l)
        /\ Enter(v) = Above(m, w) \ Above(m, TipAt(m, l))
    BY <1>2, ExitAndEnter
  <2>3. /\ TransitionKind(m, "t") = "self" <=> w = s
        /\ TransitionKind(m, "t") = "local" <=> IsAncestor(m, s, w)
        /\ TransitionKind(m, "t") = "external" <=> w # s /\ ~IsAncestor(m, s, w)
    BY <2>1, KindOfEnds DEF Plain, Source, Target
  <2>4. /\ d \in All(m) /\ s \notin Above(m, d) /\ Above(m, s) = {s} \cup Above(m, d)
        /\ s # "m" <=> d # Top
    BY <2>1, AboveStep
  <2>5. s \in Above(m, s) /\ Above(m, l) \subseteq Above(m, w)
    BY <2>1, <2>2, AboveOrdered DEF Ordered, All
  <2>6. CASE TransitionKind(m, "t") = "external"
    <3>1. s \notin Above(m, w)
      BY <2>3, <2>6, AncestorIsAbove
    <3>2. s \in Exit(v)
      BY <2>1, <2>2, <2>5, <3>1
    <3> QED  BY <2>6, <3>2
  <2>7. CASE TransitionKind(m, "t") = "self"
    <3>1. l = d
      <4>1. CASE "t" \in Initials(m)
        <5>1. v = s
          BY <2>1, <4>1 DEF CurrentVerticesFor, Source
        <5>2. l = LCA(m, s, s)
          BY <2>3, <2>7, <4>1, <5>1 DEF PathLCA, Target
        <5> QED  BY <2>1, <5>2, LCAMeets DEF All
      <4>2. CASE "t" \notin Initials(m)
        BY <2>7, <4>2 DEF PathLCA, Source
      <4> QED  BY <4>1, <4>2
    <3>2. s \in Exit(v)
      <4> HIDE DEF l, d
      <4> QED  BY <2>1, <2>2, <2>4, <3>1
    <3>3. s # "m" => s \in Enter(v)
      <4> HIDE DEF l, d
      <4>1. w = s
        BY <2>3, <2>7
      <4>2. s # "m" => TipAt(m, l) = d
        BY <2>4, <3>1 DEF TipAt
      <4> QED  BY <2>2, <2>4, <2>5, <4>1, <4>2
    <3> QED  BY <2>7, <3>2, <3>3
  <2>8. CASE TransitionKind(m, "t") = "local"
    <3>1. s # w /\ s \in Above(m, w)
      BY <2>3, <2>8, AncestorIsAbove
    <3>2. ASSUME l = LCA(m, v, w) PROVE s \in Above(m, l)
      <4>1. Joins(m, l, v, w)
        BY <2>1, <2>2, <3>2, LCAJoins
      <4>2. s \in Above(m, v) /\ s \in Above(m, w) /\ (s # v \/ v # w)
        BY <2>1, <3>1
      <4> HIDE DEF l, s, w
      <4> QED  BY <4>1, <4>2 DEF Joins
    <3>3. ASSUME l = Dirname(m, w) PROVE s \in Above(m, l)
      <4>1. Above(m, w) = {w} \cup Above(m, Dirname(m, w))
        BY <2>1, <2>2, AboveStep
      <4> QED  BY <3>1, <3>3, <4>1
    <3>4. l = LCA(m, v, w) \/ l = Dirname(m, w)
      BY <2>8 DEF PathLCA, Target
    <3>5. s \in Above(m, l)
      <4> HIDE DEF l, s, w
      <4> QED  BY <3>2, <3>3, <3>4
    <3>6. s \notin Exit(v)
      BY <2>2, <3>5
    <3> QED  BY <2>8, <3>6
  <2>9. \/ TransitionKind(m, "t") = "external" \/ TransitionKind(m, "t") = "self"
        \/ TransitionKind(m, "t") = "local"
    BY <2>3
  <2> QED  BY <2>6, <2>7, <2>8, <2>9
<1>3. ASSUME ChartInv PROVE KindDecidesExit
  <2> SUFFICES ASSUME NEW v \in Currents
               PROVE  CASE TransitionKind(chart, "t") = "external" -> Source \in Exit(v)
                        [] TransitionKind(chart, "t") = "self" ->
                               Source \in Exit(v) /\ (Source # "m" => Source \in Enter(v))
                        [] TransitionKind(chart, "t") = "local" -> Source \notin Exit(v)
                        [] OTHER -> Exit(v) = {} /\ Enter(v) = {}
    BY DEF KindDecidesExit
  <2>1. CASE Target = Nothing
    BY <1>1, <1>3, <2>1
  <2>2. CASE Target # Nothing
    BY <1>2, <1>3, <2>2
  <2> QED  BY <2>1, <2>2
<1> QED  BY <1>3, ChartsAreCharts, PTL

\* As many vertices are above v as v is deep.
LEMMA AboveIsDeep ==
    ASSUME NEW m, IsTree(m), NEW v \in All(m)
    PROVE  IsFiniteSet(Above(m, v)) /\ Cardinality(Above(m, v)) = Depth(m, v) + 1
<1> DEFINE Deep(w) == IsFiniteSet(Above(m, w)) /\ Cardinality(Above(m, w)) = Depth(m, w) + 1
           T == {w \in All(m) : ~Deep(w)}
<1>1. SUFFICES ASSUME T # {} PROVE FALSE
  OBVIOUS
<1>2. PICK w \in T : w \in m.vertex => Dirname(m, w) \notin T
  <2>1. T \in SUBSET All(m)
    OBVIOUS
  <2> HIDE DEF T
  <2> QED  BY <1>1, <2>1, Topmost
<1>3. CASE w = Top
  <2>1. Above(m, w) = {Top} /\ Depth(m, w) = 0
    BY <1>3, AboveTop
  <2>2. IsFiniteSet({Top}) /\ Cardinality({Top}) = 1
    BY FS_Singleton
  <2> QED  BY <1>2, <2>1, <2>2
<1>4. CASE w # Top
  <2>1. w \in m.vertex
    BY <1>4 DEF All
  <2>2. /\ Above(m, w) = {w} \cup Above(m, Dirname(m, w)) /\ Dirname(m, w) \in All(m)
        /\ w \notin Above(m, Dirname(m, w))
        /\ Depth(m, w) = Depth(m, Dirname(m, w)) + 1
    BY <2>1, AboveStep
  <2>3. Deep(Dirname(m, w))
    BY <2>1, <2>2, <1>2
  <2> DEFINE A == Above(m, Dirname(m, w))
  <2>4. IsFiniteSet(A \cup {w}) /\ Cardinality(A \cup {w}) = Cardinality(A) + 1
    BY <2>2, <2>3, FS_AddElement
  <2>5. A \cup {w} = Above(m, w)
    BY <2>2
  <2> QED  BY <1>2, <2>2, <2>3, <2>4, <2>5
<1> QED  BY <1>3, <1>4

\* _history_targets and _finalize_history_paths: on every chart a history goes
\* back to the state that was left, or to the child of its owner above it, and
\* enters every state on the way once.
THEOREM CheckHistoryReturns == CheckSpec => []HistoryReturns
<1>1. ASSUME ChartInv, NEW v \in chart.vertex
      PROVE  /\ ActiveIn(v) = Above(chart, v) \ {"m", Top}
             /\ Cardinality(ActiveIn(v)) = Depth(chart, v) - 1
             /\ Depth(chart, v) \in Nat
  <2>1. IsTree(chart) /\ chart.root = "m" /\ v \in All(chart)
    BY <1>1 DEF ChartInv, ChartShape, IsChart, All
  <2>2. ActiveIn(v) = Above(chart, v) \ {"m", Top}
    BY <1>1, AncestorsAreAbove DEF ActiveIn
  <2> DEFINE A == Above(chart, v)
  <2>3. IsFiniteSet(A) /\ Cardinality(A) = Depth(chart, v) + 1 /\ Depth(chart, v) \in Nat
    BY <2>1, AboveIsDeep, AboveStep
  <2>4. "m" \in A /\ Top \in A /\ "m" # Top
    BY <2>1, RootAbove, AboveOrdered DEF Ordered, Top
  <2> HIDE DEF A
  <2>5. IsFiniteSet(A \ {"m"}) /\ Cardinality(A \ {"m"}) = Cardinality(A) - 1
    BY <2>3, <2>4, FS_RemoveElement
  <2>6. Cardinality((A \ {"m"}) \ {Top}) = Cardinality(A \ {"m"}) - 1
    BY <2>4, <2>5, FS_RemoveElement
  <2>7. (A \ {"m"}) \ {Top} = A \ {"m", Top}
    OBVIOUS
  <2> QED  BY <2>2, <2>3, <2>5, <2>6, <2>7 DEF A
<1>2. ASSUME ChartInv, NEW h \in Histories(chart), NEW v \in States(chart),
             IsAncestor(chart, HistoryOwner(chart, h), v)
      PROVE  LET owner == HistoryOwner(chart, h)
                 kept  == HistoryTargets(chart, v, Nothing)[h]
             IN  /\ kept \in States(chart)
                 /\ IF chart.kind[h] = "deep" THEN kept = v
                    ELSE Dirname(chart, kept) = owner /\ kept \in AncestorsOrSelf(v)
                 /\ ToSet(HistoryPath(chart, h, kept)) = ActiveIn(kept) \ ActiveIn(owner)
                 /\ Len(HistoryPath(chart, h, kept)) =
                        Cardinality(ActiveIn(kept)) - Cardinality(ActiveIn(owner))
  <2> DEFINE o == HistoryOwner(chart, h)
             r == HistoryTarget(chart, h, v)
  <2>1. IsTree(chart) /\ chart.root = "m" /\ v \in chart.vertex /\ Nothing \notin chart.vertex
    BY <1>2 DEF ChartInv, ChartShape, IsChart, States, IsTree
  <2>2. o \in chart.vertex
    BY <2>1, OwnerOfHistory
  <2>3. HistoryTargets(chart, v, Nothing)[h] = r
    BY <1>2, <2>1, <2>2 DEF HistoryTargets
  <2>4. /\ r \in States(chart) /\ IsAncestor(chart, o, r) /\ r \in Above(chart, v)
        /\ chart.kind[h] = "deep" => r = v
        /\ chart.kind[h] # "deep" => Dirname(chart, r) = o
    BY <1>2, <2>1, HistoryRemembers
  <2>5. AncestorsOrSelf(v) = Above(chart, v) /\ r \in chart.vertex
    BY <1>2, <2>1, <2>4, AncestorsAreAbove DEF States
  <2>6. Falls(HistoryPath(chart, h, r), chart, o, r)
    BY <2>1, <2>4, HistoryPathFalls
  <2>7. /\ ToSet(HistoryPath(chart, h, r)) = Above(chart, r) \ Above(chart, o)
        /\ Len(HistoryPath(chart, h, r)) = Depth(chart, r) - Depth(chart, o)
    BY <2>6 DEF Falls
  <2>8. "m" \in Above(chart, o) /\ Top \in Above(chart, o)
    BY <2>1, <2>2, RootAbove, AboveOrdered DEF Ordered, All
  <2> HIDE DEF o, r
  <2>9. /\ ActiveIn(r) = Above(chart, r) \ {"m", Top}
        /\ ActiveIn(o) = Above(chart, o) \ {"m", Top}
        /\ Cardinality(ActiveIn(r)) = Depth(chart, r) - 1
        /\ Cardinality(ActiveIn(o)) = Depth(chart, o) - 1
        /\ Depth(chart, r) \in Nat /\ Depth(chart, o) \in Nat
    BY <1>1, <1>2, <2>2, <2>5
  <2>10. ToSet(HistoryPath(chart, h, r)) = ActiveIn(r) \ ActiveIn(o)
    BY <2>7, <2>8, <2>9
  <2>11. Len(HistoryPath(chart, h, r)) = Cardinality(ActiveIn(r)) - Cardinality(ActiveIn(o))
    BY <2>7, <2>9
  <2> QED  BY <2>3, <2>4, <2>5, <2>10, <2>11 DEF o, r
<1>3. ASSUME ChartInv PROVE Of(model)!HistoriesReturn
  <2>1. IsTree(chart) /\ model = Finalize(chart)
    BY <1>3 DEF ChartInv, IsChart
  <2> QED  BY <2>1, FinalizedHistoriesReturn
<1>4. ChartInv => HistoryReturns
  BY <1>2, <1>3 DEF HistoryReturns
<1> QED  BY <1>4, ChartsAreCharts, PTL
=============================================================================
