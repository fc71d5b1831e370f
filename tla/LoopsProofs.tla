----------------------------- MODULE LoopsProofs -----------------------------
(***************************************************************************)
(* Proofs about Loops and Cli: the shapes of trees, the types of every     *)
(* loop, that they too yield what greedy decoding would, and that the      *)
(* command prints all of it.                                               *)
(***************************************************************************)
EXTENDS Cli, GenerationProofs

------------------------------------------------------------------------------
(* Numbers. *)

LEMMA Climb ==
  ASSUME NEW S, 0 \in S, \A n \in Nat : n \in S => n + 1 \in S
  PROVE  Nat \subseteq S
<1> DEFINE T == Nat \ S
<1>1. SUFFICES ASSUME T # {} PROVE FALSE
  OBVIOUS
<1>2. PICK x \in T : \A y \in T : x <= y
  <2>1. T \subseteq Nat
    OBVIOUS
  <2> HIDE DEF T
  <2> QED BY <1>1, <2>1, Least
<1>3. x # 0 /\ x - 1 \in Nat
  OBVIOUS
<1>4. x - 1 \in S
  BY <1>2, <1>3
<1>5. (x - 1) + 1 = x
  BY <1>3
<1> QED BY <1>3, <1>4, <1>5

\* Division, and how to recognize it.
LEMMA DivIs ==
  ASSUME NEW x \in Nat, NEW a \in Nat \ {0}
  PROVE  /\ x \div a \in Nat /\ a * (x \div a) <= x /\ x < a * (x \div a) + a
<1>1. PICK d : d = x \div a
  OBVIOUS
<1>2. d \in Int /\ a * d <= x /\ x < a * d + a
  BY <1>1
<1>3. d >= 0
  <2>1. SUFFICES ASSUME d <= -1 PROVE FALSE
    BY <1>2
  <2>2. a * d <= a * (-1)
    BY <1>2, <2>1
  <2>3. a * d \in Int
    BY <1>2
  <2> QED BY <1>2, <2>2, <2>3
<1> QED BY <1>1, <1>2, <1>3

LEMMA DivOf ==
  ASSUME NEW x \in Nat, NEW a \in Nat \ {0}, NEW d \in Nat, a * d <= x, x < a * d + a
  PROVE  x \div a = d
<1>1. PICK e : e = x \div a
  OBVIOUS
<1>2. e \in Nat /\ a * e <= x /\ x < a * e + a
  BY <1>1, DivIs
<1>3. ASSUME NEW m \in Nat, NEW n \in Nat, a * m <= x, x < a * n + a PROVE m <= n
  <2>1. SUFFICES ASSUME m >= n + 1 PROVE FALSE
    OBVIOUS
  <2>2. a * m >= a * (n + 1)
    BY <2>1
  <2>3. a * (n + 1) = a * n + a
    OBVIOUS
  <2>4. a * m \in Nat /\ a * n \in Nat
    OBVIOUS
  <2> QED BY <1>3, <2>2, <2>3, <2>4
<1>4. d <= e /\ e <= d
  BY <1>2, <1>3
<1> QED BY <1>1, <1>2, <1>4

LEMMA DivTwice ==
  ASSUME NEW x \in Nat, NEW a \in Nat \ {0}, NEW b \in Nat \ {0}
  PROVE  x \div (a * b) = (x \div a) \div b
<1>1. PICK d : d = x \div a
  OBVIOUS
<1>2. d \in Nat /\ a * d <= x /\ x < a * d + a
  BY <1>1, DivIs
<1>3. PICK e : e = d \div b
  OBVIOUS
<1>4. e \in Nat /\ b * e <= d /\ d < b * e + b
  BY <1>2, <1>3, DivIs
<1>5. a * b \in Nat \ {0}
  OBVIOUS
<1>6. (a * b) * e <= x
  <2>1. a * (b * e) <= a * d
    BY <1>2, <1>4
  <2>2. a * (b * e) = (a * b) * e
    BY <1>4
  <2>3. a * (b * e) \in Nat /\ a * d \in Nat
    BY <1>2, <1>4
  <2> QED BY <1>2, <2>1, <2>2, <2>3
<1>7. x < (a * b) * e + a * b
  <2>1. PICK c : c = b * e + b
    OBVIOUS
  <2>2. c \in Nat /\ d + 1 <= c
    BY <1>2, <1>4, <2>1
  <2>3. a * (d + 1) <= a * c
    BY <1>2, <2>2
  <2>4. a * (d + 1) = a * d + a
    BY <1>2
  <2>5. a * c = (a * b) * e + a * b
    BY <1>4, <2>1
  <2>6. a * c \in Nat /\ a * d \in Nat
    BY <1>2, <2>2
  <2> QED BY <1>2, <2>3, <2>4, <2>5, <2>6
<1> QED BY <1>1, <1>3, <1>4, <1>5, <1>6, <1>7, DivOf

------------------------------------------------------------------------------
(* The shape of a tree. *)

Height == Len(Branching)

LEMMA ShapeIs ==
  /\ Height \in Nat \ {0} /\ Levels = 0 .. Height
  /\ \A d \in 1 .. Height : Branching[d] \in Nat \ {0}
<1>1. Branching \in Seq(Nat \ {0}) /\ Branching # <<>>
  BY LoopsAssumption
<1>2. Height \in Nat \ {0}
  BY <1>1, EmptySeq DEF Height
<1>3. \A d \in 1 .. Height : Branching[d] \in Nat \ {0}
  BY <1>1, ElementOfSeq DEF Height
<1> QED BY <1>2, <1>3 DEF Levels, Height

\* The nodes of the levels up to n, counted level by level.
Widens(g, n) ==
  g = [d \in 0 .. n |-> IF d = 0 THEN 1 ELSE g[d - 1] * Branching[d]]

LEMMA WidthIs ==
  /\ Width[0] = 1
  /\ \A d \in Levels : Width[d] \in Nat \ {0}
  /\ \A d \in 1 .. Height : Width[d] = Width[d - 1] * Branching[d]
<1> DEFINE S == {n \in Nat : n <= Height =>
                   \E g \in [0 .. n -> Nat \ {0}] : Widens(g, n)}
<1>1. 0 \in S
  <2>1. PICK g : g = [d \in 0 .. 0 |-> 1]
    OBVIOUS
  <2>2. g \in [0 .. 0 -> Nat \ {0}]
    BY <2>1
  <2>3. g = [d \in 0 .. 0 |-> IF d = 0 THEN 1 ELSE g[d - 1] * Branching[d]]
    BY <2>1
  <2> QED BY <2>2, <2>3 DEF Widens
<1>2. ASSUME NEW n \in Nat, n \in S PROVE n + 1 \in S
  <2>1. SUFFICES ASSUME n + 1 <= Height
                 PROVE  \E g \in [0 .. n + 1 -> Nat \ {0}] : Widens(g, n + 1)
    OBVIOUS
  <2>2. n <= Height /\ Branching[n + 1] \in Nat \ {0}
    BY <2>1, ShapeIs
  <2>3. PICK g \in [0 .. n -> Nat \ {0}] : Widens(g, n)
    BY <1>2, <2>2
  <2>4. PICK h : h = [d \in 0 .. n + 1 |-> IF d = n + 1 THEN g[n] * Branching[n + 1] ELSE g[d]]
    OBVIOUS
  <2>5. g[n] * Branching[n + 1] \in Nat \ {0}
    <3>1. g[n] \in Nat \ {0}
      OBVIOUS
    <3> QED BY <2>2, <3>1
  <2>6. h \in [0 .. n + 1 -> Nat \ {0}]
    BY <2>4, <2>5
  <2>7. ASSUME NEW d \in 0 .. n + 1
        PROVE  h[d] = IF d = 0 THEN 1 ELSE h[d - 1] * Branching[d]
    <3>1. CASE d = n + 1
      <4>1. d # 0 /\ d - 1 = n /\ n \in 0 .. n + 1 /\ n # n + 1
        BY <3>1
      <4> QED BY <2>4, <3>1, <4>1
    <3>2. CASE d # n + 1
      <4>1. d \in 0 .. n /\ (d # 0 => d - 1 \in 0 .. n + 1 /\ d - 1 # n + 1)
        BY <3>2
      <4>2. g[d] = IF d = 0 THEN 1 ELSE g[d - 1] * Branching[d]
        BY <2>3, <4>1 DEF Widens
      <4> QED BY <2>4, <3>2, <4>1, <4>2
    <3> QED BY <3>1, <3>2
  <2>8. Widens(h, n + 1)
    BY <2>6, <2>7 DEF Widens
  <2> QED BY <2>6, <2>8
<1>3. Height \in S
  <2> HIDE DEF S
  <2> QED BY <1>1, <1>2, Climb, ShapeIs
<1>4. PICK g \in [0 .. Height -> Nat \ {0}] : Widens(g, Height)
  BY <1>3, ShapeIs
<1>5. g = [d \in Levels |-> IF d = 0 THEN 1 ELSE g[d - 1] * Branching[d]]
  BY <1>4, ShapeIs DEF Widens
<1>6. Width = [d \in Levels |-> IF d = 0 THEN 1 ELSE Width[d - 1] * Branching[d]]
  BY <1>5 DEF Width
<1>7. Width[0] = 1
  <2>1. 0 \in Levels
    BY ShapeIs
  <2> QED BY <1>6, <2>1
<1>8. \A d \in 1 .. Height : Width[d] = Width[d - 1] * Branching[d]
  <2> SUFFICES ASSUME NEW d \in 1 .. Height PROVE Width[d] = Width[d - 1] * Branching[d]
    OBVIOUS
  <2>1. d \in Levels /\ d # 0
    BY ShapeIs
  <2> QED BY <1>6, <2>1
<1>9. \A d \in Levels : Width[d] \in Nat \ {0}
  <2> DEFINE U == {n \in Nat : n <= Height => Width[n] \in Nat \ {0}}
  <2>1. 0 \in U
    BY <1>7
  <2>2. ASSUME NEW n \in Nat, n \in U PROVE n + 1 \in U
    <3>1. SUFFICES ASSUME n + 1 <= Height PROVE Width[n + 1] \in Nat \ {0}
      OBVIOUS
    <3>2. n + 1 \in 1 .. Height /\ (n + 1) - 1 = n /\ n <= Height
      BY <3>1, ShapeIs
    <3>3. Width[n + 1] = Width[n] * Branching[n + 1] /\ Branching[n + 1] \in Nat \ {0}
      BY <1>8, <3>2, ShapeIs
    <3>4. Width[n] \in Nat \ {0}
      BY <2>2, <3>2
    <3> QED BY <3>3, <3>4
  <2>3. Nat \subseteq U
    <3> HIDE DEF U
    <3> QED BY <2>1, <2>2, Climb
  <2> QED BY <2>3, ShapeIs
<1> QED BY <1>7, <1>8, <1>9

\* The first node of each level.
Numbers(g, n) ==
  g = [d \in 0 .. n |-> IF d = 0 THEN 0 ELSE g[d - 1] + Width[d - 1]]

LEMMA FirstIs ==
  /\ First[0] = 0
  /\ \A d \in 0 .. Height + 1 : First[d] \in Nat
  /\ \A d \in Levels : First[d + 1] = First[d] + Width[d]
<1> DEFINE S == {n \in Nat : n <= Height + 1 => \E g \in [0 .. n -> Nat] : Numbers(g, n)}
<1>1. 0 \in S
  <2>1. PICK g : g = [d \in 0 .. 0 |-> 0]
    OBVIOUS
  <2>2. g \in [0 .. 0 -> Nat]
    BY <2>1
  <2>3. g = [d \in 0 .. 0 |-> IF d = 0 THEN 0 ELSE g[d - 1] + Width[d - 1]]
    BY <2>1
  <2> QED BY <2>2, <2>3 DEF Numbers
<1>2. ASSUME NEW n \in Nat, n \in S PROVE n + 1 \in S
  <2>1. SUFFICES ASSUME n + 1 <= Height + 1
                 PROVE  \E g \in [0 .. n + 1 -> Nat] : Numbers(g, n + 1)
    OBVIOUS
  <2>2. n <= Height + 1 /\ Width[n] \in Nat
    BY <2>1, ShapeIs, WidthIs
  <2>3. PICK g \in [0 .. n -> Nat] : Numbers(g, n)
    BY <1>2, <2>2
  <2>4. PICK h : h = [d \in 0 .. n + 1 |-> IF d = n + 1 THEN g[n] + Width[n] ELSE g[d]]
    OBVIOUS
  <2>5. g[n] + Width[n] \in Nat
    <3>1. g[n] \in Nat
      OBVIOUS
    <3> QED BY <2>2, <3>1
  <2>6. h \in [0 .. n + 1 -> Nat]
    BY <2>4, <2>5
  <2>7. ASSUME NEW d \in 0 .. n + 1
        PROVE  h[d] = IF d = 0 THEN 0 ELSE h[d - 1] + Width[d - 1]
    <3>1. CASE d = n + 1
      <4>1. d # 0 /\ d - 1 = n /\ n \in 0 .. n + 1 /\ n # n + 1
        BY <3>1
      <4> QED BY <2>4, <3>1, <4>1
    <3>2. CASE d # n + 1
      <4>1. d \in 0 .. n /\ (d # 0 => d - 1 \in 0 .. n + 1 /\ d - 1 # n + 1)
        BY <3>2
      <4>2. g[d] = IF d = 0 THEN 0 ELSE g[d - 1] + Width[d - 1]
        BY <2>3, <4>1 DEF Numbers
      <4> QED BY <2>4, <3>2, <4>1, <4>2
    <3> QED BY <3>1, <3>2
  <2>8. Numbers(h, n + 1)
    BY <2>6, <2>7 DEF Numbers
  <2> QED BY <2>6, <2>8
<1>3. Height + 1 \in S
  <2> HIDE DEF S
  <2> QED BY <1>1, <1>2, Climb, ShapeIs
<1>4. PICK g \in [0 .. Height + 1 -> Nat] : Numbers(g, Height + 1)
  BY <1>3, ShapeIs
<1>5. First = g /\ g = [d \in 0 .. Height + 1 |-> IF d = 0 THEN 0 ELSE g[d - 1] + Width[d - 1]]
  <2>1. g = [d \in 0 .. Height + 1 |-> IF d = 0 THEN 0 ELSE g[d - 1] + Width[d - 1]]
    BY <1>4 DEF Numbers
  <2> DEFINE Rec(f) == [d \in 0 .. Height + 1 |-> IF d = 0 THEN 0 ELSE f[d - 1] + Width[d - 1]]
  <2>2. First = Rec(First)
    BY <2>1 DEF First, Height
  <2>3. ASSUME NEW n \in Nat, n <= Height + 1, NEW f, f = Rec(f)
        PROVE  f[n] = IF n = 0 THEN 0 ELSE f[n - 1] + Width[n - 1]
    <3>1. n \in 0 .. Height + 1
      BY <2>3, ShapeIs
    <3>2. Rec(f)[n] = IF n = 0 THEN 0 ELSE f[n - 1] + Width[n - 1]
      BY <3>1
    <3> QED BY <2>3, <3>2
  <2> DEFINE U == {n \in Nat : n <= Height + 1 => First[n] = g[n]}
  <2>4. 0 \in U
    BY <2>1, <2>2, <2>3, ShapeIs
  <2>5. ASSUME NEW n \in Nat, n \in U PROVE n + 1 \in U
    <3>1. SUFFICES ASSUME n + 1 <= Height + 1 PROVE First[n + 1] = g[n + 1]
      OBVIOUS
    <3>2. n + 1 # 0 /\ (n + 1) - 1 = n /\ n <= Height + 1
      BY <3>1, ShapeIs
    <3>3. First[n + 1] = First[n] + Width[n] /\ g[n + 1] = g[n] + Width[n]
      BY <2>1, <2>2, <2>3, <3>1, <3>2
    <3> QED BY <2>5, <3>2, <3>3
  <2>6. Nat \subseteq U
    <3> HIDE DEF U
    <3> QED BY <2>4, <2>5, Climb
  <2>7. \A n \in 0 .. Height + 1 : First[n] = g[n]
    BY <2>6, ShapeIs
  <2>8. First = [n \in 0 .. Height + 1 |-> First[n]]
    BY <2>2
  <2>9. First = g
    BY <2>7, <2>8
  <2> QED BY <2>1, <2>9
<1>6. First[0] = 0
  <2>1. 0 \in 0 .. Height + 1
    BY ShapeIs
  <2> QED BY <1>5, <2>1
<1>7. \A d \in Levels : First[d + 1] = First[d] + Width[d]
  <2> SUFFICES ASSUME NEW d \in Levels PROVE First[d + 1] = First[d] + Width[d]
    OBVIOUS
  <2>1. d + 1 \in 0 .. Height + 1 /\ d + 1 # 0 /\ (d + 1) - 1 = d
    BY ShapeIs
  <2> QED BY <1>5, <2>1
<1> QED BY <1>4, <1>5, <1>6, <1>7

\* Levels do not overlap.
LEMMA FirstGrows ==
  \A d \in Levels : \A e \in 0 .. d : First[e] + (IF e < d THEN Width[e] ELSE 0) <= First[d]
<1> DEFINE U == {n \in Nat : n <= Height =>
                   \A e \in 0 .. n : First[e] + (IF e < n THEN Width[e] ELSE 0) <= First[n]}
<1>1. 0 \in U
  BY FirstIs
<1>2. ASSUME NEW n \in Nat, n \in U PROVE n + 1 \in U
  <2>1. SUFFICES ASSUME n + 1 <= Height, NEW e \in 0 .. n + 1
                 PROVE  First[e] + (IF e < n + 1 THEN Width[e] ELSE 0) <= First[n + 1]
    OBVIOUS
  <2>2. n \in Levels /\ n <= Height /\ First[n + 1] \in Nat /\ First[n] \in Nat
    BY <2>1, ShapeIs, FirstIs
  <2>3. First[n + 1] = First[n] + Width[n] /\ Width[n] \in Nat
    BY <2>2, FirstIs, WidthIs
  <2>4. CASE e = n + 1
    BY <2>2, <2>4
  <2>5. CASE e = n
    BY <2>2, <2>3, <2>5
  <2>6. CASE e < n
    <3>1. First[e] + Width[e] <= First[n] /\ e \in Levels
      <4>1. e \in 0 .. n
        BY <2>6
      <4>2. First[e] + (IF e < n THEN Width[e] ELSE 0) <= First[n]
        BY <1>2, <2>2, <4>1
      <4> QED BY <2>1, <2>6, <4>2, ShapeIs
    <3>2. First[e] \in Nat /\ Width[e] \in Nat
      BY <3>1, FirstIs, WidthIs, ShapeIs
    <3> QED BY <2>2, <2>3, <2>6, <3>1, <3>2
  <2> QED BY <2>4, <2>5, <2>6
<1>3. Nat \subseteq U
  <2> HIDE DEF U
  <2> QED BY <1>1, <1>2, Climb
<1> QED BY <1>3, ShapeIs

\* How many leaves lie below a node of a level.
Span(d) == Leaves \div Width[d]

LEMMA SpanIs ==
  /\ Leaves \in Nat \ {0}
  /\ \A d \in Levels : Span(d) \in Nat \ {0} /\ Leaves = Width[d] * Span(d)
  /\ \A d \in 1 .. Height : Span(d - 1) = Span(d) * Branching[d]
<1>1. Leaves = Width[Height] /\ Height \in Levels /\ Leaves \in Nat \ {0}
  BY ShapeIs, WidthIs DEF Leaves, Height
<1>2. ASSUME NEW d \in Levels, NEW s \in Nat \ {0}, Leaves = Width[d] * s
      PROVE  Span(d) = s
  <2>1. Width[d] \in Nat \ {0}
    BY WidthIs
  <2>2. Width[d] * s <= Leaves /\ Leaves < Width[d] * s + Width[d]
    BY <1>1, <1>2, <2>1
  <2> QED BY <1>1, <2>1, <2>2, DivOf DEF Span
<1> DEFINE D(j) == \E s \in Nat \ {0} : Leaves = Width[Height - j] * s
           U == {j \in Nat : j <= Height => D(j)}
<1>3. 0 \in U
  <2>1. Height - 0 = Height /\ Leaves = Leaves * 1 /\ 1 \in Nat \ {0}
    BY <1>1, ShapeIs
  <2> QED BY <1>1, <2>1
<1>4. ASSUME NEW d \in 1 .. Height, NEW s \in Nat \ {0}, Leaves = Width[d] * s
      PROVE  /\ Branching[d] * s \in Nat \ {0}
             /\ Leaves = Width[d - 1] * (Branching[d] * s)
  <2>1. /\ d \in Levels /\ d - 1 \in Levels
        /\ Branching[d] \in Nat \ {0} /\ Width[d - 1] \in Nat \ {0}
    BY ShapeIs, WidthIs
  <2>2. Width[d] = Width[d - 1] * Branching[d]
    BY WidthIs
  <2>3. (Width[d - 1] * Branching[d]) * s = Width[d - 1] * (Branching[d] * s)
    BY <2>1
  <2> QED BY <1>4, <2>1, <2>2, <2>3
<1>5. ASSUME NEW j \in Nat, j \in U PROVE j + 1 \in U
  <2>1. SUFFICES ASSUME j + 1 <= Height PROVE D(j + 1)
    OBVIOUS
  <2>2. PICK d : d = Height - j
    OBVIOUS
  <2>3. d \in 1 .. Height /\ j <= Height /\ d - 1 = Height - (j + 1)
    BY <2>1, <2>2, ShapeIs
  <2>4. PICK s \in Nat \ {0} : Leaves = Width[d] * s
    BY <1>5, <2>2, <2>3
  <2>5. Branching[d] * s \in Nat \ {0} /\ Leaves = Width[d - 1] * (Branching[d] * s)
    BY <1>4, <2>3, <2>4
  <2> QED BY <2>3, <2>5
<1>6. Nat \subseteq U
  <2> HIDE DEF U
  <2> QED BY <1>3, <1>5, Climb
<1>7. ASSUME NEW d \in Levels PROVE Span(d) \in Nat \ {0} /\ Leaves = Width[d] * Span(d)
  <2>1. PICK j : j = Height - d
    OBVIOUS
  <2>2. j \in Nat /\ j <= Height /\ Height - j = d
    BY <2>1, ShapeIs
  <2>3. PICK s \in Nat \ {0} : Leaves = Width[d] * s
    BY <1>6, <2>2
  <2>4. Span(d) = s
    BY <1>2, <2>3
  <2> QED BY <2>3, <2>4
<1>8. ASSUME NEW d \in 1 .. Height PROVE Span(d - 1) = Span(d) * Branching[d]
  <2>1. d \in Levels /\ d - 1 \in Levels /\ Branching[d] \in Nat \ {0}
    BY ShapeIs
  <2>2. Span(d) \in Nat \ {0} /\ Leaves = Width[d] * Span(d)
    BY <1>7, <2>1
  <2>3. /\ Branching[d] * Span(d) \in Nat \ {0}
        /\ Leaves = Width[d - 1] * (Branching[d] * Span(d))
    BY <1>4, <2>2
  <2>4. Span(d - 1) = Branching[d] * Span(d)
    BY <1>2, <2>1, <2>3
  <2> QED BY <2>1, <2>2, <2>4
<1> QED BY <1>1, <1>7, <1>8

\* The node numbered i on level d.
LEMMA NodeAt ==
  ASSUME NEW d \in Levels, NEW i \in Nat, i < Width[d]
  PROVE  /\ First[d] + i \in Nodes /\ Depth[First[d] + i] = d
         /\ (First[d] + i = 0) = (d = 0)
<1>1. PICK n : n = First[d] + i
  OBVIOUS
<1>2. /\ First[d] \in Nat /\ Width[d] \in Nat \ {0} /\ Height \in Nat \ {0}
      /\ d \in 0 .. Height /\ First[d + 1] = First[d] + Width[d]
  BY FirstIs, WidthIs, ShapeIs
<1>3. n \in Nat /\ First[d] <= n /\ n < First[d] + Width[d]
  BY <1>1, <1>2
<1>4. n \in Nodes
  <2>1. First[Height + 1] \in Nat
    BY FirstIs, ShapeIs
  <2>2. First[d + 1] <= First[Height + 1]
    <3>1. CASE d = Height
      BY <2>1, <3>1
    <3>2. CASE d # Height
      <4>1. d + 1 \in 0 .. Height /\ Height \in Levels /\ First[d + 1] \in Nat
        BY <1>2, <3>2, ShapeIs, FirstIs
      <4>2. First[d + 1] + (IF d + 1 < Height THEN Width[d + 1] ELSE 0) <= First[Height]
        BY <4>1, FirstGrows
      <4>3. /\ Width[d + 1] \in Nat /\ Width[Height] \in Nat /\ First[Height] \in Nat
            /\ First[Height + 1] = First[Height] + Width[Height]
        <5>1. d + 1 \in Levels /\ Height \in Levels /\ Height \in 0 .. Height + 1
          BY <1>2, <4>1, ShapeIs
        <5>2. Width[d + 1] \in Nat /\ Width[Height] \in Nat
          BY <5>1, WidthIs
        <5>3. First[Height] \in Nat /\ First[Height + 1] = First[Height] + Width[Height]
          BY <5>1, FirstIs
        <5> QED BY <5>2, <5>3
      <4> QED BY <4>1, <4>2, <4>3
    <3> QED BY <3>1, <3>2
  <2>3. n \in 0 .. First[Height + 1] - 1
    BY <1>2, <1>3, <2>1, <2>2
  <2> QED BY <2>3 DEF Nodes, Height
<1>5. ASSUME NEW e \in Levels, First[e] <= n, n < First[e] + Width[e] PROVE e = d
  <2>1. e \in 0 .. Height /\ First[e] \in Nat /\ Width[e] \in Nat
    BY FirstIs, WidthIs, ShapeIs
  <2>2. CASE e < d
    <3>1. e \in 0 .. d
      BY <1>2, <2>1, <2>2
    <3>2. First[e] + Width[e] <= First[d]
      BY <2>2, <3>1, FirstGrows
    <3> QED BY <1>2, <1>3, <1>5, <2>1, <3>2
  <2>3. CASE d < e
    <3>1. d \in 0 .. e
      BY <1>2, <2>1, <2>3
    <3>2. First[d] + Width[d] <= First[e]
      BY <2>3, <3>1, FirstGrows
    <3> QED BY <1>2, <1>3, <1>5, <2>1, <3>2
  <2> QED BY <1>2, <2>1, <2>2, <2>3
<1>6. Depth[n] = CHOOSE e \in Levels : First[e] <= n /\ n < First[e] + Width[e]
  BY <1>4 DEF Depth
<1>7. Depth[n] = d
  BY <1>3, <1>5, <1>6
<1>8. (n = 0) = (d = 0)
  <2>1. CASE d = 0
    <3>1. n = 0
      BY <1>1, <2>1, FirstIs, WidthIs
    <3> QED BY <2>1, <3>1
  <2>2. CASE d # 0
    <3>1. 0 \in 0 .. d /\ 0 < d
      BY <1>2, <2>2
    <3>2. First[0] + Width[0] <= First[d]
      BY <3>1, FirstGrows
    <3>3. n # 0
      BY <1>2, <1>3, <3>2, FirstIs, WidthIs
    <3> QED BY <2>2, <3>3
  <2> QED BY <2>1, <2>2
<1> QED BY <1>1, <1>4, <1>7, <1>8

\* Every node is on some level.
LEMMA NodeIs ==
  ASSUME NEW n \in Nodes
  PROVE  /\ Depth[n] \in Levels
         /\ \E i \in Nat : i < Width[Depth[n]] /\ n = First[Depth[n]] + i
<1>1. n \in Nat /\ n < First[Height + 1] /\ First[Height + 1] \in Nat
  <2>1. First[Height + 1] \in Nat
    BY FirstIs, ShapeIs
  <2> QED BY <2>1 DEF Nodes, Height
<1> DEFINE T == {e \in 0 .. Height + 1 : n < First[e]}
<1>2. T \subseteq Nat /\ T # {}
  BY <1>1, ShapeIs
<1>3. PICK m \in T : \A e \in T : m <= e
  <2> HIDE DEF T
  <2> QED BY <1>2, Least
<1>4. m \in 1 .. Height + 1
  <2>1. m # 0
    BY <1>1, FirstIs
  <2> QED BY <2>1, ShapeIs
<1>5. PICK d : d = m - 1
  OBVIOUS
<1>6. d \in Levels /\ d + 1 = m /\ First[m] = First[d] + Width[d] /\ First[d] \in Nat
      /\ Width[d] \in Nat
  BY <1>4, <1>5, ShapeIs, FirstIs, WidthIs
<1>7. First[d] <= n
  <2>1. ~(m <= d) /\ d \in 0 .. Height + 1
    BY <1>4, <1>5, ShapeIs
  <2>2. ~(n < First[d])
    BY <1>3, <2>1
  <2> QED BY <1>1, <1>6, <2>2
<1>8. PICK i : i = n - First[d]
  OBVIOUS
<1>9. i \in Nat /\ i < Width[d] /\ n = First[d] + i
  <2>1. n < First[m]
    BY <1>3
  <2> QED BY <1>1, <1>6, <1>7, <1>8, <2>1
<1>10. Depth[n] = d
  BY <1>6, <1>9, NodeAt
<1> QED BY <1>6, <1>9, <1>10

\* A path visits a node of each level, each the child of the one before it.
LEMMA PathIs ==
  ASSUME NEW p \in DOMAIN Path
  PROVE  /\ \A d \in Levels : /\ Path[p][d] \in Nodes /\ Depth[Path[p][d]] = d
                              /\ (Path[p][d] = 0) = (d = 0)
         /\ \A d \in 1 .. Height : Parent[Path[p][d]] = Path[p][d - 1]
<1>1. p \in 0 .. Leaves - 1 /\ p \in Nat /\ p < Leaves /\ Leaves \in Nat \ {0}
  BY SpanIs DEF Path
<1>2. ASSUME NEW d \in Levels
      PROVE  /\ Path[p][d] = First[d] + p \div Span(d)
             /\ p \div Span(d) \in Nat /\ p \div Span(d) < Width[d]
  <2>1. Path[p][d] = First[d] + p \div Span(d)
    BY <1>1 DEF Path, Span
  <2>2. Span(d) \in Nat \ {0} /\ Leaves = Width[d] * Span(d) /\ Width[d] \in Nat \ {0}
    BY SpanIs, WidthIs
  <2>3. PICK i : i = p \div Span(d)
    OBVIOUS
  <2>4. i \in Nat /\ Span(d) * i <= p
    BY <1>1, <2>2, <2>3, DivIs
  <2>5. i < Width[d]
    <3>1. SUFFICES ASSUME i >= Width[d] PROVE FALSE
      BY <2>2, <2>4
    <3>2. Span(d) * i >= Span(d) * Width[d]
      BY <2>2, <2>4, <3>1
    <3>3. Span(d) * Width[d] = Width[d] * Span(d)
      BY <2>2
    <3>4. Span(d) * i \in Nat
      BY <2>2, <2>4
    <3> QED BY <1>1, <2>2, <2>4, <3>2, <3>3, <3>4
  <2> QED BY <2>1, <2>3, <2>4, <2>5
<1>3. ASSUME NEW d \in Levels
      PROVE  /\ Path[p][d] \in Nodes /\ Depth[Path[p][d]] = d
             /\ (Path[p][d] = 0) = (d = 0)
  BY <1>2, NodeAt
<1>4. ASSUME NEW d \in 1 .. Height PROVE Parent[Path[p][d]] = Path[p][d - 1]
  <2>1. d \in Levels /\ d - 1 \in Levels /\ d # 0 /\ Branching[d] \in Nat \ {0}
    BY ShapeIs
  <2>2. PICK n : n = Path[p][d]
    OBVIOUS
  <2>3. n \in Nodes \ {0} /\ Depth[n] = d
    BY <1>3, <2>1, <2>2
  <2>4. Parent[n] = First[d - 1] + (n - First[d]) \div Branching[d]
    BY <2>3 DEF Parent
  <2>5. n - First[d] = p \div Span(d)
    <3>1. First[d] \in Nat /\ n = First[d] + p \div Span(d) /\ p \div Span(d) \in Nat
      BY <1>2, <2>1, <2>2, FirstIs, ShapeIs
    <3> QED BY <3>1
  <2>6. (p \div Span(d)) \div Branching[d] = p \div Span(d - 1)
    <3>1. Span(d) \in Nat \ {0} /\ Span(d - 1) = Span(d) * Branching[d]
      BY <2>1, SpanIs
    <3> QED BY <1>1, <2>1, <3>1, DivTwice
  <2>7. Path[p][d - 1] = First[d - 1] + p \div Span(d - 1)
    BY <1>2, <2>1
  <2> QED BY <2>2, <2>4, <2>5, <2>6, <2>7
<1> QED BY <1>3, <1>4

\* Two paths that meet on a level are the same up to it.
LEMMA PathsMeet ==
  ASSUME NEW p \in DOMAIN Path, NEW o \in DOMAIN Path, NEW d \in Levels,
         Path[p][d] = Path[o][d]
  PROVE  \A e \in 0 .. d : Path[p][e] = Path[o][e]
<1>1. d \in 0 .. Height /\ Height \in Nat
  BY ShapeIs
<1> DEFINE U == {j \in Nat : j <= d => Path[p][d - j] = Path[o][d - j]}
<1>2. 0 \in U
  BY <1>1
<1>3. ASSUME NEW j \in Nat, j \in U PROVE j + 1 \in U
  <2>1. SUFFICES ASSUME j + 1 <= d PROVE Path[p][d - (j + 1)] = Path[o][d - (j + 1)]
    OBVIOUS
  <2>2. PICK e : e = d - j
    OBVIOUS
  <2>3. e \in 1 .. Height /\ j <= d /\ e - 1 = d - (j + 1)
    BY <1>1, <2>1, <2>2
  <2>4. Path[p][e] = Path[o][e]
    BY <1>3, <2>2, <2>3
  <2>5. Parent[Path[p][e]] = Path[p][e - 1] /\ Parent[Path[o][e]] = Path[o][e - 1]
    BY <2>3, PathIs
  <2> QED BY <2>3, <2>4, <2>5
<1>4. Nat \subseteq U
  <2> HIDE DEF U
  <2> QED BY <1>2, <1>3, Climb
<1>5. ASSUME NEW e \in 0 .. d PROVE Path[p][e] = Path[o][e]
  <2>1. d - e \in Nat /\ d - e <= d /\ d - (d - e) = e
    BY <1>1
  <2> QED BY <1>4, <2>1
<1> QED BY <1>5

\* The path that locates a node.
To(n) == Path[Locator[n]]

LEMMA ToIs ==
  ASSUME NEW n \in Nodes
  PROVE  Locator[n] \in DOMAIN Path /\ To(n)[Depth[n]] = n
<1>1. PICK d : d = Depth[n]
  OBVIOUS
<1>2. d \in Levels /\ \E i \in Nat : i < Width[d] /\ n = First[d] + i
  BY <1>1, NodeIs
<1>3. PICK i \in Nat : i < Width[d] /\ n = First[d] + i
  BY <1>2
<1>4. Span(d) \in Nat \ {0} /\ Leaves = Width[d] * Span(d) /\ Width[d] \in Nat \ {0}
      /\ Leaves \in Nat \ {0}
  BY <1>2, SpanIs, WidthIs
<1>5. PICK p : p = i * Span(d)
  OBVIOUS
<1>6. p \in Nat /\ p < Leaves /\ p \div Span(d) = i
  <2>1. p \in Nat /\ Span(d) * i <= p /\ p < Span(d) * i + Span(d)
    BY <1>4, <1>5
  <2>2. p \div Span(d) = i
    BY <1>4, <2>1, DivOf
  <2>3. i + 1 <= Width[d]
    BY <1>3, <1>4
  <2>4. (i + 1) * Span(d) <= Width[d] * Span(d)
    BY <1>4, <2>3
  <2>5. (i + 1) * Span(d) = p + Span(d)
    BY <1>4, <1>5
  <2> QED BY <1>4, <2>1, <2>2, <2>4, <2>5
<1>7. p \in DOMAIN Path /\ Path[p][d] = n
  <2>1. p \in 0 .. Leaves - 1
    BY <1>4, <1>6
  <2>2. Path[p][d] = First[d] + p \div Span(d)
    BY <1>2, <2>1 DEF Path, Span
  <2> QED BY <1>3, <1>6, <2>1, <2>2 DEF Path
<1> DEFINE T == {o \in DOMAIN Path : Path[o][d] = n}
<1>8. T \subseteq Nat /\ T # {} /\ DOMAIN Path = 0 .. Leaves - 1
  <2>1. DOMAIN Path = 0 .. Leaves - 1
    BY DEF Path
  <2> QED BY <1>4, <1>7, <2>1
<1>9. PICK m \in T : \A o \in T : m <= o
  <2> HIDE DEF T
  <2> QED BY <1>8, Least
<1>10. /\ m \in DOMAIN Path /\ Path[m][d] = n
       /\ \A o \in 0 .. m - 1 : Path[o][d] # n
  <2>1. m \in DOMAIN Path /\ m \in 0 .. Leaves - 1 /\ Path[m][d] = n
    BY <1>8
  <2>2. ASSUME NEW o \in 0 .. m - 1 PROVE Path[o][d] # n
    <3>1. o \in DOMAIN Path /\ ~(m <= o)
      BY <1>4, <1>8, <2>1
    <3> QED BY <1>9, <3>1
  <2> QED BY <2>1, <2>2
<1>11. Locator[n] = CHOOSE o \in DOMAIN Path :
         /\ Path[o][Depth[n]] = n
         /\ \A r \in 0 .. o - 1 : Path[r][Depth[n]] # n
  BY DEF Locator
<1>12. Locator[n] \in DOMAIN Path /\ Path[Locator[n]][Depth[n]] = n
  BY <1>1, <1>10, <1>11
<1> QED BY <1>12 DEF To

\* The nodes on the way to a node are located by a path that begins like its own.
LEMMA Ancestor ==
  ASSUME NEW n \in Nodes, NEW d \in 0 .. Depth[n]
  PROVE  /\ To(n)[d] \in Nodes /\ Depth[To(n)[d]] = d
         /\ (To(n)[d] = 0) = (d = 0)
         /\ \A e \in 0 .. d : To(To(n)[d])[e] = To(n)[e]
<1>1. Depth[n] \in Levels /\ d \in Levels
  BY NodeIs, ShapeIs
<1>2. Locator[n] \in DOMAIN Path
  BY ToIs
<1>3. PICK m : m = To(n)[d]
  OBVIOUS
<1>4. m \in Nodes /\ Depth[m] = d /\ (m = 0) = (d = 0)
  BY <1>1, <1>2, <1>3, PathIs DEF To
<1>5. Locator[m] \in DOMAIN Path /\ To(m)[d] = m
  BY <1>4, ToIs
<1>6. Path[Locator[m]][d] = Path[Locator[n]][d]
  BY <1>3, <1>5 DEF To
<1>7. \A e \in 0 .. d : Path[Locator[m]][e] = Path[Locator[n]][e]
  BY <1>1, <1>2, <1>5, <1>6, PathsMeet
<1> QED BY <1>3, <1>4, <1>7 DEF To

\* A child is one level below its parent, on a path through it.
LEMMA ChildIs ==
  ASSUME NEW n \in Nodes, NEW c \in Children[n]
  PROVE  /\ c \in Nodes /\ Depth[c] = Depth[n] + 1 /\ Parent[c] = n
         /\ To(c)[Depth[c]] = c
         /\ \A e \in 0 .. Depth[n] : To(c)[e] = To(n)[e]
<1>1. c \in Nodes \ {0} /\ Parent[c] = n
  BY DEF Children
<1>2. PICK d : d = Depth[c]
  OBVIOUS
<1>3. d \in Levels /\ Locator[c] \in DOMAIN Path /\ To(c)[d] = c
  BY <1>1, <1>2, NodeIs, ToIs
<1>4. d # 0
  BY <1>1, <1>3, PathIs DEF To
<1>5. d \in 1 .. Height /\ d - 1 \in Levels
  BY <1>3, <1>4, ShapeIs
<1>6. To(c)[d - 1] = n
  <2>1. Parent[Path[Locator[c]][d]] = Path[Locator[c]][d - 1]
    BY <1>3, <1>5, PathIs
  <2> QED BY <1>1, <1>3, <2>1 DEF To
<1>7. Depth[n] = d - 1
  BY <1>3, <1>5, <1>6, PathIs DEF To
<1>8. Locator[n] \in DOMAIN Path /\ To(n)[d - 1] = n
  BY <1>7, ToIs
<1>9. \A e \in 0 .. d - 1 : To(c)[e] = To(n)[e]
  <2>1. Path[Locator[c]][d - 1] = Path[Locator[n]][d - 1]
    BY <1>6, <1>8 DEF To
  <2> QED BY <1>3, <1>5, <1>8, <2>1, PathsMeet DEF To
<1>10. Depth[c] = Depth[n] + 1
  BY <1>2, <1>5, <1>7
<1> QED BY <1>1, <1>2, <1>3, <1>7, <1>9, <1>10

\* Every node on the way to n is what the target answers at its parent.
Walked(tok, targ, n) == \A d \in 1 .. Depth[n] : tok[To(n)[d]] = targ[Parent[To(n)[d]]]

LEMMA FinalIs ==
  ASSUME NEW tok, NEW targ
  PROVE  FinalNode(tok, targ) \in Nodes /\ Walked(tok, targ, FinalNode(tok, targ))
<1> DEFINE T == {Depth[n] : n \in {i \in Nodes : Walked(tok, targ, i)}}
<1>1. 0 \in T
  <2>1. 0 \in Levels /\ 0 \in Nat /\ 0 < Width[0] /\ First[0] + 0 = 0
    BY ShapeIs, WidthIs, FirstIs
  <2>2. 0 \in Nodes /\ Depth[0] = 0
    BY <2>1, NodeAt
  <2>3. Walked(tok, targ, 0)
    BY <2>2 DEF Walked
  <2> QED BY <2>2, <2>3
<1>2. T \subseteq Nat /\ T # {} /\ \A d \in T : d <= Height
  BY <1>1, NodeIs, ShapeIs
<1>3. PICK b \in T : \A d \in T : d <= b
  <2> HIDE DEF T
  <2> QED BY <1>2, Greatest, ShapeIs
<1>4. PICK n \in Nodes : Walked(tok, targ, n) /\ Depth[n] = b
  BY <1>3
<1>5. ASSUME NEW c \in Children[n] PROVE tok[c] # targ[Parent[c]]
  <2>1. SUFFICES ASSUME tok[c] = targ[Parent[c]] PROVE FALSE
    OBVIOUS
  <2>2. /\ c \in Nodes /\ Depth[c] = Depth[n] + 1 /\ To(c)[Depth[c]] = c
        /\ \A e \in 0 .. Depth[n] : To(c)[e] = To(n)[e]
    BY ChildIs
  <2>3. Depth[n] \in Nat
    BY NodeIs, ShapeIs
  <2>4. ASSUME NEW d \in 1 .. Depth[c] PROVE tok[To(c)[d]] = targ[Parent[To(c)[d]]]
    <3>1. CASE d = Depth[c]
      BY <2>1, <2>2, <3>1
    <3>2. CASE d # Depth[c]
      <4>1. d \in 1 .. Depth[n] /\ d \in 0 .. Depth[n]
        BY <2>2, <2>3, <3>2
      <4> QED BY <1>4, <2>2, <4>1 DEF Walked
    <3> QED BY <3>1, <3>2
  <2>5. Depth[c] \in T
    BY <2>2, <2>4 DEF Walked
  <2> QED BY <1>3, <1>4, <2>2, <2>3, <2>5
<1>6. \E i \in Nodes :
        /\ \A d \in 1 .. Depth[i] : tok[Path[Locator[i]][d]] = targ[Parent[Path[Locator[i]][d]]]
        /\ \A c \in Children[i] : ~(tok[c] = targ[Parent[c]])
  BY <1>4, <1>5 DEF Walked, To
<1>7. /\ FinalNode(tok, targ) \in Nodes
      /\ \A d \in 1 .. Depth[FinalNode(tok, targ)] :
           tok[Path[Locator[FinalNode(tok, targ)]][d]]
             = targ[Parent[Path[Locator[FinalNode(tok, targ)]][d]]]
  BY <1>6 DEF FinalNode
<1> QED BY <1>7 DEF Walked, To

\* The tokens on the way to a node.
LEMMA OnPathIs ==
  ASSUME NEW tok \in Fillings, Last(out) \in Token, NEW n \in Nodes
  PROVE  /\ OnPath(tok, n) \in Seq(Token) /\ Len(OnPath(tok, n)) = Depth[n] + 1
         /\ OnPath(tok, n)[1] = Last(out)
         /\ \A d \in 1 .. Depth[n] : OnPath(tok, n)[d + 1] = tok[To(n)[d]]
         /\ \A d \in 0 .. Depth[n] :
              OnPath(tok, To(n)[d]) = SubSeq(OnPath(tok, n), 1, d + 1)
<1>1. ASSUME NEW i \in Nodes
      PROVE  /\ OnPath(tok, i) \in Seq(Token) /\ Len(OnPath(tok, i)) = Depth[i] + 1
             /\ OnPath(tok, i)[1] = Last(out)
             /\ \A d \in 1 .. Depth[i] : OnPath(tok, i)[d + 1] = tok[To(i)[d]]
  <2>1. PICK f : f = OnPath(tok, i)
    OBVIOUS
  <2>2. Depth[i] \in Nat
    BY NodeIs, ShapeIs
  <2>3. f = [j \in 1 .. Depth[i] + 1 |-> IF j = 1 THEN Last(out) ELSE tok[To(i)[j - 1]]]
    BY <2>1 DEF OnPath, To
  <2>4. ASSUME NEW j \in 1 .. Depth[i] + 1, j # 1 PROVE tok[To(i)[j - 1]] \in Token
    <3>1. j - 1 \in 0 .. Depth[i] /\ j - 1 # 0
      BY <2>2, <2>4
    <3>2. To(i)[j - 1] \in Nodes \ {0}
      BY <3>1, Ancestor
    <3> QED BY <3>2 DEF Fillings
  <2>5. f \in Seq(Token) /\ Len(f) = Depth[i] + 1
    <3>1. f \in [1 .. Depth[i] + 1 -> Token]
      BY <2>3, <2>4
    <3> QED BY <2>2, <3>1
  <2>6. f[1] = Last(out)
    BY <2>2, <2>3
  <2>7. ASSUME NEW d \in 1 .. Depth[i] PROVE f[d + 1] = tok[To(i)[d]]
    <3>1. d + 1 \in 1 .. Depth[i] + 1 /\ d + 1 # 1 /\ (d + 1) - 1 = d
      BY <2>2
    <3> QED BY <2>3, <3>1
  <2> QED BY <2>1, <2>5, <2>6, <2>7
<1>2. ASSUME NEW d \in 0 .. Depth[n]
      PROVE  OnPath(tok, To(n)[d]) = SubSeq(OnPath(tok, n), 1, d + 1)
  <2>1. PICK m : m = To(n)[d]
    OBVIOUS
  <2>2. m \in Nodes /\ Depth[m] = d /\ \A e \in 0 .. d : To(m)[e] = To(n)[e]
    BY <2>1, Ancestor
  <2>3. PICK f : f = OnPath(tok, n)
    OBVIOUS
  <2>4. PICK g : g = OnPath(tok, m)
    OBVIOUS
  <2>5. /\ f \in Seq(Token) /\ Len(f) = Depth[n] + 1 /\ f[1] = Last(out)
        /\ \A e \in 1 .. Depth[n] : f[e + 1] = tok[To(n)[e]]
    BY <1>1, <2>3
  <2>6. /\ g \in Seq(Token) /\ Len(g) = d + 1 /\ g[1] = Last(out)
        /\ \A e \in 1 .. d : g[e + 1] = tok[To(m)[e]]
    BY <1>1, <2>2, <2>4
  <2>7. PICK h : h = SubSeq(f, 1, d + 1)
    OBVIOUS
  <2>8. Depth[n] \in Nat /\ d \in Nat /\ d + 1 \in 0 .. Len(f)
    <3>1. Depth[n] \in Nat
      BY NodeIs, ShapeIs
    <3> QED BY <2>5, <3>1
  <2>9. h \in Seq(Token) /\ Len(h) = d + 1 /\ \A i \in 1 .. d + 1 : h[i] = f[i]
    BY <2>5, <2>7, <2>8, Cut
  <2>10. ASSUME NEW i \in 1 .. d + 1 PROVE g[i] = h[i]
    <3>1. CASE i = 1
      BY <2>5, <2>6, <2>9, <3>1
    <3>2. CASE i # 1
      <4>1. PICK e : e = i - 1
        OBVIOUS
      <4>2. e \in 1 .. d /\ e \in 1 .. Depth[n] /\ e \in 0 .. d /\ e + 1 = i
        BY <2>8, <3>2, <4>1
      <4>3. g[e + 1] = tok[To(m)[e]] /\ f[e + 1] = tok[To(n)[e]] /\ To(m)[e] = To(n)[e]
        BY <2>2, <2>5, <2>6, <4>2
      <4> QED BY <2>9, <4>2, <4>3
    <3> QED BY <3>1, <3>2
  <2>11. \A i \in 1 .. Len(g) : g[i] = h[i]
    BY <2>6, <2>10
  <2>12. g = h
    BY <2>6, <2>9, <2>11, SeqEqual
  <2> QED BY <2>1, <2>3, <2>4, <2>7, <2>12
<1> QED BY <1>1, <1>2

\* The rows are those of the sequence but for its last token.
Aligned == Len(Rows) = Len(prompt \o out) - 1

\* A tree's round is that of the draft on its accepted path, all of it accepted.
LEMMA TreeAsDraft ==
  ASSUME TreeRound, Last(out) \in Token, Aligned
  PROVE  \E q \in Seq(Token) : \E targ \in Targets(Pass(q)) :
           /\ Accepted(q, targ) = Len(q)
           /\ kv' = Fed(SubSeq(Pass(q), 1, Len(q) + 1))
           /\ pend' = Yields(q, Len(q), targ)
<1>0. PICK tok \in Fillings : \E tt \in TreeTargets(tok) :
        /\ kv' = Fed(OnPath(tok, FinalNode(tok, tt)))
        /\ pend' = Tail(OnPath(tok, FinalNode(tok, tt))) \o <<tt[FinalNode(tok, tt)]>>
  BY DEF TreeRound
<1>1. PICK tt \in TreeTargets(tok) :
        /\ kv' = Fed(OnPath(tok, FinalNode(tok, tt)))
        /\ pend' = Tail(OnPath(tok, FinalNode(tok, tt))) \o <<tt[FinalNode(tok, tt)]>>
  BY <1>0
<1>2. PICK n : n = FinalNode(tok, tt)
  OBVIOUS
<1>3. n \in Nodes /\ Walked(tok, tt, n) /\ Depth[n] \in Nat
  BY <1>2, FinalIs, NodeIs, ShapeIs
<1>4. PICK x : x = OnPath(tok, n)
  OBVIOUS
<1>5. /\ x \in Seq(Token) /\ Len(x) = Depth[n] + 1 /\ x[1] = Last(out)
      /\ \A d \in 1 .. Depth[n] : x[d + 1] = tok[To(n)[d]]
      /\ \A d \in 0 .. Depth[n] : OnPath(tok, To(n)[d]) = SubSeq(x, 1, d + 1)
  BY <1>3, <1>4, OnPathIs
<1>6. PICK q : q = Tail(x)
  OBVIOUS
<1>7. /\ q \in Seq(Token) /\ Len(q) = Depth[n]
      /\ \A d \in 1 .. Depth[n] : q[d] = tok[To(n)[d]]
  <2>1. x # <<>>
    BY <1>3, <1>5
  <2>2. /\ Tail(x) \in Seq(Token) /\ Len(Tail(x)) = Len(x) - 1
        /\ \A i \in 1 .. Len(Tail(x)) : Tail(x)[i] = x[i + 1]
    <3>1. x \in Seq(Token)
      BY <1>5
    <3> QED BY <2>1, <3>1, HeadTailProperties
  <2>3. /\ q \in Seq(Token) /\ Len(q) = Len(x) - 1
        /\ \A i \in 1 .. Len(q) : q[i] = x[i + 1]
    BY <1>6, <2>2
  <2>4. Len(q) = Depth[n]
    BY <1>3, <1>5, <2>3
  <2>5. \A d \in 1 .. Depth[n] : x[d + 1] = tok[To(n)[d]]
    BY <1>5
  <2>6. ASSUME NEW d \in 1 .. Depth[n] PROVE q[d] = tok[To(n)[d]]
    <3>1. q[d] = x[d + 1]
      BY <2>3, <2>4
    <3> QED BY <2>5, <3>1
  <2> QED BY <2>3, <2>4, <2>6
<1>8. Pass(q) = x
  <2>1. PICK u : u = <<Last(out)>>
    OBVIOUS
  <2>2. u \in Seq(Token) /\ Len(u) = 1 /\ u[1] = Last(out)
    BY <2>1
  <2>3. PICK y : y = u \o q
    OBVIOUS
  <2>4. /\ y \in Seq(Token) /\ Len(y) = 1 + Len(q)
        /\ \A i \in 1 .. 1 + Len(q) : y[i] = IF i <= 1 THEN u[i] ELSE q[i - 1]
    <3>1. u \in Seq(Token) /\ q \in Seq(Token)
      BY <1>7, <2>2
    <3>2. /\ u \o q \in Seq(Token) /\ Len(u \o q) = Len(u) + Len(q)
          /\ \A i \in 1 .. Len(u) + Len(q) :
               (u \o q)[i] = IF i <= Len(u) THEN u[i] ELSE q[i - Len(u)]
      BY <3>1, ConcatProperties
    <3> QED BY <2>2, <2>3, <3>2
  <2>5. ASSUME NEW i \in 1 .. Depth[n] + 1 PROVE y[i] = x[i]
    <3>1. CASE i = 1
      <4>1. 1 \in 1 .. 1 + Len(q)
        BY <1>3, <1>7
      <4> QED BY <1>5, <2>2, <2>4, <3>1, <4>1
    <3>2. CASE i # 1
      <4>1. PICK d : d = i - 1
        OBVIOUS
      <4>2. d \in 1 .. Depth[n] /\ d + 1 = i /\ i \in 1 .. 1 + Len(q) /\ ~(i <= 1)
        BY <1>3, <1>7, <3>2, <4>1
      <4>3. y[i] = q[d]
        BY <2>4, <4>1, <4>2
      <4>4. x[d + 1] = tok[To(n)[d]] /\ q[d] = tok[To(n)[d]]
        BY <1>5, <1>7, <4>2
      <4> QED BY <4>2, <4>3, <4>4
    <3> QED BY <3>1, <3>2
  <2>6. Len(y) = Len(x) /\ \A i \in 1 .. Len(y) : y[i] = x[i]
    BY <1>3, <1>5, <1>7, <2>4, <2>5
  <2>7. y = x
    BY <1>5, <2>4, <2>6, SeqEqual
  <2> QED BY <2>1, <2>3, <2>7 DEF Pass
<1>9. PICK v : v = [i \in 1 .. Depth[n] + 1 |-> tt[To(n)[i - 1]]]
  OBVIOUS
<1>10. v \in Targets(Pass(q))
  <2>1. CASE Holds(Rows)
    <3>1. tt = [i \in Nodes |-> Argmax(Rows \o OnPath(tok, i))]
      BY <2>1 DEF TreeTargets, Aligned
    <3>2. ASSUME NEW i \in 1 .. Depth[n] + 1
          PROVE  tt[To(n)[i - 1]] = Argmax(Rows \o SubSeq(x, 1, i))
      <4>1. PICK d : d = i - 1
        OBVIOUS
      <4>2. d \in 0 .. Depth[n] /\ d + 1 = i
        BY <1>3, <4>1
      <4>3. To(n)[d] \in Nodes
        BY <1>3, <4>2, Ancestor
      <4>4. OnPath(tok, To(n)[d]) = SubSeq(x, 1, d + 1)
        BY <1>5, <4>2
      <4> QED BY <3>1, <4>1, <4>2, <4>3, <4>4
    <3>3. v = [i \in 1 .. Len(x) |-> Argmax(Rows \o SubSeq(x, 1, i))]
      BY <1>5, <1>9, <3>2
    <3> QED BY <1>8, <2>1, <3>3 DEF Targets
  <2>2. CASE ~Holds(Rows)
    <3>1. tt \in [Nodes -> Token]
      BY <2>2 DEF TreeTargets
    <3>2. ASSUME NEW i \in 1 .. Depth[n] + 1 PROVE tt[To(n)[i - 1]] \in Token
      <4>1. i - 1 \in 0 .. Depth[n]
        BY <1>3
      <4>2. To(n)[i - 1] \in Nodes
        BY <1>3, <4>1, Ancestor
      <4> QED BY <3>1, <4>2
    <3>3. v \in [1 .. Len(x) -> Token]
      BY <1>5, <1>9, <3>2
    <3> QED BY <1>8, <2>2, <3>3 DEF Targets
  <2> QED BY <2>1, <2>2
<1>11. ASSUME NEW i \in 1 .. Len(q) PROVE Plausible(q, i, v)
  <2>1. i \in 1 .. Depth[n] /\ i \in 0 .. Depth[n] /\ i \in 1 .. Depth[n] + 1
    BY <1>3, <1>7
  <2>2. q[i] = tt[Parent[To(n)[i]]]
    BY <1>3, <1>7, <2>1 DEF Walked
  <2>3. Parent[To(n)[i]] = To(n)[i - 1]
    <3>1. Locator[n] \in DOMAIN Path /\ i \in 1 .. Height
      BY <1>3, <2>1, ToIs, NodeIs, ShapeIs
    <3> QED BY <3>1, PathIs DEF To
  <2>4. v[i] = tt[To(n)[i - 1]]
    BY <1>9, <2>1
  <2> QED BY <2>2, <2>3, <2>4 DEF Plausible
<1>12. Accepted(q, v) = Len(q)
  <2>1. Len(q) \in Nat
    BY <1>3, <1>7
  <2>2. ASSUME NEW m \in 0 .. Len(q), m = Len(q) \/ ~Plausible(q, m + 1, v)
        PROVE  m = Len(q)
    <3>1. m # Len(q) => m + 1 \in 1 .. Len(q)
      BY <2>1
    <3> QED BY <1>11, <2>2, <3>1
  <2>3. Len(q) \in 0 .. Len(q)
    BY <2>1
  <2> QED BY <1>11, <2>2, <2>3 DEF Accepted
<1>13. kv' = Fed(SubSeq(Pass(q), 1, Len(q) + 1))
  <2>1. SubSeq(x, 1, Len(x)) = x
    BY <1>5, SubSeqFull
  <2> QED BY <1>1, <1>2, <1>4, <1>5, <1>7, <1>8, <2>1
<1>14. pend' = Yields(q, Len(q), v)
  <2>1. SubSeq(q, 1, Len(q)) = q
    BY <1>7, SubSeqFull
  <2>2. v[Len(q) + 1] = tt[n]
    <3>1. Len(q) + 1 \in 1 .. Depth[n] + 1 /\ (Len(q) + 1) - 1 = Depth[n]
      BY <1>3, <1>7
    <3>2. To(n)[Depth[n]] = n
      BY <1>3, ToIs
    <3> QED BY <1>9, <3>1, <3>2
  <2> QED BY <1>1, <1>2, <1>4, <1>6, <2>1, <2>2 DEF Yields
<1> QED BY <1>7, <1>10, <1>12, <1>13, <1>14

------------------------------------------------------------------------------
(* Types.  No row of the probe layer is lost, so that the target answers with  *)
(* tokens whatever a rollback with the wrong length has done to the caches.    *)

\* The drafter's state.
Drafter(d) ==
  /\ d \in [k : Nat, calls : Nat, probing : BOOLEAN]
  /\ d.k \in {0} \cup MinDraft .. Cap
  /\ d.calls \in 0 .. ReprobeEvery - 1
  /\ d.probing => d.k = 0

Starting ==
  at = "prefill" =>
    /\ out = <<>> /\ pend = <<>> /\ rest # <<>>
    /\ Len(Rows) + Len(rest) = pads + Len(prompt)

Speaking ==
  at \in {"emit", "yielded"} =>
    /\ method # "batch"
    /\ at = "emit" => pend # <<>> /\ Len(out) < limit
    /\ at = "yielded" => out # <<>>
    /\ method = "stream" => Len(pend) = IF at = "emit" THEN 1 ELSE 0
    /\ method = "mtp" => Len(draft) = Len(Rows)
    /\ method = "tree" => Len(Rows) + 1 = Len(prompt) + Len(out) + Len(pend)

\* One row of a batch is fed a token with every step, and yields no more than that.
Riding ==
  at = "step" =>
    /\ method = "batch" /\ Len(pend) = 1
    /\ pads + Len(prompt) + Len(out) <= Len(Rows)
    /\ Len(Rows) < pads + Len(prompt) + limit

Over ==
  at = "done" /\ method # "batch" => out # <<>> /\ (Len(out) = limit \/ Last(out) = Eos)

TInv ==
  /\ TypeOK /\ Rows \in Seq(Token) /\ limit >= 1 /\ prompt # <<>>
  /\ pads \in 0 .. MaxPad /\ (method # "batch" => pads = 0)
  /\ Drafter(lookup)
  /\ Starting /\ Speaking /\ Riding /\ Over

LEMMA TInvTypes == TInv => LoopsTypeOK
BY DEF TInv, LoopsTypeOK, Drafter

\* A pass in types.
LEMMA FedRows ==
  ASSUME TypeOK, Rows \in Seq(Token), NEW x \in Seq(Token)
  PROVE  /\ Cells(Fed(x)) /\ Fed(x)[Probe] = Rows \o x
         /\ Fed(x)[Probe] \in Seq(Token) /\ Len(Fed(x)[Probe]) = Len(Rows) + Len(x)
<1>1. Cells(Fed(x))
  BY FedType
<1>2. Fed(x)[Probe] = Rows \o x
  BY ProbeIs DEF Fed, Grown, Rows
<1>3. Rows \o x \in Seq(Token) /\ Len(Rows \o x) = Len(Rows) + Len(x)
  BY ConcatProperties
<1> QED BY <1>1, <1>2, <1>3

LEMMA TrimmedType ==
  ASSUME NEW S, NEW c \in Seq(S), NEW n \in Int
  PROVE  /\ Trimmed(c, n) \in Seq(S)
         /\ n \in 0 .. Len(c) => Len(Trimmed(c, n)) = Len(c) - n
<1>1. Len(c) \in Nat
  OBVIOUS
<1>2. CASE n <= 0
  <2>1. Trimmed(c, n) = c
    BY <1>2 DEF Trimmed
  <2> QED BY <1>1, <1>2, <2>1
<1>3. CASE ~(n <= 0)
  <2>1. PICK i : i = Greater(0, Len(c) - n)
    OBVIOUS
  <2>2. i \in 0 .. Len(c) /\ (n \in 0 .. Len(c) => i = Len(c) - n)
    BY <1>1, <1>3, <2>1 DEF Greater
  <2>3. Trimmed(c, n) = SubSeq(c, 1, i)
    BY <1>3, <2>1 DEF Trimmed
  <2> QED BY <2>2, <2>3, Cut
<1> QED BY <1>2, <1>3

LEMMA RolledType ==
  ASSUME NEW c, Cells(c), c[Probe] \in Seq(Token), NEW n \in Int
  PROVE  /\ Cells(Rolled(c, n)) /\ Rolled(c, n)[Probe] \in Seq(Token)
         /\ n \in 0 .. Len(c[Probe]) => Len(Rolled(c, n)[Probe]) = Len(c[Probe]) - n
<1>1. \A l \in Layer : Trimmed(c[l], n) \in Seq(Row)
  BY TrimmedType DEF Cells
<1>2. Cells(Rolled(c, n))
  BY <1>1 DEF Rolled, Cells
<1>3. Rolled(c, n)[Probe] = Trimmed(c[Probe], n)
  BY ProbeIs DEF Rolled
<1> QED BY <1>2, <1>3, TrimmedType

LEMMA TargetTokens ==
  ASSUME Oracle, Rows \in Seq(Token), NEW x \in Seq(Token), NEW targ, targ \in Targets(x)
  PROVE  targ \in Seq(Token) /\ Len(targ) = Len(x) /\ \A i \in 1 .. Len(x) : targ[i] \in Token
<1>1. Len(x) \in Nat
  OBVIOUS
<1>2. targ \in [1 .. Len(x) -> Token]
  <2>1. CASE Holds(Rows)
    <3>1. targ = [i \in 1 .. Len(x) |-> Argmax(Rows \o SubSeq(x, 1, i))]
      BY <2>1 DEF Targets
    <3>2. ASSUME NEW i \in 1 .. Len(x) PROVE Argmax(Rows \o SubSeq(x, 1, i)) \in Token
      <4>1. i \in 0 .. Len(x)
        BY <1>1
      <4>2. SubSeq(x, 1, i) \in Seq(Token)
        BY <4>1, Cut
      <4>3. Rows \o SubSeq(x, 1, i) \in Seq(Token)
        BY <4>2, ConcatProperties
      <4> QED BY <4>3 DEF Oracle
    <3> QED BY <3>1, <3>2
  <2>2. CASE ~Holds(Rows)
    BY <2>2 DEF Targets
  <2> QED BY <2>1, <2>2
<1> QED BY <1>1, <1>2

LEMMA PassIs ==
  ASSUME Last(out) \in Token, NEW q \in Seq(Token)
  PROVE  Pass(q) \in Seq(Token) /\ Len(Pass(q)) = Len(q) + 1
<1>1. <<Last(out)>> \in Seq(Token) /\ Len(<<Last(out)>>) = 1
  OBVIOUS
<1>2. /\ <<Last(out)>> \o q \in Seq(Token)
      /\ Len(<<Last(out)>> \o q) = Len(<<Last(out)>>) + Len(q)
  BY <1>1, ConcatProperties
<1>3. Len(q) \in Nat
  OBVIOUS
<1> QED BY <1>1, <1>2, <1>3 DEF Pass

LEMMA LastToken ==
  ASSUME NEW s \in Seq(Token), s # <<>>
  PROVE  Last(s) \in Token
<1>1. Len(s) \in Nat \ {0}
  BY EmptySeq
<1>2. Len(s) \in 1 .. Len(s)
  BY <1>1
<1>3. s[Len(s)] \in Token
  BY <1>2, ElementOfSeq
<1> QED BY <1>3 DEF Last

\* What a round of any loop may keep and yield.
LEMMA RoundTypes ==
  ASSUME Oracle, Rows \in Seq(Token), Last(out) \in Token,
         NEW q \in Seq(Token), NEW targ, targ \in Targets(Pass(q)),
         NEW m, m = Accepted(q, targ)
  PROVE  /\ m \in 0 .. Len(q)
         /\ Yields(q, m, targ) \in Seq(Token) /\ Len(Yields(q, m, targ)) = m + 1
         /\ Yields(q, m, targ) # <<>>
         /\ SubSeq(Pass(q), 1, m + 1) \in Seq(Token)
         /\ Len(SubSeq(Pass(q), 1, m + 1)) = m + 1
<1>1. m \in 0 .. Len(q) /\ Len(q) \in Nat /\ m \in Nat
  BY AcceptedIs
<1>2. Pass(q) \in Seq(Token) /\ Len(Pass(q)) = Len(q) + 1
  BY PassIs
<1>3. m + 1 \in 1 .. Len(Pass(q)) /\ m + 1 \in 0 .. Len(Pass(q))
  BY <1>1, <1>2
<1>4. targ[m + 1] \in Token
  BY <1>2, <1>3, TargetTokens
<1>5. PICK p : p = SubSeq(q, 1, m)
  OBVIOUS
<1>6. p \in Seq(Token) /\ Len(p) = m
  BY <1>1, <1>5, Cut
<1>7. PICK u : u = <<targ[m + 1]>>
  OBVIOUS
<1>8. u \in Seq(Token) /\ Len(u) = 1
  BY <1>4, <1>7
<1>9. p \o u \in Seq(Token) /\ Len(p \o u) = Len(p) + Len(u)
  BY <1>6, <1>8, ConcatProperties
<1>10. Len(p \o u) = m + 1 /\ m + 1 # 0
  BY <1>1, <1>6, <1>8, <1>9
<1>11. p \o u # <<>>
  BY <1>10
<1>12. Yields(q, m, targ) = p \o u
  BY <1>5, <1>7 DEF Yields
<1>13. SubSeq(Pass(q), 1, m + 1) \in Seq(Token) /\ Len(SubSeq(Pass(q), 1, m + 1)) = m + 1
  BY <1>2, <1>3, Cut
<1> QED BY <1>1, <1>9, <1>10, <1>11, <1>12, <1>13

\* A pass that ends with tokens to yield.
LEMMA RoundTypeEnd ==
  ASSUME TInv, at = "yielded", pend = <<>>, ~Returns, method # "stream",
         NEW e \in Seq(Token), e # <<>>, pend' = e, at' = "emit",
         UNCHANGED <<call, rest, out, pads>>,
         Cells(kv'), kv'[Probe] \in Seq(Token), draft' \in Seq(Token),
         method = "mtp" => Len(draft') = Len(kv'[Probe]),
         method = "tree" => Len(kv'[Probe]) = Len(Rows) + Len(e),
         k' \in MinK .. MaxK, history' \in Seq(0 .. Scale), since' \in Nat,
         Drafter(lookup')
  PROVE  TInv'
<1>1. /\ prompt' = prompt /\ limit' = limit /\ method' = method
      /\ rest' = rest /\ out' = out /\ pads' = pads
  BY DEF call
<1>2. TypeOK /\ limit >= 1 /\ prompt # <<>> /\ pads \in 0 .. MaxPad
      /\ (method # "batch" => pads = 0) /\ method # "batch" /\ out # <<>>
      /\ (method = "tree" => Len(Rows) + 1 = Len(prompt) + Len(out) + Len(pend))
  BY DEF TInv, Speaking
<1>3. TypeOK'
  <2>1. at' \in {"idle", "prefill", "emit", "yielded", "step", "done", "over"}
    OBVIOUS
  <2>2. kv' \in [Layer -> Seq(Token \cup {Lost})]
    BY DEF Cells, Row
  <2> QED BY <1>1, <1>2, <2>1, <2>2 DEF TypeOK
<1>4. Rows' = kv'[Probe]
  BY DEF Rows
<1>5. Len(out) \in Nat /\ limit \in Nat /\ Len(out) <= limit /\ Len(prompt) \in Nat
      /\ Len(e) \in Nat
  <2>1. out \in Seq(Token) /\ prompt \in Seq(Token) /\ limit \in 0 .. MaxTokens
        /\ Len(out) <= limit /\ MaxTokens \in Nat
    BY <1>2, GenerationAssumption DEF TypeOK
  <2> QED BY <2>1
<1>6. Len(out) < limit
  BY <1>5 DEF Returns
<1>7. Speaking'
  <2>1. method = "tree" => Len(Rows') + 1 = Len(prompt) + Len(out) + Len(e)
    <3>1. CASE method = "tree"
      <4>1. Len(pend) = 0 /\ Rows \in Seq(Token)
        BY DEF TInv
      <4>2. Len(Rows) + 1 = Len(prompt) + Len(out) /\ Len(Rows) \in Nat
        BY <1>2, <1>5, <3>1, <4>1
      <4>3. PICK r : r = kv'[Probe]
        OBVIOUS
      <4>4. Len(r) = Len(Rows) + Len(e) /\ Len(r) \in Nat /\ Len(e) \in Nat
        BY <3>1, <4>3
      <4>5. Len(r) + 1 = Len(prompt) + Len(out) + Len(e)
        <5>1. Len(prompt) \in Nat /\ Len(out) \in Nat
          BY <1>5
        <5> QED BY ONLY <4>2, <4>4, <5>1
      <4> QED BY <1>4, <4>3, <4>5
    <3> QED BY <3>1
  <2> QED BY <1>1, <1>2, <1>4, <1>6, <2>1 DEF Speaking
<1>8. Starting' /\ Riding' /\ Over'
  BY DEF Starting, Riding, Over
<1> QED BY <1>1, <1>2, <1>3, <1>4, <1>7, <1>8 DEF TInv

\* What a round starts from.
LEMMA AtYield ==
  ASSUME TInv, at = "yielded"
  PROVE  /\ TypeOK /\ out \in Seq(Token) /\ out # <<>> /\ Last(out) \in Token
         /\ Rows \in Seq(Token) /\ draft \in Seq(Token) /\ k \in MinK .. MaxK
         /\ history \in Seq(0 .. Scale) /\ since \in Nat /\ Drafter(lookup)
<1>1. /\ TypeOK /\ out # <<>> /\ Rows \in Seq(Token) /\ Drafter(lookup)
  BY DEF TInv, Speaking
<1>2. /\ out \in Seq(Token) /\ draft \in Seq(Token) /\ k \in MinK .. MaxK
      /\ history \in Seq(0 .. Scale) /\ since \in Nat
  BY <1>1 DEF TypeOK
<1> QED BY <1>1, <1>2, LastToken

\* A pass over the beginning of a draft that is kept, and the answer after it.
LEMMA KeptTypes ==
  ASSUME Oracle, TInv, at = "yielded",
         NEW q \in Seq(Token), NEW targ, targ \in Targets(Pass(q)),
         NEW m, m = Accepted(q, targ),
         kv' = Fed(SubSeq(Pass(q), 1, m + 1))
  PROVE  /\ Cells(kv') /\ kv'[Probe] \in Seq(Token) /\ Len(kv'[Probe]) = Len(Rows) + (m + 1)
<1>1. TypeOK /\ Rows \in Seq(Token) /\ Last(out) \in Token
  BY AtYield
<1>2. PICK x : x = SubSeq(Pass(q), 1, m + 1)
  OBVIOUS
<1>3. x \in Seq(Token) /\ Len(x) = m + 1
  BY <1>1, <1>2, RoundTypes
<1>4. /\ Cells(Fed(x)) /\ Fed(x)[Probe] \in Seq(Token)
      /\ Len(Fed(x)[Probe]) = Len(Rows) + Len(x)
  BY <1>1, <1>3, FedRows
<1> QED BY <1>2, <1>3, <1>4

LEMMA NgramTypes ==
  ASSUME Oracle, TInv, NEW q \in Proposals, NgramRound(q), UNCHANGED <<lookup, pads>>
  PROVE  TInv'
<1>1. /\ at = "yielded" /\ pend = <<>> /\ ~Returns /\ method = "ngram"
      /\ at' = "emit" /\ UNCHANGED <<call, rest, out>> /\ UNCHANGED <<draft, adapt>>
  BY DEF NgramRound, NextRound
<1>2. PICK targ : /\ targ \in Targets(Pass(q))
                  /\ kv' = Fed(SubSeq(Pass(q), 1, Accepted(q, targ) + 1))
                  /\ pend' = Yields(q, Accepted(q, targ), targ)
  BY DEF NgramRound, Pass, Yields
<1>3. PICK m : m = Accepted(q, targ)
  OBVIOUS
<1>4. PICK e : e = Yields(q, m, targ)
  OBVIOUS
<1>5. q \in Seq(Token)
  BY ProposalIs
<1>6. e \in Seq(Token) /\ e # <<>> /\ pend' = e
  BY <1>1, <1>2, <1>3, <1>4, <1>5, AtYield, RoundTypes
<1>7. Cells(kv') /\ kv'[Probe] \in Seq(Token)
  BY <1>1, <1>2, <1>3, <1>5, KeptTypes
<1>8. /\ draft' \in Seq(Token) /\ k' \in MinK .. MaxK
      /\ history' \in Seq(0 .. Scale) /\ since' \in Nat /\ Drafter(lookup')
  BY <1>1, AtYield DEF adapt
<1>9. UNCHANGED <<call, rest, out, pads>>
  BY <1>1
<1> QED BY <1>1, <1>6, <1>7, <1>8, <1>9, RoundTypeEnd

\* The draft's cache after drafting, and after the rollback, right or wrong.
LEMMA RealignedType ==
  ASSUME draft \in Seq(Token), Last(out) \in Token, NEW q \in Seq(Token),
         NEW n \in Nat \ {0}, NEW m \in 0 .. Len(q)
  PROVE  Realigned(q, n, m) \in Seq(Token)
<1>1. Pass(q) \in Seq(Token) /\ Len(Pass(q)) = Len(q) + 1 /\ Len(q) \in Nat
  BY PassIs
<1>2. PICK p : p = SubSeq(Pass(q), 1, Len(q))
  OBVIOUS
<1>3. p \in Seq(Token)
  <2>1. Len(q) \in 0 .. Len(Pass(q))
    BY <1>1
  <2> QED BY <1>1, <1>2, <2>1, Cut
<1>4. PICK c : c = draft \o p
  OBVIOUS
<1>5. c \in Seq(Token)
  BY <1>3, <1>4, ConcatProperties
<1>6. Drafted(q) = c
  BY <1>2, <1>4 DEF Drafted, Pass
<1>7. CASE m < n
  <2>1. (n - 1) - m \in Int
    BY <1>1
  <2>2. Trimmed(c, (n - 1) - m) \in Seq(Token)
    BY <1>5, <2>1, TrimmedType
  <2> QED BY <1>6, <1>7, <2>2 DEF Realigned
<1>8. CASE ~(m < n)
  <2>1. n \in 1 .. Len(q)
    BY <1>1, <1>8
  <2>2. q[n] \in Token
    BY <2>1, ElementOfSeq
  <2>3. Append(c, q[n]) \in Seq(Token)
    BY <1>5, <2>2, AppendProperties
  <2> QED BY <1>6, <1>8, <2>3 DEF Realigned
<1> QED BY <1>7, <1>8

LEMMA DraftTypes ==
  ASSUME Oracle, TInv, NEW q \in Proposals, DraftRound(q), UNCHANGED <<lookup, pads>>
  PROVE  TInv'
<1>1. /\ at = "yielded" /\ pend = <<>> /\ ~Returns /\ method \in {"draft", "fast"}
      /\ at' = "emit" /\ UNCHANGED <<call, rest, out>> /\ UNCHANGED adapt /\ Len(q) = k
  BY DEF DraftRound, NextRound
<1>2. PICK targ : /\ targ \in Targets(Pass(q))
                  /\ kv' = Fed(SubSeq(Pass(q), 1, Accepted(q, targ) + 1))
                  /\ draft' = Realigned(q, k, Accepted(q, targ))
                  /\ pend' = Yields(q, Accepted(q, targ), targ)
  BY DEF DraftRound, Pass, Yields
<1>3. PICK m : m = Accepted(q, targ)
  OBVIOUS
<1>4. PICK e : e = Yields(q, m, targ)
  OBVIOUS
<1>5. q \in Seq(Token)
  BY ProposalIs
<1>6. e \in Seq(Token) /\ e # <<>> /\ pend' = e /\ m \in 0 .. Len(q)
  BY <1>1, <1>2, <1>3, <1>4, <1>5, AtYield, RoundTypes
<1>7. Cells(kv') /\ kv'[Probe] \in Seq(Token)
  BY <1>1, <1>2, <1>3, <1>5, KeptTypes
<1>8. /\ k' \in MinK .. MaxK
      /\ history' \in Seq(0 .. Scale) /\ since' \in Nat /\ Drafter(lookup')
  BY <1>1, AtYield DEF adapt
<1>9. draft' \in Seq(Token)
  <2>1. k \in Nat \ {0}
    BY <1>1, AtYield, GenerationAssumption
  <2> QED BY <1>1, <1>2, <1>3, <1>5, <1>6, <2>1, AtYield, RealignedType
<1>10. UNCHANGED <<call, rest, out, pads>>
  BY <1>1
<1> QED BY <1>1, <1>6, <1>7, <1>8, <1>9, <1>10, RoundTypeEnd

\* A pass over the whole draft, rolled back.
LEMMA RolledTypes ==
  ASSUME Oracle, TInv, at = "yielded", NEW q \in Seq(Token), NEW n \in Int,
         kv' = Rolled(Fed(Pass(q)), n)
  PROVE  /\ Cells(kv') /\ kv'[Probe] \in Seq(Token)
         /\ n \in 0 .. Len(q) => Len(kv'[Probe]) = Len(Rows) + (Len(q) + 1) - n
<1>1. /\ TypeOK /\ Rows \in Seq(Token) /\ Pass(q) \in Seq(Token)
      /\ Len(Pass(q)) = Len(q) + 1
  BY AtYield, PassIs
<1>2. PICK c : c = Fed(Pass(q))
  OBVIOUS
<1>3. Cells(c) /\ c[Probe] \in Seq(Token) /\ Len(c[Probe]) = Len(Rows) + (Len(q) + 1)
  BY <1>1, <1>2, FedRows
<1>4. /\ Cells(Rolled(c, n)) /\ Rolled(c, n)[Probe] \in Seq(Token)
      /\ n \in 0 .. Len(c[Probe]) => Len(Rolled(c, n)[Probe]) = Len(c[Probe]) - n
  BY <1>3, RolledType
<1>5. n \in 0 .. Len(q) => n \in 0 .. Len(c[Probe])
  <2>1. Len(Rows) \in Nat /\ Len(q) \in Nat
    BY <1>1
  <2> QED BY <1>3, <2>1
<1> QED BY <1>2, <1>3, <1>4, <1>5

LEMMA OptimizedTypes ==
  ASSUME Oracle, TInv, NEW q \in Proposals, OptimizedRound(q), UNCHANGED <<lookup, pads>>
  PROVE  TInv'
<1>1. /\ at = "yielded" /\ pend = <<>> /\ ~Returns /\ method = "optimized"
      /\ at' = "emit" /\ UNCHANGED <<call, rest, out>> /\ since' = since
      /\ k' = NextK /\ Len(q) = k'
  BY DEF OptimizedRound, NextRound
<1>2. PICK targ : /\ targ \in Targets(Pass(q))
                  /\ history' = Append(history, (Accepted(q, targ) * Scale) \div k')
                  /\ kv' = Rolled(Fed(Pass(q)), k' - Accepted(q, targ))
                  /\ draft' = Realigned(q, k', Accepted(q, targ))
                  /\ pend' = Yields(q, Accepted(q, targ), targ)
  BY DEF OptimizedRound, Pass, Yields
<1>3. PICK m : m = Accepted(q, targ)
  OBVIOUS
<1>4. PICK e : e = Yields(q, m, targ)
  OBVIOUS
<1>5. q \in Seq(Token)
  BY ProposalIs
<1>6. e \in Seq(Token) /\ e # <<>> /\ pend' = e /\ m \in 0 .. Len(q)
  BY <1>1, <1>2, <1>3, <1>4, <1>5, AtYield, RoundTypes
<1>7. k' \in MinK .. MaxK /\ k' \in Nat \ {0}
  <2>1. k' \in MinK .. MaxK
    BY <1>1, AtYield, AdjustedIs DEF NextK
  <2> QED BY <2>1, GenerationAssumption
<1>8. Cells(kv') /\ kv'[Probe] \in Seq(Token)
  <2>1. k' - m \in Int
    BY <1>5, <1>6, <1>7
  <2> QED BY <1>1, <1>2, <1>3, <1>5, <2>1, RolledTypes
<1>9. history' \in Seq(0 .. Scale)
  <2>1. (m * Scale) \div k' \in 0 .. Scale
    BY <1>1, <1>6, <1>7, RateIs
  <2> QED BY <1>1, <1>2, <1>3, <2>1, AtYield, AppendProperties
<1>10. since' \in Nat /\ Drafter(lookup')
  BY <1>1, AtYield
<1>11. draft' \in Seq(Token)
  BY <1>1, <1>2, <1>3, <1>5, <1>6, <1>7, AtYield, RealignedType
<1>12. UNCHANGED <<call, rest, out, pads>>
  BY <1>1
<1> QED BY <1>1, <1>6, <1>7, <1>8, <1>9, <1>10, <1>11, <1>12, RoundTypeEnd

LEMMA AdaptiveTypes ==
  ASSUME Oracle, TInv, NEW q \in Proposals, AdaptiveRound(q), UNCHANGED <<lookup, pads>>
  PROVE  TInv'
<1> DEFINE due == since + 1 >= Interval /\ Len(history) + 1 >= 3
<1>1. /\ at = "yielded" /\ pend = <<>> /\ ~Returns /\ method = "adaptive"
      /\ at' = "emit" /\ UNCHANGED <<call, rest, out>> /\ Len(q) = k
  BY DEF AdaptiveRound, NextRound
<1>2. PICK targ : /\ targ \in Targets(Pass(q))
                  /\ history' = Append(history, (Accepted(q, targ) * Scale) \div k)
                  /\ since' = IF due THEN 0 ELSE since + 1
                  /\ k' = IF due THEN Adjusted(Recent(history'), 6) ELSE k
                  /\ kv' = Rolled(Fed(Pass(q)), k' - Accepted(q, targ))
                  /\ draft' = Realigned(q, k', Accepted(q, targ))
                  /\ pend' = Yields(q, Accepted(q, targ), targ)
  BY DEF AdaptiveRound, Pass, Yields
<1>3. PICK m : m = Accepted(q, targ)
  OBVIOUS
<1>4. PICK e : e = Yields(q, m, targ)
  OBVIOUS
<1>5. q \in Seq(Token)
  BY ProposalIs
<1>6. e \in Seq(Token) /\ e # <<>> /\ pend' = e /\ m \in 0 .. Len(q)
  BY <1>1, <1>2, <1>3, <1>4, <1>5, AtYield, RoundTypes
<1>7. k' \in MinK .. MaxK /\ k' \in Nat \ {0} /\ k \in Nat \ {0}
  <2>1. k \in MinK .. MaxK
    BY <1>1, AtYield
  <2>2. k' \in MinK .. MaxK
    <3>1. PICK h : h = Recent(history')
      OBVIOUS
    <3>2. Adjusted(h, 6) \in MinK .. MaxK
      BY <2>1, AdjustedIs
    <3> QED BY <1>2, <2>1, <3>1, <3>2
  <2> QED BY <2>1, <2>2, GenerationAssumption
<1>8. Cells(kv') /\ kv'[Probe] \in Seq(Token)
  <2>1. k' - m \in Int
    BY <1>5, <1>6, <1>7
  <2> QED BY <1>1, <1>2, <1>3, <1>5, <2>1, RolledTypes
<1>9. history' \in Seq(0 .. Scale)
  <2>1. (m * Scale) \div k \in 0 .. Scale
    BY <1>1, <1>6, <1>7, RateIs
  <2> QED BY <1>1, <1>2, <1>3, <2>1, AtYield, AppendProperties
<1>10. since' \in Nat /\ Drafter(lookup')
  BY <1>1, <1>2, AtYield
<1>11. draft' \in Seq(Token)
  BY <1>1, <1>2, <1>3, <1>5, <1>6, <1>7, AtYield, RealignedType
<1>12. UNCHANGED <<call, rest, out, pads>>
  BY <1>1
<1> QED BY <1>1, <1>6, <1>7, <1>8, <1>9, <1>10, <1>11, <1>12, RoundTypeEnd

LEMMA MtpTypes ==
  ASSUME Oracle, TInv, NEW q \in Proposals, MtpRound(q)
  PROVE  TInv'
<1>1. /\ at = "yielded" /\ pend = <<>> /\ ~Returns /\ method = "mtp"
      /\ at' = "emit" /\ UNCHANGED <<call, rest, out, pads>> /\ UNCHANGED <<adapt, lookup>>
      /\ Len(q) = k
  BY DEF MtpRound, NextRound
<1>2. PICK targ : /\ targ \in Targets(Pass(q))
                  /\ kv' = Rolled(Fed(Pass(q)), k - Accepted(q, targ))
                  /\ draft' = SubSeq(Rows \o Pass(q), 1, Len(draft) + Accepted(q, targ) + 1)
                  /\ pend' = Yields(q, Accepted(q, targ), targ)
  BY DEF MtpRound, Pass, Yields
<1>3. PICK m : m = Accepted(q, targ)
  OBVIOUS
<1>4. PICK e : e = Yields(q, m, targ)
  OBVIOUS
<1>5. q \in Seq(Token)
  BY ProposalIs
<1>6. e \in Seq(Token) /\ e # <<>> /\ pend' = e /\ m \in 0 .. Len(q)
  BY <1>1, <1>2, <1>3, <1>4, <1>5, AtYield, RoundTypes
<1>7. k - m \in 0 .. Len(q) /\ (Len(q) + 1) - (k - m) = m + 1 /\ m \in Nat
  <2>1. Len(q) \in Nat
    BY <1>5
  <2> QED BY <1>1, <1>6, <2>1
<1>8. /\ Cells(kv') /\ kv'[Probe] \in Seq(Token)
      /\ Len(kv'[Probe]) = Len(Rows) + (m + 1)
  <2>1. kv' = Rolled(Fed(Pass(q)), k - m) /\ k - m \in Int
    BY <1>2, <1>3, <1>7
  <2>2. /\ Cells(kv') /\ kv'[Probe] \in Seq(Token)
        /\ Len(kv'[Probe]) = Len(Rows) + (Len(q) + 1) - (k - m)
    BY <1>1, <1>5, <1>7, <2>1, RolledTypes
  <2>3. Rows \in Seq(Token) /\ Len(q) \in Nat
    BY <1>1, <1>5, AtYield
  <2>4. Len(Rows) + (Len(q) + 1) - (k - m) = Len(Rows) + (m + 1)
    <3>1. Len(Rows) \in Nat
      BY <2>3
    <3> QED BY ONLY <1>1, <1>6, <2>3, <3>1
  <2> QED BY <2>2, <2>4
<1>9. draft' \in Seq(Token) /\ Len(draft') = Len(Rows) + (m + 1)
  <2>1. /\ Rows \in Seq(Token) /\ Pass(q) \in Seq(Token) /\ Len(Pass(q)) = Len(q) + 1
        /\ Len(draft) = Len(Rows)
    BY <1>1, <1>5, AtYield, PassIs DEF TInv, Speaking
  <2>2. PICK x : x = Rows \o Pass(q)
    OBVIOUS
  <2>3. x \in Seq(Token) /\ Len(x) = Len(Rows) + (Len(q) + 1)
    <3>1. PICK p : p = Pass(q)
      OBVIOUS
    <3>2. Rows \in Seq(Token) /\ p \in Seq(Token)
      BY <2>1, <3>1
    <3>3. Rows \o p \in Seq(Token) /\ Len(Rows \o p) = Len(Rows) + Len(p)
      BY <3>2, ConcatProperties
    <3> QED BY <2>1, <2>2, <3>1, <3>3
  <2>4. PICK n : n = Len(draft) + m + 1
    OBVIOUS
  <2>5. n = Len(Rows) + (m + 1) /\ n \in 0 .. Len(x)
    <3>1. Len(Rows) \in Nat /\ Len(q) \in Nat
      BY <1>5, <2>1
    <3> QED BY <1>6, <1>7, <2>1, <2>3, <2>4, <3>1
  <2>6. draft' = SubSeq(x, 1, n)
    BY <1>2, <1>3, <2>2, <2>4
  <2>7. SubSeq(x, 1, n) \in Seq(Token) /\ Len(SubSeq(x, 1, n)) = n
    BY <2>3, <2>5, Cut
  <2> QED BY <2>5, <2>6, <2>7
<1>10. /\ k' \in MinK .. MaxK
       /\ history' \in Seq(0 .. Scale) /\ since' \in Nat /\ Drafter(lookup')
  BY <1>1, AtYield DEF adapt
<1>11. Len(draft') = Len(kv'[Probe])
  BY <1>8, <1>9
<1> QED BY <1>1, <1>6, <1>8, <1>9, <1>10, <1>11, RoundTypeEnd

LEMMA EagleTypes ==
  ASSUME Oracle, TInv, NEW q \in Proposals, EagleRound(q)
  PROVE  TInv'
<1>1. /\ at = "yielded" /\ pend = <<>> /\ ~Returns /\ method = "eagle"
      /\ at' = "emit" /\ UNCHANGED <<call, rest, out, pads>> /\ UNCHANGED <<adapt, lookup>>
      /\ Len(q) = k
  BY DEF EagleRound, NextRound
<1>2. PICK targ : /\ targ \in Targets(Pass(q))
                  /\ kv' = Rolled(Fed(Pass(q)), k - Accepted(q, targ))
                  /\ draft' = Rows \o SubSeq(Pass(q), 1, Accepted(q, targ) + 1)
                  /\ pend' = Yields(q, Accepted(q, targ), targ)
  BY DEF EagleRound, Pass, Yields
<1>3. PICK m : m = Accepted(q, targ)
  OBVIOUS
<1>4. PICK e : e = Yields(q, m, targ)
  OBVIOUS
<1>5. q \in Seq(Token)
  BY ProposalIs
<1>6. /\ e \in Seq(Token) /\ e # <<>> /\ pend' = e /\ m \in 0 .. Len(q)
      /\ SubSeq(Pass(q), 1, m + 1) \in Seq(Token)
  BY <1>1, <1>2, <1>3, <1>4, <1>5, AtYield, RoundTypes
<1>7. Cells(kv') /\ kv'[Probe] \in Seq(Token)
  <2>1. k - m \in Int
    BY <1>1, <1>5, <1>6
  <2> QED BY <1>1, <1>2, <1>3, <1>5, <2>1, RolledTypes
<1>8. draft' \in Seq(Token)
  <2>1. PICK x : x = SubSeq(Pass(q), 1, m + 1)
    OBVIOUS
  <2>2. Rows \in Seq(Token) /\ x \in Seq(Token)
    BY <1>1, <1>6, <2>1, AtYield
  <2>3. Rows \o x \in Seq(Token)
    BY <2>2, ConcatProperties
  <2> QED BY <1>2, <1>3, <2>1, <2>3
<1>9. /\ k' \in MinK .. MaxK
      /\ history' \in Seq(0 .. Scale) /\ since' \in Nat /\ Drafter(lookup')
  BY <1>1, AtYield DEF adapt
<1> QED BY <1>1, <1>6, <1>7, <1>8, <1>9, RoundTypeEnd

\* A tree's paths are verified after the rows of the sequence.
LEMMA TreeAligned ==
  ASSUME TInv, at = "yielded", pend = <<>>, method = "tree"
  PROVE  Aligned
<1>1. /\ prompt \in Seq(Token) /\ out \in Seq(Token) /\ Rows \in Seq(Token)
      /\ Len(Rows) + 1 = Len(prompt) + Len(out) + Len(pend)
  BY DEF TInv, Speaking, TypeOK
<1>2. Len(prompt \o out) = Len(prompt) + Len(out)
  BY <1>1, ConcatProperties
<1>3. Len(pend) = 0 /\ Len(prompt) \in Nat /\ Len(out) \in Nat /\ Len(Rows) \in Nat
  BY <1>1
<1>4. Len(Rows) = Len(prompt \o out) - 1
  BY ONLY <1>1, <1>2, <1>3
<1> QED BY <1>4 DEF Aligned

LEMMA TreeTypes ==
  ASSUME Oracle, TInv, TreeRound
  PROVE  TInv'
<1>1. /\ at = "yielded" /\ pend = <<>> /\ ~Returns /\ method = "tree"
      /\ at' = "emit" /\ UNCHANGED <<call, rest, out, pads>>
      /\ UNCHANGED <<draft, adapt, lookup>>
  BY DEF TreeRound, NextRound
<1>2. Aligned
  BY <1>1, TreeAligned
<1>3. PICK q \in Seq(Token) : \E targ \in Targets(Pass(q)) :
        /\ Accepted(q, targ) = Len(q)
        /\ kv' = Fed(SubSeq(Pass(q), 1, Len(q) + 1))
        /\ pend' = Yields(q, Len(q), targ)
  BY <1>1, <1>2, AtYield, TreeAsDraft
<1>4. PICK targ \in Targets(Pass(q)) :
        /\ Accepted(q, targ) = Len(q)
        /\ kv' = Fed(SubSeq(Pass(q), 1, Len(q) + 1))
        /\ pend' = Yields(q, Len(q), targ)
  BY <1>3
<1>5. PICK e : e = Yields(q, Len(q), targ)
  OBVIOUS
<1>6. e \in Seq(Token) /\ Len(e) = Len(q) + 1 /\ e # <<>> /\ pend' = e
  BY <1>1, <1>4, <1>5, AtYield, RoundTypes
<1>7. Cells(kv') /\ kv'[Probe] \in Seq(Token) /\ Len(kv'[Probe]) = Len(Rows) + (Len(q) + 1)
  BY <1>1, <1>4, KeptTypes
<1>8. /\ draft' \in Seq(Token) /\ k' \in MinK .. MaxK
      /\ history' \in Seq(0 .. Scale) /\ since' \in Nat /\ Drafter(lookup')
  BY <1>1, AtYield DEF adapt
<1>9. Len(kv'[Probe]) = Len(Rows) + Len(e)
  BY <1>6, <1>7
<1> QED BY <1>1, <1>6, <1>7, <1>8, <1>9, RoundTypeEnd

LEMMA Room ==
  ASSUME NEW x \in Nat, NEW y \in Nat, NEW l \in Nat, y < l - x
  PROVE  x + y \in Nat /\ x + y < l
OBVIOUS

\* What a lookup finds is a part of what is there.
LEMMA ProposeIs ==
  ASSUME NEW c \in Seq(Token), NEW n \in Nat
  PROVE  Propose(c, n) \in Seq(Token)
<1> DEFINE Hits == {h \in (1 .. Lesser(MaxNgram, Len(c) - 1)) \X (0 .. Len(c) - 1) :
                     /\ h[2] < Len(c) - h[1]
                     /\ IsSuffix(SubSeq(c, h[2] + 1, h[2] + h[1]), c)}
           Longest(h) == \A g \in Hits : g[1] < h[1] \/ (g[1] = h[1] /\ g[2] <= h[2])
           Best == CHOOSE h \in Hits : Longest(h)
           from == Best[1] + Best[2]
<1>1. Propose(c, n) = IF Hits = {} THEN <<>> ELSE SubSeq(c, from + 1, Lesser(Len(c), from + n))
  BY DEF Propose
<1>2. Len(c) \in Nat /\ MaxNgram \in Nat
  BY LoopsAssumption
<1>3. \A h \in Hits : h[1] \in Nat /\ h[2] \in Nat /\ h[1] < Len(c) /\ h[2] < Len(c) - h[1]
  BY <1>2 DEF Lesser
<1>4. CASE Hits = {}
  BY <1>1, <1>4
<1>5. CASE Hits # {}
  <2> DEFINE A == {h[1] : h \in Hits}
  <2>1. A \subseteq Nat /\ A # {} /\ \A a \in A : a <= Len(c)
    <3> HIDE DEF Hits
    <3>1. \A h \in Hits : h[1] \in Nat /\ h[1] <= Len(c)
      BY <1>2, <1>3
    <3> QED BY <1>5, <3>1
  <2>2. PICK a \in A : \A x \in A : x <= a
    <3> HIDE DEF A
    <3> QED BY <1>2, <2>1, Greatest
  <2> DEFINE B == {h[2] : h \in {g \in Hits : g[1] = a}}
  <2>3. B \subseteq Nat /\ B # {} /\ \A b \in B : b <= Len(c)
    <3> HIDE DEF Hits
    <3>1. \A h \in Hits : h[2] \in Nat /\ h[2] <= Len(c)
      BY <1>2, <1>3
    <3> QED BY <3>1
  <2>4. PICK b \in B : \A x \in B : x <= b
    <3> HIDE DEF B
    <3> QED BY <1>2, <2>3, Greatest
  <2>5. PICK h \in Hits : h[1] = a /\ h[2] = b
    OBVIOUS
  <2>6. Longest(h)
    <3> SUFFICES ASSUME NEW g \in Hits PROVE g[1] < h[1] \/ (g[1] = h[1] /\ g[2] <= h[2])
      OBVIOUS
    <3>1. g[1] \in A /\ (g[1] = a => g[2] \in B)
      OBVIOUS
    <3>2. g[1] \in Nat /\ a \in Nat
      BY <2>1, <3>1
    <3>3. g[1] <= a
      BY <2>2, <3>1
    <3>4. g[1] = a => g[2] <= b
      BY <2>4, <3>1
    <3> HIDE DEF Hits, A, B
    <3> QED BY <2>5, <3>2, <3>3, <3>4
  <2>7. Best \in Hits
    <3> HIDE DEF Hits, Longest
    <3> QED BY <2>6
  <2>8. from \in Nat /\ from < Len(c)
    <3>1. PICK g : g = Best
      OBVIOUS
    <3>2. g[1] \in Nat /\ g[2] \in Nat /\ g[2] < Len(c) - g[1]
      <4> HIDE DEF Hits, Best
      <4> QED BY <1>3, <2>7, <3>1
    <3>3. g[1] + g[2] \in Nat /\ g[1] + g[2] < Len(c)
      <4>1. PICK x : x = g[1]
        OBVIOUS
      <4>2. PICK y : y = g[2]
        OBVIOUS
      <4>3. x \in Nat /\ y \in Nat /\ y < Len(c) - x /\ Len(c) \in Nat
        BY <1>2, <3>2, <4>1, <4>2
      <4>4. x + y \in Nat /\ x + y < Len(c)
        BY <4>3, Room
      <4> QED BY <4>1, <4>2, <4>4
    <3> HIDE DEF Best
    <3> QED BY <3>1, <3>3
  <2> HIDE DEF Hits, from
  <2>9. PICK i : i = from + 1
    OBVIOUS
  <2>10. PICK j : j = Lesser(Len(c), from + n)
    OBVIOUS
  <2>11. i \in Nat /\ i >= 1 /\ j \in Nat /\ j <= Len(c)
    <3>1. n \in Nat /\ Len(c) \in Nat /\ from \in Nat
      BY <1>2, <2>8
    <3>2. i \in Nat /\ i >= 1
      BY ONLY <3>1, <2>9
    <3>3. j \in Nat /\ j <= Len(c)
      BY ONLY <3>1, <2>10 DEF Lesser
    <3> QED BY <3>2, <3>3
  <2>12. SubSeq(c, i, j) \in Seq(Token)
    <3>1. \A x \in i .. j : c[x] \in Token
      <4> SUFFICES ASSUME NEW x \in i .. j PROVE c[x] \in Token
        OBVIOUS
      <4>1. x \in 1 .. Len(c)
        <5>1. x \in i .. j /\ Len(c) \in Nat
          BY <1>2
        <5> QED BY ONLY <2>11, <5>1
      <4> QED BY <4>1, ElementOfSeq
    <3> QED BY <2>11, <3>1, SubSeqProperties
  <2> QED BY <1>1, <1>5, <2>9, <2>10, <2>12
<1> QED BY <1>4, <1>5

LEMMA AskedIs ==
  ASSUME Drafter(lookup)
  PROVE  /\ Drafter(Asked) /\ Asked.k = lookup.k /\ Allowance \in Nat
         /\ Allowance # 0 /\ lookup.k = 0 => Asked.probing
<1>1. /\ lookup \in [k : Nat, calls : Nat, probing : BOOLEAN]
      /\ lookup.k \in {0} \cup MinDraft .. Cap
      /\ lookup.calls \in 0 .. ReprobeEvery - 1
      /\ lookup.probing => lookup.k = 0
  BY DEF Drafter
<1>2. PICK n : n = (lookup.calls + 1) % ReprobeEvery
  OBVIOUS
<1>3. n \in 0 .. ReprobeEvery - 1 /\ n \in Nat
  <2>1. PICK c : c = lookup.calls + 1
    OBVIOUS
  <2>2. c \in Nat /\ ReprobeEvery \in Nat \ {0}
    BY <1>1, <2>1, LoopsAssumption
  <2>3. c % ReprobeEvery \in 0 .. ReprobeEvery - 1
    BY ONLY <2>2
  <2> QED BY <1>2, <2>1, <2>2, <2>3
<1>4. MinDraft \in Nat
  BY LoopsAssumption
<1>5. CASE lookup.k # 0
  <2>1. Asked = lookup /\ Allowance = lookup.k
    BY <1>5 DEF Asked, Allowance
  <2> QED BY <1>1, <1>5, <2>1 DEF Drafter
<1>6. CASE lookup.k = 0
  <2>1. PICK p \in BOOLEAN : p = (lookup.probing \/ n = 0)
    OBVIOUS
  <2>2. Asked = [lookup EXCEPT !.calls = n, !.probing = p]
    BY <1>2, <1>6, <2>1, Zenon DEF Asked
  <2>3. /\ Asked \in [k : Nat, calls : Nat, probing : BOOLEAN]
        /\ Asked.k = 0 /\ Asked.calls = n /\ Asked.probing = p
    BY <1>1, <1>3, <1>6, <2>2
  <2>4. Drafter(Asked)
    BY <1>3, <2>3 DEF Drafter
  <2>5. Allowance = IF n = 0 THEN MinDraft ELSE 0
    BY <1>6, <2>3 DEF Allowance
  <2>6. Allowance \in Nat /\ (Allowance # 0 => n = 0)
    BY <1>4, <2>5
  <2> QED BY <1>6, <2>1, <2>3, <2>4, <2>6
<1> QED BY <1>5, <1>6

LEMMA ObservedIs ==
  ASSUME Drafter(lookup), Allowance # 0, NEW n \in Nat, NEW m \in Nat
  PROVE  Drafter(Observed(n, m))
<1>1. /\ Drafter(Asked) /\ Asked.k = lookup.k
      /\ Allowance # 0 /\ lookup.k = 0 => Asked.probing
  BY AskedIs
<1>2. PICK base : base = IF Asked.probing THEN MinDraft ELSE lookup.k
  OBVIOUS
<1>3. base \in MinDraft .. Cap /\ base \in Nat /\ MinDraft \in Nat /\ Cap \in Nat
  BY <1>1, <1>2, LoopsAssumption DEF Drafter
<1>4. PICK new : new = IF m >= n - 1 /\ m >= 2 THEN Lesser(Cap, 2 * base)
                       ELSE IF 4 * m >= n THEN base
                       ELSE IF base <= MinDraft THEN 0
                       ELSE Greater(MinDraft, base \div 2)
  OBVIOUS
<1>5. new \in {0} \cup MinDraft .. Cap /\ new \in Nat
  <2>1. Lesser(Cap, 2 * base) \in MinDraft .. Cap
    BY ONLY <1>3 DEF Lesser
  <2>2. Greater(MinDraft, base \div 2) \in MinDraft .. Cap
    <3>1. PICK d : d = base \div 2
      OBVIOUS
    <3>2. d \in 0 .. base
      BY ONLY <1>3, <3>1
    <3>3. Greater(MinDraft, d) \in MinDraft .. Cap
      BY ONLY <1>3, <3>2 DEF Greater
    <3> QED BY <3>1, <3>3
  <2> QED BY <1>3, <1>4, <2>1, <2>2
<1>6. Observed(n, m) = [Asked EXCEPT !.probing = FALSE, !.k = new]
  BY <1>2, <1>4 DEF Observed
<1>7. /\ Asked \in [k : Nat, calls : Nat, probing : BOOLEAN]
      /\ Asked.calls \in 0 .. ReprobeEvery - 1
  BY <1>1 DEF Drafter
<1>8. PICK d : d = [Asked EXCEPT !.probing = FALSE, !.k = new]
  OBVIOUS
<1>9. /\ d \in [k : Nat, calls : Nat, probing : BOOLEAN]
      /\ d.k = new /\ d.calls = Asked.calls /\ d.probing = FALSE
  BY <1>5, <1>7, <1>8
<1> QED BY <1>5, <1>6, <1>7, <1>8, <1>9 DEF Drafter

\* What is fed when a drafter is asked first.
Sought == IF Allowance = 0 THEN <<>> ELSE Propose(prompt \o out, Allowance)

LEMMA SoughtIs ==
  ASSUME TypeOK, Drafter(lookup)
  PROVE  Sought \in Seq(Token) /\ (Sought # <<>> => Allowance # 0)
<1>1. prompt \in Seq(Token) /\ out \in Seq(Token)
  BY DEF TypeOK
<1>2. prompt \o out \in Seq(Token) /\ Allowance \in Nat
  BY <1>1, AskedIs, ConcatProperties
<1>3. Propose(prompt \o out, Allowance) \in Seq(Token)
  BY <1>2, ProposeIs
<1> QED BY <1>3 DEF Sought

LEMMA LookupTypes ==
  ASSUME Oracle, TInv, LookupRound
  PROVE  TInv'
<1>1. /\ at = "yielded" /\ pend = <<>> /\ ~Returns /\ method = "lookup"
      /\ at' = "emit" /\ UNCHANGED <<call, rest, out, pads>> /\ UNCHANGED <<draft, adapt>>
  BY DEF LookupRound, NextRound
<1>2. PICK q : q = Sought
  OBVIOUS
<1>3. PICK targ : /\ targ \in Targets(Pass(q))
                  /\ kv' = Fed(SubSeq(Pass(q), 1, Accepted(q, targ) + 1))
                  /\ pend' = Yields(q, Accepted(q, targ), targ)
                  /\ lookup' = IF q = <<>> THEN Asked ELSE Observed(Len(q), Accepted(q, targ))
  BY <1>2 DEF LookupRound, Pass, Yields, Sought
<1>4. PICK m : m = Accepted(q, targ)
  OBVIOUS
<1>5. PICK e : e = Yields(q, m, targ)
  OBVIOUS
<1>6. q \in Seq(Token) /\ (q # <<>> => Allowance # 0)
  BY <1>1, <1>2, AtYield, SoughtIs
<1>7. e \in Seq(Token) /\ e # <<>> /\ pend' = e /\ m \in 0 .. Len(q)
  BY <1>1, <1>3, <1>4, <1>5, <1>6, AtYield, RoundTypes
<1>8. Cells(kv') /\ kv'[Probe] \in Seq(Token)
  BY <1>1, <1>3, <1>4, <1>6, KeptTypes
<1>9. Drafter(lookup')
  <2>1. Drafter(lookup) /\ Len(q) \in Nat /\ m \in Nat
    BY <1>1, <1>6, <1>7, AtYield
  <2>2. CASE q = <<>>
    BY <1>3, <2>1, <2>2, AskedIs
  <2>3. CASE q # <<>>
    BY <1>3, <1>4, <1>6, <2>1, <2>3, ObservedIs
  <2> QED BY <2>2, <2>3
<1>10. /\ draft' \in Seq(Token) /\ k' \in MinK .. MaxK
       /\ history' \in Seq(0 .. Scale) /\ since' \in Nat
  BY <1>1, AtYield DEF adapt
<1> QED BY <1>1, <1>7, <1>8, <1>9, <1>10, RoundTypeEnd

\* A step that drafts nothing.
LEMMA StepTypes ==
  ASSUME TInv, UNCHANGED <<call, adapt, lookup, pads>>,
         rest' \in Seq(Token), draft' \in Seq(Token),
         out' \in Seq(Token), Len(out') <= limit, pend' \in Seq(Token),
         Cells(kv'), kv'[Probe] \in Seq(Token),
         at' \in {"prefill", "emit", "yielded", "step", "done", "over"},
         Starting', Speaking', Riding', Over'
  PROVE  TInv'
<1>1. /\ prompt' = prompt /\ limit' = limit /\ method' = method /\ pads' = pads
      /\ k' = k /\ history' = history /\ since' = since /\ lookup' = lookup
  BY DEF call, adapt
<1>2. /\ TypeOK /\ limit >= 1 /\ prompt # <<>> /\ pads \in 0 .. MaxPad
      /\ (method # "batch" => pads = 0) /\ Drafter(lookup)
  BY DEF TInv
<1>3. kv' \in [Layer -> Seq(Token \cup {Lost})]
  BY DEF Cells, Row
<1>4. TypeOK'
  BY <1>1, <1>2, <1>3 DEF TypeOK
<1>5. Rows' = kv'[Probe]
  BY DEF Rows
<1> QED BY <1>1, <1>2, <1>4, <1>5 DEF TInv

\* What a step starts from.
LEMMA Parts ==
  ASSUME TInv
  PROVE  /\ TypeOK /\ prompt \in Seq(Token) /\ rest \in Seq(Token) /\ draft \in Seq(Token)
         /\ out \in Seq(Token) /\ pend \in Seq(Token) /\ Rows \in Seq(Token)
         /\ Cells(kv) /\ kv[Probe] \in Seq(Token)
         /\ Len(prompt) \in Nat /\ Len(rest) \in Nat /\ Len(out) \in Nat
         /\ Len(pend) \in Nat /\ Len(Rows) \in Nat /\ limit \in Nat /\ limit >= 1
         /\ Len(out) <= limit /\ pads \in Nat /\ (method # "batch" => pads = 0)
<1>1. TypeOK /\ Rows \in Seq(Token) /\ pads \in 0 .. MaxPad /\ limit >= 1
      /\ (method # "batch" => pads = 0)
  BY DEF TInv
<1>2. MaxPad \in Nat /\ MaxTokens \in Nat
  BY LoopsAssumption, GenerationAssumption
<1>3. /\ prompt \in Seq(Token) /\ rest \in Seq(Token) /\ draft \in Seq(Token)
      /\ out \in Seq(Token) /\ pend \in Seq(Token) /\ limit \in 0 .. MaxTokens
      /\ Len(out) <= limit
  BY <1>1 DEF TypeOK
<1>4. Cells(kv)
  BY <1>1 DEF TypeOK, Cells, Row
<1>5. kv[Probe] \in Seq(Token)
  BY <1>1 DEF Rows
<1>6. Len(prompt) \in Nat /\ Len(rest) \in Nat /\ Len(out) \in Nat
  BY <1>3
<1>7. Len(pend) \in Nat /\ Len(Rows) \in Nat
  BY <1>1, <1>3
<1>8. limit \in Nat /\ pads \in Nat
  BY <1>1, <1>2, <1>3
<1> QED BY <1>1, <1>3, <1>4, <1>5, <1>6, <1>7, <1>8

\* A window of what is left of the prompt.
LEMMA WindowTypes ==
  ASSUME TInv, at = "prefill", NEW n \in 1 .. Len(rest),
         kv' = Fed(SubSeq(rest, 1, n)), rest' = SubSeq(rest, n + 1, Len(rest))
  PROVE  /\ SubSeq(rest, 1, n) \in Seq(Token) /\ Len(SubSeq(rest, 1, n)) = n
         /\ rest' \in Seq(Token) /\ Cells(kv') /\ kv'[Probe] \in Seq(Token)
         /\ Len(kv'[Probe]) + Len(rest') = pads + Len(prompt)
         /\ rest' = <<>> => Len(kv'[Probe]) = pads + Len(prompt)
<1>1. /\ TypeOK /\ rest \in Seq(Token) /\ Rows \in Seq(Token)
      /\ Len(rest) \in Nat /\ Len(Rows) \in Nat /\ Len(prompt) \in Nat /\ pads \in Nat
  BY Parts
<1>2. Len(Rows) + Len(rest) = pads + Len(prompt)
  BY DEF TInv, Starting
<1>3. n \in 0 .. Len(rest) /\ n \in Nat
  BY <1>1
<1>4. SubSeq(rest, 1, n) \in Seq(Token) /\ Len(SubSeq(rest, 1, n)) = n
  BY <1>1, <1>3, Cut
<1>5. rest' \in Seq(Token) /\ Len(rest') = Len(rest) - n
  BY <1>1, <1>3, CutApart
<1>6. PICK w : w = SubSeq(rest, 1, n)
  OBVIOUS
<1>7. PICK r : r = kv'[Probe]
  OBVIOUS
<1>8. /\ Cells(kv') /\ r \in Seq(Token) /\ Len(r) = Len(Rows) + n
  BY <1>1, <1>4, <1>6, <1>7, FedRows
<1>9. PICK u : u = rest'
  OBVIOUS
<1>10. /\ Len(r) + Len(u) = pads + Len(prompt)
       /\ u = <<>> => Len(r) = pads + Len(prompt)
  <2>1. Len(u) = Len(rest) - n
    BY <1>5, <1>9
  <2>2. Len(r) + Len(u) = pads + Len(prompt) /\ Len(r) \in Nat
    BY ONLY <1>1, <1>2, <1>3, <1>8, <2>1
  <2>3. u = <<>> => Len(u) = 0
    OBVIOUS
  <2> QED BY ONLY <1>1, <2>2, <2>3
<1> QED BY <1>4, <1>5, <1>7, <1>8, <1>9, <1>10

LEMMA PrefillTypes ==
  ASSUME Oracle, TInv, Prefill, UNCHANGED <<lookup, pads>>
  PROVE  TInv'
<1>1. PICK n : n = PrefillRows
  OBVIOUS
<1>2. PICK w : w = SubSeq(rest, 1, n)
  OBVIOUS
<1>3. /\ at = "prefill" /\ method # "batch" /\ kv' = Fed(w)
      /\ rest' = SubSeq(rest, n + 1, Len(rest)) /\ UNCHANGED <<call, out, adapt>>
  BY <1>1, <1>2 DEF Prefill
<1>4. out = <<>> /\ pend = <<>> /\ rest # <<>>
  BY <1>3 DEF TInv, Starting
<1>5. n \in 1 .. Len(rest)
  <2>1. Len(rest) \in Nat \ {0} /\ Chunk \in Nat \ {0}
    BY <1>4, Parts, EmptySeq, GenerationAssumption
  <2> QED BY <1>1, <2>1 DEF PrefillRows, Lesser
<1>6. /\ w \in Seq(Token) /\ Len(w) = n
      /\ rest' \in Seq(Token) /\ Cells(kv') /\ kv'[Probe] \in Seq(Token)
      /\ Len(kv'[Probe]) + Len(rest') = pads + Len(prompt)
      /\ rest' = <<>> => Len(kv'[Probe]) = pads + Len(prompt)
  BY <1>2, <1>3, <1>5, WindowTypes
<1>7. /\ prompt' = prompt /\ limit' = limit /\ method' = method /\ pads' = pads
      /\ out' = out /\ Rows' = kv'[Probe]
  BY <1>3 DEF call, Rows
<1>8. UNCHANGED <<call, adapt, lookup, pads>> /\ out' \in Seq(Token) /\ Len(out') <= limit
  BY <1>3, <1>7, Parts
<1>9. CASE rest' # <<>>
  <2>1. draft' = draft /\ pend' = pend /\ at' = at
    BY <1>1, <1>3, <1>9 DEF Prefill
  <2>2. draft' \in Seq(Token) /\ pend' \in Seq(Token)
    BY <2>1, Parts
  <2>3. Starting'
    BY <1>4, <1>6, <1>7, <1>9, <2>1 DEF Starting
  <2>4. Speaking' /\ Riding' /\ Over'
    BY <1>3, <2>1 DEF Speaking, Riding, Over
  <2> QED BY <1>3, <1>6, <1>8, <2>1, <2>2, <2>3, <2>4, StepTypes
<1>10. CASE rest' = <<>>
  <2>1. PICK targ : targ \in Targets(w) /\ pend' = <<Last(targ)>>
    BY <1>1, <1>2, <1>3, <1>10 DEF Prefill
  <2>2. draft' = prompt /\ at' = "emit"
    BY <1>1, <1>3, <1>10 DEF Prefill
  <2>3. PICK t : t = Last(targ)
    OBVIOUS
  <2>4. t \in Token
    <3>1. targ \in Seq(Token) /\ Len(targ) = Len(w)
      BY <1>6, <2>1, Parts, TargetTokens
    <3>2. Len(targ) # 0
      BY <1>5, <1>6, <3>1
    <3>3. targ # <<>>
      BY <3>2
    <3> QED BY <2>3, <3>1, <3>3, LastToken
  <2>5. pend' \in Seq(Token) /\ pend' # <<>> /\ Len(pend') = 1
    BY <2>1, <2>3, <2>4
  <2>6. draft' \in Seq(Token) /\ Len(prompt) \in Nat /\ pads = 0
    BY <1>3, <2>2, Parts
  <2>7. Len(kv'[Probe]) = Len(prompt)
    <3>1. Len(kv'[Probe]) = 0 + Len(prompt)
      BY <1>6, <1>10, <2>6
    <3> QED BY <2>6, <3>1
  <2>8. Speaking'
    <3>1. Len(out) = 0 /\ limit \in Nat /\ limit >= 1
      BY <1>4, Parts
    <3>2. Len(out) < limit
      BY <3>1
    <3>3. Len(kv'[Probe]) + 1 = Len(prompt) + Len(out) + Len(pend')
      BY <2>5, <2>6, <2>7, <3>1
    <3>4. (at = "emit" => pend # <<>> /\ Len(out) < limit)'
      BY <1>7, <2>5, <3>2
    <3>5. (method = "stream" => Len(pend) = IF at = "emit" THEN 1 ELSE 0)'
      BY <2>2, <2>5
    <3>6. (method = "mtp" => Len(draft) = Len(Rows))'
      BY <1>7, <2>2, <2>7
    <3>7. (method = "tree" => Len(Rows) + 1 = Len(prompt) + Len(out) + Len(pend))'
      BY <1>7, <3>3
    <3> QED BY <1>3, <1>7, <2>2, <3>4, <3>5, <3>6, <3>7 DEF Speaking
  <2>9. Starting' /\ Riding' /\ Over'
    BY <2>2 DEF Starting, Riding, Over
  <2> QED BY <1>6, <1>8, <2>2, <2>5, <2>6, <2>8, <2>9, StepTypes
<1> QED BY <1>9, <1>10

LEMMA EmitTypes ==
  ASSUME TInv, Emit, UNCHANGED <<lookup, pads>>
  PROVE  TInv'
<1>1. /\ pend # <<>> /\ at \in {"emit", "yielded"} /\ at' = "yielded"
      /\ out' = Append(out, Head(pend)) /\ pend' = Tail(pend)
      /\ UNCHANGED <<call, rest, caches, adapt>>
      /\ at = "emit" \/ (at = "yielded" /\ ~Returns)
  BY DEF Emit
<1>2. /\ method # "batch"
      /\ at = "emit" => pend # <<>> /\ Len(out) < limit
      /\ method = "stream" => Len(pend) = IF at = "emit" THEN 1 ELSE 0
      /\ method = "mtp" => Len(draft) = Len(Rows)
      /\ method = "tree" => Len(Rows) + 1 = Len(prompt) + Len(out) + Len(pend)
  BY <1>1 DEF TInv, Speaking
<1>3. /\ out \in Seq(Token) /\ pend \in Seq(Token) /\ Len(out) \in Nat
      /\ Len(pend) \in Nat /\ limit \in Nat /\ Len(prompt) \in Nat /\ Len(Rows) \in Nat
  BY Parts
<1>4. PICK t : t = Head(pend)
  OBVIOUS
<1>5. PICK q : q = Tail(pend)
  OBVIOUS
<1>6. t \in Token /\ q \in Seq(Token) /\ Len(q) = Len(pend) - 1
  BY <1>1, <1>3, <1>4, <1>5, HeadTailProperties
<1>7. Append(out, t) \in Seq(Token) /\ Len(Append(out, t)) = Len(out) + 1
      /\ Append(out, t) # <<>>
  BY <1>3, <1>6, AppendProperties
<1>8. Len(pend) # 0
  BY <1>1, <1>3, EmptySeq
<1>9. Len(out) < limit
  <2>1. CASE at = "emit"
    BY <1>2, <2>1
  <2>2. CASE at = "yielded"
    <3>1. ~Returns /\ method # "stream"
      BY <1>1, <1>2, <1>8, <2>2
    <3> QED BY <1>3, <3>1 DEF Returns
  <2> QED BY <1>1, <2>1, <2>2
<1>10. /\ prompt' = prompt /\ limit' = limit /\ method' = method /\ rest' = rest
       /\ kv' = kv /\ draft' = draft /\ Rows' = Rows
  BY <1>1 DEF call, caches, Rows
<1>11. out' \in Seq(Token) /\ Len(out') = Len(out) + 1 /\ out' # <<>>
       /\ pend' \in Seq(Token) /\ Len(pend') = Len(pend) - 1
  BY <1>1, <1>4, <1>5, <1>6, <1>7
<1>12. Len(out') <= limit /\ Len(out') + Len(pend') = Len(out) + Len(pend)
  BY <1>3, <1>9, <1>11
<1>13. Speaking'
  <2>1. (method = "stream" => Len(pend) = IF at = "emit" THEN 1 ELSE 0)'
    <3> SUFFICES ASSUME method = "stream" PROVE Len(pend') = 0
      BY <1>1, <1>10
    <3>1. Len(pend) = 1
      BY <1>2, <1>8
    <3> QED BY <1>11, <3>1
  <2>2. (method = "tree" => Len(Rows) + 1 = Len(prompt) + Len(out) + Len(pend))'
    <3> SUFFICES ASSUME method = "tree"
                 PROVE  Len(Rows) + 1 = Len(prompt) + Len(out') + Len(pend')
      BY <1>10
    <3>1. Len(Rows) + 1 = Len(prompt) + Len(out) + Len(pend)
      BY <1>2
    <3>2. Len(out') = Len(out) + 1 /\ Len(pend') = Len(pend) - 1
      BY <1>11
    <3> QED BY ONLY <1>3, <3>1, <3>2
  <2> QED BY <1>1, <1>2, <1>10, <1>11, <2>1, <2>2 DEF Speaking
<1>14. Starting' /\ Riding' /\ Over'
  BY <1>1 DEF Starting, Riding, Over
<1>15. rest' \in Seq(Token) /\ draft' \in Seq(Token) /\ Cells(kv') /\ kv'[Probe] \in Seq(Token)
  BY <1>10, Parts
<1>16. UNCHANGED <<call, adapt, lookup, pads>>
  BY <1>1
<1> QED BY <1>1, <1>11, <1>12, <1>13, <1>14, <1>15, <1>16, StepTypes

LEMMA ReturnTypes ==
  ASSUME TInv, Return, UNCHANGED <<lookup, pads>>
  PROVE  TInv'
<1>1. /\ at = "yielded" /\ Returns /\ at' = "done"
      /\ UNCHANGED <<call, rest, caches, out, pend, adapt>>
  BY DEF Return
<1>2. /\ prompt' = prompt /\ limit' = limit /\ method' = method /\ rest' = rest
      /\ kv' = kv /\ draft' = draft /\ out' = out /\ pend' = pend
  BY <1>1 DEF call, caches
<1>3. Over'
  <2>1. out # <<>> /\ Len(out) \in Nat /\ limit \in Nat /\ Len(out) <= limit
    BY <1>1, Parts DEF TInv, Speaking
  <2>2. Len(out) = limit \/ Last(out) = Eos
    BY <1>1, <2>1 DEF Returns
  <2> QED BY <1>2, <2>1, <2>2 DEF Over
<1>4. Starting' /\ Speaking' /\ Riding'
  BY <1>1 DEF Starting, Speaking, Riding
<1>5. /\ rest' \in Seq(Token) /\ draft' \in Seq(Token) /\ out' \in Seq(Token)
      /\ Len(out') <= limit /\ pend' \in Seq(Token) /\ Cells(kv') /\ kv'[Probe] \in Seq(Token)
  BY <1>2, Parts
<1>6. UNCHANGED <<call, adapt, lookup, pads>>
  BY <1>1
<1> QED BY <1>1, <1>3, <1>4, <1>5, <1>6, StepTypes

LEMMA StreamTypes ==
  ASSUME Oracle, TInv, StreamStep, UNCHANGED <<lookup, pads>>
  PROVE  TInv'
<1>1. PICK x : x = <<Last(out)>>
  OBVIOUS
<1>2. /\ at = "yielded" /\ method = "stream" /\ kv' = Fed(x)
      /\ UNCHANGED <<call, rest, draft, out, adapt>>
  BY <1>1 DEF StreamStep
<1>3. x \in Seq(Token) /\ Len(x) = 1
  BY <1>1, <1>2, AtYield
<1>4. Cells(kv') /\ kv'[Probe] \in Seq(Token)
  BY <1>2, <1>3, AtYield, FedRows
<1>5. /\ prompt' = prompt /\ limit' = limit /\ method' = method /\ rest' = rest
      /\ draft' = draft /\ out' = out
  BY <1>2 DEF call
<1>6. /\ rest' \in Seq(Token) /\ draft' \in Seq(Token) /\ out' \in Seq(Token)
      /\ Len(out') <= limit /\ UNCHANGED <<call, adapt, lookup, pads>>
  BY <1>2, <1>5, Parts
<1>7. out # <<>> /\ Len(out) \in Nat /\ limit \in Nat /\ Len(out) <= limit
  BY <1>2, Parts DEF TInv, Speaking
<1>8. CASE Len(out) >= limit
  <2>1. at' = "done" /\ pend' = pend
    BY <1>2, <1>8 DEF StreamStep
  <2>2. Over'
    BY <1>5, <1>7, <1>8 DEF Over
  <2>3. Starting' /\ Speaking' /\ Riding'
    BY <2>1 DEF Starting, Speaking, Riding
  <2>4. pend' \in Seq(Token)
    BY <2>1, Parts
  <2> QED BY <1>4, <1>6, <2>1, <2>2, <2>3, <2>4, StepTypes
<1>9. CASE ~(Len(out) >= limit)
  <2>1. PICK targ : targ \in Targets(x) /\ pend' = targ
    BY <1>1, <1>2, <1>9 DEF StreamStep
  <2>2. at' = "emit"
    BY <1>2, <1>9 DEF StreamStep
  <2>3. pend' \in Seq(Token) /\ Len(pend') = 1
    BY <1>2, <1>3, <2>1, AtYield, TargetTokens
  <2>4. Len(out) < limit /\ pend' # <<>>
    BY <1>7, <1>9, <2>3
  <2>5. Speaking'
    BY <1>2, <1>5, <2>2, <2>3, <2>4 DEF Speaking
  <2>6. Starting' /\ Riding' /\ Over'
    BY <2>2 DEF Starting, Riding, Over
  <2> QED BY <1>4, <1>6, <2>2, <2>3, <2>5, <2>6, StepTypes
<1> QED BY <1>8, <1>9

\* The row's argmax is a token.
LEMMA RowTargetIs ==
  ASSUME Oracle, TInv, NEW x \in Seq(Token)
  PROVE  RowTarget(x) \in Token
<1>1. Rows \in Seq(Token) /\ Len(Rows) \in Nat /\ Len(x) \in Nat /\ pads \in Nat
  BY Parts
<1>2. PICK s : s = Rows \o x
  OBVIOUS
<1>3. s \in Seq(Token) /\ Len(s) = Len(Rows) + Len(x)
  BY <1>1, <1>2, ConcatProperties
<1>4. PICK i : i = pads + 1
  OBVIOUS
<1>5. PICK j : j = Len(Rows) + Len(x)
  OBVIOUS
<1>6. i \in Nat /\ i >= 1 /\ j \in Nat /\ j = Len(s)
  BY <1>1, <1>3, <1>4, <1>5
<1>7. \A y \in i .. j : s[y] \in Token
  <2> SUFFICES ASSUME NEW y \in i .. j PROVE s[y] \in Token
    OBVIOUS
  <2>1. y \in 1 .. Len(s)
    BY <1>6
  <2> QED BY <1>3, <2>1, ElementOfSeq
<1>8. SubSeq(s, i, j) \in Seq(Token)
  BY <1>6, <1>7, SubSeqProperties
<1> QED BY <1>2, <1>4, <1>5, <1>8 DEF RowTarget, Oracle

LEMMA BatchPrefillTypes ==
  ASSUME Oracle, TInv, BatchPrefill
  PROVE  TInv'
<1>1. PICK n : n = Lesser(Chunk, Len(rest))
  OBVIOUS
<1>2. PICK w : w = SubSeq(rest, 1, n)
  OBVIOUS
<1>3. /\ at = "prefill" /\ method = "batch" /\ kv' = Fed(w)
      /\ rest' = SubSeq(rest, n + 1, Len(rest))
      /\ UNCHANGED <<call, draft, out, adapt, lookup, pads>>
  BY <1>1, <1>2 DEF BatchPrefill
<1>4. out = <<>> /\ pend = <<>> /\ rest # <<>>
  BY <1>3 DEF TInv, Starting
<1>5. n \in 1 .. Len(rest)
  <2>1. Len(rest) \in Nat \ {0} /\ Chunk \in Nat \ {0}
    BY <1>4, Parts, EmptySeq, GenerationAssumption
  <2> QED BY <1>1, <2>1 DEF Lesser
<1>6. /\ w \in Seq(Token)
      /\ rest' \in Seq(Token) /\ Cells(kv') /\ kv'[Probe] \in Seq(Token)
      /\ Len(kv'[Probe]) + Len(rest') = pads + Len(prompt)
      /\ rest' = <<>> => Len(kv'[Probe]) = pads + Len(prompt)
  BY <1>2, <1>3, <1>5, WindowTypes
<1>7. /\ prompt' = prompt /\ limit' = limit /\ method' = method /\ pads' = pads
      /\ out' = out /\ draft' = draft /\ Rows' = kv'[Probe]
  BY <1>3 DEF call, Rows
<1>8. /\ UNCHANGED <<call, adapt, lookup, pads>> /\ out' \in Seq(Token)
      /\ Len(out') <= limit /\ draft' \in Seq(Token)
  BY <1>3, <1>7, Parts
<1>9. CASE rest' # <<>>
  <2>1. pend' = pend /\ at' = at
    BY <1>1, <1>3, <1>9 DEF BatchPrefill
  <2>2. pend' \in Seq(Token)
    BY <2>1, Parts
  <2>3. Starting'
    BY <1>4, <1>6, <1>7, <1>9, <2>1 DEF Starting
  <2>4. Speaking' /\ Riding' /\ Over'
    BY <1>3, <2>1 DEF Speaking, Riding, Over
  <2> QED BY <1>3, <1>6, <1>8, <2>1, <2>2, <2>3, <2>4, StepTypes
<1>10. CASE rest' = <<>>
  <2>1. pend' = <<RowTarget(w)>> /\ at' = "step"
    BY <1>1, <1>2, <1>3, <1>10 DEF BatchPrefill
  <2>2. RowTarget(w) \in Token
    BY <1>6, RowTargetIs
  <2>3. pend' \in Seq(Token) /\ Len(pend') = 1
    BY <2>1, <2>2
  <2>4. Riding'
    <3>1. Len(out) = 0 /\ limit \in Nat /\ limit >= 1 /\ pads \in Nat /\ Len(prompt) \in Nat
      BY <1>4, Parts
    <3>2. Len(kv'[Probe]) = pads + Len(prompt)
      BY <1>6, <1>10
    <3>3. PICK r : r = kv'[Probe]
      OBVIOUS
    <3>4. Len(r) = pads + Len(prompt)
      BY <3>2, <3>3
    <3>5. pads + Len(prompt) + Len(out) <= Len(r) /\ Len(r) < pads + Len(prompt) + limit
      BY ONLY <3>1, <3>4
    <3> QED BY <1>3, <1>7, <2>3, <3>3, <3>5 DEF Riding
  <2>5. Starting' /\ Speaking' /\ Over'
    BY <2>1 DEF Starting, Speaking, Over
  <2> QED BY <1>6, <1>8, <2>1, <2>3, <2>4, <2>5, StepTypes
<1> QED BY <1>9, <1>10

LEMMA BatchStepTypes ==
  ASSUME Oracle, TInv, BatchStep
  PROVE  TInv'
<1>1. PICK rode : rode = Len(Rows) - pads - Len(prompt) + 1
  OBVIOUS
<1>2. PICK o : o = out'
  OBVIOUS
<1>3. PICK feed : feed = <<IF o # <<>> /\ Last(o) = Eos THEN Pad ELSE Last(o)>>
  OBVIOUS
<1>4. /\ at = "step" /\ UNCHANGED <<call, rest, draft, adapt, lookup, pads>>
      /\ o = IF out # <<>> /\ Last(out) = Eos THEN out ELSE out \o pend
  BY <1>2 DEF BatchStep
<1>5. \/ at' = "done" /\ pend' = <<>> /\ kv' = kv
      \/ rode >= limit /\ at' = "done" /\ pend' = <<>> /\ kv' = Fed(feed)
      \/ ~(rode >= limit) /\ at' = at /\ pend' = <<RowTarget(feed)>> /\ kv' = Fed(feed)
  BY <1>1, <1>2, <1>3 DEF BatchStep
<1>6. /\ method = "batch" /\ Len(pend) = 1
      /\ pads + Len(prompt) + Len(out) <= Len(Rows)
      /\ Len(Rows) < pads + Len(prompt) + limit
  BY <1>4 DEF TInv, Riding
<1>7. /\ out \in Seq(Token) /\ pend \in Seq(Token) /\ Rows \in Seq(Token)
      /\ Len(prompt) \in Nat /\ Len(out) \in Nat
      /\ Len(Rows) \in Nat /\ limit \in Nat /\ limit >= 1
      /\ Len(out) <= limit /\ pads \in Nat
  BY Parts
<1>8. o \in Seq(Token) /\ Len(o) \in Nat /\ Len(o) <= Len(out) + 1 /\ o # <<>>
  <2>1. CASE out # <<>> /\ Last(out) = Eos
    <3>1. o = out
      BY <1>4, <2>1
    <3> QED BY <1>7, <2>1, <3>1
  <2>2. CASE ~(out # <<>> /\ Last(out) = Eos)
    <3>1. out \o pend \in Seq(Token) /\ Len(out \o pend) = Len(out) + Len(pend)
      BY <1>7, ConcatProperties
    <3>2. o \in Seq(Token) /\ Len(o) = Len(out) + 1
      BY <1>4, <1>6, <2>2, <3>1
    <3>3. Len(o) # 0
      BY <1>7, <3>2
    <3>4. o # <<>>
      BY <3>3
    <3> QED BY <1>7, <3>2, <3>4
  <2> QED BY <2>1, <2>2
<1>9. Len(o) <= limit
  BY ONLY <1>6, <1>7, <1>8
<1>10. feed \in Seq(Token) /\ Len(feed) = 1
  <2>1. Last(o) \in Token /\ Pad \in Token
    BY <1>8, LastToken, LoopsAssumption
  <2> QED BY <1>3, <2>1
<1>11. /\ prompt' = prompt /\ limit' = limit /\ method' = method /\ rest' = rest
       /\ draft' = draft /\ pads' = pads /\ out' = o /\ Rows' = kv'[Probe]
  BY <1>2, <1>4 DEF call, Rows
<1>12. /\ UNCHANGED <<call, adapt, lookup, pads>> /\ rest' \in Seq(Token)
       /\ draft' \in Seq(Token) /\ out' \in Seq(Token) /\ Len(out') <= limit
  BY <1>4, <1>8, <1>9, <1>11, Parts
<1>13. /\ Cells(Fed(feed)) /\ Fed(feed)[Probe] \in Seq(Token)
       /\ Len(Fed(feed)[Probe]) = Len(Rows) + 1
  BY <1>7, <1>10, Parts, FedRows
<1>14. CASE at' = "done" /\ pend' = <<>>
  <2>1. Cells(kv') /\ kv'[Probe] \in Seq(Token)
    <3>1. kv' = kv \/ kv' = Fed(feed)
      BY <1>5
    <3> QED BY <1>13, <3>1, Parts
  <2>2. Over'
    BY <1>6, <1>11 DEF Over
  <2>3. Starting' /\ Speaking' /\ Riding'
    BY <1>14 DEF Starting, Speaking, Riding
  <2>4. pend' \in Seq(Token)
    BY <1>14
  <2> QED BY <1>12, <1>14, <2>1, <2>2, <2>3, <2>4, StepTypes
<1>15. CASE ~(rode >= limit) /\ at' = at /\ pend' = <<RowTarget(feed)>> /\ kv' = Fed(feed)
  <2>1. RowTarget(feed) \in Token
    BY <1>10, RowTargetIs
  <2>2. pend' \in Seq(Token) /\ Len(pend') = 1
    BY <1>15, <2>1
  <2>3. PICK r : r = kv'[Probe]
    OBVIOUS
  <2>4. Len(r) = Len(Rows) + 1
    BY <1>13, <1>15, <2>3
  <2>5. ~(rode >= limit)
    BY <1>15
  <2>6. pads + Len(prompt) + Len(o) <= Len(r) /\ Len(r) < pads + Len(prompt) + limit
    BY ONLY <1>1, <1>6, <1>7, <1>8, <2>4, <2>5
  <2>7. Riding'
    BY <1>6, <1>11, <2>2, <2>3, <2>6 DEF Riding
  <2>8. Starting' /\ Speaking' /\ Over'
    BY <1>4, <1>15 DEF Starting, Speaking, Over
  <2>9. Cells(kv') /\ kv'[Probe] \in Seq(Token)
    BY <1>13, <1>15
  <2> QED BY <1>4, <1>12, <1>15, <2>2, <2>7, <2>8, <2>9, StepTypes
<1> QED BY <1>5, <1>14, <1>15

LEMMA LoopsTypes == ASSUME Oracle, TInv, LoopsNext PROVE TInv'
<1>1. CASE Generate /\ UNCHANGED <<lookup, pads>>
  <2>1. UNCHANGED <<lookup, pads>>
    BY <1>1
  <2>2. Prefill \/ Emit \/ Return \/ StreamStep \/ Round
    BY <1>1 DEF Generate
  <2>3. CASE Prefill
    BY <2>1, <2>3, PrefillTypes
  <2>4. CASE Emit
    BY <2>1, <2>4, EmitTypes
  <2>5. CASE Return
    BY <2>1, <2>5, ReturnTypes
  <2>6. CASE StreamStep
    BY <2>1, <2>6, StreamTypes
  <2>7. CASE Round
    <3>1. PICK q \in Proposals :
            DraftRound(q) \/ NgramRound(q) \/ AdaptiveRound(q) \/ OptimizedRound(q)
      BY <2>7 DEF Round
    <3> QED BY <2>1, <3>1, DraftTypes, NgramTypes, AdaptiveTypes, OptimizedTypes
  <2> QED BY <2>2, <2>3, <2>4, <2>5, <2>6, <2>7
<1>2. CASE LookupRound
  BY <1>2, LookupTypes
<1>3. CASE TreeRound
  BY <1>3, TreeTypes
<1>4. ASSUME NEW q \in Proposals, MtpRound(q) \/ EagleRound(q) PROVE TInv'
  BY <1>4, MtpTypes, EagleTypes
<1>5. CASE BatchPrefill
  BY <1>5, BatchPrefillTypes
<1>6. CASE BatchStep
  BY <1>6, BatchStepTypes
<1> QED BY <1>1, <1>2, <1>3, <1>4, <1>5, <1>6 DEF LoopsNext

LEMMA InitTypes == LoopsInit => TInv
<1> SUFFICES ASSUME LoopsInit PROVE TInv
  OBVIOUS
<1>1. /\ prompt \in Seq(Token) /\ prompt # <<>> /\ limit \in 1 .. MaxTokens
      /\ method \in Methods /\ kv = [l \in Layer |-> <<>>]
      /\ draft = <<>> /\ out = <<>> /\ pend = <<>> /\ k = InitK
      /\ history = <<>> /\ since = 0 /\ at = "prefill" /\ lookup = FreshDrafter
      /\ rest = [i \in 1 .. pads |-> Pad] \o prompt
      /\ pads \in IF method = "batch" THEN 0 .. MaxPad ELSE {0}
  BY GenerationAssumption DEF LoopsInit
<1>2. pads \in 0 .. MaxPad /\ pads \in Nat /\ MaxPad \in Nat /\ Pad \in Token
      /\ (method # "batch" => pads = 0)
  BY <1>1, LoopsAssumption
<1>3. rest \in Seq(Token) /\ Len(rest) = pads + Len(prompt) /\ rest # <<>>
  <2>1. PICK p : p = [i \in 1 .. pads |-> Pad]
    OBVIOUS
  <2>2. p \in Seq(Token) /\ Len(p) = pads
    BY <1>2, <2>1
  <2>3. p \o prompt \in Seq(Token) /\ Len(p \o prompt) = Len(p) + Len(prompt)
    BY <1>1, <2>2, ConcatProperties
  <2>4. Len(prompt) \in Nat \ {0}
    BY <1>1, EmptySeq
  <2>5. Len(rest) # 0
    BY <1>1, <1>2, <2>1, <2>2, <2>3, <2>4
  <2>6. rest # <<>>
    BY <2>5
  <2> QED BY <1>1, <2>1, <2>2, <2>3, <2>6
<1>4. Cells(kv) /\ Rows = <<>>
  BY <1>1, HoldNothing, ProbeIs DEF Rows
<1>5. TypeOK
  <2>1. <<>> \in Seq(Token) /\ <<>> \in Seq(0 .. Scale) /\ Len(<<>>) = 0
    OBVIOUS
  <2>2. limit \in 0 .. MaxTokens /\ 0 <= limit /\ k \in MinK .. MaxK
    BY <1>1, GenerationAssumption
  <2>3. kv \in [Layer -> Seq(Token \cup {Lost})]
    BY <1>4 DEF Cells, Row
  <2> QED BY <1>1, <1>3, <2>1, <2>2, <2>3 DEF TypeOK
<1>6. Drafter(lookup)
  <2>1. /\ {Cap, MinDraft, ReprobeEvery} \subseteq Nat \ {0} /\ MinDraft <= Cap
    BY LoopsAssumption
  <2>2. Cap \in MinDraft .. Cap /\ 0 \in 0 .. ReprobeEvery - 1
    BY <2>1
  <2> QED BY <1>1, <2>1, <2>2 DEF FreshDrafter, Drafter
<1>7. Starting
  <2>1. Len(Rows) = 0 /\ Len(prompt) \in Nat
    BY <1>1, <1>4
  <2>2. 0 + Len(rest) = pads + Len(prompt)
    BY <1>2, <1>3, <2>1
  <2> QED BY <1>1, <1>3, <2>1, <2>2 DEF Starting
<1>8. Speaking /\ Riding /\ Over
  BY <1>1 DEF Speaking, Riding, Over
<1>9. limit >= 1 /\ Rows \in Seq(Token)
  BY <1>1, <1>4, GenerationAssumption
<1> QED BY <1>1, <1>2, <1>5, <1>6, <1>7, <1>8, <1>9 DEF TInv

\* A loop that is left stays as it is, and so does one that nothing resumes.
LEMMA LeftTypes == ASSUME TInv, UNCHANGED done, at' = "over" PROVE TInv'
<1>1. /\ UNCHANGED <<call, adapt, lookup, pads>>
      /\ rest' = rest /\ kv' = kv /\ draft' = draft /\ out' = out /\ pend' = pend
  BY DEF done, caches
<1>2. Starting' /\ Speaking' /\ Riding' /\ Over'
  BY DEF Starting, Speaking, Riding, Over
<1>3. limit' = limit
  BY <1>1 DEF call
<1> QED BY <1>1, <1>2, <1>3, Parts, StepTypes

LEMMA StillTypes == ASSUME TInv, UNCHANGED lvars PROVE TInv'
<1>1. /\ prompt' = prompt /\ limit' = limit /\ method' = method /\ rest' = rest
      /\ kv' = kv /\ draft' = draft /\ k' = k /\ history' = history /\ since' = since
      /\ out' = out /\ pend' = pend /\ at' = at /\ lookup' = lookup /\ pads' = pads
  BY DEF lvars, gvars, call, caches, adapt
<1>2. Rows' = Rows
  BY <1>1 DEF Rows
<1>3. TypeOK'
  BY <1>1 DEF TInv, TypeOK
<1>4. Starting' /\ Speaking'
  BY <1>1, <1>2 DEF TInv, Starting, Speaking
<1>5. Riding' /\ Over'
  BY <1>1, <1>2 DEF TInv, Riding, Over
<1> QED BY <1>1, <1>2, <1>3, <1>4, <1>5 DEF TInv

------------------------------------------------------------------------------
(* The command that runs the loops. *)

\* A step of the command is one of the loop, or lets it be, or leaves it.
LEMMA CliMoves ==
  ASSUME [CliNext]_cvars
  PROVE  LoopsNext \/ UNCHANGED lvars \/ (UNCHANGED done /\ at' = "over")
<1>1. ASSUME UNCHANGED done, at' = at PROVE UNCHANGED lvars
  BY <1>1 DEF done, lvars, gvars
<1>2. CASE RefuseOptions
  BY <1>2 DEF RefuseOptions, Quit
<1>3. CASE OpenEngine
  BY <1>1, <1>3 DEF OpenEngine, Quit, Reach
<1>4. CASE ReadPrompt
  BY <1>1, <1>4 DEF ReadPrompt, Leave, Reach
<1>5. CASE LoadDrafters
  BY <1>1, <1>5 DEF LoadDrafters, Leave, Reach
<1>6. CASE OpenStore
  BY <1>1, <1>6 DEF OpenStore, Leave, Reach
<1>7. CASE Resume
  BY <1>7 DEF Resume
<1>8. CASE PassFails
  BY <1>8 DEF PassFails, Leave
<1>9. CASE EndLoop
  BY <1>9 DEF EndLoop
<1>10. CASE Join
  BY <1>10 DEF Join, Leave
<1>11. CASE Finally
  BY <1>11 DEF Finally
<1>12. CASE PrintToken \/ PrintEnds
  BY <1>12 DEF PrintToken, PrintEnds
<1>13. CASE Library
  BY <1>13 DEF Library
<1>14. CASE UNCHANGED cvars
  BY <1>14 DEF cvars
<1> QED BY <1>2, <1>3, <1>4, <1>5, <1>6, <1>7, <1>8, <1>9, <1>10, <1>11, <1>12,
           <1>13, <1>14 DEF CliNext, Main

LEMMA AlwaysTInv == ASSUME Oracle PROVE CliSpec => []TInv
<1>1. CliInit => TInv
  BY InitTypes DEF CliInit
<1>2. TInv /\ [CliNext]_cvars => TInv'
  BY CliMoves, LoopsTypes, StillTypes, LeftTypes
<1> QED BY <1>1, <1>2, PTL DEF CliSpec

\* Whatever loop runs, with whatever caches, its state has its type: the number of draft
\* tokens keeps to its bounds though the adaptive loop rolls back with the wrong one, no
\* more tokens are yielded than were asked for, by a row of a batch either, and the
\* lookup drafter is disabled, or between its floor and its cap
\* (ngram_drafter.py:59-61, 154-165).
THEOREM LoopsTypeCorrect == ASSUME Oracle PROVE CliSpec => []LoopsTypeOK
BY AlwaysTInv, TInvTypes, PTL

\* What was printed and what is queued is what the loop has yielded.
Printing ==
  \E toks \in Seq(Token) : out = outIds \o toks /\ tokq \in {toks, Append(toks, Stop)}

Before == {"start", "prompt", "drafters", "store"}

\* The loop has ended by itself, and the printer has been told.
Told == stage = "join" \/ (stage \in {"finally", "gone"} /\ code = 0)

CInv ==
  /\ outIds \in Seq(Token) /\ printer \in {"off", "on", "raised", "ended"}
  /\ stage = "library" => tokq = <<>> /\ outIds = <<>>
  /\ stage # "library" => Printing
  /\ stage = "start" => ~engine /\ ~store
  /\ stage \in Before => out = <<>> /\ at = "prefill" /\ tokq = <<>> /\ method # "batch"
  /\ stage = "loop" =>
       tokq \in Seq(Token) /\ printer \in {"on", "raised"} /\ method # "batch"
  /\ printer = "ended" => tokq = <<>>
  /\ Told => printer # "off" /\ (Len(out) = limit \/ Last(out) = Eos)
  /\ stage \in {"finally", "gone"} /\ code = 0 => printer # "on"
  /\ stage = "gone" => ~engine /\ ~store

LEMMA CInvPrinted == ASSUME TInv, CInv PROVE PrintedWhole
<1>1. out \in Seq(Token) /\ outIds \in Seq(Token) /\ Len(out) \in Nat
  BY Parts DEF CInv
<1>2. IsPrefix(outIds, out)
  <2>1. CASE stage = "library"
    <3>1. outIds = <<>> /\ Len(<<>>) = 0
      BY <2>1 DEF CInv
    <3>2. SubSeq(<<>>, 1, 0) = <<>> /\ SubSeq(out, 1, 0) = <<>>
      BY SubSeqEmpty
    <3> QED BY <1>1, <3>1, <3>2 DEF IsPrefix
  <2>2. CASE stage # "library"
    <3>1. PICK toks \in Seq(Token) : out = outIds \o toks
      BY <2>2 DEF CInv, Printing
    <3>2. Len(out) = Len(outIds) + Len(toks) /\ Len(outIds) \in Nat /\ Len(toks) \in Nat
      BY <1>1, <3>1, ConcatProperties
    <3>3. Len(outIds) <= Len(out) /\ Len(outIds) \in 0 .. Len(outIds)
      BY <3>2
    <3>4. SubSeq(out, 1, Len(outIds)) = SubSeq(outIds, 1, Len(outIds))
      BY <1>1, <3>1, <3>3, CutEarlier
    <3> QED BY <3>3, <3>4 DEF IsPrefix
  <2> QED BY <2>1, <2>2
<1>3. ASSUME stage = "gone" PROVE ~engine /\ ~store
  BY <1>3 DEF CInv
<1>4. ASSUME stage = "gone", code = 0, printer # "raised"
      PROVE  outIds = out /\ (Len(out) = limit \/ Last(out) = Eos)
  <2>1. printer = "ended" /\ tokq = <<>> /\ (Len(out) = limit \/ Last(out) = Eos)
    BY <1>4 DEF CInv, Told
  <2>2. PICK toks \in Seq(Token) : out = outIds \o toks /\ tokq \in {toks, Append(toks, Stop)}
    BY <1>4 DEF CInv, Printing
  <2>3. toks = <<>>
    <3> DEFINE U == Token \cup {Stop}
    <3>1. toks \in Seq(U) /\ Stop \in U
      OBVIOUS
    <3>2. Append(toks, Stop) # <<>>
      <4> HIDE DEF U
      <4> QED BY <3>1, AppendProperties
    <3> QED BY <2>1, <2>2, <3>2
  <2> QED BY <1>1, <2>1, <2>2, <2>3, ConcatEmptySeq
<1> QED BY <1>2, <1>3, <1>4 DEF PrintedWhole

\* The generator's next step adds at the end of what it has yielded.
LEMMA Yielded ==
  ASSUME TInv, LoopsNext, method # "batch", NEW y,
         y = SubSeq(out', Len(out) + 1, Len(out'))
  PROVE  y \in Seq(Token) /\ out' = out \o y /\ method' = method /\ limit' = limit
<1>1. /\ out \in Seq(Token) /\ pend \in Seq(Token) /\ Len(out) \in Nat
  BY Parts
<1>2. method' = method /\ limit' = limit /\ (Emit \/ out' = out)
  <2>1. ~BatchPrefill /\ ~BatchStep
    BY DEF BatchPrefill, BatchStep, TInv, Riding
  <2> QED BY <2>1 DEF LoopsNext, Generate, Prefill, Emit, Return, StreamStep, Round,
                   DraftRound, NgramRound, AdaptiveRound, OptimizedRound, LookupRound,
                   TreeRound, MtpRound, EagleRound, call
<1>3. CASE out' = out
  <2>1. Len(out') < Len(out) + 1 /\ Len(out') \in Int /\ Len(out) + 1 \in Int
    BY <1>1, <1>3
  <2>2. y = <<>>
    BY <2>1, SubSeqEmpty
  <2> QED BY <1>1, <1>2, <1>3, <2>2, ConcatEmptySeq
<1>4. CASE Emit
  <2>1. PICK t : t = Head(pend)
    OBVIOUS
  <2>2. pend # <<>> /\ out' = Append(out, t)
    BY <1>4, <2>1 DEF Emit
  <2>3. t \in Token
    BY <1>1, <2>1, <2>2, HeadTailProperties
  <2>4. PICK o : o = Append(out, t)
    OBVIOUS
  <2>5. o = out \o <<t>> /\ <<t>> \in Seq(Token)
    BY <1>1, <2>3, <2>4, AppendIsConcat
  <2>6. o \in Seq(Token) /\ Len(o) = Len(out) + 1 /\ o[Len(out) + 1] = t
    BY <1>1, <2>3, <2>4, AppendProperties
  <2>7. y = <<t>>
    <3>1. PICK i : i = Len(out) + 1
      OBVIOUS
    <3>2. i \in Nat /\ i >= 1 /\ Len(o) = i /\ o[i] = t
      BY <1>1, <2>6, <3>1
    <3>3. y = SubSeq(o, i, i)
      BY <2>2, <2>4, <3>1, <3>2
    <3>4. SubSeq(o, i, i) = SubSeq(o, i, i - 1) \o <<o[i]>>
      <4>1. i \in 1 .. Len(o) /\ i \in i .. Len(o)
        BY <3>2
      <4> QED BY <2>6, <4>1, SubSeqRecursiveSecond
    <3>5. SubSeq(o, i, i - 1) = <<>>
      <4>1. i \in Int /\ i - 1 \in Int /\ i - 1 < i
        BY <3>2
      <4> QED BY <4>1, SubSeqEmpty
    <3>6. <<>> \o <<t>> = <<t>>
      BY <2>5, ConcatEmptySeq
    <3> QED BY <3>2, <3>3, <3>4, <3>5, <3>6
  <2> QED BY <1>2, <2>2, <2>4, <2>5, <2>7
<1> QED BY <1>2, <1>3, <1>4

\* main() up to the loop, or away from it: what was yielded and queued stays.
LEMMA MainKeeps ==
  ASSUME CInv, UNCHANGED <<done, tokq, outIds>>, stage # "library", stage' # "library"
  PROVE  /\ outIds' \in Seq(Token) /\ Printing' /\ out' = out /\ tokq' = tokq
         /\ method' = method /\ limit' = limit
<1>1. out' = out /\ tokq' = tokq /\ outIds' = outIds /\ method' = method /\ limit' = limit
  BY DEF done, call
<1>2. Printing /\ outIds \in Seq(Token)
  BY DEF CInv
<1>3. Printing'
  BY <1>1, <1>2 DEF Printing
<1> QED BY <1>1, <1>2, <1>3

LEMMA OpeningKeeps ==
  ASSUME CInv, RefuseOptions \/ OpenEngine \/ ReadPrompt \/ LoadDrafters \/ OpenStore
  PROVE  CInv'
<1>1. /\ stage \in Before /\ UNCHANGED <<done, tokq, outIds>>
      /\ stage' \in {"prompt", "drafters", "store", "loop", "finally", "gone"}
  BY DEF RefuseOptions, OpenEngine, ReadPrompt, LoadDrafters, OpenStore, Quit, Leave,
         Reach, Before, printVars
<1>2. /\ out = <<>> /\ at = "prefill" /\ tokq = <<>> /\ method # "batch"
      /\ printer \in {"off", "on", "raised", "ended"}
      /\ stage = "start" => ~engine /\ ~store
  BY <1>1 DEF CInv
<1>3. /\ outIds' \in Seq(Token) /\ Printing' /\ out' = out /\ tokq' = tokq
      /\ method' = method /\ limit' = limit
  <2>1. stage # "library" /\ stage' # "library"
    BY <1>1 DEF Before
  <2> QED BY <1>1, <2>1, MainKeeps
<1>4. stage' \in Before => at' = at
  BY DEF RefuseOptions, OpenEngine, ReadPrompt, LoadDrafters, OpenStore, Quit, Leave,
         Reach, Before
<1>5. stage' \in {"finally", "gone"} => code' # 0
  BY DEF RefuseOptions, OpenEngine, ReadPrompt, LoadDrafters, OpenStore, Quit, Leave, Reach
<1>6. stage' = "gone" => ~engine' /\ ~store'
  BY <1>2 DEF RefuseOptions, OpenEngine, ReadPrompt, LoadDrafters, OpenStore, Quit, Leave,
              Reach
<1>7. stage' = "loop" => printer' = "on"
  BY DEF RefuseOptions, OpenEngine, ReadPrompt, LoadDrafters, OpenStore, Quit, Leave, Reach
<1>8. printer' \in {"off", "on", "raised", "ended"}
  BY <1>2 DEF RefuseOptions, OpenEngine, ReadPrompt, LoadDrafters, OpenStore, printVars
<1>9. stage' # "start" /\ ~Told'
  BY <1>1, <1>5 DEF Told
<1>10. tokq' = <<>> /\ tokq' \in Seq(Token)
  BY <1>2, <1>3
<1> QED BY <1>1, <1>2, <1>3, <1>4, <1>5, <1>6, <1>7, <1>8, <1>9, <1>10 DEF CInv

LEMMA ResumeKeeps == ASSUME TInv, CInv, Resume PROVE CInv'
<1>1. PICK y : y = SubSeq(out', Len(out) + 1, Len(out'))
  OBVIOUS
<1>2. /\ stage = "loop" /\ LoopsNext /\ tokq' = tokq \o y
      /\ stage' = stage /\ code' = code /\ engine' = engine /\ store' = store
      /\ outIds' = outIds /\ printer' = printer
  BY <1>1 DEF Resume, mainVars
<1>3. /\ tokq \in Seq(Token) /\ printer \in {"on", "raised"} /\ method # "batch"
      /\ outIds \in Seq(Token) /\ Printing
  BY <1>2 DEF CInv
<1>4. y \in Seq(Token) /\ out' = out \o y /\ method' = method
  BY <1>1, <1>2, <1>3, Yielded
<1>5. PICK toks \in Seq(Token) : out = outIds \o toks /\ tokq \in {toks, Append(toks, Stop)}
  BY <1>3 DEF Printing
<1>6. tokq = toks
  <2> DEFINE U == Token \cup {Stop}
  <2>1. toks \in Seq(U) /\ Stop \in U
    OBVIOUS
  <2>2. PICK q : q = Append(toks, Stop)
    OBVIOUS
  <2>3. q[Len(toks) + 1] = Stop /\ Len(q) = Len(toks) + 1
    <3> HIDE DEF U
    <3> QED BY <2>1, <2>2, AppendProperties
  <2>4. q \notin Seq(Token)
    <3> SUFFICES ASSUME q \in Seq(Token) PROVE FALSE
      OBVIOUS
    <3>1. Len(toks) \in Nat
      BY <1>5
    <3>2. Len(q) \in 1 .. Len(q)
      BY <2>3, <3>1
    <3>3. q[Len(q)] \in Token
      BY <3>2, ElementOfSeq
    <3> QED BY <2>3, <3>3, CliAssumption
  <2> QED BY <1>3, <1>5, <2>2, <2>4
<1>7. PICK q : q = toks \o y
  OBVIOUS
<1>8. q \in Seq(Token) /\ tokq' = q /\ out' = outIds' \o q
  <2>1. q \in Seq(Token)
    BY <1>4, <1>7, ConcatProperties
  <2>2. Regroups(outIds, toks, y)
    BY <1>3, <1>4, Regroup
  <2> QED BY <1>2, <1>4, <1>5, <1>6, <1>7, <2>1, <2>2 DEF Regroups
<1>9. Printing'
  BY <1>8 DEF Printing
<1> QED BY <1>2, <1>3, <1>4, <1>8, <1>9 DEF CInv, Before, Told

LEMMA EndLoopKeeps == ASSUME TInv, CInv, EndLoop PROVE CInv'
<1>1. /\ stage = "loop" /\ stage' = "join" /\ tokq' = Append(tokq, Stop)
      /\ AtEos \/ at = "done"
      /\ UNCHANGED <<done, code, engine, store, outIds, printer>>
  BY DEF EndLoop
<1>2. /\ tokq \in Seq(Token) /\ printer \in {"on", "raised"} /\ method # "batch"
      /\ outIds \in Seq(Token) /\ Printing
  BY <1>1 DEF CInv
<1>3. out' = out /\ limit' = limit /\ outIds' = outIds /\ printer' = printer
  BY <1>1 DEF done, call
<1>4. Len(out) = limit \/ Last(out) = Eos
  BY <1>1, <1>2 DEF AtEos, TInv, Over
<1>5. PICK toks \in Seq(Token) : out = outIds \o toks /\ tokq \in {toks, Append(toks, Stop)}
  BY <1>2 DEF Printing
<1>6. tokq = toks
  <2>1. ASSUME tokq = Append(toks, Stop) PROVE FALSE
    <3> DEFINE U == Token \cup {Stop}
    <3>1. toks \in Seq(U) /\ Stop \in U /\ Len(toks) \in Nat
      BY <1>5
    <3>2. tokq[Len(toks) + 1] = Stop /\ Len(tokq) = Len(toks) + 1
      <4> HIDE DEF U
      <4> QED BY <2>1, <3>1, AppendProperties
    <3>3. Len(toks) + 1 \in 1 .. Len(tokq)
      BY <3>1, <3>2
    <3>4. tokq[Len(toks) + 1] \in Token
      BY <1>2, <3>3, ElementOfSeq
    <3> QED BY <3>2, <3>4, CliAssumption
  <2> QED BY <1>5, <2>1
<1>7. Printing'
  BY <1>1, <1>3, <1>5, <1>6 DEF Printing
<1> QED BY <1>1, <1>2, <1>3, <1>4, <1>7 DEF CInv, Before, Told

LEMMA LeavingKeeps == ASSUME CInv, PassFails \/ Join \/ Finally PROVE CInv'
<1>1. CASE PassFails
  <2>1. /\ stage = "loop" /\ stage' = "finally" /\ code' = 2
        /\ UNCHANGED <<done, tokq, outIds, printer, engine, store>>
    BY <1>1 DEF PassFails, Leave, printVars
  <2>2. outIds' \in Seq(Token) /\ Printing' /\ tokq' = tokq
    BY <2>1, MainKeeps
  <2> QED BY <2>1, <2>2 DEF CInv, Before, Told
<1>2. CASE Join
  <2>1. /\ stage = "join" /\ printer # "on" /\ stage' = "finally" /\ code' \in {0, 2}
        /\ UNCHANGED <<done, tokq, outIds, printer, engine, store>>
    BY <1>2 DEF Join, Leave, printVars
  <2>2. /\ outIds' \in Seq(Token) /\ Printing' /\ tokq' = tokq /\ out' = out
        /\ limit' = limit
    BY <2>1, MainKeeps
  <2> QED BY <2>1, <2>2 DEF CInv, Before, Told
<1>3. CASE Finally
  <2>1. /\ stage = "finally" /\ stage' = "gone" /\ ~engine' /\ ~store' /\ code' = code
        /\ UNCHANGED <<lvars, tokq, outIds, printer>>
    BY <1>3 DEF Finally, printVars
  <2>2. UNCHANGED done
    BY <2>1 DEF lvars, gvars, done
  <2>3. /\ outIds' \in Seq(Token) /\ Printing' /\ tokq' = tokq /\ out' = out
        /\ limit' = limit
    BY <2>1, <2>2, MainKeeps
  <2> QED BY <2>1, <2>3 DEF CInv, Before, Told
<1> QED BY <1>1, <1>2, <1>3

\* The printer takes the next token, or the end.
LEMMA PrinterKeeps == ASSUME CInv, PrintToken \/ PrintEnds PROVE CInv'
<1>1. /\ printer = "on" /\ stage # "gone" /\ tokq # <<>> /\ tokq' = Tail(tokq)
      /\ UNCHANGED <<lvars, mainVars>>
  BY DEF PrintToken, PrintEnds
<1>2. /\ out' = out /\ limit' = limit /\ method' = method /\ at' = at /\ stage' = stage
      /\ code' = code /\ engine' = engine /\ store' = store
  BY <1>1 DEF lvars, gvars, call, mainVars
<1>3. /\ stage # "library" /\ stage \notin Before /\ Printing /\ outIds \in Seq(Token)
  BY <1>1 DEF CInv
<1>4. PICK toks \in Seq(Token) : out = outIds \o toks /\ tokq \in {toks, Append(toks, Stop)}
  BY <1>3 DEF Printing
<1>5. PICK h : h = Head(tokq)
  OBVIOUS
<1>6. PICK u : u = Tail(toks)
  OBVIOUS
<1>7. /\ Head(Append(toks, Stop)) = IF toks = <<>> THEN Stop ELSE Head(toks)
      /\ Tail(Append(toks, Stop)) = IF toks = <<>> THEN <<>> ELSE Append(u, Stop)
  BY <1>6, HeadTailAppend
<1>8. toks # <<>> => Head(toks) \in Token /\ u \in Seq(Token)
  BY <1>6, HeadTailProperties
<1>9. CASE PrintToken
  <2>1. /\ h # Stop /\ outIds' = Append(outIds, h)
        /\ printer' = printer \/ printer' = "raised"
    BY <1>5, <1>9 DEF PrintToken
  <2>2. toks # <<>> /\ h = Head(toks)
    BY <1>1, <1>4, <1>5, <1>7, <2>1
  <2>3. h \in Token /\ u \in Seq(Token) /\ tokq' \in {u, Append(u, Stop)}
    BY <1>1, <1>4, <1>6, <1>7, <1>8, <2>2
  <2>4. PICK o : o = Append(outIds, h)
    OBVIOUS
  <2>5. o \in Seq(Token) /\ o = outIds \o <<h>> /\ <<h>> \in Seq(Token)
    BY <1>3, <2>3, <2>4, AppendProperties, AppendIsConcat
  <2>6. toks = <<h>> \o u
    <3>1. Len(toks) \in Nat \ {0}
      BY <2>2, EmptySeq
    <3>2. 1 \in 1 .. Len(toks) /\ Len(toks) \in 1 .. Len(toks)
      BY <3>1
    <3>3. SubSeq(toks, 1, Len(toks)) = <<toks[1]>> \o SubSeq(toks, 1 + 1, Len(toks))
      BY <3>2, SubSeqRecursiveFirst
    <3>4. SubSeq(toks, 1, Len(toks)) = toks /\ u = SubSeq(toks, 2, Len(toks))
      BY <1>6, <2>2, SubSeqFull, TailIsSubSeq
    <3>5. h = toks[1]
      BY <2>2, <3>1
    <3> QED BY <3>3, <3>4, <3>5
  <2>7. out = o \o u
    <3>1. Regroups(outIds, <<h>>, u)
      BY <1>3, <2>3, <2>5, Regroup
    <3> QED BY <1>4, <2>5, <2>6, <3>1 DEF Regroups
  <2>8. Printing'
    BY <1>2, <2>1, <2>3, <2>4, <2>7 DEF Printing
  <2>9. tokq \in Seq(Token) => tokq' \in Seq(Token)
    BY <1>1, HeadTailProperties
  <2>10. printer' \in {"on", "raised"} /\ outIds' \in Seq(Token)
    BY <1>1, <2>1, <2>4, <2>5
  <2> QED BY <1>1, <1>2, <1>3, <2>8, <2>9, <2>10 DEF CInv, Told
<1>10. CASE PrintEnds
  <2>1. h = Stop /\ outIds' = outIds /\ printer' = "ended"
    BY <1>5, <1>10 DEF PrintEnds
  <2>2. Stop \notin Token
    BY CliAssumption
  <2>3. toks = <<>> /\ tokq = Append(toks, Stop)
    <3>1. tokq = toks => h \in Token
      BY <1>1, <1>5, <1>8
    <3>2. tokq = Append(toks, Stop)
      BY <1>4, <2>1, <2>2, <3>1
    <3>3. toks # <<>> => h \in Token
      BY <1>5, <1>7, <1>8, <3>2
    <3> QED BY <2>1, <2>2, <3>2, <3>3
  <2>4. tokq' = <<>>
    BY <1>1, <1>7, <2>3
  <2>5. Printing'
    BY <1>2, <1>4, <2>1, <2>3, <2>4 DEF Printing
  <2>6. stage # "loop"
    <3>1. h \notin Token
      BY <2>1, <2>2
    <3>2. tokq \notin Seq(Token)
      BY <1>1, <1>5, <3>1, HeadTailProperties
    <3> QED BY <3>2 DEF CInv
  <2> QED BY <1>1, <1>2, <1>3, <2>1, <2>4, <2>5, <2>6 DEF CInv, Told
<1> QED BY <1>9, <1>10

LEMMA NextCInv == ASSUME TInv, CInv, [CliNext]_cvars PROVE CInv'
<1>1. CASE Library
  <2>1. stage = "library" /\ UNCHANGED <<mainVars, printVars>>
    BY <1>1 DEF Library
  <2>2. /\ stage' = "library" /\ outIds' = outIds /\ tokq' = tokq /\ printer' = printer
    BY <2>1 DEF mainVars, printVars
  <2> QED BY <2>1, <2>2 DEF CInv, Before, Told
<1>2. CASE UNCHANGED cvars
  <2>1. /\ out' = out /\ limit' = limit /\ method' = method /\ at' = at /\ stage' = stage
        /\ code' = code /\ engine' = engine /\ store' = store
        /\ tokq' = tokq /\ outIds' = outIds /\ printer' = printer
    BY <1>2 DEF cvars, lvars, gvars, call, mainVars, printVars
  <2>2. Printing => Printing'
    BY <2>1 DEF Printing
  <2> QED BY <2>1, <2>2 DEF CInv, Told
<1> QED BY <1>1, <1>2, OpeningKeeps, ResumeKeeps, EndLoopKeeps, LeavingKeeps, PrinterKeeps
           DEF CliNext, Main

LEMMA InitCInv == CliInit => CInv
<1> SUFFICES ASSUME CliInit PROVE CInv
  OBVIOUS
<1>1. /\ out = <<>> /\ at = "prefill" /\ tokq = <<>> /\ outIds = <<>> /\ printer = "off"
      /\ ~engine /\ ~store /\ stage \in {"start", "library"}
  BY DEF CliInit, LoopsInit
<1>2. stage = "start" => method # "batch"
  <2> SUFFICES ASSUME stage = "start" PROVE method # "batch"
    OBVIOUS
  <2>1. args \in Command /\ method = LoopOf(args)
    BY CliAssumption DEF CliInit
  <2> QED BY <2>1 DEF LoopOf, Command
<1>3. <<>> \in Seq(Token) /\ <<>> = <<>> \o <<>>
  BY ConcatEmptySeq
<1>4. Printing
  BY <1>1, <1>3 DEF Printing
<1> QED BY <1>1, <1>2, <1>3, <1>4 DEF CInv, Told, Before

\* A command that returns 0, whose printer did not raise, has printed all the tokens its
\* loop yielded, and on every way out the engine and the store are closed
\* (cli.py:465-502).
THEOREM PrintsWhole == ASSUME Oracle PROVE CliSpec => []PrintedWhole
<1>1. TInv /\ CInv /\ [CliNext]_cvars => CInv'
  BY NextCInv
<1>2. TInv /\ CInv => PrintedWhole
  BY CInvPrinted
<1> QED BY <1>1, <1>2, InitCInv, AlwaysTInv, PTL DEF CliSpec

------------------------------------------------------------------------------
(* Every loop is greedy decoding.                                             *)

\* The calls the loops are right for: K is not adjusted between the draft and the
\* rollback (finding 2), and a loop that rolls the store itself back has caches that
\* drop nothing.
SoundCall ==
  method # "adaptive" /\ (method \in {"optimized", "mtp", "eagle"} => AllFull)

\* What the MTP assistant and EAGLE work from is what the caches hold.
Trailing == at \in {"emit", "yielded"} /\ method \in {"mtp", "eagle"} => draft = Held

\* A round that feeds only what it keeps.
LEMMA KeptKeeps ==
  ASSUME GInv, Oracle, at = "yielded", pend = <<>>, ~Returns, method \in {"lookup", "tree"},
         NEW q \in Seq(Token), NEW targ, targ \in Targets(Pass(q)),
         NEW m, m = Accepted(q, targ),
         kv' = Fed(SubSeq(Pass(q), 1, m + 1)), pend' = Yields(q, m, targ), at' = "emit",
         UNCHANGED <<call, rest, out>>, UNCHANGED <<draft, adapt>>
  PROVE  GInv'
<1>1. PICK e : e = Yields(q, m, targ)
  OBVIOUS
<1>2. Sound(Whole, q, m, e)
  BY <1>1, RoundGives
<1>3. HoldIn(kv', Whole \o SubSeq(q, 1, m)) /\ Cells(kv')
  BY <1>2, FedAccepted DEF Sound
<1>4. HoldIn(kv', SubSeq(Whole \o e, 1, Len(Whole \o e) - 1))
  BY <1>2, <1>3 DEF Sound
<1>5. /\ draft' \in Seq(Token) /\ k' \in MinK .. MaxK
      /\ history' \in Seq(0 .. Scale) /\ since' \in Nat
  BY DEF GInv, TypeOK, adapt
<1>6. e \in Seq(Token) /\ e # <<>> /\ Follows(method, Whole, e)
  BY <1>2 DEF Sound
<1> QED BY <1>1, <1>3, <1>4, <1>5, <1>6, RoundEnd

\* A round that feeds its whole draft and rolls back what it does not keep.
LEMMA RolledKeeps ==
  ASSUME GInv, Oracle, AllFull, at = "yielded", pend = <<>>, ~Returns,
         method \in {"mtp", "eagle"},
         NEW q \in Seq(Token), NEW targ, targ \in Targets(Pass(q)),
         NEW m, m = Accepted(q, targ),
         kv' = Rolled(Fed(Pass(q)), Len(q) - m), pend' = Yields(q, m, targ), at' = "emit",
         UNCHANGED <<call, rest, out>>, UNCHANGED adapt,
         draft' = Whole \o SubSeq(q, 1, m)
  PROVE  GInv' /\ draft' = Held'
<1>1. PICK e : e = Yields(q, m, targ)
  OBVIOUS
<1>2. Sound(Whole, q, m, e) /\ m \in 0 .. Len(q)
  BY <1>1, RoundGives DEF Sound
<1>3. HoldIn(kv', Whole \o SubSeq(q, 1, m)) /\ Cells(kv')
  BY <1>2, RolledBack
<1>4. HoldIn(kv', SubSeq(Whole \o e, 1, Len(Whole \o e) - 1))
  BY <1>2, <1>3 DEF Sound
<1>5. Whole \in Seq(Token) /\ Whole = prompt \o out
  BY AtRound, WholeEnds
<1>6. draft' \in Seq(Token)
  <2>1. PICK p : p = SubSeq(q, 1, m)
    OBVIOUS
  <2>2. p \in Seq(Token)
    BY <1>2, <2>1, Cut
  <2>3. Whole \o p \in Seq(Token)
    BY <1>5, <2>2, ConcatProperties
  <2> QED BY <2>1, <2>3
<1>7. k' \in MinK .. MaxK /\ history' \in Seq(0 .. Scale) /\ since' \in Nat
  BY DEF GInv, TypeOK, adapt
<1>8. e \in Seq(Token) /\ e # <<>> /\ Follows(method, Whole, e)
  BY <1>2 DEF Sound
<1>9. GInv'
  BY <1>1, <1>3, <1>4, <1>6, <1>7, <1>8, RoundEnd
<1>10. Whole' = Whole \o e
  BY <1>1, <1>5 DEF Whole, call
<1>11. Held' = Whole \o SubSeq(q, 1, m)
  BY <1>2, <1>10 DEF Held, Sound
<1> QED BY <1>9, <1>11

LEMMA LookupKeeps == ASSUME GInv, TInv, Oracle, LookupRound PROVE GInv'
<1>1. /\ at = "yielded" /\ pend = <<>> /\ ~Returns /\ method = "lookup"
      /\ at' = "emit" /\ UNCHANGED <<call, rest, out>> /\ UNCHANGED <<draft, adapt>>
  BY DEF LookupRound, NextRound
<1>2. PICK q : q = Sought
  OBVIOUS
<1>3. PICK targ : /\ targ \in Targets(Pass(q))
                  /\ kv' = Fed(SubSeq(Pass(q), 1, Accepted(q, targ) + 1))
                  /\ pend' = Yields(q, Accepted(q, targ), targ)
  BY <1>2 DEF LookupRound, Pass, Yields, Sought
<1>4. q \in Seq(Token)
  BY <1>1, <1>2, AtYield, SoughtIs
<1> QED BY <1>1, <1>3, <1>4, KeptKeeps

LEMMA TreeKeeps == ASSUME GInv, TInv, Oracle, TreeRound PROVE GInv'
<1>1. /\ at = "yielded" /\ pend = <<>> /\ ~Returns /\ method = "tree"
      /\ at' = "emit" /\ UNCHANGED <<call, rest, out>> /\ UNCHANGED <<draft, adapt>>
  BY DEF TreeRound, NextRound
<1>2. Aligned
  BY <1>1, TreeAligned
<1>3. PICK q \in Seq(Token) : \E targ \in Targets(Pass(q)) :
        /\ Accepted(q, targ) = Len(q)
        /\ kv' = Fed(SubSeq(Pass(q), 1, Len(q) + 1))
        /\ pend' = Yields(q, Len(q), targ)
  BY <1>1, <1>2, AtYield, TreeAsDraft
<1>4. PICK targ \in Targets(Pass(q)) :
        /\ Accepted(q, targ) = Len(q)
        /\ kv' = Fed(SubSeq(Pass(q), 1, Len(q) + 1))
        /\ pend' = Yields(q, Len(q), targ)
  BY <1>3
<1> QED BY <1>1, <1>4, KeptKeeps

\* The states of the pass, up to the last token kept.
LEMMA MtpKeeps ==
  ASSUME GInv, Trailing, Oracle, AllFull, NEW q \in Proposals, MtpRound(q)
  PROVE  GInv' /\ draft' = Held'
<1>1. /\ at = "yielded" /\ pend = <<>> /\ ~Returns /\ method = "mtp"
      /\ at' = "emit" /\ UNCHANGED <<call, rest, out>> /\ UNCHANGED adapt /\ Len(q) = k
  BY DEF MtpRound, NextRound
<1>2. PICK targ : /\ targ \in Targets(Pass(q))
                  /\ kv' = Rolled(Fed(Pass(q)), Len(q) - Accepted(q, targ))
                  /\ draft' = SubSeq(Rows \o Pass(q), 1, Len(draft) + Accepted(q, targ) + 1)
                  /\ pend' = Yields(q, Accepted(q, targ), targ)
  BY <1>1 DEF MtpRound, Pass, Yields
<1>3. q \in Seq(Token)
  BY ProposalIs
<1>4. PICK m \in 0 .. Len(q) : m = Accepted(q, targ)
  BY <1>3, AcceptedIs
<1>5. PICK h : h = Held
  OBVIOUS
<1>6. /\ Whole \in Seq(Token) /\ Whole # <<>> /\ Last(out) = Whole[Len(Whole)]
      /\ HoldIn(kv, h) /\ h = SubSeq(Whole, 1, Len(Whole) - 1) /\ draft = h
  BY <1>1, <1>5, AtRound DEF Held, Trailing
<1>7. PICK b : b = <<Last(out)>>
  OBVIOUS
<1>8. h \in Seq(Token) /\ b \in Seq(Token) /\ h \o b = Whole /\ Len(h) = Len(Whole) - 1
  BY <1>6, <1>7, FrontLast
<1>9. Rows = h
  BY <1>6, <1>8, RowsAre
<1>10. Rows \o Pass(q) = Whole \o q
  <2>1. Regroups(h, b, q)
    BY <1>3, <1>8, Regroup
  <2> QED BY <1>7, <1>8, <1>9, <2>1 DEF Regroups, Pass
<1>11. Len(draft) + m + 1 = Len(Whole) + m
  <2>1. Len(Whole) \in Nat /\ Len(h) \in Nat /\ m \in Nat
    BY <1>4, <1>6, <1>8
  <2> QED BY <1>6, <1>8, <2>1
<1>12. SubSeq(Whole \o q, 1, Len(Whole) + m) = Whole \o SubSeq(q, 1, m)
  BY <1>3, <1>6, CutLater
<1>13. draft' = Whole \o SubSeq(q, 1, m)
  BY <1>2, <1>4, <1>10, <1>11, <1>12
<1> QED BY <1>1, <1>2, <1>3, <1>4, <1>13, RolledKeeps

\* The hidden state at the last token kept.
LEMMA EagleKeeps ==
  ASSUME GInv, Oracle, AllFull, NEW q \in Proposals, EagleRound(q)
  PROVE  GInv' /\ draft' = Held'
<1>1. /\ at = "yielded" /\ pend = <<>> /\ ~Returns /\ method = "eagle"
      /\ at' = "emit" /\ UNCHANGED <<call, rest, out>> /\ UNCHANGED adapt /\ Len(q) = k
  BY DEF EagleRound, NextRound
<1>2. PICK targ : /\ targ \in Targets(Pass(q))
                  /\ kv' = Rolled(Fed(Pass(q)), Len(q) - Accepted(q, targ))
                  /\ draft' = Rows \o SubSeq(Pass(q), 1, Accepted(q, targ) + 1)
                  /\ pend' = Yields(q, Accepted(q, targ), targ)
  BY <1>1 DEF EagleRound, Pass, Yields
<1>3. q \in Seq(Token)
  BY ProposalIs
<1>4. PICK m \in 0 .. Len(q) : m = Accepted(q, targ)
  BY <1>3, AcceptedIs
<1>5. PICK h : h = SubSeq(Whole, 1, Len(Whole) - 1)
  OBVIOUS
<1>6. /\ Whole \in Seq(Token) /\ Whole # <<>> /\ Last(out) = Whole[Len(Whole)]
      /\ HoldIn(kv, h) /\ h \in Seq(Token)
  BY <1>1, <1>5, AtRound, FrontLast
<1>7. Rows = h
  BY <1>6, RowsAre
<1>8. h \o SubSeq(Pass(q), 1, m + 1) = Whole \o SubSeq(q, 1, m)
  <2>1. Refeeds(Whole, q, m)
    BY <1>3, <1>6, LastAgain
  <2> QED BY <1>5, <1>6, <2>1 DEF Refeeds, Pass
<1>9. draft' = Whole \o SubSeq(q, 1, m)
  BY <1>2, <1>4, <1>7, <1>8
<1> QED BY <1>1, <1>2, <1>3, <1>4, <1>9, RolledKeeps

\* A row of a batch is the sequence s behind its pads.
Padding == [i \in 1 .. pads |-> Pad]

\* It has been fed its prompt or a part of it; then all it said, and its next token is
\* the argmax.  Nothing is said of a row that has ended: it rides on.
Padded ==
  method = "batch" =>
    /\ at = "prefill" => Rows \o rest = Padding \o prompt
    /\ at = "step" /\ ~(out # <<>> /\ Last(out) = Eos) =>
         Rows = Padding \o (prompt \o out) /\ pend = <<Argmax(prompt \o out)>>

LEMMA PaddingIs == ASSUME TInv PROVE Padding \in Seq(Token) /\ Len(Padding) = pads
<1>1. pads \in Nat /\ Pad \in Token
  BY Parts, LoopsAssumption
<1> QED BY <1>1 DEF Padding

\* The pad rows are masked.
LEMMA RowTargetAt ==
  ASSUME TInv, NEW x \in Seq(Token), NEW s \in Seq(Token), s # <<>>,
         Rows \o x = Padding \o s
  PROVE  RowTarget(x) = Argmax(s)
<1>1. PICK p : p = Padding
  OBVIOUS
<1>2. p \in Seq(Token) /\ Len(p) = pads /\ Rows \in Seq(Token)
  BY <1>1, PaddingIs, Parts
<1>3. /\ pads \in Nat /\ Len(s) \in Nat \ {0} /\ Len(x) \in Nat /\ Len(Rows) \in Nat
  BY Parts, EmptySeq
<1>4. Len(Rows) + Len(x) = pads + Len(s)
  <2>1. Len(Rows \o x) = Len(Rows) + Len(x)
    BY <1>2, ConcatProperties
  <2>2. Len(p \o s) = Len(p) + Len(s)
    BY <1>2, ConcatProperties
  <2> QED BY <1>1, <1>2, <2>1, <2>2
<1>5. PICK i : i = pads + 1
  OBVIOUS
<1>6. PICK j : j = pads + Len(s)
  OBVIOUS
<1>7. /\ i \in Len(p) + 1 .. Len(p) + Len(s) /\ j \in Len(p) + 1 .. Len(p) + Len(s)
      /\ i - Len(p) = 1 /\ j - Len(p) = Len(s)
  BY <1>2, <1>3, <1>5, <1>6
<1>8. SubSeq(p \o s, i, j) = SubSeq(s, i - Len(p), j - Len(p))
  BY <1>2, <1>7, SubSeqOfConcat2
<1>9. SubSeq(p \o s, i, j) = s
  BY <1>7, <1>8, SubSeqFull
<1> QED BY <1>1, <1>4, <1>5, <1>6, <1>9 DEF RowTarget

LEMMA BatchPrefillKeeps ==
  ASSUME TInv, Padded, BatchPrefill
  PROVE  Padded'
<1>1. PICK n : n = Lesser(Chunk, Len(rest))
  OBVIOUS
<1>2. PICK w : w = SubSeq(rest, 1, n)
  OBVIOUS
<1>3. PICK u : u = SubSeq(rest, n + 1, Len(rest))
  OBVIOUS
<1>4. /\ at = "prefill" /\ method = "batch" /\ kv' = Fed(w) /\ rest' = u
      /\ UNCHANGED <<call, out, pads>>
  BY <1>1, <1>2, <1>3 DEF BatchPrefill
<1>5. /\ out = <<>> /\ rest # <<>> /\ rest \in Seq(Token) /\ prompt \in Seq(Token)
      /\ TypeOK /\ Rows \in Seq(Token)
  BY <1>4, Parts DEF TInv, Starting
<1>6. n \in 0 .. Len(rest)
  <2>1. Len(rest) \in Nat \ {0} /\ Chunk \in Nat \ {0}
    BY <1>5, EmptySeq, GenerationAssumption
  <2> QED BY <1>1, <2>1 DEF Lesser
<1>7. w \in Seq(Token) /\ u \in Seq(Token) /\ w \o u = rest
  BY <1>2, <1>3, <1>5, <1>6, Cut, CutApart
<1>8. Rows \o rest = Padding \o prompt
  BY <1>4 DEF Padded
<1>9. (Rows \o w) \o u = Padding \o prompt
  <2>1. Regroups(Rows, w, u)
    BY <1>5, <1>7, Regroup
  <2> QED BY <1>7, <1>8, <2>1 DEF Regroups
<1>10. Rows' = Rows \o w
  <2>1. Rows' = kv'[Probe]
    BY DEF Rows
  <2> QED BY <1>4, <1>5, <1>7, <2>1, FedRows
<1>11. prompt' = prompt /\ method' = method /\ out' = out /\ Padding' = Padding
  BY <1>4 DEF call, Padding
<1>12. CASE u # <<>>
  <2>1. at' = at
    BY <1>1, <1>3, <1>4, <1>12 DEF BatchPrefill
  <2> QED BY <1>4, <1>9, <1>10, <1>11, <2>1 DEF Padded
<1>13. CASE u = <<>>
  <2>1. pend' = <<RowTarget(w)>> /\ at' = "step"
    BY <1>1, <1>2, <1>3, <1>4, <1>13 DEF BatchPrefill
  <2>2. Rows \o w = Padding \o prompt
    <3>1. PICK v : v = Rows \o w
      OBVIOUS
    <3>2. v \in Seq(Token)
      BY <1>5, <1>7, <3>1, ConcatProperties
    <3>3. v \o <<>> = v
      BY <3>2, ConcatEmptySeq
    <3> QED BY <1>9, <1>13, <3>1, <3>3
  <2>3. prompt # <<>>
    BY DEF TInv
  <2>4. RowTarget(w) = Argmax(prompt)
    BY <1>5, <1>7, <2>2, <2>3, RowTargetAt
  <2>5. prompt \o <<>> = prompt
    BY <1>5, ConcatEmptySeq
  <2>6. Rows' = Padding' \o (prompt' \o out')
    BY <1>5, <1>10, <1>11, <2>2, <2>5
  <2>7. pend' = <<Argmax(prompt' \o out')>>
    BY <1>5, <1>11, <2>1, <2>4, <2>5
  <2> QED BY <2>1, <2>6, <2>7 DEF Padded
<1> QED BY <1>12, <1>13

\* A step of a row that had not ended: it says the argmax, and is fed it.
LEMMA BatchStepKeeps ==
  ASSUME TInv, Padded, BatchStep
  PROVE  Padded'
<1>1. PICK o : o = out'
  OBVIOUS
<1>2. PICK feed : feed = <<IF o # <<>> /\ Last(o) = Eos THEN Pad ELSE Last(o)>>
  OBVIOUS
<1>3. /\ at = "step" /\ UNCHANGED <<call, pads>>
      /\ o = IF out # <<>> /\ Last(out) = Eos THEN out ELSE out \o pend
  BY <1>1 DEF BatchStep
<1>4. \/ at' = "done"
      \/ at' = at /\ pend' = <<RowTarget(feed)>> /\ kv' = Fed(feed)
  BY <1>1, <1>2 DEF BatchStep
<1>5. prompt' = prompt /\ method' = method /\ Padding' = Padding
  BY <1>3 DEF call, Padding
<1>6. SUFFICES ASSUME ~(o # <<>> /\ Last(o) = Eos), at' = at
               PROVE  Rows' = Padding \o (prompt \o o) /\ pend' = <<Argmax(prompt \o o)>>
  BY <1>1, <1>3, <1>4, <1>5 DEF Padded
<1>7. /\ pend' = <<RowTarget(feed)>> /\ kv' = Fed(feed)
  BY <1>3, <1>4, <1>6
<1>8. ~(out # <<>> /\ Last(out) = Eos) /\ o = out \o pend
  BY <1>3, <1>6
<1>9. PICK f : f = prompt \o out
  OBVIOUS
<1>10. PICK t : t = Argmax(f)
  OBVIOUS
<1>11. Rows = Padding \o f /\ pend = <<t>>
  <2>1. method = "batch"
    BY <1>3 DEF TInv, Riding
  <2> QED BY <1>3, <1>8, <1>9, <1>10, <2>1 DEF Padded
<1>12. /\ TypeOK /\ Rows \in Seq(Token) /\ out \in Seq(Token) /\ pend \in Seq(Token)
       /\ prompt \in Seq(Token) /\ prompt # <<>> /\ Padding \in Seq(Token)
       /\ f \in Seq(Token)
  <2>1. prompt # <<>>
    BY DEF TInv
  <2>2. /\ TypeOK /\ Rows \in Seq(Token) /\ out \in Seq(Token) /\ pend \in Seq(Token)
        /\ prompt \in Seq(Token)
    BY Parts
  <2>3. f \in Seq(Token)
    BY <1>9, <2>2, ConcatProperties
  <2> QED BY <2>1, <2>2, <2>3, PaddingIs
<1>13. o = Append(out, t) /\ o # <<>> /\ Last(o) = t
  <2>1. o = Append(out, t)
    BY <1>8, <1>11, <1>12
  <2>2. Len(o) = Len(out) + 1 /\ o[Len(out) + 1] = t /\ Len(out) \in Nat
    BY <1>12, <2>1
  <2>3. o # <<>>
    BY <2>2
  <2> QED BY <2>1, <2>2, <2>3 DEF Last
<1>14. feed = pend
  BY <1>2, <1>6, <1>11, <1>13
<1>15. PICK g : g = f \o pend
  OBVIOUS
<1>16. g \in Seq(Token) /\ g # <<>> /\ g = prompt \o o
  <2>1. Regroups(prompt, out, pend)
    BY <1>12, Regroup
  <2>2. g = prompt \o o
    BY <1>8, <1>9, <1>15, <2>1 DEF Regroups
  <2>3. g \in Seq(Token) /\ Len(g) = Len(f) + Len(pend)
    BY <1>12, <1>15, ConcatProperties
  <2>4. Len(f) \in Nat /\ Len(pend) = 1
    BY <1>11, <1>12
  <2>5. Len(g) # 0
    BY <2>3, <2>4
  <2>6. g # <<>>
    BY <2>5
  <2> QED BY <2>2, <2>3, <2>6
<1>17. Rows \o feed = Padding \o g
  <2>1. Regroups(Padding, f, pend)
    BY <1>12, Regroup
  <2> QED BY <1>11, <1>14, <1>15, <2>1 DEF Regroups
<1>18. feed \in Seq(Token)
  BY <1>12, <1>14
<1>19. Rows' = Rows \o feed
  <2>1. Rows' = kv'[Probe]
    BY DEF Rows
  <2> QED BY <1>7, <1>12, <1>18, <2>1, FedRows
<1>20. RowTarget(feed) = Argmax(g)
  BY <1>16, <1>17, <1>18, RowTargetAt
<1> QED BY <1>7, <1>16, <1>17, <1>19, <1>20

SInv == SoundCall /\ Padded /\ (method # "batch" => GInv /\ Trailing)

\* The draft reads the prompt when the prefill ends.
LEMMA PrefillTrails ==
  ASSUME GInv, GInv', Prefill
  PROVE  Trailing'
<1> SUFFICES ASSUME at' \in {"emit", "yielded"} PROVE draft' = Held'
  BY DEF Trailing
<1>1. /\ at = "prefill" /\ UNCHANGED <<call, out, adapt>>
      /\ rest' = SubSeq(rest, PrefillRows + 1, Len(rest))
  BY DEF Prefill
<1>2. rest' = <<>>
  BY <1>1 DEF Prefill
<1>3. PICK t : pend' = <<t>>
  BY <1>1, <1>2 DEF Prefill
<1>4. draft' = prompt
  BY <1>1, <1>2 DEF Prefill
<1>5. prompt' = prompt /\ out' = <<>> /\ prompt \in Seq(Token)
  BY <1>1 DEF GInv, Filling, TypeOK, call
<1>6. t \in Token
  <2>1. pend' \in Seq(Token)
    BY DEF GInv, TypeOK
  <2>2. PICK e \in Seq(Token) : e = <<t>>
    BY <1>3, <2>1
  <2>3. e[1] \in Token /\ e[1] = t
    BY <2>2
  <2> QED BY <2>3
<1>7. PICK f : f = prompt \o <<t>>
  OBVIOUS
<1>8. Whole' = f
  BY <1>3, <1>5, <1>6, <1>7, ShortWhole DEF Whole
<1>9. Len(f) = Len(prompt) + 1 /\ SubSeq(f, 1, Len(prompt)) = prompt /\ Len(prompt) \in Nat
  BY <1>5, <1>6, <1>7, ShortWhole
<1>10. Len(f) - 1 = Len(prompt)
  BY <1>9
<1>11. Held' = SubSeq(f, 1, Len(f) - 1)
  BY <1>8 DEF Held
<1> QED BY <1>4, <1>9, <1>10, <1>11

\* A step of the loops of Generation.
LEMMA GenerateKeeps ==
  ASSUME Oracle, SoundCall, GInv, Trailing, Generate
  PROVE  GInv' /\ Trailing'
<1>1. CASE Prefill
  BY <1>1, PrefillKeeps, PrefillTrails
<1>2. CASE Emit
  <2>1. /\ pend # <<>> /\ at \in {"emit", "yielded"} /\ TypeOK
        /\ out' = Append(out, Head(pend)) /\ pend' = Tail(pend)
        /\ prompt' = prompt /\ method' = method /\ draft' = draft
    BY <1>2 DEF Emit, GInv, call, caches
  <2>2. Whole' = Whole
    BY <2>1, EmitWhole
  <2>3. Held' = Held
    BY <2>2 DEF Held
  <2>4. Trailing'
    BY <2>1, <2>3 DEF Trailing
  <2> QED BY <1>2, <2>4, EmitKeeps
<1>3. CASE Return
  <2>1. Trailing'
    BY <1>3 DEF Return, Trailing
  <2> QED BY <1>3, <2>1, ReturnKeeps
<1>4. CASE StreamStep
  <2>1. method' = "stream"
    BY <1>4 DEF StreamStep, call
  <2> QED BY <1>4, <2>1, StreamKeeps DEF Trailing
<1>5. ASSUME NEW q \in Proposals,
             DraftRound(q) \/ NgramRound(q) \/ AdaptiveRound(q) \/ OptimizedRound(q)
      PROVE  GInv' /\ Trailing'
  <2>1. /\ method' = method
        /\ method \in {"draft", "fast", "ngram", "adaptive", "optimized"}
    BY <1>5 DEF DraftRound, NgramRound, AdaptiveRound, OptimizedRound, NextRound, call
  <2>2. Trailing'
    BY <2>1 DEF Trailing
  <2>3. ~AdaptiveRound(q)
    BY DEF SoundCall, AdaptiveRound, NextRound
  <2>4. OptimizedRound(q) => AllFull
    BY DEF SoundCall, OptimizedRound, NextRound
  <2> QED BY <1>5, <2>2, <2>3, <2>4, DraftKeeps, NgramKeeps, OptimizedKeeps
<1> QED BY <1>1, <1>2, <1>3, <1>4, <1>5 DEF Generate, Round

LEMMA LoopsSound == ASSUME Oracle, TInv, SInv, LoopsNext PROVE SInv'
<1>1. ASSUME method' = method, method # "batch", GInv', Trailing' PROVE SInv'
  <2>1. SoundCall'
    BY <1>1 DEF SInv, SoundCall, AllFull
  <2> QED BY <1>1, <2>1 DEF SInv, Padded
<1>2. ASSUME method' = method, method = "batch", Padded' PROVE SInv'
  <2>1. SoundCall'
    BY <1>2 DEF SInv, SoundCall, AllFull
  <2> QED BY <1>2, <2>1 DEF SInv
<1>3. method # "batch" => GInv /\ Trailing
  BY DEF SInv
<1>4. SoundCall /\ Padded
  BY DEF SInv
<1>5. CASE Generate
  <2>1. method' = method
    BY <1>5 DEF Generate, Prefill, Emit, Return, StreamStep, Round, DraftRound,
                NgramRound, AdaptiveRound, OptimizedRound, call
  <2>2. method # "batch"
    BY <1>5 DEF Generate, Prefill, Emit, Return, StreamStep, Round, DraftRound,
                NgramRound, AdaptiveRound, OptimizedRound, NextRound, TInv, Speaking
  <2> QED BY <1>1, <1>3, <1>4, <1>5, <2>1, <2>2, GenerateKeeps
<1>6. CASE LookupRound
  <2>1. method' = method /\ method = "lookup"
    BY <1>6 DEF LookupRound, NextRound, call
  <2> QED BY <1>1, <1>3, <1>6, <2>1, LookupKeeps DEF Trailing
<1>7. CASE TreeRound
  <2>1. method' = method /\ method = "tree"
    BY <1>7 DEF TreeRound, NextRound, call
  <2> QED BY <1>1, <1>3, <1>7, <2>1, TreeKeeps DEF Trailing
<1>8. ASSUME NEW q \in Proposals, MtpRound(q) PROVE SInv'
  <2>1. method' = method /\ method = "mtp"
    BY <1>8 DEF MtpRound, NextRound, call
  <2>2. AllFull
    BY <1>4, <2>1 DEF SoundCall
  <2>3. GInv' /\ draft' = Held'
    BY <1>3, <1>8, <2>1, <2>2, MtpKeeps
  <2> QED BY <1>1, <2>1, <2>3 DEF Trailing
<1>9. ASSUME NEW q \in Proposals, EagleRound(q) PROVE SInv'
  <2>1. method' = method /\ method = "eagle"
    BY <1>9 DEF EagleRound, NextRound, call
  <2>2. AllFull
    BY <1>4, <2>1 DEF SoundCall
  <2>3. GInv' /\ draft' = Held'
    BY <1>3, <1>9, <2>1, <2>2, EagleKeeps
  <2> QED BY <1>1, <2>1, <2>3 DEF Trailing
<1>10. CASE BatchPrefill
  <2>1. method' = method /\ method = "batch"
    BY <1>10 DEF BatchPrefill, call
  <2> QED BY <1>2, <1>4, <1>10, <2>1, BatchPrefillKeeps
<1>11. CASE BatchStep
  <2>1. method' = method /\ method = "batch"
    BY <1>11 DEF BatchStep, call, TInv, Riding
  <2> QED BY <1>2, <1>4, <1>11, <2>1, BatchStepKeeps
<1> QED BY <1>5, <1>6, <1>7, <1>8, <1>9, <1>10, <1>11 DEF LoopsNext

LEMMA StillSound ==
  ASSUME SInv, UNCHANGED lvars \/ (UNCHANGED done /\ at' = "over")
  PROVE  SInv'
<1>1. /\ prompt' = prompt /\ limit' = limit /\ method' = method /\ rest' = rest
      /\ kv' = kv /\ draft' = draft /\ k' = k /\ history' = history /\ since' = since
      /\ out' = out /\ pend' = pend /\ pads' = pads /\ at' \in {at, "over"}
  BY DEF lvars, gvars, done, call, caches, adapt
<1>2. Whole' = Whole /\ Held' = Held /\ Rows' = Rows /\ Padding' = Padding
  BY <1>1 DEF Whole, Held, Rows, Padding
<1>3. SoundCall' /\ Padded'
  BY <1>1, <1>2 DEF SInv, SoundCall, AllFull, Padded
<1>4. ASSUME method # "batch" PROVE GInv' /\ Trailing'
  <2>1. GInv /\ Trailing
    BY <1>4 DEF SInv
  <2>2. TypeOK'
    BY <1>1, <2>1 DEF GInv, TypeOK
  <2>3. Correct(method, prompt, Whole)'
    BY <1>1, <1>2, <2>1 DEF GInv
  <2>4. Filling' /\ Between'
    BY <1>1, <1>2, <2>1 DEF GInv, Filling, Between
  <2>5. Emitting' /\ Yielding'
    BY <1>1, <1>2, <2>1 DEF GInv, Emitting, Yielding
  <2>6. Ending'
    BY <1>1, <1>2, <2>1 DEF GInv, Ending
  <2>7. (at \in {"prefill", "emit", "yielded", "done"} => prompt # <<>>)'
    BY <1>1, <2>1 DEF GInv
  <2>8. Trailing'
    BY <1>1, <1>2, <2>1 DEF Trailing
  <2> QED BY <2>2, <2>3, <2>4, <2>5, <2>6, <2>7, <2>8 DEF GInv
<1> QED BY <1>1, <1>3, <1>4 DEF SInv

LEMMA InitSInv == ASSUME CliInit, SoundCall PROVE SInv
<1>1. LoopsInit
  BY DEF CliInit
<1>2. Padded
  <2>1. at = "prefill" /\ rest = Padding \o prompt /\ Rows = <<>>
    BY <1>1, ProbeIs DEF LoopsInit, Padding, Rows
  <2>2. PICK r : r = rest
    OBVIOUS
  <2>3. r \in Seq(Token)
    BY <1>1, <2>2, InitTypes, Parts
  <2>4. <<>> \o r = r
    BY <2>3, ConcatEmptySeq
  <2> QED BY <2>1, <2>2, <2>4 DEF Padded
<1>3. ASSUME method # "batch" PROVE GInv /\ Trailing
  <2>1. pads = 0 /\ rest = [i \in 1 .. pads |-> Pad] \o prompt /\ prompt \in Seq(Token)
    BY <1>1, <1>3, GenerationAssumption DEF LoopsInit
  <2>2. PICK p : p = [i \in 1 .. 0 |-> Pad]
    OBVIOUS
  <2>3. p = <<>>
    BY <2>2
  <2>4. <<>> \o prompt = prompt
    BY <2>1, ConcatEmptySeq
  <2>5. rest = prompt
    BY <2>1, <2>2, <2>3, <2>4
  <2>6. Init
    BY <1>1, <2>5 DEF LoopsInit, Init
  <2> QED BY <1>1, <2>6, InitGInv DEF LoopsInit, Trailing
<1> QED BY <1>2, <1>3 DEF SInv

LEMMA AlwaysSInv == ASSUME Oracle PROVE CliSpec /\ SoundCall => [](TInv /\ SInv)
<1>1. CliInit /\ SoundCall => SInv
  BY InitSInv
<1>2. TInv /\ SInv /\ [CliNext]_cvars => SInv'
  BY CliMoves, LoopsSound, StillSound
<1> QED BY <1>1, <1>2, AlwaysTInv, PTL DEF CliSpec

\* Between rounds of any of the loops what the draft works from -- its own cache, the
\* target states the MTP assistant attends to, the position of EAGLE's last hidden
\* state -- is exactly what every layer of the target holds: the prompt and what was
\* yielded but for the last token (generate.py:511-514, 741-748, 801-808).
THEOREM AllDraftsAligned ==
  ASSUME Oracle
  PROVE  CliSpec /\ SoundCall => []DraftAligned
<1>1. TInv /\ SInv => DraftAligned
  <2> SUFFICES ASSUME SInv, at = "yielded", pend = <<>>,
                      method \in {"draft", "fast", "adaptive", "optimized", "mtp", "eagle"}
               PROVE  draft = prompt \o Front(out) /\ Holds(draft)
    BY DEF DraftAligned
  <2>1. GInv /\ Trailing /\ method # "adaptive"
    BY DEF SInv, SoundCall
  <2>2. draft = Held
    BY <2>1 DEF GInv, Between, Trailing
  <2> QED BY <2>1, <2>2, AlignedAt
<1> QED BY <1>1, AlwaysSInv, PTL

\* A step that neither yields nor is the last is none of the abstract specification.
LEMMA Stutters ==
  ASSUME UNCHANGED call, out' = out, at # "over", at' # "over"
  PROVE  UNCHANGED Abstract!vars
BY DEF Abstract!vars, Abstract!call, call

\* A row of a batch says one token more, or has ended.
LEMMA BatchYields ==
  ASSUME TInv, Padded, BatchStep
  PROVE  Abstract!Yield \/ UNCHANGED Abstract!vars
<1>1. /\ at = "step" /\ UNCHANGED call /\ at' \in {"done", "step"}
      /\ out' = IF out # <<>> /\ Last(out) = Eos THEN out ELSE out \o pend
  BY DEF BatchStep
<1>2. /\ method = "batch" /\ pads + Len(prompt) + Len(out) <= Len(Rows)
      /\ Len(Rows) < pads + Len(prompt) + limit
  BY <1>1 DEF TInv, Riding
<1>3. CASE out # <<>> /\ Last(out) = Eos
  <2>1. out' = out
    BY <1>1, <1>3
  <2> QED BY <1>1, <2>1, Stutters
<1>4. CASE ~(out # <<>> /\ Last(out) = Eos)
  <2>1. PICK t : t = Argmax(prompt \o out)
    OBVIOUS
  <2>2. pend = <<t>>
    BY <1>1, <1>2, <1>4, <2>1 DEF Padded
  <2>3. out \in Seq(Token) /\ Len(out) \in Nat
    BY Parts
  <2>4. out' = Append(out, t)
    BY <1>1, <1>4, <2>2, <2>3
  <2>5. Len(out) # limit
    <3>1. /\ pads \in Nat /\ Len(prompt) \in Nat /\ Len(Rows) \in Nat /\ limit \in Nat
      BY Parts
    <3> QED BY ONLY <1>2, <2>3, <3>1
  <2>6. ~Abstract!Finished
    BY <1>4, <2>5 DEF Abstract!Finished, Last
  <2>7. prompt' = prompt /\ limit' = limit /\ method' = method
    BY <1>1 DEF call
  <2>8. ~(at = "over") /\ ~(at' = "over")
    BY <1>1
  <2> QED BY <1>2, <2>1, <2>4, <2>6, <2>7, <2>8 DEF Abstract!Yield, Abstract!call
<1> QED BY <1>3, <1>4

\* A loop yields as greedy decoding may, or is left, or the consumer sees nothing.
LEMMA LoopsYield ==
  ASSUME TInv, SInv, LoopsNext
  PROVE  Abstract!Yield \/ UNCHANGED Abstract!vars
<1>1. CASE Emit
  <2>1. GInv
    BY <1>1 DEF Emit, TInv, Speaking, SInv
  <2> QED BY <1>1, <2>1, EmitYields
<1>2. CASE Prefill
  BY <1>2, Stutters DEF Prefill
<1>3. CASE Return
  BY <1>3, Stutters DEF Return
<1>4. CASE StreamStep
  BY <1>4, Stutters DEF StreamStep
<1>5. CASE Round
  BY <1>5, Stutters DEF Round, DraftRound, NgramRound, AdaptiveRound, OptimizedRound, NextRound
<1>6. CASE LookupRound
  BY <1>6, Stutters DEF LookupRound, NextRound
<1>7. CASE TreeRound
  BY <1>7, Stutters DEF TreeRound, NextRound
<1>8. ASSUME NEW q \in Proposals, MtpRound(q) \/ EagleRound(q)
      PROVE  UNCHANGED Abstract!vars
  BY <1>8, Stutters DEF MtpRound, EagleRound, NextRound
<1>9. CASE BatchPrefill
  BY <1>9, Stutters DEF BatchPrefill
<1>10. CASE BatchStep
  BY <1>10, BatchYields DEF SInv
<1> QED BY <1>1, <1>2, <1>3, <1>4, <1>5, <1>6, <1>7, <1>8, <1>9, <1>10
           DEF LoopsNext, Generate

\* Whatever loop the command or a program runs, with whatever drafter, tree or batch, what
\* the consumer sees is greedy decoding, token by token, until it goes away: the safety
\* part of ImplementsGreedy (generate.py:399-412, 554-562; tree_spec.py; batch rows).
THEOREM AllGreedySteps ==
  ASSUME Oracle
  PROVE  CliSpec /\ SoundCall =>
           Abstract!Init /\ [][Abstract!Yield \/ Abstract!Abandon]_Abstract!vars
<1>1. CliInit => Abstract!Init
  BY DEF CliInit, LoopsInit, Abstract!Init
<1>2. ASSUME TInv, SInv, [CliNext]_cvars
      PROVE  [Abstract!Yield \/ Abstract!Abandon]_Abstract!vars
  <2>1. CASE LoopsNext
    BY <1>2, <2>1, LoopsYield
  <2>2. CASE UNCHANGED lvars
    BY <2>2 DEF lvars, gvars, call, Abstract!vars, Abstract!call
  <2>3. CASE UNCHANGED done /\ at' = "over"
    <3>1. prompt' = prompt /\ limit' = limit /\ method' = method /\ out' = out
      BY <2>3 DEF done, call
    <3>2. CASE at = "over"
      BY <2>3, <3>1, <3>2 DEF Abstract!vars, Abstract!call
    <3>3. CASE at # "over"
      BY <2>3, <3>1, <3>3 DEF Abstract!Abandon, Abstract!call
    <3> QED BY <3>2, <3>3
  <2> QED BY <1>2, <2>1, <2>2, <2>3, CliMoves
<1> QED BY <1>1, <1>2, AlwaysSInv, PTL DEF CliSpec
=============================================================================
