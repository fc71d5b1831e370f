---------------------------- MODULE EngineProofs ----------------------------
(***************************************************************************)
(* Proofs about Packer and Engine: a directory with a manifest is whole,   *)
(* what the engine asks for is on disk, each layer runs with its own       *)
(* weights, and nothing is dropped while the barrier is skipped.           *)
(***************************************************************************)
EXTENDS Engine, FiniteSetTheorems, WellFoundedInduction, TLAPS

------------------------------------------------------------------------------
(* The sequence of pieces. *)

\* What holds of 0 and of n + 1 whenever it holds of n holds of every number, told
\* with a set.
LEMMA Climb ==
  ASSUME NEW S, 0 \in S, \A n \in Nat : n \in S => n + 1 \in S
  PROVE  Nat \subseteq S
<1> DEFINE T == Nat \ S
<1>1. SUFFICES ASSUME T # {} PROVE FALSE
  OBVIOUS
<1>2. IsWellFoundedOn(OpToRel(<, Nat), Nat)
  BY NatLessThanWellFounded
<1>3. PICK x \in T : \A y \in T : ~ (<<y, x>> \in OpToRel(<, Nat))
  <2> HIDE DEF T
  <2>1. T \subseteq Nat BY DEF T
  <2> QED BY <1>1, <1>2, <2>1, WFMin
<1>4. x # 0 /\ x - 1 \in Nat
  OBVIOUS
<1>5. x - 1 \in T
  BY <1>4
<1>6. <<x - 1, x>> \in OpToRel(<, Nat)
  BY <1>4 DEF OpToRel
<1> QED BY <1>3, <1>5, <1>6

\* A model and how many layers of it: what the recursion of pack() computes.
Step(c, f) ==
  [l \in 0 .. c.n |-> IF l = 0 THEN <<<<"embed">>>> ELSE f[l - 1] \o LayerPieces(c, l - 1)]

\* There is a function that the recursion describes.
LEMMA UpToExists ==
  ASSUME NEW c, c.n \in Nat
  PROVE  \E f : f = Step(c, f)
<1> DEFINE Continues(f, m) ==
      f = [l \in 0 .. m |-> IF l = 0 THEN <<<<"embed">>>>
                            ELSE f[l - 1] \o LayerPieces(c, l - 1)]
<1> DEFINE S == {m \in Nat : \E f : Continues(f, m)}
<1>1. 0 \in S
  <2> DEFINE f == [l \in 0 .. 0 |-> <<<<"embed">>>>]
  <2>1. Continues(f, 0) OBVIOUS
  <2> QED BY <2>1
<1>2. ASSUME NEW m \in Nat, m \in S PROVE m + 1 \in S
  <2>1. PICK f : Continues(f, m) BY <1>2
  <2> DEFINE g == [l \in 0 .. m + 1 |-> IF l = m + 1 THEN f[m] \o LayerPieces(c, m) ELSE f[l]]
  <2>2. \A l \in 0 .. m : g[l] = f[l]
    OBVIOUS
  <2>3. ASSUME NEW l \in 0 .. m + 1
        PROVE  g[l] = IF l = 0 THEN <<<<"embed">>>> ELSE g[l - 1] \o LayerPieces(c, l - 1)
    <3>1. CASE l = m + 1
      <4>1. l - 1 = m /\ l # 0 /\ m \in 0 .. m BY <3>1
      <4>2. g[l] = f[m] \o LayerPieces(c, m) BY <3>1
      <4> HIDE DEF g
      <4> QED BY <4>1, <4>2, <2>2
    <3>2. CASE l = 0
      <4>1. f[0] = <<<<"embed">>>> BY <2>1
      <4> QED BY <4>1, <3>2
    <3>3. CASE l \in 1 .. m
      <4>1. l - 1 \in 0 .. m /\ l \in 0 .. m /\ l # 0 BY <3>3
      <4>2. f[l] = f[l - 1] \o LayerPieces(c, l - 1) BY <2>1, <4>1
      <4>3. g[l] = f[l] /\ g[l - 1] = f[l - 1] BY <4>1, <2>2
      <4> HIDE DEF g, Continues
      <4> QED BY <4>1, <4>2, <4>3
    <3> QED BY <3>1, <3>2, <3>3
  <2>4. Continues(g, m + 1)
    <3>1. g = [l \in 0 .. m + 1 |-> g[l]] OBVIOUS
    <3> HIDE DEF g
    <3> QED BY <2>3, <3>1
  <2> HIDE DEF g, Continues
  <2> QED BY <2>4
<1>3. c.n \in S
  <2> HIDE DEF S
  <2> QED BY <1>1, <1>2, Climb
<1> QED BY <1>3 DEF Step

LEMMA UpToStep ==
  ASSUME NEW c, c.n \in Nat
  PROVE  UpTo(c) = Step(c, UpTo(c))
BY UpToExists DEF UpTo, Step

\* Two sequences one after the other.
LEMMA ConcatIds ==
  ASSUME NEW s, NEW t, s \in Seq(Ids(s)), t \in Seq(Ids(t))
  PROVE  s \o t \in Seq(Ids(s \o t)) /\ Ids(s \o t) = Ids(s) \cup Ids(t)
<1> DEFINE r == s \o t
<1>1. s \in Seq(Ids(s) \cup Ids(t)) /\ t \in Seq(Ids(s) \cup Ids(t))
  OBVIOUS
<1>2. /\ r \in Seq(Ids(s) \cup Ids(t))
      /\ Len(r) = Len(s) + Len(t) /\ Len(s) \in Nat /\ Len(t) \in Nat
      /\ \A i \in 1 .. Len(s) : r[i] = s[i]
      /\ \A i \in 1 .. Len(t) : r[i + Len(s)] = t[i]
  BY <1>1
<1>3. DOMAIN s = 1 .. Len(s) /\ DOMAIN t = 1 .. Len(t) /\ DOMAIN r = 1 .. Len(r)
  BY <1>1, <1>2
<1> HIDE DEF r
<1>4. Ids(s) \subseteq Ids(r)
  <2>1. \A i \in 1 .. Len(s) : i \in 1 .. Len(r) BY <1>2
  <2> QED BY <1>2, <1>3, <2>1 DEF Ids
<1>5. Ids(t) \subseteq Ids(r)
  <2>1. \A i \in 1 .. Len(t) : i + Len(s) \in 1 .. Len(r) BY <1>2
  <2> QED BY <1>2, <1>3, <2>1 DEF Ids
<1>6. Ids(r) \subseteq Ids(s) \cup Ids(t)
  <2>1. SUFFICES ASSUME NEW i \in 1 .. Len(r) PROVE r[i] \in Ids(s) \cup Ids(t)
    BY <1>3 DEF Ids
  <2>2. CASE i <= Len(s)
    <3>1. i \in 1 .. Len(s) BY <1>2, <2>2
    <3> QED BY <3>1, <1>2, <1>3 DEF Ids
  <2>3. CASE ~ (i <= Len(s))
    <3>1. i - Len(s) \in 1 .. Len(t) /\ (i - Len(s)) + Len(s) = i BY <1>2, <2>3
    <3>2. r[i] = t[i - Len(s)] BY <3>1, <1>2
    <3> QED BY <3>1, <3>2, <1>3 DEF Ids
  <2> QED BY <2>2, <2>3
<1>7. r \in Seq(Ids(r))
  BY <1>2, <1>4, <1>5, <1>6
<1> QED BY <1>4, <1>5, <1>6, <1>7 DEF r

\* A sequence of one piece.
LEMMA OneId ==
  ASSUME NEW p
  PROVE  <<p>> \in Seq(Ids(<<p>>)) /\ Ids(<<p>>) = {p}
BY DEF Ids

\* The pieces of a layer: one, or its core and its experts.
LEMMA LayerIds ==
  ASSUME NEW c, c.experts \in Nat, NEW l
  PROVE  /\ LayerPieces(c, l) \in Seq(Ids(LayerPieces(c, l)))
         /\ Ids(LayerPieces(c, l)) =
              IF Split(c, l)
                THEN {CorePiece(l)} \cup {ExpertPiece(l, e) : e \in Experts(c)}
                ELSE {LayerPiece(l)}
<1>1. CASE ~ Split(c, l)
  BY <1>1, OneId DEF LayerPieces
<1>2. CASE Split(c, l)
  <2> DEFINE t == [e \in 1 .. c.experts |-> ExpertPiece(l, e - 1)]
  <2>1. t \in Seq(Ids(t))
    <3>1. DOMAIN t = 1 .. c.experts OBVIOUS
    <3>2. \A e \in 1 .. c.experts : t[e] \in Ids(t)
      <4> HIDE DEF t
      <4> QED BY <3>1 DEF Ids
    <3>3. t = [e \in 1 .. c.experts |-> t[e]] OBVIOUS
    <3> HIDE DEF t
    <3>4. t \in [1 .. c.experts -> Ids(t)] BY <3>2, <3>3
    <3> QED BY <3>4
  <2>2. Ids(t) = {ExpertPiece(l, e) : e \in Experts(c)}
    <3>1. DOMAIN t = 1 .. c.experts
      OBVIOUS
    <3>2. ASSUME NEW e \in Experts(c) PROVE ExpertPiece(l, e) \in Ids(t)
      <4>1. e + 1 \in 1 .. c.experts BY DEF Experts
      <4>2. t[e + 1] = ExpertPiece(l, (e + 1) - 1) BY <4>1
      <4>3. (e + 1) - 1 = e BY DEF Experts
      <4> QED BY <4>1, <4>2, <4>3, <3>1 DEF Ids
    <3>3. ASSUME NEW e \in 1 .. c.experts PROVE t[e] \in {ExpertPiece(l, i) : i \in Experts(c)}
      <4>1. e - 1 \in Experts(c) BY DEF Experts
      <4>2. t[e] = ExpertPiece(l, e - 1) OBVIOUS
      <4> QED BY <4>1, <4>2
    <3> HIDE DEF t
    <3> QED BY <3>1, <3>2, <3>3 DEF Ids
  <2>3. LayerPieces(c, l) = <<CorePiece(l)>> \o t
    BY <1>2 DEF LayerPieces
  <2>4. /\ <<CorePiece(l)>> \in Seq(Ids(<<CorePiece(l)>>))
        /\ Ids(<<CorePiece(l)>>) = {CorePiece(l)}
    BY OneId
  <2> DEFINE k == <<CorePiece(l)>>
  <2> HIDE DEF t, k
  <2>5. k \o t \in Seq(Ids(k \o t)) /\ Ids(k \o t) = Ids(k) \cup Ids(t)
    <3>1. k \in Seq(Ids(k)) BY <2>4 DEF k
    <3> QED BY <3>1, <2>1, ConcatIds
  <2>6. Ids(k) = {CorePiece(l)} /\ LayerPieces(c, l) = k \o t
    BY <2>3, <2>4 DEF k
  <2> QED BY <2>2, <2>5, <2>6, <1>2
<1> QED BY <1>1, <1>2

\* What pack() writes for the layers, and around them.
LayersIds(c, m) == UNION {Ids(LayerPieces(c, l)) : l \in 0 .. m - 1}
Around(c) ==
  {<<"embed">>, <<"norm_head">>}
    \cup (IF c.type = "gemma4_assistant" THEN {<<"masked_embed">>} ELSE {})

LEMMA UpToIds ==
  ASSUME NEW c, c.n \in Nat, c.experts \in Nat
  PROVE  /\ UpTo(c)[c.n] \in Seq(Ids(UpTo(c)[c.n]))
         /\ Ids(UpTo(c)[c.n]) = {<<"embed">>} \cup LayersIds(c, c.n)
<1> DEFINE u == UpTo(c)
           S == {m \in Nat : m <= c.n =>
                   u[m] \in Seq(Ids(u[m])) /\ Ids(u[m]) = {<<"embed">>} \cup LayersIds(c, m)}
<1>1. u = Step(c, u)
  BY UpToStep
<1>2. 0 \in S
  <2>1. u[0] = <<<<"embed">>>>
    <3>1. 0 \in 0 .. c.n OBVIOUS
    <3> HIDE DEF u
    <3> QED BY <1>1, <3>1 DEF Step
  <2>2. LayersIds(c, 0) = {}
    <3>1. 0 .. 0 - 1 = {} OBVIOUS
    <3> QED BY <3>1 DEF LayersIds
  <2>3. u[0] \in Seq(Ids(u[0])) /\ Ids(u[0]) = {<<"embed">>}
    <3> HIDE DEF u
    <3> QED BY <2>1, OneId
  <2> HIDE DEF u
  <2> QED BY <2>2, <2>3
<1>3. ASSUME NEW m \in Nat, m \in S PROVE m + 1 \in S
  <2>1. SUFFICES ASSUME m + 1 <= c.n
                 PROVE  /\ u[m + 1] \in Seq(Ids(u[m + 1]))
                        /\ Ids(u[m + 1]) = {<<"embed">>} \cup LayersIds(c, m + 1)
    OBVIOUS
  <2>2. u[m + 1] = u[m] \o LayerPieces(c, m)
    <3>1. m + 1 \in 0 .. c.n /\ m + 1 # 0 /\ (m + 1) - 1 = m BY <2>1
    <3> HIDE DEF u
    <3>2. u[m + 1] = u[(m + 1) - 1] \o LayerPieces(c, (m + 1) - 1)
      BY <1>1, <3>1 DEF Step
    <3> QED BY <3>1, <3>2
  <2>3. u[m] \in Seq(Ids(u[m])) /\ Ids(u[m]) = {<<"embed">>} \cup LayersIds(c, m)
    BY <1>3, <2>1
  <2>4. LayersIds(c, m + 1) = LayersIds(c, m) \cup Ids(LayerPieces(c, m))
    <3>1. 0 .. (m + 1) - 1 = (0 .. m - 1) \cup {m} OBVIOUS
    <3> QED BY <3>1 DEF LayersIds
  <2> HIDE DEF u, S
  <2>5. /\ LayerPieces(c, m) \in Seq(Ids(LayerPieces(c, m)))
    BY LayerIds
  <2>6. /\ u[m + 1] \in Seq(Ids(u[m + 1]))
        /\ Ids(u[m + 1]) = Ids(u[m]) \cup Ids(LayerPieces(c, m))
    BY <2>2, <2>3, <2>5, ConcatIds
  <2> QED BY <2>3, <2>4, <2>6
<1>4. c.n \in S
  <2> HIDE DEF S
  <2> QED BY <1>2, <1>3, Climb
<1> QED BY <1>4

\* What pack() writes: a sequence, of these pieces.
LEMMA PiecesAre ==
  ASSUME NEW c, c.n \in Nat, c.experts \in Nat
  PROVE  /\ Pieces(c) \in Seq(Ids(Pieces(c)))
         /\ Ids(Pieces(c)) = Around(c) \cup LayersIds(c, c.n)
<1> DEFINE u == UpTo(c)[c.n]
           m == IF c.type = "gemma4_assistant" THEN <<<<"masked_embed">>>> ELSE <<>>
           h == <<<<"norm_head">>>>
<1>1. u \in Seq(Ids(u)) /\ Ids(u) = {<<"embed">>} \cup LayersIds(c, c.n)
  BY UpToIds
<1>2. /\ m \in Seq(Ids(m))
      /\ Ids(m) = IF c.type = "gemma4_assistant" THEN {<<"masked_embed">>} ELSE {}
  <2>1. <<>> \in Seq(Ids(<<>>)) /\ Ids(<<>>) = {}
    BY DEF Ids
  <2> QED BY <2>1, OneId
<1>3. h \in Seq(Ids(h)) /\ Ids(h) = {<<"norm_head">>}
  BY OneId
<1>4. Pieces(c) = (u \o m) \o h
  BY DEF Pieces
<1> HIDE DEF u, m, h
<1>5. u \o m \in Seq(Ids(u \o m)) /\ Ids(u \o m) = Ids(u) \cup Ids(m)
  BY <1>1, <1>2, ConcatIds
<1>6. /\ (u \o m) \o h \in Seq(Ids((u \o m) \o h))
      /\ Ids((u \o m) \o h) = Ids(u \o m) \cup Ids(h)
  BY <1>3, <1>5, ConcatIds
<1> QED BY <1>1, <1>2, <1>3, <1>4, <1>5, <1>6 DEF Around

------------------------------------------------------------------------------
(* What is on disk. *)

Done(p) == p \in DOMAIN files /\ files[p] = "whole"

\* The pieces of the model being packed.
All == Ids(Pieces(config))

\* While packing is under way what is not still to be written is whole, and all is by
\* the time the manifest is written; a manifest lists every piece, and over whole files
\* unless a pack was started over it and has not ended.
PackInv ==
  /\ config \in Configs
  /\ files = [p \in DOMAIN files |-> files[p]]
  /\ manifest \in {{}, All}
  /\ todo \in Seq(All)
  /\ todo # <<>> => \A p \in All : p \in Ids(todo) \/ Done(p)
  /\ saving \in {"no", "due", "part"}
  /\ saving # "no" => todo = <<>> /\ \A p \in All : Done(p)
  /\ manifest # {} /\ ~over => todo = <<>> /\ \A p \in All : Done(p)

LEMMA PackConfig ==
  ASSUME config \in Configs
  PROVE  Pieces(config) \in Seq(All) /\ All # {}
<1>1. config.n \in Nat /\ config.experts \in Nat
  BY PackerAssumption
<1>2. Pieces(config) \in Seq(All) /\ All = Around(config) \cup LayersIds(config, config.n)
  BY <1>1, PiecesAre DEF All
<1> QED BY <1>2 DEF Around

LEMMA PackInit == PackerInit => PackInv
<1> SUFFICES ASSUME PackerInit PROVE PackInv
  OBVIOUS
<1> QED BY DEF PackerInit, PackInv

LEMMA PackNext == PackInv /\ [Pack]_pvars => PackInv'
<1> SUFFICES ASSUME PackInv, [Pack]_pvars PROVE PackInv'
  OBVIOUS
<1>1. CASE UNCHANGED pvars
  BY <1>1 DEF pvars, PackInv, All, Done, Ids
<1>2. ASSUME config' = config PROVE All' = All
  BY <1>2 DEF All
<1>3. CASE StartPack
  <2>1. config' = config /\ All' = All /\ files' = files /\ manifest' = manifest
    BY <1>2, <1>3 DEF StartPack
  <2>2. todo' = Pieces(config) /\ todo' \in Seq(All) /\ Ids(todo') = All
    BY <1>3, PackConfig DEF StartPack, PackInv, All
  <2>3. manifest' # {} /\ ~over' => FALSE
    BY <1>3 DEF StartPack
  <2>4. saving' = "no"
    BY <1>3 DEF StartPack
  <2> QED BY <2>1, <2>2, <2>3, <2>4 DEF PackInv, Done, Ids
<1>4. CASE BeginPiece
  <2>0. PICK p : p = Head(todo)
    OBVIOUS
  <2>1. /\ config' = config /\ All' = All /\ manifest' = manifest
        /\ todo' = todo /\ saving' = saving /\ over' = over /\ todo # <<>>
    BY <2>0, <1>2, <1>4 DEF BeginPiece
  <2>2. p \in Ids(todo) /\ todo \in Seq(All)
    BY <2>0, <2>1 DEF PackInv, Ids
  <2>3. files' = [q \in DOMAIN files \cup {p} |-> IF q = p THEN "part" ELSE files[q]]
    BY <2>0, <1>4 DEF BeginPiece
  <2>4. ASSUME NEW q, Done(q), q # p PROVE Done(q)'
    BY <2>3, <2>4 DEF Done
  <2>5. files' = [q \in DOMAIN files' |-> files'[q]]
    BY <2>3
  <2>6. Ids(todo)' = Ids(todo)
    BY <2>1 DEF Ids
  <2>7. \A q \in All : q \in Ids(todo) \/ Done(q)'
    BY <2>1, <2>2, <2>4 DEF PackInv
  <2> QED BY <2>1, <2>2, <2>5, <2>6, <2>7 DEF PackInv
<1>5. CASE EndPiece
  <2>0. PICK p : p = Head(todo)
    OBVIOUS
  <2>1. /\ config' = config /\ All' = All /\ over' = over /\ todo # <<>>
        /\ todo' = Tail(todo) /\ p \in DOMAIN files /\ manifest' = manifest
        /\ saving' = IF todo' = <<>> THEN "due" ELSE "no"
    BY <2>0, <1>2, <1>5 DEF EndPiece
  <2>2. files' = [files EXCEPT ![p] = "whole"]
    BY <2>0, <1>5 DEF EndPiece
  <2>3. todo \in Seq(All) /\ Tail(todo) \in Seq(All)
    BY <2>1 DEF PackInv
  <2>4. Ids(todo) \subseteq {p} \cup Ids(Tail(todo))
    <3>1. SUFFICES ASSUME NEW i \in 1 .. Len(todo), i # 1
                   PROVE  todo[i] \in Ids(Tail(todo))
      BY <2>0, <2>3 DEF Ids
    <3>2. i - 1 \in 1 .. Len(Tail(todo)) /\ Tail(todo)[i - 1] = todo[i]
      BY <2>0, <2>1, <2>3, <3>1
    <3>3. DOMAIN Tail(todo) = 1 .. Len(Tail(todo)) BY <2>3
    <3> QED BY <3>2, <3>3 DEF Ids
  <2>5. /\ Done(p)'
        /\ \A q : Done(q) => Done(q)'
    <3>1. DOMAIN files' = DOMAIN files BY <2>2
    <3>2. files'[p] = "whole" BY <2>1, <2>2
    <3>3. \A q \in DOMAIN files : q # p => files'[q] = files[q] BY <2>2
    <3> QED BY <2>1, <3>1, <3>2, <3>3 DEF Done
  <2>6. \A q \in All : q \in Ids(Tail(todo)) \/ Done(q)'
    <3>1. \A q \in All : q \in Ids(todo) \/ Done(q) BY <2>1 DEF PackInv
    <3> QED BY <2>4, <2>5, <3>1
  <2>7. files' = [q \in DOMAIN files' |-> files'[q]]
    BY <2>2
  <2>8. Ids(todo)' = Ids(Tail(todo))
    BY <2>1 DEF Ids
  <2>9. todo' = <<>> => \A q \in All : Done(q)'
    BY <2>1, <2>6 DEF Ids
  <2>10. manifest' # {} => over'
    BY <2>1 DEF PackInv
  <2>11. config' \in Configs /\ manifest' \in {{}, All}
    BY <2>1 DEF PackInv
  <2>12. /\ saving' \in {"no", "due", "part"}
         /\ saving' # "no" => todo' = <<>> /\ \A q \in All : Done(q)'
    BY <2>1, <2>9
  <2> QED BY <2>1, <2>3, <2>6, <2>7, <2>8, <2>10, <2>11, <2>12 DEF PackInv
<1>6. CASE PackKilled
  <2>1. /\ config' = config /\ All' = All /\ manifest' = manifest /\ files' = files
        /\ over' = over /\ todo' = <<>> /\ saving' = "no"
    BY <1>2, <1>6 DEF PackKilled
  <2> QED BY <2>1 DEF PackInv, Done, Ids
<1>7. CASE BeginManifest \/ EndManifest
  <2>1. /\ config' = config /\ All' = All /\ files' = files /\ todo' = todo
        /\ saving # "no" /\ saving' \in {"no", "part"}
    BY <1>2, <1>7 DEF BeginManifest, EndManifest
  <2>2. manifest' \in {{}, All}
    BY <1>7 DEF BeginManifest, EndManifest, All
  <2>3. todo = <<>> /\ \A p \in All : Done(p)
    BY <2>1 DEF PackInv
  <2> QED BY <2>1, <2>2, <2>3 DEF PackInv, Done, Ids
<1> QED BY <1>1, <1>3, <1>4, <1>5, <1>6, <1>7 DEF Pack

LEMMA PackWhole == PackInv => PackedWhole
BY DEF PackInv, PackedWhole, Whole, HasPiece, Done

\* A directory whose manifest can be read is whole (packer.py, pack()), for every model
\* and however often packing was killed, unless a pack was started over it and has not
\* ended.
THEOREM PackedAlwaysWhole == PackerInit /\ [][Pack]_pvars => []PackedWhole
<1>1. PackerInit => PackInv
  BY PackInit
<1>2. PackInv /\ [Pack]_pvars => PackInv'
  BY PackNext
<1>3. PackInv => PackedWhole
  BY PackWhole
<1> QED BY <1>1, <1>2, <1>3, PTL

------------------------------------------------------------------------------
(* The engine. *)

vars == <<pvars, evars>>

------------------------------------------------------------------------------
(* The pieces of a packed model. *)

LEMMA Whose ==
  ASSUME config \in Configs, NEW p
  PROVE  p \in All <=>
           \/ p \in Around(config)
           \/ \E l \in Layers(config) :
                \/ ~Split(config, l) /\ p = LayerPiece(l)
                \/ /\ Split(config, l)
                   /\ p = CorePiece(l) \/ \E e \in Experts(config) : p = ExpertPiece(l, e)
<1>1. config.n \in Nat /\ config.experts \in Nat
  BY PackerAssumption
<1>2. All = Around(config) \cup LayersIds(config, config.n)
  BY <1>1, PiecesAre DEF All
<1>3. p \in LayersIds(config, config.n) <=>
        \E l \in Layers(config) : p \in Ids(LayerPieces(config, l))
  BY DEF LayersIds, Layers
<1>4. ASSUME NEW l
      PROVE  p \in Ids(LayerPieces(config, l)) <=>
               \/ ~Split(config, l) /\ p = LayerPiece(l)
               \/ /\ Split(config, l)
                  /\ p = CorePiece(l) \/ \E e \in Experts(config) : p = ExpertPiece(l, e)
  <2>1. Ids(LayerPieces(config, l)) =
              IF Split(config, l)
                THEN {CorePiece(l)} \cup {ExpertPiece(l, e) : e \in Experts(config)}
                ELSE {LayerPiece(l)}
    BY <1>1, LayerIds
  <2> QED BY <2>1
<1> QED BY <1>2, <1>3, <1>4

\* Pieces of different kinds, and of different layers, are different.
LEMMA Apart ==
  ASSUME NEW l, NEW j, NEW e
  PROVE  /\ CorePiece(l) \notin Around(config) /\ CorePiece(l) # LayerPiece(j)
         /\ CorePiece(l) # ExpertPiece(j, e)
         /\ CorePiece(l) = CorePiece(j) => l = j
<1>1. Len(CorePiece(l)) = 2 /\ Len(LayerPiece(j)) = 2 /\ Len(ExpertPiece(j, e)) = 3
  BY DEF CorePiece, LayerPiece, ExpertPiece
<1>2. \A p \in Around(config) : Len(p) = 1
  BY DEF Around
<1>3. CorePiece(l)[1] = "core" /\ LayerPiece(j)[1] = "layer"
  BY DEF CorePiece, LayerPiece
<1>4. CorePiece(l)[2] = l /\ CorePiece(j)[2] = j
  BY DEF CorePiece
<1> QED BY <1>1, <1>2, <1>3, <1>4

LEMMA Named ==
  ASSUME NEW l, NEW e
  PROVE  /\ Head(LayerPiece(l)) = "layer" /\ Head(CorePiece(l)) = "core"
         /\ Head(ExpertPiece(l, e)) = "expert"
BY DEF LayerPiece, CorePiece, ExpertPiece

\* A layer has a core piece if it is split, and then it has its experts; any other has
\* a piece of its own.
LEMMA PieceKinds ==
  ASSUME config \in Configs, manifest = All
  PROVE  /\ \A l \in CoreLayers : l \in Layers(config) /\ Split(config, l)
         /\ \A l \in Layers(config) : Split(config, l) => l \in CoreLayers
         /\ \A l \in Layers(config) : PrefetchPid(l) \in Streamed
         /\ \A l \in Layers(config) \ CoreLayers : LayerPiece(l) \in Streamed
         /\ \A l \in CoreLayers :
              /\ CorePiece(l) \in Streamed
              /\ \A e \in Experts(config) : ExpertPiece(l, e) \in Streamed
         /\ HotSet \subseteq manifest
<1>1. ASSUME NEW l \in CoreLayers PROVE l \in Layers(config) /\ Split(config, l)
  <2>1. l \in Layers(config) /\ CorePiece(l) \in All
    BY DEF CoreLayers, HasPiece
  <2>2. PICK j \in Layers(config) :
          \/ ~Split(config, j) /\ CorePiece(l) = LayerPiece(j)
          \/ /\ Split(config, j)
             /\ \/ CorePiece(l) = CorePiece(j)
                \/ \E e \in Experts(config) : CorePiece(l) = ExpertPiece(j, e)
    BY <2>1, Whose, Apart
  <2> QED BY <2>1, <2>2, Apart
<1>2. ASSUME NEW l \in Layers(config), Split(config, l)
      PROVE  /\ l \in CoreLayers /\ CorePiece(l) \in Streamed
             /\ \A e \in Experts(config) : ExpertPiece(l, e) \in Streamed
  <2>1. CorePiece(l) \in manifest
    BY <1>2, Whose
  <2>2. \A e \in Experts(config) : ExpertPiece(l, e) \in manifest
    BY <1>2, Whose
  <2> QED BY <2>1, <2>2, Named DEF CoreLayers, HasPiece, Streamed
<1>3. ASSUME NEW l \in Layers(config), l \notin CoreLayers PROVE LayerPiece(l) \in Streamed
  <2>1. LayerPiece(l) \in manifest
    BY <1>2, <1>3, Whose
  <2> QED BY <2>1, Named DEF Streamed
<1>4. ASSUME NEW l \in Layers(config) PROVE PrefetchPid(l) \in Streamed
  <2>1. HasPiece(CorePiece(l)) <=> l \in CoreLayers
    BY DEF CoreLayers
  <2> QED BY <1>1, <1>2, <1>3, <2>1 DEF PrefetchPid
<1>5. HotSet \subseteq manifest
  BY Whose DEF HotSet, Around
<1> QED BY <1>1, <1>2, <1>3, <1>4, <1>5

------------------------------------------------------------------------------
(* The cache. *)

LEMMA KeptOf ==
  ASSUME NEW R, NEW S, NEW p, NEW X \in Kept(R, S, p)
  PROVE  X \subseteq R
BY DEF Kept

LEMMA GetStreamed ==
  ASSUME NEW p \in Streamed, Get(p), resident \subseteq Streamed, staged \subseteq Streamed
  PROVE  resident' \subseteq Streamed /\ staged' \subseteq Streamed
BY KeptOf DEF Get

LEMMA QueuedStreamed ==
  ASSUME NEW S, S \subseteq Streamed, NEW b
  PROVE  \A a \in Queued(S, b) : a[1] \in Streamed
BY DEF Queued

------------------------------------------------------------------------------
(* The inductive invariant. *)

\* An engine is opened over a whole directory, which nobody packs while it is open.
Disk == PackInv /\ (opened => manifest = All /\ todo = <<>> /\ ~over)

Fields == run = [kind |-> run.kind, n |-> run.n, padded |-> run.padded,
                 layer |-> run.layer, base |-> run.base, masks |-> run.masks]

\* Where a pass may stand, and what there is while the engine is closed.
Standing ==
  /\ opened \in BOOLEAN /\ option \in Options /\ budget \in Budgets
  /\ at \in {"idle", "layer", "scatter", "run", "commit"}
  /\ ~opened => at = "idle" /\ lazy = FALSE
  /\ Fields
  /\ at \in {"layer", "scatter", "run"} => layer \in Layers(config)

\* What the cache holds or is asked for: pieces that are streamed.
Streaming ==
  /\ resident \subseteq Streamed /\ staged \subseteq Streamed
  /\ \A a \in asked : a[1] \in Streamed
  /\ ~opened => resident = {} /\ staged = {} /\ asked = {}

\* Experts are routed to, and remembered, in split layers alone.
Routing ==
  /\ ~opened => history = NoFn
  /\ \A j \in DOMAIN history : j \in CoreLayers /\ history[j].fired \subseteq Experts(config)
  /\ at = "scatter" =>
       layer \in CoreLayers /\ left \subseteq fired /\ fired \subseteq Experts(config)

\* The slot was built for the layers of its key; the rows already scattered are the
\* layer's own.
Slotted ==
  /\ slot = [key |-> slot.key, built |-> slot.built, weights |-> slot.weights]
  /\ slot.key = <<"unset">> \/ slot.key = LayerKey(config, slot.built)
  /\ at \in {"scatter", "run"} => slot.weights = layer /\ slot.key = LayerKey(config, layer)
  /\ bufs \in [Experts(config) -> Int]
  /\ at = "scatter" => \A e \in fired \ left : bufs[e] = layer

\* The barrier is skipped only while everything fits.
Skipping == lazy => FullyResident

EInv == Disk /\ Standing /\ Streaming /\ Routing /\ Slotted /\ Skipping

LEMMA EInvInit == Init => EInv
<1> SUFFICES ASSUME Init PROVE EInv
  OBVIOUS
<1>1. Disk
  BY PackInit DEF Init, EngineInit, Disk
<1>2. Standing
  BY DEF Init, EngineInit, Standing, Fields, Idle
<1>3. Streaming
  BY DEF Init, EngineInit, Streaming
<1>4. Routing
  BY DEF Init, EngineInit, Routing, NoFn
<1>5. Slotted
  BY DEF Init, EngineInit, Slotted, Unbuilt, NoRows
<1>6. Skipping
  BY DEF Init, EngineInit, Skipping
<1> QED BY <1>1, <1>2, <1>3, <1>4, <1>5, <1>6 DEF EInv

\* A step of an engine that stays open.
Work ==
  \/ NewStore
  \/ \E n \in 1 .. MaxTokens :
       \/ \E padded \in BOOLEAN : StartForward(n, padded)
       \/ StartVerify(n) \/ StartTree(n)
  \/ LoadLayer \/ LoadCore \/ Scatter \/ RunLayer \/ Mix
  \/ \E m \in 0 .. MaxTokens : CommitVerified(m) \/ CommitPath(m)
  \/ \E a \in asked : Serve(a)

\* The ways to go on: the engine is closed and packing goes on, it is opened or closed,
\* or it works.
LEMMA Steps ==
  ASSUME EInv, [Next]_vars
  PROVE  \/ UNCHANGED vars
         \/ ~opened /\ Pack /\ UNCHANGED evars
         \/ UNCHANGED pvars /\ (Open \/ Close)
         \/ /\ Work /\ opened /\ opened'
            /\ UNCHANGED <<pvars, lazy, option, budget>>
<1>1. CASE UNCHANGED vars
  BY <1>1
<1>2. CASE ~opened /\ Pack /\ UNCHANGED evars
  BY <1>2
<1>3. CASE Stream /\ UNCHANGED pvars
  <2>1. Open \/ Close \/ Work
    BY <1>3 DEF Stream, Work
  <2>2. ASSUME Work PROVE opened /\ opened' /\ UNCHANGED <<lazy, option, budget>>
    <3>1. at # "idle" => opened
      BY DEF EInv, Standing
    <3>2. asked # {} => opened
      BY DEF EInv, Streaming
    <3>3. CASE NewStore
      BY <3>3 DEF NewStore, settings, EInv, Standing
    <3>4. ASSUME NEW k, NEW n, NEW p, Begin(k, n, p)
          PROVE  opened /\ opened' /\ UNCHANGED <<lazy, option, budget>>
      BY <3>4 DEF Begin, settings
    <3>5. CASE \E n \in 1 .. MaxTokens :
                 \/ \E padded \in BOOLEAN : StartForward(n, padded)
                 \/ StartVerify(n) \/ StartTree(n)
      BY <3>4, <3>5 DEF StartForward, StartVerify, StartTree
    <3>6. CASE LoadLayer
      BY <3>1, <3>6 DEF LoadLayer, settings
    <3>7. CASE LoadCore
      BY <3>1, <3>7 DEF LoadCore, settings
    <3>8. CASE Scatter
      BY <3>1, <3>8 DEF Scatter, settings
    <3>9. CASE RunLayer
      BY <3>1, <3>9 DEF RunLayer, settings
    <3>10. CASE Mix
      BY <3>1, <3>10 DEF Mix, settings
    <3>11. CASE \E m \in 0 .. MaxTokens : CommitVerified(m) \/ CommitPath(m)
      BY <3>1, <3>11 DEF CommitVerified, CommitPath, settings
    <3>12. CASE \E a \in asked : Serve(a)
      BY <3>2, <3>12 DEF Serve, settings
    <3> QED BY <2>2, <3>3, <3>5, <3>6, <3>7, <3>8, <3>9, <3>10, <3>11, <3>12 DEF Work
  <2> QED BY <1>3, <2>1, <2>2
<1> QED BY <1>1, <1>2, <1>3 DEF Next, vars

------------------------------------------------------------------------------
(* It is kept, part by part. *)

LEMMA Same ==
  ASSUME UNCHANGED pvars
  PROVE  /\ config' = config /\ manifest' = manifest
         /\ All' = All /\ CoreLayers' = CoreLayers /\ Streamed' = Streamed
<1>1. config' = config /\ manifest' = manifest
  BY DEF pvars
<1>2. CoreLayers' = CoreLayers
  BY <1>1 DEF CoreLayers, HasPiece
<1>3. Streamed' = Streamed
  BY <1>1 DEF Streamed
<1> QED BY <1>1, <1>2, <1>3 DEF All

\* What packing leaves alone.
LEMMA SameModel == Pack => config' = config
BY DEF Pack, StartPack, BeginPiece, EndPiece, BeginManifest, EndManifest, PackKilled

LEMMA Starts ==
  ASSUME \E n \in 1 .. MaxTokens :
           \/ \E padded \in BOOLEAN : StartForward(n, padded)
           \/ StartVerify(n) \/ StartTree(n)
  PROVE  \E k \in {"forward", "verify", "tree"}, n \in 1 .. MaxTokens, p \in BOOLEAN :
           Begin(k, n, p) /\ history' \in {history, NoFn}
<1>1. PICK n \in 1 .. MaxTokens :
        \/ \E padded \in BOOLEAN : StartForward(n, padded)
        \/ StartVerify(n) \/ StartTree(n)
  OBVIOUS
<1>2. CASE \E padded \in BOOLEAN : StartForward(n, padded)
  BY <1>2 DEF StartForward, ResetHistory
<1>3. CASE StartVerify(n)
  BY <1>3 DEF StartVerify, ResetHistory
<1>4. CASE StartTree(n)
  BY <1>4 DEF StartTree
<1> QED BY <1>1, <1>2, <1>3, <1>4

LEMMA Advances ==
  ASSUME Standing, at \in {"layer", "scatter", "run"}, config.n \in Nat, NEW S, Advance(S)
  PROVE  /\ Fields'
         /\ at' \in {"layer", "commit", "idle"}
         /\ at' = "layer" => layer' = layer + 1 /\ layer + 1 \in Layers(config)
<1>1. CASE layer + 1 < config.n
  <2>1. at' = "layer" /\ run' = [run EXCEPT !.layer = @ + 1]
    BY <1>1 DEF Advance
  <2>2. run' = [kind |-> run.kind, n |-> run.n, padded |-> run.padded,
                layer |-> run.layer + 1, base |-> run.base, masks |-> run.masks]
    BY <2>1 DEF Standing, Fields
  <2>3. Fields' /\ layer' = layer + 1
    BY <2>2 DEF Fields, layer
  <2>4. layer + 1 \in Layers(config)
    BY <1>1 DEF Standing, Layers
  <2> QED BY <2>1, <2>3, <2>4
<1>2. CASE ~ (layer + 1 < config.n)
  <2>1. at' \in {"commit", "idle"} /\ run' = run
    BY <1>2 DEF Advance
  <2> QED BY <2>1 DEF Standing, Fields
<1> QED BY <1>1, <1>2

LEMMA DiskKept ==
  ASSUME EInv, [Next]_vars
  PROVE  Disk'
<1>1. CASE ~opened /\ Pack /\ UNCHANGED evars
  <2>1. PackInv'
    BY <1>1, PackNext DEF EInv, Disk
  <2>2. ~opened'
    BY <1>1 DEF evars
  <2> QED BY <2>1, <2>2 DEF Disk
<1>2. CASE UNCHANGED pvars
  <2>1. PackInv'
    BY <1>2, PackNext DEF EInv, Disk
  <2>2. All' = All /\ manifest' = manifest /\ todo' = todo /\ over' = over
    BY <1>2, Same DEF pvars
  <2>3. CASE opened
    BY <2>1, <2>2, <2>3 DEF Disk, EInv
  <2>4. CASE Open
    BY <2>1, <2>2, <2>4 DEF Disk, EInv, Open, PackInv
  <2>5. CASE ~opened'
    BY <2>1, <2>5 DEF Disk
  <2>6. opened' => opened \/ Open
    BY <1>2, Steps DEF vars, evars, Close
  <2> QED BY <2>3, <2>4, <2>5, <2>6
<1> QED BY <1>1, <1>2, Steps DEF vars

LEMMA StandingKept ==
  ASSUME EInv, [Next]_vars
  PROVE  Standing'
<1>1. CASE UNCHANGED vars
  <2>1. /\ opened' = opened /\ option' = option /\ budget' = budget /\ at' = at
        /\ lazy' = lazy /\ run' = run /\ config' = config
    BY <1>1 DEF vars, pvars, evars, settings
  <2> QED BY <2>1 DEF EInv, Standing, Fields, layer
<1>2. CASE ~opened /\ Pack /\ UNCHANGED evars
  <2>1. /\ opened' = opened /\ option' = option /\ budget' = budget /\ at' = at
        /\ lazy' = lazy /\ run' = run /\ config' = config
    BY <1>2, SameModel DEF evars, settings
  <2> QED BY <2>1 DEF EInv, Standing, Fields, layer
<1>3. CASE UNCHANGED pvars /\ Open
  <2>1. /\ opened' /\ option' = option /\ budget' = budget /\ at' = at
        /\ run' = run /\ config' = config
    BY <1>3, Same DEF Open, settings
  <2> QED BY <2>1 DEF EInv, Standing, Fields, layer
<1>4. CASE UNCHANGED pvars /\ Close
  <2>1. /\ opened' = FALSE /\ option' = option /\ budget' = budget /\ at' = "idle"
        /\ lazy' = FALSE /\ run' = run /\ config' = config
    BY <1>4, Same DEF Close, settings
  <2> QED BY <2>1 DEF EInv, Standing, Fields, layer
<1>5. CASE /\ Work /\ opened /\ opened'
           /\ UNCHANGED <<pvars, lazy, option, budget>>
  <2>1. config' = config /\ config.n \in Nat \ {0} /\ Standing
    BY <1>5, Same, PackerAssumption DEF EInv, Disk, PackInv
  <2>2. SUFFICES /\ at' \in {"idle", "layer", "scatter", "run", "commit"}
                 /\ Fields'
                 /\ at' \in {"layer", "scatter", "run"} => layer' \in Layers(config)
    BY <1>5, <2>1 DEF Standing
  <2>3. CASE run' = run /\ (at' = at \/ at' = "idle")
    BY <2>1, <2>3 DEF Standing, Fields, layer
  <2>4. CASE run' = run /\ at = "layer" /\ at' \in {"run", "scatter"}
    BY <2>1, <2>4 DEF Standing, Fields, layer
  <2>5. CASE \E n \in 1 .. MaxTokens :
               \/ \E padded \in BOOLEAN : StartForward(n, padded)
               \/ StartVerify(n) \/ StartTree(n)
    <3>1. PICK k, n, p : Begin(k, n, p)
      BY <2>5, Starts
    <3>2. /\ at' = "layer"
          /\ run' = [kind |-> k, n |-> n, padded |-> p, layer |-> 0, base |-> kv,
                     masks |-> [l \in Layers(config) |-> Columns(l, n, p)]]
      BY <3>1 DEF Begin
    <3>3. Fields' /\ layer' = 0
      BY <3>2 DEF Fields, layer
    <3> QED BY <2>1, <3>2, <3>3 DEF Layers
  <2>6. CASE RunLayer \/ Mix
    <3>1. PICK S : Advance(S)
      BY <2>6 DEF RunLayer, Mix
    <3>2. at \in {"layer", "scatter", "run"}
      BY <2>6 DEF RunLayer, Mix
    <3> QED BY <2>1, <3>1, <3>2, Advances
  <2>7. CASE LoadLayer \/ LoadCore
    BY <2>4, <2>7 DEF LoadLayer, LoadCore
  <2>8. CASE NewStore \/ Scatter \/ \E a \in asked : Serve(a)
    BY <2>3, <2>8 DEF NewStore, Scatter, Serve
  <2>9. CASE \E m \in 0 .. MaxTokens : CommitVerified(m) \/ CommitPath(m)
    BY <2>3, <2>9 DEF CommitVerified, CommitPath
  <2> QED BY <1>5, <2>5, <2>6, <2>7, <2>8, <2>9 DEF Work
<1> QED BY <1>1, <1>2, <1>3, <1>4, <1>5, Steps

LEMMA AheadLayers ==
  ASSUME Standing, config \in Configs, layer \in Layers(config)
  PROVE  Ahead(layer) \subseteq Layers(config)
<1>1. config.n \in Nat /\ option.window \in Nat
  BY PackerAssumption, EngineAssumption DEF Standing
<1> QED BY <1>1 DEF Ahead, Lesser, Layers

LEMMA AheadStreamed ==
  ASSUME Standing, config \in Configs, manifest = All, layer \in Layers(config)
  PROVE  {PrefetchPid(j) : j \in Ahead(layer)} \subseteq Streamed
BY AheadLayers, PieceKinds

LEMMA GuessesStreamed ==
  ASSUME EInv, opened
  PROVE  Guesses(layer) \subseteq Streamed
<1>1. config \in Configs /\ manifest = All
  BY DEF EInv, Disk, PackInv
<1>2. ASSUME NEW j, NEW e \in SpecFired(j) PROVE ExpertPiece(j, e) \in Streamed
  <2>1. j \in CoreLayers /\ e \in Experts(config)
    BY <1>2 DEF SpecFired, EInv, Routing
  <2> QED BY <1>1, <2>1, PieceKinds
<1> QED BY <1>2 DEF Guesses

\* The next expert to scatter is one of those left.
LEMMA LeastLeft ==
  ASSUME left \subseteq Experts(config), left # {}
  PROVE  (CHOOSE e \in left : \A i \in left : e <= i) \in left
<1>1. left \subseteq Nat
  BY DEF Experts
<1>2. IsWellFoundedOn(OpToRel(<, Nat), Nat)
  BY NatLessThanWellFounded
<1>3. PICK x \in left : \A y \in left : ~ (<<y, x>> \in OpToRel(<, Nat))
  BY <1>1, <1>2, WFMin
<1>4. \A i \in left : x <= i
  <2>1. SUFFICES ASSUME NEW i \in left PROVE x <= i
    OBVIOUS
  <2>2. ~ (i < x)
    BY <1>1, <1>3 DEF OpToRel
  <2> QED BY <1>1, <2>2
<1> QED BY <1>4

LEMMA StreamingKept ==
  ASSUME EInv, [Next]_vars
  PROVE  Streaming'
<1>1. CASE UNCHANGED vars
  <2>1. /\ opened' = opened /\ resident' = resident /\ staged' = staged /\ asked' = asked
        /\ Streamed' = Streamed
    BY <1>1, Same DEF vars, evars, cached
  <2> QED BY <2>1 DEF EInv, Streaming
<1>2. CASE ~opened /\ Pack /\ UNCHANGED evars
  <2>1. opened' = opened /\ resident' = resident /\ staged' = staged /\ asked' = asked
    BY <1>2 DEF evars, cached
  <2> QED BY <1>2, <2>1 DEF EInv, Streaming
<1>3. CASE UNCHANGED pvars /\ (Open \/ Close)
  <2>1. Streamed' = Streamed
    BY <1>3, Same
  <2>2. CASE Open
    BY <2>1, <2>2 DEF Open, cached, EInv, Streaming
  <2>3. CASE Close
    BY <2>3 DEF Close, Streaming
  <2> QED BY <1>3, <2>2, <2>3
<1>4. CASE /\ Work /\ opened /\ opened'
           /\ UNCHANGED <<pvars, lazy, option, budget>>
  <2>1. Streamed' = Streamed /\ config \in Configs /\ manifest = All /\ Standing
    BY <1>4, Same DEF EInv, Disk, PackInv
  <2>2. /\ resident \subseteq Streamed /\ staged \subseteq Streamed
        /\ \A a \in asked : a[1] \in Streamed
    BY DEF EInv, Streaming
  <2>3. SUFFICES /\ resident' \subseteq Streamed /\ staged' \subseteq Streamed
                 /\ \A a \in asked' : a[1] \in Streamed
    BY <1>4, <2>1 DEF Streaming
  <2>4. CASE UNCHANGED cached
    BY <2>2, <2>4 DEF cached
  <2>5. CASE NewStore \/ RunLayer \/ \E m \in 0 .. MaxTokens : CommitVerified(m) \/ CommitPath(m)
    BY <2>4, <2>5 DEF NewStore, RunLayer, CommitVerified, CommitPath
  <2>6. CASE \E n \in 1 .. MaxTokens :
               \/ \E padded \in BOOLEAN : StartForward(n, padded)
               \/ StartVerify(n) \/ StartTree(n)
    <3>1. PICK k, n, p : Begin(k, n, p)
      BY <2>6, Starts
    <3> QED BY <2>2, <3>1 DEF Begin, BeginPass
  <2>7. CASE LoadLayer
    <3>1. layer \in Layers(config) \ CoreLayers
      BY <2>1, <2>7 DEF LoadLayer, Standing
    <3>2. LayerPiece(layer) \in Streamed
      BY <2>1, <3>1, PieceKinds
    <3>3. Get(LayerPiece(layer))
      BY <2>7 DEF LoadLayer
    <3>4. asked' = asked \cup Queued({PrefetchPid(j) : j \in Ahead(layer)}, FALSE)
      BY <2>7 DEF LoadLayer
    <3>5. \A a \in Queued({PrefetchPid(j) : j \in Ahead(layer)}, FALSE) : a[1] \in Streamed
      BY <2>1, <3>1, AheadStreamed, QueuedStreamed
    <3> QED BY <2>2, <3>2, <3>3, <3>4, <3>5, GetStreamed
  <2>8. CASE LoadCore
    <3>1. layer \in Layers(config) /\ layer \in CoreLayers
      BY <2>1, <2>8 DEF LoadCore, Standing
    <3>2. CorePiece(layer) \in Streamed
      BY <2>1, <3>1, PieceKinds
    <3>3. Get(CorePiece(layer))
      BY <2>8 DEF LoadCore
    <3>4. asked' = asked \cup Queued({PrefetchPid(j) : j \in Ahead(layer)}, FALSE)
                         \cup Queued(Guesses(layer), TRUE)
      BY <2>8 DEF LoadCore
    <3>5. \A a \in Queued({PrefetchPid(j) : j \in Ahead(layer)}, FALSE) : a[1] \in Streamed
      BY <2>1, <3>1, AheadStreamed, QueuedStreamed
    <3>6. \A a \in Queued(Guesses(layer), TRUE) : a[1] \in Streamed
      BY <1>4, GuessesStreamed, QueuedStreamed
    <3> QED BY <2>2, <3>2, <3>3, <3>4, <3>5, <3>6, GetStreamed
  <2>9. CASE Scatter
    <3>1. PICK e : e = CHOOSE x \in left : \A i \in left : x <= i
      OBVIOUS
    <3>2. Get(ExpertPiece(layer, e)) /\ left # {} /\ at = "scatter" /\ asked' = asked
      BY <2>9, <3>1 DEF Scatter
    <3>3. layer \in CoreLayers /\ left \subseteq Experts(config)
      BY <3>2 DEF EInv, Routing
    <3>4. e \in Experts(config)
      BY <3>1, <3>2, <3>3, LeastLeft
    <3>5. ExpertPiece(layer, e) \in Streamed
      BY <2>1, <3>3, <3>4, PieceKinds
    <3> QED BY <2>2, <3>2, <3>5, GetStreamed
  <2>10. CASE Mix
    <3>1. resident' = resident /\ staged' = staged /\ Lookahead
      BY <2>10 DEF Mix
    <3>2. CASE asked' = asked
      BY <2>2, <3>1, <3>2
    <3>3. CASE asked' # asked
      <4>1. PICK G \in [Peekable -> Predictions] :
              asked' = asked \cup
                Queued(UNION {{ExpertPiece(j, e) : e \in G[j]} : j \in Peekable}, TRUE)
        BY <3>1, <3>3 DEF Lookahead
      <4>2. ASSUME NEW j \in Peekable, NEW e \in G[j] PROVE ExpertPiece(j, e) \in Streamed
        <5>1. j \in CoreLayers
          BY DEF Peekable
        <5>2. e \in Experts(config)
          BY DEF Predictions
        <5> QED BY <2>1, <5>1, <5>2, PieceKinds
      <4>3. UNION {{ExpertPiece(j, e) : e \in G[j]} : j \in Peekable} \subseteq Streamed
        BY <4>2
      <4> QED BY <2>2, <3>1, <4>1, <4>3, QueuedStreamed
    <3> QED BY <3>2, <3>3
  <2>11. CASE \E a \in asked : Serve(a)
    <3>1. PICK a \in asked : Serve(a)
      BY <2>11
    <3>2. asked' \subseteq asked /\ a[1] \in Streamed
      BY <2>2, <3>1 DEF Serve
    <3>3. CASE UNCHANGED <<resident, staged>>
      BY <2>2, <3>2, <3>3
    <3>4. CASE /\ \E S \in SUBSET staged : staged' = S \cup {a[1]}
               /\ resident' \in Kept(resident, staged', a[1])
      BY <2>2, <3>2, <3>4, KeptOf
    <3>5. CASE resident' \in Kept(resident \cup {a[1]}, staged, a[1]) /\ UNCHANGED staged
      BY <2>2, <3>2, <3>5, KeptOf
    <3> QED BY <3>1, <3>3, <3>4, <3>5 DEF Serve
  <2> QED BY <1>4, <2>5, <2>6, <2>7, <2>8, <2>9, <2>10, <2>11 DEF Work
<1> QED BY <1>1, <1>2, <1>3, <1>4, Steps

LEMMA RoutingKept ==
  ASSUME EInv, [Next]_vars
  PROVE  Routing'
<1>1. CASE UNCHANGED vars
  <2>1. /\ opened' = opened /\ history' = history /\ at' = at /\ fired' = fired /\ left' = left
        /\ run' = run /\ config' = config /\ CoreLayers' = CoreLayers
    BY <1>1, Same DEF vars, evars, guessing, routed
  <2> QED BY <2>1 DEF EInv, Routing, layer, Experts
<1>2. CASE ~opened /\ Pack /\ UNCHANGED evars
  <2>1. opened' = opened /\ history' = history /\ at' = at /\ ~opened /\ at = "idle"
    BY <1>2 DEF evars, guessing, EInv, Standing
  <2>2. history = NoFn
    BY <2>1 DEF EInv, Routing
  <2> QED BY <2>1, <2>2 DEF Routing, NoFn
<1>3. CASE UNCHANGED pvars /\ Open
  <2>1. /\ history' = history /\ at' = at /\ opened' /\ at = "idle" /\ history = NoFn
    BY <1>3 DEF Open, guessing, EInv, Standing, Routing
  <2> QED BY <2>1 DEF Routing, NoFn
<1>4. CASE UNCHANGED pvars /\ Close
  <2>1. history' = NoFn /\ at' = "idle"
    BY <1>4 DEF Close
  <2> QED BY <2>1 DEF Routing, NoFn
<1>5. CASE /\ Work /\ opened /\ opened'
           /\ UNCHANGED <<pvars, lazy, option, budget>>
  <2>1. /\ CoreLayers' = CoreLayers /\ config' = config /\ Experts(config)' = Experts(config)
        /\ opened'
    BY <1>5, Same
  <2>2. \A j \in DOMAIN history : j \in CoreLayers /\ history[j].fired \subseteq Experts(config)
    BY DEF EInv, Routing
  <2>3. CASE history' \in {history, NoFn} /\ at' # "scatter"
    BY <2>1, <2>2, <2>3 DEF Routing, NoFn
  <2>4. CASE history' = history /\ at' = at /\ fired' = fired /\ left' \subseteq left /\ run' = run
    <3>1. layer' = layer
      BY <2>4 DEF layer
    <3> QED BY <2>1, <2>2, <2>4, <3>1 DEF Routing, EInv
  <2>5. CASE NewStore \/ LoadLayer \/ RunLayer \/ \E m \in 0 .. MaxTokens : CommitVerified(m) \/ CommitPath(m)
    <3>1. history' = history
      BY <2>5 DEF NewStore, LoadLayer, RunLayer, CommitVerified, CommitPath, guessing
    <3>2. at' # "scatter"
      BY <2>5 DEF NewStore, LoadLayer, RunLayer, CommitVerified, CommitPath, Advance
    <3> QED BY <2>3, <3>1, <3>2
  <2>6. CASE \E n \in 1 .. MaxTokens :
               \/ \E padded \in BOOLEAN : StartForward(n, padded)
               \/ StartVerify(n) \/ StartTree(n)
    <3>1. PICK k, n, p : Begin(k, n, p) /\ history' \in {history, NoFn}
      BY <2>6, Starts
    <3> QED BY <2>3, <3>1 DEF Begin
  <2>7. CASE LoadCore
    <3>1. history' = history /\ layer' = layer /\ layer \in CoreLayers
      BY <2>7 DEF LoadCore, guessing, layer
    <3>2. fired' \subseteq Experts(config) /\ left' \subseteq fired'
      BY <2>7 DEF LoadCore
    <3> QED BY <2>1, <2>2, <3>1, <3>2 DEF Routing
  <2>8. CASE Scatter \/ \E a \in asked : Serve(a)
    BY <2>4, <2>8 DEF Scatter, Serve, guessing, routed
  <2>9. CASE Mix
    <3>1. at' # "scatter" /\ at = "scatter"
      BY <2>9 DEF Mix, Advance
    <3>2. layer \in CoreLayers /\ fired \subseteq Experts(config)
      BY <3>1 DEF EInv, Routing
    <3>3. CASE history' = history
      BY <2>3, <3>1, <3>3
    <3>4. CASE history' = [j \in DOMAIN history \cup {layer} |->
               IF j = layer THEN [fired |-> fired, multi |-> Many] ELSE history[j]]
      <4>1. ASSUME NEW j \in DOMAIN history'
            PROVE  j \in CoreLayers /\ history'[j].fired \subseteq Experts(config)
        <5>1. CASE j = layer
          BY <3>2, <3>4, <5>1
        <5>2. CASE j # layer
          <6>1. j \in DOMAIN history /\ history'[j] = history[j]
            BY <3>4, <4>1, <5>2
          <6> QED BY <2>2, <6>1
        <5> QED BY <5>1, <5>2
      <4> QED BY <2>1, <3>1, <4>1 DEF Routing
    <3> QED BY <2>9, <3>3, <3>4 DEF Mix
  <2> QED BY <1>5, <2>5, <2>6, <2>7, <2>8, <2>9 DEF Work
<1> QED BY <1>1, <1>2, <1>3, <1>4, <1>5, Steps

\* No layer has the key of a slot that was built for none.
LEMMA KeyIsSet ==
  ASSUME NEW c, NEW l
  PROVE  LayerKey(c, l) # <<"unset">>
<1>1. Len(Gemma4Key(c, l)) = 3 /\ Len(<<"unset">>) = 1
  BY DEF Gemma4Key
<1>2. /\ <<"global">> # <<"unset">> /\ <<"sliding">> # <<"unset">> /\ <<"moe">> # <<"unset">>
      /\ <<"dense">> # <<"unset">> /\ <<>> # <<"unset">>
  OBVIOUS
<1>3. LayerKey(c, l) \in {Gemma4Key(c, l), <<"global">>, <<"sliding">>, <<"moe">>, <<"dense">>, <<>>}
  BY DEF LayerKey
<1> QED BY <1>1, <1>2, <1>3

\* _get_slot gives a slot of the layer's structure, with its weights.
LEMMA SlotReady ==
  ASSUME EInv, slot' = SlotFor(layer), bufs' = BufsFor(layer), UNCHANGED config,
         layer' = layer
  PROVE  /\ slot' = [key |-> slot'.key, built |-> slot'.built, weights |-> slot'.weights]
         /\ slot'.key = LayerKey(config, slot'.built)
         /\ slot'.weights = layer /\ slot'.key = LayerKey(config, layer)
         /\ bufs' \in [Experts(config) -> Int]
<1>1. CASE slot.key = LayerKey(config, layer)
  <2>1. slot' = [key |-> slot.key, built |-> slot.built, weights |-> layer]
    <3>1. slot' = [slot EXCEPT !.weights = layer]
      BY <1>1 DEF SlotFor
    <3>2. slot = [key |-> slot.key, built |-> slot.built, weights |-> slot.weights]
      BY DEF EInv, Slotted
    <3> QED BY <3>1, <3>2
  <2>2. slot.key = LayerKey(config, slot.built)
    BY <1>1, KeyIsSet DEF EInv, Slotted
  <2>3. bufs' \in [Experts(config) -> Int]
    BY <1>1 DEF BufsFor, EInv, Slotted
  <2> QED BY <1>1, <2>1, <2>2, <2>3
<1>2. CASE slot.key # LayerKey(config, layer)
  <2>1. slot' = [key |-> LayerKey(config, layer), built |-> layer, weights |-> layer]
    BY <1>2 DEF SlotFor
  <2>2. bufs' \in [Experts(config) -> Int]
    BY <1>2 DEF BufsFor, NoRows
  <2> QED BY <2>1, <2>2
<1> QED BY <1>1, <1>2

LEMMA SlottedKept ==
  ASSUME EInv, [Next]_vars
  PROVE  Slotted'
<1>1. ASSUME config' = config, UNCHANGED <<slot, bufs>>, at' \notin {"scatter", "run"}
      PROVE  Slotted'
  <2>1. slot' = slot /\ bufs' = bufs /\ Experts(config)' = Experts(config)
    BY <1>1
  <2> QED BY <1>1, <2>1 DEF EInv, Slotted
<1>2. ASSUME config' = config, UNCHANGED <<slot, bufs, at, fired, left, run>> PROVE Slotted'
  <2>1. slot' = slot /\ bufs' = bufs /\ layer' = layer /\ Experts(config)' = Experts(config)
    BY <1>2 DEF layer
  <2> QED BY <1>2, <2>1 DEF EInv, Slotted
<1>3. CASE UNCHANGED vars \/ (~opened /\ Pack /\ UNCHANGED evars)
  <2>1. UNCHANGED <<slot, bufs, at, fired, left, run>>
    BY <1>3 DEF vars, evars, built, routed
  <2>2. config' = config
    BY <1>3, SameModel DEF vars, pvars
  <2> QED BY <1>2, <2>1, <2>2
<1>4. CASE UNCHANGED pvars /\ Open
  <2>1. config' = config /\ UNCHANGED <<slot, bufs, at, fired, left, run>>
    BY <1>4, Same DEF Open, built, routed
  <2> QED BY <1>2, <2>1
<1>5. CASE UNCHANGED pvars /\ Close
  <2>1. config' = config /\ slot' = Unbuilt /\ bufs' = NoRows /\ at' = "idle"
    BY <1>5, Same DEF Close
  <2>2. Experts(config)' = Experts(config) /\ NoRows \in [Experts(config) -> Int]
    BY <2>1 DEF NoRows
  <2> QED BY <2>1, <2>2 DEF Slotted, Unbuilt
<1>6. CASE /\ Work /\ opened /\ opened'
           /\ UNCHANGED <<pvars, lazy, option, budget>>
  <2>1. config' = config /\ CoreLayers' = CoreLayers /\ Experts(config)' = Experts(config)
    BY <1>6, Same
  <2>2. CASE \/ NewStore \/ RunLayer \/ Mix
             \/ \E m \in 0 .. MaxTokens : CommitVerified(m) \/ CommitPath(m)
    <3>1. CASE NewStore
      BY <1>2, <2>1, <3>1 DEF NewStore, built, routed
    <3>2. CASE RunLayer \/ Mix
      BY <1>1, <2>1, <3>2 DEF RunLayer, Mix, Advance, built
    <3>3. CASE \E m \in 0 .. MaxTokens : CommitVerified(m) \/ CommitPath(m)
      BY <1>1, <2>1, <3>3 DEF CommitVerified, CommitPath, built
    <3> QED BY <2>2, <3>1, <3>2, <3>3
  <2>3. CASE \E n \in 1 .. MaxTokens :
               \/ \E padded \in BOOLEAN : StartForward(n, padded)
               \/ StartVerify(n) \/ StartTree(n)
    <3>1. PICK k, n, p : Begin(k, n, p)
      BY <2>3, Starts
    <3> QED BY <1>1, <2>1, <3>1 DEF Begin, built
  <2>4. CASE LoadLayer
    <3>1. slot' = SlotFor(layer) /\ bufs' = BufsFor(layer) /\ at' = "run" /\ layer' = layer
      BY <2>4 DEF LoadLayer, layer
    <3> QED BY <2>1, <3>1, SlotReady DEF Slotted
  <2>5. CASE LoadCore
    <3>1. /\ slot' = SlotFor(layer) /\ bufs' = BufsFor(layer) /\ at' = "scatter"
          /\ layer' = layer /\ fired' = left'
      BY <2>5 DEF LoadCore, layer
    <3> QED BY <2>1, <3>1, SlotReady DEF Slotted
  <2>6. CASE Scatter
    <3>1. PICK e : e = CHOOSE x \in left : \A i \in left : x <= i
      OBVIOUS
    <3>2. /\ at = "scatter" /\ at' = at /\ slot' = slot /\ fired' = fired /\ layer' = layer
          /\ bufs' = [bufs EXCEPT ![e] = layer] /\ left' = left \ {e} /\ left # {}
      BY <2>6, <3>1 DEF Scatter, layer
    <3>3. left \subseteq fired /\ fired \subseteq Experts(config) /\ bufs \in [Experts(config) -> Int]
      BY <3>2 DEF EInv, Routing, Slotted
    <3>4. e \in Experts(config)
      BY <3>1, <3>2, <3>3, LeastLeft
    <3>5. layer \in Int
      BY <3>2 DEF EInv, Standing, Layers
    <3>6. bufs' \in [Experts(config) -> Int]
      BY <3>2, <3>3, <3>5
    <3>7. ASSUME NEW i \in fired \ (left \ {e}) PROVE bufs'[i] = layer
      <4>1. CASE i = e
        BY <3>2, <3>3, <3>4, <4>1
      <4>2. CASE i # e
        BY <3>2, <3>3, <4>2 DEF EInv, Slotted
      <4> QED BY <4>1, <4>2
    <3>8. slot.weights = layer /\ slot.key = LayerKey(config, layer)
      BY <3>2 DEF EInv, Slotted
    <3>9. /\ slot = [key |-> slot.key, built |-> slot.built, weights |-> slot.weights]
          /\ slot.key = <<"unset">> \/ slot.key = LayerKey(config, slot.built)
      BY DEF EInv, Slotted
    <3> QED BY <2>1, <3>2, <3>6, <3>7, <3>8, <3>9 DEF Slotted
  <2>7. CASE \E a \in asked : Serve(a)
    BY <1>2, <2>1, <2>7 DEF Serve, built, routed
  <2> QED BY <1>6, <2>2, <2>3, <2>4, <2>5, <2>6, <2>7 DEF Work
<1>7. \/ UNCHANGED vars
      \/ ~opened /\ Pack /\ UNCHANGED evars
      \/ UNCHANGED pvars /\ Open
      \/ UNCHANGED pvars /\ Close
      \/ /\ Work /\ opened /\ opened'
         /\ UNCHANGED <<pvars, lazy, option, budget>>
  BY Steps
<1> QED BY <1>3, <1>4, <1>5, <1>6, <1>7

LEMMA SkippingKept ==
  ASSUME EInv, [Next]_vars
  PROVE  Skipping'
<1>1. ASSUME UNCHANGED <<pvars, option, budget>> PROVE FullyResident' = FullyResident
  <2>1. Streamed' = Streamed /\ Cores' = Cores /\ option' = option /\ budget' = budget
    BY <1>1, Same DEF Cores
  <2> QED BY <2>1 DEF FullyResident, ExpertShare
<1>2. CASE UNCHANGED vars
  <2>1. UNCHANGED <<pvars, option, budget>> /\ lazy' = lazy
    BY <1>2 DEF vars, evars, settings
  <2> QED BY <1>1, <2>1 DEF EInv, Skipping
<1>3. CASE ~opened /\ Pack /\ UNCHANGED evars
  <2>1. lazy' = lazy /\ lazy = FALSE
    BY <1>3 DEF evars, EInv, Standing
  <2> QED BY <2>1 DEF Skipping
<1>4. CASE UNCHANGED pvars /\ (Open \/ Close)
  <2>1. CASE Open
    <3>1. UNCHANGED <<pvars, option, budget>> /\ lazy' = FullyResident
      BY <1>4, <2>1 DEF Open, settings
    <3>2. FullyResident' = FullyResident
      BY <1>1, <3>1
    <3> QED BY <3>1, <3>2, Zenon DEF Skipping
  <2>2. CASE Close
    BY <2>2 DEF Close, Skipping
  <2> QED BY <1>4, <2>1, <2>2
<1>5. CASE /\ Work /\ opened /\ opened'
           /\ UNCHANGED <<pvars, lazy, option, budget>>
  <2>1. UNCHANGED <<pvars, option, budget>> /\ lazy' = lazy
    BY <1>5
  <2> QED BY <1>1, <2>1 DEF EInv, Skipping
<1> QED BY <1>2, <1>3, <1>4, <1>5, Steps

LEMMA EInvKept == EInv /\ [Next]_vars => EInv'
BY DiskKept, StandingKept, StreamingKept, RoutingKept, SlottedKept, SkippingKept DEF EInv

LEMMA EInvAlways == Spec => []EInv
<1>1. Init => EInv
  BY EInvInit
<1>2. EInv /\ [Next]_vars => EInv'
  BY EInvKept
<1>3. Spec => Init /\ [][Next]_vars
  BY DEF Spec, vars
<1> QED BY <1>1, <1>2, <1>3, PTL

------------------------------------------------------------------------------
(* What is asked for, and what a layer runs with. *)

\* A directory whose manifest can be read is whole, an engine running over it or not
\* (packer.py, pack(), and StreamingEngine's constructor).
THEOREM DirectoryWhole == Spec => []PackedWhole
<1>1. EInv => PackedWhole
  BY PackWhole DEF EInv, Disk
<1> QED BY <1>1, EInvAlways, PTL

\* Every piece that is fetched, warmed or guessed at is in the manifest and whole on
\* disk (engine.py, forward() and the prefetch helpers).
THEOREM OnlyWhatIsOnDisk == Spec => []AskedOnDisk
<1>1. ASSUME EInv, opened, NEW p \in HotSet \cup resident \cup staged \cup {a[1] : a \in asked}
      PROVE  Whole(p)
  <2>1. /\ config \in Configs /\ manifest = All /\ ~over /\ PackInv
    BY <1>1 DEF EInv, Disk, PackInv
  <2>2. p \in manifest
    <3>1. Streamed \subseteq manifest /\ HotSet \subseteq manifest
      BY <2>1, PieceKinds DEF Streamed
    <3> QED BY <1>1, <3>1 DEF EInv, Streaming
  <2>3. manifest # {} /\ \A q \in All : Done(q)
    BY <2>1, <2>2 DEF PackInv
  <2> QED BY <2>1, <2>2, <2>3 DEF Whole, HasPiece, Done
<1>2. EInv => AskedOnDisk
  BY <1>1 DEF AskedOnDisk
<1> QED BY <1>2, EInvAlways, PTL

\* A layer is computed with a slot of its structure, its own weights, and its own rows
\* of every expert its router fired (engine.py, _get_slot and _scatter_experts).
THEOREM WeightsAlwaysOwn == Spec => []OwnWeights
<1>1. ASSUME EInv, at = "run" \/ (at = "scatter" /\ left = {})
      PROVE  /\ LayerKey(config, slot.built) = LayerKey(config, layer)
             /\ slot.weights = layer
             /\ at = "scatter" => \A e \in fired : bufs[e] = layer
  <2>1. slot.weights = layer /\ slot.key = LayerKey(config, layer)
    BY <1>1 DEF EInv, Slotted
  <2>2. LayerKey(config, slot.built) = LayerKey(config, layer)
    <3>1. slot.key # <<"unset">>
      BY <2>1, KeyIsSet
    <3>2. slot.key = LayerKey(config, slot.built)
      BY <1>1, <3>1 DEF EInv, Slotted
    <3> QED BY <2>1, <3>2
  <2>3. at = "scatter" => \A e \in fired : bufs[e] = layer
    BY <1>1 DEF EInv, Slotted
  <2> QED BY <2>1, <2>2, <2>3
<1>2. EInv => OwnWeights
  BY <1>1 DEF OwnWeights
<1> QED BY <1>2, EInvAlways, PTL

------------------------------------------------------------------------------
(* Sums of sizes. *)

Some(s) == CHOOSE x \in s : TRUE

\* h gives the sums of f over the sets of T, as a fold computes them.
Totals(f, T, h) ==
  h = [s \in SUBSET T |-> IF s = {} THEN 0 ELSE f[Some(s)] + h[s \ {Some(s)}]]

\* The subsets of a finite set that have a given size, and what is left of one when an
\* element is taken away.
LEMMA Smaller ==
  ASSUME NEW s, IsFiniteSet(s), NEW x \in s
  PROVE  /\ IsFiniteSet(s \ {x})
         /\ Cardinality(s) \in Nat /\ Cardinality(s) # 0
         /\ Cardinality(s \ {x}) \in Nat /\ Cardinality(s \ {x}) = Cardinality(s) - 1
BY FS_RemoveElement, FS_CardinalityType, FS_EmptySet

\* Such sums exist.
LEMMA TotalsExist ==
  ASSUME NEW T, IsFiniteSet(T), NEW f
  PROVE  \E h : Totals(f, T, h)
<1> DEFINE D(m) == {s \in SUBSET T : Cardinality(s) <= m}
           Upto(m, h) ==
             h = [s \in D(m) |-> IF s = {} THEN 0 ELSE f[Some(s)] + h[s \ {Some(s)}]]
           S == {m \in Nat : \E h : Upto(m, h)}
<1>0. ASSUME NEW s \in SUBSET T
      PROVE  /\ IsFiniteSet(s) /\ Cardinality(s) \in Nat
             /\ Cardinality(s) = 0 <=> s = {}
             /\ Cardinality(s) <= Cardinality(T)
  BY FS_Subset, FS_CardinalityType, FS_EmptySet
<1>1. 0 \in S
  <2> DEFINE h == [s \in D(0) |-> 0]
  <2>1. \A s \in D(0) : s = {}
    BY <1>0
  <2>2. Upto(0, h)
    BY <2>1
  <2> QED BY <2>2
<1>2. ASSUME NEW m \in Nat, m \in S PROVE m + 1 \in S
  <2>1. PICK h : Upto(m, h)
    BY <1>2
  <2> DEFINE g == [s \in D(m + 1) |-> IF s = {} THEN 0 ELSE f[Some(s)] + h[s \ {Some(s)}]]
  <2>2. ASSUME NEW s \in D(m) PROVE g[s] = h[s]
    <3>1. s \in D(m + 1)
      BY <1>0
    <3>2. h[s] = IF s = {} THEN 0 ELSE f[Some(s)] + h[s \ {Some(s)}]
      BY <2>1
    <3> QED BY <3>1, <3>2
  <2>3. ASSUME NEW s \in D(m + 1), s # {} PROVE s \ {Some(s)} \in D(m)
    <3>1. Some(s) \in s
      BY <2>3 DEF Some
    <3>2. IsFiniteSet(s) /\ Cardinality(s) \in Nat /\ Cardinality(s) <= m + 1
      BY <1>0
    <3>3. Cardinality(s \ {Some(s)}) = Cardinality(s) - 1
      BY <3>1, <3>2, Smaller
    <3> QED BY <3>2, <3>3
  <2>4. \A s \in D(m + 1) :
          g[s] = IF s = {} THEN 0 ELSE f[Some(s)] + g[s \ {Some(s)}]
    <3>1. SUFFICES ASSUME NEW s \in D(m + 1), s # {}
                   PROVE  g[s] = f[Some(s)] + g[s \ {Some(s)}]
      OBVIOUS
    <3>2. g[s] = f[Some(s)] + h[s \ {Some(s)}]
      BY <3>1
    <3>3. g[s \ {Some(s)}] = h[s \ {Some(s)}]
      <4> HIDE DEF g, D
      <4> QED BY <2>2, <2>3, <3>1
    <3> HIDE DEF g, D
    <3> QED BY <3>2, <3>3
  <2>5. g = [s \in D(m + 1) |-> g[s]]
    OBVIOUS
  <2>6. Upto(m + 1, g)
    <3> HIDE DEF g, D
    <3> QED BY <2>4, <2>5
  <2> HIDE DEF g, Upto
  <2> QED BY <2>6
<1>3. Cardinality(T) \in S
  <2>1. Cardinality(T) \in Nat
    BY FS_CardinalityType
  <2> HIDE DEF S
  <2> QED BY <1>1, <1>2, <2>1, Climb
<1>4. D(Cardinality(T)) = SUBSET T
  BY <1>0
<1> HIDE DEF D
<1> QED BY <1>3, <1>4 DEF Totals

LEMMA TotalsStep ==
  ASSUME NEW T, NEW f, NEW h, Totals(f, T, h), NEW s \in SUBSET T
  PROVE  /\ s = {} => h[s] = 0
         /\ s # {} => /\ Some(s) \in s /\ Some(s) \in T /\ s \ {Some(s)} \in SUBSET T
                      /\ h[s] = f[Some(s)] + h[s \ {Some(s)}]
<1>1. h[s] = IF s = {} THEN 0 ELSE f[Some(s)] + h[s \ {Some(s)}]
  BY DEF Totals
<1>2. s # {} => Some(s) \in s
  BY DEF Some
<1> QED BY <1>1, <1>2

\* They are natural numbers.
LEMMA TotalsNat ==
  ASSUME NEW T, IsFiniteSet(T), NEW f \in [T -> Nat], NEW h, Totals(f, T, h)
  PROVE  \A s \in SUBSET T : h[s] \in Nat
<1> DEFINE S == {m \in Nat : \A s \in SUBSET T : Cardinality(s) = m => h[s] \in Nat}
<1>0. \A s \in SUBSET T : IsFiniteSet(s) /\ Cardinality(s) \in Nat
  BY FS_Subset, FS_CardinalityType
<1>9. \A s \in SUBSET T :
        /\ s = {} => h[s] = 0
        /\ s # {} => /\ Some(s) \in s /\ Some(s) \in T /\ s \ {Some(s)} \in SUBSET T
                     /\ h[s] = f[Some(s)] + h[s \ {Some(s)}]
  BY TotalsStep
<1>1. 0 \in S
  <2>1. SUFFICES ASSUME NEW s \in SUBSET T, Cardinality(s) = 0 PROVE h[s] \in Nat
    OBVIOUS
  <2>2. s = {}
    BY <1>0, <2>1, FS_EmptySet
  <2>3. h[s] = 0
    BY <1>9, <2>2
  <2> QED BY <2>3
<1>2. ASSUME NEW m \in Nat, m \in S PROVE m + 1 \in S
  <2>1. SUFFICES ASSUME NEW s \in SUBSET T, Cardinality(s) = m + 1 PROVE h[s] \in Nat
    OBVIOUS
  <2>2. s # {} /\ IsFiniteSet(s)
    BY <1>0, <2>1, FS_EmptySet
  <2>3. PICK y : y = Some(s)
    OBVIOUS
  <2>4. y \in s /\ y \in T /\ s \ {y} \in SUBSET T /\ h[s] = f[y] + h[s \ {y}]
    BY <1>9, <2>2, <2>3
  <2>5. Cardinality(s \ {y}) = m
    BY <2>1, <2>2, <2>4, Smaller
  <2>6. h[s \ {y}] \in Nat
    BY <1>2, <2>4, <2>5
  <2>7. f[y] \in Nat
    BY <2>4
  <2> QED BY <2>4, <2>6, <2>7
<1>3. \A s \in SUBSET T : Cardinality(s) \in S
  <2> HIDE DEF S
  <2> QED BY <1>0, <1>1, <1>2, Climb
<1> QED BY <1>3

\* Any element may be taken out first.
LEMMA TotalsAny ==
  ASSUME NEW T, IsFiniteSet(T), NEW f \in [T -> Nat], NEW h, Totals(f, T, h),
         NEW r \in SUBSET T, NEW z \in r
  PROVE  h[r] = f[z] + h[r \ {z}]
<1> DEFINE P(s) == h[s] \in Nat /\ \A x \in s : h[s] = f[x] + h[s \ {x}]
           S == {m \in Nat : \A s \in SUBSET T : Cardinality(s) = m => P(s)}
<1>0. \A s \in SUBSET T : IsFiniteSet(s) /\ Cardinality(s) \in Nat
  BY FS_Subset, FS_CardinalityType
<1>9. \A s \in SUBSET T :
        /\ s = {} => h[s] = 0
        /\ s # {} => /\ Some(s) \in s /\ Some(s) \in T /\ s \ {Some(s)} \in SUBSET T
                     /\ h[s] = f[Some(s)] + h[s \ {Some(s)}]
  BY TotalsStep
<1>1. 0 \in S
  <2>1. SUFFICES ASSUME NEW s \in SUBSET T, Cardinality(s) = 0 PROVE P(s)
    OBVIOUS
  <2>2. s = {}
    BY <1>0, <2>1, FS_EmptySet
  <2>3. h[s] = 0
    BY <1>9, <2>2
  <2> QED BY <2>2, <2>3
<1>2. ASSUME NEW m \in Nat, m \in S PROVE m + 1 \in S
  <2>1. SUFFICES ASSUME NEW s \in SUBSET T, Cardinality(s) = m + 1 PROVE P(s)
    OBVIOUS
  <2>2. s # {} /\ IsFiniteSet(s)
    BY <1>0, <2>1, FS_EmptySet
  <2>3. ASSUME NEW x \in s PROVE P(s \ {x})
    <3>1. Cardinality(s \ {x}) = m
      BY <2>1, <2>2, Smaller
    <3> HIDE DEF P
    <3> QED BY <1>2, <3>1
  <2>4. PICK y : y = Some(s)
    OBVIOUS
  <2>5. y \in s /\ y \in T /\ h[s] = f[y] + h[s \ {y}]
    BY <1>9, <2>2, <2>4
  <2>6. h[s \ {y}] \in Nat /\ h[s] \in Nat
    <3>1. \A t \in SUBSET T : h[t] \in Nat
      BY TotalsNat
    <3>2. s \ {y} \in SUBSET T
      OBVIOUS
    <3> QED BY <3>1, <3>2
  <2>7. ASSUME NEW x \in s PROVE h[s] = f[x] + h[s \ {x}]
    <3>1. CASE x = y
      BY <2>5, <3>1
    <3>2. CASE x # y
      <4>1. h[s \ {y}] = f[x] + h[(s \ {y}) \ {x}]
        BY <2>3, <2>5, <3>2
      <4>2. h[s \ {x}] = f[y] + h[(s \ {x}) \ {y}]
        BY <2>3, <2>5, <3>2
      <4>3. (s \ {y}) \ {x} = (s \ {x}) \ {y}
        OBVIOUS
      <4>4. h[(s \ {y}) \ {x}] \in Nat
        <5>1. (s \ {y}) \ {x} \in SUBSET T
          OBVIOUS
        <5> QED BY <5>1, TotalsNat
      <4>5. f[x] \in Nat /\ f[y] \in Nat
        BY <2>5
      <4> DEFINE a == f[x] b == f[y] c == h[(s \ {y}) \ {x}]
      <4>6. h[s] = b + (a + c) /\ h[s \ {x}] = b + c /\ a \in Nat /\ b \in Nat /\ c \in Nat
        BY <2>5, <4>1, <4>2, <4>3, <4>4, <4>5
      <4> HIDE DEF a, b, c
      <4>7. h[s] = a + h[s \ {x}]
        BY <4>6
      <4> QED BY <4>7 DEF a
    <3> QED BY <3>1, <3>2
  <2> QED BY <2>6, <2>7
<1>3. \A s \in SUBSET T : Cardinality(s) \in S
  <2> HIDE DEF S
  <2> QED BY <1>0, <1>1, <1>2, Climb
<1> HIDE DEF P
<1>4. \A s \in SUBSET T : P(s)
  BY <1>3
<1> QED BY <1>4 DEF P

\* A larger set has no smaller sum.
LEMMA TotalsGrow ==
  ASSUME NEW T, IsFiniteSet(T), NEW f \in [T -> Nat], NEW h, Totals(f, T, h),
         NEW R \in SUBSET T
  PROVE  h[R] <= h[T]
<1>9. \A s \in SUBSET T : \A x \in s : h[s] = f[x] + h[s \ {x}]
  <2>1. SUFFICES ASSUME NEW s \in SUBSET T, NEW x \in s PROVE h[s] = f[x] + h[s \ {x}]
    OBVIOUS
  <2> QED BY TotalsAny
<1> DEFINE S == {m \in Nat : \A s \in SUBSET T : R \subseteq s /\ Cardinality(s) = m => h[R] <= h[s]}
<1>0. \A s \in SUBSET T : IsFiniteSet(s) /\ Cardinality(s) \in Nat /\ h[s] \in Nat
  BY FS_Subset, FS_CardinalityType, TotalsNat
<1>1. 0 \in S
  <2>1. SUFFICES ASSUME NEW s \in SUBSET T, R \subseteq s, Cardinality(s) = 0 PROVE h[R] <= h[s]
    OBVIOUS
  <2>2. s = {}
    BY <1>0, <2>1, FS_EmptySet
  <2>3. R = s
    BY <2>1, <2>2
  <2>4. h[R] \in Nat
    BY <1>0
  <2> QED BY <2>3, <2>4
<1>2. ASSUME NEW m \in Nat, m \in S PROVE m + 1 \in S
  <2>1. SUFFICES ASSUME NEW s \in SUBSET T, R \subseteq s, Cardinality(s) = m + 1
                 PROVE  h[R] <= h[s]
    OBVIOUS
  <2>2. CASE s = R
    <3>1. h[R] \in Nat
      BY <1>0
    <3> QED BY <2>2, <3>1
  <2>3. CASE s # R
    <3>1. PICK x \in s : x \notin R
      BY <2>1, <2>3
    <3>2. Cardinality(s \ {x}) = m /\ s \ {x} \in SUBSET T /\ R \subseteq s \ {x}
      BY <1>0, <2>1, <3>1, Smaller
    <3>3. h[R] <= h[s \ {x}]
      BY <1>2, <3>2
    <3>4. h[s] = f[x] + h[s \ {x}]
      BY <1>9
    <3>5. h[R] \in Nat /\ h[s \ {x}] \in Nat /\ f[x] \in Nat
      BY <1>0, <3>2
    <3> QED BY <3>3, <3>4, <3>5
  <2> QED BY <2>2, <2>3
<1>3. \A s \in SUBSET T : Cardinality(s) \in S
  <2> HIDE DEF S
  <2> QED BY <1>0, <1>1, <1>2, Climb
<1>4. T \in SUBSET T
  OBVIOUS
<1> QED BY <1>3, <1>4

\* Nor do larger sizes give a smaller one.
LEMMA TotalsLeq ==
  ASSUME NEW T, IsFiniteSet(T), NEW R \in SUBSET T,
         NEW f \in [R -> Nat], NEW h, Totals(f, R, h),
         NEW g \in [T -> Nat], NEW k, Totals(g, T, k),
         \A x \in R : f[x] <= g[x]
  PROVE  \A s \in SUBSET R : h[s] <= k[s]
<1> DEFINE S == {m \in Nat : \A s \in SUBSET R : Cardinality(s) = m => h[s] <= k[s]}
<1>8. IsFiniteSet(R) /\ SUBSET R \subseteq SUBSET T
  BY FS_Subset
<1>0. \A s \in SUBSET R :
        IsFiniteSet(s) /\ Cardinality(s) \in Nat /\ h[s] \in Nat /\ k[s] \in Nat
  <2>1. \A s \in SUBSET T : k[s] \in Nat
    BY TotalsNat
  <2>2. \A s \in SUBSET R : h[s] \in Nat
    BY <1>8, TotalsNat
  <2> QED BY <1>8, <2>1, <2>2, FS_Subset, FS_CardinalityType
<1>9. \A s \in SUBSET R :
        /\ s = {} => h[s] = 0
        /\ s # {} => /\ Some(s) \in s /\ Some(s) \in R /\ s \ {Some(s)} \in SUBSET R
                     /\ h[s] = f[Some(s)] + h[s \ {Some(s)}]
  BY TotalsStep
<1>10. \A s \in SUBSET R : s # {} => k[s] = g[Some(s)] + k[s \ {Some(s)}]
  <2>1. \A s \in SUBSET T : s # {} => k[s] = g[Some(s)] + k[s \ {Some(s)}]
    BY TotalsStep
  <2> QED BY <1>8, <2>1
<1>1. 0 \in S
  <2>1. SUFFICES ASSUME NEW s \in SUBSET R, Cardinality(s) = 0 PROVE h[s] <= k[s]
    OBVIOUS
  <2>2. s = {}
    BY <1>0, <2>1, FS_EmptySet
  <2>3. h[s] = 0 /\ k[s] \in Nat
    BY <1>0, <1>9, <2>2
  <2> QED BY <2>3
<1>2. ASSUME NEW m \in Nat, m \in S PROVE m + 1 \in S
  <2>1. SUFFICES ASSUME NEW s \in SUBSET R, Cardinality(s) = m + 1 PROVE h[s] <= k[s]
    OBVIOUS
  <2>2. s # {} /\ IsFiniteSet(s)
    BY <1>0, <2>1, FS_EmptySet
  <2>3. PICK y : y = Some(s)
    OBVIOUS
  <2>4. y \in s /\ s \ {y} \in SUBSET R /\ h[s] = f[y] + h[s \ {y}]
    BY <1>9, <2>2, <2>3
  <2>5. k[s] = g[y] + k[s \ {y}]
    BY <1>10, <2>2, <2>3
  <2>6. Cardinality(s \ {y}) = m
    BY <2>1, <2>2, <2>4, Smaller
  <2>7. h[s \ {y}] <= k[s \ {y}]
    BY <1>2, <2>4, <2>6
  <2>8. h[s \ {y}] \in Nat /\ k[s \ {y}] \in Nat
    BY <1>0, <2>4
  <2>9. f[y] \in Nat /\ g[y] \in Nat /\ f[y] <= g[y]
    BY <2>4
  <2> QED BY <2>4, <2>5, <2>7, <2>8, <2>9
<1>3. \A s \in SUBSET R : Cardinality(s) \in S
  <2> HIDE DEF S
  <2> QED BY <1>0, <1>1, <1>2, Climb
<1> QED BY <1>3

\* The sums of the model are such sums.
LEMMA SumBytes ==
  ASSUME NEW T, IsFiniteSet(T)
  PROVE  \E h : Totals([p \in T |-> Bytes(p)], T, h) /\ Sum(T, Bytes) = h[T]
<1> DEFINE f == [p \in T |-> Bytes(p)]
           P(h) == h = [s \in SUBSET T |-> IF s = {} THEN 0
                          ELSE Bytes(CHOOSE x \in s : TRUE) + h[s \ {CHOOSE x \in s : TRUE}]]
<1>1. ASSUME NEW h PROVE P(h) <=> Totals(f, T, h)
  <2>1. ASSUME NEW s \in SUBSET T, s # {} PROVE f[Some(s)] = Bytes(CHOOSE x \in s : TRUE)
    <3>1. Some(s) \in T
      BY <2>1 DEF Some
    <3> QED BY <3>1 DEF Some
  <2> HIDE DEF f
  <2>2. ASSUME NEW s \in SUBSET T
        PROVE  (IF s = {} THEN 0
                ELSE Bytes(CHOOSE x \in s : TRUE) + h[s \ {CHOOSE x \in s : TRUE}])
               = (IF s = {} THEN 0 ELSE f[Some(s)] + h[s \ {Some(s)}])
    BY <2>1 DEF Some
  <2> QED BY <2>2 DEF Totals
<1>2. \E h : P(h)
  <2> HIDE DEF f, P
  <2> QED BY <1>1, TotalsExist
<1>3. P(CHOOSE h : P(h))
  <2> HIDE DEF P
  <2> QED BY <1>2
<1>4. Sum(T, Bytes) = (CHOOSE h : P(h))[T]
  BY DEF Sum, MapThenSumSet, MapThenFoldSet
<1> HIDE DEF P, f
<1>5. Totals(f, T, CHOOSE h : P(h))
  BY <1>1, <1>3
<1> QED BY <1>4, <1>5 DEF f

LEMMA SumFileBytes ==
  ASSUME NEW T, IsFiniteSet(T)
  PROVE  \E h : Totals([p \in T |-> FileBytes(p)], T, h) /\ Sum(T, FileBytes) = h[T]
<1> DEFINE f == [p \in T |-> FileBytes(p)]
           P(h) == h = [s \in SUBSET T |-> IF s = {} THEN 0
                          ELSE FileBytes(CHOOSE x \in s : TRUE) + h[s \ {CHOOSE x \in s : TRUE}]]
<1>1. ASSUME NEW h PROVE P(h) <=> Totals(f, T, h)
  <2>1. ASSUME NEW s \in SUBSET T, s # {} PROVE f[Some(s)] = FileBytes(CHOOSE x \in s : TRUE)
    <3>1. Some(s) \in T
      BY <2>1 DEF Some
    <3> QED BY <3>1 DEF Some
  <2> HIDE DEF f
  <2>2. ASSUME NEW s \in SUBSET T
        PROVE  (IF s = {} THEN 0
                ELSE FileBytes(CHOOSE x \in s : TRUE) + h[s \ {CHOOSE x \in s : TRUE}])
               = (IF s = {} THEN 0 ELSE f[Some(s)] + h[s \ {Some(s)}])
    BY <2>1 DEF Some
  <2> QED BY <2>2 DEF Totals
<1>2. \E h : P(h)
  <2> HIDE DEF f, P
  <2> QED BY <1>1, TotalsExist
<1>3. P(CHOOSE h : P(h))
  <2> HIDE DEF P
  <2> QED BY <1>2
<1>4. Sum(T, FileBytes) = (CHOOSE h : P(h))[T]
  BY DEF Sum, MapThenSumSet, MapThenFoldSet
<1> HIDE DEF P, f
<1>5. Totals(f, T, CHOOSE h : P(h))
  BY <1>1, <1>3
<1> QED BY <1>4, <1>5 DEF f

\* What pieces take in memory is no more than the files of a larger set.
LEMMA SumBound ==
  ASSUME NEW T, IsFiniteSet(T), NEW R \in SUBSET T,
         \A p \in T : Bytes(p) \in Nat /\ FileBytes(p) \in Nat /\ Bytes(p) <= FileBytes(p)
  PROVE  Sum(R, Bytes) \in Nat /\ Sum(T, FileBytes) \in Nat
         /\ Sum(R, Bytes) <= Sum(T, FileBytes)
<1> DEFINE f == [p \in R |-> Bytes(p)]
           g == [p \in T |-> FileBytes(p)]
<1>1. IsFiniteSet(R)
  BY FS_Subset
<1>2. PICK h : Totals(f, R, h) /\ Sum(R, Bytes) = h[R]
  BY <1>1, SumBytes
<1>3. PICK k : Totals(g, T, k) /\ Sum(T, FileBytes) = k[T]
  BY SumFileBytes
<1>4. f \in [R -> Nat] /\ g \in [T -> Nat] /\ \A x \in R : f[x] <= g[x]
  OBVIOUS
<1> HIDE DEF f, g
<1>5. \A s \in SUBSET R : h[s] <= k[s]
  BY <1>2, <1>3, <1>4, TotalsLeq
<1>6. k[R] <= k[T]
  BY <1>3, <1>4, TotalsGrow
<1>7. \A s \in SUBSET R : h[s] \in Nat
  BY <1>1, <1>2, <1>4, TotalsNat
<1>8. \A s \in SUBSET T : k[s] \in Nat
  BY <1>3, <1>4, TotalsNat
<1>9. h[R] \in Nat /\ k[R] \in Nat /\ k[T] \in Nat /\ h[R] <= k[R]
  BY <1>5, <1>7, <1>8
<1> QED BY <1>2, <1>3, <1>6, <1>9

LEMMA SumOfNone == Sum({}, Bytes) = 0
<1>1. PICK h : Totals([p \in {} |-> Bytes(p)], {}, h) /\ Sum({}, Bytes) = h[{}]
  BY SumBytes, FS_EmptySet
<1>2. h[{}] = 0
  BY <1>1 DEF Totals
<1> QED BY <1>1, <1>2

------------------------------------------------------------------------------
(* When everything fits. *)

LEMMA AllFinite ==
  ASSUME config \in Configs
  PROVE  IsFiniteSet(All) /\ IsFiniteSet(Streamed \cap All)
<1> DEFINE s == Pieces(config)
<1>1. s \in Seq(All)
  BY PackConfig
<1>2. Len(s) \in Nat /\ DOMAIN s = 1 .. Len(s) /\ All = {s[i] : i \in DOMAIN s}
  BY <1>1 DEF All, Ids
<1> HIDE DEF s
<1>3. s \in Surjection(1 .. Len(s), All)
  <2>1. s \in [1 .. Len(s) -> All]
    BY <1>1
  <2>2. \A t \in All : \E i \in 1 .. Len(s) : s[i] = t
    BY <1>2
  <2> QED BY <2>1, <2>2 DEF Surjection
<1>4. IsFiniteSet(1 .. Len(s))
  <2>1. PICK n \in Nat : n = Len(s)
    BY <1>2
  <2>2. 1 \in Int /\ n \in Int
    OBVIOUS
  <2>3. IsFiniteSet(1 .. n)
    BY <2>2, FS_Interval
  <2> QED BY <2>1, <2>3
<1>5. IsFiniteSet(All)
  BY <1>3, <1>4, FS_Surjection
<1> QED BY <1>5, FS_Subset

\* A split layer has experts.
LEMMA SplitHasExperts ==
  ASSUME config \in Configs, NEW l, Split(config, l)
  PROVE  0 \in Experts(config)
<1>1. config.experts \in Nat
  BY PackerAssumption
<1>2. LayerKey(config, l) = <<"moe">> /\ config.type \in Deepseek \cup {"qwen3_moe", "gpt_oss"}
  BY DEF Split, SelectiveMoe
<1>3. config.experts > 0
  <2>1. CASE config.type = "gpt_oss"
    BY <2>1, EngineAssumption
  <2>2. CASE config.type = "qwen3_moe"
    <3>1. QwenSparse(config, l)
      <4>1. <<"moe">> # <<"dense">> OBVIOUS
      <4> QED BY <1>2, <2>2, <4>1 DEF LayerKey, Gemma3, Gemma4, Deepseek
    <3> QED BY <3>1 DEF QwenSparse
  <2>3. CASE config.type \in Deepseek
    <3>1. DeepseekSparse(config, l)
      <4>1. <<"moe">> # <<"dense">> OBVIOUS
      <4> QED BY <1>2, <2>3, <4>1 DEF LayerKey, Gemma3, Gemma4, Deepseek
    <3> QED BY <3>1 DEF DeepseekSparse
  <2> QED BY <1>2, <2>1, <2>2, <2>3
<1> QED BY <1>1, <1>3 DEF Experts

\* A cache of streamed pieces is within its shares if all their files would be.
LEMMA AlwaysFits ==
  ASSUME EInv, lazy, NEW R, R \subseteq Streamed, NEW S, S \subseteq Streamed
  PROVE  Fits(R, S)
<1> DEFINE experts == {p \in Streamed : IsExpert(p)}
           RM == {p \in R : ~IsExpert(p)}
           RE == {p \in R \cup S : IsExpert(p)}
<1>1. opened /\ config \in Configs /\ manifest = All /\ FullyResident /\ budget \in Nat
  BY EngineAssumption DEF EInv, Standing, Disk, PackInv, Skipping
<1>2. IsFiniteSet(Streamed) /\ Streamed \subseteq All
  <2>1. Streamed \subseteq All /\ Streamed \cap All = Streamed
    BY <1>1 DEF Streamed
  <2> QED BY <1>1, <2>1, AllFinite
<1>3. \A p \in Streamed :
        Bytes(p) \in Nat /\ FileBytes(p) \in Nat /\ Bytes(p) <= FileBytes(p)
  BY <1>1, <1>2, EngineAssumption DEF All
<1>4. RM \subseteq Streamed \ experts /\ RE \subseteq experts
  OBVIOUS
<1>5. CASE experts = {}
  <2>1. Cores = {}
    <3>1. SUFFICES ASSUME NEW l \in CoreLayers PROVE FALSE
      BY DEF Cores
    <3>2. ExpertPiece(l, 0) \in Streamed
      BY <1>1, PieceKinds, SplitHasExperts
    <3> QED BY <1>5, <3>2, Named DEF IsExpert
  <2>2. ExpertShare = 0
    BY <2>1 DEF ExpertShare
  <2>3. Sum(Streamed, FileBytes) <= budget
    BY <1>1, <1>5 DEF FullyResident
  <2>4. RM \in SUBSET Streamed
    BY <1>4
  <2> HIDE DEF RM, RE, experts
  <2>5. Sum(RM, Bytes) \in Nat /\ Sum(Streamed, FileBytes) \in Nat
        /\ Sum(RM, Bytes) <= Sum(Streamed, FileBytes)
    BY <1>2, <1>3, <2>4, SumBound
  <2>6. RE = {}
    BY <1>4, <1>5
  <2>7. Sum(RE, Bytes) = 0
    BY <2>6, SumOfNone
  <2>8. Sum(RM, Bytes) <= budget - ExpertShare /\ Sum(RE, Bytes) <= ExpertShare
    BY <1>1, <2>2, <2>3, <2>5, <2>7
  <2> QED BY <2>8 DEF Fits, RM, RE
<1>6. CASE experts # {}
  <2>1. /\ Sum(experts, FileBytes) <= ExpertShare
        /\ Sum(Streamed \ experts, FileBytes) <= budget - ExpertShare
    BY <1>1, <1>6 DEF FullyResident
  <2>2. IsFiniteSet(experts) /\ IsFiniteSet(Streamed \ experts)
    BY <1>2, FS_Subset
  <2>3. experts \subseteq Streamed
    OBVIOUS
  <2>4. option.frac \in Nat /\ ExpertShare \in Int
    <3>1. option.frac \in Nat
      BY EngineAssumption DEF EInv, Standing
    <3>2. (budget * option.frac) \in Nat
      BY <1>1, <3>1
    <3> QED BY <3>1, <3>2 DEF ExpertShare
  <2> HIDE DEF RM, RE, experts
  <2>5. Sum(RM, Bytes) \in Nat /\ Sum(Streamed \ experts, FileBytes) \in Nat
        /\ Sum(RM, Bytes) <= Sum(Streamed \ experts, FileBytes)
    BY <1>3, <1>4, <2>2, SumBound
  <2>6. Sum(RE, Bytes) \in Nat /\ Sum(experts, FileBytes) \in Nat
        /\ Sum(RE, Bytes) <= Sum(experts, FileBytes)
    BY <1>3, <1>4, <2>2, <2>3, SumBound
  <2>7. Sum(RM, Bytes) <= budget - ExpertShare
    BY <1>1, <2>1, <2>4, <2>5
  <2>8. Sum(RE, Bytes) <= ExpertShare
    BY <2>1, <2>4, <2>6
  <2> QED BY <2>7, <2>8 DEF Fits, RM, RE
<1> QED BY <1>5, <1>6

\* Then nothing is dropped.
LEMMA KeptAll ==
  ASSUME NEW R, NEW S, NEW p, Fits(R, S)
  PROVE  Kept(R, S, p) = {R}
<1> DEFINE droppable == R \ (Pinned \cup {p})
           enough == {V \in SUBSET droppable : Fits(R \ V, S)}
           least == {V \in enough : \A W \in SUBSET V : W = V \/ W \notin enough}
<1>1. {} \in enough
  <2>1. R \ {} = R
    OBVIOUS
  <2> QED BY <2>1
<1>2. Kept(R, S, p) = {R \ V : V \in least}
  BY <1>1 DEF Kept
<1> HIDE DEF enough
<1>3. least = {{}}
  BY <1>1
<1> HIDE DEF least
<1>4. {R \ V : V \in {{}}} = {R}
  OBVIOUS
<1> QED BY <1>2, <1>3, <1>4

\* What a working engine does to the regions of the cache.
LEMMA Fetched ==
  ASSUME EInv, Work, opened, UNCHANGED pvars
  PROVE  \/ resident' = resident
         \/ \E p \in Streamed : Get(p)
         \/ \E a \in asked : Serve(a)
<1>1. config \in Configs /\ manifest = All /\ Standing
  BY DEF EInv, Disk, PackInv
<1>2. CASE \/ NewStore \/ RunLayer \/ Mix
           \/ \E m \in 0 .. MaxTokens : CommitVerified(m) \/ CommitPath(m)
  BY <1>2 DEF NewStore, RunLayer, Mix, CommitVerified, CommitPath, cached
<1>3. CASE \E n \in 1 .. MaxTokens :
             \/ \E padded \in BOOLEAN : StartForward(n, padded)
             \/ StartVerify(n) \/ StartTree(n)
  <2>1. PICK k, n, p : Begin(k, n, p)
    BY <1>3, Starts
  <2> QED BY <2>1 DEF Begin
<1>4. CASE LoadLayer
  <2>1. layer \in Layers(config) \ CoreLayers /\ Get(LayerPiece(layer))
    BY <1>1, <1>4 DEF LoadLayer, Standing
  <2> QED BY <1>1, <2>1, PieceKinds
<1>5. CASE LoadCore
  <2>1. layer \in CoreLayers /\ Get(CorePiece(layer))
    BY <1>5 DEF LoadCore
  <2> QED BY <1>1, <2>1, PieceKinds
<1>6. CASE Scatter
  <2>1. PICK e : e = CHOOSE x \in left : \A i \in left : x <= i
    OBVIOUS
  <2>2. Get(ExpertPiece(layer, e)) /\ left # {} /\ at = "scatter"
    BY <1>6, <2>1 DEF Scatter
  <2>3. layer \in CoreLayers /\ left \subseteq Experts(config)
    BY <2>2 DEF EInv, Routing
  <2>4. e \in Experts(config)
    BY <2>1, <2>2, <2>3, LeastLeft
  <2> QED BY <1>1, <2>2, <2>3, <2>4, PieceKinds
<1> QED BY <1>2, <1>3, <1>4, <1>5, <1>6 DEF Work

\* While the barrier after each layer is skipped the cache drops nothing: what fits by
\* the sizes of the files fits, whatever is fetched, staged or guessed, and in either
\* region (engine.py, _compute_fully_resident).
THEOREM NothingDroppedWhileLazy == Spec => SkippedSyncSafe
<1> DEFINE Body == opened /\ opened' /\ lazy => resident \subseteq resident'
<1>1. ASSUME EInv, [Next]_vars, opened, opened', lazy PROVE resident \subseteq resident'
  <2>1. /\ resident \subseteq Streamed /\ staged \subseteq Streamed
        /\ \A a \in asked : a[1] \in Streamed
    BY <1>1 DEF EInv, Streaming
  <2>2. CASE resident' = resident
    BY <2>2
  <2>3. CASE \E p \in Streamed : Get(p)
    <3>1. PICK p \in Streamed : Get(p)
      BY <2>3
    <3>2. resident \cup {p} \subseteq Streamed /\ staged \ {p} \subseteq Streamed
      BY <2>1
    <3>3. Kept(resident \cup {p}, staged \ {p}, p) = {resident \cup {p}}
      BY <1>1, <3>2, AlwaysFits, KeptAll
    <3> QED BY <3>1, <3>3 DEF Get
  <2>4. CASE \E a \in asked : Serve(a)
    <3>1. PICK a \in asked : Serve(a)
      BY <2>4
    <3>2. a[1] \in Streamed
      BY <2>1
    <3>3. CASE resident' = resident
      BY <3>3
    <3>4. CASE \E S \in SUBSET staged :
                 /\ staged' = S \cup {a[1]}
                 /\ resident' \in Kept(resident, S \cup {a[1]}, a[1])
      <4>1. PICK S \in SUBSET staged : resident' \in Kept(resident, S \cup {a[1]}, a[1])
        BY <3>4
      <4>2. S \cup {a[1]} \subseteq Streamed
        BY <2>1, <3>2
      <4>3. Kept(resident, S \cup {a[1]}, a[1]) = {resident}
        BY <1>1, <2>1, <4>2, AlwaysFits, KeptAll
      <4> QED BY <4>1, <4>3
    <3>5. CASE resident' \in Kept(resident \cup {a[1]}, staged, a[1])
      <4>1. resident \cup {a[1]} \subseteq Streamed
        BY <2>1, <3>2
      <4>2. Kept(resident \cup {a[1]}, staged, a[1]) = {resident \cup {a[1]}}
        BY <1>1, <2>1, <4>1, AlwaysFits, KeptAll
      <4> QED BY <3>5, <4>2
    <3> QED BY <3>1, <3>3, <3>4, <3>5 DEF Serve
  <2>5. \/ UNCHANGED vars \/ UNCHANGED evars
        \/ UNCHANGED pvars /\ Open
        \/ UNCHANGED pvars /\ Close
        \/ Work /\ opened /\ UNCHANGED pvars
    BY <1>1, Steps
  <2>6. CASE UNCHANGED vars \/ UNCHANGED evars
    BY <2>6 DEF vars, evars, cached
  <2>7. CASE UNCHANGED pvars /\ Open
    BY <1>1, <2>7 DEF Open
  <2>8. CASE UNCHANGED pvars /\ Close
    BY <1>1, <2>8 DEF Close
  <2>9. CASE Work /\ opened /\ UNCHANGED pvars
    BY <1>1, <2>2, <2>3, <2>4, <2>9, Fetched
  <2> QED BY <2>5, <2>6, <2>7, <2>8, <2>9
<1>2. EInv /\ [Next]_vars => [Body]_vars
  BY <1>1 DEF Body
<1>3. [Body]_vars <=> [Body]_<<pvars, evars>>
  BY DEF vars
<1>4. Spec => [][Next]_vars
  BY DEF Spec, vars
<1>5. Spec => [][Body]_vars
  BY <1>2, <1>4, EInvAlways, PTL
<1>6. [][Body]_vars <=> [][opened /\ opened' /\ lazy => resident \subseteq resident']_<<pvars, evars>>
  BY <1>3, PTL DEF Body
<1> QED BY <1>5, <1>6 DEF SkippedSyncSafe

------------------------------------------------------------------------------
(* Rows, masks and shared keys. *)

\* What the masks ask of a pattern of layers: a layer that has a producer is of its
\* producer's kind of attention.
KindsFit ==
  \A c \in Configs : c.type \in Gemma4 =>
    \A l \in Layers(c) : Consumer(c, l) /\ Producer(c, l) \in Layers(c) =>
      Kind(c, Producer(c, l)) = Kind(c, l)

\* The layer whose rows layer l attends to.
Source(l) == IF Consumer(config, l) THEN Producer(config, l) ELSE l

\* The layers with rows of their own are of one length.
Even(b) ==
  /\ b \in [Layers(config) -> Nat]
  /\ \A l, j \in Layers(config) :
       ~Consumer(config, l) /\ ~Consumer(config, j) => b[l] = b[j]

\* The layers that keep their keys for the drafter, among the first m.
Full(m) == {LayerType(config, l) : l \in {j \in 0 .. m - 1 : StoresFull(config, j)}}

Moving == at \in {"layer", "scatter", "run"}

Rows ==
  /\ ~opened => kv = NoKV
  /\ ~Moving => Even(kv)
  /\ Moving =>
       /\ run.n \in Nat /\ Even(run.base) /\ kv \in [Layers(config) -> Nat]
       /\ \A l \in Layers(config) : ~Consumer(config, l) =>
            kv[l] = IF ~Ephemeral(run.kind) /\ l < layer
                      THEN run.base[l] + run.n ELSE run.base[l]

Masks ==
  KindsFit /\ Moving =>
    \A l \in Layers(config) : HasKeys(l) => run.masks[l] \in {0, Seen(l, run.base, run.n)}

Stashed ==
  Moving => \A j \in Producers(config) : j \in 0 .. layer - 1 => j \in shared

Targets ==
  /\ Moving => DOMAIN targets = Full(layer)
  /\ opened /\ at = "idle" /\ run.kind = "forward" /\ kv # NoKV =>
       DOMAIN targets = Full(config.n)

MInv == Rows /\ Masks /\ Stashed /\ Targets

\* Where there is a producer, it is a layer with keys of its own.
LEMMA OwnKeys ==
  ASSUME config \in Configs, NEW l \in Layers(config), Consumer(config, l), HasKeys(l)
  PROVE  /\ Producer(config, l) \in Layers(config) /\ Producer(config, l) < l
         /\ ~Consumer(config, Producer(config, l))
<1>1. /\ config.n \in Nat \ {0} /\ config.shared \in 0 .. config.n
      /\ Producer(config, l) \in Layers(config)
  BY PackerAssumption, EngineAssumption DEF Consumer, HasKeys
<1> QED BY <1>1 DEF Layers, Consumer, Producer, FirstShared

LEMMA Sources ==
  ASSUME KindsFit, config \in Configs, NEW l \in Layers(config), HasKeys(l)
  PROVE  /\ Source(l) \in Layers(config) /\ ~Consumer(config, Source(l))
         /\ Kind(config, Source(l)) = Kind(config, l)
<1>1. CASE Consumer(config, l)
  BY <1>1, OwnKeys DEF KindsFit, Source, Consumer
<1>2. CASE ~Consumer(config, l)
  BY <1>2 DEF Source
<1> QED BY <1>1, <1>2

\* The layers before one with keys of its own have keys of their own.
LEMMA Before ==
  ASSUME config \in Configs, NEW l \in Layers(config), ~Consumer(config, l),
         NEW j \in Layers(config), j <= l
  PROVE  ~Consumer(config, j)
<1>1. CASE config.type \in Gemma4
  <2>1. config.n \in Nat \ {0} /\ config.shared \in 0 .. config.n
    BY <1>1, PackerAssumption, EngineAssumption
  <2> QED BY <2>1 DEF Layers, Consumer, FirstShared
<1>2. CASE config.type \notin Gemma4
  BY <1>2 DEF Consumer
<1> QED BY <1>1, <1>2

\* The first layer has keys of its own if any has.
LEMMA FirstOwns ==
  ASSUME config \in Configs, NEW l \in Layers(config), ~Consumer(config, l)
  PROVE  0 \in Layers(config) /\ ~Consumer(config, 0)
<1>1. 0 \in Layers(config) /\ 0 <= l
  BY PackerAssumption DEF Layers
<1> QED BY <1>1, Before

\* What a layer with rows of its own shows depends on its kind and the common length.
LEMMA ShownAlike ==
  ASSUME config \in Configs, NEW b, Even(b), NEW n, NEW j \in Layers(config),
         ~Consumer(config, j)
  PROVE  Shown(j, b, n) = IF Rotating(config, j) /\ n > 1
                            THEN Lesser(config.window - 1, b[0]) + n ELSE b[0] + n
<1>1. b[j] = b[0]
  BY FirstOwns DEF Even
<1> QED BY <1>1 DEF Shown

LEMMA SeenAlike ==
  ASSUME KindsFit, config \in Configs, NEW b, Even(b), NEW n,
         NEW l \in Layers(config), HasKeys(l)
  PROVE  Seen(l, b, n) = IF Rotating(config, l) /\ n > 1
                           THEN Lesser(config.window - 1, b[0]) + n ELSE b[0] + n
<1>1. /\ Source(l) \in Layers(config) /\ ~Consumer(config, Source(l))
      /\ Kind(config, Source(l)) = Kind(config, l)
  BY Sources
<1>2. Rotating(config, Source(l)) <=> Rotating(config, l)
  BY <1>1 DEF Rotating, CacheKind
<1>3. Seen(l, b, n) = Shown(Source(l), b, n)
  BY DEF Seen, Source
<1> QED BY <1>1, <1>2, <1>3, ShownAlike

\* Per layer, the mask is built from the first layer of the same kind.
LEMMA MaskLike ==
  ASSUME config \in Configs, NEW l \in Layers(config), PerLayerPlan
  PROVE  /\ MaskFrom(l) \in Layers(config) /\ Kind(config, MaskFrom(l)) = Kind(config, l)
         /\ \A i \in Layers(config) : Kind(config, i) = Kind(config, l) => MaskFrom(l) <= i
<1> DEFINE T == {j \in Layers(config) : Kind(config, j) = Kind(config, l)}
<1>1. T # {} /\ T \subseteq Nat
  BY DEF Layers
<1>2. IsWellFoundedOn(OpToRel(<, Nat), Nat)
  BY NatLessThanWellFounded
<1>3. PICK x \in T : \A y \in T : ~ (<<y, x>> \in OpToRel(<, Nat))
  <2> HIDE DEF T
  <2> QED BY <1>1, <1>2, WFMin
<1>4. \A y \in T : x <= y
  <2>1. SUFFICES ASSUME NEW y \in T PROVE x <= y
    OBVIOUS
  <2>2. x \in Nat /\ y \in Nat
    BY <1>1
  <2>3. ~ (y < x)
    BY <1>1, <1>3, <2>2 DEF OpToRel
  <2> QED BY <2>2, <2>3
<1>5. \E j \in Layers(config) :
        /\ Kind(config, j) = Kind(config, l)
        /\ \A i \in Layers(config) : Kind(config, i) = Kind(config, l) => j <= i
  BY <1>4
<1>6. MaskFrom(l) = CHOOSE j \in Layers(config) :
        /\ Kind(config, j) = Kind(config, l)
        /\ \A i \in Layers(config) : Kind(config, i) = Kind(config, l) => j <= i
  BY DEF MaskFrom
<1> QED BY <1>5, <1>6

LEMMA MaskColumns ==
  ASSUME KindsFit, config \in Configs, Even(kv), NEW n \in Nat, NEW padded \in BOOLEAN,
         padded => \A j \in Layers(config) : ~Rotating(config, j),
         NEW l \in Layers(config), HasKeys(l)
  PROVE  Columns(l, n, padded) \in {0, Seen(l, kv, n)}
<1>1. Seen(l, kv, n) = IF Rotating(config, l) /\ n > 1
                         THEN Lesser(config.window - 1, kv[0]) + n ELSE kv[0] + n
  BY SeenAlike
<1>2. CASE padded
  BY <1>1, <1>2 DEF Columns
<1>3. CASE ~padded /\ ArrayMask(n)
  <2>1. config.type \in Deepseek
    BY <1>3 DEF ArrayMask
  <2>2. MaskFrom(l) = 0
    BY <2>1 DEF MaskFrom, PerLayerPlan, Deepseek, Sliding, Gemma3, Gemma4
  <2>3. ~Rotating(config, l)
    BY <2>1 DEF Rotating, CacheKind
  <2> QED BY <1>1, <1>3, <2>2, <2>3 DEF Columns
<1>4. CASE ~padded /\ ~ArrayMask(n) /\ PerLayerPlan
  <2>1. PICK j \in Layers(config) :
          /\ j = MaskFrom(l) /\ Kind(config, j) = Kind(config, l)
          /\ \A i \in Layers(config) : Kind(config, i) = Kind(config, l) => j <= i
    BY <1>4, MaskLike
  <2>2. Rotating(config, j) <=> Rotating(config, l)
    BY <2>1 DEF Rotating, CacheKind
  <2>3. ~Consumer(config, j)
    <3>1. /\ Source(l) \in Layers(config) /\ ~Consumer(config, Source(l))
          /\ Kind(config, Source(l)) = Kind(config, l)
      BY Sources
    <3> QED BY <2>1, <3>1, Before
  <2>4. Shown(j, kv, n) = IF Rotating(config, j) /\ n > 1
                            THEN Lesser(config.window - 1, kv[0]) + n ELSE kv[0] + n
    BY <2>3, ShownAlike
  <2>5. Columns(l, n, padded) \in {0, Shown(j, kv, n)}
    BY <1>4, <2>1 DEF Columns
  <2> QED BY <1>1, <2>2, <2>4, <2>5
<1>5. CASE ~padded /\ ~ArrayMask(n) /\ ~PerLayerPlan
  <2>1. MaskFrom(l) = 0 /\ Kind(config, 0) = <<"global">>
    BY <1>5 DEF MaskFrom, Kind, PerLayerPlan
  <2>2. ~Rotating(config, 0)
    BY <2>1 DEF Rotating, CacheKind
  <2> QED BY <1>5, <2>1, <2>2 DEF Columns
<1> QED BY <1>2, <1>3, <1>4, <1>5

\* Of every kind the last layer with keys of its own keeps them.
LEMMA FullIsAll ==
  ASSUME config \in Configs, config.type \in Gemma4
  PROVE  Full(config.n) = {LayerType(config, l) : l \in 0 .. FirstShared(config) - 1}
<1> DEFINE m == FirstShared(config)
<1>1. config.n \in Nat /\ m \in Nat /\ m <= config.n
  BY PackerAssumption, EngineAssumption DEF FirstShared
<1> HIDE DEF m
<1>2. ASSUME NEW l \in 0 .. m - 1
      PROVE  \E j \in 0 .. config.n - 1 :
               StoresFull(config, j) /\ LayerType(config, j) = LayerType(config, l)
  <2> DEFINE T == {k \in 0 .. m - 1 : LayerType(config, m - 1 - k) = LayerType(config, l)}
  <2>1. m - 1 - l \in T
    <3>1. m - 1 - l \in 0 .. m - 1 /\ m - 1 - (m - 1 - l) = l
      BY <1>1
    <3> QED BY <3>1
  <2>2. T # {} /\ T \subseteq Nat
    BY <2>1
  <2>3. IsWellFoundedOn(OpToRel(<, Nat), Nat)
    BY NatLessThanWellFounded
  <2>4. PICK x \in T : \A y \in T : ~ (<<y, x>> \in OpToRel(<, Nat))
    <3> HIDE DEF T
    <3> QED BY <2>2, <2>3, WFMin
  <2>5. PICK j : j = m - 1 - x
    OBVIOUS
  <2>6. j \in 0 .. m - 1 /\ LayerType(config, j) = LayerType(config, l)
    BY <1>1, <2>5
  <2>7. ASSUME NEW i \in j + 1 .. m - 1, LayerType(config, i) = LayerType(config, j)
        PROVE  FALSE
    <3>1. m - 1 - i \in 0 .. m - 1 /\ m - 1 - (m - 1 - i) = i /\ m - 1 - i < x
      BY <1>1, <2>5, <2>6
    <3>2. m - 1 - i \in T
      BY <2>6, <2>7, <3>1
    <3>3. <<m - 1 - i, x>> \in OpToRel(<, Nat)
      BY <2>2, <3>1, <3>2 DEF OpToRel
    <3> QED BY <2>4, <3>2, <3>3
  <2>8. StoresFull(config, j)
    <3>1. j < m /\ \A i \in j + 1 .. m - 1 : LayerType(config, i) # LayerType(config, j)
      BY <1>1, <2>6, <2>7
    <3> QED BY <3>1 DEF StoresFull, m
  <2>9. j \in 0 .. config.n - 1
    BY <1>1, <2>6
  <2> QED BY <2>6, <2>8, <2>9
<1>3. \A j \in 0 .. config.n - 1 : StoresFull(config, j) => j \in 0 .. m - 1
  BY <1>1 DEF StoresFull, m
<1> QED BY <1>2, <1>3 DEF Full, m

LEMMA MInvInit == ASSUME Init PROVE MInv
<1>1. ~opened /\ at = "idle" /\ kv = NoKV /\ run.kind = "none"
  BY DEF Init, EngineInit, Idle
<1>2. Even(NoKV)
  BY DEF Even, NoKV
<1> QED BY <1>1, <1>2 DEF MInv, Rows, Masks, Stashed, Targets, Moving

\* A layer that is split shares no keys and keeps none.
LEMMA SplitAlone ==
  ASSUME NEW l, Split(config, l)
  PROVE  ~StoresFull(config, l) /\ l \notin Producers(config) /\ ~Consumer(config, l)
BY DEF Split, SelectiveMoe, StoresFull, Producers, Consumer, Gemma4, Deepseek

LEMMA FullNext ==
  ASSUME NEW m \in Nat
  PROVE  Full(m + 1) = IF StoresFull(config, m) THEN Full(m) \cup {LayerType(config, m)}
                       ELSE Full(m)
<1>1. 0 .. (m + 1) - 1 = (0 .. m - 1) \cup {m}
  OBVIOUS
<1> QED BY <1>1 DEF Full

\* The step from one layer to the next, or to the end of the pass.
LEMMA LayerDone ==
  ASSUME EInv, MInv, opened', config' = config, Moving, NEW S, Advance(S),
         kv' = Appended,
         shared \subseteq S, layer \in Producers(config) => layer \in S,
         DOMAIN targets' = Full(layer + 1)
  PROVE  MInv'
<1>1. config \in Configs /\ config.n \in Nat \ {0} /\ layer \in Layers(config) /\ Standing
  BY PackerAssumption DEF EInv, Disk, PackInv, Standing, Moving
<1>2. /\ run.n \in Nat /\ Even(run.base) /\ kv \in [Layers(config) -> Nat]
      /\ \A l \in Layers(config) : ~Consumer(config, l) =>
            kv[l] = IF ~Ephemeral(run.kind) /\ l < layer
                      THEN run.base[l] + run.n ELSE run.base[l]
  BY DEF MInv, Rows
<1>3. kv' \in [Layers(config) -> Nat]
  <2>1. kv[layer] + run.n \in Nat
    BY <1>1, <1>2
  <2> QED BY <1>1, <1>2, <2>1 DEF Appended
<1>4. ASSUME NEW l \in Layers(config), ~Consumer(config, l)
      PROVE  kv'[l] = IF ~Ephemeral(run.kind) /\ l < layer + 1
                        THEN run.base[l] + run.n ELSE run.base[l]
  <2>1. l \in Int /\ layer \in Int
    BY <1>1 DEF Layers
  <2>2. CASE Ephemeral(run.kind)
    BY <1>2, <1>4, <2>2 DEF Appended
  <2>3. CASE ~Ephemeral(run.kind) /\ l = layer
    <3>1. kv' = [kv EXCEPT ![layer] = @ + run.n]
      BY <1>4, <2>3 DEF Appended
    <3>2. kv'[l] = kv[l] + run.n /\ kv[l] = run.base[l]
      BY <1>2, <1>4, <2>1, <2>3, <3>1
    <3> QED BY <2>1, <2>3, <3>2
  <2>4. CASE ~Ephemeral(run.kind) /\ l # layer
    <3>1. kv'[l] = kv[l]
      BY <1>2, <2>4 DEF Appended
    <3>2. l < layer <=> l < layer + 1
      BY <2>1, <2>4
    <3> QED BY <1>2, <1>4, <2>4, <3>1, <3>2
  <2> QED BY <2>2, <2>3, <2>4
<1>5. CASE layer + 1 < config.n
  <2>1. /\ at' = "layer" /\ shared' = S
        /\ run' = [kind |-> run.kind, n |-> run.n, padded |-> run.padded,
                   layer |-> run.layer + 1, base |-> run.base, masks |-> run.masks]
    <3>1. at' = "layer" /\ shared' = S /\ run' = [run EXCEPT !.layer = @ + 1]
      BY <1>5 DEF Advance
    <3> QED BY <1>1, <3>1 DEF Standing, Fields
  <2>2. /\ layer' = layer + 1 /\ run'.kind = run.kind /\ run'.n = run.n
        /\ run'.base = run.base /\ run'.masks = run.masks
    BY <2>1 DEF layer
  <2>3. Rows'
    <3>1. Even(run.base)'
      BY <1>2, <2>2 DEF Even
    <3>2. \A l \in Layers(config) : ~Consumer(config, l) =>
            kv'[l] = IF ~Ephemeral(run'.kind) /\ l < layer'
                       THEN run'.base[l] + run'.n ELSE run'.base[l]
      BY <1>4, <2>2
    <3> QED BY <1>2, <1>3, <2>1, <2>2, <3>1, <3>2 DEF Rows, Moving
  <2>4. Masks'
    <3>1. KindsFit => \A l \in Layers(config) :
            HasKeys(l) => run.masks[l] \in {0, Seen(l, run.base, run.n)}
      BY DEF MInv, Masks
    <3>2. \A l : Seen(l, run.base, run.n)' = Seen(l, run.base, run.n)
      BY <2>2 DEF Seen, Shown
    <3>3. \A l : HasKeys(l)' <=> HasKeys(l)
      BY DEF HasKeys
    <3>4. KindsFit' <=> KindsFit
      BY DEF KindsFit
    <3> QED BY <2>2, <3>1, <3>2, <3>3, <3>4 DEF Masks
  <2>5. Stashed'
    <3>1. \A j \in Producers(config) : j \in 0 .. layer - 1 => j \in shared
      BY DEF MInv, Stashed
    <3>2. \A j \in 0 .. (layer + 1) - 1 : j \in 0 .. layer - 1 \/ j = layer
      BY <1>1 DEF Layers
    <3> QED BY <2>1, <2>2, <3>1, <3>2 DEF Stashed
  <2>6. Targets'
    <3>1. Full(layer)' = Full(layer + 1)
      BY <2>2 DEF Full
    <3> QED BY <2>1, <3>1 DEF Targets
  <2> QED BY <2>3, <2>4, <2>5, <2>6 DEF MInv
<1>6. CASE ~ (layer + 1 < config.n)
  <2>1. run' = run /\ at' = IF Ephemeral(run.kind) THEN "commit" ELSE "idle"
    BY <1>6 DEF Advance
  <2>2. layer + 1 = config.n
    BY <1>1, <1>6 DEF Layers
  <2>3. Even(kv')
    <3>1. \A l \in Layers(config) : ~Ephemeral(run.kind) => l < layer + 1
      BY <1>1, <2>2 DEF Layers
    <3>2. \A l \in Layers(config) : ~Consumer(config, l) =>
            kv'[l] = IF Ephemeral(run.kind) THEN run.base[l] ELSE run.base[l] + run.n
      BY <1>4, <3>1
    <3>3. \A l, j \in Layers(config) :
            ~Consumer(config, l) /\ ~Consumer(config, j) => run.base[l] = run.base[j]
      BY <1>2 DEF Even
    <3>4. \A l, j \in Layers(config) :
            ~Consumer(config, l) /\ ~Consumer(config, j) => kv'[l] = kv'[j]
      BY <3>2, <3>3
    <3> QED BY <1>3, <3>4 DEF Even
  <2>4. Full(config.n)' = Full(layer + 1)
    BY <2>2 DEF Full
  <2>5. ~Moving'
    BY <2>1 DEF Moving
  <2>6. Even(kv)'
    BY <2>3 DEF Even
  <2>7. Rows' /\ Masks' /\ Stashed'
    BY <2>5, <2>6 DEF Rows, Masks, Stashed
  <2>8. Targets'
    BY <2>4, <2>5 DEF Targets
  <2> QED BY <2>7, <2>8 DEF MInv
<1> QED BY <1>5, <1>6

\* A pass begins.
LEMMA PassBegins ==
  ASSUME EInv, MInv, config' = config, NEW k, NEW n \in Nat, NEW p \in BOOLEAN,
         Begin(k, n, p), p => \A j \in Layers(config) : ~Rotating(config, j)
  PROVE  MInv'
<1>1. config \in Configs
  BY DEF EInv, Disk, PackInv
<1>2. /\ at = "idle" /\ at' = "layer" /\ shared' = {} /\ targets' = NoFn /\ kv' = kv
      /\ opened' = opened /\ opened
      /\ run' = [kind |-> k, n |-> n, padded |-> p, layer |-> 0, base |-> kv,
                 masks |-> [l \in Layers(config) |-> Columns(l, n, p)]]
  BY DEF Begin
<1>3. /\ layer' = 0 /\ run'.kind = k /\ run'.n = n /\ run'.base = kv
      /\ run'.masks = [l \in Layers(config) |-> Columns(l, n, p)]
  BY <1>2 DEF layer
<1>4. Even(kv)
  BY <1>2 DEF MInv, Rows, Moving
<1>5. Rows'
  <2>1. Even(run.base)'
    BY <1>3, <1>4 DEF Even
  <2>2. kv' \in [Layers(config) -> Nat]
    BY <1>2, <1>4 DEF Even
  <2>3. \A l \in Layers(config) : ~(l < layer')
    BY <1>3 DEF Layers
  <2> QED BY <1>2, <1>3, <2>1, <2>2, <2>3 DEF Rows, Moving
<1>6. Masks'
  <2>1. ASSUME KindsFit, NEW l \in Layers(config), HasKeys(l)
        PROVE  Columns(l, n, p) \in {0, Seen(l, kv, n)}
    BY <1>1, <1>4, <2>1, MaskColumns
  <2>2. \A l : Seen(l, run.base, run.n)' = Seen(l, kv, n) /\ (HasKeys(l)' <=> HasKeys(l))
    BY <1>3 DEF Seen, Shown, HasKeys
  <2>3. \A l \in Layers(config) : run'.masks[l] = Columns(l, n, p)
    BY <1>3
  <2> QED BY <2>1, <2>2, <2>3 DEF Masks
<1>7. Stashed'
  <2>1. 0 .. 0 - 1 = {}
    OBVIOUS
  <2> QED BY <1>3, <2>1 DEF Stashed
<1>8. Targets'
  <2>1. 0 .. 0 - 1 = {}
    OBVIOUS
  <2>2. Full(layer)' = {}
    BY <1>3, <2>1 DEF Full
  <2> QED BY <1>2, <2>2 DEF Targets, NoFn
<1> QED BY <1>5, <1>6, <1>7, <1>8 DEF MInv

\* Steps that stay in the layer, and steps that begin and end elsewhere.
LEMMA Still ==
  ASSUME MInv, config' = config, opened' = opened, UNCHANGED <<kv, shared, targets, run>>,
         at' = at \/ (Moving /\ Moving')
  PROVE  MInv'
<1>1. Even(kv)' = Even(kv) /\ Even(run.base)' = Even(run.base) /\ layer' = layer
  BY DEF Even, layer
<1>2. \A m : Full(m)' = Full(m)
  BY DEF Full
<1>3. (Moving' <=> Moving) /\ (at' = "idle" <=> at = "idle")
  BY DEF Moving
<1>4. NoKV' = NoKV
  BY DEF NoKV
<1>5. Rows'
  BY <1>1, <1>3, <1>4 DEF MInv, Rows
<1>6. Masks'
  <2>1. \A l : Seen(l, run.base, run.n)' = Seen(l, run.base, run.n)
    BY DEF Seen, Shown
  <2>2. \A l : HasKeys(l)' <=> HasKeys(l)
    BY DEF HasKeys
  <2>3. KindsFit' <=> KindsFit
    BY DEF KindsFit
  <2> QED BY <1>3, <2>1, <2>2, <2>3 DEF MInv, Masks
<1>7. Stashed'
  BY <1>1, <1>3 DEF MInv, Stashed
<1>8. Targets'
  BY <1>1, <1>2, <1>3, <1>4 DEF MInv, Targets
<1> QED BY <1>5, <1>6, <1>7, <1>8 DEF MInv

LEMMA Outside ==
  ASSUME config' = config, at' \in {"idle", "commit"}, Even(kv'), opened' \/ kv' = NoKV,
         kv' = NoKV \/ run'.kind # "forward"
  PROVE  MInv'
<1>1. ~Moving' /\ Even(kv)' /\ NoKV' = NoKV
  BY DEF Moving, Even, NoKV
<1> QED BY <1>1 DEF MInv, Rows, Masks, Stashed, Targets

LEMMA MInvKept ==
  ASSUME EInv, MInv, [Next]_vars
  PROVE  MInv'
<1>0. Even(NoKV)
  BY DEF Even, NoKV
<1>1. CASE UNCHANGED vars
  <2>1. /\ config' = config /\ opened' = opened /\ UNCHANGED <<kv, shared, targets, run>>
        /\ at' = at
    BY <1>1 DEF vars, pvars, evars, sharing
  <2> QED BY <2>1, Still
<1>2. CASE ~opened /\ Pack /\ UNCHANGED evars
  <2>1. /\ config' = config /\ opened' = opened /\ UNCHANGED <<kv, shared, targets, run>>
        /\ at' = at
    BY <1>2, SameModel DEF evars, sharing
  <2> QED BY <2>1, Still
<1>3. CASE UNCHANGED pvars /\ Open
  <2>1. /\ config' = config /\ opened' /\ kv' = kv /\ ~opened /\ at' = at
    BY <1>3, Same DEF Open
  <2>2. kv = NoKV /\ at = "idle"
    BY <2>1 DEF MInv, Rows, EInv, Standing
  <2>3. Even(kv') /\ kv' = NoKV /\ at' = "idle"
    BY <1>0, <2>1, <2>2
  <2> QED BY <2>1, <2>3, Outside
<1>4. CASE UNCHANGED pvars /\ Close
  <2>1. config' = config /\ kv' = NoKV /\ at' = "idle"
    BY <1>4, Same DEF Close
  <2> QED BY <1>0, <2>1, Outside
<1>5. CASE /\ Work /\ opened /\ opened'
           /\ UNCHANGED <<pvars, lazy, option, budget>>
  <2>1. config' = config /\ opened' = opened
    BY <1>5, Same DEF EInv, Standing
  <2>2. CASE NewStore
    <3>1. kv' = NoKV /\ at' = "idle"
      BY <2>2 DEF NewStore
    <3> QED BY <1>0, <2>1, <3>1, Outside
  <2>3. CASE \E n \in 1 .. MaxTokens :
               \/ \E padded \in BOOLEAN : StartForward(n, padded)
               \/ StartVerify(n) \/ StartTree(n)
    <3>1. PICK k \in {"forward", "verify", "tree"}, n \in 1 .. MaxTokens, p \in BOOLEAN :
            Begin(k, n, p) /\ (p => \A j \in Layers(config) : ~Rotating(config, j))
      <4>1. PICK n \in 1 .. MaxTokens :
              \/ \E padded \in BOOLEAN : StartForward(n, padded)
              \/ StartVerify(n) \/ StartTree(n)
        BY <2>3
      <4>2. CASE \E padded \in BOOLEAN : StartForward(n, padded)
        <5>1. PICK p \in BOOLEAN : StartForward(n, p)
          BY <4>2
        <5>2. Begin("forward", n, p) /\ (p => \A j \in Layers(config) : ~Rotating(config, j))
          BY <5>1 DEF StartForward, Rotating
        <5> QED BY <5>2
      <4>3. CASE StartVerify(n)
        <5>1. Begin("verify", n, FALSE)
          BY <4>3 DEF StartVerify
        <5> QED BY <5>1
      <4>4. CASE StartTree(n)
        <5>1. Begin("tree", n, FALSE)
          BY <4>4 DEF StartTree
        <5> QED BY <5>1
      <4> QED BY <4>1, <4>2, <4>3, <4>4
    <3>2. n \in Nat
      OBVIOUS
    <3> QED BY <2>1, <3>1, <3>2, PassBegins
  <2>4. CASE LoadLayer \/ LoadCore
    <3>1. UNCHANGED <<kv, shared, targets, run>> /\ Moving /\ Moving'
      BY <2>4 DEF LoadLayer, LoadCore, sharing, Moving
    <3> QED BY <2>1, <3>1, Still
  <2>5. CASE Scatter \/ \E a \in asked : Serve(a)
    <3>1. UNCHANGED <<kv, shared, targets, run>> /\ at' = at
      BY <2>5 DEF Scatter, Serve, sharing
    <3> QED BY <2>1, <3>1, Still
  <2>6. CASE RunLayer
    <3>1. at = "run" /\ Moving /\ kv' = Appended
      BY <2>6 DEF RunLayer, Moving
    <3>2. layer \in Nat
      BY <3>1 DEF EInv, Standing, Layers
    <3>3. DOMAIN targets = Full(layer)
      BY <3>1 DEF MInv, Targets
    <3>4. DOMAIN targets' = Full(layer + 1)
      <4>1. CASE StoresFull(config, layer)
        <5>1. DOMAIN targets' = DOMAIN targets \cup {LayerType(config, layer)}
          BY <2>6, <4>1 DEF RunLayer
        <5> QED BY <3>2, <3>3, <4>1, <5>1, FullNext
      <4>2. CASE ~StoresFull(config, layer)
        <5>1. targets' = targets
          BY <2>6, <4>2 DEF RunLayer
        <5> QED BY <3>2, <3>3, <4>2, <5>1, FullNext
      <4> QED BY <4>1, <4>2
    <3>5. PICK S : /\ Advance(S) /\ shared \subseteq S
                   /\ layer \in Producers(config) => layer \in S
      <4>1. Advance(IF Stashes(layer) THEN shared \cup {layer} ELSE shared)
        BY <2>6 DEF RunLayer
      <4>2. PICK S : S = IF Stashes(layer) THEN shared \cup {layer} ELSE shared
        OBVIOUS
      <4>3. shared \subseteq S /\ (layer \in Producers(config) => layer \in S)
        BY <4>2 DEF Stashes
      <4> QED BY <4>1, <4>2, <4>3
    <3> QED BY <1>5, <2>1, <3>1, <3>4, <3>5, LayerDone
  <2>7. CASE Mix
    <3>1. at = "scatter" /\ Moving /\ kv' = Appended /\ targets' = targets /\ Advance(shared)
      BY <2>7 DEF Mix, Moving
    <3>2. layer \in Nat /\ layer \in CoreLayers
      BY <3>1 DEF EInv, Standing, Routing, Layers
    <3>3. Split(config, layer)
      BY <1>5, <3>2, PieceKinds DEF EInv, Disk, PackInv
    <3>4. ~StoresFull(config, layer) /\ layer \notin Producers(config)
      BY <3>3, SplitAlone
    <3>5. DOMAIN targets' = Full(layer + 1)
      BY <3>1, <3>2, <3>4, FullNext DEF MInv, Targets
    <3> QED BY <1>5, <2>1, <3>1, <3>4, <3>5, LayerDone
  <2>8. CASE \E m \in 0 .. MaxTokens : CommitVerified(m) \/ CommitPath(m)
    <3>1. PICK m \in 0 .. MaxTokens :
            /\ at = "commit" /\ at' = "idle" /\ run' = run /\ run.kind \in {"verify", "tree"}
            /\ kv' = [l \in Layers(config) |-> kv[l] + m]
      BY <2>8 DEF CommitVerified, CommitPath
    <3>2. Even(kv)
      BY <3>1 DEF MInv, Rows, Moving
    <3>3. Even(kv')
      <4>1. kv' \in [Layers(config) -> Nat]
        BY <3>1, <3>2 DEF Even
      <4>2. \A l \in Layers(config) : kv'[l] = kv[l] + m
        BY <3>1
      <4> QED BY <3>2, <4>1, <4>2 DEF Even
    <3> QED BY <1>5, <2>1, <3>1, <3>3, Outside
  <2> QED BY <1>5, <2>2, <2>3, <2>4, <2>5, <2>6, <2>7, <2>8 DEF Work
<1>6. \/ UNCHANGED vars
      \/ ~opened /\ Pack /\ UNCHANGED evars
      \/ UNCHANGED pvars /\ Open
      \/ UNCHANGED pvars /\ Close
      \/ /\ Work /\ opened /\ opened'
         /\ UNCHANGED <<pvars, lazy, option, budget>>
  BY Steps
<1> QED BY <1>1, <1>2, <1>3, <1>4, <1>5, <1>6

LEMMA MInvAlways == Spec => []MInv
<1>1. Init => MInv
  BY MInvInit
<1>2. EInv /\ MInv /\ [Next]_vars => MInv'
  BY MInvKept
<1>3. Spec => Init /\ [][Next]_vars
  BY DEF Spec, vars
<1> QED BY <1>1, <1>2, <1>3, EInvAlways, PTL

\* A mask that is an array has a column for every key its layer sees, whatever was
\* generated, rolled back or begun anew before, if producers and the layers that share
\* their keys are of one kind of attention (archspec.py, MaskPlan).
THEOREM MasksAlwaysFit == ASSUME KindsFit PROVE Spec => []MaskFits
<1>1. ASSUME EInv, MInv, at \in {"run", "scatter"}, HasKeys(layer)
      PROVE  run.masks[layer] \in {0, Seen(layer, run.base, run.n)}
  <2>1. layer \in Layers(config) /\ Moving
    BY <1>1 DEF EInv, Standing, Moving
  <2> QED BY <1>1, <2>1 DEF MInv, Masks
<1>2. EInv /\ MInv => MaskFits
  BY <1>1 DEF MaskFits
<1> QED BY <1>2, EInvAlways, MInvAlways, PTL

\* In every pattern of layers, one that shares keys finds its producer's of this pass
\* where that producer is not negative, and after a pass the drafter has one entry of
\* every kind (architectures.py:246-257, 341-392).
THEOREM ConsumersAlwaysServed == Spec => []ConsumersServed
<1>1. ASSUME EInv, MInv, at = "run", Consumer(config, layer), HasKeys(layer)
      PROVE  Producer(config, layer) \in shared
  <2>1. config \in Configs /\ layer \in Layers(config) /\ Moving
    BY <1>1 DEF EInv, Disk, PackInv, Standing, Moving
  <2>2. Producer(config, layer) \in Layers(config) /\ Producer(config, layer) < layer
    BY <1>1, <2>1, OwnKeys
  <2>3. Producer(config, layer) \in Producers(config)
    BY <1>1, <2>1 DEF Producers
  <2>4. Producer(config, layer) \in 0 .. layer - 1
    BY <2>1, <2>2 DEF Layers
  <2> QED BY <1>1, <2>1, <2>3, <2>4 DEF MInv, Stashed
<1>2. ASSUME EInv, MInv, opened, at = "idle", run.kind = "forward", config.type \in Gemma4,
             kv # NoKV
      PROVE  DOMAIN targets = {LayerType(config, l) : l \in 0 .. FirstShared(config) - 1}
  <2>1. config \in Configs
    BY <1>2 DEF EInv, Disk, PackInv
  <2>2. DOMAIN targets = Full(config.n)
    BY <1>2 DEF MInv, Targets
  <2> QED BY <1>2, <2>1, <2>2, FullIsAll
<1>3. EInv /\ MInv => ConsumersServed
  BY <1>1, <1>2 DEF ConsumersServed
<1> QED BY <1>3, EInvAlways, MInvAlways, PTL
=============================================================================
