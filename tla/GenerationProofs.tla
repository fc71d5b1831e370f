-------------------------- MODULE GenerationProofs --------------------------
(***************************************************************************)
(* Proofs about Generation: what the caches hold, what a round accepts,    *)
(* and that the loops yield what greedy decoding would.                    *)
(***************************************************************************)
EXTENDS Generation, SequenceTheorems, WellFoundedInduction, TLAPS

------------------------------------------------------------------------------
(* Least and greatest numbers: the CHOOSEs of Generation find what they look *)
(* for.                                                                      *)

LEMMA Least ==
  ASSUME NEW T, T \subseteq Nat, T # {}
  PROVE  \E m \in T : \A n \in T : m <= n
<1>1. IsWellFoundedOn(OpToRel(<, Nat), Nat)
  BY NatLessThanWellFounded
<1>2. PICK m \in T : \A n \in T : ~ (<<n, m>> \in OpToRel(<, Nat))
  BY <1>1, WFMin
<1>3. ASSUME NEW n \in T PROVE m <= n
  <2>1. m \in Nat /\ n \in Nat
    OBVIOUS
  <2>2. n < m => <<n, m>> \in OpToRel(<, Nat)
    BY <2>1 DEF OpToRel
  <2>3. ~(n < m)
    BY <1>2, <2>2
  <2> QED BY <2>1, <2>3
<1> QED BY <1>3

LEMMA Greatest ==
  ASSUME NEW T, T \subseteq Nat, T # {}, NEW b \in Nat, \A n \in T : n <= b
  PROVE  \E m \in T : \A n \in T : n <= m
<1> DEFINE G == {b - n : n \in T}
<1>1. G \subseteq Nat /\ G # {}
  <2>1. \A n \in T : b - n \in Nat
    OBVIOUS
  <2>2. PICK n \in T : TRUE
    OBVIOUS
  <2> QED BY <2>1, <2>2
<1>2. PICK g \in G : \A h \in G : g <= h
  <2> HIDE DEF G
  <2> QED BY <1>1, Least
<1>3. PICK m \in T : g = b - m
  BY <1>2
<1>4. \A n \in T : b - n \in G
  OBVIOUS
<1>5. \A n \in T : n <= m
  BY <1>2, <1>3, <1>4
<1> QED BY <1>5

------------------------------------------------------------------------------
(* The caches. *)

Row == Token \cup {Lost}

\* Every layer of the caches c holds its part of the rows of the sequence s: Holds,
\* said of any caches.
HoldIn(c, s) == \A l \in Layer : c[l] = Grown(l, <<>>, s)

\* Appending rows to a cache.
LEMMA GrownIs ==
  ASSUME NEW l, NEW c \in Seq(Row), NEW x \in Seq(Row)
  PROVE  /\ Grown(l, c, x) \in Seq(Row)
         /\ Len(Grown(l, c, x)) = Len(c) + Len(x)
         /\ \A i \in 1 .. Len(c) + Len(x) :
              Grown(l, c, x)[i] =
                IF Kind[l] # "full" /\ i + Window <= Len(c) + Len(x) THEN Lost
                ELSE (c \o x)[i]
<1> DEFINE s == c \o x
<1>1. s \in Seq(Row) /\ Len(s) = Len(c) + Len(x)
  BY ConcatProperties
<1>2. CASE Kind[l] = "full"
  BY <1>1, <1>2 DEF Grown
<1>3. CASE Kind[l] # "full"
  <2> DEFINE g == [i \in 1 .. Len(s) |-> IF i + Window <= Len(s) THEN Lost ELSE s[i]]
  <2>1. Grown(l, c, x) = g
    BY <1>3 DEF Grown
  <2>2. Len(s) \in Nat
    BY <1>1
  <2>3. \A i \in 1 .. Len(s) : (IF i + Window <= Len(s) THEN Lost ELSE s[i]) \in Row
    BY <1>1 DEF Row
  <2>4. g \in Seq(Row) /\ Len(g) = Len(s)
    BY <2>2, <2>3
  <2>5. \A i \in 1 .. Len(s) : g[i] = IF i + Window <= Len(s) THEN Lost ELSE s[i]
    OBVIOUS
  <2> HIDE DEF g
  <2> QED BY <1>1, <1>3, <2>1, <2>4, <2>5
<1> QED BY <1>2, <1>3

LEMMA TokenRows == ASSUME NEW s \in Seq(Token) PROVE s \in Seq(Row)
BY DEF Row

\* A sequence fed to an empty cache.
LEMMA GrownFresh ==
  ASSUME NEW l, NEW s \in Seq(Token)
  PROVE  /\ Grown(l, <<>>, s) \in Seq(Row)
         /\ Len(Grown(l, <<>>, s)) = Len(s)
         /\ \A i \in 1 .. Len(s) :
              Grown(l, <<>>, s)[i] =
                IF Kind[l] # "full" /\ i + Window <= Len(s) THEN Lost ELSE s[i]
<1> DEFINE g == Grown(l, <<>>, s)
<1>1. s \in Seq(Row) /\ <<>> \in Seq(Row) /\ <<>> \o s = s /\ Len(<<>>) = 0 /\ Len(s) \in Nat
  BY TokenRows, ConcatEmptySeq
<1>2. /\ g \in Seq(Row) /\ Len(g) = Len(<<>>) + Len(s)
      /\ \A i \in 1 .. Len(<<>>) + Len(s) :
           g[i] = IF Kind[l] # "full" /\ i + Window <= Len(<<>>) + Len(s) THEN Lost
                  ELSE (<<>> \o s)[i]
  BY <1>1, GrownIs
<1>3. Len(<<>>) + Len(s) = Len(s)
  BY <1>1
<1> HIDE DEF g
<1>4. g \in Seq(Row) /\ Len(g) = Len(s)
  BY <1>2, <1>3
<1>5. \A i \in 1 .. Len(s) :
        g[i] = IF Kind[l] # "full" /\ i + Window <= Len(s) THEN Lost ELSE s[i]
  BY <1>1, <1>2, <1>3
<1> QED BY <1>4, <1>5 DEF g

\* Rows appended to the cache of a sequence make the cache of the longer sequence: a
\* sliding window forgets the same rows, whether they come together or not.
LEMMA GrownTwice ==
  ASSUME NEW l, NEW s \in Seq(Token), NEW x \in Seq(Token)
  PROVE  Grown(l, Grown(l, <<>>, s), x) = Grown(l, <<>>, s \o x)
<1>1. x \in Seq(Row) /\ s \o x \in Seq(Token)
  BY TokenRows, ConcatProperties
<1>2. Len(s \o x) = Len(s) + Len(x) /\ Len(s) \in Nat /\ Len(x) \in Nat
  BY ConcatProperties
<1>3. PICK g : g = Grown(l, <<>>, s)
  OBVIOUS
<1>4. /\ g \in Seq(Row) /\ Len(g) = Len(s)
      /\ \A i \in 1 .. Len(s) :
           g[i] = IF Kind[l] # "full" /\ i + Window <= Len(s) THEN Lost ELSE s[i]
  BY <1>3, GrownFresh
<1>5. PICK b : b = Grown(l, <<>>, s \o x)
  OBVIOUS
<1>6. /\ b \in Seq(Row) /\ Len(b) = Len(s) + Len(x)
      /\ \A i \in 1 .. Len(s) + Len(x) :
           b[i] = IF Kind[l] # "full" /\ i + Window <= Len(s) + Len(x) THEN Lost
                  ELSE (s \o x)[i]
  BY <1>1, <1>2, <1>5, GrownFresh
<1>7. PICK a : a = Grown(l, g, x)
  OBVIOUS
<1>8. /\ a \in Seq(Row) /\ Len(a) = Len(s) + Len(x)
      /\ \A i \in 1 .. Len(s) + Len(x) :
           a[i] = IF Kind[l] # "full" /\ i + Window <= Len(s) + Len(x) THEN Lost
                  ELSE (g \o x)[i]
  <2>1. /\ a \in Seq(Row) /\ Len(a) = Len(g) + Len(x)
        /\ \A i \in 1 .. Len(g) + Len(x) :
             a[i] = IF Kind[l] # "full" /\ i + Window <= Len(g) + Len(x) THEN Lost
                    ELSE (g \o x)[i]
    BY <1>1, <1>4, <1>7, GrownIs
  <2> QED BY <1>4, <2>1
<1>9. ASSUME NEW i \in 1 .. Len(s) + Len(x) PROVE a[i] = b[i]
  <2>1. (s \o x)[i] = IF i <= Len(s) THEN s[i] ELSE x[i - Len(s)]
    BY ConcatProperties
  <2>2. (g \o x)[i] = IF i <= Len(s) THEN g[i] ELSE x[i - Len(s)]
    BY <1>1, <1>4, ConcatProperties
  <2>3. CASE i <= Len(s)
    <3>1. i \in 1 .. Len(s) /\ (i + Window <= Len(s) => i + Window <= Len(s) + Len(x))
      BY <1>2, <2>3, GenerationAssumption
    <3>2. g[i] = IF Kind[l] # "full" /\ i + Window <= Len(s) THEN Lost ELSE s[i]
      BY <1>4, <3>1
    <3> QED BY <1>6, <1>8, <2>1, <2>2, <2>3, <3>1, <3>2
  <2>4. CASE ~(i <= Len(s))
    BY <1>6, <1>8, <2>1, <2>2, <2>4
  <2> QED BY <2>3, <2>4
<1>10. \A i \in 1 .. Len(a) : a[i] = b[i]
  BY <1>8, <1>9
<1>11. Len(a) = Len(b)
  BY <1>6, <1>8
<1>12. a = b
  BY <1>6, <1>8, <1>10, <1>11, SeqEqual
<1> QED BY <1>3, <1>5, <1>7, <1>12

\* A cache that has dropped nothing is its sequence.
LEMMA GrownWhole ==
  ASSUME NEW l, NEW s \in Seq(Token), Kind[l] = "full" \/ Len(s) <= Window
  PROVE  Grown(l, <<>>, s) = s
<1>1. s \in Seq(Row) /\ <<>> \in Seq(Row) /\ <<>> \o s = s /\ Len(<<>>) = 0 /\ Len(s) \in Nat
  BY TokenRows, ConcatEmptySeq
<1>2. CASE Kind[l] = "full"
  BY <1>1, <1>2 DEF Grown
<1>3. CASE Len(s) <= Window
  <2>1. PICK g : g = Grown(l, <<>>, s)
    OBVIOUS
  <2>2. /\ g \in Seq(Row) /\ Len(g) = Len(s)
        /\ \A i \in 1 .. Len(s) :
             g[i] = IF Kind[l] # "full" /\ i + Window <= Len(s) THEN Lost ELSE s[i]
    BY <2>1, GrownFresh
  <2>3. \A i \in 1 .. Len(s) : ~(i + Window <= Len(s))
    BY <1>1, <1>3, GenerationAssumption
  <2>4. \A i \in 1 .. Len(g) : g[i] = s[i]
    BY <2>2, <2>3
  <2>5. g = s
    BY <1>1, <2>2, <2>4, SeqEqual
  <2> QED BY <2>1, <2>5
<1> QED BY <1>2, <1>3

\* The probe layer is one of full attention.
LEMMA ProbeIs == Probe \in Layer /\ Kind[Probe] = "full"
<1> DEFINE T == {l \in Layer : Kind[l] = "full"}
<1>1. Len(Kind) \in Nat
  BY GenerationAssumption
<1>2. T \subseteq Nat /\ T # {}
  BY <1>1, GenerationAssumption DEF Layer
<1>3. PICK l \in T : \A j \in T : l <= j
  <2> HIDE DEF T
  <2> QED BY <1>2, Least
<1>4. \E m \in Layer : Kind[m] = "full" /\ \A j \in Layer : Kind[j] = "full" => m <= j
  BY <1>3
<1> QED BY <1>4 DEF Probe

\* What the probe layer holds when every layer holds its part of a sequence.
LEMMA RowsAre ==
  ASSUME NEW s \in Seq(Token), HoldIn(kv, s)
  PROVE  Rows = s /\ Holds(Rows) /\ Holds(s)
<1>1. Rows = Grown(Probe, <<>>, s)
  BY ProbeIs DEF HoldIn, Rows
<1>2. Rows = s
  BY <1>1, ProbeIs, GrownWhole
<1>3. Holds(s)
  BY DEF Holds, HoldIn
<1> QED BY <1>2, <1>3

\* A pass appends its rows in every layer.
LEMMA FedHolds ==
  ASSUME NEW s \in Seq(Token), NEW x \in Seq(Token), HoldIn(kv, s)
  PROVE  HoldIn(Fed(x), s \o x)
<1> SUFFICES ASSUME NEW l \in Layer PROVE Fed(x)[l] = Grown(l, <<>>, s \o x)
  BY DEF HoldIn
<1>1. Fed(x)[l] = Grown(l, kv[l], x)
  BY DEF Fed
<1>2. kv[l] = Grown(l, <<>>, s)
  BY DEF HoldIn
<1> QED BY <1>1, <1>2, GrownTwice

\* What the caches hold are rows.
LEMMA HoldType ==
  ASSUME NEW c, NEW s \in Seq(Token), HoldIn(c, s), NEW l \in Layer
  PROVE  c[l] \in Seq(Row) /\ Len(c[l]) = Len(s)
<1>1. s \in Seq(Row) /\ <<>> \in Seq(Row) /\ Len(<<>>) = 0 /\ Len(s) \in Nat
  BY TokenRows
<1>2. c[l] = Grown(l, <<>>, s)
  BY DEF HoldIn
<1>3. Grown(l, <<>>, s) \in Seq(Row) /\ Len(Grown(l, <<>>, s)) = Len(<<>>) + Len(s)
  BY <1>1, GrownIs
<1> QED BY <1>1, <1>2, <1>3

\* No layer has dropped a row of a sequence of that length.
Unrotated(n) == n <= Window \/ \A l \in Layer : Kind[l] = "full"

\* A rollback of caches that have dropped nothing.
LEMMA RolledHolds ==
  ASSUME NEW c, NEW s \in Seq(Token), HoldIn(c, s), Unrotated(Len(s)),
         NEW n \in 0 .. Len(s)
  PROVE  HoldIn(Rolled(c, n), SubSeq(s, 1, Len(s) - n))
<1>1. Len(s) \in Nat /\ n \in Nat
  OBVIOUS
<1>2. SubSeq(s, 1, Len(s) - n) \in Seq(Token) /\ Len(SubSeq(s, 1, Len(s) - n)) = Len(s) - n
  <2>1. \A i \in 1 .. Len(s) - n : s[i] \in Token
    BY ElementOfSeq
  <2>2. /\ SubSeq(s, 1, Len(s) - n) \in Seq(Token)
        /\ Len(SubSeq(s, 1, Len(s) - n)) = IF 1 <= Len(s) - n THEN Len(s) - n - 1 + 1 ELSE 0
    BY <1>1, <2>1, SubSeqProperties
  <2> QED BY <1>1, <2>2
<1> SUFFICES ASSUME NEW l \in Layer
             PROVE  Rolled(c, n)[l] = Grown(l, <<>>, SubSeq(s, 1, Len(s) - n))
  BY DEF HoldIn
<1>3. Kind[l] = "full" \/ Len(s) <= Window
  BY DEF Unrotated
<1>4. c[l] = s
  BY <1>3, GrownWhole DEF HoldIn
<1>5. Grown(l, <<>>, SubSeq(s, 1, Len(s) - n)) = SubSeq(s, 1, Len(s) - n)
  <2>1. Kind[l] = "full" \/ Len(SubSeq(s, 1, Len(s) - n)) <= Window
    BY <1>1, <1>2, <1>3, GenerationAssumption
  <2> QED BY <1>2, <2>1, GrownWhole
<1>6. Rolled(c, n)[l] = Trimmed(s, n)
  BY <1>4 DEF Rolled
<1>7. Trimmed(s, n) = SubSeq(s, 1, Len(s) - n)
  <2>1. CASE n = 0
    BY <1>1, <2>1, SubSeqFull DEF Trimmed
  <2>2. CASE n > 0
    BY <1>1, <2>2 DEF Trimmed, Greater
  <2> QED BY <1>1, <2>1, <2>2
<1> QED BY <1>5, <1>6, <1>7

------------------------------------------------------------------------------
(* Prefixes. *)

LEMMA Cut ==
  ASSUME NEW S, NEW s \in Seq(S), NEW n \in 0 .. Len(s)
  PROVE  /\ SubSeq(s, 1, n) \in Seq(S) /\ Len(SubSeq(s, 1, n)) = n
         /\ \A i \in 1 .. n : SubSeq(s, 1, n)[i] = s[i]
<1>1. Len(s) \in Nat /\ n \in Nat
  OBVIOUS
<1>2. \A i \in 1 .. n : s[i] \in S
  BY <1>1, ElementOfSeq
<1>3. /\ SubSeq(s, 1, n) \in Seq(S)
      /\ Len(SubSeq(s, 1, n)) = IF 1 <= n THEN n - 1 + 1 ELSE 0
      /\ \A i \in 1 .. n - 1 + 1 : SubSeq(s, 1, n)[i] = s[1 + i - 1]
  BY <1>1, <1>2, SubSeqProperties
<1> QED BY <1>1, <1>3

\* A prefix that ends in the second of two sequences.
LEMMA CutLater ==
  ASSUME NEW S, NEW s \in Seq(S), NEW t \in Seq(S), NEW n \in 0 .. Len(t)
  PROVE  SubSeq(s \o t, 1, Len(s) + n) = s \o SubSeq(t, 1, n)
<1>1. Len(s) \in Nat /\ Len(t) \in Nat /\ n \in Nat
  OBVIOUS
<1>2. /\ s \o t \in Seq(S) /\ Len(s \o t) = Len(s) + Len(t)
      /\ \A i \in 1 .. Len(s) + Len(t) :
           (s \o t)[i] = IF i <= Len(s) THEN s[i] ELSE t[i - Len(s)]
  BY ConcatProperties
<1>3. PICK p : p = SubSeq(t, 1, n)
  OBVIOUS
<1>4. p \in Seq(S) /\ Len(p) = n /\ \A i \in 1 .. n : p[i] = t[i]
  BY <1>3, Cut
<1>5. /\ s \o p \in Seq(S) /\ Len(s \o p) = Len(s) + n
      /\ \A i \in 1 .. Len(s) + n : (s \o p)[i] = IF i <= Len(s) THEN s[i] ELSE p[i - Len(s)]
  BY <1>4, ConcatProperties
<1>6. PICK a : a = SubSeq(s \o t, 1, Len(s) + n)
  OBVIOUS
<1>7. Len(s) + n \in 0 .. Len(s \o t)
  BY <1>1, <1>2
<1>8. a \in Seq(S) /\ Len(a) = Len(s) + n /\ \A i \in 1 .. Len(s) + n : a[i] = (s \o t)[i]
  BY <1>2, <1>6, <1>7, Cut
<1>9. ASSUME NEW i \in 1 .. Len(s) + n PROVE a[i] = (s \o p)[i]
  <2>1. i \in 1 .. Len(s) + Len(t) /\ (~(i <= Len(s)) => i - Len(s) \in 1 .. n)
    BY <1>1
  <2> QED BY <1>2, <1>4, <1>5, <1>8, <2>1
<1>10. \A i \in 1 .. Len(a) : a[i] = (s \o p)[i]
  BY <1>8, <1>9
<1>11. a = s \o p
  BY <1>5, <1>8, <1>10, SeqEqual
<1> QED BY <1>3, <1>6, <1>11

\* A prefix that ends in the first.
LEMMA CutEarlier ==
  ASSUME NEW S, NEW s \in Seq(S), NEW t \in Seq(S), NEW n \in 0 .. Len(s)
  PROVE  SubSeq(s \o t, 1, n) = SubSeq(s, 1, n)
<1>1. Len(s) \in Nat /\ Len(t) \in Nat /\ n \in Nat
  OBVIOUS
<1>2. /\ s \o t \in Seq(S) /\ Len(s \o t) = Len(s) + Len(t)
      /\ \A i \in 1 .. Len(s) + Len(t) :
           (s \o t)[i] = IF i <= Len(s) THEN s[i] ELSE t[i - Len(s)]
  BY ConcatProperties
<1>3. n \in 0 .. Len(s \o t)
  BY <1>1, <1>2
<1>4. PICK a : a = SubSeq(s \o t, 1, n)
  OBVIOUS
<1>5. a \in Seq(S) /\ Len(a) = n /\ \A i \in 1 .. n : a[i] = (s \o t)[i]
  BY <1>2, <1>3, <1>4, Cut
<1>6. PICK b : b = SubSeq(s, 1, n)
  OBVIOUS
<1>7. b \in Seq(S) /\ Len(b) = n /\ \A i \in 1 .. n : b[i] = s[i]
  BY <1>6, Cut
<1>8. \A i \in 1 .. n : (s \o t)[i] = s[i]
  <2> SUFFICES ASSUME NEW i \in 1 .. n PROVE (s \o t)[i] = s[i]
    OBVIOUS
  <2>1. i \in 1 .. Len(s) + Len(t) /\ i <= Len(s)
    BY <1>1
  <2> QED BY <1>2, <2>1
<1>9. a = b
  BY <1>5, <1>7, <1>8, SeqEqual
<1> QED BY <1>4, <1>6, <1>9

\* A prefix of a prefix.
LEMMA CutCut ==
  ASSUME NEW S, NEW s \in Seq(S), NEW m \in 0 .. Len(s), NEW n \in 0 .. m
  PROVE  SubSeq(SubSeq(s, 1, m), 1, n) = SubSeq(s, 1, n)
<1>1. Len(s) \in Nat /\ m \in Nat /\ n \in 0 .. Len(s)
  OBVIOUS
<1>2. PICK p : p = SubSeq(s, 1, m)
  OBVIOUS
<1>3. p \in Seq(S) /\ Len(p) = m /\ \A i \in 1 .. m : p[i] = s[i]
  BY <1>2, Cut
<1>4. PICK a : a = SubSeq(p, 1, n)
  OBVIOUS
<1>5. a \in Seq(S) /\ Len(a) = n /\ \A i \in 1 .. n : a[i] = p[i]
  BY <1>3, <1>4, Cut
<1>6. PICK b : b = SubSeq(s, 1, n)
  OBVIOUS
<1>7. b \in Seq(S) /\ Len(b) = n /\ \A i \in 1 .. n : b[i] = s[i]
  BY <1>1, <1>6, Cut
<1>8. \A i \in 1 .. n : a[i] = b[i]
  BY <1>1, <1>3, <1>5, <1>7
<1>9. a = b
  BY <1>5, <1>7, <1>8, SeqEqual
<1> QED BY <1>2, <1>4, <1>6, <1>9

\* A prefix and the rest.
LEMMA CutApart ==
  ASSUME NEW S, NEW s \in Seq(S), NEW n \in 0 .. Len(s)
  PROVE  /\ SubSeq(s, n + 1, Len(s)) \in Seq(S)
         /\ Len(SubSeq(s, n + 1, Len(s))) = Len(s) - n
         /\ SubSeq(s, 1, n) \o SubSeq(s, n + 1, Len(s)) = s
<1>1. Len(s) \in Nat /\ n \in Nat
  OBVIOUS
<1>2. \A i \in n + 1 .. Len(s) : s[i] \in S
  BY <1>1, ElementOfSeq
<1>3. /\ SubSeq(s, n + 1, Len(s)) \in Seq(S)
      /\ Len(SubSeq(s, n + 1, Len(s))) = IF n + 1 <= Len(s) THEN Len(s) - (n + 1) + 1 ELSE 0
  BY <1>1, <1>2, SubSeqProperties
<1>4. SubSeq(s, 1, n) \o SubSeq(s, n + 1, Len(s)) = SubSeq(s, 1, Len(s))
  <2>1. 1 \in 1 .. Len(s) + 1 /\ n \in 1 - 1 .. Len(s) /\ Len(s) \in n .. Len(s)
    BY <1>1
  <2> QED BY <2>1, ConcatAdjacentSubSeq
<1>5. SubSeq(s, 1, Len(s)) = s
  BY SubSeqFull
<1>6. Len(SubSeq(s, n + 1, Len(s))) = Len(s) - n
  BY <1>1, <1>3
<1> QED BY <1>3, <1>4, <1>5, <1>6

\* Two halves, the second cut into its first element and the rest.
LEMMA FrontLast ==
  ASSUME NEW S, NEW s \in Seq(S), s # <<>>
  PROVE  /\ SubSeq(s, 1, Len(s) - 1) \in Seq(S)
         /\ Len(SubSeq(s, 1, Len(s) - 1)) = Len(s) - 1
         /\ <<s[Len(s)]>> \in Seq(S)
         /\ SubSeq(s, 1, Len(s) - 1) \o <<s[Len(s)]>> = s
<1>1. Len(s) \in Nat \ {0}
  BY EmptySeq
<1>2. Len(s) - 1 \in 0 .. Len(s) /\ Len(s) \in 1 .. Len(s)
  BY <1>1
<1>3. s[Len(s)] \in S
  BY <1>2, ElementOfSeq
<1>4. SubSeq(s, 1, Len(s)) = SubSeq(s, 1, Len(s) - 1) \o <<s[Len(s)]>>
  <2>1. 1 \in 1 .. Len(s)
    BY <1>1
  <2> QED BY <1>2, <2>1, SubSeqRecursiveSecond
<1> QED BY <1>2, <1>3, <1>4, Cut, SubSeqFull

\* The associativity of \o, folded up so that the provers use it only when told.
Regroups(s, t, u) == s \o (t \o u) = (s \o t) \o u

LEMMA Regroup ==
  ASSUME NEW S, NEW s \in Seq(S), NEW t \in Seq(S), NEW u \in Seq(S)
  PROVE  Regroups(s, t, u)
BY ConcatAssociative DEF Regroups

\* A sequence, its last token fed again with others.
Refeeds(f, q, n) ==
  SubSeq(f, 1, Len(f) - 1) \o SubSeq(<<f[Len(f)]>> \o q, 1, n + 1) = f \o SubSeq(q, 1, n)

LEMMA LastAgain ==
  ASSUME NEW S, NEW f \in Seq(S), f # <<>>, NEW q \in Seq(S), NEW n \in 0 .. Len(q)
  PROVE  Refeeds(f, q, n)
<1>1. PICK p : p = SubSeq(f, 1, Len(f) - 1)
  OBVIOUS
<1>2. PICK b : b = <<f[Len(f)]>>
  OBVIOUS
<1>3. p \in Seq(S) /\ b \in Seq(S) /\ Len(b) = 1 /\ p \o b = f
  BY <1>1, <1>2, FrontLast
<1>4. PICK r : r = SubSeq(q, 1, n)
  OBVIOUS
<1>5. r \in Seq(S)
  BY <1>4, Cut
<1>6. SubSeq(b \o q, 1, Len(b) + n) = b \o SubSeq(q, 1, n)
  BY <1>3, CutLater
<1>7. SubSeq(b \o q, 1, n + 1) = b \o r
  BY <1>3, <1>4, <1>6
<1>8. p \o (b \o r) = (p \o b) \o r
  <2>1. Regroups(p, b, r)
    BY <1>3, <1>5, Regroup
  <2> QED BY <2>1 DEF Regroups
<1> QED BY <1>1, <1>2, <1>3, <1>4, <1>7, <1>8 DEF Refeeds

------------------------------------------------------------------------------
(* What a pass answers, and what is accepted of it. *)

\* What the loops rely on: the target answers with a token, and its likeliest token is
\* one of its likeliest.
Oracle == \A s \in Seq(Token) : Argmax(s) \in Token /\ Argmax(s) \in TopK(s)

\* The target's answers to the last token of f and the draft q after it, when the
\* caches hold f but for its last token.
LEMMA TargetsAre ==
  ASSUME NEW f \in Seq(Token), f # <<>>, HoldIn(kv, SubSeq(f, 1, Len(f) - 1)),
         NEW q \in Seq(Token), NEW targ, targ \in Targets(<<f[Len(f)]>> \o q)
  PROVE  /\ Rows = SubSeq(f, 1, Len(f) - 1) /\ Holds(Rows)
         /\ targ = [i \in 1 .. Len(q) + 1 |-> Argmax(f \o SubSeq(q, 1, i - 1))]
<1>1. PICK p : p = SubSeq(f, 1, Len(f) - 1)
  OBVIOUS
<1>2. PICK b : b = <<f[Len(f)]>>
  OBVIOUS
<1>3. p \in Seq(Token) /\ b \in Seq(Token) /\ Len(b) = 1 /\ p \o b = f
  BY <1>1, <1>2, FrontLast
<1>4. Rows = p /\ Holds(Rows)
  BY <1>1, <1>3, RowsAre
<1>5. Len(b \o q) = Len(q) + 1 /\ Len(q) \in Nat /\ b \o q \in Seq(Token)
  <2>1. Len(b \o q) = Len(b) + Len(q) /\ b \o q \in Seq(Token)
    BY <1>3, ConcatProperties
  <2>2. Len(q) \in Nat
    OBVIOUS
  <2> QED BY <1>3, <2>1, <2>2
<1>6. targ = [i \in 1 .. Len(q) + 1 |-> Argmax(p \o SubSeq(b \o q, 1, i))]
  <2>1. targ \in {[i \in 1 .. Len(b \o q) |-> Argmax(Rows \o SubSeq(b \o q, 1, i))]}
    BY <1>2, <1>4 DEF Targets
  <2> QED BY <1>4, <1>5, <2>1
<1>7. ASSUME NEW i \in 1 .. Len(q) + 1
      PROVE  p \o SubSeq(b \o q, 1, i) = f \o SubSeq(q, 1, i - 1)
  <2>1. PICK n : n = i - 1
    OBVIOUS
  <2>2. n \in 0 .. Len(q) /\ n + 1 = i
    BY <1>5, <2>1
  <2>3. p \o SubSeq(b \o q, 1, n + 1) = f \o SubSeq(q, 1, n)
    <3>1. SubSeq(f, 1, Len(f) - 1) \o SubSeq(<<f[Len(f)]>> \o q, 1, n + 1)
            = f \o SubSeq(q, 1, n)
      <4>1. Refeeds(f, q, n)
        BY <2>2, LastAgain
      <4> QED BY <4>1 DEF Refeeds
    <3> QED BY <1>1, <1>2, <3>1
  <2> QED BY <2>1, <2>2, <2>3
<1>8. targ = [i \in 1 .. Len(q) + 1 |-> Argmax(f \o SubSeq(q, 1, i - 1))]
  BY <1>6, <1>7
<1> QED BY <1>1, <1>4, <1>8

\* Accepted finds the longest prefix that passes.
LEMMA AcceptedIs ==
  ASSUME NEW q \in Seq(Token), NEW targ
  PROVE  /\ Accepted(q, targ) \in 0 .. Len(q)
         /\ \A i \in 1 .. Accepted(q, targ) : Plausible(q, i, targ)
<1> DEFINE T == {m \in 0 .. Len(q) : m = Len(q) \/ ~Plausible(q, m + 1, targ)}
<1>1. Len(q) \in Nat
  OBVIOUS
<1>2. T \subseteq Nat /\ T # {}
  BY <1>1
<1>3. PICK m \in T : \A n \in T : m <= n
  <2> HIDE DEF T
  <2> QED BY <1>2, Least
<1>4. m \in 0 .. Len(q)
  OBVIOUS
<1>5. ASSUME NEW i \in 1 .. m PROVE Plausible(q, i, targ)
  <2>1. i - 1 \in 0 .. Len(q) /\ ~(m <= i - 1) /\ (i - 1) + 1 = i
    BY <1>1, <1>4
  <2>2. ~(i - 1 \in T)
    BY <1>3, <2>1
  <2> QED BY <2>1, <2>2
<1>6. \E n \in 0 .. Len(q) : /\ \A i \in 1 .. n : Plausible(q, i, targ)
                             /\ n = Len(q) \/ ~Plausible(q, n + 1, targ)
  BY <1>4, <1>5
<1> QED BY <1>6 DEF Accepted

\* The token of s at j is one that may follow those before it.
Chosen(meth, s, j) ==
  IF meth = "fast" THEN s[j] \in TopK(SubSeq(s, 1, j - 1)) ELSE s[j] = Argmax(SubSeq(s, 1, j - 1))

\* The sequence f is followed by tokens each of which may follow those before it.
Follows(meth, f, e) == \A i \in 1 .. Len(e) : Chosen(meth, f \o e, Len(f) + i)

\* The rows of a verification pass, and the tokens of a round that keeps m of a draft.
Pass(q) == <<Last(out)>> \o q
Yields(q, m, targ) == SubSeq(q, 1, m) \o <<targ[m + 1]>>

\* What the loops need of a round after f that keeps m tokens of q and yields e.
Sound(f, q, m, e) ==
  /\ m \in 0 .. Len(q)
  /\ e \in Seq(Token) /\ Len(e) = m + 1 /\ e # <<>>
  /\ Follows(method, f, e)
  /\ SubSeq(f \o e, 1, Len(f \o e) - 1) = f \o SubSeq(q, 1, m)

LEMMA RoundAdds ==
  ASSUME Oracle,
         NEW f \in Seq(Token), f # <<>>, HoldIn(kv, SubSeq(f, 1, Len(f) - 1)),
         out # <<>>, Last(out) = f[Len(f)],
         NEW q \in Seq(Token), NEW targ, targ \in Targets(Pass(q))
  PROVE  Sound(f, q, Accepted(q, targ), Yields(q, Accepted(q, targ), targ))
<1>0. PICK m : m = Accepted(q, targ)
  OBVIOUS
<1>0a. PICK e : e = SubSeq(q, 1, m) \o <<targ[m + 1]>>
  OBVIOUS
<1>0b. targ \in Targets(<<f[Len(f)]>> \o q)
  BY DEF Pass
<1>1. m \in 0 .. Len(q) /\ \A i \in 1 .. m : Plausible(q, i, targ)
  BY <1>0, AcceptedIs
<1>2. Len(q) \in Nat /\ Len(f) \in Nat /\ m \in Nat
  BY <1>1
<1>3. /\ Rows = SubSeq(f, 1, Len(f) - 1) /\ Holds(Rows)
      /\ targ = [i \in 1 .. Len(q) + 1 |-> Argmax(f \o SubSeq(q, 1, i - 1))]
  BY <1>0b, TargetsAre
<1>4. ASSUME NEW i \in 1 .. Len(q) + 1
      PROVE  /\ targ[i] = Argmax(f \o SubSeq(q, 1, i - 1))
             /\ f \o SubSeq(q, 1, i - 1) \in Seq(Token)
  <2>1. i - 1 \in 0 .. Len(q)
    BY <1>2
  <2> QED BY <1>3, <2>1, Cut, ConcatProperties
<1>5. PICK p : p = SubSeq(q, 1, m)
  OBVIOUS
<1>6. p \in Seq(Token) /\ Len(p) = m /\ \A i \in 1 .. m : p[i] = q[i]
  BY <1>1, <1>5, Cut
<1>7. PICK t : t = targ[m + 1]
  OBVIOUS
<1>8. t = Argmax(f \o p) /\ f \o p \in Seq(Token) /\ t \in Token
  <2>1. m + 1 \in 1 .. Len(q) + 1 /\ (m + 1) - 1 = m
    BY <1>1, <1>2
  <2>2. targ[m + 1] = Argmax(f \o SubSeq(q, 1, m)) /\ f \o SubSeq(q, 1, m) \in Seq(Token)
    BY <1>4, <2>1
  <2> QED BY <1>5, <1>7, <2>2 DEF Oracle
<1>9. PICK u : u = <<t>>
  OBVIOUS
<1>9a. e = p \o u /\ u \in Seq(Token) /\ Len(u) = 1 /\ u[1] = t
  BY <1>0a, <1>5, <1>7, <1>8, <1>9
<1>10. /\ e \in Seq(Token) /\ Len(e) = m + 1
       /\ \A i \in 1 .. m + 1 : e[i] = IF i <= m THEN q[i] ELSE t
  <2>1. /\ e \in Seq(Token) /\ Len(e) = Len(p) + Len(u)
        /\ \A i \in 1 .. Len(p) + Len(u) :
             e[i] = IF i <= Len(p) THEN p[i] ELSE u[i - Len(p)]
    <3>1. p \in Seq(Token) /\ u \in Seq(Token)
      BY <1>6, <1>9a
    <3>2. /\ p \o u \in Seq(Token) /\ Len(p \o u) = Len(p) + Len(u)
          /\ \A i \in 1 .. Len(p) + Len(u) :
               (p \o u)[i] = IF i <= Len(p) THEN p[i] ELSE u[i - Len(p)]
      BY <3>1, ConcatProperties
    <3> QED BY <1>9a, <3>2
  <2>2. Len(p) + Len(u) = m + 1
    BY <1>6, <1>9a
  <2>3. ASSUME NEW i \in 1 .. m + 1 PROVE e[i] = IF i <= m THEN q[i] ELSE t
    <3>1. CASE i <= m
      <4>1. i \in 1 .. m
        BY <1>2, <3>1
      <4> QED BY <1>6, <2>1, <2>2, <3>1, <4>1
    <3>2. CASE ~(i <= m)
      <4>1. i - m = 1
        BY <1>2, <3>2
      <4> QED BY <1>6, <1>9a, <2>1, <2>2, <3>2, <4>1
    <3> QED BY <3>1, <3>2
  <2> QED BY <2>1, <2>2, <2>3
<1>11. f \o e \in Seq(Token) /\ Len(f \o e) = Len(f) + (m + 1)
       /\ \A i \in 1 .. m + 1 : (f \o e)[Len(f) + i] = e[i]
  <2>1. /\ f \o e \in Seq(Token) /\ Len(f \o e) = Len(f) + Len(e)
        /\ \A i \in 1 .. Len(f) + Len(e) :
             (f \o e)[i] = IF i <= Len(f) THEN f[i] ELSE e[i - Len(f)]
    BY <1>10, ConcatProperties
  <2>2. ASSUME NEW i \in 1 .. m + 1 PROVE (f \o e)[Len(f) + i] = e[i]
    <3>1. /\ Len(f) + i \in 1 .. Len(f) + Len(e) /\ ~(Len(f) + i <= Len(f))
          /\ (Len(f) + i) - Len(f) = i
      BY <1>2, <1>10
    <3> QED BY <2>1, <3>1
  <2> QED BY <1>10, <2>1, <2>2
<1>12. ASSUME NEW i \in 1 .. m + 1
       PROVE  SubSeq(f \o e, 1, (Len(f) + i) - 1) = f \o SubSeq(q, 1, i - 1)
  <2>1. i - 1 \in 0 .. Len(e) /\ i - 1 \in 0 .. m /\ (Len(f) + i) - 1 = Len(f) + (i - 1)
        /\ i - 1 \in 0 .. Len(p)
    BY <1>2, <1>6, <1>10
  <2>2. SubSeq(f \o e, 1, Len(f) + (i - 1)) = f \o SubSeq(e, 1, i - 1)
    <3>1. PICK n : n = i - 1
      OBVIOUS
    <3>2. n \in 0 .. Len(e)
      BY <2>1, <3>1
    <3>3. SubSeq(f \o e, 1, Len(f) + n) = f \o SubSeq(e, 1, n)
      <4>1. e \in Seq(Token) /\ f \in Seq(Token)
        BY <1>10
      <4> QED BY ONLY <4>1, <3>2, CutLater
    <3> QED BY <3>1, <3>3
  <2>3. SubSeq(e, 1, i - 1) = SubSeq(p, 1, i - 1)
    BY <1>6, <1>9a, <2>1, CutEarlier
  <2>4. SubSeq(p, 1, i - 1) = SubSeq(q, 1, i - 1)
    BY <1>1, <1>5, <2>1, CutCut
  <2> QED BY <2>1, <2>2, <2>3, <2>4
<1>13. Follows(method, f, e)
  <2> SUFFICES ASSUME NEW i \in 1 .. m + 1 PROVE Chosen(method, f \o e, Len(f) + i)
    BY <1>10 DEF Follows
  <2>1. (f \o e)[Len(f) + i] = IF i <= m THEN q[i] ELSE t
    BY <1>10, <1>11
  <2>2. PICK a : a = f \o SubSeq(q, 1, i - 1)
    OBVIOUS
  <2>3. SubSeq(f \o e, 1, (Len(f) + i) - 1) = a
    BY <1>12, <2>2
  <2>4. i \in 1 .. Len(q) + 1
    BY <1>1, <1>2
  <2>5. targ[i] = Argmax(a) /\ a \in Seq(Token) /\ Argmax(a) \in TopK(a)
    BY <1>4, <2>2, <2>4 DEF Oracle
  <2>6. CASE i <= m
    <3>1. Plausible(q, i, targ)
      BY <1>1, <1>2, <2>6
    <3>2. q[i] = Argmax(a) \/ (method = "fast" /\ q[i] \in TopK(a))
      <4>1. Rows \o <<Last(out)>> \o SubSeq(q, 1, i - 1) = a
        <5>1. Rows \o <<Last(out)>> = f
          BY <1>3, FrontLast
        <5> QED BY <2>2, <5>1
      <4> QED BY <1>3, <2>5, <3>1, <4>1 DEF Plausible
    <3> QED BY <2>1, <2>3, <2>5, <2>6, <3>2 DEF Chosen
  <2>7. CASE ~(i <= m)
    <3>1. i = m + 1
      BY <1>2, <2>7
    <3>2. t = Argmax(a)
      BY <1>7, <2>5, <3>1
    <3> QED BY <2>1, <2>3, <2>5, <2>7, <3>2 DEF Chosen
  <2> QED BY <2>6, <2>7
<1>14. SubSeq(f \o e, 1, Len(f \o e) - 1) = f \o SubSeq(q, 1, m)
  <2>1. m + 1 \in 1 .. m + 1 /\ Len(f \o e) - 1 = (Len(f) + (m + 1)) - 1 /\ (m + 1) - 1 = m
    BY <1>2, <1>11
  <2> QED BY <1>12, <2>1
<1>15. e # <<>>
  BY <1>2, <1>10
<1>16. Sound(f, q, m, e)
  BY <1>1, <1>10, <1>13, <1>14, <1>15 DEF Sound
<1> QED BY <1>0, <1>0a, <1>16 DEF Yields

\* The same for rows fed on top of any sequence.
LEMMA TargetsOf ==
  ASSUME NEW s \in Seq(Token), HoldIn(kv, s), NEW x \in Seq(Token),
         NEW targ, targ \in Targets(x)
  PROVE  targ = [i \in 1 .. Len(x) |-> Argmax(s \o SubSeq(x, 1, i))]
<1>1. Rows = s /\ Holds(Rows)
  BY RowsAre
<1>2. targ \in {[i \in 1 .. Len(x) |-> Argmax(Rows \o SubSeq(x, 1, i))]}
  BY <1>1 DEF Targets
<1> QED BY <1>1, <1>2

------------------------------------------------------------------------------
(* The invariant. *)

\* The prompt, what was yielded and what is still to be yielded of this round.
Whole == prompt \o out \o pend

\* What the caches hold between passes: all of it but the last token.
Held == SubSeq(Whole, 1, Len(Whole) - 1)

\* Every token of w after the prompt p is one that may follow those before it.
Correct(meth, p, w) == \A j \in Len(p) + 1 .. Len(w) : Chosen(meth, w, j)

\* During the prefill the caches hold the part of the prompt that is not left.
Filling ==
  at = "prefill" =>
    /\ out = <<>> /\ pend = <<>> /\ rest # <<>> /\ limit >= 1
    /\ \E s \in Seq(Token) : prompt = s \o rest /\ HoldIn(kv, s)

\* Between passes every layer has seen all but the last token, and so has the draft.
Between ==
  at \in {"emit", "yielded"} =>
    /\ HoldIn(kv, Held)
    /\ method \in {"draft", "fast", "optimized"} => draft = Held

\* There is a token to yield, and the limit and the end of the text allow it.
Emitting ==
  at = "emit" =>
    /\ pend # <<>> /\ Len(out) < limit
    /\ method = "stream" => Len(pend) = 1
    /\ method # "stream" /\ out # <<>> => Last(out) # Eos

Yielding == at = "yielded" => out # <<>> /\ (method = "stream" => pend = <<>>)

\* However the generator ends, the caches hold a part of what it was given and said.
Ending == at = "done" => \E n \in 0 .. Len(Whole) : HoldIn(kv, SubSeq(Whole, 1, n))

GInv ==
  /\ TypeOK
  /\ at \in {"prefill", "emit", "yielded", "done"} => prompt # <<>>
  /\ Correct(method, prompt, Whole)
  /\ Filling /\ Between /\ Emitting /\ Yielding /\ Ending

LEMMA WholeIs ==
  ASSUME NEW p \in Seq(Token), NEW o \in Seq(Token), NEW e \in Seq(Token)
  PROVE  /\ p \o o \o e \in Seq(Token)
         /\ Len(p \o o \o e) = Len(p) + Len(o) + Len(e)
<1>1. PICK w : w = p \o o
  OBVIOUS
<1>2. w \in Seq(Token) /\ Len(w) = Len(p) + Len(o)
  BY <1>1, ConcatProperties
<1>3. w \o e \in Seq(Token) /\ Len(w \o e) = Len(w) + Len(e)
  BY <1>2, ConcatProperties
<1> QED BY <1>1, <1>2, <1>3

\* With nothing left to yield, the whole ends with the last token yielded.
LEMMA WholeEnds ==
  ASSUME TypeOK, pend = <<>>, out # <<>>
  PROVE  /\ Whole = prompt \o out /\ Whole \in Seq(Token) /\ Whole # <<>>
         /\ Last(out) = Whole[Len(Whole)] /\ Last(out) \in Token
<1>1. prompt \in Seq(Token) /\ out \in Seq(Token) /\ pend \in Seq(Token)
  BY DEF TypeOK
<1>2. PICK w : w = prompt \o out
  OBVIOUS
<1>3. /\ w \in Seq(Token) /\ Len(w) = Len(prompt) + Len(out)
      /\ \A i \in 1 .. Len(prompt) + Len(out) :
           w[i] = IF i <= Len(prompt) THEN prompt[i] ELSE out[i - Len(prompt)]
  BY <1>1, <1>2, ConcatProperties
<1>4. Len(out) \in Nat \ {0} /\ Len(prompt) \in Nat
  BY <1>1, EmptySeq
<1>5. Whole = w
  BY <1>2, <1>3, ConcatEmptySeq DEF Whole
<1>6. w[Len(w)] = out[Len(out)]
  <2>1. /\ Len(w) \in 1 .. Len(prompt) + Len(out) /\ ~(Len(w) <= Len(prompt))
        /\ Len(w) - Len(prompt) = Len(out)
    BY <1>3, <1>4
  <2> QED BY <1>3, <2>1
<1>7. out[Len(out)] \in Token
  <2>1. Len(out) \in 1 .. Len(out)
    BY <1>4
  <2> QED BY <1>1, <2>1, ElementOfSeq
<1>8. w # <<>>
  BY <1>3, <1>4
<1> QED BY <1>2, <1>3, <1>5, <1>6, <1>7, <1>8 DEF Last

\* Tokens that may follow make a longer correct sequence.
LEMMA CorrectLonger ==
  ASSUME NEW meth, NEW p \in Seq(Token), NEW f \in Seq(Token), NEW e \in Seq(Token),
         Correct(meth, p, f), Follows(meth, f, e)
  PROVE  Correct(meth, p, f \o e)
<1>1. /\ f \o e \in Seq(Token) /\ Len(f \o e) = Len(f) + Len(e)
      /\ \A i \in 1 .. Len(f) + Len(e) :
           (f \o e)[i] = IF i <= Len(f) THEN f[i] ELSE e[i - Len(f)]
  BY ConcatProperties
<1>2. Len(f) \in Nat /\ Len(e) \in Nat /\ Len(p) \in Nat
  OBVIOUS
<1> SUFFICES ASSUME NEW j \in Len(p) + 1 .. Len(f) + Len(e)
             PROVE  Chosen(meth, f \o e, j)
  BY <1>1 DEF Correct
<1>3. CASE j <= Len(f)
  <2>1. Chosen(meth, f, j)
    BY <1>2, <1>3 DEF Correct
  <2>2. PICK n : n = j - 1
    OBVIOUS
  <2>3. n \in 0 .. Len(f) /\ j \in 1 .. Len(f) + Len(e)
    BY <1>2, <1>3, <2>2
  <2>4. SubSeq(f \o e, 1, n) = SubSeq(f, 1, n)
    BY <2>3, CutEarlier
  <2>5. (f \o e)[j] = f[j]
    BY <1>1, <1>3, <2>3
  <2> QED BY <2>1, <2>2, <2>4, <2>5 DEF Chosen
<1>4. CASE ~(j <= Len(f))
  <2>1. PICK i : i = j - Len(f)
    OBVIOUS
  <2>2. i \in 1 .. Len(e) /\ Len(f) + i = j
    BY <1>2, <1>4, <2>1
  <2>3. Chosen(meth, f \o e, Len(f) + i)
    BY <2>2 DEF Follows
  <2> QED BY <2>2, <2>3
<1> QED BY <1>3, <1>4

------------------------------------------------------------------------------
(* The steps. *)

Cells(c) == c \in [Layer -> Seq(Row)]

LEMMA FedType ==
  ASSUME TypeOK, NEW x \in Seq(Token)
  PROVE  Cells(Fed(x))
<1>1. x \in Seq(Row)
  BY TokenRows
<1>2. \A l \in Layer : kv[l] \in Seq(Row)
  BY DEF TypeOK, Row
<1>3. \A l \in Layer : Grown(l, kv[l], x) \in Seq(Row)
  BY <1>1, <1>2, GrownIs
<1> QED BY <1>3 DEF Fed, Cells

\* A pass that ends with tokens to yield: the common end of every round.
LEMMA RoundEnd ==
  ASSUME GInv, at = "yielded", pend = <<>>, ~Returns,
         NEW e \in Seq(Token), e # <<>>, Follows(method, Whole, e),
         method = "stream" => Len(e) = 1 /\ Len(out) < limit,
         pend' = e, at' = "emit", UNCHANGED <<call, rest, out>>,
         Cells(kv'), HoldIn(kv', SubSeq(Whole \o e, 1, Len(Whole \o e) - 1)),
         draft' \in Seq(Token),
         method \in {"draft", "fast", "optimized"}
           => draft' = SubSeq(Whole \o e, 1, Len(Whole \o e) - 1),
         k' \in MinK .. MaxK, history' \in Seq(0 .. Scale), since' \in Nat
  PROVE  GInv'
<1>1. /\ prompt' = prompt /\ limit' = limit /\ method' = method
      /\ rest' = rest /\ out' = out
  BY DEF call
<1>2. TypeOK
  BY DEF GInv
<1>3. out # <<>>
  BY DEF GInv, Yielding
<1>4. Whole = prompt \o out /\ Whole \in Seq(Token)
  BY <1>2, <1>3, WholeEnds
<1>5. Whole' = Whole \o e
  BY <1>1, <1>4 DEF Whole
<1>6. TypeOK'
  <2>1. at' \in {"idle", "prefill", "emit", "yielded", "step", "done", "over"}
    OBVIOUS
  <2>2. kv' \in [Layer -> Seq(Token \cup {Lost})]
    BY DEF Cells, Row
  <2> QED BY <1>1, <1>2, <2>1, <2>2 DEF TypeOK
<1>7. prompt' # <<>>
  BY <1>1 DEF GInv
<1>8. Correct(method, prompt, Whole)'
  <2>1. Correct(method, prompt, Whole) /\ prompt \in Seq(Token)
    BY <1>2 DEF GInv, TypeOK
  <2>2. Correct(method, prompt, Whole \o e)
    BY <1>4, <2>1, CorrectLonger
  <2> QED BY <1>1, <1>5, <2>2
<1>9. Between'
  <2>1. Held' = SubSeq(Whole \o e, 1, Len(Whole \o e) - 1)
    BY <1>5 DEF Held
  <2> QED BY <1>1, <2>1 DEF Between
<1>10. Emitting'
  <2>1. Len(out) \in Nat /\ limit \in Nat /\ Len(out) <= limit
    BY <1>2, GenerationAssumption DEF TypeOK
  <2>2. method # "stream" => Last(out) # Eos /\ Len(out) < limit
    BY <2>1 DEF Returns
  <2>3. Last(out)' = Last(out)
    BY <1>1
  <2>4. CASE method = "stream"
    BY <1>1, <2>4 DEF Emitting
  <2>5. CASE method # "stream"
    BY <1>1, <2>2, <2>3, <2>5 DEF Emitting
  <2> QED BY <2>4, <2>5
<1>11. Filling' /\ Yielding' /\ Ending'
  BY DEF Filling, Yielding, Ending
<1> QED BY <1>6, <1>7, <1>8, <1>9, <1>10, <1>11 DEF GInv

\* What the last pass left, and the token the next one starts with.
LEMMA AtRound ==
  ASSUME GInv, at = "yielded", pend = <<>>
  PROVE  /\ TypeOK /\ out # <<>>
         /\ Whole \in Seq(Token) /\ Whole # <<>>
         /\ Last(out) = Whole[Len(Whole)] /\ Last(out) \in Token
         /\ HoldIn(kv, SubSeq(Whole, 1, Len(Whole) - 1))
         /\ method \in {"draft", "fast", "optimized"}
              => draft = SubSeq(Whole, 1, Len(Whole) - 1)
<1>1. TypeOK /\ out # <<>>
  BY DEF GInv, Yielding
<1>2. /\ HoldIn(kv, Held)
      /\ method \in {"draft", "fast", "optimized"} => draft = Held
  BY DEF GInv, Between
<1> QED BY <1>1, <1>2, WholeEnds DEF Held

\* Feeding the last token and the m accepted ones of the draft q.
LEMMA FedAccepted ==
  ASSUME GInv, at = "yielded", pend = <<>>,
         NEW q \in Seq(Token), NEW m \in 0 .. Len(q)
  PROVE  /\ HoldIn(Fed(SubSeq(Pass(q), 1, m + 1)), Whole \o SubSeq(q, 1, m))
         /\ Cells(Fed(SubSeq(Pass(q), 1, m + 1)))
<1>1. /\ TypeOK
      /\ Whole \in Seq(Token) /\ Whole # <<>>
      /\ Last(out) = Whole[Len(Whole)] /\ Last(out) \in Token
      /\ HoldIn(kv, SubSeq(Whole, 1, Len(Whole) - 1))
  BY AtRound
<1>2. PICK b : b = <<Last(out)>>
  OBVIOUS
<1>3. b \in Seq(Token) /\ Len(b) = 1 /\ b \o q \in Seq(Token) /\ Len(b \o q) = 1 + Len(q)
  <2>1. b \in Seq(Token) /\ Len(b) = 1
    BY <1>1, <1>2
  <2> QED BY <2>1, ConcatProperties
<1>4. PICK x : x = SubSeq(b \o q, 1, m + 1)
  OBVIOUS
<1>5. x \in Seq(Token)
  <2>1. m + 1 \in 0 .. Len(b \o q)
    BY <1>3
  <2> QED BY <1>3, <1>4, <2>1, Cut
<1>6. PICK p : p = SubSeq(Whole, 1, Len(Whole) - 1)
  OBVIOUS
<1>7. p \in Seq(Token)
  BY <1>1, <1>6, FrontLast
<1>8. HoldIn(Fed(x), p \o x)
  BY <1>1, <1>5, <1>6, <1>7, FedHolds
<1>9. p \o x = Whole \o SubSeq(q, 1, m)
  <2>1. Refeeds(Whole, q, m)
    BY <1>1, LastAgain
  <2> QED BY <1>1, <1>2, <1>4, <1>6, <2>1 DEF Refeeds
<1>10. Cells(Fed(x))
  BY <1>1, <1>5, FedType
<1> QED BY <1>2, <1>4, <1>8, <1>9, <1>10 DEF Pass

LEMMA ProposalIs == ASSUME NEW q \in Proposals PROVE q \in Seq(Token)
<1>1. PICK n \in 0 .. MaxK : q \in [1 .. n -> Token]
  BY DEF Proposals
<1>2. n \in Nat
  BY GenerationAssumption
<1> QED BY <1>1, <1>2

\* What a round yields and how far the target has seen it.
LEMMA RoundGives ==
  ASSUME GInv, Oracle, at = "yielded", pend = <<>>,
         NEW q \in Seq(Token), NEW targ, targ \in Targets(Pass(q))
  PROVE  Sound(Whole, q, Accepted(q, targ), Yields(q, Accepted(q, targ), targ))
BY AtRound, RoundAdds

\* The ngram round, and every other round that leaves the draft's cache alone.
LEMMA NgramKeeps ==
  ASSUME GInv, Oracle, NEW q \in Proposals, NgramRound(q)
  PROVE  GInv'
<1>1. /\ at = "yielded" /\ pend = <<>> /\ ~Returns /\ method = "ngram"
      /\ at' = "emit" /\ UNCHANGED <<call, rest, draft, out, adapt>>
  BY DEF NgramRound, NextRound
<1>2. PICK targ : /\ targ \in Targets(Pass(q))
                  /\ kv' = Fed(SubSeq(Pass(q), 1, Accepted(q, targ) + 1))
                  /\ pend' = Yields(q, Accepted(q, targ), targ)
  BY DEF NgramRound, Pass, Yields
<1>3. PICK m : m = Accepted(q, targ)
  OBVIOUS
<1>4. PICK e : e = Yields(q, m, targ)
  OBVIOUS
<1>5. q \in Seq(Token)
  BY ProposalIs
<1>6. Sound(Whole, q, m, e)
  BY <1>1, <1>2, <1>3, <1>4, <1>5, RoundGives
<1>7. HoldIn(kv', Whole \o SubSeq(q, 1, m)) /\ Cells(kv')
  BY <1>1, <1>2, <1>3, <1>5, <1>6, FedAccepted DEF Sound
<1>8. HoldIn(kv', SubSeq(Whole \o e, 1, Len(Whole \o e) - 1))
  BY <1>6, <1>7 DEF Sound
<1>9. /\ draft' \in Seq(Token) /\ k' \in MinK .. MaxK
      /\ history' \in Seq(0 .. Scale) /\ since' \in Nat
  BY <1>1 DEF GInv, TypeOK, adapt
<1>10. UNCHANGED <<call, rest, out>>
  BY <1>1
<1>11. pend' = e
  BY <1>2, <1>3, <1>4
<1>12. e \in Seq(Token) /\ e # <<>> /\ Follows(method, Whole, e)
  BY <1>6 DEF Sound
<1> QED BY <1>1, <1>7, <1>8, <1>9, <1>10, <1>11, <1>12, RoundEnd

LEMMA TrimmedIs ==
  ASSUME NEW S, NEW c \in Seq(S), NEW n \in 0 .. Len(c)
  PROVE  Trimmed(c, n) = SubSeq(c, 1, Len(c) - n)
<1>1. Len(c) \in Nat /\ n \in Nat
  OBVIOUS
<1>2. CASE n = 0
  BY <1>1, <1>2, SubSeqFull DEF Trimmed
<1>3. CASE n > 0
  BY <1>1, <1>3 DEF Trimmed, Greater
<1> QED BY <1>1, <1>2, <1>3

\* The draft's cache is cut back to what was accepted, or fed the one token it lacks.
LEMMA Realigns ==
  ASSUME NEW f \in Seq(Token), f # <<>>, Last(out) = f[Len(f)],
         draft = SubSeq(f, 1, Len(f) - 1),
         NEW q \in Seq(Token), q # <<>>, NEW m \in 0 .. Len(q)
  PROVE  /\ Realigned(q, Len(q), m) = f \o SubSeq(q, 1, m)
         /\ Realigned(q, Len(q), m) \in Seq(Token)
<1>1. PICK n : n = Len(q) - 1
  OBVIOUS
<1>2. n \in Nat /\ Len(q) = n + 1 /\ m \in 0 .. n + 1 /\ n \in 0 .. Len(q) /\ Len(f) \in Nat
  <2>1. Len(q) \in Nat \ {0}
    BY EmptySeq
  <2> QED BY <1>1, <2>1
<1>3. PICK r : r = SubSeq(q, 1, n)
  OBVIOUS
<1>4. r \in Seq(Token) /\ Len(r) = n
  BY <1>2, <1>3, Cut
<1>5. PICK d : d = Drafted(q)
  OBVIOUS
<1>6. d = f \o r
  <2>1. d = draft \o SubSeq(<<f[Len(f)]>> \o q, 1, n + 1)
    BY <1>2, <1>5 DEF Drafted
  <2>2. Refeeds(f, q, n)
    BY <1>2, LastAgain
  <2> QED BY <1>3, <2>1, <2>2 DEF Refeeds
<1>7. d \in Seq(Token) /\ Len(d) = Len(f) + n
  BY <1>4, <1>6, ConcatProperties
<1>8. CASE m < Len(q)
  <2>1. PICK z : z = n - m
    OBVIOUS
  <2>2. z \in 0 .. Len(d) /\ Len(d) - z = Len(f) + m /\ m \in 0 .. n /\ Len(q) - 1 - m = z
    BY <1>2, <1>7, <1>8, <2>1
  <2>3. Realigned(q, Len(q), m) = Trimmed(d, z)
    BY <1>5, <1>8, <2>2 DEF Realigned
  <2>4. Trimmed(d, z) = SubSeq(d, 1, Len(f) + m)
    <3>1. Trimmed(d, z) = SubSeq(d, 1, Len(d) - z)
      BY <1>7, <2>2, TrimmedIs
    <3> QED BY <2>2, <3>1
  <2>5. SubSeq(d, 1, Len(f) + m) = f \o SubSeq(r, 1, m)
    BY <1>4, <1>6, <2>2, CutLater
  <2>6. SubSeq(r, 1, m) = SubSeq(q, 1, m)
    BY <1>2, <1>3, <2>2, CutCut
  <2>7. SubSeq(d, 1, Len(f) + m) \in Seq(Token)
    <3>1. Len(f) + m \in 0 .. Len(d)
      BY <1>2, <1>7, <2>2
    <3> QED BY <1>7, <3>1, Cut
  <2> QED BY <2>3, <2>4, <2>5, <2>6, <2>7
<1>9. CASE ~(m < Len(q))
  <2>1. m = Len(q)
    BY <1>2, <1>9
  <2>2. PICK t : t = q[Len(q)]
    OBVIOUS
  <2>3. Realigned(q, Len(q), m) = Append(d, t)
    BY <1>5, <2>1, <2>2 DEF Realigned
  <2>4. r \o <<t>> = q /\ <<t>> \in Seq(Token)
    BY <1>1, <1>3, <2>2, FrontLast
  <2>5. t \in Token
    <3>1. Len(q) \in 1 .. Len(q)
      BY <1>2
    <3> QED BY <2>2, <3>1, ElementOfSeq
  <2>6. Append(d, t) = d \o <<t>> /\ Append(d, t) \in Seq(Token)
    BY <1>7, <2>5, AppendIsConcat, AppendProperties
  <2>7. Regroups(f, r, <<t>>)
    BY <1>4, <2>4, Regroup
  <2>8. d \o <<t>> = f \o q
    BY <1>6, <2>4, <2>7 DEF Regroups
  <2>9. SubSeq(q, 1, m) = q
    BY <2>1, SubSeqFull
  <2> QED BY <2>3, <2>6, <2>8, <2>9
<1> QED BY <1>8, <1>9

\* speculative_generate's round.
LEMMA DraftKeeps ==
  ASSUME GInv, Oracle, NEW q \in Proposals, DraftRound(q)
  PROVE  GInv'
<1>1. /\ at = "yielded" /\ pend = <<>> /\ ~Returns /\ method \in {"draft", "fast"}
      /\ at' = "emit" /\ UNCHANGED <<call, rest, out, adapt>> /\ Len(q) = k
  BY DEF DraftRound, NextRound
<1>2. PICK targ : /\ targ \in Targets(Pass(q))
                  /\ kv' = Fed(SubSeq(Pass(q), 1, Accepted(q, targ) + 1))
                  /\ draft' = Realigned(q, k, Accepted(q, targ))
                  /\ pend' = Yields(q, Accepted(q, targ), targ)
  BY DEF DraftRound, Pass, Yields
<1>3. PICK m : m = Accepted(q, targ)
  OBVIOUS
<1>4. PICK e : e = Yields(q, m, targ)
  OBVIOUS
<1>5. q \in Seq(Token) /\ q # <<>>
  <2>1. k \in Nat \ {0}
    BY GenerationAssumption DEF GInv, TypeOK
  <2> QED BY <1>1, <2>1, ProposalIs
<1>6. Sound(Whole, q, m, e)
  BY <1>1, <1>2, <1>3, <1>4, <1>5, RoundGives
<1>7. HoldIn(kv', Whole \o SubSeq(q, 1, m)) /\ Cells(kv')
  BY <1>1, <1>2, <1>3, <1>5, <1>6, FedAccepted DEF Sound
<1>8. HoldIn(kv', SubSeq(Whole \o e, 1, Len(Whole \o e) - 1))
  BY <1>6, <1>7 DEF Sound
<1>9. k' \in MinK .. MaxK /\ history' \in Seq(0 .. Scale) /\ since' \in Nat
  BY <1>1 DEF GInv, TypeOK, adapt
<1>10. UNCHANGED <<call, rest, out>>
  BY <1>1
<1>11. pend' = e
  BY <1>2, <1>3, <1>4
<1>12. e \in Seq(Token) /\ e # <<>> /\ Follows(method, Whole, e)
  BY <1>6 DEF Sound
<1>13. draft' = Whole \o SubSeq(q, 1, m) /\ draft' \in Seq(Token)
  <2>1. /\ Whole \in Seq(Token) /\ Whole # <<>> /\ Last(out) = Whole[Len(Whole)]
        /\ draft = SubSeq(Whole, 1, Len(Whole) - 1)
    BY <1>1, AtRound
  <2>2. m \in 0 .. Len(q) /\ draft' = Realigned(q, Len(q), m)
    BY <1>1, <1>2, <1>3, <1>6 DEF Sound
  <2> QED BY <1>5, <2>1, <2>2, Realigns
<1>14. draft' = SubSeq(Whole \o e, 1, Len(Whole \o e) - 1)
  BY <1>6, <1>13 DEF Sound
<1> QED BY <1>1, <1>7, <1>8, <1>9, <1>10, <1>11, <1>12, <1>13, <1>14, RoundEnd

\* What the loops that verify on the store itself need: nothing is dropped.
AllFull == \A l \in Layer : Kind[l] = "full"

\* A pass over the whole draft, rolled back to what was accepted.
LEMMA RolledBack ==
  ASSUME GInv, AllFull, at = "yielded", pend = <<>>,
         NEW q \in Seq(Token), NEW m \in 0 .. Len(q)
  PROVE  /\ HoldIn(Rolled(Fed(Pass(q)), Len(q) - m), Whole \o SubSeq(q, 1, m))
         /\ Cells(Rolled(Fed(Pass(q)), Len(q) - m))
<1>1. /\ Whole \in Seq(Token) /\ Last(out) \in Token
  BY AtRound
<1>2. PICK n : n = Len(q)
  OBVIOUS
<1>3. n \in 0 .. Len(q) /\ n \in Nat /\ m \in Nat
  BY <1>2
<1>4. PICK c : c = Fed(Pass(q))
  OBVIOUS
<1>5. Pass(q) = SubSeq(Pass(q), 1, n + 1)
  <2>1. <<Last(out)>> \in Seq(Token) /\ Len(<<Last(out)>>) = 1
    BY <1>1
  <2>2. Pass(q) \in Seq(Token) /\ Len(Pass(q)) = Len(<<Last(out)>>) + Len(q)
    BY <2>1, ConcatProperties DEF Pass
  <2>3. Len(Pass(q)) = n + 1
    BY <1>2, <1>3, <2>1, <2>2
  <2>4. SubSeq(Pass(q), 1, Len(Pass(q))) = Pass(q)
    BY <2>2, SubSeqFull
  <2> QED BY <2>3, <2>4
<1>6. HoldIn(c, Whole \o SubSeq(q, 1, n))
  BY <1>3, <1>4, <1>5, FedAccepted
<1>7. SubSeq(q, 1, n) = q
  BY <1>2, SubSeqFull
<1>8. PICK w : w = Whole \o q
  OBVIOUS
<1>9. w \in Seq(Token) /\ Len(w) = Len(Whole) + Len(q) /\ HoldIn(c, w)
  BY <1>1, <1>6, <1>7, <1>8, ConcatProperties
<1>10. PICK z : z = Len(q) - m
  OBVIOUS
<1>11. z \in 0 .. Len(w) /\ Len(w) - z = Len(Whole) + m
  <2>1. Len(Whole) \in Nat
    BY <1>1
  <2> QED BY <1>2, <1>3, <1>9, <1>10, <2>1
<1>12. HoldIn(Rolled(c, z), SubSeq(w, 1, Len(Whole) + m))
  <2>1. Unrotated(Len(w))
    BY DEF AllFull, Unrotated
  <2>2. HoldIn(Rolled(c, z), SubSeq(w, 1, Len(w) - z))
    BY <1>9, <1>11, <2>1, RolledHolds
  <2> QED BY <1>11, <2>2
<1>13. SubSeq(w, 1, Len(Whole) + m) = Whole \o SubSeq(q, 1, m)
  BY <1>1, <1>8, CutLater
<1>14. Cells(Rolled(c, z))
  <2>1. PICK v : v = SubSeq(w, 1, Len(Whole) + m)
    OBVIOUS
  <2>2. v \in Seq(Token)
    <3>1. PICK y : y = Len(Whole) + m
      OBVIOUS
    <3>2. y \in 0 .. Len(w)
      <4>1. Len(Whole) \in Nat
        BY <1>1
      <4> QED BY <1>2, <1>3, <1>9, <3>1, <4>1
    <3> QED BY <1>9, <2>1, <3>1, <3>2, Cut
  <2>3. HoldIn(Rolled(c, z), v)
    BY <1>12, <2>1
  <2>4. \A l \in Layer : Rolled(c, z)[l] \in Seq(Row)
    BY <2>2, <2>3, HoldType
  <2>5. \A l \in Layer : Rolled(c, z)[l] = Trimmed(c[l], z)
    BY DEF Rolled
  <2>6. Rolled(c, z) = [l \in Layer |-> Trimmed(c[l], z)]
    BY DEF Rolled
  <2> QED BY <2>4, <2>5, <2>6 DEF Cells
<1> QED BY <1>4, <1>10, <1>12, <1>13, <1>14

\* An acceptance rate is a part of the scale.
LEMMA RateIs ==
  ASSUME NEW n \in Nat \ {0}, NEW m \in 0 .. n
  PROVE  (m * Scale) \div n \in 0 .. Scale
<1>1. Scale \in Nat /\ m \in Nat
  BY GenerationAssumption
<1>2. m * Scale <= n * Scale /\ m * Scale \in Nat
  BY <1>1
<1>3. PICK d : d = (m * Scale) \div n
  OBVIOUS
<1>4. d \in Int /\ n * d <= m * Scale /\ m * Scale < n * d + n
  BY <1>1, <1>2, <1>3
<1>5. d >= 0
  <2>1. SUFFICES ASSUME d <= -1 PROVE FALSE
    BY <1>4
  <2>2. n * d <= n * (-1)
    BY <1>4, <2>1
  <2> QED BY <1>2, <1>4, <2>2
<1>6. d <= Scale
  <2>1. SUFFICES ASSUME d >= Scale + 1 PROVE FALSE
    BY <1>1, <1>4
  <2>2. n * d >= n * (Scale + 1)
    BY <1>1, <1>4, <2>1
  <2>3. n * (Scale + 1) = n * Scale + n
    BY <1>1
  <2>4. n * Scale \in Int /\ n * d \in Int
    BY <1>1, <1>4
  <2> QED BY <1>1, <1>2, <1>4, <2>2, <2>3, <2>4
<1> QED BY <1>1, <1>3, <1>4, <1>5, <1>6

\* The new number of draft tokens keeps to its bounds.
LEMMA AdjustedIs ==
  ASSUME k \in MinK .. MaxK, NEW h, NEW low
  PROVE  Adjusted(h, low) \in MinK .. MaxK
<1>1. /\ MinK \in Nat /\ MaxK \in Nat /\ Up \in Nat /\ Down \in Nat /\ k \in Nat
      /\ MinK <= k /\ k <= MaxK
  BY GenerationAssumption
<1>2. Lesser(MaxK, k + Up) \in MinK .. MaxK /\ Greater(MinK, k - Down) \in MinK .. MaxK
  BY <1>1 DEF Lesser, Greater
<1> QED BY <1>2 DEF Adjusted

\* optimized_speculative_generate's round.
LEMMA OptimizedKeeps ==
  ASSUME GInv, Oracle, AllFull, NEW q \in Proposals, OptimizedRound(q)
  PROVE  GInv'
<1>1. /\ at = "yielded" /\ pend = <<>> /\ ~Returns /\ method = "optimized"
      /\ at' = "emit" /\ UNCHANGED <<call, rest, out, since>>
      /\ k' = NextK /\ Len(q) = k'
  BY DEF OptimizedRound, NextRound
<1>2. PICK targ : /\ targ \in Targets(Pass(q))
                  /\ history' = Append(history, (Accepted(q, targ) * Scale) \div k')
                  /\ kv' = Rolled(Fed(Pass(q)), k' - Accepted(q, targ))
                  /\ draft' = Realigned(q, k', Accepted(q, targ))
                  /\ pend' = Yields(q, Accepted(q, targ), targ)
  BY DEF OptimizedRound, Pass, Yields
<1>3. PICK m : m = Accepted(q, targ)
  OBVIOUS
<1>4. PICK e : e = Yields(q, m, targ)
  OBVIOUS
<1>5. k' \in MinK .. MaxK /\ k' \in Nat \ {0} /\ history \in Seq(0 .. Scale) /\ since \in Nat
  <2>1. k \in MinK .. MaxK /\ history \in Seq(0 .. Scale) /\ since \in Nat
    BY DEF GInv, TypeOK
  <2>2. k' \in MinK .. MaxK
    BY <1>1, <2>1, AdjustedIs DEF NextK
  <2> QED BY <2>1, <2>2, GenerationAssumption
<1>6. q \in Seq(Token) /\ q # <<>>
  BY <1>1, <1>5, ProposalIs
<1>7. Sound(Whole, q, m, e)
  BY <1>1, <1>2, <1>3, <1>4, <1>6, RoundGives
<1>8. HoldIn(kv', Whole \o SubSeq(q, 1, m)) /\ Cells(kv')
  <2>1. kv' = Rolled(Fed(Pass(q)), Len(q) - m) /\ m \in 0 .. Len(q)
    BY <1>1, <1>2, <1>3, <1>7 DEF Sound
  <2> QED BY <1>1, <1>6, <2>1, RolledBack
<1>9. HoldIn(kv', SubSeq(Whole \o e, 1, Len(Whole \o e) - 1))
  BY <1>7, <1>8 DEF Sound
<1>10. history' \in Seq(0 .. Scale) /\ since' \in Nat
  <2>1. m \in 0 .. k'
    BY <1>1, <1>7 DEF Sound
  <2>2. (m * Scale) \div k' \in 0 .. Scale
    BY <1>5, <2>1, RateIs
  <2> QED BY <1>1, <1>2, <1>3, <1>5, <2>2, AppendProperties
<1>11. UNCHANGED <<call, rest, out>>
  BY <1>1
<1>12. pend' = e
  BY <1>2, <1>3, <1>4
<1>13. e \in Seq(Token) /\ e # <<>> /\ Follows(method, Whole, e)
  BY <1>7 DEF Sound
<1>14. draft' = Whole \o SubSeq(q, 1, m) /\ draft' \in Seq(Token)
  <2>1. /\ Whole \in Seq(Token) /\ Whole # <<>> /\ Last(out) = Whole[Len(Whole)]
        /\ draft = SubSeq(Whole, 1, Len(Whole) - 1)
    BY <1>1, AtRound
  <2>2. m \in 0 .. Len(q) /\ draft' = Realigned(q, Len(q), m)
    BY <1>1, <1>2, <1>3, <1>7 DEF Sound
  <2> QED BY <1>6, <2>1, <2>2, Realigns
<1>15. draft' = SubSeq(Whole \o e, 1, Len(Whole \o e) - 1)
  BY <1>7, <1>14 DEF Sound
<1> QED BY <1>1, <1>5, <1>8, <1>9, <1>10, <1>11, <1>12, <1>13, <1>14, <1>15, RoundEnd

\* Yielding moves a token; the whole stays.
LEMMA EmitWhole ==
  ASSUME TypeOK, pend # <<>>, out' = Append(out, Head(pend)), pend' = Tail(pend),
         prompt' = prompt
  PROVE  /\ Whole' = Whole
         /\ out' \in Seq(Token) /\ Len(out') = Len(out) + 1 /\ out' # <<>>
         /\ pend' \in Seq(Token) /\ Len(pend') = Len(pend) - 1
<1>1. prompt \in Seq(Token) /\ out \in Seq(Token) /\ pend \in Seq(Token)
  BY DEF TypeOK
<1>2. PICK h : h = Head(pend)
  OBVIOUS
<1>3. PICK t : t = Tail(pend)
  OBVIOUS
<1>4. h \in Token /\ t \in Seq(Token) /\ Len(t) = Len(pend) - 1
  BY <1>1, <1>2, <1>3, HeadTailProperties
<1>5. PICK u : u = <<h>>
  OBVIOUS
<1>6. u \in Seq(Token) /\ pend = u \o t
  BY <1>1, <1>2, <1>3, <1>4, <1>5
<1>7. /\ Append(out, h) = out \o u /\ Append(out, h) \in Seq(Token)
      /\ Len(Append(out, h)) = Len(out) + 1 /\ Append(out, h) # <<>>
  BY <1>1, <1>4, <1>5, AppendIsConcat, AppendProperties
<1>8. prompt \o (out \o u) = (prompt \o out) \o u
  <2>1. Regroups(prompt, out, u)
    BY <1>1, <1>6, Regroup
  <2> QED BY <2>1 DEF Regroups
<1>9. PICK w : w = prompt \o out
  OBVIOUS
<1>10. w \in Seq(Token)
  BY <1>1, <1>9, ConcatProperties
<1>11. w \o (u \o t) = (w \o u) \o t
  <2>1. Regroups(w, u, t)
    BY <1>4, <1>6, <1>10, Regroup
  <2> QED BY <2>1 DEF Regroups
<1>12. Whole' = (prompt \o (out \o u)) \o t
  BY <1>2, <1>3, <1>7 DEF Whole
<1>13. Whole = w \o (u \o t)
  BY <1>6, <1>9 DEF Whole
<1>14. Whole' = Whole
  BY <1>8, <1>9, <1>11, <1>12, <1>13
<1> QED BY <1>2, <1>3, <1>4, <1>7, <1>14

LEMMA EmitKeeps ==
  ASSUME GInv, Emit
  PROVE  GInv'
<1>1. /\ pend # <<>> /\ at \in {"emit", "yielded"}
      /\ out' = Append(out, Head(pend)) /\ pend' = Tail(pend)
      /\ at' = "yielded" /\ UNCHANGED <<call, rest, caches, adapt>>
  BY DEF Emit
<1>2. /\ prompt' = prompt /\ limit' = limit /\ method' = method /\ rest' = rest
      /\ kv' = kv /\ draft' = draft /\ k' = k /\ history' = history /\ since' = since
  BY <1>1 DEF call, caches, adapt
<1>3. TypeOK
  BY DEF GInv
<1>4. /\ Whole' = Whole
      /\ out' \in Seq(Token) /\ Len(out') = Len(out) + 1 /\ out' # <<>>
      /\ pend' \in Seq(Token) /\ Len(pend') = Len(pend) - 1
  BY <1>1, <1>2, <1>3, EmitWhole
<1>5. Len(out) < limit
  <2>1. CASE at = "emit"
    BY <2>1 DEF GInv, Emitting
  <2>2. CASE at = "yielded"
    <3>1. ~Returns /\ method # "stream"
      BY <1>1, <2>2 DEF Emit, GInv, Yielding
    <3>2. Len(out) \in Nat /\ limit \in Nat
      BY <1>3, GenerationAssumption DEF TypeOK
    <3> QED BY <3>1, <3>2 DEF Returns
  <2> QED BY <1>1, <2>1, <2>2
<1>6. TypeOK'
  <2>1. Len(out) \in Nat /\ limit \in Nat
    BY <1>3, GenerationAssumption DEF TypeOK
  <2>2. Len(out') <= limit'
    BY <1>2, <1>4, <1>5, <2>1
  <2>3. at' \in {"idle", "prefill", "emit", "yielded", "step", "done", "over"}
    BY <1>1
  <2> QED BY <1>2, <1>3, <1>4, <2>2, <2>3 DEF TypeOK
<1>7. Yielding'
  <2>1. CASE method = "stream"
    <3>1. Len(pend) = 1
      BY <1>1, <2>1 DEF GInv, Emitting, Yielding
    <3>2. Len(pend') = 0
      BY <1>4, <3>1
    <3>3. pend' = <<>>
      BY <1>4, <3>2, EmptySeq
    <3> QED BY <1>4, <3>3 DEF Yielding
  <2>2. CASE method # "stream"
    BY <1>2, <1>4, <2>2 DEF Yielding
  <2> QED BY <2>1, <2>2
<1>8. Between'
  <2>1. HoldIn(kv, Held) /\ (method \in {"draft", "fast", "optimized"} => draft = Held)
    BY <1>1 DEF GInv, Between
  <2>2. Held' = Held
    BY <1>4 DEF Held
  <2> QED BY <1>2, <2>1, <2>2 DEF Between
<1>9. Correct(method, prompt, Whole)'
  <2>1. Correct(method, prompt, Whole)
    BY DEF GInv
  <2> QED BY <1>2, <1>4, <2>1
<1>10. prompt' # <<>>
  BY <1>1, <1>2 DEF GInv
<1>11. Filling' /\ Emitting' /\ Ending'
  BY <1>1 DEF Filling, Emitting, Ending
<1> QED BY <1>6, <1>7, <1>8, <1>9, <1>10, <1>11 DEF GInv

LEMMA ReturnKeeps ==
  ASSUME GInv, Return
  PROVE  GInv'
<1>1. at = "yielded" /\ at' = "done" /\ UNCHANGED <<call, rest, caches, out, pend, adapt>>
  BY DEF Return
<1>2. /\ prompt' = prompt /\ limit' = limit /\ method' = method /\ rest' = rest
      /\ kv' = kv /\ draft' = draft /\ k' = k /\ history' = history /\ since' = since
      /\ out' = out /\ pend' = pend
  BY <1>1 DEF call, caches, adapt
<1>3. TypeOK'
  <2>1. TypeOK
    BY DEF GInv
  <2> QED BY <1>1, <1>2, <2>1 DEF TypeOK
<1>4. Whole' = Whole
  BY <1>2 DEF Whole
<1>5. Ending'
  <2>1. HoldIn(kv, SubSeq(Whole, 1, Len(Whole) - 1))
    BY <1>1 DEF GInv, Between, Held
  <2>2. Len(Whole) - 1 \in 0 .. Len(Whole)
    <3>1. prompt \in Seq(Token) /\ out \in Seq(Token) /\ pend \in Seq(Token) /\ prompt # <<>>
      BY <1>1 DEF GInv, TypeOK
    <3>2. Len(Whole) = Len(prompt) + Len(out) + Len(pend)
      BY <3>1, WholeIs DEF Whole
    <3>3. Len(prompt) \in Nat \ {0} /\ Len(out) \in Nat /\ Len(pend) \in Nat
      BY <3>1, EmptySeq
    <3> QED BY <3>2, <3>3
  <2>3. \E n \in 0 .. Len(Whole) : HoldIn(kv, SubSeq(Whole, 1, n))
    BY <2>1, <2>2
  <2> QED BY <1>2, <1>4, <2>3 DEF Ending
<1>6. Correct(method, prompt, Whole)'
  <2>1. Correct(method, prompt, Whole)
    BY DEF GInv
  <2> QED BY <1>2, <1>4, <2>1
<1>7. prompt' # <<>>
  BY <1>1, <1>2 DEF GInv
<1>8. Filling' /\ Between' /\ Emitting' /\ Yielding'
  BY <1>1 DEF Filling, Between, Emitting, Yielding
<1> QED BY <1>3, <1>5, <1>6, <1>7, <1>8 DEF GInv

\* stream_generate's step: a round without a draft.
LEMMA StreamKeeps ==
  ASSUME GInv, Oracle, StreamStep
  PROVE  GInv'
<1>1. /\ at = "yielded" /\ method = "stream" /\ kv' = Fed(<<Last(out)>>)
      /\ UNCHANGED <<call, rest, draft, out, adapt>>
  BY DEF StreamStep
<1>2. /\ prompt' = prompt /\ limit' = limit /\ method' = method /\ rest' = rest
      /\ draft' = draft /\ k' = k /\ history' = history /\ since' = since /\ out' = out
  BY <1>1 DEF call, adapt
<1>3. TypeOK /\ pend = <<>>
  BY <1>1 DEF GInv, Yielding
<1>4. /\ out # <<>> /\ Whole \in Seq(Token) /\ Whole # <<>> /\ Last(out) \in Token
      /\ HoldIn(kv, SubSeq(Whole, 1, Len(Whole) - 1))
  BY <1>1, <1>3, AtRound
<1>5. PICK b : b = <<Last(out)>>
  OBVIOUS
<1>6. b \in Seq(Token) /\ Len(b) = 1 /\ Pass(<<>>) = b
  <2>1. b \in Seq(Token) /\ Len(b) = 1
    BY <1>4, <1>5
  <2>2. b \o <<>> = b
    BY <2>1, ConcatEmptySeq
  <2> QED BY <1>5, <2>1, <2>2 DEF Pass
<1>7. HoldIn(kv', Whole) /\ Cells(kv')
  <2>1. 0 \in 0 .. Len(<<>>) /\ <<>> \in Seq(Token)
    OBVIOUS
  <2>2. /\ HoldIn(Fed(SubSeq(Pass(<<>>), 1, 0 + 1)), Whole \o SubSeq(<<>>, 1, 0))
        /\ Cells(Fed(SubSeq(Pass(<<>>), 1, 0 + 1)))
    BY <1>1, <1>3, <2>1, FedAccepted
  <2>3. SubSeq(b, 1, 1) = b
    BY <1>6, SubSeqFull
  <2>4. SubSeq(<<>>, 1, 0) = <<>> /\ Whole \o <<>> = Whole
    BY <1>4, SubSeqEmpty, ConcatEmptySeq
  <2>5. 0 + 1 = 1 /\ kv' = Fed(b)
    BY <1>1, <1>5
  <2>6. HoldIn(Fed(b), Whole)
    BY <1>6, <2>2, <2>3, <2>4, <2>5
  <2>7. Cells(Fed(b))
    BY <1>6, <2>2, <2>3, <2>5
  <2> QED BY <2>5, <2>6, <2>7
<1>8. CASE Len(out) >= limit
  <2>1. at' = "done" /\ pend' = pend
    BY <1>8 DEF StreamStep
  <2>2. TypeOK'
    <3>1. kv' \in [Layer -> Seq(Token \cup {Lost})]
      BY <1>7 DEF Cells, Row
    <3> QED BY <1>2, <1>3, <2>1, <3>1 DEF TypeOK
  <2>3. Whole' = Whole
    BY <1>2, <2>1 DEF Whole
  <2>4. Ending'
    <3>1. Len(Whole) \in 0 .. Len(Whole) /\ SubSeq(Whole, 1, Len(Whole)) = Whole
      BY <1>4, SubSeqFull
    <3>2. \E n \in 0 .. Len(Whole) : HoldIn(kv', SubSeq(Whole, 1, n))
      BY <1>7, <3>1
    <3> QED BY <2>3, <3>2 DEF Ending
  <2>5. Correct(method, prompt, Whole)'
    <3>1. Correct(method, prompt, Whole)
      BY DEF GInv
    <3> QED BY <1>2, <2>3, <3>1
  <2>6. prompt' # <<>>
    BY <1>1, <1>2 DEF GInv
  <2>7. Filling' /\ Between' /\ Emitting' /\ Yielding'
    BY <2>1 DEF Filling, Between, Emitting, Yielding
  <2> QED BY <2>2, <2>4, <2>5, <2>6, <2>7 DEF GInv
<1>9. CASE ~(Len(out) >= limit)
  <2>1. PICK targ : targ \in Targets(b) /\ pend' = targ
    BY <1>5, <1>9 DEF StreamStep
  <2>2. at' = "emit"
    BY <1>9 DEF StreamStep
  <2>3. <<>> \in Seq(Token) /\ targ \in Targets(Pass(<<>>)) /\ Len(<<>>) = 0
    BY <1>6, <2>1
  <2>4. PICK m : m = Accepted(<<>>, targ)
    OBVIOUS
  <2>5. PICK e : e = Yields(<<>>, m, targ)
    OBVIOUS
  <2>6. Sound(Whole, <<>>, m, e)
    BY <1>1, <1>3, <2>3, <2>4, <2>5, RoundGives
  <2>7. m = 0
    BY <2>3, <2>6 DEF Sound
  <2>8. e = <<targ[1]>>
    <3>1. SubSeq(<<>>, 1, 0) = <<>>
      BY SubSeqEmpty
    <3>2. PICK t : t = targ[1]
      OBVIOUS
    <3>3. <<t>> \in Seq({t})
      OBVIOUS
    <3>4. <<>> \o <<t>> = <<t>>
      BY <3>3, ConcatEmptySeq
    <3>5. e = SubSeq(<<>>, 1, 0) \o <<targ[0 + 1]>>
      BY <2>5, <2>7 DEF Yields
    <3>6. targ[0 + 1] = t
      BY <3>2
    <3>7. e = SubSeq(<<>>, 1, 0) \o <<t>>
      BY <3>5, <3>6
    <3>8. e = <<>> \o <<t>>
      BY <3>1, <3>7
    <3> QED BY <3>2, <3>4, <3>8
  <2>9. targ = <<targ[1]>>
    <3>1. PICK s : s = SubSeq(Whole, 1, Len(Whole) - 1)
      OBVIOUS
    <3>2. s \in Seq(Token) /\ HoldIn(kv, s)
      BY <1>4, <3>1, FrontLast
    <3>3. targ = [i \in 1 .. Len(b) |-> Argmax(s \o SubSeq(b, 1, i))]
      BY <1>6, <2>1, <3>2, TargetsOf
    <3> QED BY <1>6, <3>3
  <2>10. pend' = e
    BY <2>1, <2>8, <2>9
  <2>11. SubSeq(Whole \o e, 1, Len(Whole \o e) - 1) = Whole
    <3>1. SubSeq(<<>>, 1, 0) = <<>> /\ Whole \o <<>> = Whole
      BY <1>4, SubSeqEmpty, ConcatEmptySeq
    <3> QED BY <2>6, <2>7, <3>1 DEF Sound
  <2>12. HoldIn(kv', SubSeq(Whole \o e, 1, Len(Whole \o e) - 1))
    BY <1>7, <2>11
  <2>13. /\ e \in Seq(Token) /\ e # <<>> /\ Len(e) = 1 /\ Follows(method, Whole, e)
    BY <2>6, <2>7 DEF Sound
  <2>14. ~Returns
    BY <1>1 DEF Returns
  <2>15. /\ draft' \in Seq(Token) /\ k' \in MinK .. MaxK
         /\ history' \in Seq(0 .. Scale) /\ since' \in Nat
    BY <1>2, <1>3 DEF TypeOK
  <2>16. Len(out) < limit
    <3>1. Len(out) \in Nat /\ limit \in Nat
      BY <1>3, GenerationAssumption DEF TypeOK
    <3> QED BY <1>9, <3>1
  <2>17. UNCHANGED <<call, rest, out>>
    BY <1>1
  <2> QED BY <1>1, <1>3, <1>7, <2>2, <2>10, <2>12, <2>13, <2>14, <2>15, <2>16, <2>17, RoundEnd
<1> QED BY <1>8, <1>9

LEMMA ShortWhole ==
  ASSUME NEW p \in Seq(Token), NEW t \in Token
  PROVE  /\ p \o <<>> \o <<t>> = p \o <<t>>
         /\ p \o <<t>> \in Seq(Token) /\ Len(p \o <<t>>) = Len(p) + 1
         /\ (p \o <<t>>)[Len(p) + 1] = t
         /\ SubSeq(p \o <<t>>, 1, Len(p)) = p
<1>1. PICK u : u = <<t>>
  OBVIOUS
<1>2. u \in Seq(Token) /\ Len(u) = 1 /\ u[1] = t
  BY <1>1
<1>3. p \o <<>> = p /\ Len(p) \in Nat
  BY ConcatEmptySeq
<1>4. /\ p \o u \in Seq(Token) /\ Len(p \o u) = Len(p) + Len(u)
      /\ \A i \in 1 .. Len(p) + Len(u) : (p \o u)[i] = IF i <= Len(p) THEN p[i] ELSE u[i - Len(p)]
  BY <1>2, ConcatProperties
<1>5. (p \o u)[Len(p) + 1] = t
  <2>1. /\ Len(p) + 1 \in 1 .. Len(p) + Len(u) /\ ~(Len(p) + 1 <= Len(p))
        /\ (Len(p) + 1) - Len(p) = 1
    BY <1>2, <1>3
  <2> QED BY <1>2, <1>4, <2>1
<1>6. SubSeq(p \o u, 1, Len(p)) = p
  <2>1. Len(p) \in 0 .. Len(p)
    BY <1>3
  <2> QED BY <1>2, <2>1, CutEarlier, SubSeqFull
<1>7. Len(p \o u) = Len(p) + 1
  BY <1>2, <1>4
<1> QED BY <1>1, <1>3, <1>4, <1>5, <1>6, <1>7

\* One window of the prefill; the last one gives the first token.
LEMMA PrefillKeeps ==
  ASSUME GInv, Oracle, Prefill
  PROVE  GInv'
<1>1. PICK n : n = PrefillRows
  OBVIOUS
<1>2. PICK w : w = SubSeq(rest, 1, n)
  OBVIOUS
<1>3. PICK r : r = SubSeq(rest, n + 1, Len(rest))
  OBVIOUS
<1>4. /\ at = "prefill" /\ kv' = Fed(w) /\ rest' = r
      /\ UNCHANGED <<call, out, adapt>>
  BY <1>1, <1>2, <1>3 DEF Prefill
<1>5. /\ prompt' = prompt /\ limit' = limit /\ method' = method /\ out' = out
      /\ k' = k /\ history' = history /\ since' = since
  BY <1>4 DEF call, adapt
<1>6. /\ TypeOK /\ out = <<>> /\ pend = <<>> /\ rest # <<>> /\ limit >= 1 /\ prompt # <<>>
      /\ prompt \in Seq(Token) /\ rest \in Seq(Token)
  BY <1>4 DEF GInv, Filling, TypeOK
<1>7. PICK s \in Seq(Token) : prompt = s \o rest /\ HoldIn(kv, s)
  BY <1>4 DEF GInv, Filling
<1>8. n \in 1 .. Len(rest) /\ Len(rest) \in Nat
  <2>1. Len(rest) \in Nat \ {0} /\ Chunk \in Nat \ {0}
    BY <1>6, EmptySeq, GenerationAssumption
  <2> QED BY <1>1, <2>1 DEF PrefillRows, Lesser
<1>9. /\ w \in Seq(Token) /\ Len(w) = n
      /\ r \in Seq(Token) /\ w \o r = rest
  <2>1. n \in 0 .. Len(rest)
    BY <1>8
  <2> QED BY <1>2, <1>3, <1>6, <2>1, Cut, CutApart
<1>10. PICK v : v = s \o w
  OBVIOUS
<1>11. v \in Seq(Token) /\ prompt = v \o r
  <2>1. Regroups(s, w, r)
    BY <1>7, <1>9, Regroup
  <2>2. v \in Seq(Token)
    BY <1>7, <1>9, <1>10, ConcatProperties
  <2> QED BY <1>7, <1>9, <1>10, <2>1, <2>2 DEF Regroups
<1>12. HoldIn(kv', v) /\ Cells(kv')
  BY <1>4, <1>6, <1>7, <1>9, <1>10, FedHolds, FedType
<1>13. prompt' # <<>>
  BY <1>5, <1>6
<1>14. kv' \in [Layer -> Seq(Token \cup {Lost})]
  BY <1>12 DEF Cells, Row
<1>15. CASE r # <<>>
  <2>1. draft' = draft /\ pend' = pend /\ at' = at
    BY <1>4, <1>15 DEF Prefill
  <2>2. TypeOK'
    BY <1>4, <1>5, <1>6, <1>9, <1>14, <2>1 DEF TypeOK
  <2>3. Correct(method, prompt, Whole)'
    <3>1. Whole' = Whole
      BY <1>5, <2>1 DEF Whole
    <3> QED BY <1>5, <3>1 DEF GInv
  <2>4. Filling'
    BY <1>4, <1>5, <1>6, <1>11, <1>12, <1>15, <2>1 DEF Filling
  <2>5. Between' /\ Emitting' /\ Yielding' /\ Ending'
    BY <1>4, <2>1 DEF Between, Emitting, Yielding, Ending
  <2> QED BY <1>13, <2>2, <2>3, <2>4, <2>5 DEF GInv
<1>16. CASE r = <<>>
  <2>1. PICK targ : targ \in Targets(w) /\ pend' = <<Last(targ)>>
    BY <1>1, <1>2, <1>4, <1>16 DEF Prefill
  <2>2. draft' = prompt /\ at' = "emit"
    BY <1>4, <1>16 DEF Prefill
  <2>3. prompt = v
    BY <1>11, <1>16, ConcatEmptySeq
  <2>4. PICK t : t = Argmax(prompt)
    OBVIOUS
  <2>5. t \in Token /\ t \in TopK(prompt)
    BY <1>6, <2>4 DEF Oracle
  <2>6. Last(targ) = t
    <3>1. targ = [i \in 1 .. Len(w) |-> Argmax(s \o SubSeq(w, 1, i))]
      BY <1>7, <1>9, <2>1, TargetsOf
    <3>2. targ = [i \in 1 .. n |-> Argmax(s \o SubSeq(w, 1, i))] /\ n \in Nat /\ n >= 1
      BY <1>8, <1>9, <3>1
    <3>3. Len(targ) = n
      BY <3>2
    <3>4. targ[n] = Argmax(s \o SubSeq(w, 1, n))
      BY <3>2
    <3>5. SubSeq(w, 1, n) = w
      BY <1>9, SubSeqFull
    <3> QED BY <1>10, <2>3, <2>4, <3>3, <3>4, <3>5 DEF Last
  <2>7. pend' = <<t>>
    BY <2>1, <2>6
  <2>8. PICK f : f = prompt \o <<t>>
    OBVIOUS
  <2>9. Whole' = f
    BY <1>5, <1>6, <2>5, <2>7, <2>8, ShortWhole DEF Whole
  <2>10. /\ f \in Seq(Token) /\ Len(f) = Len(prompt) + 1 /\ f[Len(prompt) + 1] = t
         /\ SubSeq(f, 1, Len(prompt)) = prompt /\ Len(prompt) \in Nat
    BY <1>6, <2>5, <2>8, ShortWhole
  <2>11. Held' = prompt
    <3>1. Len(f) - 1 = Len(prompt)
      BY <2>10
    <3>2. Held' = SubSeq(f, 1, Len(f) - 1)
      BY <2>9 DEF Held
    <3> QED BY <2>10, <3>1, <3>2
  <2>12. Correct(method, prompt, Whole)'
    <3>1. Chosen(method, f, Len(prompt) + 1)
      <4>1. (Len(prompt) + 1) - 1 = Len(prompt)
        BY <2>10
      <4> QED BY <2>4, <2>5, <2>10, <4>1 DEF Chosen
    <3>2. Correct(method, prompt, f)
      <4> SUFFICES ASSUME NEW j \in Len(prompt) + 1 .. Len(f) PROVE Chosen(method, f, j)
        BY DEF Correct
      <4>1. j = Len(prompt) + 1
        BY <2>10
      <4> QED BY <3>1, <4>1
    <3> QED BY <1>5, <2>9, <3>2
  <2>13. TypeOK'
    <3>1. pend' \in Seq(Token) /\ draft' \in Seq(Token) /\ rest' \in Seq(Token)
      BY <1>4, <1>6, <1>9, <2>2, <2>5, <2>7
    <3> QED BY <1>5, <1>6, <1>14, <2>2, <3>1 DEF TypeOK
  <2>14. Between'
    BY <1>12, <2>2, <2>3, <2>11 DEF Between
  <2>15. Emitting'
    <3>1. pend' # <<>> /\ Len(pend') = 1
      BY <2>7
    <3>2. out' = <<>> /\ Len(out') = 0 /\ limit' >= 1
      BY <1>5, <1>6
    <3>3. limit' \in Nat
      BY <1>5, <1>6, GenerationAssumption DEF TypeOK
    <3>4. Len(out') < limit'
      BY <3>2, <3>3
    <3> QED BY <3>1, <3>2, <3>4 DEF Emitting
  <2>16. Filling' /\ Yielding' /\ Ending'
    BY <2>2 DEF Filling, Yielding, Ending
  <2> QED BY <1>13, <2>12, <2>13, <2>14, <2>15, <2>16 DEF GInv
<1> QED BY <1>15, <1>16

\* Empty caches hold the empty sequence.
LEMMA HoldNothing ==
  /\ HoldIn([l \in Layer |-> <<>>], <<>>)
  /\ Cells([l \in Layer |-> <<>>])
<1>1. <<>> \in Seq(Token) /\ <<>> \in Seq(Row) /\ Len(<<>>) = 0 /\ Window \in Nat
  BY GenerationAssumption
<1>2. ASSUME NEW l \in Layer PROVE Grown(l, <<>>, <<>>) = <<>>
  <2>1. PICK e \in Seq(Token) : e = <<>>
    BY <1>1
  <2>2. Len(e) <= Window
    BY <1>1, <2>1
  <2>3. Grown(l, <<>>, e) = e
    BY <2>1, <2>2, GrownWhole
  <2> QED BY <2>1, <2>3
<1> QED BY <1>1, <1>2 DEF HoldIn, Cells

LEMMA InitGInv == Init => GInv
<1> SUFFICES ASSUME Init PROVE GInv
  OBVIOUS
<1>1. /\ prompt \in Seq(Token) /\ prompt # <<>> /\ limit \in 1 .. MaxTokens
      /\ method \in Methods /\ rest = prompt /\ kv = [l \in Layer |-> <<>>]
      /\ draft = <<>> /\ out = <<>> /\ pend = <<>>
      /\ k = InitK /\ history = <<>> /\ since = 0 /\ at = "prefill"
  BY GenerationAssumption DEF Init
<1>2. HoldIn(kv, <<>>) /\ Cells(kv)
  BY <1>1, HoldNothing
<1>3. TypeOK
  <2>1. <<>> \in Seq(Token) /\ <<>> \in Seq(0 .. Scale) /\ Len(<<>>) = 0
    OBVIOUS
  <2>2. limit \in 0 .. MaxTokens /\ 0 <= limit /\ k \in MinK .. MaxK
    BY <1>1, GenerationAssumption
  <2>3. kv \in [Layer -> Seq(Token \cup {Lost})]
    BY <1>2 DEF Cells, Row
  <2> QED BY <1>1, <2>1, <2>2, <2>3 DEF TypeOK
<1>4. Correct(method, prompt, Whole)
  <2>1. prompt \o <<>> \o <<>> = prompt
    BY <1>1, ConcatEmptySeq
  <2>2. Whole = prompt /\ Len(prompt) \in Nat
    BY <1>1, <2>1 DEF Whole
  <2>3. Len(prompt) + 1 .. Len(prompt) = {}
    BY <2>2
  <2> QED BY <2>2, <2>3 DEF Correct
<1>5. Filling
  <2>1. <<>> \in Seq(Token) /\ prompt = <<>> \o rest
    BY <1>1, ConcatEmptySeq
  <2>2. limit >= 1
    BY <1>1, GenerationAssumption
  <2> QED BY <1>1, <1>2, <2>1, <2>2 DEF Filling
<1>6. Between /\ Emitting /\ Yielding /\ Ending
  BY <1>1 DEF Between, Emitting, Yielding, Ending
<1> QED BY <1>1, <1>3, <1>4, <1>5, <1>6 DEF GInv

------------------------------------------------------------------------------
(* The theorems. *)

\* The adaptive loop rolls back with a length it has changed (finding 2), and the loop
\* that rolls the store itself back needs caches that drop nothing.
SoundLoops == "adaptive" \notin Methods /\ ("optimized" \in Methods => AllFull)

LEMMA NextGInv == ASSUME Oracle, SoundLoops, GInv, [Next]_gvars PROVE GInv'
<1>1. CASE UNCHANGED gvars
  <2>1. /\ prompt' = prompt /\ limit' = limit /\ method' = method /\ rest' = rest
        /\ kv' = kv /\ draft' = draft /\ k' = k /\ history' = history /\ since' = since
        /\ out' = out /\ pend' = pend /\ at' = at
    BY <1>1 DEF gvars, call, caches, adapt
  <2>2. Whole' = Whole /\ Held' = Held
    BY <2>1 DEF Whole, Held
  <2>3. TypeOK'
    BY <2>1 DEF GInv, TypeOK
  <2>4. Correct(method, prompt, Whole)'
    BY <2>1, <2>2 DEF GInv
  <2>5. Filling'
    BY <2>1 DEF GInv, Filling
  <2>6. Between' /\ Emitting' /\ Yielding'
    BY <2>1, <2>2 DEF GInv, Between, Emitting, Yielding
  <2>7. Ending'
    BY <2>1, <2>2 DEF GInv, Ending
  <2>8. (at \in {"prefill", "emit", "yielded", "done"} => prompt # <<>>)'
    BY <2>1 DEF GInv
  <2> QED BY <2>3, <2>4, <2>5, <2>6, <2>7, <2>8 DEF GInv
<1>2. CASE Prefill
  BY <1>2, PrefillKeeps
<1>3. CASE Emit
  BY <1>3, EmitKeeps
<1>4. CASE Return
  BY <1>4, ReturnKeeps
<1>5. CASE StreamStep
  BY <1>5, StreamKeeps
<1>6. ASSUME NEW q \in Proposals, DraftRound(q) PROVE GInv'
  BY <1>6, DraftKeeps
<1>7. ASSUME NEW q \in Proposals, NgramRound(q) PROVE GInv'
  BY <1>7, NgramKeeps
<1>8. ASSUME NEW q \in Proposals, AdaptiveRound(q) PROVE FALSE
  <2>1. method = "adaptive" /\ method \in Methods
    BY <1>8 DEF AdaptiveRound, NextRound, GInv, TypeOK
  <2> QED BY <2>1 DEF SoundLoops
<1>9. ASSUME NEW q \in Proposals, OptimizedRound(q) PROVE GInv'
  <2>1. method = "optimized" /\ method \in Methods
    BY <1>9 DEF OptimizedRound, NextRound, GInv, TypeOK
  <2>2. AllFull
    BY <2>1 DEF SoundLoops
  <2> QED BY <1>9, <2>2, OptimizedKeeps
<1>10. Prefill \/ Emit \/ Return \/ StreamStep \/ Round \/ UNCHANGED gvars
  BY DEF Next, Generate
<1>11. ASSUME Round PROVE GInv'
  <2>1. PICK q \in Proposals :
          DraftRound(q) \/ NgramRound(q) \/ AdaptiveRound(q) \/ OptimizedRound(q)
    BY <1>11 DEF Round
  <2> QED BY <2>1, <1>6, <1>7, <1>8, <1>9
<1> QED BY <1>1, <1>2, <1>3, <1>4, <1>5, <1>10, <1>11

LEMMA AlwaysGInv == ASSUME Oracle, SoundLoops PROVE Spec => []GInv
<1>1. GInv /\ [Next]_gvars => GInv'
  BY NextGInv
<1> QED BY <1>1, InitGInv, PTL DEF Spec

\* Every state of these loops has its type: the number of draft tokens keeps to its
\* bounds, and no more tokens are yielded than were asked for.
THEOREM TypeCorrect == ASSUME Oracle, SoundLoops PROVE Spec => []TypeOK
<1>1. GInv => TypeOK
  BY DEF GInv
<1> QED BY <1>1, AlwaysGInv, PTL

\* A draft that has seen all but the last token has seen what the consumer has.
LEMMA AlignedAt ==
  ASSUME GInv, at = "yielded", pend = <<>>, draft = Held
  PROVE  draft = prompt \o Front(out) /\ Holds(draft)
<1>1. /\ TypeOK /\ out # <<>> /\ Whole = prompt \o out /\ Whole \in Seq(Token)
      /\ HoldIn(kv, SubSeq(Whole, 1, Len(Whole) - 1))
      /\ draft = SubSeq(Whole, 1, Len(Whole) - 1)
  BY AtRound, WholeEnds DEF Held
<1>2. prompt \in Seq(Token) /\ out \in Seq(Token) /\ Len(out) \in Nat \ {0}
      /\ Len(prompt) \in Nat
  BY <1>1, EmptySeq DEF TypeOK
<1>3. PICK n : n = Len(out) - 1
  OBVIOUS
<1>4. n \in 0 .. Len(out) /\ Len(Whole) - 1 = Len(prompt) + n
  <2>1. Len(Whole) = Len(prompt) + Len(out)
    BY <1>1, <1>2, ConcatProperties
  <2> QED BY <1>2, <1>3, <2>1
<1>5. SubSeq(Whole, 1, Len(prompt) + n) = prompt \o SubSeq(out, 1, n)
  BY <1>1, <1>2, <1>4, CutLater
<1>6. draft = prompt \o Front(out)
  BY <1>1, <1>3, <1>4, <1>5 DEF Front
<1>7. draft \in Seq(Token)
  BY <1>1 DEF TypeOK
<1> QED BY <1>1, <1>6, <1>7, RowsAre

\* Between rounds the draft's cache and every layer of the target hold exactly the
\* prompt and what was yielded but for the last token, whatever was proposed, accepted
\* and rolled back (generate.py:511-514, 741-748).
THEOREM DraftsAligned ==
  ASSUME Oracle, SoundLoops, Methods \cap {"mtp", "eagle"} = {}
  PROVE  Spec => []DraftAligned
<1>1. GInv => DraftAligned
  <2> SUFFICES ASSUME GInv, at = "yielded", pend = <<>>,
                      method \in {"draft", "fast", "adaptive", "optimized", "mtp", "eagle"}
               PROVE  draft = prompt \o Front(out) /\ Holds(draft)
    BY DEF DraftAligned
  <2>1. method \in {"draft", "fast", "optimized"}
    BY DEF GInv, TypeOK, SoundLoops
  <2>2. draft = Held
    BY <2>1 DEF GInv, Between
  <2> QED BY <2>2, AlignedAt
<1> QED BY <1>1, AlwaysGInv, PTL

\* The next token yielded is one that greedy decoding may yield.
LEMMA EmitYields == ASSUME GInv, Emit PROVE Abstract!Yield
<1>1. /\ pend # <<>> /\ at \in {"emit", "yielded"}
      /\ out' = Append(out, Head(pend)) /\ pend' = Tail(pend)
      /\ at' = "yielded" /\ UNCHANGED call
  BY DEF Emit
<1>2. prompt' = prompt /\ limit' = limit /\ method' = method
  BY <1>1 DEF call
<1>3. TypeOK
  BY DEF GInv
<1>4. prompt \in Seq(Token) /\ out \in Seq(Token) /\ pend \in Seq(Token)
      /\ Len(out) \in Nat /\ limit \in Nat
  BY <1>3, GenerationAssumption DEF TypeOK
<1>5. Len(out) < limit /\ (method # "stream" /\ out # <<>> => Last(out) # Eos)
  <2>1. CASE at = "emit"
    BY <2>1 DEF GInv, Emitting
  <2>2. CASE at = "yielded"
    <3>1. ~Returns /\ method # "stream"
      BY <1>1, <2>2 DEF Emit, GInv, Yielding
    <3> QED BY <1>4, <3>1 DEF Returns
  <2> QED BY <1>1, <2>1, <2>2
<1>6. ~Abstract!Finished
  BY <1>4, <1>5 DEF Abstract!Finished, Last
<1>7. PICK t : t = Head(pend)
  OBVIOUS
<1>8. PICK f : f = prompt \o out
  OBVIOUS
<1>9. IF method = "fast" THEN t \in TopK(f) ELSE t = Argmax(f)
  <2>1. f \in Seq(Token) /\ Len(f) = Len(prompt) + Len(out)
    BY <1>4, <1>8, ConcatProperties
  <2>2. t = pend[1] /\ Len(pend) \in Nat \ {0}
    BY <1>1, <1>4, <1>7, EmptySeq
  <2>3. Whole = f \o pend /\ Len(f) \in Nat
    BY <1>8, <2>1 DEF Whole
  <2>4. /\ Len(f \o pend) = Len(f) + Len(pend)
        /\ \A i \in 1 .. Len(f) + Len(pend) :
             (f \o pend)[i] = IF i <= Len(f) THEN f[i] ELSE pend[i - Len(f)]
    <3>1. f \in Seq(Token)
      BY <2>1
    <3>2. pend \in Seq(Token)
      BY <1>4
    <3> QED BY <3>1, <3>2, ConcatProperties
  <2>5. (f \o pend)[Len(f) + 1] = t
    <3>1. /\ Len(f) + 1 \in 1 .. Len(f) + Len(pend) /\ ~(Len(f) + 1 <= Len(f))
          /\ (Len(f) + 1) - Len(f) = 1
      BY <2>2, <2>3
    <3> QED BY <2>2, <2>4, <3>1
  <2>6. SubSeq(f \o pend, 1, Len(f)) = f
    <3>1. Len(f) \in 0 .. Len(f)
      BY <2>3
    <3> QED BY <1>4, <2>1, <3>1, CutEarlier, SubSeqFull
  <2>7. Chosen(method, Whole, Len(f) + 1)
    <3>1. Len(prompt) \in Nat
      BY <1>4
    <3>2. Len(f) + 1 \in Len(prompt) + 1 .. Len(Whole)
      BY <1>4, <2>1, <2>2, <2>3, <2>4, <3>1
    <3> QED BY <3>2 DEF GInv, Correct
  <2>8. (Len(f) + 1) - 1 = Len(f)
    BY <2>3
  <2> QED BY <2>3, <2>5, <2>6, <2>7, <2>8 DEF Chosen
<1>10. ~(at = "over") /\ ~(at' = "over")
  BY <1>1
<1>11. Abstract!Yield
  BY <1>1, <1>2, <1>6, <1>7, <1>8, <1>9, <1>10 DEF Abstract!Yield, Abstract!call
<1> QED BY <1>11

\* What the consumer sees is greedy decoding, token by token, whatever is drafted: the
\* safety part of ImplementsGreedy (generate.py:399-412, 554-562).
THEOREM GreedySteps ==
  ASSUME Oracle, SoundLoops
  PROVE  Spec => Abstract!Init /\ [][Abstract!Yield \/ Abstract!Abandon]_Abstract!vars
<1>1. Init => Abstract!Init
  BY DEF Init, Abstract!Init
<1>2. ASSUME GInv, [Next]_gvars
      PROVE  [Abstract!Yield \/ Abstract!Abandon]_Abstract!vars
  <2>1. CASE Emit
    BY <1>2, <2>1, EmitYields
  <2>2. ASSUME out' = out, UNCHANGED call, at' # "over", at # "over"
        PROVE  UNCHANGED Abstract!vars
    BY <2>2 DEF Abstract!vars, Abstract!call, call
  <2>3. CASE Prefill
    BY <2>2, <2>3 DEF Prefill
  <2>4. CASE Return
    BY <2>2, <2>4 DEF Return
  <2>5. CASE StreamStep
    BY <2>2, <2>5 DEF StreamStep
  <2>6. CASE Round
    BY <2>2, <2>6 DEF Round, DraftRound, NgramRound, AdaptiveRound, OptimizedRound, NextRound
  <2>7. CASE UNCHANGED gvars
    BY <2>7 DEF gvars, call, Abstract!vars, Abstract!call
  <2> QED BY <1>2, <2>1, <2>3, <2>4, <2>5, <2>6, <2>7 DEF Next, Generate
<1> QED BY <1>1, <1>2, AlwaysGInv, PTL DEF Spec
=============================================================================
