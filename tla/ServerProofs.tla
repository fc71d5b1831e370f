----------------------------- MODULE ServerProofs -----------------------------
(***************************************************************************)
(* Proofs about Server and Http: the prefix slot is honest between         *)
(* requests, a warm answer is a cold one, and the client is sent the exact *)
(* text.                                                                   *)
(***************************************************************************)
EXTENDS Http, GenerationProofs

------------------------------------------------------------------------------
(* The common prefix. *)

LEMMA CommonIs ==
  ASSUME NEW s \in Seq(Token), NEW t \in Seq(Token)
  PROVE  /\ CommonPrefixLen(s, t) \in 0 .. Len(s) /\ CommonPrefixLen(s, t) \in 0 .. Len(t)
         /\ SubSeq(s, 1, CommonPrefixLen(s, t)) = SubSeq(t, 1, CommonPrefixLen(s, t))
<1> DEFINE C == CommonPrefixes({s, t})
           T == {Len(x) : x \in C}
<1>1. Len(s) \in Nat /\ Len(t) \in Nat
  OBVIOUS
<1>2. ASSUME NEW x \in C
      PROVE  /\ x \in Seq(Token) /\ Len(x) \in 0 .. Len(s) /\ Len(x) \in 0 .. Len(t)
             /\ x = SubSeq(s, 1, Len(x)) /\ x = SubSeq(t, 1, Len(x))
  <2>1. IsPrefix(x, s) /\ IsPrefix(x, t) /\ x \in Prefixes(s) \cup Prefixes(t)
    BY DEF CommonPrefixes
  <2>2. x \in Seq(Token)
    <3>1. CASE x \in Prefixes(s)
      <4>1. PICK n \in 0 .. Len(s) : x = SubSeq(s, 1, n)
        BY <3>1 DEF Prefixes
      <4> QED BY <4>1, Cut
    <3>2. CASE x \in Prefixes(t)
      <4>1. PICK n \in 0 .. Len(t) : x = SubSeq(t, 1, n)
        BY <3>2 DEF Prefixes
      <4> QED BY <4>1, Cut
    <3> QED BY <2>1, <3>1, <3>2
  <2>3. SubSeq(x, 1, Len(x)) = x /\ Len(x) \in Nat
    BY <2>2, SubSeqFull
  <2> QED BY <1>1, <2>1, <2>2, <2>3 DEF IsPrefix
<1>3. <<>> \in C
  <2>1. SubSeq(s, 1, 0) = <<>> /\ SubSeq(t, 1, 0) = <<>> /\ SubSeq(<<>>, 1, 0) = <<>>
    BY SubSeqEmpty
  <2>2. <<>> \in Prefixes(s)
    BY <1>1, <2>1 DEF Prefixes
  <2>3. IsPrefix(<<>>, s) /\ IsPrefix(<<>>, t)
    BY <1>1, <2>1 DEF IsPrefix
  <2> QED BY <2>2, <2>3 DEF CommonPrefixes
<1> HIDE DEF C
<1>4. T \subseteq Nat /\ T # {} /\ \A n \in T : n <= Len(s)
  <2>1. ASSUME NEW n \in T PROVE n \in Nat /\ n <= Len(s)
    <3>1. PICK x \in C : n = Len(x)
      OBVIOUS
    <3>2. Len(x) \in 0 .. Len(s)
      BY <1>2
    <3> QED BY <1>1, <3>1, <3>2
  <2>2. Len(<<>>) \in T
    BY <1>3
  <2> QED BY <2>1, <2>2
<1>5. PICK m \in T : \A n \in T : n <= m
  <2> HIDE DEF T
  <2> QED BY <1>1, <1>4, Greatest
<1>6. \E x \in C : \A y \in C : Len(y) <= Len(x)
  BY <1>5
<1>7. LongestCommonPrefix({s, t}) \in C
  BY <1>6 DEF LongestCommonPrefix, C
<1> QED BY <1>2, <1>7 DEF CommonPrefixLen

------------------------------------------------------------------------------
(* Ends of sequences. *)

\* The last n tokens of s are the first n of q.
Tailed(s, q, n) == n <= Len(s) /\ SubSeq(s, Len(s) - n + 1, Len(s)) = SubSeq(q, 1, n)

LEMMA TailedIs ==
  ASSUME NEW s \in Seq(Token), NEW q \in Seq(Token), NEW n \in 0 .. Len(q)
  PROVE  Tailed(s, q, n) <=> n <= Len(s) /\ \A i \in 1 .. n : s[Len(s) - n + i] = q[i]
<1>1. Len(s) \in Nat /\ Len(q) \in Nat
  OBVIOUS
<1>2. /\ SubSeq(q, 1, n) \in Seq(Token) /\ Len(SubSeq(q, 1, n)) = n
      /\ \A i \in 1 .. n : SubSeq(q, 1, n)[i] = q[i]
  BY Cut
<1>3. ASSUME n <= Len(s)
      PROVE  SubSeq(s, Len(s) - n + 1, Len(s)) = SubSeq(q, 1, n)
               <=> \A i \in 1 .. n : s[Len(s) - n + i] = q[i]
  <2>1. PICK b \in Int : b = Len(s) - n + 1
    BY <1>1
  <2> DEFINE u == SubSeq(s, b, Len(s))
  <2>2. \A i \in b .. Len(s) : i \in 1 .. Len(s)
    BY <1>1, <1>3, <2>1
  <2>3. u \in Seq(Token) /\ Len(u) = n /\ \A i \in 1 .. n : u[i] = s[b + i - 1]
    BY <1>1, <1>3, <2>1, <2>2, SubSeqProperties
  <2>4. \A i \in 1 .. n : b + i - 1 = Len(s) - n + i
    BY <1>1, <2>1
  <2>5. ASSUME u = SubSeq(q, 1, n), NEW i \in 1 .. n
        PROVE  s[Len(s) - n + i] = q[i]
    BY <2>3, <2>4, <2>5, <1>2
  <2>6. ASSUME \A i \in 1 .. n : s[Len(s) - n + i] = q[i]
        PROVE  u = SubSeq(q, 1, n)
    <3>1. \A i \in 1 .. n : u[i] = SubSeq(q, 1, n)[i]
      BY <2>3, <2>4, <2>6, <1>2
    <3> HIDE DEF u
    <3> QED BY <2>3, <1>2, <3>1, SeqEqual
  <2> QED BY <2>1, <2>5, <2>6
<1> QED BY <1>3 DEF Tailed

\* What a longer sequence ends with, the shorter one ended with but for its last token.
LEMMA TailedLess ==
  ASSUME NEW s \in Seq(Token), NEW t \in Token, NEW q \in Seq(Token),
         NEW n \in 1 .. Len(q), Tailed(Append(s, t), q, n)
  PROVE  Tailed(s, q, n - 1)
<1>1. Len(s) \in Nat /\ Len(q) \in Nat
  OBVIOUS
<1>2. /\ Append(s, t) \in Seq(Token) /\ Len(Append(s, t)) = Len(s) + 1
      /\ \A i \in 1 .. Len(s) : Append(s, t)[i] = s[i]
  OBVIOUS
<1>3. n <= Len(s) + 1 /\ \A i \in 1 .. n : Append(s, t)[Len(s) + 1 - n + i] = q[i]
  <2>1. PICK u \in Seq(Token) : u = Append(s, t)
    BY <1>2
  <2>2. n \in 0 .. Len(q) /\ Tailed(u, q, n) /\ Len(u) = Len(s) + 1
    BY <1>1, <1>2, <2>1
  <2>3. n <= Len(u) /\ \A i \in 1 .. n : u[Len(u) - n + i] = q[i]
    BY <2>2, TailedIs
  <2>4. ASSUME NEW i \in 1 .. n PROVE u[Len(s) + 1 - n + i] = q[i]
    <3>1. Len(u) - n + i = Len(s) + 1 - n + i
      BY <2>2
    <3>2. u[Len(u) - n + i] = q[i]
      BY <2>3
    <3> QED BY <3>1, <3>2, Zenon
  <2>5. n <= Len(s) + 1
    BY <2>2, <2>3
  <2> QED BY <2>1, <2>4, <2>5, Zenon
<1>4. PICK m \in 0 .. Len(q) : m = n - 1
  BY <1>1
<1>5. m <= Len(s)
  BY <1>1, <1>3, <1>4
<1>6. ASSUME NEW i \in 1 .. m PROVE s[Len(s) - m + i] = q[i]
  <2>1. Len(s) - m + i = Len(s) + 1 - n + i /\ Len(s) - m + i \in 1 .. Len(s) /\ i \in 1 .. n
    BY <1>1, <1>4, <1>5
  <2> QED BY <1>2, <1>3, <2>1
<1>7. Tailed(s, q, m)
  BY <1>5, <1>6, TailedIs
<1> QED BY <1>4, <1>7

\* A suffix, which the community modules define by reversal.
LEMMA SuffixIs ==
  ASSUME NEW s \in Seq(Token), NEW q \in Seq(Token), IsSuffix(q, s)
  PROVE  Tailed(s, q, Len(q))
<1>1. Len(s) \in Nat /\ Len(q) \in Nat
  OBVIOUS
<1>2. /\ Reverse(s) \in Seq(Token) /\ Len(Reverse(s)) = Len(s)
      /\ \A i \in 1 .. Len(s) : Reverse(s)[i] = s[Len(s) - i + 1]
  <2>1. \A i \in 1 .. Len(s) : Len(s) - i + 1 \in 1 .. Len(s)
    BY <1>1
  <2>2. \A i \in 1 .. Len(s) : s[Len(s) - i + 1] \in Token
    BY <2>1
  <2> QED BY <1>1, <2>2, IsASeq DEF Reverse
<1>3. /\ Reverse(q) \in Seq(Token) /\ Len(Reverse(q)) = Len(q)
      /\ \A i \in 1 .. Len(q) : Reverse(q)[i] = q[Len(q) - i + 1]
  <2>1. \A i \in 1 .. Len(q) : Len(q) - i + 1 \in 1 .. Len(q)
    BY <1>1
  <2>2. \A i \in 1 .. Len(q) : q[Len(q) - i + 1] \in Token
    BY <2>1
  <2> QED BY <1>1, <2>2, IsASeq DEF Reverse
<1>4. /\ Len(q) <= Len(s)
      /\ SubSeq(Reverse(q), 1, Len(q)) = SubSeq(Reverse(s), 1, Len(q))
  BY <1>2, <1>3 DEF IsSuffix, IsPrefix
<1>5. \A j \in 1 .. Len(q) : Reverse(q)[j] = Reverse(s)[j]
  BY <1>1, <1>2, <1>3, <1>4, Cut
<1>6. ASSUME NEW i \in 1 .. Len(q) PROVE s[Len(s) - Len(q) + i] = q[i]
  <2>1. Len(q) - i + 1 \in 1 .. Len(q)
    BY <1>1
  <2> DEFINE j == Len(q) - i + 1
  <2>2. /\ j \in 1 .. Len(q) /\ j \in 1 .. Len(s)
        /\ Len(q) - j + 1 = i /\ Len(s) - j + 1 = Len(s) - Len(q) + i
    BY <1>1, <1>4, <2>1
  <2> HIDE DEF j
  <2>3. Reverse(q)[j] = q[i]
    BY <1>3, <2>2
  <2>4. Reverse(s)[j] = s[Len(s) - Len(q) + i]
    BY <1>2, <2>2
  <2> QED BY <1>5, <2>2, <2>3, <2>4
<1>7. Len(q) \in 0 .. Len(q)
  BY <1>1
<1> QED BY <1>4, <1>6, <1>7, TailedIs

------------------------------------------------------------------------------
(* The invariant. *)

\* Where no request is under way, the store holds what the slot says it holds.
Slotted == at \in {"idle", "over"} => HoldIn(kv, tokens)

\* All has been sent, or the end of the answer may be the start of a stop sequence.
Released ==
  reason = "none" => shown = Len(out) \/ \E i \in DOMAIN stops : Overlaps(out, stops[i])

\* What may be the start of a stop sequence has not been sent.
Withheld ==
  reason = "none" =>
    \A i \in DOMAIN stops : \A n \in 0 .. Len(stops[i]) :
      Tailed(out, stops[i], n) => shown + n <= Len(out)

Talk == Released /\ Withheld /\ ExactText

SInv == GInv /\ ServerTypeOK /\ Slotted /\ Talk

\* The stop sequences are sequences of tokens, and none is empty.
LEMMA StopsAre ==
  ASSUME ServerTypeOK
  PROVE  /\ stops \in Seq(Seq(Token) \ {<<>>})
         /\ \A i \in DOMAIN stops : stops[i] \in Seq(Token) /\ stops[i] # <<>>
<1>1. stops \in Seq(Seq(Token) \ {<<>>})
  <2>1. <<>> \in Seq(Seq(Token) \ {<<>>})
    BY EmptySeq
  <2>2. StopLists \subseteq Seq(Seq(Token) \ {<<>>})
    BY ServerAssumption
  <2> QED BY <2>1, <2>2 DEF ServerTypeOK
<1>2. \A i \in DOMAIN stops : stops[i] \in Seq(Token) \ {<<>>}
  BY <1>1
<1> QED BY <1>1, <1>2

\* Nothing is said, nothing changes of what was said.
LEMMA TalkStays ==
  ASSUME Talk, UNCHANGED <<out, chat>>
  PROVE  Talk'
<1>1. out' = out /\ stops' = stops /\ shown' = shown /\ reason' = reason
  BY DEF chat
<1>2. Released'
  BY <1>1 DEF Talk, Released, Overlaps
<1>3. Withheld'
  BY <1>1 DEF Talk, Withheld, Tailed
<1>4. StopAt(out)' = StopAt(out)
  BY <1>1 DEF StopAt
<1>5. ExactText'
  BY <1>1, <1>4 DEF Talk, ExactText, Overlaps
<1> QED BY <1>2, <1>3, <1>5 DEF Talk

\* At the start of an answer nothing was said.
LEMMA TalkStarts ==
  ASSUME NEW S, Answer(S), out' = <<>>
  PROVE  Talk'
<1>1. stops' = S /\ reason' = "none" /\ shown' = 0 /\ out' = <<>> /\ Len(out') = 0
  BY DEF Answer
<1>2. Released'
  BY <1>1 DEF Released
<1>3. Withheld'
  <2>1. ASSUME NEW i \in DOMAIN S, NEW n \in 0 .. Len(S[i]), Tailed(<<>>, S[i], n)
        PROVE  n <= 0
    BY <2>1 DEF Tailed
  <2>2. ASSUME NEW i \in DOMAIN stops', NEW n \in 0 .. Len(stops[i])',
               Tailed(out, stops[i], n)'
        PROVE  shown' + n <= Len(out')
    <3>1. Tailed(<<>>, S[i], n) /\ i \in DOMAIN S /\ n \in 0 .. Len(S[i])
      BY <1>1, <2>2 DEF Tailed
    <3>2. n <= 0
      BY <2>1, <3>1
    <3> QED BY <1>1, <3>1, <3>2
  <2> QED BY <2>2 DEF Withheld
<1>4. ExactText'
  BY <1>1 DEF ExactText
<1> QED BY <1>2, <1>3, <1>4 DEF Talk

\* Nothing is under way.
LEMMA Quiet ==
  ASSUME TypeOK', Correct(method, prompt, Whole)', at' \in {"idle", "over"}
  PROVE  GInv'
<1>1. Filling' /\ Between' /\ Emitting' /\ Yielding' /\ Ending'
  BY DEF Filling, Between, Emitting, Yielding, Ending
<1> QED BY <1>1 DEF GInv

LEMMA WholeStays ==
  ASSUME Correct(method, prompt, Whole), UNCHANGED <<prompt, out, pend, method>>
  PROVE  /\ Whole' = Whole
         /\ Correct(method, prompt, Whole)'
BY DEF Whole

------------------------------------------------------------------------------
(* What is sent. *)

LEMMA StopAtIs ==
  ASSUME stops \in Seq(Seq(Token) \ {<<>>}), NEW s, StopAt(s) # 0
  PROVE  StopAt(s) \in DOMAIN stops /\ IsSuffix(stops[StopAt(s)], s)
<1> DEFINE T == {i \in DOMAIN stops : IsSuffix(stops[i], s)}
<1>1. T \subseteq Nat /\ T # {}
  BY DEF StopAt
<1>2. PICK m \in T : \A n \in T : m <= n
  <2> HIDE DEF T
  <2> QED BY <1>1, Least
<1>3. m \in DOMAIN stops /\ IsSuffix(stops[m], s) /\ m \in Nat
  BY <1>2
<1>4. \A j \in 1 .. m - 1 : ~IsSuffix(stops[j], s)
  <2>1. ASSUME NEW j \in 1 .. m - 1, IsSuffix(stops[j], s) PROVE FALSE
    <3>1. j \in DOMAIN stops /\ ~(m <= j)
      BY <1>3
    <3> QED BY <1>2, <2>1, <3>1
  <2> QED BY <2>1
<1> QED BY <1>3, <1>4 DEF StopAt

LEMMA DeliverOut ==
  ASSUME ServerTypeOK, Deliver
  PROVE  /\ reason = "none" /\ stops' = stops
         /\ \E t \in Token : out' = Append(out, t)
         /\ out \in Seq(Token) /\ out' \in Seq(Token)
         /\ Len(out) \in Nat /\ Len(out') = Len(out) + 1 /\ Front(out') = out
<1>1. /\ reason = "none" /\ stops' = stops /\ pend # <<>> /\ out' = Append(out, Head(pend))
      /\ pend \in Seq(Token) /\ out \in Seq(Token)
  BY DEF Deliver, Emit, ServerTypeOK, TypeOK
<1>2. PICK t \in Token : t = Head(pend)
  BY <1>1
<1>3. out' = Append(out, t) /\ out' \in Seq(Token) /\ Len(out) \in Nat /\ Len(out') = Len(out) + 1
  BY <1>1, <1>2
<1>4. SubSeq(out', 1, Len(out)) = out
  <2>1. SubSeq(out', 1, Len(out)) \in Seq(Token) /\ Len(SubSeq(out', 1, Len(out))) = Len(out)
        /\ \A i \in 1 .. Len(out) : SubSeq(out', 1, Len(out))[i] = out'[i]
    BY <1>3, Cut
  <2>2. \A i \in 1 .. Len(out) : out'[i] = out[i]
    BY <1>1, <1>3
  <2> QED BY <1>1, <2>1, <2>2, SeqEqual
<1>5. Front(out') = out
  <2>1. Len(out') - 1 = Len(out)
    BY <1>3
  <2> QED BY <1>4, <2>1 DEF Front
<1> QED BY <1>1, <1>3, <1>5

\* One more token: what is sent and what is held back stay right, and what the end of
\* the answer shows is exact.
LEMMA DeliverTalks ==
  ASSUME ServerTypeOK, Talk, Deliver
  PROVE  /\ Talk' /\ shown' \in 0 .. Len(out')
         /\ reason' \in {"none", "stop", "length", "gone", "error"}
<1>1. /\ reason = "none" /\ stops' = stops
      /\ out \in Seq(Token) /\ out' \in Seq(Token)
      /\ Len(out) \in Nat /\ Len(out') = Len(out) + 1 /\ Front(out') = out
  BY DeliverOut
<1>2. PICK t \in Token : out' = Append(out, t)
  BY DeliverOut
<1>3. shown \in 0 .. Len(out)
  BY DEF ServerTypeOK
<1>4. \A i \in DOMAIN stops : stops[i] \in Seq(Token) /\ stops[i] # <<>>
  BY StopsAre
<1>5. ASSUME NEW i \in DOMAIN stops, NEW n \in 1 .. Len(stops[i]), Tailed(out', stops[i], n)
      PROVE  shown + n <= Len(out')
  <2>1. stops[i] \in Seq(Token) /\ Len(stops[i]) \in Nat
    BY <1>4
  <2>2. Tailed(out, stops[i], n - 1)
    BY <1>1, <1>2, <1>5, <2>1, TailedLess
  <2>3. n - 1 \in 0 .. Len(stops[i])
    BY <2>1
  <2>4. shown + (n - 1) <= Len(out)
    BY <1>1, <2>2, <2>3 DEF Talk, Withheld
  <2> QED BY <1>1, <1>3, <2>4
<1>6. CASE Last(out') = Eos
  <2>1. reason' = "stop" /\ shown' = shown
    BY <1>6 DEF Deliver
  <2>2. Released' /\ Withheld'
    BY <2>1 DEF Released, Withheld
  <2>3. ASSUME ~\E i \in DOMAIN stops : Overlaps(out, stops[i]) PROVE shown' = Len(out') - 1
    BY <1>1, <2>1, <2>3 DEF Talk, Released
  <2>4. ExactText'
    BY <1>1, <1>6, <2>1, <2>3 DEF ExactText, Overlaps
  <2> QED BY <1>1, <1>3, <2>1, <2>2, <2>4 DEF Talk
<1>7. CASE Last(out') # Eos /\ StopAt(out') # 0
  <2> DEFINE i == StopAt(out')
  <2>1. reason' = "stop" /\ shown' = Greater(shown, Len(out') - Len(stops[i]))
    BY <1>7 DEF Deliver
  <2>2. i \in DOMAIN stops /\ IsSuffix(stops[i], out')
    BY <1>7, StopsAre, StopAtIs
  <2>3. StopAt(out)' = i
    BY <1>1 DEF StopAt
  <2> HIDE DEF i
  <2>4. stops[i] \in Seq(Token) /\ stops[i] # <<>> /\ Len(stops[i]) \in Nat
    BY <1>4, <2>2
  <2>5. Len(stops[i]) \in 1 .. Len(stops[i])
    BY <2>4
  <2>6. Tailed(out', stops[i], Len(stops[i]))
    BY <1>1, <2>2, <2>4, SuffixIs
  <2>7. shown + Len(stops[i]) <= Len(out')
    BY <1>5, <2>2, <2>5, <2>6
  <2>8. shown' = Len(out') - Len(stops[i]) /\ shown' \in 0 .. Len(out')
    <3>1. Len(out') \in Nat /\ Len(stops[i]) \in Nat /\ shown \in Nat
      BY <1>1, <1>3, <2>4
    <3>2. Len(out') - Len(stops[i]) \in Int
      BY <3>1
    <3>3. PICK m \in Int : m = Len(out') - Len(stops[i])
      BY <3>2, Zenon
    <3>4. shown <= m /\ m <= Len(out') /\ shown \in Nat
      BY <2>7, <3>1, <3>3
    <3>5. Greater(shown, m) = m
      BY <3>4 DEF Greater
    <3>6. m \in 0 .. Len(out')
      BY <1>1, <3>4
    <3> QED BY <2>1, <3>3, <3>5, <3>6
  <2>9. Released' /\ Withheld'
    BY <2>1 DEF Released, Withheld
  <2>10. ExactText'
    BY <1>1, <1>7, <2>1, <2>3, <2>8 DEF ExactText
  <2> QED BY <2>1, <2>8, <2>9, <2>10 DEF Talk
<1>8. CASE Last(out') # Eos /\ StopAt(out') = 0
  <2>1. reason' = "none"
    BY <1>1, <1>8 DEF Deliver
  <2>2. shown' = IF \E i \in DOMAIN stops : Overlaps(out', stops[i]) THEN shown ELSE Len(out')
    BY <1>8 DEF Deliver
  <2>3. shown' \in 0 .. Len(out')
    BY <1>1, <1>3, <2>2
  <2>4. Released'
    BY <1>1, <2>2 DEF Released, Overlaps
  <2>5. ASSUME NEW i \in DOMAIN stops, NEW n \in 0 .. Len(stops[i]), Tailed(out', stops[i], n)
        PROVE  shown' + n <= Len(out')
    <3>1. stops[i] \in Seq(Token) /\ Len(stops[i]) \in Nat
      BY <1>4
    <3>2. CASE n = 0
      BY <1>1, <2>3, <3>2
    <3>3. CASE n \in 1 .. Len(stops[i])
      <4>1. n \in 1 .. Lesser(Len(out'), Len(stops[i]))
        BY <1>1, <2>5, <3>1, <3>3 DEF Tailed, Lesser
      <4>2. Overlaps(out', stops[i])
        BY <2>5, <4>1 DEF Tailed, Overlaps
      <4>3. shown' = shown
        BY <2>2, <4>2
      <4> QED BY <1>5, <2>5, <3>3, <4>3
    <3> QED BY <3>1, <3>2, <3>3
  <2>6. Withheld'
    BY <1>1, <2>5 DEF Withheld, Tailed
  <2>7. ExactText'
    BY <2>1 DEF ExactText
  <2> QED BY <2>1, <2>3, <2>4, <2>6, <2>7 DEF Talk
<1> QED BY <1>6, <1>7, <1>8

------------------------------------------------------------------------------
(* The steps of an answer. *)

\* Finding 3 is that an error part of the way through the layers leaves them at
\* different lengths; an error of the first layer does not.
SoundServer == Oracle /\ SoundLoops /\ FaultLayers \subseteq {1}

LEMMA ResumeLeaves ==
  ASSUME Resume
  PROVE  /\ Next /\ out' = out /\ at' \notin {"idle", "over"}
         /\ UNCHANGED <<slot, chat>> /\ prompt' = prompt /\ limit' = limit /\ method' = method
<1>1. Prefill \/ Return \/ StreamStep \/ Round
  BY DEF Resume
<1>2. UNCHANGED <<slot, chat>>
  BY DEF Resume
<1>3. CASE Prefill
  BY <1>2, <1>3 DEF Prefill, Next, Generate, call
<1>4. CASE Return
  BY <1>2, <1>4 DEF Return, Next, Generate, call
<1>5. CASE StreamStep
  BY <1>2, <1>5 DEF StreamStep, Next, Generate, call
<1>6. CASE Round
  <2>1. PICK q \in Proposals :
          DraftRound(q) \/ NgramRound(q) \/ AdaptiveRound(q) \/ OptimizedRound(q)
    BY <1>6 DEF Round
  <2>2. out' = out /\ at' = "emit" /\ UNCHANGED call
    BY <2>1 DEF DraftRound, NgramRound, AdaptiveRound, OptimizedRound
  <2> QED BY <1>2, <1>6, <2>2 DEF Next, Generate, call
<1> QED BY <1>1, <1>3, <1>4, <1>5, <1>6

LEMMA WorksKeeps == ASSUME SoundServer, SInv, Resume PROVE SInv'
<1>1. /\ Next /\ out' = out /\ at' \notin {"idle", "over"}
      /\ UNCHANGED <<slot, chat>>
  BY ResumeLeaves
<1>2. GInv'
  BY <1>1, NextGInv DEF SInv, SoundServer
<1>3. ServerTypeOK'
  BY <1>1, <1>2 DEF SInv, ServerTypeOK, GInv, slot, chat
<1>4. Slotted'
  BY <1>1 DEF Slotted
<1>5. Talk'
  BY <1>1, TalkStays DEF SInv
<1> QED BY <1>2, <1>3, <1>4, <1>5 DEF SInv

LEMMA DeliverKeeps == ASSUME SInv, Deliver PROVE SInv'
<1>1. GInv' /\ at' = "yielded" /\ UNCHANGED <<slot, stops>>
  BY EmitKeeps DEF SInv, Deliver, Emit
<1>2. /\ Talk' /\ shown' \in 0 .. Len(out')
      /\ reason' \in {"none", "stop", "length", "gone", "error"}
  BY DeliverTalks DEF SInv
<1>3. ServerTypeOK'
  BY <1>1, <1>2 DEF SInv, ServerTypeOK, GInv, slot
<1>4. Slotted'
  BY <1>1 DEF Slotted
<1> QED BY <1>1, <1>2, <1>3, <1>4 DEF SInv

LEMMA StayGInv ==
  ASSUME SoundServer, GInv, UNCHANGED gvars
  PROVE  GInv' /\ UNCHANGED <<prompt, limit, method, rest, kv, draft, out, pend, at>>
BY NextGInv DEF SoundServer, gvars, call, caches

LEMMA ExhaustedKeeps == ASSUME SoundServer, SInv, Exhausted PROVE SInv'
<1>1. /\ GInv' /\ out' = out /\ at' = at /\ at = "done"
      /\ UNCHANGED <<slot, stops>> /\ reason' = "length" /\ shown' = Len(out)
  BY StayGInv DEF SInv, Exhausted
<1>2. out \in Seq(Token) /\ Len(out) \in 0 .. Len(out)
  BY DEF SInv, GInv, TypeOK
<1>3. ServerTypeOK'
  BY <1>1, <1>2 DEF SInv, ServerTypeOK, GInv, slot
<1>4. Slotted'
  BY <1>1 DEF Slotted
<1>5. Talk'
  BY <1>1 DEF Talk, Released, Withheld, ExactText
<1> QED BY <1>1, <1>3, <1>4, <1>5 DEF SInv

LEMMA DisconnectKeeps == ASSUME SoundServer, SInv, Disconnect PROVE SInv'
<1>1. /\ GInv' /\ out' = out /\ at' = at /\ at = "yielded"
      /\ UNCHANGED <<slot, stops, shown>> /\ reason' = "gone"
  BY StayGInv DEF SInv, Disconnect
<1>2. ServerTypeOK'
  BY <1>1 DEF SInv, ServerTypeOK, GInv, slot
<1>3. Slotted'
  BY <1>1 DEF Slotted
<1>4. Talk'
  BY <1>1 DEF Talk, Released, Withheld, ExactText
<1> QED BY <1>1, <1>2, <1>3, <1>4 DEF SInv

\* The engine raises before any layer has been fed.
LEMMA FaultKeeps ==
  ASSUME SoundServer, SInv, NEW l \in FaultLayers, Fault(l)
  PROVE  SInv'
<1>1. l = 1
  BY DEF SoundServer
<1>2. /\ at = "prefill" \/ at = "yielded"
      /\ reason' = "error" /\ at' = "done"
      /\ UNCHANGED <<call, rest, draft, out, pend, adapt, slot, stops, shown>>
  BY DEF Fault
<1>3. /\ prompt' = prompt /\ limit' = limit /\ method' = method /\ rest' = rest
      /\ draft' = draft /\ out' = out /\ pend' = pend
      /\ k' = k /\ history' = history /\ since' = since
  BY <1>2 DEF call, adapt
<1>4. TypeOK /\ GInv
  BY DEF SInv, GInv
<1>5. kv' = kv
  <2>1. kv \in [Layer -> Seq(Token \cup {Lost})]
    BY <1>4 DEF TypeOK
  <2>2. \A j \in Layer : ~(j < 1)
    BY GenerationAssumption DEF Layer
  <2> DEFINE x == IF at = "prefill" THEN SubSeq(rest, 1, Lesser(Chunk, Len(rest)))
                  ELSE <<Last(out)>>
  <2>3. kv' = [j \in Layer |-> IF j < l THEN Fed(x)[j] ELSE kv[j]]
    BY DEF Fault
  <2> HIDE DEF x
  <2>4. kv' = [j \in Layer |-> kv[j]]
    BY <1>1, <2>2, <2>3
  <2> QED BY <2>1, <2>4
<1>6. TypeOK'
  BY <1>2, <1>3, <1>4, <1>5 DEF TypeOK
<1>7. Whole' = Whole /\ Correct(method, prompt, Whole)'
  BY <1>3, <1>4, WholeStays DEF GInv
<1>8. \E n \in 0 .. Len(Whole) : HoldIn(kv, SubSeq(Whole, 1, n))
  <2>1. prompt \in Seq(Token) /\ out \in Seq(Token) /\ pend \in Seq(Token)
    BY <1>4 DEF TypeOK
  <2>2. Whole \in Seq(Token) /\ Len(Whole) = Len(prompt) + Len(out) + Len(pend)
    BY <2>1, WholeIs DEF Whole
  <2>3. CASE at = "prefill"
    <3>1. PICK s \in Seq(Token) : prompt = s \o rest /\ HoldIn(kv, s)
      BY <1>4, <2>3 DEF GInv, Filling
    <3>2. out = <<>> /\ pend = <<>> /\ rest \in Seq(Token)
      BY <1>4, <2>3 DEF GInv, Filling, TypeOK
    <3>3. Whole = s \o rest
      BY <2>1, <3>1, <3>2, ConcatEmptySeq DEF Whole
    <3>4. Len(s) \in 0 .. Len(s) /\ Len(s) \in 0 .. Len(s \o rest)
      BY <3>1, <3>2
    <3>5. SubSeq(s \o rest, 1, Len(s)) = s
      BY <3>1, <3>2, <3>4, CutEarlier, SubSeqFull
    <3> QED BY <3>1, <3>3, <3>4, <3>5
  <2>4. CASE at = "yielded"
    <3>1. HoldIn(kv, SubSeq(Whole, 1, Len(Whole) - 1))
      BY <1>4, <2>4 DEF GInv, Between, Held
    <3>2. prompt # <<>>
      BY <1>4, <2>4 DEF GInv
    <3>3. Len(Whole) - 1 \in 0 .. Len(Whole)
      BY <2>1, <2>2, <3>2
    <3> QED BY <3>1, <3>3
  <2> QED BY <1>2, <2>3, <2>4
<1>9. Ending'
  BY <1>5, <1>7, <1>8 DEF Ending, HoldIn
<1>10. prompt # <<>>
  BY <1>2, <1>4 DEF GInv
<1>11. GInv'
  BY <1>2, <1>3, <1>6, <1>7, <1>9, <1>10 DEF GInv, Filling, Between, Emitting, Yielding
<1>12. ServerTypeOK'
  BY <1>2, <1>3, <1>6 DEF SInv, ServerTypeOK, slot
<1>13. Slotted'
  BY <1>2 DEF Slotted
<1>14. Talk'
  BY <1>2 DEF Talk, Released, Withheld, ExactText
<1> QED BY <1>11, <1>12, <1>13, <1>14 DEF SInv

------------------------------------------------------------------------------
(* The end of an answer. *)

LEMMA EndQuiet ==
  ASSUME SInv, UNCHANGED <<call, rest, draft, out, pend, adapt, chat>>, at' = "over",
         open' \in BOOLEAN, tokens' \in Seq(Token), Cells(kv'), HoldIn(kv', tokens')
  PROVE  SInv'
<1>1. /\ prompt' = prompt /\ limit' = limit /\ method' = method /\ rest' = rest
      /\ draft' = draft /\ out' = out /\ pend' = pend
      /\ k' = k /\ history' = history /\ since' = since
      /\ stops' = stops /\ shown' = shown /\ reason' = reason
  BY DEF call, adapt, chat
<1>2. TypeOK /\ Correct(method, prompt, Whole)
  BY DEF SInv, GInv
<1>3. TypeOK'
  BY <1>1, <1>2 DEF TypeOK, Cells, Row
<1>4. GInv'
  BY <1>1, <1>2, <1>3, WholeStays, Quiet
<1>5. ServerTypeOK'
  BY <1>1, <1>3 DEF SInv, ServerTypeOK
<1>6. Slotted'
  BY DEF Slotted, HoldIn
<1>7. Talk'
  BY TalkStays DEF SInv
<1> QED BY <1>4, <1>5, <1>6, <1>7 DEF SInv

\* A rollback leaves rows.
LEMMA RolledCells ==
  ASSUME NEW c, NEW s \in Seq(Token), HoldIn(c, s), Unrotated(Len(s)), NEW n \in 0 .. Len(s)
  PROVE  Cells(Rolled(c, n))
<1>1. HoldIn(Rolled(c, n), SubSeq(s, 1, Len(s) - n))
  BY RolledHolds
<1>2. SubSeq(s, 1, Len(s) - n) \in Seq(Token)
  <2>1. Len(s) - n \in 0 .. Len(s)
    OBVIOUS
  <2> QED BY <2>1, Cut
<1>3. \A l \in Layer : Rolled(c, n)[l] \in Seq(Row)
  BY <1>1, <1>2, HoldType
<1> QED BY <1>3 DEF Cells, Rolled

\* What a sequence of n tokens has not lost: the guard of a rollback.
LEMMA NotRotated ==
  ASSUME NEW n \in Nat, ~Rotated(n)
  PROVE  Unrotated(n)
<1>1. CASE n < Window
  BY <1>1, GenerationAssumption DEF Unrotated
<1>2. CASE ~(n < Window)
  <2>1. \A l \in Layer : Kind[l] # "window"
    BY <1>2, GenerationAssumption DEF Rotated
  <2>2. \A l \in Layer : Kind[l] \in {"full", "window"}
    BY GenerationAssumption DEF Layer
  <2> QED BY <2>1, <2>2 DEF Unrotated
<1> QED BY <1>1, <1>2

\* What the store holds when the generator has ended: a part of what it was given and
\* has said or was about to say.
LEMMA EndedHolds ==
  ASSUME GInv, Ended
  PROVE  \E n \in 0 .. Len(Whole) : HoldIn(kv, SubSeq(Whole, 1, n))
<1>1. CASE at = "done"
  BY <1>1 DEF GInv, Ending
<1>2. CASE at = "yielded"
  <2>1. HoldIn(kv, SubSeq(Whole, 1, Len(Whole) - 1)) /\ prompt # <<>>
    BY <1>2 DEF GInv, Between, Held
  <2>2. prompt \in Seq(Token) /\ out \in Seq(Token) /\ pend \in Seq(Token)
    BY DEF GInv, TypeOK
  <2>3. Whole \in Seq(Token) /\ Len(Whole) = Len(prompt) + Len(out) + Len(pend)
    BY <2>2, WholeIs DEF Whole
  <2>4. Len(Whole) - 1 \in 0 .. Len(Whole)
    BY <2>1, <2>2, <2>3
  <2> QED BY <2>1, <2>4
<1> QED BY <1>1, <1>2 DEF Ended

\* commit(): the claim is cut to what the store holds, or the store to the claim, or the
\* slot is emptied when the store cannot be cut.
LEMMA CommitHolds ==
  ASSUME SInv, Commit
  PROVE  /\ open' \in BOOLEAN /\ tokens' \in Seq(Token)
         /\ Cells(kv') /\ HoldIn(kv', tokens')
<1> DEFINE claim == prompt \o out
<1>1. /\ GInv /\ Cells(kv) /\ open \in BOOLEAN
      /\ prompt \in Seq(Token) /\ out \in Seq(Token) /\ pend \in Seq(Token)
  BY DEF SInv, ServerTypeOK, GInv, TypeOK, Cells, Row
<1>2. claim \in Seq(Token) /\ Whole = claim \o pend /\ Whole \in Seq(Token)
  BY <1>1, WholeIs DEF Whole
<1>3. PICK n \in 0 .. Len(Whole) : HoldIn(kv, SubSeq(Whole, 1, n))
  BY <1>1, EndedHolds DEF Commit
<1>4. PICK s \in Seq(Token) : s = SubSeq(Whole, 1, n)
  BY <1>2, Cut
<1>5. HoldIn(kv, s) /\ Len(s) = n /\ Rows = s
  BY <1>2, <1>3, <1>4, Cut, RowsAre
<1>6. Len(claim) \in Nat /\ n \in Nat
  BY <1>2
<1> HIDE DEF claim
<1>7. CASE n <= Len(claim)
  <2>1. tokens' = SubSeq(claim, 1, n) /\ open' = open /\ kv' = kv
    BY <1>5, <1>7 DEF Commit, claim
  <2>2. n \in 0 .. Len(claim)
    BY <1>6, <1>7
  <2>3. s = SubSeq(claim, 1, n)
    BY <1>1, <1>2, <1>4, <2>2, CutEarlier
  <2> QED BY <1>1, <1>4, <1>5, <2>1, <2>3
<1>8. CASE ~(n <= Len(claim)) /\ Rotated(n)
  <2>1. open' = FALSE /\ tokens' = <<>> /\ kv' = [l \in Layer |-> <<>>]
    BY <1>5, <1>8 DEF Commit, claim
  <2> QED BY <2>1, HoldNothing, EmptySeq
<1>9. CASE ~(n <= Len(claim)) /\ ~Rotated(n)
  <2>1. kv' = Rolled(kv, n - Len(claim)) /\ tokens' = claim /\ open' = open
    BY <1>5, <1>9 DEF Commit, claim
  <2>2. PICK m \in 0 .. Len(s) : m = n - Len(claim) /\ Len(s) - m = Len(claim)
    <3>1. n - Len(claim) \in 0 .. Len(s) /\ Len(s) - (n - Len(claim)) = Len(claim)
      BY <1>5, <1>6, <1>9
    <3> QED BY <3>1, Zenon
  <2>3. Unrotated(Len(s))
    BY <1>5, <1>6, <1>9, NotRotated
  <2>4. HoldIn(kv', SubSeq(s, 1, Len(claim))) /\ Cells(kv')
    <3>1. HoldIn(Rolled(kv, m), SubSeq(s, 1, Len(s) - m)) /\ Cells(Rolled(kv, m))
      BY <1>5, <2>3, RolledHolds, RolledCells
    <3> QED BY <2>1, <2>2, <3>1
  <2>5. SubSeq(s, 1, Len(claim)) = claim
    <3>1. Len(claim) \in 0 .. n /\ Len(claim) \in 0 .. Len(claim)
      BY <1>6, <1>9
    <3>2. SubSeq(s, 1, Len(claim)) = SubSeq(Whole, 1, Len(claim))
      BY <1>2, <1>4, <3>1, CutCut
    <3>3. SubSeq(Whole, 1, Len(claim)) = SubSeq(claim, 1, Len(claim))
      BY <1>1, <1>2, <3>1, CutEarlier
    <3> QED BY <1>2, <3>2, <3>3, SubSeqFull
  <2> QED BY <1>1, <1>2, <2>1, <2>4, <2>5
<1> QED BY <1>7, <1>8, <1>9

LEMMA FinishKeeps == ASSUME SInv, Finish PROVE SInv'
<1>1. CASE Commit
  <2>1. UNCHANGED <<call, rest, draft, out, pend, adapt, chat>> /\ at' = "over"
    BY <1>1 DEF Commit
  <2> QED BY <1>1, <2>1, CommitHolds, EndQuiet
<1>2. CASE Disposed
  <2>1. /\ UNCHANGED <<call, rest, draft, out, pend, adapt, chat>> /\ at' = "over"
        /\ open' = FALSE /\ tokens' = <<>> /\ kv' = [l \in Layer |-> <<>>]
    BY <1>2 DEF Disposed
  <2> QED BY <2>1, HoldNothing, EmptySeq, EndQuiet
<1> QED BY <1>1, <1>2 DEF Finish

------------------------------------------------------------------------------
(* Between answers. *)

\* No token of an answer is wrong when there is none.
LEMMA CorrectEmpty ==
  ASSUME NEW p \in Seq(Token), NEW meth
  PROVE  p \o <<>> \o <<>> = p /\ Correct(meth, p, p)
<1>1. p \o <<>> \o <<>> = p
  BY ConcatEmptySeq
<1>2. \A j \in Len(p) + 1 .. Len(p) : FALSE
  OBVIOUS
<1> QED BY <1>1, <1>2 DEF Correct

\* The history of acceptance rates and the sequences of a call start empty.
LEMMA EmptyType ==
  <<>> \in Seq(Token) /\ <<>> \in Seq(0 .. Scale) /\ Len(<<>>) = 0 /\ InitK \in MinK .. MaxK
BY GenerationAssumption, EmptySeq

LEMMA OverKeeps == ASSUME SInv, Over PROVE SInv'
<1>1. /\ at' = "idle" /\ prompt' = <<>> /\ limit' = 0
      /\ rest' = <<>> /\ draft' = <<>> /\ out' = <<>> /\ pend' = <<>>
      /\ k' = InitK /\ history' = <<>> /\ since' = 0 /\ Answer(<<>>)
      /\ method' = method /\ kv' = kv /\ open' = open /\ tokens' = tokens
      /\ at = "over"
  BY DEF Over, slot
<1>2. TypeOK'
  <2>1. method \in Methods /\ kv \in [Layer -> Seq(Token \cup {Lost})]
    BY DEF SInv, GInv, TypeOK
  <2>2. <<>> \in Seq(Token) /\ <<>> \in Seq(0 .. Scale) /\ InitK \in MinK .. MaxK
    BY EmptyType
  <2>3. 0 \in 0 .. MaxTokens /\ 0 \in Nat
    BY GenerationAssumption
  <2>4. PICK e \in Seq(Token) : e = <<>>
    BY <2>2
  <2>5. Len(e) <= 0
    BY <2>4
  <2>6. out' \in Seq(Token) /\ Len(out') <= limit'
    BY <1>1, <2>4, <2>5
  <2> QED BY <1>1, <2>1, <2>2, <2>3, <2>6 DEF TypeOK
<1>3. Correct(method, prompt, Whole)'
  BY <1>1, EmptyType, CorrectEmpty DEF Whole
<1>4. GInv'
  BY <1>1, <1>2, <1>3, Quiet
<1>5. ServerTypeOK'
  BY <1>1, <1>2, EmptyType DEF SInv, ServerTypeOK, Answer
<1>6. Slotted'
  BY <1>1 DEF SInv, Slotted, HoldIn
<1>7. Talk'
  BY <1>1, TalkStarts
<1> QED BY <1>4, <1>5, <1>6, <1>7 DEF SInv

\* shutdown_server empties the slot.
LEMMA ShutdownKeeps == ASSUME SInv, Shutdown PROVE SInv'
<1>1. /\ at' = "idle"
      /\ UNCHANGED <<call, rest, draft, out, pend, adapt, chat>>
      /\ open' = FALSE /\ tokens' = <<>> /\ kv' = [l \in Layer |-> <<>>]
  BY DEF Shutdown
<1>2. HoldIn(kv', tokens') /\ Cells(kv') /\ tokens' \in Seq(Token)
  BY <1>1, HoldNothing, EmptySeq
<1>3. /\ prompt' = prompt /\ limit' = limit /\ method' = method /\ rest' = rest
      /\ draft' = draft /\ out' = out /\ pend' = pend
      /\ k' = k /\ history' = history /\ since' = since
      /\ stops' = stops /\ shown' = shown /\ reason' = reason
  BY <1>1 DEF call, adapt, chat
<1>4. TypeOK'
  BY <1>1, <1>2, <1>3 DEF SInv, GInv, TypeOK, Cells, Row
<1>5. Correct(method, prompt, Whole)'
  BY <1>3, WholeStays DEF SInv, GInv
<1>6. GInv'
  BY <1>1, <1>4, <1>5, Quiet
<1>7. ServerTypeOK'
  BY <1>1, <1>2, <1>3, <1>4 DEF SInv, ServerTypeOK
<1>8. Slotted'
  BY <1>2 DEF Slotted, HoldIn
<1>9. Talk'
  BY <1>1, TalkStays DEF SInv
<1> QED BY <1>6, <1>7, <1>8, <1>9 DEF SInv

\* A request that is answered without the engine.
LEMMA AnsweredKeeps ==
  ASSUME SInv, at = "idle", at' = "over",
         UNCHANGED <<call, rest, caches, out, pend, adapt, slot, chat>>
  PROVE  SInv'
<1>1. /\ kv' = kv /\ draft' = draft /\ open' = open /\ tokens' = tokens
  BY DEF caches, slot
<1>2. open' \in BOOLEAN /\ tokens' \in Seq(Token) /\ Cells(kv')
  BY <1>1 DEF SInv, ServerTypeOK, GInv, TypeOK, Cells, Row
<1>3. HoldIn(kv', tokens')
  BY <1>1 DEF SInv, Slotted, HoldIn
<1> QED BY <1>1, <1>2, <1>3, EndQuiet

------------------------------------------------------------------------------
(* A new answer. *)

\* A request starts with its prompt cut in two: what the caches hold and the rest.
LEMMA StartKeeps ==
  ASSUME SInv, NEW p \in Seq(Token), p # <<>>, NEW n \in 1 .. MaxTokens, NEW S \in StopLists,
         prompt' = p, limit' = n, method' = method,
         draft' = <<>>, out' = <<>>, pend' = <<>>,
         k' = InitK, history' = <<>>, since' = 0,
         Answer(S), at' = "prefill", open' = TRUE,
         tokens' \in Seq(Token), rest' \in Seq(Token), rest' # <<>>,
         p = tokens' \o rest', Cells(kv'), HoldIn(kv', tokens')
  PROVE  SInv'
<1>1. n \in 0 .. MaxTokens /\ n >= 1 /\ 0 <= n
  BY GenerationAssumption
<1>2. TypeOK'
  BY <1>1, EmptyType DEF SInv, GInv, TypeOK, Cells, Row
<1>3. Correct(method, prompt, Whole)'
  BY CorrectEmpty DEF Whole
<1>4. Filling'
  BY <1>1 DEF Filling, HoldIn
<1>5. GInv'
  BY <1>2, <1>3, <1>4 DEF GInv, Between, Emitting, Yielding, Ending
<1>6. ServerTypeOK'
  BY <1>2, EmptyType DEF ServerTypeOK, Answer
<1>7. Slotted'
  BY DEF Slotted
<1>8. Talk'
  BY TalkStarts
<1> QED BY <1>5, <1>6, <1>7, <1>8 DEF SInv

LEMMA BeginKeeps ==
  ASSUME SInv, NEW p \in Prompts, NEW n \in 1 .. MaxTokens, NEW S \in StopLists,
         Begin(p, n, method, S)
  PROVE  SInv'
<1> DEFINE common == Lesser(CommonPrefixLen(tokens, p), Len(p) - 1)
           reuse  == open /\ common > 0 /\ ~Rotated(Len(tokens))
<1>1. /\ at = "idle" /\ open' = TRUE
      /\ prompt' = p /\ limit' = n /\ method' = method
      /\ draft' = <<>> /\ out' = <<>> /\ pend' = <<>>
      /\ k' = InitK /\ history' = <<>> /\ since' = 0
      /\ Answer(S) /\ at' = "prefill"
  BY DEF Begin
<1>2. p \in Seq(Token) /\ p # <<>> /\ Len(p) \in Nat /\ Len(p) >= 1
  BY GenerationAssumption
<1>3. tokens \in Seq(Token) /\ HoldIn(kv, tokens) /\ Len(tokens) \in Nat
  BY <1>1 DEF SInv, Slotted, ServerTypeOK
<1>4. CASE reuse
  <2>1. /\ kv' = Rolled(kv, Len(tokens) - common)
        /\ tokens' = SubSeq(tokens, 1, common)
        /\ rest' = SubSeq(p, common + 1, Len(p))
    BY <1>4 DEF Begin
  <2>2. PICK c \in 0 .. Len(tokens) :
          /\ c = CommonPrefixLen(tokens, p) /\ c \in 0 .. Len(p)
          /\ SubSeq(tokens, 1, c) = SubSeq(p, 1, c)
    BY <1>2, <1>3, CommonIs
  <2>3. common \in 0 .. c /\ common \in 0 .. Len(tokens) /\ common \in 0 .. Len(p)
        /\ common <= Len(p) - 1
    BY <1>2, <1>3, <1>4, <2>2 DEF Lesser
  <2>4. ~Rotated(Len(tokens))
    BY <1>4
  <2> HIDE DEF common, reuse
  <2>5. SubSeq(tokens, 1, common) = SubSeq(p, 1, common)
    BY <1>2, <1>3, <2>2, <2>3, CutCut
  <2>6. tokens' \in Seq(Token) /\ tokens' = SubSeq(p, 1, common)
    BY <1>3, <2>1, <2>3, <2>5, Cut
  <2>7. rest' \in Seq(Token) /\ rest' # <<>> /\ p = tokens' \o rest'
    <3>1. /\ SubSeq(p, common + 1, Len(p)) \in Seq(Token)
          /\ Len(SubSeq(p, common + 1, Len(p))) = Len(p) - common
          /\ SubSeq(p, 1, common) \o SubSeq(p, common + 1, Len(p)) = p
      BY <1>2, <2>3, CutApart
    <3>2. Len(rest') = Len(p) - common
      BY <2>1, <3>1, Zenon
    <3>3. Len(p) - common # 0
      BY <1>2, <2>3
    <3>4. Len(rest') # 0
      BY <3>2, <3>3, Zenon
    <3> QED BY <2>1, <2>6, <3>1, <3>4
  <2>8. PICK m \in 0 .. Len(tokens) : m = Len(tokens) - common /\ Len(tokens) - m = common
    <3>1. /\ Len(tokens) - common \in 0 .. Len(tokens)
          /\ Len(tokens) - (Len(tokens) - common) = common
      BY <1>3, <2>3
    <3> QED BY <3>1, Zenon
  <2>9. HoldIn(kv', tokens') /\ Cells(kv')
    <3>1. Unrotated(Len(tokens))
      BY <1>3, <2>4, NotRotated
    <3>2. HoldIn(Rolled(kv, m), SubSeq(tokens, 1, Len(tokens) - m)) /\ Cells(Rolled(kv, m))
      BY <1>3, <3>1, RolledHolds, RolledCells
    <3> QED BY <2>1, <2>8, <3>2
  <2> QED BY <1>1, <1>2, <2>6, <2>7, <2>9, StartKeeps
<1>5. CASE ~reuse
  <2>1. kv' = [l \in Layer |-> <<>>] /\ tokens' = <<>> /\ rest' = p
    BY <1>5 DEF Begin
  <2>2. HoldIn(kv', tokens') /\ Cells(kv') /\ tokens' \in Seq(Token)
    BY <2>1, HoldNothing, EmptySeq
  <2>3. p = tokens' \o rest'
    BY <1>2, <2>1, ConcatEmptySeq
  <2> QED BY <1>1, <1>2, <2>1, <2>2, <2>3, StartKeeps
<1> QED BY <1>4, <1>5

------------------------------------------------------------------------------
(* The theorems. *)

LEMMA ChatKeeps ==
  ASSUME SInv, NEW a, NEW s, NEW p \in Prompts, NEW n \in 1 .. MaxTokens,
         NEW S \in StopLists, Chat(a, s, p, n, S)
  PROVE  SInv'
<1>1. CASE lost'
  <2>1. /\ at = "idle" /\ at' = "over"
        /\ UNCHANGED <<call, rest, caches, out, pend, adapt, slot, chat>>
    BY <1>1 DEF Chat
  <2> QED BY <2>1, AnsweredKeeps
<1>2. CASE ~lost'
  <2>1. Begin(p, n, method, S)
    BY <1>2 DEF Chat
  <2> QED BY <2>1, BeginKeeps
<1> QED BY <1>1, <1>2

LEMMA AnswersKeeps == ASSUME SInv, NEW a, NEW f, Answers(a, f) PROVE SInv'
<1>1. /\ at = "idle" /\ at' = "over"
      /\ UNCHANGED <<call, rest, caches, out, pend, adapt, slot, chat>>
  BY DEF Answers
<1> QED BY <1>1, AnsweredKeeps

LEMMA StaysSInv == ASSUME SoundServer, SInv, UNCHANGED hvars PROVE SInv'
<1>1. /\ UNCHANGED gvars /\ UNCHANGED chat
      /\ open' = open /\ tokens' = tokens /\ stops' = stops /\ shown' = shown /\ reason' = reason
  BY DEF hvars, svars, slot, chat
<1>2. GInv' /\ kv' = kv /\ out' = out /\ at' = at
  BY <1>1, StayGInv DEF SInv
<1>3. ServerTypeOK'
  BY <1>1, <1>2 DEF SInv, ServerTypeOK, GInv
<1>4. Slotted'
  BY <1>1, <1>2 DEF SInv, Slotted, HoldIn
<1>5. Talk'
  BY <1>1, <1>2, TalkStays DEF SInv
<1> QED BY <1>2, <1>3, <1>4, <1>5 DEF SInv

LEMMA NextSInv == ASSUME SoundServer, SInv, [HttpNext]_hvars PROVE SInv'
<1>1. ASSUME Get PROVE SInv'
  BY <1>1, AnswersKeeps DEF Get
<1>2. ASSUME OpenAIChat PROVE SInv'
  BY <1>2, AnswersKeeps, ChatKeeps DEF OpenAIChat
<1>3. ASSUME AnthropicMessage PROVE SInv'
  BY <1>3, AnswersKeeps, ChatKeeps DEF AnthropicMessage
<1>4. ASSUME Works PROVE SInv'
  BY <1>4, WorksKeeps DEF Works
<1>5. ASSUME NextToken PROVE SInv'
  BY <1>5, DeliverKeeps DEF NextToken
<1>6. ASSUME NoMoreTokens PROVE SInv'
  BY <1>6, ExhaustedKeeps DEF NoMoreTokens
<1>7. ASSUME HangUp PROVE SInv'
  BY <1>7, DisconnectKeeps DEF HangUp
<1>8. ASSUME Finish PROVE SInv'
  BY <1>8, FinishKeeps
<1>9. ASSUME Over PROVE SInv'
  BY <1>9, OverKeeps
<1>10. ASSUME NEW l \in FaultLayers, Raised(l) PROVE SInv'
  BY <1>10, FaultKeeps DEF Raised
<1>11. ASSUME Shutdown PROVE SInv'
  BY <1>11, ShutdownKeeps
<1>12. \/ Get \/ OpenAIChat \/ AnthropicMessage \/ Works \/ NextToken \/ NoMoreTokens
       \/ HangUp \/ Finish \/ Over \/ (\E l \in FaultLayers : Raised(l)) \/ Shutdown
       \/ UNCHANGED hvars
  BY DEF HttpNext, Serving
<1> QED BY <1>1, <1>2, <1>3, <1>4, <1>5, <1>6, <1>7, <1>8, <1>9, <1>10, <1>11, <1>12, StaysSInv

LEMMA InitSInv == HttpInit => SInv
<1> SUFFICES ASSUME HttpInit PROVE SInv
  OBVIOUS
<1>1. /\ rest = <<>> /\ draft = <<>> /\ out = <<>> /\ pend = <<>>
      /\ k = InitK /\ history = <<>> /\ since = 0
      /\ prompt = <<>> /\ limit = 0 /\ method \in Methods
      /\ kv = [l \in Layer |-> <<>>] /\ at = "idle"
      /\ open = FALSE /\ tokens = <<>>
      /\ stops = <<>> /\ shown = 0 /\ reason = "none"
  BY DEF HttpInit, SInit, NoCall
<1>2. Cells(kv) /\ HoldIn(kv, tokens)
  BY <1>1, HoldNothing
<1>3. TypeOK
  BY <1>1, <1>2, EmptyType, GenerationAssumption DEF TypeOK, Cells, Row
<1>4. Correct(method, prompt, Whole)
  BY <1>1, EmptyType, CorrectEmpty DEF Whole
<1>5. GInv
  BY <1>1, <1>3, <1>4 DEF GInv, Filling, Between, Emitting, Yielding, Ending
<1>6. ServerTypeOK
  <2>1. shown \in 0 .. Len(out)
    BY <1>1, EmptyType
  <2>2. open \in BOOLEAN /\ tokens \in Seq(Token) /\ stops \in StopLists \cup {<<>>}
    BY <1>1, EmptyType
  <2> QED BY <1>1, <1>3, <2>1, <2>2 DEF ServerTypeOK
<1>7. Slotted
  BY <1>2 DEF Slotted
<1>8. Talk
  BY <1>1, EmptyType DEF Talk, Released, Withheld, ExactText
<1> QED BY <1>5, <1>6, <1>7, <1>8 DEF SInv

LEMMA AlwaysSInv == ASSUME SoundServer PROVE HttpSpec => []SInv
<1>1. SInv /\ [HttpNext]_hvars => SInv'
  BY NextSInv
<1> QED BY <1>1, InitSInv, PTL DEF HttpSpec

\* Every state of the server has its type, whatever requests come and whichever of
\* them end early: what was sent is never more than what was generated.
THEOREM ServerTypeCorrect == ASSUME SoundServer PROVE HttpSpec => []ServerTypeOK
<1>1. SInv => ServerTypeOK
  BY DEF SInv
<1> QED BY <1>1, AlwaysSInv, PTL

\* Between requests every layer of the store holds exactly the tokens the slot claims,
\* whichever way the last answer ended: exhausted, stopped in the middle of a round,
\* left by its client, or by an error of the engine (prefix_cache.py:71-74).
THEOREM SlotAlwaysHonest == ASSUME SoundServer PROVE HttpSpec => []SlotHonest
<1>1. SInv => SlotHonest
  BY DEF SInv, Slotted, SlotHonest, HoldIn, Holds
<1> QED BY <1>1, AlwaysSInv, PTL

\* An answer that starts from a reused prefix is, token for token, the answer that a
\* cold server would have given (prefix_cache.py:23-25).
THEOREM AlwaysAsIfCold ==
  ASSUME SoundServer, "fast" \notin Methods PROVE HttpSpec => []AsIfCold
<1>1. ASSUME SInv PROVE AsIfCold
  <2>1. /\ prompt \in Seq(Token) /\ out \in Seq(Token) /\ pend \in Seq(Token)
        /\ method # "fast" /\ Correct(method, prompt, Whole)
    BY <1>1 DEF SInv, GInv, TypeOK
  <2>2. Whole \in Seq(Token) /\ Len(Whole) = Len(prompt) + Len(out) + Len(pend)
    BY <2>1, WholeIs DEF Whole
  <2>3. Len(prompt) \in Nat /\ Len(out) \in Nat /\ Len(pend) \in Nat
    BY <2>1
  <2>4. PICK s \in Seq(Token) : s = prompt \o out /\ Len(s) = Len(prompt) + Len(out)
    BY <2>1, ConcatProperties
  <2>5. Whole = s \o pend
    BY <2>4 DEF Whole
  <2>6. ASSUME NEW i \in DOMAIN out PROVE out[i] = Argmax(prompt \o SubSeq(out, 1, i - 1))
    <3>1. i \in 1 .. Len(out)
      BY <2>1
    <3>2. PICK j \in Len(prompt) + 1 .. Len(Whole) : j = Len(prompt) + i
      <4>1. Len(prompt) + i \in Len(prompt) + 1 .. Len(Whole)
        BY <2>2, <2>3, <3>1
      <4> QED BY <4>1, Zenon
    <3>3. Whole[j] = Argmax(SubSeq(Whole, 1, j - 1))
      BY <2>1, <3>2 DEF Correct, Chosen
    <3>4. PICK m \in 0 .. Len(out) : m = i - 1
      <4>1. i - 1 \in 0 .. Len(out)
        BY <2>3, <3>1
      <4> QED BY <4>1, Zenon
    <3>5. j - 1 = Len(prompt) + m /\ Len(prompt) + m \in 0 .. Len(s)
      BY <2>3, <2>4, <3>2, <3>4
    <3>6. SubSeq(Whole, 1, j - 1) = SubSeq(s, 1, Len(prompt) + m)
      BY <2>1, <2>4, <2>5, <3>5, CutEarlier
    <3>7. SubSeq(s, 1, Len(prompt) + m) = prompt \o SubSeq(out, 1, m)
      BY <2>1, <2>4, CutLater
    <3>8. Whole[j] = out[i]
      <4>1. j \in 1 .. Len(s)
        BY <2>3, <2>4, <3>1, <3>2
      <4>2. Whole[j] = s[j]
        BY <2>1, <2>4, <2>5, <4>1, ConcatProperties
      <4>3. s[j] = out[i]
        <5>1. j - Len(prompt) = i /\ j > Len(prompt) /\ j \in 1 .. Len(prompt) + Len(out)
          BY <2>3, <2>4, <3>1, <3>2, <4>1
        <5> QED BY <2>1, <2>4, <5>1, ConcatProperties
      <4> QED BY <4>2, <4>3
    <3> QED BY <3>3, <3>4, <3>6, <3>7, <3>8
  <2> QED BY <2>6 DEF AsIfCold
<1>2. SInv => AsIfCold
  BY <1>1
<1> QED BY <1>2, AlwaysSInv, PTL

\* The client is sent the exact text: no part of a stop sequence that ended the answer,
\* not even before the sequence was complete, and everything else, but for what could
\* have been the start of one when the text ended (server.py:61-66, 72-76, 103-110).
THEOREM AlwaysExactText == ASSUME SoundServer PROVE HttpSpec => []ExactText
<1>1. SInv => ExactText
  BY DEF SInv, Talk
<1> QED BY <1>1, AlwaysSInv, PTL

------------------------------------------------------------------------------
(* What is on the wire. *)

Kinds ==
  {"headers", "message_start", "content_block_start", "text", "finish", "[DONE]",
   "content_block_stop", "message_delta", "message_stop", "ping", "response",
   "models", "400", "404"}
Reasons   == {"none", "stop", "length", "gone", "error"}
AnyFrame  == [kind : Kinds, text : Nat, reason : Reasons]
TextFrame == [kind : {"text"}, text : Nat, reason : {"none"}]

\* t is text in order, all that was released as long as the client is there.
Worded(t) ==
  /\ t \in Seq(TextFrame)
  /\ ~request.streaming => t = <<>>
  /\ \A i \in 1 .. Len(t) - 1 : t[i].text < t[i + 1].text
  /\ \A i \in 1 .. Len(t) : t[i].text <= shown
  /\ request.streaming /\ ~lost /\ shown > 0 => t # <<>> /\ t[Len(t)].text = shown

\* The answer is under way; it is over, with its closing or the part of it that could
\* be written; it never began; the request was no chat.
Telling == \E t \in Seq(TextFrame) : Worded(t) /\ wire = Opening(request) \o t
Told ==
  \E t \in Seq(TextFrame) :
  \E n \in 0 .. Len(Closing(request, reason, shown)) :
    /\ Worded(t)
    /\ n > 0 => reason \in {"stop", "length"}
    /\ reason \in {"stop", "length"} /\ ~lost => n = Len(Closing(request, reason, shown))
    /\ wire = Opening(request) \o t \o SubSeq(Closing(request, reason, shown), 1, n)
Unopened ==
  /\ lost
  /\ \E n \in 0 .. Len(Opening(request)) - 1 : wire = SubSeq(Opening(request), 1, n)
Short ==
  /\ ~request.streaming /\ shown = 0 /\ reason = "none"
  /\ wire = <<>> \/ \E f \in {"models", "400", "404"} : wire = <<Plain(f)>>

Wired ==
  /\ request \in [api : {"openai", "anthropic"}, streaming : BOOLEAN]
  /\ at = "idle" => wire = <<>> /\ shown = 0 /\ reason = "none"
  /\ at \notin {"idle", "over"} => Telling
  /\ at = "over" => Told \/ Unopened \/ Short

LEMMA FramesAre ==
  ASSUME NEW q \in [api : {"openai", "anthropic"}, streaming : BOOLEAN],
         NEW r \in Reasons, NEW n \in Nat
  PROVE  /\ Opening(q) \in Seq(AnyFrame) /\ Closing(q, r, n) \in Seq(AnyFrame)
         /\ ~q.streaming => Opening(q) = <<>>
<1>1. ASSUME NEW f \in Kinds, NEW m \in Nat, NEW s \in Reasons
      PROVE  Frame(f, m, s) \in AnyFrame
  BY DEF Frame, AnyFrame
<1>2. ASSUME NEW f \in Kinds PROVE Plain(f) \in AnyFrame
  BY <1>1 DEF Plain, Reasons
<1>3. OpenAIOpening \in Seq(AnyFrame) /\ AnthropicOpening \in Seq(AnyFrame)
  <2>1. /\ Plain("headers") \in AnyFrame /\ Plain("message_start") \in AnyFrame
        /\ Plain("content_block_start") \in AnyFrame
    BY <1>2 DEF Kinds
  <2> QED BY <2>1 DEF OpenAIOpening, AnthropicOpening
<1>4. OpenAIClosing(r) \in Seq(AnyFrame) /\ AnthropicClosing(r) \in Seq(AnyFrame)
  <2>1. /\ Plain("[DONE]") \in AnyFrame /\ Plain("content_block_stop") \in AnyFrame
        /\ Plain("message_stop") \in AnyFrame /\ Plain("ping") \in AnyFrame
    BY <1>2 DEF Kinds
  <2>2. Frame("finish", 0, r) \in AnyFrame /\ Frame("message_delta", 0, r) \in AnyFrame
    BY <1>1 DEF Kinds
  <2> QED BY <2>1, <2>2 DEF OpenAIClosing, AnthropicClosing
<1>5. Response(r, n) \in Seq(AnyFrame)
  <2>1. Frame("response", n, r) \in AnyFrame
    BY <1>1 DEF Kinds
  <2> QED BY <2>1 DEF Response
<1>6. <<>> \in Seq(AnyFrame)
  BY EmptySeq
<1> QED BY <1>3, <1>4, <1>5, <1>6 DEF Opening, Closing

LEMMA TextsAreFrames == ASSUME NEW t \in Seq(TextFrame) PROVE t \in Seq(AnyFrame)
<1>1. TextFrame \subseteq AnyFrame
  BY DEF TextFrame, AnyFrame, Kinds, Reasons
<1> QED BY <1>1

\* Three sequences in a row, the last one cut.
LEMMA Splice ==
  ASSUME NEW S, NEW a \in Seq(S), NEW b \in Seq(S), NEW c \in Seq(S),
         NEW n \in 0 .. Len(c), NEW w, w = a \o b \o SubSeq(c, 1, n)
  PROVE  /\ Len(w) = Len(a) + Len(b) + n
         /\ SubSeq(w, Len(a) + 1, Len(a) + Len(b)) = b
         /\ IsPrefix(w, a \o b \o c)
<1> DEFINE ab == a \o b
<1>1. Len(a) \in Nat /\ Len(b) \in Nat /\ Len(c) \in Nat /\ n \in Nat
  OBVIOUS
<1>2. /\ ab \in Seq(S) /\ Len(ab) = Len(a) + Len(b)
      /\ \A i \in 1 .. Len(a) + Len(b) :
           ab[i] = IF i <= Len(a) THEN a[i] ELSE b[i - Len(a)]
  BY ConcatProperties
<1>3. SubSeq(c, 1, n) \in Seq(S) /\ Len(SubSeq(c, 1, n)) = n
  BY Cut
<1> HIDE DEF ab
<1>4. w = ab \o SubSeq(c, 1, n)
  BY DEF ab
<1>5. /\ w \in Seq(S) /\ Len(w) = Len(ab) + n
      /\ \A i \in 1 .. Len(ab) + n :
           w[i] = IF i <= Len(ab) THEN ab[i] ELSE SubSeq(c, 1, n)[i - Len(ab)]
  <2> DEFINE d == SubSeq(c, 1, n)
  <2>1. d \in Seq(S) /\ Len(d) = n /\ w = ab \o d
    BY <1>3, <1>4
  <2> HIDE DEF d
  <2>2. /\ ab \o d \in Seq(S) /\ Len(ab \o d) = Len(ab) + Len(d)
        /\ \A i \in 1 .. Len(ab) + Len(d) :
             (ab \o d)[i] = IF i <= Len(ab) THEN ab[i] ELSE d[i - Len(ab)]
    <3>1. ab \in Seq(S) /\ d \in Seq(S)
      BY <1>2, <2>1, Zenon
    <3> QED BY <3>1, ConcatProperties
  <2>3. /\ w \in Seq(S) /\ Len(w) = Len(ab) + n
        /\ \A i \in 1 .. Len(ab) + n :
             w[i] = IF i <= Len(ab) THEN ab[i] ELSE d[i - Len(ab)]
    BY <2>1, <2>2, Zenon
  <2> QED BY <2>3, Zenon DEF d
<1>6. SubSeq(w, Len(a) + 1, Len(a) + Len(b)) = b
  <2>1. \A i \in 1 .. Len(b) : w[Len(a) + i] = b[i]
    <3> SUFFICES ASSUME NEW i \in 1 .. Len(b) PROVE w[Len(a) + i] = b[i]
      OBVIOUS
    <3>1. /\ Len(a) + i \in 1 .. Len(a) + Len(b) /\ ~(Len(a) + i <= Len(a))
          /\ Len(a) + i - Len(a) = i
          /\ Len(a) + i \in 1 .. Len(ab) + n /\ Len(a) + i <= Len(ab)
      BY <1>1, <1>2
    <3>2. w[Len(a) + i] = ab[Len(a) + i]
      BY <1>5, <3>1
    <3>3. ab[Len(a) + i] = b[i]
      BY <1>2, <3>1
    <3> QED BY <3>2, <3>3
  <2>2. /\ Len(a) + 1 \in 1 .. Len(w) + 1 /\ Len(a) + Len(b) \in Len(a) .. Len(w)
        /\ Len(a) + Len(b) - (Len(a) + 1) + 1 = Len(b)
    BY <1>1, <1>2, <1>5
  <2>3. SubSeq(w, Len(a) + 1, Len(a) + Len(b)) = [i \in 1 .. Len(b) |-> w[Len(a) + 1 + i - 1]]
    BY <1>1, <1>5, <2>2
  <2>4. \A i \in 1 .. Len(b) : Len(a) + 1 + i - 1 = Len(a) + i
    BY <1>1
  <2>5. b = [i \in 1 .. Len(b) |-> b[i]]
    OBVIOUS
  <2> QED BY <2>1, <2>3, <2>4, <2>5
<1>7. SubSeq(ab \o c, 1, Len(w)) = w
  <2>1. SubSeq(ab \o c, 1, Len(ab) + n) = ab \o SubSeq(c, 1, n)
    BY <1>2, <1>4, CutLater
  <2> QED BY <1>4, <1>5, <2>1
<1>8. Len(w) <= Len(ab \o c) /\ SubSeq(w, 1, Len(w)) = w
  <2>1. Len(ab \o c) = Len(ab) + Len(c)
    BY <1>2, ConcatProperties
  <2>2. SubSeq(w, 1, Len(w)) = w
    BY <1>5
  <2> QED BY <1>1, <1>2, <1>5, <2>1, <2>2
<1> QED BY <1>1, <1>2, <1>5, <1>6, <1>7, <1>8 DEF IsPrefix, ab

\* What any of these leaves on the wire is a part of a whole answer.
LEMMA BegunWhole ==
  ASSUME request \in [api : {"openai", "anthropic"}, streaming : BOOLEAN],
         shown \in Nat, reason \in Reasons,
         NEW n \in 0 .. Len(Opening(request)), wire = SubSeq(Opening(request), 1, n),
         ~request.streaming \/ lost \/ shown = 0,
         ~(at = "over" /\ reason \in {"stop", "length"} /\ ~lost)
  PROVE  AnswerWhole
<1> DEFINE O == Opening(request)
           C == IF reason \in {"stop", "length"} THEN Closing(request, reason, shown) ELSE <<>>
<1>1. O \in Seq(AnyFrame) /\ C \in Seq(AnyFrame) /\ Len(O) \in Nat /\ Len(C) \in Nat
  <2>1. /\ O \in Seq(AnyFrame) /\ Closing(request, reason, shown) \in Seq(AnyFrame)
        /\ <<>> \in Seq(AnyFrame)
    BY FramesAre, EmptySeq
  <2>2. C \in Seq(AnyFrame)
    BY <2>1
  <2> QED BY <2>1, <2>2, LenProperties
<1> HIDE DEF O, C
<1>2. wire \in Seq(AnyFrame) /\ Len(wire) = n /\ n \in Nat /\ n <= Len(O)
  BY <1>1, Cut DEF O
<1>3. O \o C \in Seq(AnyFrame) /\ Len(O \o C) = Len(O) + Len(C)
  BY <1>1, ConcatProperties
<1>4. SubSeq(wire, Len(O) + 1, Len(O) + 0) = <<>>
  BY <1>1, <1>2, SubSeqEmpty
<1>5. O \o <<>> = O
  BY <1>1, ConcatEmptySeq
<1>6. IsPrefix(wire, O \o <<>> \o C)
  <2>1. SubSeq(O \o C, 1, n) = SubSeq(O, 1, n)
    BY <1>1, CutEarlier DEF O
  <2>2. SubSeq(wire, 1, Len(wire)) = wire
    BY <1>2
  <2>3. Len(wire) <= Len(O \o C)
    BY <1>1, <1>2, <1>3
  <2>4. wire = SubSeq(O, 1, n)
    BY DEF O
  <2>5. IsPrefix(wire, O \o C)
    BY <1>2, <2>1, <2>2, <2>3, <2>4 DEF IsPrefix
  <2> QED BY <1>5, <2>5
<1>7. 0 \in 0 .. Greater(0, Len(wire) - Len(O))
  BY <1>1, <1>2 DEF Greater
<1>8. ~(Len(wire) > Len(O) + 0)
  BY <1>1, <1>2
<1>9. ~(request.streaming /\ ~lost /\ shown > 0)
  OBVIOUS
<1>10. \E m \in 0 .. Greater(0, Len(wire) - Len(O)) :
         LET texts == SubSeq(wire, Len(O) + 1, Len(O) + m) IN
         /\ \A i \in 1 .. m : texts[i].kind = "text"
         /\ IsPrefix(wire, O \o texts \o C)
         /\ \A i \in 1 .. m - 1 : texts[i].text < texts[i + 1].text
         /\ request.streaming /\ ~lost /\ shown > 0 => m > 0 /\ texts[m].text = shown
         /\ Len(wire) > Len(O) + m => at = "over" /\ reason \in {"stop", "length"}
         /\ at = "over" /\ reason \in {"stop", "length"} /\ ~lost => wire = O \o texts \o C
  <2> WITNESS 0 \in 0 .. Greater(0, Len(wire) - Len(O))
  <2>1. \A i \in 1 .. 0 : FALSE
    OBVIOUS
  <2>2. \A i \in 1 .. 0 - 1 : FALSE
    OBVIOUS
  <2> QED BY <1>4, <1>6, <1>8, <1>9, <2>1, <2>2, Zenon
<1> QED BY <1>10, Zenon DEF AnswerWhole, O, C

LEMMA ToldWhole ==
  ASSUME request \in [api : {"openai", "anthropic"}, streaming : BOOLEAN],
         shown \in Nat, reason \in Reasons, NEW t \in Seq(TextFrame), Worded(t),
         NEW n \in 0 .. Len(Closing(request, reason, shown)),
         n > 0 => at = "over" /\ reason \in {"stop", "length"},
         at = "over" /\ reason \in {"stop", "length"} /\ ~lost =>
           n = Len(Closing(request, reason, shown)),
         wire = Opening(request) \o t \o SubSeq(Closing(request, reason, shown), 1, n)
  PROVE  AnswerWhole
<1> DEFINE O == Opening(request)
           D == Closing(request, reason, shown)
           C == IF reason \in {"stop", "length"} THEN D ELSE <<>>
           w == O \o t \o SubSeq(C, 1, n)
<1>1. /\ O \in Seq(AnyFrame) /\ D \in Seq(AnyFrame) /\ t \in Seq(AnyFrame)
      /\ <<>> \in Seq(AnyFrame)
  BY FramesAre, TextsAreFrames, EmptySeq
<1>2. C \in Seq(AnyFrame) /\ n \in 0 .. Len(C) /\ SubSeq(C, 1, n) = SubSeq(D, 1, n)
  <2>1. CASE reason \in {"stop", "length"}
    BY <1>1, <2>1
  <2>2. CASE reason \notin {"stop", "length"}
    <3>1. C = <<>> /\ n = 0
      <4>1. Len(D) \in Nat
        BY <1>1
      <4> QED BY <2>2, <4>1
    <3>2. SubSeq(D, 1, 0) = <<>> /\ SubSeq(<<>>, 1, 0) = <<>>
      BY <1>1, SubSeqEmpty
    <3> QED BY <1>1, <3>1, <3>2
  <2> QED BY <2>1, <2>2
<1>3. wire = w /\ (at = "over" /\ reason \in {"stop", "length"} /\ ~lost => wire = O \o t \o C)
  <2>1. ASSUME reason \in {"stop", "length"}, n = Len(D) PROVE wire = O \o t \o C
    <3>1. SubSeq(D, 1, n) = D /\ C = D
      BY <1>1, <2>1, SubSeqFull
    <3> QED BY <3>1
  <2> QED BY <1>2, <2>1
<1>4. Len(O) \in Nat /\ Len(t) \in Nat /\ n \in Nat
  BY <1>1
<1> HIDE DEF O, D, C, w
<1>5. /\ Len(wire) = Len(O) + Len(t) + n
      /\ SubSeq(wire, Len(O) + 1, Len(O) + Len(t)) = t
      /\ IsPrefix(wire, O \o t \o C)
  <2>1. wire = O \o t \o SubSeq(C, 1, n)
    BY <1>3 DEF w
  <2> QED BY <1>1, <1>2, <2>1, Splice
<1>6. Len(t) \in 0 .. Greater(0, Len(wire) - Len(O))
  BY <1>4, <1>5 DEF Greater
<1>7. \A i \in 1 .. Len(t) : t[i].kind = "text"
  <2>1. \A i \in 1 .. Len(t) : t[i] \in TextFrame
    BY ElementOfSeq
  <2> QED BY <2>1 DEF TextFrame
<1>8. /\ \A i \in 1 .. Len(t) - 1 : t[i].text < t[i + 1].text
      /\ request.streaming /\ ~lost /\ shown > 0 => Len(t) > 0 /\ t[Len(t)].text = shown
  <2>1. t # <<>> => Len(t) > 0
    BY <1>4, EmptySeq
  <2> QED BY <2>1 DEF Worded
<1>9. Len(wire) > Len(O) + Len(t) => at = "over" /\ reason \in {"stop", "length"}
  BY <1>4, <1>5
<1>10. \E m \in 0 .. Greater(0, Len(wire) - Len(O)) :
         LET texts == SubSeq(wire, Len(O) + 1, Len(O) + m) IN
         /\ \A i \in 1 .. m : texts[i].kind = "text"
         /\ IsPrefix(wire, O \o texts \o C)
         /\ \A i \in 1 .. m - 1 : texts[i].text < texts[i + 1].text
         /\ request.streaming /\ ~lost /\ shown > 0 => m > 0 /\ texts[m].text = shown
         /\ Len(wire) > Len(O) + m => at = "over" /\ reason \in {"stop", "length"}
         /\ at = "over" /\ reason \in {"stop", "length"} /\ ~lost => wire = O \o texts \o C
  <2> WITNESS Len(t) \in 0 .. Greater(0, Len(wire) - Len(O))
  <2> QED BY <1>3, <1>5, <1>7, <1>8, <1>9, Zenon
<1> QED BY <1>10, Zenon DEF AnswerWhole, O, C, D

LEMMA WiredWhole == ASSUME ServerTypeOK, Wired PROVE AnswerWhole
<1> DEFINE Api == [api : {"openai", "anthropic"}, streaming : BOOLEAN]
           O == Opening(request)
           D == Closing(request, reason, shown)
<1>1. request \in Api /\ shown \in Nat /\ reason \in Reasons
  <2>1. out \in Seq(Token) /\ shown \in 0 .. Len(out)
    BY DEF ServerTypeOK, TypeOK
  <2> QED BY <2>1 DEF ServerTypeOK, Wired, Reasons
<1>2. /\ O \in Seq(AnyFrame) /\ D \in Seq(AnyFrame)
      /\ Len(O) \in Nat /\ Len(D) \in Nat /\ 0 \in 0 .. Len(O) /\ 0 \in 0 .. Len(D)
  BY <1>1, FramesAre
<1>3. SubSeq(O, 1, 0) = <<>> /\ SubSeq(D, 1, 0) = <<>>
  BY <1>2, SubSeqEmpty
<1>4. ASSUME wire = <<>>, ~request.streaming \/ shown = 0,
             ~(at = "over" /\ reason \in {"stop", "length"} /\ ~lost)
      PROVE  AnswerWhole
  BY <1>1, <1>2, <1>3, <1>4, BegunWhole
<1>5. CASE at = "idle"
  BY <1>4, <1>5 DEF Wired
<1>6. CASE at \notin {"idle", "over"}
  <2>1. PICK t \in Seq(TextFrame) : Worded(t) /\ wire = O \o t
    BY <1>6 DEF Wired, Telling
  <2>2. wire = O \o t \o SubSeq(D, 1, 0)
    <3>1. O \o t \in Seq(AnyFrame)
      <4>1. t \in Seq(AnyFrame)
        BY TextsAreFrames
      <4>2. O \in Seq(AnyFrame)
        BY <1>2
      <4> HIDE DEF O
      <4> QED BY <4>1, <4>2, ConcatProperties
    <3>2. (O \o t) \o <<>> = O \o t
      BY <3>1, ConcatEmptySeq
    <3> QED BY <1>3, <2>1, <3>2
  <2>3. 0 > 0 => at = "over" /\ reason \in {"stop", "length"}
    OBVIOUS
  <2>4. at # "over"
    BY <1>6
  <2> QED BY <1>1, <1>2, <2>1, <2>2, <2>3, <2>4, ToldWhole
<1>7. CASE at = "over" /\ Told
  BY <1>1, <1>7, ToldWhole DEF Told
<1>8. CASE at = "over" /\ Unopened
  <2>1. PICK n \in 0 .. Len(O) - 1 : wire = SubSeq(O, 1, n)
    BY <1>8 DEF Unopened
  <2>2. n \in 0 .. Len(O) /\ lost
    BY <1>2, <1>8 DEF Unopened
  <2> QED BY <1>1, <2>1, <2>2, BegunWhole
<1>9. CASE at = "over" /\ Short
  <2>1. CASE wire = <<>>
    BY <1>4, <1>9, <2>1 DEF Short
  <2>2. CASE \E f \in {"models", "400", "404"} : wire = <<Plain(f)>>
    <3>1. PICK f \in {"models", "400", "404"} : wire = <<Plain(f)>>
      BY <2>2
    <3>2. wire # <<>> /\ wire[1].kind = f
      BY <3>1 DEF Plain, Frame
    <3> QED BY <3>2 DEF AnswerWhole
  <2> QED BY <1>9, <2>1, <2>2 DEF Short
<1> QED BY <1>5, <1>6, <1>7, <1>8, <1>9 DEF Wired

\* Nothing is said; a write may fail.
LEMMA WordedStays ==
  ASSUME NEW t, Worded(t), UNCHANGED <<request, shown>>, ~lost' => ~lost
  PROVE  Worded(t)'
BY DEF Worded

LEMMA OneFrame ==
  ASSUME NEW S, NEW f \in S
  PROVE  <<f>> \in Seq(S) /\ SubSeq(<<f>>, 1, 1) = <<f>>
<1>1. <<f>> \in Seq(S) /\ Len(<<f>>) = 1
  OBVIOUS
<1>2. SubSeq(<<f>>, 1, Len(<<f>>)) = <<f>>
  BY <1>1, SubSeqFull
<1> QED BY <1>1, <1>2

\* The release of text and its frame are one step.
LEMMA SegmentTells ==
  ASSUME request \in [api : {"openai", "anthropic"}, streaming : BOOLEAN],
         Telling, ~lost, UNCHANGED request, Segment,
         shown \in Nat, shown' \in Nat, shown <= shown'
  PROVE  Telling'
<1> DEFINE O == Opening(request)
<1>0. PICK f : f = Frame("text", shown', "none")
  OBVIOUS
<1>1. PICK t \in Seq(TextFrame) : Worded(t) /\ wire = O \o t
  BY DEF Telling
<1>2. O \in Seq(AnyFrame) /\ t \in Seq(AnyFrame) /\ Len(t) \in Nat /\ Opening(request') = O
  <2>1. "none" \in Reasons
    BY DEF Reasons
  <2> QED BY <2>1, FramesAre, TextsAreFrames
<1>3. \A i \in 1 .. Len(t) : t[i].text <= shown /\ t[i].text \in Nat
  <2>1. \A i \in 1 .. Len(t) : t[i] \in TextFrame
    BY ElementOfSeq
  <2> QED BY <1>1, <2>1 DEF Worded, TextFrame
<1>4. f \in TextFrame /\ f.text = shown'
  BY <1>0 DEF Frame, TextFrame
<1>5. TextFrame \subseteq AnyFrame
  BY DEF TextFrame, AnyFrame, Kinds, Reasons
<1>6. \A i \in 1 .. Len(t) : t[i].text <= shown'
  BY <1>3
<1>7. CASE ~(request.streaming /\ shown' > shown)
  <2>1. wire' = wire /\ lost' = lost
    BY <1>7 DEF Segment
  <2>2. Worded(t)'
    <3>1. request.streaming => shown' = shown
      BY <1>7
    <3> QED BY <1>1, <1>6, <2>1, <3>1 DEF Worded
  <2> QED BY <1>1, <1>2, <2>1, <2>2 DEF Telling
<1>8. CASE request.streaming /\ shown' > shown
  <2> HIDE DEF O
  <2>1. PICK n \in 0 .. 1 : wire' = wire \o SubSeq(<<f>>, 1, n) /\ lost' = (n < 1)
    <3>1. Writes(wire, <<f>>)
      BY <1>0, <1>8 DEF Segment
    <3>2. Len(<<f>>) = 1
      OBVIOUS
    <3> QED BY <3>1, <3>2 DEF Writes
  <2>2. CASE n = 0
    <3>1. wire' = wire
      <4>1. SubSeq(<<f>>, 1, 0) = <<>>
        BY <1>4, SubSeqEmpty
      <4>2. O \o t \in Seq(AnyFrame)
        BY <1>2, ConcatProperties
      <4>3. (O \o t) \o <<>> = O \o t
        BY <4>2, ConcatEmptySeq
      <4> QED BY <1>1, <2>1, <2>2, <4>1, <4>3 DEF O
    <3>2. lost'
      <4>1. n < 1
        BY <2>2
      <4> QED BY <2>1, <4>1, Zenon
    <3>3. Worded(t)'
      BY <1>1, <1>6, <3>2 DEF Worded
    <3> QED BY <1>1, <1>2, <3>1, <3>3 DEF Telling, O
  <2>3. CASE n = 1
    <3> DEFINE u == Append(t, f)
    <3>1. /\ u \in Seq(TextFrame) /\ Len(u) = Len(t) + 1 /\ u # <<>>
          /\ \A i \in 1 .. Len(t) : u[i] = t[i]
          /\ u[Len(t) + 1] = f
      <4>1. u \in Seq(TextFrame) /\ Len(u) = Len(t) + 1
        BY <1>4, AppendProperties
      <4>2. /\ \A i \in 1 .. Len(t) : u[i] = t[i]
            /\ u[Len(t) + 1] = f
        BY <1>4, AppendProperties
      <4>3. Len(u) # 0
        BY <1>2, <4>1
      <4> QED BY <4>1, <4>2, <4>3, EmptySeq
    <3> HIDE DEF u
    <3>2. wire' = O \o u
      <4>1. <<f>> \in Seq(AnyFrame) /\ SubSeq(<<f>>, 1, 1) = <<f>>
        <5>1. f \in AnyFrame
          BY <1>4, <1>5
        <5> QED BY <5>1, OneFrame
      <4>2. u = t \o <<f>>
        BY <1>4, AppendIsConcat DEF u
      <4>3. (O \o t) \o <<f>> = O \o (t \o <<f>>)
        BY <1>2, <4>1, ConcatAssociative
      <4> QED BY <1>1, <2>1, <2>3, <4>1, <4>2, <4>3 DEF O
    <3>3. \A i \in 1 .. Len(u) : u[i].text <= shown'
      <4> SUFFICES ASSUME NEW i \in 1 .. Len(u) PROVE u[i].text <= shown'
        OBVIOUS
      <4>1. CASE i = Len(t) + 1
        BY <1>4, <3>1, <4>1
      <4>2. CASE i \in 1 .. Len(t)
        BY <1>6, <3>1, <4>2
      <4> QED BY <1>2, <3>1, <4>1, <4>2
    <3>4. \A i \in 1 .. Len(u) - 1 : u[i].text < u[i + 1].text
      <4> SUFFICES ASSUME NEW i \in 1 .. Len(u) - 1 PROVE u[i].text < u[i + 1].text
        OBVIOUS
      <4>1. i \in 1 .. Len(t) /\ u[i] = t[i]
        BY <1>2, <3>1
      <4>2. CASE i = Len(t)
        <5>1. u[i + 1].text = shown'
          BY <1>4, <3>1, <4>2
        <5>2. t[i].text <= shown /\ t[i].text \in Nat
          BY <1>3, <4>1
        <5> QED BY <1>8, <4>1, <5>1, <5>2
      <4>3. CASE i # Len(t)
        <5>1. i + 1 \in 1 .. Len(t) /\ i \in 1 .. Len(t) - 1
          BY <1>2, <4>1, <4>3
        <5> QED BY <1>1, <3>1, <4>1, <5>1 DEF Worded
      <4> QED BY <4>2, <4>3
    <3>5. u[Len(u)].text = shown'
      BY <1>4, <3>1
    <3>6. Worded(u)'
      <4>1. request' = request
        OBVIOUS
      <4>2. request'.streaming
        BY <1>8, <4>1
      <4> QED BY <3>1, <3>3, <3>4, <3>5, <4>2, Zenon DEF Worded
    <3>7. wire' = Opening(request') \o u
      BY <1>2, <3>2 DEF O
    <3> QED BY <3>1, <3>6, <3>7 DEF Telling
  <2> QED BY <2>1, <2>2, <2>3
<1> QED BY <1>7, <1>8

\* What a chat does between two frames.
LEMMA QuietTells ==
  ASSUME Wired, at \notin {"idle", "over"}, at' \notin {"idle", "over"},
         UNCHANGED <<request, wire, lost, shown>>
  PROVE  Wired'
<1>1. PICK t \in Seq(TextFrame) : Worded(t) /\ wire = Opening(request) \o t
  BY DEF Wired, Telling
<1>2. Worded(t)'
  BY <1>1, WordedStays
<1>3. wire' = Opening(request') \o t
  BY <1>1
<1>4. Telling'
  BY <1>2, <1>3 DEF Telling
<1> QED BY <1>4 DEF Wired

LEMMA ResumeFrom == ASSUME Resume PROVE at \in {"prefill", "yielded"}
<1>1. CASE Prefill \/ Return \/ StreamStep
  BY <1>1 DEF Prefill, Return, StreamStep
<1>2. CASE Round
  BY <1>2 DEF Round, DraftRound, NgramRound, AdaptiveRound, OptimizedRound, NextRound
<1> QED BY <1>1, <1>2 DEF Resume

LEMMA ShownType ==
  ASSUME ServerTypeOK
  PROVE  /\ shown \in Nat /\ Len(out) \in Nat /\ shown <= Len(out) /\ reason \in Reasons
BY DEF ServerTypeOK, TypeOK, Reasons

\* A token only releases text.
LEMMA DeliverShows == ASSUME ServerTypeOK, Deliver PROVE shown <= shown'
<1>1. shown \in Nat /\ Len(out) \in Nat /\ shown <= Len(out) /\ Len(out') = Len(out) + 1
  BY ShownType, DeliverOut
<1>2. CASE shown' = shown \/ shown' = Len(out')
  BY <1>1, <1>2
<1>3. CASE /\ StopAt(out') # 0
           /\ shown' = Greater(shown, Len(out') - Len(stops[StopAt(out')]))
  <2>1. StopAt(out') \in DOMAIN stops
    BY <1>3, StopsAre, StopAtIs
  <2>2. PICK n \in Nat : n = Len(stops[StopAt(out')])
    <3>1. stops[StopAt(out')] \in Seq(Token)
      BY <2>1, StopsAre
    <3>2. Len(stops[StopAt(out')]) \in Nat
      BY <3>1
    <3> QED BY <3>2, Zenon
  <2>3. shown' = Greater(shown, Len(out') - n)
    BY <1>3, <2>2, Zenon
  <2> QED BY <1>1, <2>3 DEF Greater
<1> QED BY <1>2, <1>3 DEF Deliver

LEMMA DeliverWires == ASSUME ServerTypeOK, ServerTypeOK', Wired, NextToken PROVE Wired'
<1>1. /\ ~lost /\ Deliver /\ Segment /\ request' = request
  BY DEF NextToken
<1>2. at \in {"emit", "yielded"} /\ at' = "yielded"
  BY <1>1 DEF Deliver, Emit
<1>3. shown \in Nat /\ shown' \in Nat /\ shown <= shown'
  <2>1. shown' \in Nat
    BY DEF ServerTypeOK
  <2> QED BY <1>1, <2>1, ShownType, DeliverShows
<1>4. Telling'
  BY <1>1, <1>2, <1>3, SegmentTells DEF Wired
<1> QED BY <1>1, <1>2, <1>4 DEF Wired

LEMMA ExhaustedWires == ASSUME ServerTypeOK, Wired, NoMoreTokens PROVE Wired'
<1>1. /\ ~lost /\ Exhausted /\ Segment /\ request' = request
  BY DEF NoMoreTokens
<1>2. at = "done" /\ at' = "done" /\ shown' = Len(out)
  BY <1>1 DEF Exhausted, gvars
<1>3. shown \in Nat /\ shown' \in Nat /\ shown <= shown'
  BY <1>2, ShownType
<1>4. Telling'
  BY <1>1, <1>2, <1>3, SegmentTells DEF Wired
<1> QED BY <1>1, <1>2, <1>4 DEF Wired

\* The answer ends, with as much of its closing as could be written.
LEMMA FinishWires == ASSUME ServerTypeOK, Wired, Finish PROVE Wired'
<1> DEFINE O == Opening(request)
           D == Closing(request, reason, shown)
<1>1. /\ at \in {"yielded", "done"} /\ at' = "over" /\ UNCHANGED <<chat, request>>
  BY DEF Finish, Commit, Disposed, Ended
<1>2. shown' = shown /\ reason' = reason /\ request' = request
  BY <1>1 DEF chat
<1>3. PICK t \in Seq(TextFrame) : Worded(t) /\ wire = O \o t
  BY <1>1 DEF Wired, Telling
<1>4. /\ O \in Seq(AnyFrame) /\ D \in Seq(AnyFrame) /\ Len(D) \in Nat /\ t \in Seq(AnyFrame)
  BY FramesAre, ShownType, TextsAreFrames DEF Wired
<1>5. Closing(request', reason', shown') = D /\ Opening(request') = O
  BY <1>2
<1> HIDE DEF O, D
<1>6. CASE ~lost /\ reason \in {"stop", "length"}
  <2>1. PICK n \in 0 .. Len(D) :
          wire' = wire \o SubSeq(D, 1, n) /\ lost' = (n < Len(D))
    BY <1>6 DEF Finish, Writes, D
  <2>2. Worded(t)'
    BY <1>2, <1>3, <1>6, WordedStays
  <2>3. wire' = O \o t \o SubSeq(D, 1, n)
    BY <1>3, <2>1
  <2>4. n \in 0 .. Len(Closing(request', reason', shown'))
    BY <1>5
  <2>5. ~lost' => n = Len(Closing(request', reason', shown'))
    <3>1. ~(n < Len(D)) => n = Len(D)
      BY <1>4
    <3> QED BY <1>5, <2>1, <3>1, Zenon
  <2>6. Told'
    BY <1>2, <1>5, <1>6, <2>2, <2>3, <2>4, <2>5, Zenon DEF Told
  <2> QED BY <1>1, <1>2, <2>6 DEF Wired
<1>7. CASE ~(~lost /\ reason \in {"stop", "length"})
  <2>1. wire' = wire /\ lost' = lost
    BY <1>7 DEF Finish
  <2>2. Worded(t)'
    BY <1>2, <1>3, <2>1, WordedStays
  <2>3. 0 \in 0 .. Len(Closing(request', reason', shown')) /\ ~(0 > 0)
    BY <1>4, <1>5
  <2>4. wire' = O \o t \o SubSeq(D, 1, 0)
    <3>1. SubSeq(D, 1, 0) = <<>>
      BY <1>4, SubSeqEmpty
    <3>2. O \o t \in Seq(AnyFrame)
      BY <1>4, ConcatProperties
    <3>3. (O \o t) \o <<>> = O \o t
      BY <3>2, ConcatEmptySeq
    <3> QED BY <1>3, <2>1, <3>1, <3>3
  <2>5. Told'
    BY <1>2, <1>5, <1>7, <2>1, <2>2, <2>3, <2>4, Zenon DEF Told
  <2> QED BY <1>1, <1>2, <2>5 DEF Wired
<1> QED BY <1>6, <1>7

\* The first frames of a chat.
LEMMA ChatWires ==
  ASSUME Wired, NEW a \in {"openai", "anthropic"}, NEW s \in BOOLEAN,
         NEW p \in Prompts, NEW n \in 1 .. MaxTokens,
         NEW S \in StopLists, Chat(a, s, p, n, S)
  PROVE  Wired'
<1>1. PICK q \in [api : {"openai", "anthropic"}, streaming : BOOLEAN] :
        q = [api |-> a, streaming |-> s]
  OBVIOUS
<1>2. request' = q
  BY <1>1 DEF Chat
<1>3. PICK m \in 0 .. Len(Opening(q)) :
        wire' = <<>> \o SubSeq(Opening(q), 1, m) /\ lost' = (m < Len(Opening(q)))
  BY <1>1 DEF Chat, Writes
<1>4. Opening(q) \in Seq(AnyFrame) /\ Len(Opening(q)) \in Nat
  <2>1. "none" \in Reasons /\ 0 \in Nat
    BY DEF Reasons
  <2> QED BY <2>1, FramesAre
<1>5. wire' = SubSeq(Opening(q), 1, m)
  <2>1. SubSeq(Opening(q), 1, m) \in Seq(AnyFrame)
    BY <1>4, Cut
  <2> QED BY <1>3, <2>1, ConcatEmptySeq
<1>6. CASE m < Len(Opening(q))
  <2>1. lost'
    BY <1>3, <1>6, Zenon
  <2>2. at' = "over"
    BY <2>1 DEF Chat
  <2>3. m \in 0 .. Len(Opening(q)) - 1
    BY <1>4, <1>6
  <2>4. Unopened'
    BY <1>2, <1>5, <2>1, <2>3 DEF Unopened
  <2> QED BY <1>2, <2>2, <2>4 DEF Wired
<1>7. CASE ~(m < Len(Opening(q)))
  <2>1. ~lost'
    BY <1>3, <1>7, Zenon
  <2>2. at' = "prefill" /\ shown' = 0
    BY <2>1 DEF Chat, Begin, Answer
  <2>3. m = Len(Opening(q))
    BY <1>4, <1>7
  <2>4. wire' = Opening(q) \o <<>>
    BY <1>4, <1>5, <2>3, SubSeqFull, ConcatEmptySeq
  <2>5. <<>> \in Seq(TextFrame) /\ Len(<<>>) = 0
    BY EmptySeq
  <2>6. Worded(<<>>)'
    BY <2>2, <2>5 DEF Worded
  <2>7. Telling'
    BY <1>2, <2>4, <2>5, <2>6 DEF Telling
  <2> QED BY <1>2, <2>2, <2>7 DEF Wired
<1> QED BY <1>6, <1>7

LEMMA AnswersWires ==
  ASSUME Wired, NEW a \in {"openai", "anthropic"}, NEW f \in {"models", "400", "404"},
         Answers(a, f)
  PROVE  Wired'
<1>1. /\ at = "idle" /\ at' = "over" /\ shown' = shown /\ reason' = reason
      /\ request' = [api |-> a, streaming |-> FALSE]
  BY DEF Answers, chat
<1>2. Plain(f) \in AnyFrame
  BY DEF Plain, Frame, AnyFrame, Kinds, Reasons
<1>3. PICK m \in 0 .. 1 : wire' = <<>> \o SubSeq(<<Plain(f)>>, 1, m)
  <2>1. Len(<<Plain(f)>>) = 1
    OBVIOUS
  <2> QED BY <2>1 DEF Answers, Writes
<1>4. wire' = <<>> \/ wire' = <<Plain(f)>>
  <2>1. SubSeq(<<Plain(f)>>, 1, 1) = <<Plain(f)>> /\ <<Plain(f)>> \in Seq(AnyFrame)
    BY <1>2, OneFrame
  <2>2. SubSeq(<<Plain(f)>>, 1, 0) = <<>>
    BY <2>1, SubSeqEmpty
  <2>3. <<>> \o <<Plain(f)>> = <<Plain(f)>> /\ <<>> \o <<>> = <<>>
    BY <2>1, EmptySeq, ConcatEmptySeq
  <2>4. m = 0 \/ m = 1
    OBVIOUS
  <2> QED BY <1>3, <2>1, <2>2, <2>3, <2>4
<1>5. shown' = 0 /\ reason' = "none" /\ ~request'.streaming
  BY <1>1 DEF Wired
<1>6. Short'
  BY <1>4, <1>5 DEF Short
<1>7. request' \in [api : {"openai", "anthropic"}, streaming : BOOLEAN]
  BY <1>1
<1> QED BY <1>1, <1>6, <1>7 DEF Wired

LEMMA StaysWired == ASSUME Wired, UNCHANGED <<request, wire, lost, at, shown, reason>> PROVE Wired'
BY DEF Wired, Told, Telling, Unopened, Short, Worded

LEMMA NextWired ==
  ASSUME ServerTypeOK, ServerTypeOK', Wired, [HttpNext]_hvars
  PROVE  Wired'
<1>1. ASSUME Get PROVE Wired'
  BY <1>1, AnswersWires DEF Get
<1>2. ASSUME OpenAIChat PROVE Wired'
  BY <1>2, AnswersWires, ChatWires DEF OpenAIChat
<1>3. ASSUME AnthropicMessage PROVE Wired'
  BY <1>3, AnswersWires, ChatWires DEF AnthropicMessage
<1>4. ASSUME Works PROVE Wired'
  <2>1. at \notin {"idle", "over"} /\ at' \notin {"idle", "over"}
    BY <1>4, ResumeFrom, ResumeLeaves DEF Works
  <2>2. UNCHANGED <<request, wire, lost, shown>>
    BY <1>4, ResumeLeaves DEF Works, chat
  <2> QED BY <2>1, <2>2, QuietTells
<1>5. ASSUME NextToken PROVE Wired'
  BY <1>5, DeliverWires
<1>6. ASSUME NoMoreTokens PROVE Wired'
  BY <1>6, ExhaustedWires
<1>7. ASSUME HangUp PROVE Wired'
  <2>1. at = "yielded" /\ at' = "yielded" /\ UNCHANGED <<request, wire, lost, shown>>
    BY <1>7 DEF HangUp, Disconnect, gvars
  <2> QED BY <2>1, QuietTells
<1>8. ASSUME NEW l \in FaultLayers, Raised(l) PROVE Wired'
  <2>1. at \in {"prefill", "yielded"} /\ at' = "done" /\ UNCHANGED <<request, wire, lost, shown>>
    BY <1>8 DEF Raised, Fault
  <2> QED BY <2>1, QuietTells
<1>9. ASSUME Finish PROVE Wired'
  BY <1>9, FinishWires
<1>10. ASSUME Over PROVE Wired'
  <2>1. at' = "idle" /\ wire' = <<>> /\ shown' = 0 /\ reason' = "none" /\ request' = Idle
    BY <1>10 DEF Over, Answer
  <2> QED BY <2>1 DEF Wired, Idle
<1>11. CASE Shutdown \/ UNCHANGED hvars
  <2>1. UNCHANGED <<request, wire, lost, at, shown, reason>>
    BY <1>11 DEF Shutdown, hvars, svars, gvars, chat
  <2> QED BY <2>1, StaysWired
<1> QED BY <1>1, <1>2, <1>3, <1>4, <1>5, <1>6, <1>7, <1>8, <1>9, <1>10, <1>11
        DEF HttpNext, Serving

\* A client can trust the end of an answer: what is on the wire is the opening, the
\* released text in order and the closing of its API, cut only where a write failed; no
\* answer is closed that did not come to its end, and one that did is there with its
\* closing unless a write failed (server.py:522-546, 571-600).
THEOREM AlwaysAnswerWhole == ASSUME SoundServer PROVE HttpSpec => []AnswerWhole
<1>1. HttpInit => Wired
  BY DEF HttpInit, SInit, Wired, Idle
<1>2. SInv => ServerTypeOK
  BY DEF SInv
<1>3. SInv /\ SInv' /\ Wired /\ [HttpNext]_hvars => Wired'
  BY <1>2, NextWired DEF SInv
<1>4. SInv /\ Wired => AnswerWhole
  BY <1>2, WiredWhole
<1> QED BY <1>1, <1>3, <1>4, AlwaysSInv, PTL DEF HttpSpec
=============================================================================
