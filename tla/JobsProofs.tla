------------------------------ MODULE JobsProofs ------------------------------
(***************************************************************************)
(* Theorems of Jobs, for any jobs, names, keys, batch size and errors.     *)
(***************************************************************************)
EXTENDS Jobs, FiniteSetTheorems, SequenceTheorems, WellFoundedInduction, TLAPS

Held == ToSet(worker.todo) \cup ToSet(worker.kept)

Among(ops) == worker.op \in ops

\* What waits is the tail of the puts after the first n; the first n have been
\* taken, and a job among them that is still queued is in the worker's hands.
TakenUpTo(n) ==
  /\ Len(Waiting) = Len(puts) - n
  /\ \A i \in 1 .. Len(puts) - n : Waiting[i] = puts[n + i]
  /\ \A i \in n + 1 .. Len(puts) : puts[i] # Stop => status[puts[i]] = "queued"
  /\ \A j \in Held : \E i \in 1 .. n : puts[i] = j
  /\ \A i \in 1 .. n :
       puts[i] # Stop /\ status[puts[i]] = "queued" /\ worker.op # "dead" => puts[i] \in Held

\* The jobs of a request are put in their order.
InTurn ==
  \A q \in 1 .. Len(puts) : \A i \in Job :
    Behind(i, puts[q]) => \E p \in 1 .. q - 1 : puts[p] = i

Line ==
  /\ \E n \in 0 .. Len(puts) : TakenUpTo(n)
  /\ \A j \in Job : j \in ToSet(puts) => status[j] # "new"

\* What the worker holds at each of its steps.
Shape ==
  /\ Among({"top", "pause", "get", "exited", "dead"}) =>
       worker.todo = <<>> /\ worker.kept = <<>>
  /\ Among({"group", "dispatch", "batch", "decode"}) =>
       worker.todo = <<>> /\ worker.kept # <<>>
  /\ Among({"run", "tokens", "last"}) => worker.todo # <<>> /\ worker.kept = <<>>
  /\ Among({"fanout"}) => worker.todo # <<>> /\ ToSet(worker.todo) \subseteq ToSet(worker.kept)
  /\ IsInjective(worker.todo) /\ IsInjective(worker.kept)
  /\ ~Among({"fanout"}) =>
       /\ ToSet(worker.todo) \cap ToSet(worker.kept) = {}
       /\ Len(worker.todo) + Len(worker.kept) <= MaxBatch

\* And the statuses of what it holds.
Statuses ==
  /\ Among({"group", "dispatch", "stage1", "stage2", "batch"}) =>
       \A j \in Held : status[j] = "queued"
  /\ Among({"decode"}) => \A j \in Held : status[j] = "running"
  /\ Among({"fanout"}) =>
       /\ \A j \in ToSet(worker.todo) : status[j] = "running"
       /\ \A j \in Held : status[j] # "queued"
  /\ Among({"tokens", "last"}) => status[Head(worker.todo)] = "running"
  /\ Among({"run", "tokens", "last"}) =>
       \A i \in 2 .. Len(worker.todo) : status[worker.todo[i]] # "queued"

\* The last token has come of a job that nobody had cancelled while it waited.
Early ==
  /\ CancelHonoured
  /\ worker.op = "last" => Head(worker.todo) \notin early

\* No job is held that has ended, as long as handing out a result does not raise.
Alive ==
  "fanout" \notin Faults =>
    /\ \A j \in ToSet(worker.todo) : status[j] \in {"queued", "running"}
    /\ ~Among({"fanout"}) => \A j \in Held : status[j] \in {"queued", "running"}

\* A group has one key, and can be batched.
OneKey ==
  Among({"group", "dispatch", "stage1", "stage2", "batch", "decode"}) =>
    \A i, j \in Held : Key[i] = Key[j] /\ Key[i] # Alone

\* Jobs that may share a batch have files of different names.
NamesDiffer ==
  \A i, j \in Job : i # j /\ Key[i] = Key[j] /\ Key[i] # Alone => Name[i] # Name[j]

\* No two jobs have chosen one file, and who has ended well has one.
Outputs ==
  /\ \A i, j \in Job : i # j /\ out[i] = out[j] => out[i] = NoFile
  /\ \A j \in Job : status[j] = "done" => out[j] # NoFile
  /\ Among({"tokens", "last"}) => out[Head(worker.todo)] # NoFile
  /\ Among({"fanout"}) => \A j \in ToSet(worker.todo) : out[j] # NoFile

IInv ==
  /\ TypeOK /\ IsFiniteSet(files)
  /\ Line /\ InTurn /\ Shape /\ Statuses /\ Early /\ Alive /\ OneKey

------------------------------------------------------------------------------
(* Sequences. *)

LEMMA ToSetType ==
  ASSUME NEW S, NEW s \in Seq(S)
  PROVE  /\ ToSet(s) \subseteq S /\ \A i \in 1 .. Len(s) : s[i] \in ToSet(s)
         /\ \A x \in ToSet(s) : \E i \in 1 .. Len(s) : s[i] = x
         /\ s # <<>> <=> ToSet(s) # {}
         /\ Len(s) \in Nat /\ DOMAIN s = 1 .. Len(s)
<1>1. Len(s) \in Nat /\ DOMAIN s = 1 .. Len(s) /\ \A i \in 1 .. Len(s) : s[i] \in S
  BY LenProperties
<1>2. s # <<>> => Len(s) >= 1
  BY EmptySeq
<1>3. s = <<>> => Len(s) = 0
  BY EmptySeq
<1> QED
  BY <1>1, <1>2, <1>3 DEF ToSet

LEMMA HeadTail ==
  ASSUME NEW S, NEW s \in Seq(S), s # <<>>
  PROVE  /\ Head(s) \in S /\ Tail(s) \in Seq(S) /\ Head(s) = s[1]
         /\ Len(s) \in Nat \ {0} /\ Len(Tail(s)) = Len(s) - 1
         /\ \A i \in 1 .. Len(Tail(s)) : Tail(s)[i] = s[i + 1]
         /\ ToSet(s) = {Head(s)} \cup ToSet(Tail(s))
         /\ IsInjective(s) => IsInjective(Tail(s)) /\ Head(s) \notin ToSet(Tail(s))
<1>1. /\ Head(s) \in S /\ Tail(s) \in Seq(S) /\ Head(s) = s[1]
      /\ Len(s) \in Nat \ {0} /\ Len(Tail(s)) = Len(s) - 1
      /\ \A i \in 1 .. Len(Tail(s)) : Tail(s)[i] = s[i + 1]
  BY HeadTailProperties, EmptySeq
<1>2. DOMAIN s = 1 .. Len(s) /\ DOMAIN Tail(s) = 1 .. Len(s) - 1
  BY <1>1, LenProperties
<1>3. ToSet(s) = {Head(s)} \cup ToSet(Tail(s))
  <2>1. ASSUME NEW x \in ToSet(s) PROVE x = Head(s) \/ x \in ToSet(Tail(s))
    <3>1. PICK i \in 1 .. Len(s) : s[i] = x
      BY <1>2, <2>1 DEF ToSet
    <3>2. CASE i = 1
      BY <1>1, <3>1, <3>2
    <3>3. CASE i # 1
      <4>1. i - 1 \in 1 .. Len(s) - 1 /\ Tail(s)[i - 1] = x
        BY <1>1, <3>1, <3>3
      <4> QED
        BY <1>2, <4>1 DEF ToSet
    <3> QED
      BY <3>2, <3>3
  <2>2. Head(s) \in ToSet(s)
    BY <1>1, <1>2 DEF ToSet
  <2>3. ASSUME NEW x \in ToSet(Tail(s)) PROVE x \in ToSet(s)
    <3>1. PICK i \in 1 .. Len(s) - 1 : Tail(s)[i] = x
      BY <1>2, <2>3 DEF ToSet
    <3>2. i + 1 \in 1 .. Len(s) /\ s[i + 1] = x
      BY <1>1, <3>1
    <3> QED
      BY <1>2, <3>2 DEF ToSet
  <2> QED
    BY <2>1, <2>2, <2>3
<1>4. ASSUME IsInjective(s) PROVE IsInjective(Tail(s)) /\ Head(s) \notin ToSet(Tail(s))
  <2>1. ASSUME NEW i \in 1 .. Len(s) - 1, NEW j \in 1 .. Len(s) - 1, Tail(s)[i] = Tail(s)[j]
        PROVE  i = j
    <3>1. i + 1 = j + 1
      BY <1>1, <1>2, <1>4, <2>1 DEF IsInjective
    <3> QED
      BY <3>1
  <2>2. ASSUME NEW i \in 1 .. Len(s) - 1, Tail(s)[i] = Head(s) PROVE FALSE
    <3>1. i + 1 = 1
      BY <1>1, <1>2, <1>4, <2>2 DEF IsInjective
    <3> QED
      BY <3>1
  <2> QED
    BY <1>2, <2>1, <2>2 DEF IsInjective, ToSet
<1> QED
  BY <1>1, <1>3, <1>4

LEMMA AppendOne ==
  ASSUME NEW S, NEW s \in Seq(S), NEW e \in S
  PROVE  /\ Append(s, e) \in Seq(S) /\ Len(Append(s, e)) = Len(s) + 1
         /\ \A i \in 1 .. Len(s) : Append(s, e)[i] = s[i]
         /\ Append(s, e)[Len(s) + 1] = e /\ Append(s, e) # <<>>
         /\ ToSet(Append(s, e)) = ToSet(s) \cup {e}
         /\ IsInjective(s) /\ e \notin ToSet(s) => IsInjective(Append(s, e))
<1>1. /\ Append(s, e) \in Seq(S) /\ Len(Append(s, e)) = Len(s) + 1
      /\ \A i \in 1 .. Len(s) : Append(s, e)[i] = s[i]
      /\ Append(s, e)[Len(s) + 1] = e /\ Append(s, e) # <<>>
  BY AppendProperties
<1>2. /\ Len(s) \in Nat /\ DOMAIN s = 1 .. Len(s)
      /\ DOMAIN Append(s, e) = 1 .. Len(s) + 1
  BY <1>1, LenProperties
<1>3. ToSet(Append(s, e)) = ToSet(s) \cup {e}
  <2>1. ASSUME NEW x \in ToSet(Append(s, e)) PROVE x \in ToSet(s) \cup {e}
    BY <1>1, <1>2, <2>1 DEF ToSet
  <2>2. ASSUME NEW x \in ToSet(s) PROVE x \in ToSet(Append(s, e))
    BY <1>1, <1>2, <2>2 DEF ToSet
  <2>3. e \in ToSet(Append(s, e))
    BY <1>1, <1>2 DEF ToSet
  <2> QED
    BY <2>1, <2>2, <2>3
<1>4. ASSUME IsInjective(s), e \notin ToSet(s) PROVE IsInjective(Append(s, e))
  BY <1>1, <1>2, <1>4 DEF IsInjective, ToSet
<1> QED
  BY <1>1, <1>3, <1>4

LEMMA SingleOne ==
  ASSUME NEW S, NEW e \in S
  PROVE  /\ <<e>> \in Seq(S) /\ Len(<<e>>) = 1 /\ <<e>> # <<>> /\ ToSet(<<e>>) = {e}
         /\ IsInjective(<<e>>) /\ Head(<<e>>) = e
BY DEF ToSet, IsInjective

LEMMA EmptyOne ==
  /\ \A S : <<>> \in Seq(S)
  /\ Len(<<>>) = 0 /\ ToSet(<<>>) = {} /\ IsInjective(<<>>)
BY DEF ToSet, IsInjective

------------------------------------------------------------------------------
(* What waits, and what the worker holds. *)

LEMMA Types ==
  ASSUME TypeOK
  PROVE  /\ puts \in Seq(Job \cup {Stop}) /\ queue \in Seq(Job \cup {Stop}) /\ peeked \in Seq(Job)
         /\ Waiting \in Seq(Job \cup {Stop})
         /\ Len(Waiting) = Len(peeked) + Len(queue)
         /\ worker.todo \in Seq(Job) /\ worker.kept \in Seq(Job) /\ Held \subseteq Job
         /\ worker \in [op : Ops, todo : Seq(Job), kept : Seq(Job)]
<1>1. /\ puts \in Seq(Job \cup {Stop}) /\ queue \in Seq(Job \cup {Stop}) /\ peeked \in Seq(Job)
      /\ worker \in [op : Ops, todo : Seq(Job), kept : Seq(Job)]
  BY DEF TypeOK
<1>2. peeked \in Seq(Job \cup {Stop})
  BY <1>1, SeqMonotonic
<1>3. Waiting \in Seq(Job \cup {Stop}) /\ Len(Waiting) = Len(peeked) + Len(queue)
  BY <1>1, <1>2, ConcatProperties DEF Waiting
<1>4. Held \subseteq Job
  BY <1>1, ToSetType DEF Held
<1> QED
  BY <1>1, <1>3, <1>4

\* Taking from the peeked buffer, or else from the queue, takes the first that waits.
LEMMA PoppedEffect ==
  ASSUME TypeOK, Waiting # <<>>, Popped
  PROVE  /\ Waiting' = Tail(Waiting)
         /\ queue' \in Seq(Job \cup {Stop}) /\ peeked' \in Seq(Job)
<1>1. peeked \in Seq(Job) /\ queue \in Seq(Job \cup {Stop})
  BY DEF TypeOK
<1>2. CASE peeked # <<>>
  <2>1. peeked' = Tail(peeked) /\ queue' = queue
    BY <1>2 DEF Popped
  <2>2. peeked \in Seq(Job \cup {Stop}) /\ Tail(peeked) \in Seq(Job \cup {Stop})
        /\ Tail(peeked) \in Seq(Job) /\ Len(peeked) \in Nat \ {0}
        /\ Len(Tail(peeked)) = Len(peeked) - 1
        /\ \A i \in 1 .. Len(peeked) - 1 : Tail(peeked)[i] = peeked[i + 1]
    BY <1>1, <1>2, SeqMonotonic, HeadTail
  <2>3. /\ Waiting \in Seq(Job \cup {Stop}) /\ Len(Waiting) = Len(peeked) + Len(queue)
        /\ \A i \in 1 .. Len(peeked) + Len(queue) :
             Waiting[i] = IF i <= Len(peeked) THEN peeked[i] ELSE queue[i - Len(peeked)]
    BY <1>1, <2>2, ConcatProperties DEF Waiting
  <2>4. /\ Waiting' \in Seq(Job \cup {Stop})
        /\ Len(Waiting') = Len(peeked) - 1 + Len(queue)
        /\ \A i \in 1 .. Len(peeked) - 1 + Len(queue) :
             Waiting'[i] = IF i <= Len(peeked) - 1 THEN Tail(peeked)[i]
                           ELSE queue[i - (Len(peeked) - 1)]
    BY <1>1, <2>1, <2>2, ConcatProperties DEF Waiting
  <2>5. /\ Tail(Waiting) \in Seq(Job \cup {Stop}) /\ Len(Tail(Waiting)) = Len(Waiting) - 1
        /\ \A i \in 1 .. Len(Waiting) - 1 : Tail(Waiting)[i] = Waiting[i + 1]
    BY <2>3, HeadTail
  <2>6. Len(queue) \in Nat
    BY <1>1
  <2>7. \A i \in 1 .. Len(Waiting') : Waiting'[i] = Tail(Waiting)[i]
    BY <2>2, <2>3, <2>4, <2>5, <2>6
  <2>8. Waiting' = Tail(Waiting)
    BY <2>2, <2>3, <2>4, <2>5, <2>6, <2>7, SeqEqual
  <2> QED
    BY <1>1, <2>1, <2>2, <2>8
<1>3. CASE peeked = <<>>
  <2>1. queue' = Tail(queue) /\ peeked' = peeked
    BY <1>3 DEF Popped
  <2>2. Waiting = queue
    BY <1>1, <1>3, ConcatEmptySeq DEF Waiting
  <2>3. Tail(queue) \in Seq(Job \cup {Stop})
    BY <1>1, <2>2, HeadTail
  <2>4. Waiting' = Tail(queue)
    BY <1>3, <2>1, <2>3, ConcatEmptySeq DEF Waiting
  <2> QED
    BY <1>1, <2>1, <2>2, <2>3, <2>4
<1> QED
  BY <1>2, <1>3

\* A job that was looked at and put back waits where it did.
LEMMA DeferredEffect ==
  ASSUME TypeOK, Waiting # <<>>, Head(Waiting) \in Job, Deferred(Head(Waiting))
  PROVE  /\ Waiting' = Waiting
         /\ queue' \in Seq(Job \cup {Stop}) /\ peeked' \in Seq(Job)
<1>1. peeked \in Seq(Job) /\ queue \in Seq(Job \cup {Stop})
  BY DEF TypeOK
<1>2. CASE peeked = <<>>
  <2>1. Waiting = queue
    BY <1>1, <1>2, ConcatEmptySeq DEF Waiting
  <2>2. peeked' = <<Head(queue)>> /\ queue' = Tail(queue)
    BY <1>2, <2>1 DEF Deferred
  <2>3. /\ Head(queue) = queue[1] /\ Tail(queue) \in Seq(Job \cup {Stop})
        /\ Len(queue) \in Nat \ {0} /\ Len(Tail(queue)) = Len(queue) - 1
        /\ \A i \in 1 .. Len(queue) - 1 : Tail(queue)[i] = queue[i + 1]
        /\ Head(queue) \in Job \cup {Stop}
    BY <1>1, <2>1, HeadTail
  <2>4. /\ <<Head(queue)>> \in Seq(Job \cup {Stop}) /\ Len(<<Head(queue)>>) = 1
        /\ <<Head(queue)>>[1] = Head(queue)
    BY <2>3
  <2>5. /\ Waiting' \in Seq(Job \cup {Stop}) /\ Len(Waiting') = 1 + (Len(queue) - 1)
        /\ \A i \in 1 .. 1 + (Len(queue) - 1) :
             Waiting'[i] = IF i <= 1 THEN <<Head(queue)>>[i] ELSE Tail(queue)[i - 1]
    BY <2>2, <2>3, <2>4, ConcatProperties DEF Waiting
  <2>6. \A i \in 1 .. Len(queue) : Waiting'[i] = queue[i]
    BY <2>3, <2>4, <2>5
  <2>7. Waiting' = queue
    BY <1>1, <2>3, <2>5, <2>6, SeqEqual
  <2>8. peeked' \in Seq(Job)
    BY <2>1, <2>2, SingleOne
  <2> QED
    BY <2>1, <2>2, <2>3, <2>7, <2>8
<1>3. CASE peeked # <<>>
  BY <1>1, <1>3 DEF Deferred, Waiting
<1> QED
  BY <1>2, <1>3

\* The first that waits is the sentinel, or a queued job that the worker does not hold.
LEMMA HeadWaiting ==
  ASSUME TypeOK, Line, Waiting # <<>>
  PROVE  \/ Head(Waiting) = Stop
         \/ /\ Head(Waiting) \in Job \ Held /\ status[Head(Waiting)] = "queued"
            /\ Head(Waiting) # Stop
<1>1. PICK n \in 0 .. Len(puts) : TakenUpTo(n)
  BY DEF Line
<1>2. /\ Head(Waiting) = Waiting[1] /\ Len(Waiting) \in Nat \ {0} /\ Len(puts) \in Nat
      /\ \A i \in 1 .. Len(puts) : puts[i] \in Job \cup {Stop}
      /\ DOMAIN puts = 1 .. Len(puts) /\ IsInjective(puts)
  BY Types, HeadTail, ToSetType DEF TypeOK
<1>3. Len(Waiting) = Len(puts) - n
  BY <1>1 DEF TakenUpTo
<1>4. n \in Nat /\ n < Len(puts) /\ n + 1 \in 1 .. Len(puts)
  <2>1. ASSUME NEW P \in Nat, NEW W \in Nat \ {0}, W = P - n, n \in 0 .. P
        PROVE  n \in Nat /\ n < P /\ n + 1 \in 1 .. P
    BY ONLY <2>1
  <2> QED
    BY <1>2, <1>3, <2>1
<1>5. Head(Waiting) = puts[n + 1] /\ (puts[n + 1] # Stop => status[puts[n + 1]] = "queued")
  <2>1. 1 \in 1 .. Len(puts) - n /\ n + 1 \in n + 1 .. Len(puts)
    BY <1>2, <1>4
  <2>2. Waiting[1] = puts[n + 1]
    BY <1>1, <2>1 DEF TakenUpTo
  <2> QED
    BY <1>1, <1>2, <2>1, <2>2 DEF TakenUpTo
<1>6. puts[n + 1] \notin Held
  <2> SUFFICES ASSUME puts[n + 1] \in Held PROVE FALSE
    OBVIOUS
  <2>1. PICK i \in 1 .. n : puts[i] = puts[n + 1]
    BY <1>1 DEF TakenUpTo
  <2>2. i = n + 1
    BY <1>2, <1>4, <2>1 DEF IsInjective
  <2> QED
    BY <2>2
<1> QED
  BY <1>2, <1>4, <1>5, <1>6

\* Steps that take nothing from the line: what they hold they held before, and what
\* they let go has ended, unless the worker is dead.
LEMMA LineFrame ==
  ASSUME TypeOK, Line, Held' \subseteq Held, UNCHANGED <<puts, Waiting>>,
         \A j \in Job : status'[j] = "new" => status[j] = "new",
         \A j \in Job \ Held : status[j] # "new" => status'[j] = status[j],
         \A j \in Held : status'[j] = "queued" /\ worker'.op # "dead" =>
                           j \in Held' /\ status[j] = "queued",
         worker.op = "dead" => worker'.op = "dead"
  PROVE  Line'
<1>1. PICK n \in 0 .. Len(puts) : TakenUpTo(n)
  BY DEF Line
<1>2. /\ Len(puts) \in Nat /\ \A i \in 1 .. Len(puts) : puts[i] \in Job \cup {Stop}
      /\ DOMAIN puts = 1 .. Len(puts) /\ IsInjective(puts)
  BY Types, ToSetType DEF TypeOK
<1>3. ASSUME NEW i \in n + 1 .. Len(puts), puts[i] # Stop PROVE status'[puts[i]] = "queued"
  <2>1. puts[i] \notin Held
    <3> SUFFICES ASSUME puts[i] \in Held PROVE FALSE
      OBVIOUS
    <3>1. PICK k \in 1 .. n : puts[k] = puts[i]
      BY <1>1 DEF TakenUpTo
    <3>2. k = i
      BY <1>2, <3>1 DEF IsInjective
    <3> QED
      BY <3>2
  <2>2. status[puts[i]] = "queued"
    BY <1>1, <1>3 DEF TakenUpTo
  <2>3. puts[i] \in Job /\ status[puts[i]] # "new"
    BY <1>2, <1>3, <2>2
  <2> QED
    BY <2>1, <2>2, <2>3
<1>4. ASSUME NEW i \in 1 .. n, puts[i] # Stop, status'[puts[i]] = "queued", worker'.op # "dead"
      PROVE  puts[i] \in Held'
  <2>1. puts[i] \in Job /\ status[puts[i]] # "new"
    <3>1. i \in 1 .. Len(puts) /\ puts[i] \in ToSet(puts)
      BY <1>2, Types, ToSetType
    <3> QED
      BY <1>2, <1>4, <3>1 DEF Line
  <2>2. CASE puts[i] \in Held
    BY <1>4, <2>2
  <2>3. CASE puts[i] \notin Held
    <3>1. status[puts[i]] = "queued" /\ worker.op # "dead"
      BY <1>4, <2>1, <2>3
    <3> QED
      BY <1>1, <1>4, <2>3, <3>1 DEF TakenUpTo
  <2> QED
    BY <2>2, <2>3
<1>5. TakenUpTo(n)'
  BY <1>1, <1>3, <1>4 DEF TakenUpTo
<1> QED
  BY <1>5 DEF Line

\* Taking the first that waits: it is held now, or it has been dropped, or it was
\* the sentinel.
LEMMA LineTake ==
  ASSUME TypeOK, Line, Waiting # <<>>, puts' = puts, Waiting' = Tail(Waiting),
         worker.op # "dead", worker'.op # "dead",
         Held \subseteq Held', Held' \subseteq Held \cup {Head(Waiting)},
         Head(Waiting) # Stop => Head(Waiting) \in Held' \/ status'[Head(Waiting)] # "queued",
         Head(Waiting) = Stop => Held' = Held,
         \A j \in Job : status'[j] = "new" <=> status[j] = "new",
         \A j \in Job \ {Head(Waiting)} : status'[j] = status[j]
  PROVE  Line'
<1>1. PICK n \in 0 .. Len(puts) : TakenUpTo(n)
  BY DEF Line
<1>2. /\ Head(Waiting) = Waiting[1] /\ Len(Waiting) \in Nat \ {0} /\ Len(puts) \in Nat
      /\ Len(Waiting') = Len(Waiting) - 1
      /\ \A i \in 1 .. Len(Waiting) - 1 : Waiting'[i] = Waiting[i + 1]
      /\ \A i \in 1 .. Len(puts) : puts[i] \in Job \cup {Stop}
      /\ DOMAIN puts = 1 .. Len(puts) /\ IsInjective(puts) /\ Held \subseteq Job
  BY Types, HeadTail, ToSetType DEF TypeOK
<1>3. Len(Waiting) = Len(puts) - n
  BY <1>1 DEF TakenUpTo
<1>4. n < Len(puts) /\ n + 1 \in 1 .. Len(puts) /\ n + 1 \in 0 .. Len(puts)
  BY <1>2, <1>3
<1> DEFINE j == Head(Waiting)
<1>5. j = puts[n + 1]
  BY <1>1, <1>2, <1>4 DEF TakenUpTo
<1>6. \A i \in 1 .. Len(puts) : puts[i] = j => i = n + 1
  BY <1>2, <1>4, <1>5 DEF IsInjective
<1>7. Len(Waiting') = Len(puts) - (n + 1)
  BY <1>2, <1>3
<1>8. \A i \in 1 .. Len(puts) - (n + 1) : Waiting'[i] = puts[n + 1 + i]
  <2> SUFFICES ASSUME NEW i \in 1 .. Len(puts) - (n + 1) PROVE Waiting'[i] = puts[n + 1 + i]
    OBVIOUS
  <2>1. Waiting'[i] = Waiting[i + 1] /\ i + 1 \in 1 .. Len(puts) - n
    BY <1>2, <1>3
  <2>2. Waiting[i + 1] = puts[n + (i + 1)]
    BY <1>1, <2>1 DEF TakenUpTo
  <2>3. n + (i + 1) = n + 1 + i
    OBVIOUS
  <2> QED
    BY <2>1, <2>2, <2>3
<1>9. \A i \in (n + 1) + 1 .. Len(puts) : puts[i] # Stop => status'[puts[i]] = "queued"
  <2> SUFFICES ASSUME NEW i \in (n + 1) + 1 .. Len(puts), puts[i] # Stop
               PROVE  status'[puts[i]] = "queued"
    OBVIOUS
  <2>1. puts[i] \in Job \ {j} /\ i \in n + 1 .. Len(puts)
    BY <1>2, <1>6
  <2> QED
    BY <1>1, <2>1 DEF TakenUpTo
<1>10. \A h \in Held' : \E i \in 1 .. n + 1 : puts[i] = h
  <2> SUFFICES ASSUME NEW h \in Held' PROVE \E i \in 1 .. n + 1 : puts[i] = h
    OBVIOUS
  <2>1. CASE h = j
    BY <1>4, <1>5, <2>1
  <2>2. CASE h # j
    <3>1. PICK i \in 1 .. n : puts[i] = h
      BY <1>1, <2>2 DEF TakenUpTo
    <3> QED
      BY <3>1
  <2> QED
    BY <2>1, <2>2
<1>11. \A i \in 1 .. n + 1 :
         puts[i] # Stop /\ status'[puts[i]] = "queued" => puts[i] \in Held'
  <2> SUFFICES ASSUME NEW i \in 1 .. n + 1, puts[i] # Stop, status'[puts[i]] = "queued"
               PROVE  puts[i] \in Held'
    OBVIOUS
  <2>1. CASE i = n + 1
    BY <1>5, <2>1
  <2>2. CASE i # n + 1
    <3>1. i \in 1 .. n /\ puts[i] \in Job \ {j}
      BY <1>2, <1>4, <1>6, <2>2
    <3>2. status[puts[i]] = "queued"
      BY <3>1
    <3> QED
      BY <1>1, <3>1, <3>2 DEF TakenUpTo
  <2> QED
    BY <2>1, <2>2
<1> HIDE DEF j
<1>12. TakenUpTo(n + 1)'
  BY <1>7, <1>8, <1>9, <1>10, <1>11 DEF TakenUpTo
<1> QED
  BY <1>4, <1>12 DEF Line

\* Who waits has been put, and the worker holds nothing that was not.
LEMMA WaitingIn ==
  ASSUME TypeOK, Line
  PROVE  /\ ToSet(Waiting) \subseteq ToSet(puts)
         /\ Held \subseteq ToSet(puts)
         /\ \A j \in Held : status[j] # "new"
<1>1. PICK n \in 0 .. Len(puts) : TakenUpTo(n)
  BY DEF Line
<1>2. /\ Len(puts) \in Nat /\ Held \subseteq Job
      /\ \A i \in 1 .. Len(puts) : puts[i] \in ToSet(puts)
      /\ \A x \in ToSet(Waiting) : \E i \in 1 .. Len(Waiting) : Waiting[i] = x
  BY Types, ToSetType
<1>3. ASSUME NEW i \in 1 .. Len(Waiting) PROVE Waiting[i] \in ToSet(puts)
  <2>1. i \in 1 .. Len(puts) - n /\ n + i \in 1 .. Len(puts)
    BY <1>1, <1>2 DEF TakenUpTo
  <2> QED
    BY <1>1, <1>2, <2>1 DEF TakenUpTo
<1>4. Held \subseteq ToSet(puts)
  BY <1>1, <1>2 DEF TakenUpTo
<1> QED
  BY <1>2, <1>3, <1>4 DEF Line

\* Something new at the end of the queue waits last.
LEMMA JoinsLine ==
  ASSUME TypeOK, NEW x \in Job \cup {Stop}, x \notin ToSet(Waiting),
         queue' = Append(queue, x), peeked' = peeked
  PROVE  /\ queue' \in Seq(Job \cup {Stop}) /\ Waiting' = Append(Waiting, x)
         /\ IsInjective(Waiting')
<1>1. peeked \in Seq(Job \cup {Stop}) /\ queue \in Seq(Job \cup {Stop})
      /\ Waiting \in Seq(Job \cup {Stop}) /\ <<x>> \in Seq(Job \cup {Stop})
  BY Types, SeqMonotonic
<1>2. queue' = queue \o <<x>> /\ Append(Waiting, x) = Waiting \o <<x>>
  BY <1>1, AppendIsConcat
<1>3. peeked \o (queue \o <<x>>) = (peeked \o queue) \o <<x>>
  BY <1>1, ConcatAssociative
<1>4. Waiting' = Append(Waiting, x)
  BY <1>2, <1>3 DEF Waiting
<1> QED
  BY <1>1, <1>4, AppendOne DEF TypeOK

\* It joins the line.
LEMMA LinePut ==
  ASSUME TypeOK, Line, NEW x \in Job \cup {Stop}, x \notin ToSet(puts),
         puts' = Append(puts, x), queue' = Append(queue, x), peeked' = peeked,
         x # Stop => status[x] = "queued",
         UNCHANGED <<status, worker>>
  PROVE  /\ Line'
         /\ puts' \in Seq(Job \cup {Stop}) /\ IsInjective(puts')
         /\ queue' \in Seq(Job \cup {Stop}) /\ IsInjective(Waiting')
         /\ Len(puts') = Len(puts) + 1 /\ puts'[Len(puts) + 1] = x
         /\ \A i \in 1 .. Len(puts) : puts'[i] = puts[i]
         /\ ToSet(puts') = ToSet(puts) \cup {x}
<1>1. PICK n \in 0 .. Len(puts) : TakenUpTo(n)
  BY DEF Line
<1>2. /\ puts \in Seq(Job \cup {Stop}) /\ Waiting \in Seq(Job \cup {Stop})
      /\ IsInjective(puts) /\ Stop \notin Job
  BY Types, JobsAssumption DEF TypeOK
<1>3. Len(puts) \in Nat /\ Len(Waiting) \in Nat
  BY <1>2
<1>4. x \notin ToSet(Waiting)
  BY WaitingIn
<1>5. /\ queue' \in Seq(Job \cup {Stop}) /\ Waiting' = Append(Waiting, x)
      /\ IsInjective(Waiting')
  BY <1>4, JoinsLine
<1>6. /\ puts' \in Seq(Job \cup {Stop}) /\ IsInjective(puts') /\ Len(puts') = Len(puts) + 1
      /\ \A i \in 1 .. Len(puts) : puts'[i] = puts[i]
      /\ puts'[Len(puts) + 1] = x /\ ToSet(puts') = ToSet(puts) \cup {x}
  BY <1>2, AppendOne
<1>7. /\ Len(Waiting') = Len(Waiting) + 1 /\ Waiting'[Len(Waiting) + 1] = x
      /\ \A i \in 1 .. Len(Waiting) : Waiting'[i] = Waiting[i]
  BY <1>2, <1>5, AppendOne
<1>8. Len(Waiting) = Len(puts) - n /\ Held' = Held
  BY <1>1 DEF TakenUpTo, Held
<1>9. \A i \in 1 .. Len(puts') - n : Waiting'[i] = puts'[n + i]
  <2> SUFFICES ASSUME NEW i \in 1 .. Len(puts') - n PROVE Waiting'[i] = puts'[n + i]
    OBVIOUS
  <2>1. CASE i = Len(puts') - n
    <3>1. i = Len(Waiting) + 1 /\ n + i = Len(puts) + 1
      BY <1>3, <1>6, <1>8, <2>1
    <3> QED
      BY <1>6, <1>7, <3>1
  <2>2. CASE i # Len(puts') - n
    <3>1. i \in 1 .. Len(puts) - n /\ i \in 1 .. Len(Waiting) /\ n + i \in 1 .. Len(puts)
      <4>1. i \in Nat /\ 1 <= i /\ i <= Len(puts) + 1 - n /\ i # Len(puts) + 1 - n
        BY <1>3, <1>6, <2>2
      <4> QED
        BY ONLY <1>3, <1>8, <4>1, n \in 0 .. Len(puts)
    <3>2. Waiting[i] = puts[n + i]
      BY <1>1, <3>1 DEF TakenUpTo
    <3> QED
      BY <1>6, <1>7, <3>1, <3>2
  <2> QED
    BY <2>1, <2>2
<1>10. \A i \in n + 1 .. Len(puts') : puts'[i] # Stop => status'[puts'[i]] = "queued"
  <2> SUFFICES ASSUME NEW i \in n + 1 .. Len(puts'), puts'[i] # Stop
               PROVE  status'[puts'[i]] = "queued"
    OBVIOUS
  <2>1. CASE i = Len(puts) + 1
    BY <1>6, <2>1
  <2>2. CASE i # Len(puts) + 1
    <3>1. i \in n + 1 .. Len(puts) /\ i \in 1 .. Len(puts)
      BY <1>3, <1>6, <2>2
    <3> QED
      BY <1>1, <1>6, <3>1 DEF TakenUpTo
  <2> QED
    BY <2>1, <2>2
<1>11. \A i \in 1 .. n : i \in 1 .. Len(puts) /\ puts'[i] = puts[i]
  BY <1>3, <1>6
<1>12. Len(Waiting') = Len(puts') - n /\ n \in 0 .. Len(puts')
  BY <1>3, <1>6, <1>7, <1>8
<1>13. TakenUpTo(n)'
  BY <1>1, <1>8, <1>9, <1>10, <1>11, <1>12 DEF TakenUpTo
<1>14. \A j \in Job : j \in ToSet(puts') => status'[j] # "new"
  BY <1>2, <1>6 DEF Line
<1> QED
  BY <1>5, <1>6, <1>12, <1>13, <1>14 DEF Line

LEMMA SubmitInv == ASSUME IInv, NEW r \in Requests, Submit(r) PROVE IInv'
<1>1. /\ TypeOK /\ Line /\ \A j \in ToSet(r) : status[j] = "new"
      /\ status' = [j \in Job |-> IF j \in ToSet(r) THEN "queued" ELSE status[j]]
      /\ UNCHANGED <<intake, flags, disk, worker>>
  BY DEF IInv, Submit
<1>2. \A j \in Job : status[j] # "new" => status'[j] = status[j]
  BY <1>1
<1>3. \A j \in Job : status'[j] # status[j] => status[j] = "new" /\ status'[j] = "queued"
  BY <1>1
<1>4. Held \subseteq Job /\ Held' = Held /\ \A j \in Held : status[j] # "new"
  BY <1>1, Types, WaitingIn DEF Held
<1>5. \A j \in Held : status'[j] = status[j]
  BY <1>2, <1>4
<1>6. TypeOK' /\ IsFiniteSet(files)'
  <2>1. status' \in [Job -> {"new", "queued", "running"} \cup Terminal]
    BY <1>1 DEF TypeOK
  <2> QED
    BY <1>1, <2>1 DEF IInv, TypeOK, intake, flags, disk, Waiting
<1>7. Line'
  BY <1>1, <1>2, <1>3, <1>4, <1>5, LineFrame DEF intake, flags, Waiting
<1>8. Shape' /\ OneKey' /\ InTurn'
  BY <1>1 DEF IInv, Shape, OneKey, InTurn, Held, Among, intake
<1>9. ToSet(worker.todo) \subseteq Held /\ (worker.todo # <<>> => Head(worker.todo) \in Held)
       /\ \A i \in 2 .. Len(worker.todo) : worker.todo[i] \in Held
  BY <1>1, Types, HeadTail, ToSetType DEF Held
<1>10. Statuses'
  BY <1>1, <1>4, <1>5, <1>9 DEF IInv, Statuses, Shape, Among
<1>11. Early'
  BY <1>1, <1>3 DEF IInv, Early, CancelHonoured, TypeOK, flags
<1>12. Alive'
  BY <1>1, <1>4, <1>5, <1>9 DEF IInv, Alive, Among
<1> QED
  BY <1>6, <1>7, <1>8, <1>10, <1>11, <1>12 DEF IInv

\* Whoever does not touch the worker, the statuses or the files.
LEMMA AsideInv ==
  ASSUME IInv, UNCHANGED <<status, worker, disk>>, TypeOK', Line', InTurn',
         early' \subseteq early \cup {j \in Job : status[j] = "queued"}
  PROVE  IInv'
<1>1. Shape' /\ OneKey' /\ Statuses' /\ Alive'
  BY DEF IInv, Shape, OneKey, Statuses, Alive, Held, Among
<1>2. Early'
  BY DEF IInv, Early, CancelHonoured, Statuses, Among
<1> QED
  BY <1>1, <1>2 DEF IInv, disk

LEMMA NoneBehindStop == \A i : ~Behind(i, Stop)
<1> SUFFICES ASSUME NEW r \in Requests, NEW n \in DOMAIN r, r[n] = Stop PROVE FALSE
  BY DEF Behind
<1>1. r \in Seq(Job) /\ Stop \notin Job
  BY JobsAssumption
<1> QED
  BY <1>1

\* What is put next has all of its request before it.
LEMMA TurnPut ==
  ASSUME TypeOK, InTurn, NEW x, Len(puts') = Len(puts) + 1, puts'[Len(puts) + 1] = x,
         \A i \in 1 .. Len(puts) : puts'[i] = puts[i],
         \A i \in Job : Behind(i, x) => i \in ToSet(puts)
  PROVE  InTurn'
<1>1. /\ Len(puts) \in Nat
      /\ \A y \in ToSet(puts) : \E p \in 1 .. Len(puts) : puts[p] = y
  BY Types, ToSetType
<1>2. SUFFICES ASSUME NEW q \in 1 .. Len(puts'), NEW i \in Job, Behind(i, puts'[q])
               PROVE  \E p \in 1 .. q - 1 : puts'[p] = i
  BY DEF InTurn, Behind
<1>3. CASE q = Len(puts) + 1
  <2>1. PICK p \in 1 .. Len(puts) : puts[p] = i
    BY <1>1, <1>2, <1>3
  <2> QED
    BY <1>1, <1>3, <2>1
<1>4. CASE q # Len(puts) + 1
  <2>1. q \in 1 .. Len(puts)
    BY <1>1, <1>4
  <2>2. PICK p \in 1 .. q - 1 : puts[p] = i
    BY <1>2, <2>1 DEF InTurn
  <2>3. p \in 1 .. Len(puts)
    BY <1>1, <2>1
  <2> QED
    BY <2>2, <2>3
<1> QED
  BY <1>3, <1>4

LEMMA RequestInv == IInv /\ Request => IInv'
<1> SUFFICES ASSUME IInv, Request PROVE IInv'
  OBVIOUS
<1>1. ASSUME NEW j \in Job, Cancel(j) PROVE IInv'
  <2>1. UNCHANGED <<status, intake, paused, stop, disk, worker>> /\ cancels' = cancels \cup {j}
        /\ early' = IF status[j] = "queued" THEN early \cup {j} ELSE early
    BY <1>1 DEF Cancel
  <2>2. TypeOK'
    BY <2>1 DEF IInv, TypeOK, intake, disk, Waiting
  <2>3. Line' /\ InTurn'
    BY <2>1, LineFrame DEF IInv, Held, intake, Waiting, InTurn
  <2> QED
    BY <2>1, <2>2, <2>3, AsideInv DEF intake
<1>2. CASE Pause
  <2>1. UNCHANGED <<status, intake, cancels, early, stop, disk, worker>> /\ paused' = ~paused
    BY <1>2 DEF Pause
  <2>2. TypeOK'
    <3>1. paused' \in BOOLEAN
      BY <2>1
    <3> QED
      BY <2>1, <3>1 DEF IInv, TypeOK, intake, disk, Waiting
  <2>3. Line' /\ InTurn'
    BY <2>1, LineFrame DEF IInv, Held, intake, Waiting, InTurn
  <2> QED
    BY <2>1, <2>2, <2>3, AsideInv DEF intake
<1>5. CASE Shutdown
  <2>1. UNCHANGED <<status, intake, cancels, early, paused, disk, worker>> /\ stop' = TRUE
    BY <1>5 DEF Shutdown
  <2>2. TypeOK'
    BY <2>1 DEF IInv, TypeOK, intake, disk, Waiting
  <2>3. Line' /\ InTurn'
    BY <2>1, LineFrame DEF IInv, Held, intake, Waiting, InTurn
  <2> QED
    BY <2>1, <2>2, <2>3, AsideInv DEF intake
<1>3. CASE PutStop
  <2>1. /\ UNCHANGED <<status, peeked, flags, disk, worker>> /\ Stop \notin ToSet(puts)
        /\ puts' = Append(puts, Stop) /\ queue' = Append(queue, Stop)
    BY <1>3 DEF PutStop
  <2>2. TypeOK /\ Line
    BY DEF IInv
  <2>3. /\ Line' /\ puts' \in Seq(Job \cup {Stop}) /\ IsInjective(puts')
        /\ queue' \in Seq(Job \cup {Stop}) /\ IsInjective(Waiting')
        /\ Len(puts') = Len(puts) + 1 /\ puts'[Len(puts) + 1] = Stop
        /\ \A i \in 1 .. Len(puts) : puts'[i] = puts[i]
    BY <2>1, <2>2, LinePut
  <2>4. TypeOK'
    BY <2>1, <2>2, <2>3 DEF TypeOK, disk, flags
  <2>5. InTurn'
    <3>1. \A i : ~Behind(i, Stop)
      BY NoneBehindStop
    <3> QED
      BY <2>1, <2>3, <3>1, TurnPut DEF IInv
  <2> QED
    BY <2>1, <2>3, <2>4, <2>5, AsideInv DEF flags
<1>4. ASSUME NEW j \in Job, Enqueue(j) PROVE IInv'
  <2>1. /\ UNCHANGED <<status, peeked, flags, disk, worker>> /\ j \notin ToSet(puts)
        /\ puts' = Append(puts, j) /\ queue' = Append(queue, j) /\ status[j] = "queued"
        /\ \A i \in Job : Behind(i, j) => i \in ToSet(puts)
    BY <1>4 DEF Enqueue
  <2>2. TypeOK /\ Line
    BY DEF IInv
  <2>3. /\ Line' /\ puts' \in Seq(Job \cup {Stop}) /\ IsInjective(puts')
        /\ queue' \in Seq(Job \cup {Stop}) /\ IsInjective(Waiting')
        /\ Len(puts') = Len(puts) + 1 /\ puts'[Len(puts) + 1] = j
        /\ \A i \in 1 .. Len(puts) : puts'[i] = puts[i]
    BY <2>1, <2>2, LinePut
  <2>4. TypeOK'
    BY <2>1, <2>2, <2>3 DEF TypeOK, disk, flags
  <2>5. InTurn'
    BY <2>1, <2>3, TurnPut DEF IInv
  <2> QED
    BY <2>1, <2>3, <2>4, <2>5, AsideInv DEF flags
<1> QED
  BY <1>1, <1>2, <1>3, <1>4, <1>5, SubmitInv DEF Request

------------------------------------------------------------------------------
(* Where the worker can stand. *)

Hands ==
  /\ worker \in [op : Ops, todo : Seq(Job), kept : Seq(Job)]
  /\ Len(worker.todo) <= MaxBatch /\ Len(worker.kept) <= MaxBatch
  /\ Shape /\ Statuses /\ Early /\ Alive /\ OneKey

LEMMA Stands ==
  ASSUME TypeOK, NEW o \in Ops
  PROVE  [worker EXCEPT !.op = o] = Doing(o, worker.todo, worker.kept)
<1>1. worker \in [op : Ops, todo : Seq(Job), kept : Seq(Job)]
  BY DEF TypeOK
<1> QED
  BY <1>1 DEF Doing

LEMMA IdleHands ==
  ASSUME CancelHonoured', NEW o \in {"top", "pause", "get", "exited", "dead"},
         worker' = Doing(o, <<>>, <<>>)
  PROVE  Hands' /\ Held' = {} /\ worker'.op = o
<1>1. /\ worker' \in [op : Ops, todo : Seq(Job), kept : Seq(Job)] /\ worker'.op = o
      /\ worker'.todo = <<>> /\ worker'.kept = <<>>
  BY EmptyOne DEF Doing, Ops
<1>2. Len(<<>>) = 0 /\ ToSet(<<>>) = {} /\ IsInjective(<<>>) /\ MaxBatch \in Nat
  BY EmptyOne, JobsAssumption
<1>3. Held' = {}
  BY <1>1, <1>2 DEF Held
<1>a. /\ ToSet(worker'.todo) = {} /\ ToSet(worker'.kept) = {}
      /\ Len(worker'.todo) = 0 /\ Len(worker'.kept) = 0
      /\ IsInjective(worker'.todo) /\ IsInjective(worker'.kept)
  BY <1>1, <1>2
<1>b. Len(worker'.todo) + Len(worker'.kept) <= MaxBatch
  <2>1. MaxBatch \in Nat /\ 0 + 0 <= MaxBatch
    BY <1>2
  <2>2. Len(worker'.todo) + Len(worker'.kept) = 0 + 0
    BY <1>a
  <2> QED
    BY <2>1, <2>2
<1>4. Shape'
  BY <1>1, <1>a, <1>b DEF Shape, Among
<1>5. Statuses' /\ Early' /\ Alive' /\ OneKey'
  BY <1>1, <1>2, <1>3 DEF Statuses, Early, Alive, OneKey, Among
<1> QED
  BY <1>1, <1>2, <1>3, <1>4, <1>5 DEF Hands

\* One job that is run, and those that will be.
LEMMA RunHands ==
  ASSUME CancelHonoured', NEW o \in {"run", "tokens", "last"}, NEW K \in Seq(Job), K # <<>>, IsInjective(K), Len(K) <= MaxBatch,
         worker' = Doing(o, K, <<>>),
         o # "run" => status'[Head(K)] = "running", o = "last" => Head(K) \notin early',
         \A i \in 2 .. Len(K) : status'[K[i]] # "queued",
         "fanout" \notin Faults => \A j \in ToSet(K) : status'[j] \in {"queued", "running"}
  PROVE  Hands' /\ Held' = ToSet(K) /\ worker'.op = o
<1>1. /\ worker' \in [op : Ops, todo : Seq(Job), kept : Seq(Job)] /\ worker'.op = o
      /\ worker'.todo = K /\ worker'.kept = <<>>
  BY EmptyOne DEF Doing, Ops
<1>2. Len(<<>>) = 0 /\ ToSet(<<>>) = {} /\ IsInjective(<<>>) /\ MaxBatch \in Nat
      /\ Len(K) \in Nat
  BY EmptyOne, JobsAssumption, LenProperties
<1>3. Held' = ToSet(K)
  BY <1>1, <1>2 DEF Held
<1>a. /\ ToSet(worker'.todo) = ToSet(K) /\ ToSet(worker'.kept) = {}
      /\ Len(worker'.todo) = Len(K) /\ Len(worker'.kept) = 0
      /\ IsInjective(worker'.todo) /\ IsInjective(worker'.kept)
  BY <1>1, <1>2
<1>b. Len(worker'.todo) + Len(worker'.kept) <= MaxBatch
  <2>1. Len(K) + 0 <= MaxBatch
    BY <1>2
  <2>2. Len(worker'.todo) + Len(worker'.kept) = Len(K) + 0
    BY <1>a
  <2> QED
    BY <2>1, <2>2
<1>4. Shape'
  BY <1>1, <1>a, <1>b DEF Shape, Among
<1>5. Statuses' /\ Early' /\ OneKey'
  BY <1>1 DEF Statuses, Early, OneKey, Among
<1>6. Alive'
  BY <1>1, <1>3 DEF Alive, Among
<1> QED
  BY <1>1, <1>2, <1>3, <1>4, <1>5, <1>6 DEF Hands

\* A group or a batch, all of it kept.
LEMMA KeptHands ==
  ASSUME CancelHonoured', NEW o \in {"group", "dispatch", "batch", "decode"},
         NEW K \in Seq(Job), K # <<>>, IsInjective(K), Len(K) <= MaxBatch,
         worker' = Doing(o, <<>>, K),
         \A j \in ToSet(K) : status'[j] = IF o = "decode" THEN "running" ELSE "queued",
         \A i, j \in ToSet(K) : Key[i] = Key[j] /\ Key[i] # Alone
  PROVE  Hands' /\ Held' = ToSet(K) /\ worker'.op = o
<1>1. /\ worker' \in [op : Ops, todo : Seq(Job), kept : Seq(Job)] /\ worker'.op = o
      /\ worker'.todo = <<>> /\ worker'.kept = K
  BY EmptyOne DEF Doing, Ops
<1>2. Len(<<>>) = 0 /\ ToSet(<<>>) = {} /\ IsInjective(<<>>) /\ MaxBatch \in Nat
      /\ Len(K) \in Nat
  BY EmptyOne, JobsAssumption, LenProperties
<1>3. Held' = ToSet(K)
  BY <1>1, <1>2 DEF Held
<1>a. /\ ToSet(worker'.todo) = {} /\ ToSet(worker'.kept) = ToSet(K)
      /\ Len(worker'.todo) = 0 /\ Len(worker'.kept) = Len(K)
      /\ IsInjective(worker'.todo) /\ IsInjective(worker'.kept)
  BY <1>1, <1>2
<1>b. Len(worker'.todo) + Len(worker'.kept) <= MaxBatch
  <2>1. 0 + Len(K) <= MaxBatch
    BY <1>2
  <2>2. Len(worker'.todo) + Len(worker'.kept) = 0 + Len(K)
    BY <1>a
  <2> QED
    BY <2>1, <2>2
<1>4. Shape'
  BY <1>1, <1>a, <1>b DEF Shape, Among
<1>5. Statuses' /\ Early'
  BY <1>1, <1>3 DEF Statuses, Early, Among
<1>6. Alive' /\ OneKey'
  BY <1>1, <1>2, <1>3 DEF Alive, OneKey, Among
<1> QED
  BY <1>1, <1>2, <1>3, <1>4, <1>5, <1>6 DEF Hands

\* A validation stage: jobs to look at, and jobs kept.
LEMMA StageHands ==
  ASSUME CancelHonoured', NEW o \in {"stage1", "stage2"},
         NEW T \in Seq(Job), IsInjective(T), NEW K \in Seq(Job), IsInjective(K),
         ToSet(T) \cap ToSet(K) = {}, Len(T) + Len(K) <= MaxBatch,
         worker' = Doing(o, T, K),
         \A j \in ToSet(T) \cup ToSet(K) : status'[j] = "queued",
         \A i, j \in ToSet(T) \cup ToSet(K) : Key[i] = Key[j] /\ Key[i] # Alone
  PROVE  Hands' /\ Held' = ToSet(T) \cup ToSet(K) /\ worker'.op = o
<1>1. /\ worker' \in [op : Ops, todo : Seq(Job), kept : Seq(Job)] /\ worker'.op = o
      /\ worker'.todo = T /\ worker'.kept = K
  BY DEF Doing, Ops
<1>2. MaxBatch \in Nat /\ Len(K) \in Nat /\ Len(T) \in Nat
  BY JobsAssumption, LenProperties
<1>3. Held' = ToSet(T) \cup ToSet(K)
  BY <1>1 DEF Held
<1>4. Shape'
  BY <1>1, <1>2 DEF Shape, Among
<1>5. Statuses' /\ Early'
  BY <1>1, <1>3 DEF Statuses, Early, Among
<1>6. Alive' /\ OneKey'
  BY <1>1, <1>3 DEF Alive, OneKey, Among
<1>7. Len(T) <= MaxBatch /\ Len(K) <= MaxBatch
  BY <1>2
<1> QED
  BY <1>1, <1>3, <1>4, <1>5, <1>6, <1>7 DEF Hands

\* A step that takes nothing from the line.
LEMMA HandsInv ==
  ASSUME IInv, UNCHANGED <<intake, flags>>, Hands', Held' \subseteq Held,
         status' \in [Job -> {"new", "queued", "running"} \cup Terminal],
         IsFiniteSet(files'), out' \in [Job -> files' \cup {NoFile}],
         \A j \in Job : status'[j] = "new" <=> status[j] = "new",
         \A j \in Job \ Held : status'[j] = status[j],
         \A j \in Held : status'[j] = "queued" /\ worker'.op # "dead" =>
                           j \in Held' /\ status[j] = "queued",
         worker.op = "dead" => worker'.op = "dead"
  PROVE  IInv'
<1>1. TypeOK'
  BY DEF IInv, TypeOK, Hands, intake, flags, Waiting
<1>2. Line'
  BY LineFrame DEF IInv, intake, flags, Waiting
<1>3. InTurn'
  BY DEF IInv, InTurn, intake
<1> QED
  BY <1>1, <1>2, <1>3 DEF IInv, Hands

------------------------------------------------------------------------------
(* The steps of the worker. *)

\* Where the worker stands, by what it is doing.
LEMMA Standing ==
  ASSUME IInv
  PROVE  /\ worker = Doing(worker.op, worker.todo, worker.kept)
         /\ worker.todo \in Seq(Job) /\ IsInjective(worker.todo)
         /\ worker.kept \in Seq(Job) /\ IsInjective(worker.kept)
         /\ Len(worker.todo) \in Nat /\ Len(worker.todo) <= MaxBatch
         /\ Len(worker.kept) \in Nat /\ Len(worker.kept) <= MaxBatch
         /\ Held = ToSet(worker.todo) \cup ToSet(worker.kept) /\ Held \subseteq Job
<1>1. worker \in [op : Ops, todo : Seq(Job), kept : Seq(Job)]
  BY DEF IInv, TypeOK
<1>2. worker = Doing(worker.op, worker.todo, worker.kept)
  BY <1>1 DEF Doing
<1>3. Held \subseteq Job
  BY Types DEF IInv
<1> QED
  BY <1>1, <1>2, <1>3, LenProperties DEF IInv, TypeOK, Shape, Held

\* The loop's own steps, and the end of a group.
LEMMA LoopInv == ASSUME IInv, Loop \/ Resumed \/ Grouped \/ LastToken PROVE IInv'
<1>1. /\ UNCHANGED <<status, intake, flags, disk>>
      /\ worker.op \in {"top", "pause", "group", "tokens"}
  BY DEF Loop, Resumed, Grouped, LastToken
<1>2. CancelHonoured' /\ status \in [Job -> {"new", "queued", "running"} \cup Terminal]
      /\ out \in [Job -> files \cup {NoFile}]
  BY <1>1 DEF IInv, TypeOK, Early, CancelHonoured, flags
<1>3. ASSUME Hands', Held' = Held PROVE IInv'
  BY <1>1, <1>2, <1>3, HandsInv DEF IInv, disk
<1>4. CASE Loop \/ Resumed
  <2>1. /\ worker.todo = <<>> /\ worker.kept = <<>> /\ Held = {}
    BY <1>4, EmptyOne DEF IInv, Shape, Among, Loop, Resumed, Held
  <2>2. PICK o \in {"exited", "pause", "get"} : worker' = [worker EXCEPT !.op = o]
    BY <1>4 DEF Loop, Resumed
  <2>3. worker' = Doing(o, <<>>, <<>>)
    BY <2>1, <2>2, Stands DEF IInv, Ops
  <2> QED
    BY <1>2, <1>3, <2>1, <2>3, IdleHands
<1>5. CASE Grouped
  <2>1. worker' = Doing("dispatch", <<>>, worker.kept) /\ worker.op = "group"
        /\ worker.todo = <<>> /\ worker.kept # <<>>
    BY <1>5, Stands DEF IInv, Shape, Among, Grouped, Ops
  <2>2. Held = ToSet(worker.kept)
    BY <2>1, EmptyOne DEF Held
  <2>3. \A j \in ToSet(worker.kept) : status'[j] = "queued"
    BY <1>1, <2>1, <2>2 DEF IInv, Statuses, Among
  <2>4. \A i, j \in ToSet(worker.kept) : Key[i] = Key[j] /\ Key[i] # Alone
    BY <2>1, <2>2 DEF IInv, OneKey, Among
  <2>5. Hands' /\ Held' = ToSet(worker.kept)
    BY <1>2, <2>1, <2>3, <2>4, Standing, KeptHands
  <2> QED
    BY <1>3, <2>2, <2>5
<1>6. CASE LastToken
  <2>1. worker' = Doing("last", worker.todo, <<>>) /\ worker.op = "tokens"
        /\ worker.todo # <<>> /\ worker.kept = <<>> /\ Head(worker.todo) \notin cancels
    BY <1>6, Stands DEF IInv, Shape, Among, LastToken, Ops
  <2>2. Held = ToSet(worker.todo)
    BY <2>1, EmptyOne DEF Held
  <2>3. /\ \A i \in 2 .. Len(worker.todo) : status'[worker.todo[i]] # "queued"
        /\ status'[Head(worker.todo)] = "running"
    BY <1>1, <2>1 DEF IInv, Statuses, Among
  <2>4. "fanout" \notin Faults =>
          \A j \in ToSet(worker.todo) : status'[j] \in {"queued", "running"}
    BY <1>1 DEF IInv, Alive
  <2>5. Head(worker.todo) \notin early'
    BY <1>1, <2>1 DEF IInv, TypeOK, flags
  <2>6. Hands' /\ Held' = ToSet(worker.todo)
    BY <1>2, <2>1, <2>3, <2>4, <2>5, Standing, RunHands
  <2> QED
    BY <1>3, <2>2, <2>6
<1> QED
  BY <1>4, <1>5, <1>6

\* Jobs K, the only ones held that are still queued, go on: the batch may go on with
\* them, one is run alone, and the worker is free when there is none.
LEMMA LeftInv ==
  ASSUME IInv, UNCHANGED <<intake, flags, disk>>, worker.op # "dead",
         NEW K \in Seq(Job), IsInjective(K), Len(K) <= MaxBatch, ToSet(K) \subseteq Held,
         status' \in [Job -> {"new", "queued", "running"} \cup Terminal],
         \A j \in Job \ Held : status'[j] = status[j],
         \A j \in Held : status'[j] = "queued" => j \in ToSet(K) /\ status[j] = "queued",
         \A j \in Held : status'[j] # "new" /\ (status'[j] = "done" => status[j] = "done"),
         \A j \in ToSet(K) : status'[j] = "queued",
         NEW next, worker' = Left(K, next),
         next = Dead \/ Len(K) <= 1 \/ (Hands' /\ Held' = ToSet(K) /\ worker'.op # "dead")
  PROVE  IInv'
<1>1. CancelHonoured'
  <2>1. /\ early' = early
        /\ \A j \in early : j \in Job /\ status[j] # "done"
    BY DEF IInv, Early, CancelHonoured, TypeOK, flags
  <2>2. \A j \in early : status'[j] # "done"
    BY <2>1
  <2> QED
    BY <2>1, <2>2 DEF CancelHonoured
<1>2. \A j \in Job : status'[j] = "new" <=> status[j] = "new"
  BY WaitingIn DEF IInv
<1>3. /\ IsFiniteSet(files') /\ out' \in [Job -> files' \cup {NoFile}]
  BY DEF IInv, TypeOK, disk
<1>4. ASSUME Hands', Held' = ToSet(K) \/ worker'.op = "dead", Held' \subseteq Held PROVE IInv'
  BY <1>2, <1>3, <1>4, HandsInv
<1>5. Len(K) \in Nat
  BY LenProperties
<1>6. CASE K = <<>>
  <2>1. worker' = Doing("top", <<>>, <<>>) /\ ToSet(K) = {}
    BY <1>6, EmptyOne DEF Left, Top
  <2>2. Hands' /\ Held' = {}
    BY <1>1, <2>1, IdleHands
  <2> QED
    BY <1>4, <2>1, <2>2
<1>7. CASE Len(K) = 1
  <2>1. worker' = Doing("run", K, <<>>) /\ K # <<>>
    BY <1>7, EmptyOne DEF Left
  <2>2. \A i \in 2 .. Len(K) : status'[K[i]] # "queued"
    BY <1>7
  <2>3. Hands' /\ Held' = ToSet(K)
    BY <1>1, <2>1, <2>2, RunHands
  <2> QED
    BY <1>4, <2>3
<1>8. CASE K # <<>> /\ Len(K) # 1
  <2>1. worker' = next
    BY <1>8 DEF Left
  <2>2. ~(Len(K) <= 1)
    <3>1. Len(K) \in Nat /\ Len(K) # 0 /\ Len(K) # 1
      BY <1>8, HeadTail
    <3>2. \A n \in Nat : n # 0 /\ n # 1 => ~(n <= 1)
      OBVIOUS
    <3> QED
      BY <3>1, <3>2
  <2>3. CASE next = Dead
    <3>1. worker' = Doing("dead", <<>>, <<>>)
      BY <2>1, <2>3 DEF Dead
    <3>2. Hands' /\ Held' = {} /\ worker'.op = "dead"
      BY <1>1, <3>1, IdleHands
    <3> QED
      BY <1>4, <3>2
  <2>4. CASE Hands' /\ Held' = ToSet(K)
    BY <1>4, <2>4
  <2> QED
    BY <2>2, <2>3, <2>4
<1> QED
  BY <1>6, <1>7, <1>8

LEMMA InOrderEffect ==
  ASSUME NEW s \in Seq(Job), IsInjective(s), NEW S, S \subseteq Job, NEW t \in InOrder(s, S)
  PROVE  t \in Seq(Job) /\ ToSet(t) = S /\ Len(t) <= Len(s) /\ IsInjective(t)
<1>1. PICK n \in 0 .. Len(s) : t \in [1 .. n -> S]
  BY DEF InOrder
<1>2. Len(s) \in Nat /\ DOMAIN s = 1 .. Len(s)
  BY LenProperties
<1>3. t \in [1 .. n -> Job] /\ n \in Nat
  BY <1>1, <1>2
<1>4. t \in Seq(Job) /\ Len(t) = n /\ DOMAIN t = 1 .. n
  BY <1>3
<1>5. /\ ToSet(t) = S
      /\ \A i, j \in DOMAIN t : i < j =>
           \E p, q \in DOMAIN s : p < q /\ s[p] = t[i] /\ s[q] = t[j]
  BY DEF InOrder
<1>6. ASSUME NEW i \in 1 .. n, NEW j \in 1 .. n, i < j PROVE t[i] # t[j]
  <2>0. i \in DOMAIN t /\ j \in DOMAIN t
    BY <1>4
  <2>1. PICK p \in DOMAIN s, q \in DOMAIN s : p < q /\ s[p] = t[i] /\ s[q] = t[j]
    BY <1>5, <1>6, <2>0, Zenon
  <2>2. s[p] = s[q] => p = q
    BY <1>2 DEF IsInjective
  <2> QED
    BY <2>1, <2>2
<1>7. IsInjective(t)
  <2>1. \A i, j \in 1 .. n : i = j \/ i < j \/ j < i
    BY <1>3
  <2> QED
    BY <1>4, <1>6, <2>1 DEF IsInjective
<1>8. Len(t) <= Len(s)
  BY <1>2, <1>4
<1> QED
  BY <1>4, <1>5, <1>7, <1>8

LEMMA StageStart ==
  ASSUME CancelHonoured', NEW o \in {"stage1", "stage2"},
         NEW K \in Seq(Job), IsInjective(K), Len(K) \in Nat, Len(K) <= MaxBatch,
         worker' = Doing(o, K, <<>>),
         \A j \in ToSet(K) : status'[j] = "queued",
         \A i, j \in ToSet(K) : Key[i] = Key[j] /\ Key[i] # Alone
  PROVE  Hands' /\ Held' = ToSet(K) /\ worker'.op = o
<1>1. /\ ToSet(K) \cap ToSet(<<>>) = {} /\ ToSet(K) \cup ToSet(<<>>) = ToSet(K)
      /\ IsInjective(<<>>) /\ <<>> \in Seq(Job)
  BY EmptyOne
<1>2. Len(K) + Len(<<>>) <= MaxBatch
  BY EmptyOne, JobsAssumption
<1>3. /\ \A j \in ToSet(K) \cup ToSet(<<>>) : status'[j] = "queued"
      /\ \A i, j \in ToSet(K) \cup ToSet(<<>>) : Key[i] = Key[j] /\ Key[i] # Alone
  BY <1>1
<1>4. Hands' /\ Held' = ToSet(K) \cup ToSet(<<>>) /\ worker'.op = o
  BY <1>1, <1>2, <1>3, StageHands
<1> QED
  BY <1>1, <1>4

LEMMA LeftMany ==
  ASSUME NEW K \in Seq(Job), ~(Len(K) <= 1), NEW next
  PROVE  Left(K, next) = next /\ K # <<>>
<1>1. Len(K) # 0 /\ Len(K) # 1
  <2>1. \A n \in Nat : ~(n <= 1) => n # 0 /\ n # 1
    OBVIOUS
  <2>2. Len(K) \in Nat
    BY LenProperties
  <2> QED
    BY <2>1, <2>2
<1>2. K # <<>>
  BY <1>1, EmptyOne
<1> QED
  BY <1>1, <1>2 DEF Left

\* A group becomes a batch, or not.
LEMMA DispatchInv == ASSUME IInv, Dispatch PROVE IInv'
<1> DEFINE K == worker.kept
<1>1. PICK raises \in BOOLEAN :
        worker' = Left(K, IF raises THEN Dead ELSE Doing("stage1", K, <<>>))
  BY DEF Dispatch, Raises
<1>2. UNCHANGED <<status, intake, flags, disk>> /\ worker.op = "dispatch"
  BY DEF Dispatch
<1>3. /\ K \in Seq(Job) /\ IsInjective(K) /\ Len(K) \in Nat /\ Len(K) <= MaxBatch
      /\ worker.todo = <<>> /\ ToSet(K) = Held /\ Held \subseteq Job
  BY <1>2, Standing, EmptyOne DEF IInv, Shape, Among
<1>4. /\ \A j \in Held : status[j] = "queued"
      /\ \A i, j \in Held : Key[i] = Key[j] /\ Key[i] # Alone
      /\ status' \in [Job -> {"new", "queued", "running"} \cup Terminal]
      /\ CancelHonoured'
  BY <1>2 DEF IInv, Statuses, OneKey, Among, TypeOK, Early, CancelHonoured, flags
<1> DEFINE next == IF raises THEN Dead ELSE Doing("stage1", K, <<>>)
<1>5. next = Dead \/ Len(K) <= 1 \/ (Hands' /\ Held' = ToSet(K) /\ worker'.op # "dead")
  <2> SUFFICES ASSUME ~raises, ~(Len(K) <= 1)
               PROVE  Hands' /\ Held' = ToSet(K) /\ worker'.op # "dead"
    OBVIOUS
  <2> HIDE DEF K
  <2>1. worker' = Doing("stage1", K, <<>>)
    BY <1>1, <1>3, LeftMany
  <2>2. \A j \in ToSet(K) : status'[j] = "queued"
    BY <1>2, <1>3, <1>4
  <2>3. \A i, j \in ToSet(K) : Key[i] = Key[j] /\ Key[i] # Alone
    BY <1>3, <1>4
  <2>4. Hands' /\ Held' = ToSet(K) /\ worker'.op = "stage1"
    BY <1>3, <1>4, <2>1, <2>2, <2>3, StageStart
  <2> QED
    BY <2>4
<1> HIDE DEF K, next
<1>6. worker' = Left(K, next)
  BY <1>1 DEF next
<1> QED
  BY <1>2, <1>3, <1>4, <1>5, <1>6, LeftInv

\* The engine is acquired for what the first stage kept.
LEMMA AcquireInv == ASSUME IInv, Acquire PROVE IInv'
<1> DEFINE K == worker.kept
<1>1. PICK raises \in BOOLEAN :
        worker' = Left(K, IF raises THEN Dead ELSE Doing("stage2", K, <<>>))
  BY DEF Acquire, Raises
<1>2. UNCHANGED <<status, intake, flags, disk>> /\ worker.op = "stage1" /\ worker.todo = <<>>
  BY DEF Acquire
<1>3. /\ K \in Seq(Job) /\ IsInjective(K) /\ Len(K) \in Nat /\ Len(K) <= MaxBatch
      /\ ToSet(K) = Held /\ Held \subseteq Job
  BY <1>2, Standing, EmptyOne DEF IInv, Shape, Among
<1>4. /\ \A j \in Held : status[j] = "queued"
      /\ \A i, j \in Held : Key[i] = Key[j] /\ Key[i] # Alone
      /\ status' \in [Job -> {"new", "queued", "running"} \cup Terminal]
      /\ CancelHonoured'
  BY <1>2 DEF IInv, Statuses, OneKey, Among, TypeOK, Early, CancelHonoured, flags
<1> DEFINE next == IF raises THEN Dead ELSE Doing("stage2", K, <<>>)
<1>5. next = Dead \/ Len(K) <= 1 \/ (Hands' /\ Held' = ToSet(K) /\ worker'.op # "dead")
  <2> SUFFICES ASSUME ~raises, ~(Len(K) <= 1)
               PROVE  Hands' /\ Held' = ToSet(K) /\ worker'.op # "dead"
    OBVIOUS
  <2> HIDE DEF K
  <2>1. worker' = Doing("stage2", K, <<>>)
    BY <1>1, <1>3, LeftMany
  <2>2. \A j \in ToSet(K) : status'[j] = "queued"
    BY <1>2, <1>3, <1>4
  <2>3. \A i, j \in ToSet(K) : Key[i] = Key[j] /\ Key[i] # Alone
    BY <1>3, <1>4
  <2>4. Hands' /\ Held' = ToSet(K) /\ worker'.op = "stage2"
    BY <1>3, <1>4, <2>1, <2>2, <2>3, StageStart
  <2> QED
    BY <2>4
<1> HIDE DEF K, next
<1>6. worker' = Left(K, next)
  BY <1>1 DEF next
<1> QED
  BY <1>2, <1>3, <1>4, <1>5, <1>6, LeftInv

\* The last look at who has been cancelled.
LEMMA FilterInv == ASSUME IInv, Filter PROVE IInv'
<1> DEFINE K == worker.kept
<1>1. UNCHANGED <<intake, flags, disk>> /\ worker.op = "stage2" /\ worker.todo = <<>>
  BY DEF Filter
<1>2. /\ K \in Seq(Job) /\ IsInjective(K) /\ Len(K) \in Nat /\ Len(K) <= MaxBatch
      /\ ToSet(K) = Held /\ Held \subseteq Job
  BY <1>1, Standing, EmptyOne DEF IInv, Shape, Among
<1>3. /\ \A j \in Held : status[j] = "queued"
      /\ \A i, j \in Held : Key[i] = Key[j] /\ Key[i] # Alone
      /\ status \in [Job -> {"new", "queued", "running"} \cup Terminal]
  BY <1>1 DEF IInv, Statuses, OneKey, Among, TypeOK
<1>4. CASE Len(K) > 1
  <2>1. PICK live \in InOrder(K, Held \ cancels) :
          worker' = Left(live, Doing("batch", <<>>, live))
    BY <1>2, <1>4 DEF Filter
  <2>2. status' = Dropped(Held \cap cancels)
    BY <1>2, <1>4 DEF Filter
  <2>3. /\ live \in Seq(Job) /\ ToSet(live) = Held \ cancels /\ Len(live) <= Len(K)
        /\ IsInjective(live)
    BY <1>2, <2>1, InOrderEffect
  <2>4. Len(live) \in Nat /\ Len(live) <= MaxBatch
    <3>1. Len(live) \in Nat /\ MaxBatch \in Nat
      BY <2>3, LenProperties, JobsAssumption
    <3> QED
      BY <1>2, <2>3, <3>1
  <2>5. /\ status' \in [Job -> {"new", "queued", "running"} \cup Terminal]
        /\ \A j \in Job :
             status'[j] = IF j \in Held \cap cancels THEN "cancelled" ELSE status[j]
    BY <1>3, <2>2 DEF Dropped, Terminal
  <2>6. /\ \A j \in Job \ Held : status'[j] = status[j]
        /\ \A j \in Held : status'[j] = "queued" => j \in ToSet(live) /\ status[j] = "queued"
        /\ \A j \in Held : status'[j] # "new" /\ (status'[j] = "done" => status[j] = "done")
        /\ \A j \in ToSet(live) : status'[j] = "queued"
    BY <1>2, <1>3, <2>3, <2>5
  <2>7. CancelHonoured'
    <3>1. /\ early' = early
          /\ \A j \in early : j \in Job /\ status[j] # "done"
      BY <1>1 DEF IInv, Early, CancelHonoured, TypeOK, flags
    <3>2. \A j \in early : status'[j] # "done"
      BY <2>5, <3>1
    <3> QED
      BY <3>1, <3>2 DEF CancelHonoured
  <2>8. Len(live) <= 1 \/ (Hands' /\ Held' = ToSet(live) /\ worker'.op # "dead")
    <3> SUFFICES ASSUME ~(Len(live) <= 1)
                 PROVE  Hands' /\ Held' = ToSet(live) /\ worker'.op # "dead"
      OBVIOUS
    <3>1. worker' = Doing("batch", <<>>, live) /\ live # <<>>
      BY <2>1, <2>3, LeftMany
    <3>2. /\ \A j \in ToSet(live) : status'[j] = "queued"
          /\ \A i, j \in ToSet(live) : Key[i] = Key[j] /\ Key[i] # Alone
      BY <1>3, <2>3, <2>6
    <3> QED
      BY <2>3, <2>4, <2>7, <3>1, <3>2, KeptHands
  <2> HIDE DEF K
  <2> QED
    BY <1>1, <2>1, <2>3, <2>4, <2>5, <2>6, <2>8, LeftInv
<1>5. CASE ~(Len(K) > 1)
  <2>1. worker' = Left(K, Top) /\ status' = status
    BY <1>5 DEF Filter
  <2>2. Len(K) <= 1
    BY <1>2, <1>5
  <2> HIDE DEF K
  <2> QED
    BY <1>1, <1>2, <1>3, <2>1, <2>2, LeftInv
<1> QED
  BY <1>4, <1>5

LEMMA FanHands ==
  ASSUME CancelHonoured', NEW T \in Seq(Job), T # <<>>, IsInjective(T), Len(T) <= MaxBatch,
         NEW K \in Seq(Job), IsInjective(K), Len(K) <= MaxBatch, ToSet(T) \subseteq ToSet(K),
         worker' = Doing("fanout", T, K),
         \A j \in ToSet(T) : status'[j] = "running",
         \A j \in ToSet(K) : status'[j] # "queued"
  PROVE  Hands' /\ Held' = ToSet(K) /\ worker'.op = "fanout"
<1>1. /\ worker' \in [op : Ops, todo : Seq(Job), kept : Seq(Job)] /\ worker'.op = "fanout"
      /\ worker'.todo = T /\ worker'.kept = K
  BY DEF Doing, Ops
<1>2. Held' = ToSet(K)
  BY <1>1 DEF Held
<1>3. Shape'
  BY <1>1 DEF Shape, Among
<1>4. Statuses' /\ Early' /\ Alive' /\ OneKey'
  BY <1>1, <1>2 DEF Statuses, Early, Alive, OneKey, Among
<1> QED
  BY <1>1, <1>2, <1>3, <1>4 DEF Hands

LEMMA CreatesEffect ==
  ASSUME TypeOK, IsFiniteSet(files), NEW j \in Job, Creates(j)
  PROVE  /\ IsFiniteSet(files') /\ out' \in [Job -> files' \cup {NoFile}]
         /\ out'[j] = Fresh(Name[j]) /\ \A i \in Job \ {j} : out'[i] = out[i]
         /\ files' = files \cup {Fresh(Name[j])}
<1>1. /\ out' = [out EXCEPT ![j] = Fresh(Name[j])]
      /\ files' = files \cup {Fresh(Name[j])} /\ out \in [Job -> files \cup {NoFile}]
  BY DEF Creates, TypeOK
<1>2. IsFiniteSet(files')
  BY <1>1, FS_AddElement
<1> QED
  BY <1>1, <1>2

\* A job's status that has changed to "done" is that of a job nobody had cancelled.
LEMMA HonouredStep ==
  ASSUME IInv, early' = early,
         \A j \in Job : status'[j] = "done" => status[j] = "done" \/ j \notin early
  PROVE  CancelHonoured'
<1>1. \A j \in early : j \in Job /\ status[j] # "done"
  BY DEF IInv, Early, CancelHonoured, TypeOK
<1> QED
  BY <1>1 DEF CancelHonoured

\* A job is run alone.
LEMMA RunInv == ASSUME IInv, Run PROVE IInv'
<1> DEFINE T == worker.todo
           j == Head(T)
<1>1. /\ worker.op = "run" /\ status' = [status EXCEPT ![j] = "running"]
      /\ UNCHANGED <<intake, flags>>
      /\ \/ worker' = Dead /\ UNCHANGED disk
         \/ worker' = [worker EXCEPT !.op = "tokens"] /\ Creates(j)
  BY DEF Run
<1>2. /\ T \in Seq(Job) /\ IsInjective(T) /\ Len(T) \in Nat /\ Len(T) <= MaxBatch
      /\ T # <<>> /\ worker.kept = <<>> /\ ToSet(T) = Held /\ Held \subseteq Job
  BY <1>1, Standing, EmptyOne DEF IInv, Shape, Among
<1>3. /\ j \in Job /\ j \in ToSet(T) /\ \A i \in 1 .. Len(T) : T[i] \in ToSet(T)
      /\ status \in [Job -> {"new", "queued", "running"} \cup Terminal]
  BY <1>2, HeadTail, ToSetType DEF IInv, TypeOK
<1>4. /\ status' \in [Job -> {"new", "queued", "running"} \cup Terminal]
      /\ status'[j] = "running" /\ \A i \in Job \ {j} : status'[i] = status[i]
  BY <1>1, <1>3
<1>5. status[j] # "new" /\ early' = early
  BY <1>1, <1>2, <1>3, WaitingIn DEF IInv, flags
<1> HIDE DEF j
<1>6. CancelHonoured'
  BY <1>4, <1>5, HonouredStep
<1>7. \A i \in Held : status'[i] = "queued" => i # j /\ status[i] = "queued"
  BY <1>2, <1>4
<1>8. \A i \in Job : status'[i] = "new" <=> status[i] = "new"
  BY <1>4, <1>5
<1>9. \A i \in 2 .. Len(T) : T[i] \in Job /\ status[T[i]] # "queued"
  BY <1>1, <1>2, <1>3 DEF IInv, Statuses, Among
<1>10. "fanout" \notin Faults => \A i \in ToSet(T) : status[i] \in {"queued", "running"}
  BY DEF IInv, Alive
<1>11. CASE worker' = Dead /\ UNCHANGED disk
  <2>1. Hands' /\ Held' = {} /\ worker'.op = "dead"
    BY <1>6, <1>11, IdleHands DEF Dead
  <2>2. IsFiniteSet(files') /\ out' \in [Job -> files' \cup {NoFile}]
    BY <1>11 DEF disk, IInv, TypeOK
  <2> QED
    BY <1>1, <1>2, <1>3, <1>4, <1>8, <2>1, <2>2, HandsInv
<1>12. CASE worker' = [worker EXCEPT !.op = "tokens"] /\ Creates(j)
  <2>1. worker' = Doing("tokens", T, <<>>)
    BY <1>2, <1>12, Stands DEF IInv, Ops
  <2>2. /\ \A i \in 2 .. Len(T) : status'[T[i]] # "queued"
        /\ "fanout" \notin Faults => \A i \in ToSet(T) : status'[i] \in {"queued", "running"}
    BY <1>2, <1>4, <1>9, <1>10
  <2>3. status'[Head(T)] = "running"
    BY <1>4 DEF j
  <2> HIDE DEF T
  <2>4. Hands' /\ Held' = ToSet(T) /\ worker'.op = "tokens"
    BY <1>2, <1>6, <2>1, <2>2, <2>3, RunHands
  <2>5. IsFiniteSet(files') /\ out' \in [Job -> files' \cup {NoFile}]
    BY <1>3, <1>12, CreatesEffect DEF IInv
  <2> QED
    BY <1>1, <1>2, <1>3, <1>4, <1>7, <1>8, <2>4, <2>5, HandsInv
<1> QED
  BY <1>1, <1>11, <1>12

\* A job that is run alone ends; what remains of a fallback goes on.
LEMMA EndsInv ==
  ASSUME IInv, NEW s \in Terminal, Ends(s), worker.op \in {"tokens", "last"},
         s = "done" => worker.op = "last"
  PROVE  IInv'
<1> DEFINE T == worker.todo
           j == Head(T)
           R == Tail(T)
<1>1. /\ status' = [status EXCEPT ![j] = s] /\ UNCHANGED <<intake, flags, disk>>
      /\ worker' = IF R = <<>> THEN Top ELSE Doing("run", R, <<>>)
  BY DEF Ends
<1>2. /\ T \in Seq(Job) /\ IsInjective(T) /\ Len(T) \in Nat /\ Len(T) <= MaxBatch
      /\ T # <<>> /\ worker.kept = <<>> /\ ToSet(T) = Held /\ Held \subseteq Job
  BY Standing, EmptyOne DEF IInv, Shape, Among
<1>3. /\ j \in Job /\ ToSet(T) = {j} \cup ToSet(R) /\ j \notin ToSet(R)
      /\ \A i \in 1 .. Len(T) : T[i] \in ToSet(T)
      /\ R \in Seq(Job) /\ IsInjective(R) /\ Len(R) = Len(T) - 1 /\ Len(T) \in Nat \ {0}
      /\ \A i \in 1 .. Len(R) : R[i] = T[i + 1] /\ R[i] \in ToSet(R)
  <2>1. /\ j \in Job /\ ToSet(T) = {j} \cup ToSet(R) /\ j \notin ToSet(R)
        /\ R \in Seq(Job) /\ IsInjective(R) /\ Len(R) = Len(T) - 1 /\ Len(T) \in Nat \ {0}
        /\ \A i \in 1 .. Len(R) : R[i] = T[i + 1]
    BY <1>2, HeadTail
  <2>2. /\ \A i \in 1 .. Len(T) : T[i] \in ToSet(T)
        /\ \A i \in 1 .. Len(R) : R[i] \in ToSet(R)
    BY <1>2, <2>1, ToSetType
  <2> QED
    BY <2>1, <2>2
<1>4. status \in [Job -> {"new", "queued", "running"} \cup Terminal]
      /\ out \in [Job -> files \cup {NoFile}]
  BY DEF IInv, TypeOK
<1>5. /\ status' \in [Job -> {"new", "queued", "running"} \cup Terminal]
      /\ status'[j] = s /\ \A i \in Job \ {j} : status'[i] = status[i]
  BY <1>1, <1>3, <1>4
<1>6. status[j] # "new" /\ early' = early /\ (s = "done" => j \notin early)
  BY <1>1, <1>2, <1>3, WaitingIn DEF IInv, Early, flags
<1>7. \A i \in 2 .. Len(T) : T[i] \in Job /\ status[T[i]] # "queued"
  BY <1>2, <1>3 DEF IInv, Statuses, Among
<1>8. "fanout" \notin Faults => \A i \in ToSet(T) : status[i] \in {"queued", "running"}
  BY DEF IInv, Alive
<1> HIDE DEF j, R
<1>9. CancelHonoured'
  BY <1>5, <1>6, HonouredStep
<1>10. \A i \in Job : status'[i] = "new" <=> status[i] = "new"
  BY <1>5, <1>6 DEF Terminal
<1>11. \A i \in ToSet(T) \ {j} : status[i] # "queued"
  <2> SUFFICES ASSUME NEW i \in ToSet(T) \ {j} PROVE status[i] # "queued"
    OBVIOUS
  <2>1. PICK k \in 1 .. Len(R) : R[k] = i
    BY <1>3, ToSetType
  <2>2. k + 1 \in 2 .. Len(T) /\ T[k + 1] = i
    BY <1>3, <2>1
  <2> QED
    BY <1>7, <2>2
<1>12. \A i \in Held : status'[i] # "queued"
  BY <1>2, <1>3, <1>5, <1>11 DEF Terminal
<1>13. IsFiniteSet(files') /\ out' \in [Job -> files' \cup {NoFile}]
  BY <1>1, <1>4 DEF disk, IInv
<1>14. CASE R = <<>>
  <2>1. Hands' /\ Held' = {} /\ worker'.op = "top"
    BY <1>1, <1>9, <1>14, IdleHands DEF Top
  <2> QED
    BY <1>1, <1>2, <1>3, <1>5, <1>10, <1>12, <1>13, <2>1, HandsInv
<1>15. CASE R # <<>>
  <2>1. worker' = Doing("run", R, <<>>)
    BY <1>1, <1>15
  <2>2. /\ \A i \in 2 .. Len(R) : status'[R[i]] # "queued"
        /\ "fanout" \notin Faults => \A i \in ToSet(R) : status'[i] \in {"queued", "running"}
    <3>1. \A i \in ToSet(R) : i \in Held /\ i \in Job \ {j} /\ i \in ToSet(T)
      BY <1>2, <1>3
    <3>2. \A i \in 2 .. Len(R) : R[i] \in ToSet(R)
      BY <1>3
    <3> QED
      BY <1>5, <1>8, <1>12, <3>1, <3>2
  <2>3. Len(R) <= MaxBatch
    BY <1>2, <1>3, JobsAssumption
  <2>4. Hands' /\ Held' = ToSet(R) /\ worker'.op = "run"
    BY <1>3, <1>9, <1>15, <2>1, <2>2, <2>3, RunHands
  <2> QED
    BY <1>1, <1>2, <1>3, <1>5, <1>10, <1>12, <1>13, <2>4, HandsInv
<1> QED
  BY <1>14, <1>15

\* A validation stage keeps a job or fails it.
LEMMA CheckInv == ASSUME IInv, Check PROVE IInv'
<1> DEFINE T == worker.todo
           K == worker.kept
           j == Head(T)
           R == Tail(T)
<1>1. /\ worker.op \in {"stage1", "stage2"} /\ T # <<>> /\ UNCHANGED <<intake, flags>>
      /\ \/ /\ status' = [status EXCEPT ![j] = "error"] /\ Creates(j)
            /\ worker' = [worker EXCEPT !.todo = Tail(@)]
         \/ /\ worker' = [worker EXCEPT !.todo = Tail(@), !.kept = Append(@, j)]
            /\ UNCHANGED <<status, disk>>
  BY DEF Check
<1>2. /\ T \in Seq(Job) /\ IsInjective(T) /\ Len(T) \in Nat
      /\ K \in Seq(Job) /\ IsInjective(K) /\ Len(K) \in Nat
      /\ ToSet(T) \cup ToSet(K) = Held /\ Held \subseteq Job
      /\ worker \in [op : Ops, todo : Seq(Job), kept : Seq(Job)]
  BY Standing DEF IInv, TypeOK
<1>3. ToSet(T) \cap ToSet(K) = {} /\ Len(T) + Len(K) <= MaxBatch
  BY <1>1 DEF IInv, Shape, Among
<1>4. /\ j \in Job /\ ToSet(T) = {j} \cup ToSet(R) /\ j \notin ToSet(R)
      /\ R \in Seq(Job) /\ IsInjective(R) /\ Len(R) = Len(T) - 1
  BY <1>1, <1>2, HeadTail
<1>5. /\ \A i \in Held : status[i] = "queued"
      /\ \A i, k \in Held : Key[i] = Key[k] /\ Key[i] # Alone
  BY <1>1 DEF IInv, Statuses, OneKey, Among
<1>6. /\ status \in [Job -> {"new", "queued", "running"} \cup Terminal]
      /\ out \in [Job -> files \cup {NoFile}] /\ early' = early
  BY <1>1 DEF IInv, TypeOK, flags
<1>7. CASE /\ status' = [status EXCEPT ![j] = "error"] /\ Creates(j)
           /\ worker' = [worker EXCEPT !.todo = Tail(@)]
  <2>1. worker' = Doing(worker.op, R, K)
    BY <1>2, <1>7 DEF Doing
  <2> HIDE DEF j, R, K, T
  <2>2. /\ status' \in [Job -> {"new", "queued", "running"} \cup Terminal]
        /\ status'[j] = "error" /\ \A i \in Job \ {j} : status'[i] = status[i]
    BY <1>4, <1>6, <1>7 DEF Terminal
  <2>3. CancelHonoured'
    BY <1>6, <2>2, HonouredStep
  <2>4. j \in Held /\ j \notin ToSet(R) \cup ToSet(K) /\ ToSet(R) \cup ToSet(K) = Held \ {j}
    BY <1>2, <1>3, <1>4
  <2>5. /\ \A i \in ToSet(R) \cup ToSet(K) : status'[i] = "queued"
        /\ \A i, k \in ToSet(R) \cup ToSet(K) : Key[i] = Key[k] /\ Key[i] # Alone
    BY <1>2, <1>5, <2>2, <2>4
  <2>6. ToSet(R) \cap ToSet(K) = {} /\ Len(R) + Len(K) <= MaxBatch
    BY <1>2, <1>3, <1>4, JobsAssumption
  <2>7. Hands' /\ Held' = ToSet(R) \cup ToSet(K) /\ worker'.op = worker.op
    BY <1>1, <1>2, <1>4, <2>1, <2>3, <2>5, <2>6, StageHands
  <2>8. IsFiniteSet(files') /\ out' \in [Job -> files' \cup {NoFile}]
    BY <1>4, <1>7, CreatesEffect DEF IInv
  <2>9. /\ \A i \in Job : status'[i] = "new" <=> status[i] = "new"
        /\ \A i \in Held : status'[i] = "queued" => i \in Held' /\ status[i] = "queued"
        /\ \A i \in Job \ Held : status'[i] = status[i]
    BY <1>2, <1>5, <2>2, <2>4, <2>7
  <2> QED
    BY <1>1, <2>2, <2>4, <2>7, <2>8, <2>9, HandsInv
<1>8. CASE /\ worker' = [worker EXCEPT !.todo = Tail(@), !.kept = Append(@, j)]
           /\ UNCHANGED <<status, disk>>
  <2> DEFINE A == Append(K, j)
  <2>1. worker' = Doing(worker.op, R, A)
    BY <1>2, <1>8 DEF Doing
  <2>2. /\ A \in Seq(Job) /\ ToSet(A) = ToSet(K) \cup {j} /\ IsInjective(A)
        /\ Len(A) = Len(K) + 1
    BY <1>2, <1>3, <1>4, AppendOne
  <2> HIDE DEF j, R, K, T, A
  <2>3. CancelHonoured'
    BY <1>6, <1>8, HonouredStep
  <2>4. ToSet(R) \cup ToSet(A) = Held /\ ToSet(R) \cap ToSet(A) = {}
    BY <1>2, <1>3, <1>4, <2>2
  <2>5. /\ \A i \in ToSet(R) \cup ToSet(A) : status'[i] = "queued"
        /\ \A i, k \in ToSet(R) \cup ToSet(A) : Key[i] = Key[k] /\ Key[i] # Alone
    BY <1>5, <1>8, <2>4
  <2>6. Len(R) + Len(A) <= MaxBatch
    BY <1>2, <1>3, <1>4, <2>2, JobsAssumption
  <2>7. Hands' /\ Held' = ToSet(R) \cup ToSet(A) /\ worker'.op = worker.op
    BY <1>1, <1>4, <2>1, <2>2, <2>3, <2>4, <2>5, <2>6, StageHands
  <2>8. IsFiniteSet(files') /\ out' \in [Job -> files' \cup {NoFile}]
    BY <1>6, <1>8 DEF IInv, disk
  <2> QED
    BY <1>1, <1>5, <1>6, <1>8, <2>4, <2>7, <2>8, HandsInv
<1> QED
  BY <1>1, <1>7, <1>8

\* The batch is marked running.
LEMMA StartInv == ASSUME IInv, Start PROVE IInv'
<1> DEFINE K == worker.kept
<1>1. /\ worker.op = "batch" /\ UNCHANGED <<intake, flags, disk>>
      /\ status' = [j \in Job |-> IF j \in ToSet(K) THEN "running" ELSE status[j]]
      /\ worker' = [worker EXCEPT !.op = "decode"]
  BY DEF Start
<1>2. /\ K \in Seq(Job) /\ IsInjective(K) /\ Len(K) <= MaxBatch /\ K # <<>>
      /\ worker.todo = <<>> /\ ToSet(K) = Held /\ Held \subseteq Job
  BY <1>1, Standing, EmptyOne DEF IInv, Shape, Among
<1>3. worker' = Doing("decode", <<>>, K)
  BY <1>1, <1>2, Stands DEF IInv, Ops
<1>4. /\ \A i \in Held : status[i] = "queued"
      /\ \A i, k \in Held : Key[i] = Key[k] /\ Key[i] # Alone
      /\ status \in [Job -> {"new", "queued", "running"} \cup Terminal]
      /\ out \in [Job -> files \cup {NoFile}] /\ early' = early
  BY <1>1 DEF IInv, Statuses, OneKey, Among, TypeOK, flags
<1> HIDE DEF K
<1>5. /\ status' \in [Job -> {"new", "queued", "running"} \cup Terminal]
      /\ \A j \in Held : status'[j] = "running"
      /\ \A j \in Job \ Held : status'[j] = status[j]
  BY <1>1, <1>2, <1>4
<1>6. \A i \in Job : status'[i] = "new" <=> status[i] = "new"
  BY <1>4, <1>5
<1>7. CancelHonoured'
  BY <1>4, <1>5, HonouredStep
<1>8. /\ \A j \in ToSet(K) : status'[j] = "running"
      /\ \A i, k \in ToSet(K) : Key[i] = Key[k] /\ Key[i] # Alone
  BY <1>2, <1>4, <1>5
<1>9. Hands' /\ Held' = ToSet(K) /\ worker'.op = "decode"
  BY <1>2, <1>3, <1>7, <1>8, KeptHands
<1>10. IsFiniteSet(files') /\ out' \in [Job -> files' \cup {NoFile}]
  BY <1>1, <1>4 DEF IInv, disk
<1> QED
  BY <1>1, <1>2, <1>5, <1>6, <1>9, <1>10, HandsInv

\* The batched decode: every job has a file, or all are run alone.
LEMMA DecodeInv == ASSUME IInv, Decode PROVE IInv'
<1> DEFINE K == worker.kept
           fresh == [j \in ToSet(K) |-> Fresh(Name[j])]
           new == {Fresh(Name[j]) : j \in ToSet(K)}
<1>1. /\ worker.op = "decode" /\ UNCHANGED <<status, intake, flags>>
      /\ out' = [j \in Job |-> IF j \in ToSet(K) THEN Fresh(Name[j]) ELSE out[j]]
      /\ files' = files \cup new
      /\ worker' = Doing("run", K, <<>>) \/ worker' = Doing("fanout", K, K)
  BY DEF Decode
<1>2. /\ K \in Seq(Job) /\ IsInjective(K) /\ Len(K) \in Nat /\ Len(K) <= MaxBatch
      /\ K # <<>> /\ ToSet(K) = Held /\ Held \subseteq Job
  BY <1>1, Standing, EmptyOne DEF IInv, Shape, Among
<1>3. /\ \A j \in ToSet(K) : status[j] = "running"
      /\ status \in [Job -> {"new", "queued", "running"} \cup Terminal]
      /\ out \in [Job -> files \cup {NoFile}] /\ early' = early
  BY <1>1, <1>2 DEF IInv, Statuses, Among, TypeOK, flags
<1>4. IsFiniteSet(new)
  <2>1. IsFiniteSet(ToSet(K))
    BY <1>2, FS_Subset, JobsAssumption
  <2>2. fresh \in Surjection(ToSet(K), new)
    BY DEF Surjection
  <2> HIDE DEF fresh, new
  <2> QED
    BY <2>1, <2>2, FS_Surjection
<1>5. IsFiniteSet(files') /\ out' \in [Job -> files' \cup {NoFile}]
  <2>1. IsFiniteSet(files')
    BY <1>1, <1>4, FS_Union DEF IInv
  <2>2. \A j \in ToSet(K) : Fresh(Name[j]) \in new
    OBVIOUS
  <2> HIDE DEF new
  <2> QED
    BY <1>1, <1>3, <2>1, <2>2
<1> HIDE DEF K
<1>6. CancelHonoured'
  BY <1>1, <1>3, HonouredStep
<1>7. \A i \in Held : status'[i] # "queued"
  BY <1>1, <1>2, <1>3
<1>8. CASE worker' = Doing("run", K, <<>>)
  <2>1. /\ \A i \in 2 .. Len(K) : status'[K[i]] # "queued"
        /\ "fanout" \notin Faults => \A i \in ToSet(K) : status'[i] \in {"queued", "running"}
    BY <1>1, <1>2, <1>3, ToSetType
  <2>2. Hands' /\ Held' = ToSet(K) /\ worker'.op = "run"
    BY <1>2, <1>6, <1>8, <2>1, RunHands
  <2> QED
    BY <1>1, <1>2, <1>3, <1>5, <1>7, <2>2, HandsInv
<1>9. CASE worker' = Doing("fanout", K, K)
  <2>1. /\ \A j \in ToSet(K) : status'[j] = "running"
        /\ \A j \in ToSet(K) : status'[j] # "queued"
    BY <1>1, <1>3
  <2>2. Hands' /\ Held' = ToSet(K) /\ worker'.op = "fanout"
    BY <1>2, <1>6, <1>9, <2>1, FanHands
  <2> QED
    BY <1>1, <1>2, <1>3, <1>5, <1>7, <2>2, HandsInv
<1> QED
  BY <1>1, <1>8, <1>9

\* One result is handed out, or writing it raises and all are run alone.
LEMMA FanOutInv == ASSUME IInv, FanOut PROVE IInv'
<1> DEFINE T == worker.todo
           K == worker.kept
           j == Head(T)
           R == Tail(T)
<1>1. /\ worker.op = "fanout" /\ UNCHANGED <<intake, flags, disk>>
      /\ \/ /\ worker' = Doing("run", K, <<>>)
            /\ UNCHANGED status /\ "fanout" \in Faults
         \/ /\ status' = [status EXCEPT ![j] = Outcome(j)]
            /\ worker' = IF R = <<>> THEN Top ELSE [worker EXCEPT !.todo = R]
  BY DEF FanOut, Raises
<1>2. /\ T \in Seq(Job) /\ IsInjective(T) /\ Len(T) \in Nat /\ Len(T) <= MaxBatch
      /\ K \in Seq(Job) /\ IsInjective(K) /\ Len(K) \in Nat /\ Len(K) <= MaxBatch
      /\ ToSet(T) \cup ToSet(K) = Held /\ Held \subseteq Job
      /\ worker \in [op : Ops, todo : Seq(Job), kept : Seq(Job)]
  BY Standing DEF IInv, TypeOK
<1>3. T # <<>> /\ ToSet(T) \subseteq ToSet(K)
  BY <1>1 DEF IInv, Shape, Among
<1>4. /\ j \in Job /\ ToSet(T) = {j} \cup ToSet(R) /\ j \notin ToSet(R)
      /\ R \in Seq(Job) /\ IsInjective(R) /\ Len(R) = Len(T) - 1
  BY <1>2, <1>3, HeadTail
<1>5. /\ \A i \in ToSet(T) : status[i] = "running"
      /\ \A i \in Held : status[i] # "queued"
  BY <1>1 DEF IInv, Statuses, Among
<1>6. /\ status \in [Job -> {"new", "queued", "running"} \cup Terminal]
      /\ out \in [Job -> files \cup {NoFile}] /\ early' = early /\ early \subseteq cancels
  BY <1>1 DEF IInv, TypeOK, flags
<1>7. IsFiniteSet(files') /\ out' \in [Job -> files' \cup {NoFile}]
  BY <1>1, <1>6 DEF IInv, disk
<1>8. ToSet(K) = Held
  BY <1>2, <1>3
<1>9. CASE worker' = Doing("run", K, <<>>) /\ UNCHANGED status /\ "fanout" \in Faults
  <2> HIDE DEF K
  <2>1. CancelHonoured'
    BY <1>6, <1>9, HonouredStep
  <2>2. \A i \in 2 .. Len(K) : status'[K[i]] # "queued"
    BY <1>2, <1>5, <1>8, <1>9, ToSetType
  <2>3. K # <<>>
    BY <1>3, <1>4, EmptyOne
  <2>4. Hands' /\ Held' = ToSet(K) /\ worker'.op = "run"
    BY <1>2, <1>9, <2>1, <2>2, <2>3, RunHands
  <2> QED
    BY <1>1, <1>5, <1>6, <1>7, <1>8, <1>9, <2>4, HandsInv
<1>10. CASE /\ status' = [status EXCEPT ![j] = Outcome(j)]
            /\ worker' = IF R = <<>> THEN Top ELSE [worker EXCEPT !.todo = R]
  <2>1. R # <<>> => worker' = Doing("fanout", R, K)
    BY <1>1, <1>2, <1>10 DEF Doing
  <2>2. R = <<>> => worker' = Top
    BY <1>10
  <2>3. status' = [status EXCEPT ![j] = Outcome(j)]
    BY <1>10
  <2> HIDE DEF j, R, K, T
  <2>4. /\ status' \in [Job -> {"new", "queued", "running"} \cup Terminal]
        /\ status'[j] = Outcome(j) /\ \A i \in Job \ {j} : status'[i] = status[i]
    BY <1>4, <1>6, <2>3 DEF Terminal, Outcome
  <2>5. status'[j] \in {"cancelled", "done"} /\ (status'[j] = "done" => j \notin early)
    BY <1>6, <2>4 DEF Outcome
  <2>6. CancelHonoured'
    BY <1>6, <2>4, <2>5, HonouredStep
  <2>7. j \in Held /\ status[j] = "running"
    BY <1>4, <1>5, <1>2
  <2>8. /\ \A i \in Job : status'[i] = "new" <=> status[i] = "new"
        /\ \A i \in Job \ Held : status'[i] = status[i]
        /\ \A i \in Held : status'[i] # "queued"
    BY <1>2, <1>5, <2>4, <2>5, <2>7
  <2>9. CASE R = <<>>
    <3>1. Hands' /\ Held' = {} /\ worker'.op = "top"
      BY <2>2, <2>6, <2>9, IdleHands DEF Top
    <3> QED
      BY <1>1, <1>7, <2>4, <2>8, <3>1, HandsInv
  <2>10. CASE R # <<>>
    <3>1. Len(R) <= MaxBatch
      BY <1>2, <1>4, JobsAssumption
    <3>2. /\ \A i \in ToSet(R) : status'[i] = "running"
          /\ \A i \in ToSet(K) : status'[i] # "queued"
          /\ ToSet(R) \subseteq ToSet(K)
      BY <1>2, <1>3, <1>4, <1>5, <1>8, <2>4, <2>8
    <3>3. Hands' /\ Held' = ToSet(K) /\ worker'.op = "fanout"
      BY <1>2, <1>4, <2>1, <2>6, <2>10, <3>1, <3>2, FanHands
    <3> QED
      BY <1>1, <1>7, <1>8, <2>4, <2>8, <3>3, HandsInv
  <2> QED
    BY <2>9, <2>10
<1> QED
  BY <1>1, <1>9, <1>10

\* What a cancelled job that is passed over leaves behind.
LEMMA DroppedEffect ==
  ASSUME IInv, NEW S, status' = Dropped(S \cap cancels)
  PROVE  /\ status' \in [Job -> {"new", "queued", "running"} \cup Terminal]
         /\ \A j \in Job : status'[j] = IF j \in S \cap cancels THEN "cancelled" ELSE status[j]
         /\ early' = early => CancelHonoured'
<1>1. status \in [Job -> {"new", "queued", "running"} \cup Terminal]
  BY DEF IInv, TypeOK
<1>2. /\ status' \in [Job -> {"new", "queued", "running"} \cup Terminal]
      /\ \A j \in Job : status'[j] = IF j \in S \cap cancels THEN "cancelled" ELSE status[j]
  BY <1>1 DEF Dropped, Terminal
<1> QED
  BY <1>2, HonouredStep

\* The first that waits is taken: it is held now, or passed over, or the sentinel.
LEMMA TakenInv ==
  ASSUME IInv, Waiting # <<>>, Popped, puts' = puts, UNCHANGED <<flags, disk>>,
         status' = Dropped({Head(Waiting)} \cap cancels),
         worker.op # "dead", worker'.op # "dead", Hands',
         Held' = Held \/ (Held' = Held \cup {Head(Waiting)} /\ Head(Waiting) # Stop),
         Head(Waiting) = Stop \/ Head(Waiting) \in Held' \cup cancels
  PROVE  IInv'
<1>1. /\ Waiting' = Tail(Waiting) /\ queue' \in Seq(Job \cup {Stop}) /\ peeked' \in Seq(Job)
  BY PoppedEffect DEF IInv
<1>2. IsInjective(Waiting')
  BY <1>1, Types, HeadTail DEF IInv, TypeOK
<1>3. /\ status' \in [Job -> {"new", "queued", "running"} \cup Terminal]
      /\ \A j \in Job : status'[j] =
           IF j \in {Head(Waiting)} \cap cancels THEN "cancelled" ELSE status[j]
  BY DroppedEffect
<1>4. TypeOK'
  BY <1>1, <1>2, <1>3 DEF IInv, TypeOK, Hands, flags, disk
<1>5. Head(Waiting) = Stop \/ (Head(Waiting) \in Job /\ status[Head(Waiting)] = "queued")
  BY HeadWaiting DEF IInv
<1>6. /\ \A j \in Job : status'[j] = "new" <=> status[j] = "new"
      /\ \A j \in Job \ {Head(Waiting)} : status'[j] = status[j]
      /\ Head(Waiting) # Stop => Head(Waiting) \in Held' \/ status'[Head(Waiting)] # "queued"
      /\ Head(Waiting) = Stop => Held' = Held
      /\ Held \subseteq Held' /\ Held' \subseteq Held \cup {Head(Waiting)}
  <2>1. /\ Held \subseteq Held' /\ Held' \subseteq Held \cup {Head(Waiting)}
        /\ Head(Waiting) = Stop => Held' = Held
    OBVIOUS
  <2>2. /\ \A j \in Job : status'[j] = "new" <=> status[j] = "new"
        /\ \A j \in Job \ {Head(Waiting)} : status'[j] = status[j]
    <3>1. \A j \in Job \ {Head(Waiting)} : status'[j] = status[j]
      BY <1>3
    <3>2. Head(Waiting) \in Job => status[Head(Waiting)] # "new"
      BY <1>5, JobsAssumption
    <3>3. Head(Waiting) \in Job =>
            status'[Head(Waiting)] \in {"cancelled", status[Head(Waiting)]}
      BY <1>3
    <3> QED
      BY <3>1, <3>2, <3>3
  <2>3. ASSUME Head(Waiting) # Stop, Head(Waiting) \notin Held'
        PROVE  status'[Head(Waiting)] # "queued"
    <3>1. Head(Waiting) \in Job /\ Head(Waiting) \in cancels
      BY <1>5, <2>3
    <3> QED
      BY <1>3, <3>1
  <2> QED
    BY <2>1, <2>2, <2>3
<1>7. Line'
  BY <1>1, <1>6, LineTake DEF IInv, flags
<1>8. InTurn'
  BY DEF IInv, InTurn
<1> QED
  BY <1>4, <1>7, <1>8 DEF IInv, Hands, disk

\* The worker takes a job.
LEMMA TakeInv == ASSUME IInv, Take PROVE IInv'
<1> DEFINE j == Head(Waiting)
<1>1. /\ worker.op = "get" /\ Waiting # <<>> /\ Popped /\ puts' = puts
      /\ UNCHANGED <<flags, disk>> /\ status' = Dropped({j} \cap cancels)
      /\ worker' = IF j = Stop THEN Doing("exited", <<>>, <<>>)
                   ELSE IF j \in cancels THEN Top
                   ELSE IF Key[j] = Alone THEN Doing("run", <<j>>, <<>>)
                   ELSE Doing("group", <<>>, <<j>>)
  BY DEF Take
<1>2. Held = {} /\ worker.todo = <<>> /\ worker.kept = <<>>
  BY <1>1, EmptyOne DEF IInv, Shape, Among, Held
<1>3. CancelHonoured'
  BY <1>1, DroppedEffect DEF flags
<1>4. CASE j = Stop \/ j \in cancels
  <2>1. PICK o \in {"top", "exited"} : worker' = Doing(o, <<>>, <<>>)
    BY <1>1, <1>4 DEF Top
  <2>2. Hands' /\ Held' = {} /\ worker'.op = o
    BY <1>3, <2>1, IdleHands
  <2> QED
    BY <1>1, <1>2, <1>4, <2>2, TakenInv
<1>5. CASE j # Stop /\ j \notin cancels
  <2>1. j \in Job /\ status[j] = "queued"
    BY <1>1, <1>5, HeadWaiting DEF IInv
  <2>2. /\ <<j>> \in Seq(Job) /\ Len(<<j>>) = 1 /\ <<j>> # <<>> /\ ToSet(<<j>>) = {j}
        /\ IsInjective(<<j>>)
    BY <2>1, SingleOne
  <2>3. Len(<<j>>) <= MaxBatch
    <3>1. 1 <= MaxBatch
      BY JobsAssumption
    <3> QED
      BY <2>2, <3>1
  <2>4. status'[j] = "queued"
    BY <1>1, <1>5, <2>1, DroppedEffect
  <2> HIDE DEF j
  <2>5. CASE Key[j] = Alone
    <3>1. worker' = Doing("run", <<j>>, <<>>)
      BY <1>1, <1>5, <2>5
    <3>2. \A i \in 2 .. Len(<<j>>) : status'[<<j>>[i]] # "queued"
      BY <2>2
    <3>3. Hands' /\ Held' = {j} /\ worker'.op = "run"
      BY <1>3, <2>2, <2>3, <2>4, <3>1, <3>2, RunHands
    <3> QED
      BY <1>1, <1>2, <1>5, <3>3, TakenInv DEF j
  <2>6. CASE Key[j] # Alone
    <3>1. worker' = Doing("group", <<>>, <<j>>)
      BY <1>1, <1>5, <2>6
    <3>2. /\ \A i \in ToSet(<<j>>) : status'[i] = "queued"
          /\ \A i, k \in ToSet(<<j>>) : Key[i] = Key[k] /\ Key[i] # Alone
      BY <2>2, <2>4, <2>6
    <3>3. Hands' /\ Held' = {j} /\ worker'.op = "group"
      BY <1>3, <2>2, <2>3, <3>1, <3>2, KeptHands
    <3> QED
      BY <1>1, <1>2, <1>5, <3>3, TakenInv DEF j
  <2> QED
    BY <2>5, <2>6
<1> QED
  BY <1>4, <1>5

\* The worker looks ahead.
LEMMA PeekInv == ASSUME IInv, Peek PROVE IInv'
<1> DEFINE j == Head(Waiting)
           K == worker.kept
           other == j # Stop /\ j \notin cancels /\ Key[j] # Key[K[1]]
<1>1. /\ worker.op = "group" /\ ~Full /\ Waiting # <<>> /\ puts' = puts
      /\ UNCHANGED <<flags, disk>> /\ status' = Dropped({j} \cap cancels)
      /\ IF other THEN Deferred(j) ELSE Popped
      /\ worker' = IF j = Stop \/ other THEN [worker EXCEPT !.op = "dispatch"]
                   ELSE IF j \in cancels THEN worker
                   ELSE [worker EXCEPT !.kept = Append(@, j)]
  BY DEF Peek
<1>2. /\ worker = Doing("group", <<>>, K) /\ worker.todo = <<>> /\ K # <<>>
      /\ K \in Seq(Job) /\ IsInjective(K) /\ Len(K) \in Nat /\ Len(K) <= MaxBatch
      /\ ToSet(K) = Held /\ Held \subseteq Job
      /\ worker \in [op : Ops, todo : Seq(Job), kept : Seq(Job)]
  BY <1>1, Standing, EmptyOne DEF IInv, TypeOK, Shape, Among
<1>3. /\ \A i \in Held : status[i] = "queued"
      /\ \A i, k \in Held : Key[i] = Key[k] /\ Key[i] # Alone
  BY <1>1 DEF IInv, Statuses, OneKey, Among
<1>4. /\ \/ j = Stop
         \/ j \in Job \ Held /\ status[j] = "queued" /\ j # Stop
      /\ K[1] \in Held
  BY <1>1, <1>2, HeadWaiting, HeadTail DEF IInv
<1>5. /\ CancelHonoured'
      /\ status' \in [Job -> {"new", "queued", "running"} \cup Terminal]
      /\ \A i \in Job : status'[i] = IF i \in {j} \cap cancels THEN "cancelled" ELSE status[i]
  BY <1>1, DroppedEffect DEF flags
<1>6. \A i \in Held : status'[i] = "queued"
  BY <1>2, <1>3, <1>4, <1>5, JobsAssumption
<1>7. ASSUME NEW o \in {"group", "dispatch"}, worker' = Doing(o, <<>>, K)
      PROVE  Hands' /\ Held' = Held /\ worker'.op = o
  <2>1. /\ \A i \in ToSet(K) : status'[i] = "queued"
        /\ \A i, k \in ToSet(K) : Key[i] = Key[k] /\ Key[i] # Alone
    BY <1>2, <1>3, <1>6
  <2> HIDE DEF K
  <2> QED
    BY <1>2, <1>5, <1>7, <2>1, KeptHands
<1>8. CASE other
  <2>1. Deferred(j) /\ worker' = [worker EXCEPT !.op = "dispatch"] /\ j \in Job
        /\ j \notin cancels
    BY <1>1, <1>4, <1>8
  <2>2. worker' = Doing("dispatch", <<>>, K)
    BY <1>2, <2>1, Stands DEF IInv, Ops
  <2>3. Waiting' = Waiting /\ queue' \in Seq(Job \cup {Stop}) /\ peeked' \in Seq(Job)
    BY <1>1, <2>1, DeferredEffect DEF IInv
  <2>4. Hands' /\ Held' = Held /\ worker'.op = "dispatch"
    BY <1>7, <2>2
  <2>5. \A i \in Job : status'[i] = status[i]
    BY <1>5, <2>1
  <2>6. TypeOK'
    BY <1>1, <1>5, <2>3, <2>4 DEF IInv, TypeOK, Hands, flags, disk
  <2>7. Line'
    BY <1>1, <1>2, <2>3, <2>4, <2>5, LineFrame DEF IInv, flags
  <2>8. InTurn'
    BY <1>1 DEF IInv, InTurn
  <2> QED
    BY <1>1, <2>4, <2>6, <2>7, <2>8 DEF IInv, Hands, disk
<1>9. CASE ~other /\ j = Stop
  <2>1. worker' = Doing("dispatch", <<>>, K)
    BY <1>1, <1>2, <1>9, Stands DEF IInv, Ops
  <2> QED
    BY <1>1, <1>7, <1>9, <2>1, TakenInv
<1>10. CASE ~other /\ j # Stop /\ j \in cancels
  <2>1. worker' = Doing("group", <<>>, K)
    BY <1>1, <1>2, <1>10
  <2> QED
    BY <1>1, <1>7, <1>10, <2>1, TakenInv
<1>11. CASE ~other /\ j # Stop /\ j \notin cancels
  <2> DEFINE A == Append(K, j)
  <2>1. worker' = Doing("group", <<>>, A)
    <3>1. worker' = [worker EXCEPT !.kept = Append(@, j)]
      BY <1>1, <1>11
    <3>2. worker \in [op : Ops, todo : Seq(Job), kept : Seq(Job)]
      BY <1>2
    <3>3. worker' = Doing(worker.op, worker.todo, A)
      BY <3>1, <3>2 DEF Doing
    <3> QED
      BY <1>1, <1>2, <3>3
  <2>2. j \in Job \ Held /\ status[j] = "queued" /\ Key[j] = Key[K[1]]
    BY <1>4, <1>11
  <2>3. /\ A \in Seq(Job) /\ ToSet(A) = Held \cup {j} /\ IsInjective(A)
        /\ Len(A) = Len(K) + 1 /\ A # <<>>
    BY <1>2, <2>2, AppendOne
  <2>4. Len(A) <= MaxBatch
    <3>1. Len(K) \in Nat /\ Len(K) <= MaxBatch /\ Len(K) # MaxBatch /\ MaxBatch \in Nat
      BY <1>1, <1>2, JobsAssumption DEF Full
    <3> QED
      BY <2>3, <3>1
  <2>5. /\ \A i \in ToSet(A) : status'[i] = "queued"
        /\ \A i, k \in ToSet(A) : Key[i] = Key[k] /\ Key[i] # Alone
    BY <1>3, <1>4, <1>5, <1>6, <1>11, <2>2, <2>3
  <2> HIDE DEF A
  <2>6. Hands' /\ Held' = Held \cup {j} /\ worker'.op = "group"
    BY <1>5, <2>1, <2>3, <2>4, <2>5, KeptHands
  <2> QED
    BY <1>1, <1>11, <2>6, TakenInv
<1> QED
  BY <1>8, <1>9, <1>10, <1>11

------------------------------------------------------------------------------
(* The theorems. *)

LEMMA InitIInv == Init => IInv
<1> SUFFICES ASSUME Init PROVE IInv
  OBVIOUS
<1>1. /\ status = [j \in Job |-> "new"] /\ puts = <<>> /\ queue = <<>> /\ peeked = <<>>
      /\ cancels = {} /\ early = {} /\ paused \in BOOLEAN /\ stop = FALSE
      /\ out = [j \in Job |-> NoFile] /\ files = {}
      /\ worker.op = "top" /\ worker.todo = <<>> /\ worker.kept = <<>>
      /\ worker = Doing("top", <<>>, <<>>)
  BY DEF Init, Top, Doing
<1>2. Waiting = <<>>
  BY <1>1 DEF Waiting
<1>3. Held = {}
  BY <1>1, EmptyOne DEF Held
<1>4. IsFiniteSet(files)
  BY <1>1, FS_EmptySet
<1>5. worker \in [op : Ops, todo : Seq(Job), kept : Seq(Job)]
  BY <1>1, EmptyOne DEF Doing, Ops
<1>6. Len(worker.todo) = 0 /\ Len(worker.kept) = 0 /\ MaxBatch \in Nat
  BY <1>1, EmptyOne, JobsAssumption
<1>7. 0 <= MaxBatch /\ 0 + 0 <= MaxBatch
  BY <1>6
<1>8. TypeOK
  BY <1>1, <1>2, <1>5, <1>6, <1>7, EmptyOne DEF TypeOK
<1>9. Line
  <2>1. TakenUpTo(0)
    BY <1>1, <1>2, <1>3, EmptyOne DEF TakenUpTo
  <2> QED
    BY <1>1, <2>1, EmptyOne DEF Line
<1>10. Shape
  BY <1>1, <1>6, <1>7, EmptyOne DEF Shape, Among
<1>11. Statuses /\ Early /\ Alive /\ OneKey
  BY <1>1, <1>3, EmptyOne DEF Statuses, Early, CancelHonoured, Alive, OneKey, Among
<1>12. InTurn
  BY <1>1, EmptyOne DEF InTurn
<1> QED
  BY <1>4, <1>8, <1>9, <1>10, <1>11, <1>12 DEF IInv

LEMMA WorkerInv == IInv /\ WorkerStep => IInv'
<1> SUFFICES ASSUME IInv, WorkerStep PROVE IInv'
  OBVIOUS
<1>1. CASE Interrupted
  BY <1>1, EndsInv DEF Interrupted, Terminal
<1>2. CASE Finished
  BY <1>2, EndsInv DEF Finished, Terminal
<1>3. CASE Failed
  BY <1>3, EndsInv DEF Failed, Terminal
<1> QED
  BY <1>1, <1>2, <1>3, LoopInv, TakeInv, PeekInv, DispatchInv, RunInv, CheckInv, AcquireInv,
     FilterInv, StartInv, DecodeInv, FanOutInv DEF WorkerStep

LEMMA NextIInv == IInv /\ [Next]_vars => IInv'
<1> SUFFICES ASSUME IInv, [Next]_vars PROVE IInv'
  OBVIOUS
<1>1. CASE UNCHANGED vars
  <2>1. TypeOK'
    BY <1>1 DEF IInv, TypeOK, Waiting, vars, intake, flags, disk
  <2>2. Line'
    BY <1>1, LineFrame DEF IInv, Held, Waiting, vars, intake, flags
  <2>3. InTurn'
    BY <1>1 DEF IInv, InTurn, vars, intake
  <2> QED
    BY <1>1, <2>1, <2>2, <2>3, AsideInv DEF vars, intake, flags
<1> QED
  BY <1>1, RequestInv, WorkerInv DEF Next

\* A status changes where a job is submitted, where one that waits is passed over, and
\* in the worker's hands.
LEMMA WhoChanges ==
  ASSUME IInv, [Next]_vars, NEW j \in Job, status'[j] # status[j]
  PROVE  \/ status[j] = "new" /\ status'[j] = "queued"
         \/ status[j] = "queued" /\ (status'[j] = "running" => Start /\ j \in Held)
         \/ /\ j \in ToSet(worker.todo) /\ worker.op \in {"run", "tokens", "last", "fanout"}
            /\ status'[j] = "running" => Run /\ j = Head(worker.todo)
<1>1. /\ status \in [Job -> {"new", "queued", "running"} \cup Terminal]
      /\ worker.todo # <<>> => Head(worker.todo) \in ToSet(worker.todo) \cap Job
      /\ worker.op \in {"run", "tokens", "last", "fanout"} => worker.todo # <<>>
  <2>1. worker.todo \in Seq(Job)
    BY Standing
  <2>2. worker.op \in {"run", "tokens", "last", "fanout"} => worker.todo # <<>>
    BY DEF IInv, Shape, Among
  <2>3. worker.todo # <<>> => Head(worker.todo) \in ToSet(worker.todo) \cap Job
    BY <2>1, HeadTail
  <2> QED
    BY <2>2, <2>3 DEF IInv, TypeOK
<1>2. CASE \E r \in Requests : Submit(r)
  BY <1>1, <1>2 DEF Submit
<1>3. CASE Take \/ Peek
  <2>1. status' = Dropped({Head(Waiting)} \cap cancels) /\ Waiting # <<>>
    BY <1>3 DEF Take, Peek
  <2>2. status'[j] = "cancelled" /\ j = Head(Waiting)
    BY <2>1, DroppedEffect
  <2> QED
    BY <2>1, <2>2, HeadWaiting, JobsAssumption DEF IInv
<1>4. CASE Run
  BY <1>1, <1>4 DEF Run
<1>5. CASE Interrupted \/ Finished \/ Failed
  <2>1. PICK s \in Terminal : status' = [status EXCEPT ![Head(worker.todo)] = s]
    BY <1>5 DEF Interrupted, Finished, Failed, Ends, Terminal
  <2>2. worker.op \in {"tokens", "last"}
    BY <1>5 DEF Interrupted, Finished, Failed
  <2> QED
    BY <1>1, <2>1, <2>2 DEF Terminal
<1>6. CASE Check
  <2>1. /\ worker.op \in {"stage1", "stage2"} /\ worker.todo # <<>>
        /\ status' = [status EXCEPT ![Head(worker.todo)] = "error"]
    BY <1>6 DEF Check
  <2>2. status[Head(worker.todo)] = "queued"
    BY <1>1, <2>1, Standing DEF IInv, Statuses, Among
  <2> QED
    BY <1>1, <2>1, <2>2
<1>7. CASE Filter
  <2>1. worker.op = "stage2" /\ status' = Dropped(ToSet(worker.kept) \cap cancels)
    BY <1>7 DEF Filter
  <2>2. status'[j] = "cancelled" /\ j \in ToSet(worker.kept)
    BY <2>1, DroppedEffect
  <2> QED
    BY <2>1, <2>2, Standing DEF IInv, Statuses, Among
<1>8. CASE Start
  <2>1. worker.op = "batch" /\ j \in ToSet(worker.kept)
    BY <1>8 DEF Start
  <2> QED
    BY <1>8, <2>1, Standing DEF IInv, Statuses, Among
<1>9. CASE FanOut
  <2>1. worker.op = "fanout"
        /\ status' = [status EXCEPT ![Head(worker.todo)] = Outcome(Head(worker.todo))]
    BY <1>9 DEF FanOut
  <2> QED
    BY <1>1, <2>1 DEF Outcome
<1>10. CASE UNCHANGED status
  BY <1>10
<1>11. ASSUME NEW i \in Job, Enqueue(i) \/ Cancel(i) PROVE FALSE
  BY <1>11 DEF Enqueue, Cancel
<1>12. ~Pause /\ ~Shutdown /\ ~PutStop
  BY DEF Pause, Shutdown, PutStop
<1>13. ~Loop /\ ~Resumed /\ ~Grouped /\ ~Dispatch /\ ~LastToken /\ ~Acquire /\ ~Decode
  BY DEF Loop, Resumed, Grouped, Dispatch, LastToken, Acquire, Decode
<1>14. ~UNCHANGED vars
  BY DEF vars
<1> QED
  BY <1>2, <1>3, <1>4, <1>5, <1>6, <1>7, <1>8, <1>9, <1>11, <1>12, <1>13, <1>14
  DEF Next, Request, WorkerStep

\* The worker's hands, the statuses and the line fit together after every step
\* (jobs.py, runner.py).
THEOREM TypeCorrect == Spec => []TypeOK
<1>1. IInv => TypeOK
  BY DEF IInv
<1> QED
  BY <1>1, InitIInv, NextIInv, PTL DEF Spec

\* A job whose cancel came while it was queued is never reported done, in every
\* interleaving of request threads and worker, with every error (jobs.py:206-209,
\* 221-224; runner.py:352, 544-554, 673-675).
THEOREM CancelAlwaysHonoured == Spec => []CancelHonoured
<1>1. IInv => CancelHonoured
  BY DEF IInv, Early
<1> QED
  BY <1>1, InitIInv, NextIInv, PTL DEF Spec

\* No job starts while one still waits that stands before it in its request, or was put
\* on the queue before it, however the requests interleave, and peeked at and put back,
\* grouped or failed together or not (jobs.py:77-79, 124-125, 191-193).
THEOREM ServedInOrder == Spec => FirstComeFirstServed
<1> DEFINE InOrderOf(a, b) ==
      Precedes(a, b) /\ status[b] = "queued" /\ status'[b] = "running"
        => status'[a] # "queued"
<1>1. IInv /\ [Next]_vars => [\A a, b \in Job : InOrderOf(a, b)]_vars
  <2> SUFFICES ASSUME IInv, [Next]_vars, NEW a \in Job, NEW b \in Job, Precedes(a, b),
                      status[b] = "queued", status'[b] = "running", status'[a] = "queued"
               PROVE  FALSE
    OBVIOUS
  <2>1. PICK n \in 0 .. Len(puts) : TakenUpTo(n)
    BY DEF IInv, Line
  <2>2. DOMAIN puts = 1 .. Len(puts) /\ Len(puts) \in Nat /\ IsInjective(puts)
    BY LenProperties DEF IInv, TypeOK
  <2>3. \/ Start /\ b \in Held
        \/ Run /\ b = Head(worker.todo) /\ b \in ToSet(worker.todo)
    BY WhoChanges
  <2>4. b \in Held /\ worker.op # "dead"
    BY <2>3 DEF Held, Start, Run
  <2>5. PICK q \in 1 .. n : puts[q] = b
    BY <2>1, <2>4 DEF TakenUpTo
  <2>6. \E p \in 1 .. q - 1 : puts[p] = a
    <3>1. q \in 1 .. Len(puts)
      BY <2>2, <2>5
    <3>2. CASE Behind(a, b)
      BY <2>5, <3>1, <3>2 DEF IInv, InTurn
    <3>3. CASE \E m, k \in DOMAIN puts : m < k /\ puts[m] = a /\ puts[k] = b
      <4>1. PICK m, k \in DOMAIN puts : m < k /\ puts[m] = a /\ puts[k] = b
        BY <3>3
      <4>2. k = q
        BY <2>2, <2>5, <3>1, <4>1 DEF IsInjective
      <4> QED
        BY <2>2, <4>1, <4>2
    <3> QED
      BY <3>2, <3>3 DEF Precedes
  <2>7. PICK p \in 1 .. n : p # q /\ puts[p] = a
    BY <2>2, <2>5, <2>6
  <2>8. a # b
    <3>1. p \in 1 .. Len(puts) /\ q \in 1 .. Len(puts)
      BY <2>2, <2>5, <2>7
    <3> QED
      BY <2>2, <2>5, <2>7, <3>1 DEF IsInjective
  <2>9. status[a] = "queued"
    <3>1. status'[a] = status[a] \/ status[a] = "new" \/ status[a] = "queued" \/ Run
      BY <2>3, WhoChanges DEF Start, Run
    <3>2. status[a] # "new"
      <4>1. p \in 1 .. Len(puts)
        BY <2>2, <2>7
      <4> QED
        BY <2>7, <4>1, ToSetType DEF IInv, Line, TypeOK
    <3>3. Run => status'[a] = status[a]
      BY <2>3, <2>8 DEF Run, Start, IInv, TypeOK
    <3> QED
      BY <3>1, <3>2, <3>3
  <2>10. a \in Held
    <3>1. a # Stop
      BY JobsAssumption
    <3> QED
      BY <2>1, <2>4, <2>7, <2>9, <3>1 DEF TakenUpTo
  <2>11. CASE Start
    <3>1. worker.op = "batch" /\ worker.todo = <<>>
      BY <2>11 DEF Start, IInv, Shape, Among
    <3>2. a \in ToSet(worker.kept)
      BY <2>10, <3>1, EmptyOne DEF Held
    <3> QED
      BY <2>11, <3>2 DEF Start
  <2>12. CASE Run
    <3>1. worker.op = "run" /\ worker.kept = <<>> /\ worker.todo \in Seq(Job)
          /\ worker.todo # <<>>
      BY <2>12, Standing DEF Run, IInv, Shape, Among
    <3>2. a \in ToSet(worker.todo) /\ a # Head(worker.todo)
      BY <2>3, <2>8, <2>10, <2>12, <3>1, EmptyOne DEF Held, Run, Start
    <3>3. PICK i \in 1 .. Len(worker.todo) : worker.todo[i] = a
      BY <3>1, <3>2, ToSetType
    <3>4. i # 1
      BY <3>1, <3>2, <3>3, HeadTail
    <3>5. i \in 2 .. Len(worker.todo)
      BY <3>1, <3>3, <3>4, LenProperties
    <3> QED
      BY <2>9, <3>1, <3>3, <3>5 DEF IInv, Statuses, Among
  <2> QED
    BY <2>3, <2>11, <2>12
<1>2. [][\A a, b \in Job : InOrderOf(a, b)]_vars <=> FirstComeFirstServed
  BY PTL DEF FirstComeFirstServed
<1> QED
  BY <1>1, <1>2, InitIInv, NextIInv, PTL DEF Spec

\* A job ends once, as long as handing out one result of a batch does not raise
\* (app.py:97-102): the fallback after that runs again the jobs that are done.
THEOREM EndsOnce == ASSUME "fanout" \notin Faults PROVE Spec => TerminalIsFinal
<1> DEFINE Final == \A j \in Job : status[j] \in Terminal => status'[j] = status[j]
<1>1. IInv /\ [Next]_vars => [Final]_vars
  <2> SUFFICES ASSUME IInv, [Next]_vars, NEW j \in Job, status[j] \in Terminal,
                      status'[j] # status[j]
               PROVE  FALSE
    OBVIOUS
  <2>1. status[j] \notin {"new", "queued", "running"}
    BY DEF Terminal
  <2>2. j \in ToSet(worker.todo)
    BY <2>1, WhoChanges
  <2> QED
    BY <2>1, <2>2 DEF IInv, Alive
<1>2. [][Final]_vars <=> TerminalIsFinal
  BY PTL DEF TerminalIsFinal
<1> QED
  BY <1>1, <1>2, InitIInv, NextIInv, PTL DEF Spec

------------------------------------------------------------------------------
(* The output files. *)

\* _unique_base finds a base name that no file has: among one more candidate than
\* there are files there is a free one, and so a first.
LEMMA FreshName ==
  ASSUME IsFiniteSet(files), NEW n
  PROVE  Fresh(n) \notin files /\ Fresh(n) # NoFile /\ Fresh(n) \in {n} \X Nat
<1> DEFINE C == Cardinality(files)
           free == {i \in Nat : i <= C /\ <<n, i>> \notin files}
<1>1. C \in Nat
  BY FS_CardinalityType
<1>2. free # {}
  <2> SUFFICES ASSUME \A i \in 0 .. C : <<n, i>> \in files PROVE FALSE
    BY <1>1
  <2> DEFINE f == [i \in 0 .. C |-> <<n, i>>]
  <2>1. f \in Injection(0 .. C, files)
    BY DEF Injection, IsInjective
  <2> HIDE DEF f
  <2>2. Cardinality(0 .. C) <= C
    BY <2>1, FS_Injection
  <2> HIDE DEF C
  <2>3. Cardinality(0 .. C) = IF 0 > C THEN 0 ELSE C - 0 + 1
    <3>1. 0 \in Int /\ C \in Int
      BY <1>1
    <3> QED
      BY <3>1, FS_Interval
  <2> QED
    BY <1>1, <2>2, <2>3
<1>3. PICK i \in free : \A k \in free : ~(<<k, i>> \in OpToRel(<, Nat))
  <2>1. free \subseteq Nat
    OBVIOUS
  <2> HIDE DEF free
  <2> QED
    BY <1>2, <2>1, NatLessThanWellFounded, WFMin
<1>4. \A k \in free : ~(k < i)
  BY <1>3 DEF OpToRel
<1>5. \A k \in 0 .. i - 1 : <<n, k>> \in files
  BY <1>1, <1>4
<1>6. /\ <<n, i>> \in {n} \X (0 .. C) /\ <<n, i>> \notin files
      /\ \A k \in 0 .. <<n, i>>[2] - 1 : <<n, k>> \in files
  BY <1>1, <1>5
<1>7. Fresh(n) \in {n} \X (0 .. C) /\ Fresh(n) \notin files
  <2> DEFINE P(b) == b \notin files /\ \A k \in 0 .. b[2] - 1 : <<n, k>> \in files
  <2>1. \E b \in {n} \X (0 .. C) : P(b)
    BY <1>6
  <2>2. Fresh(n) = CHOOSE b \in {n} \X (0 .. C) : P(b)
    BY DEF Fresh
  <2>3. Fresh(n) \in {n} \X (0 .. C) /\ P(Fresh(n))
    <3> HIDE DEF P
    <3> QED
      BY <2>1, <2>2
  <2> QED
    BY <2>3
<1>8. Fresh(n) \in {n} \X Nat
  BY <1>1, <1>7
<1>9. Fresh(n) # NoFile
  <2>1. PICK k \in Nat : Fresh(n) = <<n, k>>
    BY <1>8
  <2> QED
    BY <2>1 DEF NoFile
<1> QED
  BY <1>7, <1>8, <1>9

\* No file is chosen, no job ends well that has none, and the worker's hands stay.
LEMMA OutputsKept ==
  ASSUME IInv, Outputs, out' = out,
         \A j \in Job : status'[j] = "done" => status[j] = "done" \/ out[j] # NoFile,
         worker'.op \in {"tokens", "last"} =>
           worker.op \in {"tokens", "last"} /\ worker'.todo = worker.todo,
         worker'.op = "fanout" =>
           worker.op = "fanout" /\ ToSet(worker'.todo) \subseteq ToSet(worker.todo)
  PROVE  Outputs'
BY DEF Outputs, Among

\* One job has a file of its own now.
LEMMA OutputsCreated ==
  ASSUME IInv, Outputs, NEW j \in Job, Creates(j),
         \A i \in Job : status'[i] = "done" => status[i] = "done",
         worker'.op \in {"tokens", "last"} => Head(worker'.todo) = j, worker'.op # "fanout"
  PROVE  Outputs'
<1>1. /\ out'[j] = Fresh(Name[j]) /\ \A i \in Job \ {j} : out'[i] = out[i]
      /\ out \in [Job -> files \cup {NoFile}]
  BY CreatesEffect DEF IInv, TypeOK
<1>2. Fresh(Name[j]) \notin files /\ Fresh(Name[j]) # NoFile
  BY FreshName DEF IInv
<1>3. \A i, k \in Job : i # k /\ out'[i] = out'[k] => out'[i] = NoFile
  BY <1>1, <1>2 DEF Outputs
<1>4. \A i \in Job : status'[i] = "done" => out'[i] # NoFile
  BY <1>1, <1>2 DEF Outputs
<1> QED
  BY <1>1, <1>2, <1>3, <1>4 DEF Outputs, Among

\* The jobs of a batch have, as they have files of different names.
LEMMA OutputsDecoded == ASSUME IInv, Outputs, Decode, NamesDiffer PROVE Outputs'
<1> DEFINE K == worker.kept
<1>1. /\ worker.op = "decode" /\ status' = status
      /\ out' = [j \in Job |-> IF j \in ToSet(K) THEN Fresh(Name[j]) ELSE out[j]]
      /\ worker' = Doing("run", K, <<>>) \/ worker' = Doing("fanout", K, K)
  BY DEF Decode
<1>2. ToSet(K) = Held /\ Held \subseteq Job
  BY <1>1, Standing, EmptyOne DEF IInv, Shape, Among
<1>3. \A i, j \in ToSet(K) : Key[i] = Key[j] /\ Key[i] # Alone
  BY <1>1, <1>2 DEF IInv, OneKey, Among
<1> HIDE DEF K
<1>4. \A j \in Job : /\ Fresh(Name[j]) \notin files /\ Fresh(Name[j]) # NoFile
                     /\ Fresh(Name[j]) \in {Name[j]} \X Nat
  BY FreshName DEF IInv
<1>5. \A j \in Job : out[j] \in files \cup {NoFile}
  BY DEF IInv, TypeOK
<1>6. ASSUME NEW i \in Job, NEW j \in Job, i # j, out'[i] = out'[j] PROVE out'[i] = NoFile
  <2>1. CASE i \in ToSet(K) /\ j \in ToSet(K)
    <3>1. Name[i] # Name[j]
      BY <1>3, <1>6, <2>1 DEF NamesDiffer
    <3>2. out'[i] \in {Name[i]} \X Nat /\ out'[j] \in {Name[j]} \X Nat
      BY <1>1, <1>4, <2>1
    <3>3. out'[i][1] = Name[i] /\ out'[j][1] = Name[j]
      BY <3>2
    <3> QED
      BY <1>6, <3>1, <3>3
  <2>2. CASE i \in ToSet(K) /\ j \notin ToSet(K)
    BY <1>1, <1>4, <1>5, <1>6, <2>2
  <2>3. CASE i \notin ToSet(K) /\ j \in ToSet(K)
    BY <1>1, <1>4, <1>5, <1>6, <2>3
  <2>4. CASE i \notin ToSet(K) /\ j \notin ToSet(K)
    BY <1>1, <1>6, <2>4 DEF Outputs
  <2> QED
    BY <2>1, <2>2, <2>3, <2>4
<1>7. /\ \A j \in Job : status'[j] = "done" => out'[j] # NoFile
      /\ \A j \in ToSet(K) : out'[j] # NoFile
  BY <1>1, <1>2, <1>4 DEF Outputs
<1>8. /\ worker'.op \notin {"tokens", "last"}
      /\ worker'.op = "fanout" => worker'.todo = K
  BY <1>1 DEF Doing
<1> QED
  BY <1>6, <1>7, <1>8 DEF Outputs, Among

LEMMA OutputsInv == ASSUME NamesDiffer PROVE IInv /\ Outputs /\ [Next]_vars => Outputs'
<1> SUFFICES ASSUME IInv, Outputs, [Next]_vars PROVE Outputs'
  OBVIOUS
<1>1. /\ worker \in [op : Ops, todo : Seq(Job), kept : Seq(Job)]
      /\ status \in [Job -> {"new", "queued", "running"} \cup Terminal]
      /\ worker.todo # <<>> => Head(worker.todo) \in Job
  <2>1. worker.todo # <<>> => Head(worker.todo) \in Job
    BY Standing, HeadTail
  <2> QED
    BY <2>1 DEF IInv, TypeOK
<1>2. CASE UNCHANGED worker /\ UNCHANGED disk
           /\ \A j \in Job : status'[j] = "done" => status[j] = "done"
  BY <1>2, OutputsKept DEF disk
<1>3. CASE UNCHANGED vars \/ Request
  <2>1. UNCHANGED worker /\ UNCHANGED disk
    BY <1>3 DEF vars, Request, Submit, Enqueue, Cancel, Pause, Shutdown, PutStop
  <2>2. \A j \in Job : status'[j] = "done" => status[j] = "done"
    BY <1>1, <1>3 DEF vars, Request, Submit, Enqueue, Cancel, Pause, Shutdown, PutStop
  <2> QED
    BY <1>2, <2>1, <2>2
<1>4. CASE Loop \/ Resumed \/ Grouped \/ LastToken
  <2>1. PICK o \in Ops : /\ worker' = [worker EXCEPT !.op = o] /\ o # "fanout"
                         /\ o \in {"tokens", "last"} => worker.op = "tokens"
    BY <1>4 DEF Loop, Resumed, Grouped, LastToken, Ops
  <2>2. worker'.op = o /\ worker'.todo = worker.todo
    BY <1>1, <2>1
  <2>3. out' = out /\ status' = status
    BY <1>4 DEF Loop, Resumed, Grouped, LastToken, disk
  <2> QED
    BY <2>1, <2>2, <2>3, OutputsKept
<1>5. CASE Take \/ Peek \/ Dispatch \/ Acquire \/ Filter \/ Start
  <2>1. out' = out
    BY <1>5 DEF Take, Peek, Dispatch, Acquire, Filter, Start, disk
  <2>2. \A j \in Job : status'[j] = "done" => status[j] = "done"
    <3>1. CASE Take \/ Peek
      <4>1. status' = Dropped({Head(Waiting)} \cap cancels)
        BY <3>1 DEF Take, Peek
      <4> QED
        BY <4>1, DroppedEffect
    <3>2. CASE Filter
      <4>1. status' = Dropped(ToSet(worker.kept) \cap cancels) \/ status' = status
        BY <3>2 DEF Filter
      <4> QED
        BY <4>1, DroppedEffect
    <3>3. CASE Dispatch \/ Acquire \/ Start
      BY <3>3 DEF Dispatch, Acquire, Start
    <3> QED
      BY <1>5, <3>1, <3>2, <3>3
  <2>3. worker'.op \notin {"tokens", "last", "fanout"}
    <3>1. CASE Take
      BY <3>1 DEF Take, Doing, Top
    <3>2. CASE Peek
      BY <1>1, <3>2 DEF Peek
    <3>3. CASE Dispatch \/ Acquire
      BY <3>3 DEF Dispatch, Acquire, Left, Doing, Top, Dead
    <3>4. CASE Filter
      BY <3>4 DEF Filter, Left, Doing, Top
    <3>5. CASE Start
      BY <1>1, <3>5 DEF Start
    <3> QED
      BY <1>5, <3>1, <3>2, <3>3, <3>4, <3>5
  <2> QED
    BY <2>1, <2>2, <2>3, OutputsKept
<1>6. CASE Run
  <2>1. /\ worker.op = "run" /\ status' = [status EXCEPT ![Head(worker.todo)] = "running"]
        /\ \/ worker' = Dead /\ out' = out
           \/ worker' = [worker EXCEPT !.op = "tokens"] /\ Creates(Head(worker.todo))
    BY <1>6 DEF Run, disk
  <2>2. Head(worker.todo) \in Job
    BY <1>1, <2>1 DEF IInv, Shape, Among
  <2>3. \A j \in Job : status'[j] = "done" => status[j] = "done"
    BY <1>1, <2>1
  <2>4. CASE worker' = Dead /\ out' = out
    BY <2>3, <2>4, OutputsKept DEF Dead, Doing
  <2>5. CASE worker' = [worker EXCEPT !.op = "tokens"] /\ Creates(Head(worker.todo))
    <3>1. worker'.op = "tokens" /\ worker'.todo = worker.todo
      BY <1>1, <2>5
    <3> QED
      BY <2>2, <2>3, <2>5, <3>1, OutputsCreated
  <2> QED
    BY <2>1, <2>4, <2>5
<1>7. CASE Interrupted \/ Finished \/ Failed
  <2>1. /\ out' = out /\ worker.op \in {"tokens", "last"}
        /\ worker'.op \in {"top", "run"}
    BY <1>7 DEF Interrupted, Finished, Failed, Ends, Doing, Top, disk
  <2>2. PICK s \in Terminal : status' = [status EXCEPT ![Head(worker.todo)] = s]
    BY <1>7 DEF Interrupted, Finished, Failed, Ends, Terminal
  <2>3. out[Head(worker.todo)] # NoFile
    BY <2>1 DEF Outputs, Among
  <2>4. \A j \in Job : status'[j] = "done" => status[j] = "done" \/ out[j] # NoFile
    BY <1>1, <2>2, <2>3
  <2> QED
    BY <2>1, <2>4, OutputsKept
<1>8. CASE Check
  <2>1. /\ worker.op \in {"stage1", "stage2"} /\ worker.todo # <<>>
        /\ \/ /\ status' = [status EXCEPT ![Head(worker.todo)] = "error"]
              /\ Creates(Head(worker.todo))
           \/ UNCHANGED <<status, disk>>
    BY <1>8 DEF Check
  <2>2. worker'.op = worker.op
    BY <1>1, <1>8 DEF Check
  <2>3. \A j \in Job : status'[j] = "done" => status[j] = "done"
    BY <1>1, <2>1
  <2>4. CASE UNCHANGED <<status, disk>>
    BY <2>1, <2>2, <2>3, <2>4, OutputsKept DEF disk
  <2>5. CASE Creates(Head(worker.todo))
    BY <1>1, <2>1, <2>2, <2>3, <2>5, OutputsCreated
  <2> QED
    BY <2>1, <2>4, <2>5
<1>9. CASE FanOut
  <2>1. worker.op = "fanout" /\ worker.todo # <<>> /\ out' = out
    BY <1>9 DEF FanOut, disk, IInv, Shape, Among
  <2>2. /\ Head(worker.todo) \in ToSet(worker.todo)
        /\ ToSet(Tail(worker.todo)) \subseteq ToSet(worker.todo)
    BY <1>1, <2>1, HeadTail
  <2>3. out[Head(worker.todo)] # NoFile
    BY <2>1, <2>2 DEF Outputs, Among
  <2>4. \A j \in Job : status'[j] = "done" => status[j] = "done" \/ out[j] # NoFile
    BY <1>1, <1>9, <2>3 DEF FanOut
  <2>5. \/ worker' = Doing("run", worker.kept, <<>>) \/ worker' = Top
        \/ worker' = [worker EXCEPT !.todo = Tail(worker.todo)]
    BY <1>9 DEF FanOut
  <2>6. worker'.op \in {"run", "top"}
        \/ (worker'.op = "fanout" /\ worker'.todo = Tail(worker.todo))
    BY <1>1, <2>1, <2>5 DEF Doing, Top
  <2> QED
    BY <2>1, <2>2, <2>4, <2>6, OutputsKept
<1> QED
  BY <1>3, <1>4, <1>5, <1>6, <1>7, <1>8, <1>9, OutputsDecoded DEF Next, WorkerStep

\* Two jobs that are done have written different files, one after the other or in one
\* batch, as long as jobs that may share a batch have files of different names
\* (_unique_base, runner.py:217-218).
THEOREM OutputsAlwaysDistinct == ASSUME NamesDiffer PROVE Spec => []OutputsDistinct
<1>1. Init => Outputs
  BY EmptyOne DEF Init, Outputs, Among, Top, Doing
<1>2. Outputs => OutputsDistinct
  BY DEF Outputs, OutputsDistinct
<1>3. IInv /\ Outputs /\ [Next]_vars => Outputs'
  BY OutputsInv
<1> QED
  BY <1>1, <1>2, <1>3, InitIInv, NextIInv, PTL DEF Spec
=============================================================================
