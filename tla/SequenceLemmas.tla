---------------------------- MODULE SequenceLemmas ----------------------------
(***************************************************************************)
(* Lemmas about the sequences of the models: induction over the natural     *)
(* numbers and over sequences, in a form every prover can use; what the     *)
(* recursive functions of Retain and of Texts compute.  The theorems of     *)
(* NaturalsInduction take an operator; these take a set (of what something   *)
(* holds for) or a function (that makes one step).                          *)
(***************************************************************************)
EXTENDS Texts, SequenceTheorems, WellFoundedInduction, FiniteSetTheorems, TLAPS

-----------------------------------------------------------------------------
(***************************************************************************)
(* Iteration.                                                              *)
(***************************************************************************)
\* A set of natural numbers that is not empty has a least element.
LEMMA LeastElement ==
  ASSUME NEW T \in SUBSET Nat, T # {}
  PROVE  \E m \in T : \A k \in T : m <= k
<1> DEFINE less == OpToRel(<, Nat)
<1>1. IsWellFoundedOn(less, Nat)
  BY NatLessThanWellFounded
<1>2. \A i, j \in Nat : <<i, j>> \in less <=> i < j
  BY DEF OpToRel
<1> HIDE DEF less
<1>3. PICK m \in T : \A k \in T : <<k, m>> \notin less
  BY <1>1, WFMin
<1>4. \A k \in T : ~(k < m)
  BY <1>2, <1>3
<1>5. \A k \in T : m <= k
  BY <1>4
<1>6. QED
  BY <1>5

\* What holds of 0, and of every number up to n if of the one before, holds of
\* all of them.
LEMMA Induction ==
  ASSUME NEW n \in Nat, NEW T, 0 \in T, \A i \in 1..n : i - 1 \in T => i \in T
  PROVE  0..n \subseteq T
<1> DEFINE bad == (0..n) \ T
<1> SUFFICES ASSUME bad # {} PROVE FALSE
  OBVIOUS
<1>1. PICK m \in bad : \A k \in bad : m <= k
  <2>1. bad \in SUBSET Nat
    OBVIOUS
  <2> HIDE DEF bad
  <2>2. QED
    BY <2>1, LeastElement
<1>2. m \in 1..n
  BY <1>1
<1>3. m - 1 \in 0..n /\ m - 1 < m
  BY <1>2
<1>4. m - 1 \in T
  BY <1>1, <1>3
<1>5. QED
  BY <1>1, <1>2, <1>4

\* g makes n steps from base.
Iterated(S, base, n, step, g) ==
  /\ g \in [0..n -> S] /\ g[0] = base
  /\ \A i \in 1..n : g[i] = step[i][g[i - 1]]

\* A sequence of steps can be taken.  A recursive function that makes them is
\* the CHOOSE of such a g, so it makes them too.
LEMMA StepsTaken ==
  ASSUME NEW S, NEW base \in S, NEW n \in Nat, NEW step \in [1..n -> [S -> S]]
  PROVE  \E g : Iterated(S, base, n, step, g)
<1> DEFINE Taken(m, g) == /\ g \in [0..m -> S] /\ g[0] = base
                          /\ \A i \in 1..m : g[i] = step[i][g[i - 1]]
           T == {m \in 0..n : \E g : Taken(m, g)}
<1>1. 0 \in T
  <2>1. Taken(0, [i \in 0..0 |-> base])
    OBVIOUS
  <2> HIDE DEF Taken
  <2>2. QED
    BY <2>1
<1>2. ASSUME NEW m \in 1..n, m - 1 \in T PROVE m \in T
  <2>1. PICK g : Taken(m - 1, g)
    BY <1>2
  <2> DEFINE h == [i \in 0..m |-> IF i = m THEN step[m][g[m - 1]] ELSE g[i]]
  <2>2. m - 1 \in 0..(m - 1) /\ g[m - 1] \in S
    BY <2>1
  <2>3. step[m][g[m - 1]] \in S
    BY <2>2
  <2>4. \A i \in 0..m : i = m \/ i \in 0..(m - 1)
    OBVIOUS
  <2>5. h \in [0..m -> S]
    BY <2>1, <2>3, <2>4
  <2>6. h[0] = base
    BY <2>1
  <2>7. ASSUME NEW i \in 1..m PROVE h[i] = step[i][h[i - 1]]
    <3>1. i \in 0..m /\ i - 1 \in 0..m /\ i - 1 # m
      OBVIOUS
    <3>2. h[i - 1] = g[i - 1]
      BY <3>1
    <3>3. CASE i = m
      BY <3>1, <3>2, <3>3
    <3>4. CASE i # m
      <4>1. i \in 1..(m - 1) /\ h[i] = g[i]
        BY <3>1, <3>4
      <4>2. QED
        BY <2>1, <3>2, <4>1
    <3>5. QED
      BY <3>3, <3>4
  <2>8. Taken(m, h)
    BY <2>5, <2>6, <2>7
  <2> HIDE DEF Taken, h
  <2>9. QED
    BY <2>8
<1>3. n \in T
  <2> HIDE DEF T
  <2>1. 0..n \subseteq T
    BY <1>1, <1>2, Induction
  <2>2. QED
    BY <2>1
<1>4. QED
  BY <1>3 DEF Iterated

\* Retain goes through the sequence index by index.
Retaining(S, seq, indices, kept) ==
  /\ \A i \in 0..Len(seq) : kept[i] \in Seq(S)
  /\ kept[0] = <<>>
  /\ \A i \in 1..Len(seq) :
       kept[i] = IF i \in indices THEN Append(kept[i - 1], seq[i]) ELSE kept[i - 1]
  /\ Retain(seq, indices) = kept[Len(seq)]

LEMMA RetainSteps ==
  ASSUME NEW S, NEW seq \in Seq(S), NEW indices
  PROVE  \E kept : Retaining(S, seq, indices, kept)
<1> DEFINE n == Len(seq)
           Step(i, t) == IF i \in indices THEN Append(t, seq[i]) ELSE t
           Kept(g) == g = [i \in 0..n |-> IF i = 0 THEN <<>>
                                          ELSE IF i \in indices THEN Append(g[i - 1], seq[i])
                                          ELSE g[i - 1]]
           kept == CHOOSE g : Kept(g)
<1>1. n \in Nat /\ \A i \in 1..n : seq[i] \in S
  BY LenProperties, ElementOfSeq
<1>2. \E g : Kept(g)
  <2> DEFINE step == [i \in 1..n |-> [t \in Seq(S) |-> Step(i, t)]]
  <2>1. step \in [1..n -> [Seq(S) -> Seq(S)]]
    BY <1>1, AppendProperties
  <2>2. PICK g \in [0..n -> Seq(S)] : /\ g[0] = <<>>
                                      /\ \A i \in 1..n : g[i] = step[i][g[i - 1]]
    <3> DEFINE empty == <<>>  all == Seq(S)
    <3>1. empty \in all
      BY EmptySeq
    <3>2. n \in Nat /\ step \in [1..n -> [all -> all]]
      BY <1>1, <2>1
    <3> HIDE DEF step, n, empty, all
    <3>3. \E g : Iterated(all, empty, n, step, g)
      BY <3>1, <3>2, StepsTaken
    <3>4. QED
      BY <3>3 DEF empty, all, Iterated
  <2>3. ASSUME NEW i \in 1..n PROVE g[i] = Step(i, g[i - 1])
    <3>1. i - 1 \in 0..n
      BY <1>1
    <3>2. g[i - 1] \in Seq(S) /\ g[i] = step[i][g[i - 1]]
      BY <2>2, <3>1
    <3>3. \A t \in Seq(S) : step[i][t] = Step(i, t)
      OBVIOUS
    <3> HIDE DEF step, Step, n
    <3>4. QED
      BY <3>2, <3>3
  <2>4. \A i \in 0..n : i = 0 \/ i \in 1..n
    BY <1>1
  <2>5. Kept(g)
    <3> HIDE DEF step, n
    <3>1. g \in [0..n -> Seq(S)]
      BY <2>2
    <3>2. \A i \in 0..n : g[i] = IF i = 0 THEN <<>> ELSE Step(i, g[i - 1])
      BY <2>2, <2>3, <2>4
    <3>3. QED
      BY <3>1, <3>2
  <2>6. QED
    BY <2>5
<1>3. Kept(kept)
  BY <1>2
<1>4. /\ kept[0] = <<>>
      /\ \A i \in 1..n : kept[i] = Step(i, kept[i - 1])
  <2>1. 0 \in 0..n /\ \A i \in 1..n : i \in 0..n /\ i # 0
    BY <1>1
  <2> HIDE DEF kept, n
  <2>2. QED
    BY <1>3, <2>1
<1>5. Retain(seq, indices) = kept[n]
  BY DEF Retain
<1> HIDE DEF Kept, kept
<1>6. \A i \in 0..Len(seq) : kept[i] \in Seq(S)
  <2> DEFINE T == {i \in 0..n : kept[i] \in Seq(S)}
  <2>1. 0 \in T
    <3>1. kept[0] \in Seq(S)
      BY <1>4, EmptySeq
    <3>2. QED
      BY <1>1, <3>1
  <2>2. ASSUME NEW i \in 1..n, i - 1 \in T PROVE i \in T
    <3>1. i \in 0..n /\ kept[i - 1] \in Seq(S) /\ seq[i] \in S
      BY <1>1, <2>2
    <3>2. Step(i, kept[i - 1]) \in Seq(S)
      BY <3>1, AppendProperties
    <3>3. QED
      BY <1>4, <3>1, <3>2
  <2>3. 0..n \subseteq T
    <3>1. n \in Nat
      BY <1>1
    <3> HIDE DEF T, n
    <3>2. QED
      BY <2>1, <2>2, <3>1, Induction
  <2>4. QED
    BY <2>3
<1>7. QED
  BY <1>4, <1>5, <1>6 DEF Retaining

\* What Retain returns is made of the sequence's elements at those indices, and
\* begins with the first if that is kept.
LEMMA RetainType ==
  ASSUME NEW S, NEW seq \in Seq(S), NEW indices
  PROVE  LET left == Retain(seq, indices) IN
         /\ left \in Seq(S) /\ Len(left) <= Len(seq)
         /\ \A k \in 1..Len(left) : \E j \in 1..Len(seq) : j \in indices /\ left[k] = seq[j]
         /\ seq # <<>> /\ 1 \in indices => left # <<>> /\ left[1] = seq[1]
<1> DEFINE n == Len(seq)
<1>1. n \in Nat /\ \A i \in 1..n : seq[i] \in S
  BY LenProperties, ElementOfSeq
<1> PICK kept : Retaining(S, seq, indices, kept)
  BY RetainSteps
<1>2. /\ \A i \in 0..n : kept[i] \in Seq(S)
      /\ kept[0] = <<>>
      /\ \A i \in 1..n :
           kept[i] = IF i \in indices THEN Append(kept[i - 1], seq[i]) ELSE kept[i - 1]
      /\ Retain(seq, indices) = kept[n]
  BY DEF Retaining
<1> DEFINE Made(i) == /\ kept[i] \in Seq(S) /\ Len(kept[i]) <= i
                      /\ \A k \in 1..Len(kept[i]) :
                           \E j \in 1..n : j \in indices /\ kept[i][k] = seq[j]
                      /\ i # 0 /\ 1 \in indices => kept[i] # <<>> /\ kept[i][1] = seq[1]
           T == {i \in 0..n : Made(i)}
<1>3. Made(0)
  <2>1. <<>> \in Seq(S) /\ Len(<<>>) = 0 /\ 1..0 = {}
    BY EmptySeq
  <2>2. QED
    BY <1>2, <2>1
<1>4. ASSUME NEW i \in 1..n, Made(i - 1) PROVE Made(i)
  <2> DEFINE t == kept[i - 1]
  <2>1. t \in Seq(S) /\ Len(t) \in Nat /\ Len(t) <= i - 1
    BY <1>4, LenProperties
  <2>2. CASE i \notin indices
    <3>1. kept[i] = t
      BY <1>2, <2>2
    <3>2. Len(t) <= i /\ (1 \in indices => i - 1 # 0)
      BY <1>1, <2>1, <2>2
    <3>3. QED
      BY <1>4, <3>1, <3>2
  <2>3. CASE i \in indices
    <3>1. kept[i] = Append(t, seq[i]) /\ seq[i] \in S
      BY <1>1, <1>2, <2>3
    <3>2. /\ kept[i] \in Seq(S) /\ Len(kept[i]) = Len(t) + 1 /\ kept[i] # <<>>
          /\ \A k \in 1..Len(t) : kept[i][k] = t[k]
          /\ kept[i][Len(t) + 1] = seq[i]
      BY <2>1, <3>1, AppendProperties
    <3>3. ASSUME NEW k \in 1..Len(kept[i])
          PROVE  \E j \in 1..n : j \in indices /\ kept[i][k] = seq[j]
      <4>1. k \in 1..Len(t) \/ k = Len(t) + 1
        BY <2>1, <3>2
      <4>2. QED
        BY <1>4, <2>3, <3>2, <4>1
    <3>4. Len(kept[i]) <= i
      BY <1>1, <2>1, <3>2
    <3>5. 1 \in indices => kept[i][1] = seq[1]
      <4>1. CASE i = 1
        <5>1. Len(t) = 0
          BY <2>1, <4>1
        <5>2. QED
          BY <3>2, <4>1, <5>1
      <4>2. CASE i # 1
        <5>1. 1 \in indices => t # <<>> /\ t[1] = seq[1]
          BY <1>1, <1>4, <4>2
        <5>2. t # <<>> => 1 \in 1..Len(t)
          BY <2>1, EmptySeq
        <5>3. QED
          BY <3>2, <5>1, <5>2
      <4>3. QED
        BY <4>1, <4>2
    <3>6. QED
      BY <3>2, <3>3, <3>4, <3>5
  <2>4. QED
    BY <2>2, <2>3
<1>5. 0..n \subseteq T
  <2>1. \A i \in 1..n : i \in 0..n /\ i - 1 \in 0..n
    BY <1>1
  <2>2. 0 \in 0..n
    BY <1>1
  <2> HIDE DEF Made, n
  <2>3. 0 \in T /\ \A i \in 1..n : i - 1 \in T => i \in T
    BY <1>3, <1>4, <2>1, <2>2
  <2> HIDE DEF T
  <2>4. QED
    BY <1>1, <2>3, Induction
<1>6. Made(n) /\ (seq # <<>> => n # 0)
  BY <1>1, <1>5, EmptySeq
<1>7. QED
  BY <1>2, <1>6

\* Nothing at those indices is left out.
LEMMA RetainKeeps ==
  ASSUME NEW S, NEW seq \in Seq(S), NEW indices, NEW j \in 1..Len(seq), j \in indices
  PROVE  LET left == Retain(seq, indices) IN \E k \in 1..Len(left) : left[k] = seq[j]
<1> DEFINE n == Len(seq)
<1>1. n \in Nat /\ \A i \in 1..n : seq[i] \in S
  BY LenProperties, ElementOfSeq
<1> PICK kept : Retaining(S, seq, indices, kept)
  BY RetainSteps
<1>2. /\ \A i \in 0..n : kept[i] \in Seq(S)
      /\ kept[0] = <<>>
      /\ \A i \in 1..n :
           kept[i] = IF i \in indices THEN Append(kept[i - 1], seq[i]) ELSE kept[i - 1]
      /\ Retain(seq, indices) = kept[n]
  BY DEF Retaining
<1> DEFINE Has(i) == i >= j => \E k \in 1..Len(kept[i]) : kept[i][k] = seq[j]
           T == {i \in 0..n : Has(i)}
<1>3. Has(0)
  OBVIOUS
<1>4. ASSUME NEW i \in 1..n, Has(i - 1) PROVE Has(i)
  <2>1. i \in 0..n /\ i - 1 \in 0..n /\ kept[i] \in Seq(S) /\ kept[i - 1] \in Seq(S)
    BY <1>1, <1>2
  <2>2. CASE i \notin indices
    <3>1. kept[i] = kept[i - 1] /\ i # j
      BY <1>2, <2>2
    <3>2. QED
      BY <1>4, <3>1
  <2>3. CASE i \in indices
    <3>1. kept[i] = Append(kept[i - 1], seq[i])
      BY <1>2, <2>3
    <3>2. /\ Len(kept[i - 1]) \in Nat /\ Len(kept[i]) = Len(kept[i - 1]) + 1
          /\ \A k \in 1..Len(kept[i - 1]) : kept[i][k] = kept[i - 1][k]
          /\ kept[i][Len(kept[i])] = seq[i]
      BY <1>1, <2>1, <3>1, AppendProperties, LenProperties
    <3>3. CASE i = j
      BY <3>2, <3>3
    <3>4. CASE i # j
      BY <1>4, <3>2, <3>4
    <3>5. QED
      BY <3>3, <3>4
  <2>4. QED
    BY <2>2, <2>3
<1>5. 0..n \subseteq T
  <2>1. 0 \in 0..n /\ \A i \in 1..n : i \in 0..n
    BY <1>1
  <2> HIDE DEF Has, n
  <2>2. 0 \in T /\ \A i \in 1..n : i - 1 \in T => i \in T
    BY <1>3, <1>4, <2>1
  <2> HIDE DEF T
  <2>3. QED
    BY <1>1, <2>2, Induction
<1>6. Has(n) /\ j <= n
  BY <1>1, <1>5
<1>7. QED
  BY <1>2, <1>6

-----------------------------------------------------------------------------
(***************************************************************************)
(* Sequences and texts.                                                    *)
(***************************************************************************)
\* A sequence of one element, and one sequence after another: names that the
\* provers do not expand.
One(c) == <<c>>
s ++ t == s \o t

\* What holds of the empty sequence, and of any sequence if of the one without
\* its first element, holds of all.
LEMMA FirstInduction ==
  ASSUME NEW S, NEW P, <<>> \in P,
         \A c \in S, r \in Seq(S) : r \in P => One(c) ++ r \in P
  PROVE  Seq(S) \subseteq P
<1> SUFFICES ASSUME NEW s \in Seq(S) PROVE s \in P
  OBVIOUS
<1> DEFINE n == Len(s)
           T == {k \in 0..n : SubSeq(s, n - k + 1, n) \in P}
<1>1. n \in Nat
  BY LenProperties
<1>2. 0 \in T
  <2>1. SubSeq(s, n + 1, n) = <<>>
    BY <1>1, SubSeqEmpty
  <2>2. n - 0 + 1 = n + 1 /\ 0 \in 0..n
    BY <1>1
  <2>3. SubSeq(s, n - 0 + 1, n) \in P
    BY <2>1, <2>2, Zenon
  <2>4. QED
    BY <2>2, <2>3
<1>3. ASSUME NEW k \in 1..n, k - 1 \in T PROVE k \in T
  <2>1. n - k + 1 \in 1..n /\ n \in (n - k + 1)..n /\ n - (k - 1) + 1 = (n - k + 1) + 1
    BY <1>1
  <2> DEFINE m == n - k + 1  r == SubSeq(s, m + 1, n)
  <2>2. r \in P
    BY <1>3, <2>1
  <2>3. r \in Seq(S)
    <3>1. \A i \in (m + 1)..n : s[i] \in S
      BY <1>1, <2>1, ElementOfSeq
    <3>2. m + 1 \in Int /\ n \in Int
      BY <1>1, <2>1
    <3> HIDE DEF m
    <3>3. QED
      BY <3>1, <3>2, SubSeqProperties
  <2>4. SubSeq(s, m, n) = One(s[m]) ++ r
    <3> HIDE DEF m
    <3>1. QED
      BY <2>1, SubSeqRecursiveFirst DEF m, One, ++
  <2>5. s[m] \in S
    BY <2>1, ElementOfSeq
  <2> HIDE DEF r
  <2>6. SubSeq(s, m, n) \in P
    BY <2>2, <2>3, <2>4, <2>5
  <2>7. k \in 0..n
    BY <1>1
  <2>8. QED
    BY <2>6, <2>7
<1>4. n \in T
  <2> HIDE DEF T, n
  <2>1. 0..n \subseteq T
    BY <1>1, <1>2, <1>3, Induction
  <2>2. QED
    BY <1>1, <2>1
<1>5. SubSeq(s, 1, n) \in P
  BY <1>1, <1>4
<1>6. QED
  BY <1>5, SubSeqFull

\* The same of the one without its last element.
LEMMA LastInduction ==
  ASSUME NEW S, NEW P, <<>> \in P,
         \A c \in S, r \in Seq(S) : r \in P => r ++ One(c) \in P
  PROVE  Seq(S) \subseteq P
<1> SUFFICES ASSUME NEW s \in Seq(S) PROVE s \in P
  OBVIOUS
<1> DEFINE n == Len(s)
           T == {k \in 0..n : SubSeq(s, 1, k) \in P}
<1>1. n \in Nat
  BY LenProperties
<1>2. 0 \in T
  <2>1. SubSeq(s, 1, 0) = <<>>
    BY SubSeqEmpty
  <2>2. SubSeq(s, 1, 0) \in P
    BY <2>1, Zenon
  <2>3. QED
    BY <1>1, <2>2
<1>3. ASSUME NEW k \in 1..n, k - 1 \in T PROVE k \in T
  <2> DEFINE r == SubSeq(s, 1, k - 1)
  <2>1. r \in P
    BY <1>3
  <2>2. r \in Seq(S)
    <3>1. \A i \in 1..(k - 1) : s[i] \in S
      BY <1>1, ElementOfSeq
    <3>2. k - 1 \in Int
      BY <1>1
    <3>3. QED
      BY <3>1, <3>2, SubSeqProperties
  <2>3. SubSeq(s, 1, k) = r \o <<s[k]>>
    <3>1. 1 \in 1..n /\ k \in 1..n
      BY <1>1
    <3>2. QED
      BY <3>1, SubSeqRecursiveSecond
  <2>4. s[k] \in S
    BY ElementOfSeq
  <2> HIDE DEF r
  <2>5. SubSeq(s, 1, k) = r ++ One(s[k])
    BY <2>3 DEF One, ++
  <2>6. SubSeq(s, 1, k) \in P
    BY <2>1, <2>2, <2>4, <2>5
  <2>7. k \in 0..n
    BY <1>1
  <2>8. QED
    BY <2>6, <2>7
<1>4. n \in T
  <2> HIDE DEF T, n
  <2>1. 0..n \subseteq T
    BY <1>1, <1>2, <1>3, Induction
  <2>2. QED
    BY <1>1, <2>1
<1>5. SubSeq(s, 1, n) \in P
  BY <1>4
<1>6. QED
  BY <1>5, SubSeqFull

\* The provers do not know that literals are strings.
Token ==
  STRING \cup {"%", "2", "5", "7", "C", "|", "0", "A", "=", "3", "D", "cr", Newline, " ", "-", "a",
              "SIG", "SDP", "ICE", "offer", "answer", "JOIN", "PEER", "ERROR", "WAITING",
              "sender", "receiver", "9", "FRAME", "b", "linux-window", "unnamed", "unknown-app",
              "macos", "window", "application", "display"}
Text == Seq(Token)

LEMMA SingleType ==
  ASSUME NEW S, NEW c \in S
  PROVE  One(c) \in Seq(S)
BY DEF One

LEMMA BothType ==
  ASSUME NEW s \in Text, NEW t \in Text
  PROVE  s ++ t \in Text
BY ConcatProperties DEF Text, ++

\* The part of a text that begins at i.
From(text, i) == SubSeq(text, i, Len(text))

LEMMA Parts ==
  ASSUME NEW text \in Text, NEW i \in 1..(Len(text) + 1)
  PROVE  From(text, i) \in Text /\ Len(From(text, i)) = Len(text) - i + 1
<1>1. Len(text) \in Nat /\ \A k \in i..Len(text) : text[k] \in Token
  BY LenProperties, ElementOfSeq DEF Text
<1>2. i \in Int /\ Len(text) \in Int
  BY <1>1
<1>3. /\ From(text, i) \in Text
      /\ Len(From(text, i)) = IF i <= Len(text) THEN Len(text) - i + 1 ELSE 0
  BY <1>1, <1>2, SubSeqProperties DEF From, Text
<1>4. QED
  BY <1>1, <1>3

\* A text that begins with a pattern that is not empty has room for it.
LEMMA PatternFits ==
  ASSUME NEW text \in Text, NEW i \in 1..Len(text), NEW pattern \in Text \ {<<>>},
         IsPrefix(pattern, From(text, i))
  PROVE  i + Len(pattern) \in (i + 1)..(Len(text) + 1)
<1>1. Len(pattern) \in Nat \ {0} /\ Len(text) \in Nat
  BY LenProperties, EmptySeq DEF Text
<1>2. i \in 1..(Len(text) + 1)
  BY <1>1
<1>3. Len(pattern) <= Len(text) - i + 1
  BY <1>2, Parts DEF IsPrefix
<1>4. QED
  BY <1>1, <1>3

\* Replace goes through the text from its end.
Replaced(text, pattern, by, from) ==
  /\ \A i \in 1..(Len(text) + 1) : from[i] \in Text
  /\ from[Len(text) + 1] = <<>>
  /\ \A i \in 1..Len(text) :
       from[i] = IF IsPrefix(pattern, From(text, i)) THEN by ++ from[i + Len(pattern)]
                 ELSE One(text[i]) ++ from[i + 1]
  /\ Replace(text, pattern, by) = from[1]

LEMMA ReplaceSteps ==
  ASSUME NEW text \in Text, NEW pattern \in Text \ {<<>>}, NEW by \in Text
  PROVE  \E from : Replaced(text, pattern, by, from)
<1> DEFINE n == Len(text)
           Next(g, i) == IF IsPrefix(pattern, From(text, i)) THEN by ++ g[i + Len(pattern)]
                         ELSE One(text[i]) ++ g[i + 1]
           Made(g) == g = [i \in 1..(n + 1) |->
                             IF i > n THEN <<>>
                             ELSE IF IsPrefix(pattern, SubSeq(text, i, n)) THEN by ++ g[i + Len(pattern)]
                             ELSE <<text[i]>> ++ g[i + 1]]
           from == CHOOSE g : Made(g)
           Down(m, g) == /\ g \in [m..(n + 1) -> Text] /\ g[n + 1] = <<>>
                         /\ \A i \in m..n : g[i] = Next(g, i)
           T == {k \in 0..n : \E g : Down(n - k + 1, g)}
<1>1. n \in Nat /\ \A i \in 1..n : text[i] \in Token
  BY LenProperties, ElementOfSeq DEF Text
<1>2. <<>> \in Text
  BY EmptySeq DEF Text
<1>3. 0 \in T
  <2>1. Down(n + 1, [i \in (n + 1)..(n + 1) |-> <<>>])
    BY <1>1, <1>2
  <2> HIDE DEF Down, n
  <2>2. n - 0 + 1 = n + 1
    BY <1>1
  <2>3. QED
    BY <1>1, <2>1, <2>2
<1>4. ASSUME NEW k \in 1..n, k - 1 \in T PROVE k \in T
  <2> DEFINE m == n - k + 1
  <2>1. m \in 1..n /\ n - (k - 1) + 1 = m + 1
    BY <1>1
  <2> HIDE DEF m
  <2>2. PICK g : Down(m + 1, g)
    <3> HIDE DEF Down
    <3>1. QED
      BY <1>4, <2>1
  <2> DEFINE h == [i \in m..(n + 1) |-> IF i = m THEN Next(g, m) ELSE g[i]]
  <2>3. \A i \in (m + 1)..(n + 1) : g[i] \in Text
    BY <2>2
  <2>4. Next(g, m) \in Text
    <3>1. CASE IsPrefix(pattern, From(text, m))
      <4>1. m + Len(pattern) \in (m + 1)..(n + 1)
        BY <2>1, <3>1, PatternFits
      <4>2. g[m + Len(pattern)] \in Text
        BY <2>3, <4>1
      <4>3. QED
        BY <3>1, <4>2, BothType
    <3>2. CASE ~IsPrefix(pattern, From(text, m))
      <4>1. m + 1 \in (m + 1)..(n + 1)
        BY <1>1, <2>1
      <4>2. g[m + 1] \in Text /\ One(text[m]) \in Text
        BY <1>1, <2>1, <2>3, <4>1, SingleType DEF Text
      <4>3. QED
        <5> DEFINE one == One(text[m])  rest == g[m + 1]
        <5> HIDE DEF one, rest
        <5>1. one ++ rest \in Text
          BY <4>2, BothType DEF one, rest
        <5>2. QED
          BY <3>2, <5>1 DEF one, rest
    <3>3. QED
      BY <3>1, <3>2
  <2>5. \A i \in m..(n + 1) : i = m \/ i \in (m + 1)..(n + 1)
    BY <1>1, <2>1
  <2>6. h \in [m..(n + 1) -> Text]
    <3> HIDE DEF Next
    <3>1. QED
      BY <2>3, <2>4, <2>5
  <2>7. \A i \in (m + 1)..(n + 1) : h[i] = g[i]
    <3> HIDE DEF Next
    <3>1. QED
      BY <1>1, <2>1
  <2>8. h[n + 1] = <<>>
    <3>1. n + 1 \in (m + 1)..(n + 1)
      BY <1>1, <2>1
    <3> HIDE DEF h, Next
    <3>2. QED
      BY <2>2, <2>7, <3>1
  <2>9. ASSUME NEW i \in m..n PROVE Next(h, i) = Next(g, i)
    <3>1. i \in 1..n /\ i + 1 \in (m + 1)..(n + 1)
      BY <1>1, <2>1
    <3>2. IsPrefix(pattern, From(text, i)) => i + Len(pattern) \in (m + 1)..(n + 1)
      <4>1. IsPrefix(pattern, From(text, i)) => i + Len(pattern) \in (i + 1)..(n + 1)
        BY <3>1, PatternFits
      <4>2. QED
        BY <1>1, <2>1, <3>1, <4>1
    <3> HIDE DEF h
    <3>3. QED
      BY <2>7, <3>1, <3>2
  <2>10. \A i \in m..n : h[i] = Next(h, i)
    <3>1. ASSUME NEW i \in m..n PROVE h[i] = Next(g, i)
      <4>1. CASE i = m
        <5>1. m \in m..(n + 1)
          BY <1>1, <2>1
        <5> HIDE DEF Next
        <5>2. QED
          BY <4>1, <5>1
      <4>2. CASE i # m
        <5>1. i \in (m + 1)..n /\ i \in (m + 1)..(n + 1)
          BY <1>1, <2>1, <4>2
        <5> HIDE DEF h, Next
        <5>2. QED
          BY <2>2, <2>7, <5>1
      <4>3. QED
        BY <4>1, <4>2
    <3> HIDE DEF h, Next
    <3>2. QED
      BY <2>9, <3>1
  <2>11. Down(m, h)
    <3> HIDE DEF h, Next
    <3>1. QED
      BY <2>6, <2>8, <2>10
  <2> HIDE DEF Down, h
  <2>12. k \in 0..n
    BY <1>1
  <2>13. QED
    BY <2>11, <2>12 DEF m
<1>5. \E g : Down(1, g)
  <2>1. n \in T
    <3> HIDE DEF T, n
    <3>1. 0..n \subseteq T
      BY <1>1, <1>3, <1>4, Induction
    <3>2. QED
      BY <1>1, <3>1
  <2>2. n - n + 1 = 1
    BY <1>1
  <2> HIDE DEF Down, n
  <2>3. QED
    BY <2>1, <2>2
<1>6. Made(from)
  <2> PICK g : Down(1, g)
    BY <1>5
  <2>1. \A i \in 1..(n + 1) : g[i] = IF i > n THEN <<>> ELSE Next(g, i)
    <3>1. \A i \in 1..(n + 1) : IF i > n THEN i = n + 1 ELSE i \in 1..n
      BY <1>1
    <3> HIDE DEF Next
    <3>2. QED
      BY <3>1
  <2>2. Made(g)
    BY <2>1 DEF From, One, ++
  <2> HIDE DEF Made
  <2>3. QED
    BY <2>2
<1>7. Replace(text, pattern, by) = from[1]
  BY DEF Replace, One, ++
<1> HIDE DEF from
<1>8. from[n + 1] = <<>>
  <2>1. n + 1 \in 1..(n + 1) /\ n + 1 > n
    BY <1>1
  <2> HIDE DEF n
  <2>2. QED
    BY <1>6, <2>1
<1>9. \A i \in 1..n : from[i] = Next(from, i)
  <2>1. \A i \in 1..n : i \in 1..(n + 1) /\ ~(i > n)
    BY <1>1
  <2> HIDE DEF n
  <2>2. QED
    BY <1>6, <2>1 DEF From, One, ++, n
<1>10. \A i \in 1..(n + 1) : from[i] \in Text
  <2> DEFINE U == {k \in 0..n : \A i \in (n - k + 1)..(n + 1) : from[i] \in Text}
  <2>1. 0 \in U
    BY <1>1, <1>2, <1>8
  <2>2. ASSUME NEW k \in 1..n, k - 1 \in U PROVE k \in U
    <3> DEFINE m == n - k + 1
    <3>1. m \in 1..n /\ n - (k - 1) + 1 = m + 1 /\ k \in 0..n
      BY <1>1
    <3> HIDE DEF m
    <3>2. \A i \in (m + 1)..(n + 1) : from[i] \in Text
      BY <2>2, <3>1
    <3>3. from[m] \in Text
      <4>1. CASE IsPrefix(pattern, From(text, m))
        <5>1. m + Len(pattern) \in (m + 1)..(n + 1)
          BY <3>1, <4>1, PatternFits
        <5>2. from[m] = by ++ from[m + Len(pattern)]
          BY <1>9, <3>1, <4>1
        <5>3. QED
          BY <3>2, <5>1, <5>2, BothType
      <4>2. CASE ~IsPrefix(pattern, From(text, m))
        <5>1. m + 1 \in (m + 1)..(n + 1)
          BY <1>1, <3>1
        <5>2. from[m + 1] \in Text /\ One(text[m]) \in Text
          BY <1>1, <3>1, <3>2, <5>1, SingleType DEF Text
        <5>3. from[m] = One(text[m]) ++ from[m + 1]
          BY <1>9, <3>1, <4>2
        <5> DEFINE one == One(text[m])  rest == from[m + 1]
        <5> HIDE DEF one, rest
        <5>4. one ++ rest \in Text
          BY <5>2, BothType DEF one, rest
        <5>5. QED
          BY <5>3, <5>4 DEF one, rest
      <4>3. QED
        BY <4>1, <4>2
    <3>4. \A i \in m..(n + 1) : i = m \/ i \in (m + 1)..(n + 1)
      BY <1>1, <3>1
    <3>5. \A i \in m..(n + 1) : from[i] \in Text
      BY <3>2, <3>3, <3>4
    <3>6. QED
      BY <3>1, <3>5 DEF m
  <2>3. n \in U
    <3> HIDE DEF U, n
    <3>1. 0..n \subseteq U
      BY <1>1, <2>1, <2>2, Induction
    <3>2. QED
      BY <1>1, <3>1
  <2>4. n - n + 1 = 1
    BY <1>1
  <2>5. QED
    BY <2>3, <2>4
<1> HIDE DEF Made
<1>11. QED
  BY <1>7, <1>8, <1>9, <1>10 DEF Replaced

LEMMA EmptyText ==
  <<>> \in Text /\ Len(<<>>) = 0
BY EmptySeq DEF Text

LEMMA OneText ==
  ASSUME NEW c \in Token
  PROVE  One(c) \in Text /\ Len(One(c)) = 1 /\ One(c)[1] = c /\ One(c) # <<>>
<1>1. One(c) \in Text
  BY SingleType DEF Text
<1>2. Len(One(c)) = 1 /\ One(c)[1] = c
  BY DEF One
<1>3. QED
  BY <1>1, <1>2, EmptyText

LEMMA LenText ==
  ASSUME NEW t \in Text
  PROVE  Len(t) \in Nat /\ (Len(t) = 0 <=> t = <<>>)
BY LenProperties, EmptySeq DEF Text

LEMMA NoneJoined ==
  ASSUME NEW t \in Text
  PROVE  t ++ <<>> = t /\ <<>> ++ t = t
BY ConcatEmptySeq DEF Text, ++

LEMMA TwoJoined ==
  ASSUME NEW s \in Text, NEW t \in Text
  PROVE  s ++ t \in Text /\ Len(s ++ t) = Len(s) + Len(t)
BY ConcatProperties DEF Text, ++

LEMMA ThreeJoined ==
  ASSUME NEW s \in Text, NEW t \in Text, NEW u \in Text
  PROVE  (s ++ t) ++ u = s ++ (t ++ u)
BY ConcatAssociative DEF Text, ++

LEMMA LastJoined ==
  ASSUME NEW t \in Text, NEW c \in Token
  PROVE  Append(t, c) = t ++ One(c) /\ Append(t, c) \in Text
BY AppendIsConcat, AppendProperties DEF Text, One, ++

LEMMA TextBasics ==
  /\ <<>> \in Text /\ Len(<<>>) = 0
  /\ \A t \in Text : Len(t) \in Nat /\ (Len(t) = 0 <=> t = <<>>)
  /\ \A s, t \in Text : s ++ t \in Text /\ Len(s ++ t) = Len(s) + Len(t)
BY EmptyText, LenText, TwoJoined

\* The tokens of two texts one after the other.
LEMMA TokensOfBoth ==
  ASSUME NEW s \in Text, NEW t \in Text
  PROVE  /\ \A i \in 1..Len(s) : (s ++ t)[i] = s[i] /\ s[i] \in Token
         /\ \A i \in 1..Len(t) : (s ++ t)[i + Len(s)] = t[i] /\ t[i] \in Token
         /\ \A i \in 1..(Len(s) + Len(t)) : i \in 1..Len(s) \/ i - Len(s) \in 1..Len(t)
<1>1. Len(s) \in Nat /\ Len(t) \in Nat
  BY TextBasics
<1>2. \A i \in 1..(Len(s) + Len(t)) : (s ++ t)[i] = IF i <= Len(s) THEN s[i] ELSE t[i - Len(s)]
  BY ConcatProperties DEF Text, ++
<1>3. \A i \in 1..Len(s) : (s ++ t)[i] = s[i]
  BY <1>1, <1>2
<1>4. ASSUME NEW i \in 1..Len(t) PROVE (s ++ t)[i + Len(s)] = t[i]
  <2>1. i + Len(s) \in 1..(Len(s) + Len(t)) /\ ~(i + Len(s) <= Len(s)) /\ (i + Len(s)) - Len(s) = i
    BY <1>1
  <2>2. QED
    BY <1>2, <2>1
<1>5. (\A i \in 1..Len(s) : s[i] \in Token) /\ (\A i \in 1..Len(t) : t[i] \in Token)
  BY ElementOfSeq DEF Text
<1>6. QED
  BY <1>1, <1>3, <1>4, <1>5

LEMMA SameText ==
  ASSUME NEW s \in Text, NEW t \in Text, Len(s) = Len(t), \A i \in 1..Len(s) : s[i] = t[i]
  PROVE  s = t
BY SeqEqual DEF Text

\* What follows a beginning.
LEMMA FromSecond ==
  ASSUME NEW u \in Text, NEW t \in Text, NEW i \in 1..(Len(t) + 1)
  PROVE  From(u ++ t, i + Len(u)) = From(t, i)
<1>1. u ++ t \in Text /\ Len(u ++ t) = Len(u) + Len(t) /\ Len(u) \in Nat /\ Len(t) \in Nat
  BY TextBasics
<1>2. CASE i \in 1..Len(t)
  <2>1. i + Len(u) \in (Len(u) + 1)..(Len(u) + Len(t))
        /\ Len(u) + Len(t) \in (Len(u) + 1)..(Len(u) + Len(t))
    BY <1>1, <1>2
  <2>2. (i + Len(u)) - Len(u) = i /\ (Len(u) + Len(t)) - Len(u) = Len(t)
    BY <1>1
  <2>3. SubSeq(u ++ t, i + Len(u), Len(u) + Len(t)) = SubSeq(t, i, Len(t))
    BY <2>1, <2>2, SubSeqOfConcat2 DEF Text, ++
  <2>4. QED
    BY <1>1, <2>3 DEF From
<1>3. CASE i = Len(t) + 1
  <2>1. /\ i + Len(u) \in 1..(Len(u ++ t) + 1)
        /\ Len(u ++ t) - (i + Len(u)) + 1 = 0 /\ Len(t) - i + 1 = 0
    BY <1>1, <1>3
  <2>2. From(u ++ t, i + Len(u)) = <<>>
    BY <1>1, <2>1, Parts, TextBasics
  <2>3. From(t, i) = <<>>
    BY <2>1, Parts, TextBasics
  <2>4. QED
    BY <2>2, <2>3
<1>4. QED
  BY <1>1, <1>2, <1>3

LEMMA FromFirst ==
  ASSUME NEW t \in Text
  PROVE  From(t, 1) = t
BY SubSeqFull DEF From, Text

\* What is made of the end of a text does not depend on its beginning.
LEMMA ReplaceEnd ==
  ASSUME NEW u \in Text, NEW t \in Text, NEW pattern \in Text \ {<<>>}, NEW by \in Text,
         NEW f, Replaced(t, pattern, by, f), NEW g, Replaced(u ++ t, pattern, by, g)
  PROVE  \A i \in 1..(Len(t) + 1) : g[i + Len(u)] = f[i]
<1> DEFINE n == Len(t)  l == Len(u)
           T == {k \in 0..n : \A i \in (n - k + 1)..(n + 1) : g[i + l] = f[i]}
<1>1. u ++ t \in Text /\ Len(u ++ t) = l + n /\ l \in Nat /\ n \in Nat
  BY TextBasics
<1>2. 0 \in T
  <2>1. g[n + 1 + l] = <<>> /\ f[n + 1] = <<>>
    <3>1. n + 1 + l = Len(u ++ t) + 1
      BY <1>1
    <3>2. g[Len(u ++ t) + 1] = <<>> /\ f[n + 1] = <<>>
      BY DEF Replaced
    <3>3. QED
      BY <3>1, <3>2
  <2>2. \A i \in (n - 0 + 1)..(n + 1) : i = n + 1
    BY <1>1
  <2>3. \A i \in (n - 0 + 1)..(n + 1) : g[i + l] = f[i]
    BY <2>1, <2>2
  <2>4. 0 \in 0..n
    BY <1>1
  <2>5. QED
    BY <2>3, <2>4
<1>3. ASSUME NEW k \in 1..n, k - 1 \in T PROVE k \in T
  <2> DEFINE m == n - k + 1
  <2>1. m \in 1..n /\ n - (k - 1) + 1 = m + 1 /\ k \in 0..n
    BY <1>1
  <2> HIDE DEF m
  <2>2. \A i \in (m + 1)..(n + 1) : g[i + l] = f[i]
    BY <1>3, <2>1
  <2>3. From(u ++ t, m + l) = From(t, m)
    <3>1. m \in 1..(Len(t) + 1)
      BY <1>1, <2>1
    <3>2. QED
      BY <3>1, FromSecond
  <2>4. g[m + l] = IF IsPrefix(pattern, From(t, m)) THEN by ++ g[m + l + Len(pattern)]
                   ELSE One((u ++ t)[m + l]) ++ g[m + l + 1]
    <3>1. m + l \in 1..Len(u ++ t)
      BY <1>1, <2>1
    <3>2. QED
      BY <2>3, <3>1 DEF Replaced
  <2>5. f[m] = IF IsPrefix(pattern, From(t, m)) THEN by ++ f[m + Len(pattern)]
               ELSE One(t[m]) ++ f[m + 1]
    BY <2>1 DEF Replaced
  <2>6. g[m + l] = f[m]
    <3>1. CASE IsPrefix(pattern, From(t, m))
      <4>1. m + Len(pattern) \in (m + 1)..(n + 1)
        BY <2>1, <3>1, PatternFits
      <4>2. Len(pattern) \in Nat
        BY TextBasics
      <4>3. m + l + Len(pattern) = (m + Len(pattern)) + l
        BY <1>1, <2>1, <4>2
      <4>4. g[m + l + Len(pattern)] = f[m + Len(pattern)]
        BY <2>2, <4>1, <4>3
      <4>5. QED
        BY <2>4, <2>5, <3>1, <4>4
    <3>2. CASE ~IsPrefix(pattern, From(t, m))
      <4>1. m + 1 \in (m + 1)..(n + 1) /\ m + l + 1 = (m + 1) + l
        BY <1>1, <2>1
      <4>2. g[m + l + 1] = f[m + 1]
        BY <2>2, <4>1
      <4>3. (u ++ t)[m + l] = t[m]
        BY <2>1, TokensOfBoth
      <4>4. QED
        BY <2>4, <2>5, <3>2, <4>2, <4>3
    <3>3. QED
      BY <3>1, <3>2
  <2>7. \A i \in m..(n + 1) : i = m \/ i \in (m + 1)..(n + 1)
    BY <1>1, <2>1
  <2>8. \A i \in m..(n + 1) : g[i + l] = f[i]
    BY <2>2, <2>6, <2>7
  <2>9. QED
    BY <2>1, <2>8 DEF m
<1>4. n \in T
  <2> HIDE DEF T, n
  <2>1. 0..n \subseteq T
    BY <1>1, <1>2, <1>3, Induction
  <2>2. QED
    BY <1>1, <2>1
<1>5. n - n + 1 = 1
  BY <1>1
<1>6. QED
  BY <1>4, <1>5

LEMMA ReplaceNothing ==
  ASSUME NEW pattern \in Text \ {<<>>}, NEW by \in Text
  PROVE  Replace(<<>>, pattern, by) = <<>>
<1>1. <<>> \in Text /\ Len(<<>>) = 0
  BY TextBasics
<1>2. PICK f : Replaced(<<>>, pattern, by, f)
  BY <1>1, ReplaceSteps
<1>3. f[0 + 1] = <<>> /\ Replace(<<>>, pattern, by) = f[1]
  BY <1>1, <1>2 DEF Replaced
<1>4. QED
  BY <1>3

LEMMA ReplaceMatch ==
  ASSUME NEW t \in Text, NEW pattern \in Text \ {<<>>}, NEW by \in Text
  PROVE  Replace(pattern ++ t, pattern, by) = by ++ Replace(t, pattern, by)
<1> DEFINE u == pattern ++ t
<1>1. u \in Text /\ Len(u) = Len(pattern) + Len(t) /\ Len(pattern) \in Nat \ {0} /\ Len(t) \in Nat
  BY TextBasics
<1>2. PICK f : Replaced(t, pattern, by, f)
  BY ReplaceSteps
<1>3. PICK g : Replaced(u, pattern, by, g)
  <2> HIDE DEF u
  <2>1. QED
    BY <1>1, ReplaceSteps
<1>4. IsPrefix(pattern, From(u, 1))
  <2>1. From(u, 1) = u
    BY <1>1, FromFirst
  <2>2. SubSeq(u, 1, Len(pattern)) = SubSeq(pattern, 1, Len(pattern))
    <3>1. 1 \in 1..Len(pattern) /\ Len(pattern) \in 1..Len(pattern)
      BY <1>1
    <3>2. QED
      BY <3>1, SubSeqOfConcat1 DEF Text, ++
  <2> HIDE DEF u
  <2>3. QED
    BY <1>1, <2>1, <2>2 DEF IsPrefix
<1>5. g[1 + Len(pattern)] = f[1]
  <2>1. 1 \in 1..(Len(t) + 1)
    BY <1>1
  <2>2. QED
    BY <1>2, <1>3, <2>1, ReplaceEnd
<1> HIDE DEF u
<1>6. 1 \in 1..Len(u)
  BY <1>1
<1>7. g[1] = by ++ g[1 + Len(pattern)]
  BY <1>3, <1>4, <1>6 DEF Replaced
<1>8. QED
  BY <1>2, <1>3, <1>5, <1>7 DEF Replaced, u

LEMMA ReplaceOther ==
  ASSUME NEW t \in Text, NEW c \in Token, NEW pattern \in Text \ {<<>>}, NEW by \in Text,
         ~IsPrefix(pattern, One(c) ++ t)
  PROVE  Replace(One(c) ++ t, pattern, by) = One(c) ++ Replace(t, pattern, by)
<1> DEFINE u == One(c) ++ t
<1>1. u \in Text /\ Len(u) = 1 + Len(t) /\ Len(t) \in Nat /\ u[1] = c /\ One(c) \in Text /\ Len(One(c)) = 1
  <2>1. One(c) \in Text /\ Len(One(c)) = 1 /\ One(c)[1] = c
    BY OneText
  <2>2. u[1] = One(c)[1]
    <3>1. 1 \in 1..Len(One(c))
      BY <2>1
    <3>2. QED
      BY <2>1, <3>1, TokensOfBoth
  <2>3. QED
    BY <2>1, <2>2, TwoJoined, LenText
<1>2. PICK f : Replaced(t, pattern, by, f)
  BY ReplaceSteps
<1>3. PICK g : Replaced(u, pattern, by, g)
  <2> HIDE DEF u
  <2>1. QED
    BY <1>1, ReplaceSteps
<1>4. g[1 + Len(One(c))] = f[1]
  <2>1. 1 \in 1..(Len(t) + 1) /\ One(c) \in Text
    BY <1>1
  <2>2. QED
    BY <1>2, <1>3, <2>1, ReplaceEnd DEF u
<1>5. ~IsPrefix(pattern, From(u, 1))
  BY <1>1, FromFirst
<1> HIDE DEF u
<1>6. 1 \in 1..Len(u)
  BY <1>1
<1>7. g[1] = One(c) ++ g[1 + 1]
  BY <1>1, <1>3, <1>5, <1>6 DEF Replaced
<1>8. QED
  BY <1>1, <1>2, <1>3, <1>4, <1>7 DEF Replaced, u

LEMMA ReplaceType ==
  ASSUME NEW t \in Text, NEW pattern \in Text \ {<<>>}, NEW by \in Text
  PROVE  Replace(t, pattern, by) \in Text
<1>1. PICK f : Replaced(t, pattern, by, f)
  BY ReplaceSteps
<1>2. 1 \in 1..(Len(t) + 1)
  BY TextBasics
<1>3. QED
  BY <1>1, <1>2 DEF Replaced

-----------------------------------------------------------------------------
(***************************************************************************)
(* Escapes.                                                                *)
(***************************************************************************)
\* One token before a text.
LEMMA TokensAfterFirst ==
  ASSUME NEW c \in Token, NEW r \in Text
  PROVE  /\ One(c) ++ r \in Text /\ Len(One(c) ++ r) = Len(r) + 1 /\ One(c) ++ r # <<>>
         /\ (One(c) ++ r)[1] = c
         /\ \A i \in 1..Len(r) : (One(c) ++ r)[i + 1] = r[i]
<1>1. One(c) \in Text /\ Len(One(c)) = 1 /\ One(c)[1] = c /\ Len(r) \in Nat
  BY OneText, LenText
<1> DEFINE v == One(c)
<1> HIDE DEF v
<1>2. v \in Text /\ Len(v) = 1 /\ v[1] = c
  BY <1>1 DEF v
<1>3. v ++ r \in Text /\ Len(v ++ r) = 1 + Len(r)
  BY <1>2, TwoJoined
<1>4. (v ++ r)[1] = c /\ \A i \in 1..Len(r) : (v ++ r)[i + 1] = r[i]
  <2>1. 1 \in 1..Len(v)
    BY <1>2
  <2>2. (v ++ r)[1] = v[1] /\ \A i \in 1..Len(r) : (v ++ r)[i + Len(v)] = r[i]
    BY <1>2, <2>1, TokensOfBoth
  <2>3. QED
    BY <1>2, <2>2
<1>5. v ++ r # <<>>
  BY <1>1, <1>3, TextBasics
<1>6. QED
  BY <1>1, <1>3, <1>4, <1>5 DEF v

LEMMA FirstAndRest ==
  ASSUME NEW t \in Text, t # <<>>
  PROVE  /\ Len(t) \in Nat \ {0}
         /\ \E c \in Token, r \in Text : t = One(c) ++ r
<1>1. Len(t) \in Nat \ {0}
  BY TextBasics
<1>2. 1 \in 1..Len(t) /\ Len(t) \in 1..Len(t)
  BY <1>1
<1>3. SubSeq(t, 1, Len(t)) = One(t[1]) ++ SubSeq(t, 1 + 1, Len(t))
  BY <1>2, SubSeqRecursiveFirst DEF Text, One, ++
<1>4. t = One(t[1]) ++ From(t, 2)
  BY <1>3, FromFirst DEF From
<1>5. 2 \in 1..(Len(t) + 1) /\ t[1] \in Token
  BY <1>1, <1>2, ElementOfSeq DEF Text
<1>6. From(t, 2) \in Text
  BY <1>5, Parts
<1>7. QED
  BY <1>1, <1>4, <1>5, <1>6

LEMMA Three ==
  ASSUME NEW S, NEW x \in S, NEW y \in S, NEW z \in S
  PROVE  <<x, y, z>> = One(x) ++ (One(y) ++ One(z))
<1>1. <<x, y, z>> = <<x>> \o <<y, z>>
  OBVIOUS
<1>2. <<y, z>> = <<y>> \o <<z>>
  <2>1. <<y>> \in Seq(S) /\ <<y, z>> = Append(<<y>>, z)
    OBVIOUS
  <2>2. QED
    BY <2>1, AppendIsConcat
<1>3. QED
  BY <1>1, <1>2, Zenon DEF One, ++

\* The three tokens of an escape.
Code(x, y) == <<"%", x, y>>

LEMMA CodeType ==
  ASSUME NEW x \in Token, NEW y \in Token
  PROVE  /\ Code(x, y) \in Text \ {<<>>} /\ Len(Code(x, y)) = 3
         /\ Code(x, y)[1] = "%" /\ Code(x, y)[2] = x /\ Code(x, y)[3] = y
         /\ \A t \in Text : Code(x, y) ++ t = One("%") ++ (One(x) ++ (One(y) ++ t))
<1>0. "%" \in Token
  BY DEF Token
<1>1. One("%") \in Text /\ One(x) \in Text /\ One(y) \in Text
  BY <1>0, OneText
<1>2. Code(x, y) = One("%") ++ (One(x) ++ One(y))
  BY <1>0, Three DEF Code
<1>3. One(x) ++ One(y) \in Text /\ One("%") ++ (One(x) ++ One(y)) \in Text
  <2>1. One(x) ++ One(y) \in Text
    BY <1>1, TwoJoined, Zenon
  <2>2. QED
    BY <1>1, <2>1, TwoJoined, Zenon
<1>4. \A t \in Text : (One("%") ++ (One(x) ++ One(y))) ++ t = One("%") ++ (One(x) ++ (One(y) ++ t))
  <2> DEFINE a == One("%")  b == One(x)  d == One(y)
  <2>1. a \in Text /\ b \in Text /\ d \in Text /\ b ++ d \in Text
    BY <1>1, <1>3
  <2> HIDE DEF a, b, d
  <2>2. ASSUME NEW t \in Text PROVE (a ++ (b ++ d)) ++ t = a ++ (b ++ (d ++ t))
    <3>1. (a ++ (b ++ d)) ++ t = a ++ ((b ++ d) ++ t)
      BY <2>1, ThreeJoined
    <3>2. (b ++ d) ++ t = b ++ (d ++ t)
      BY <2>1, ThreeJoined
    <3>3. QED
      BY <3>1, <3>2
  <2>3. QED
    BY <2>2 DEF a, b, d
<1>5. Len(Code(x, y)) = 3 /\ Code(x, y)[1] = "%" /\ Code(x, y)[2] = x /\ Code(x, y)[3] = y
      /\ Code(x, y) # <<>>
  BY DEF Code
<1>6. QED
  BY <1>2, <1>3, <1>4, <1>5

\* Escape goes through the text token by token.
LEMMA EscapeFirst ==
  ASSUME NEW c \in Token, NEW x \in Token, NEW y \in Token, NEW a \in Token, NEW r \in Text
  PROVE  /\ a = c => Escape(One(a) ++ r, c, x, y) = Code(x, y) ++ Escape(r, c, x, y)
         /\ a # c => Escape(One(a) ++ r, c, x, y) = One(a) ++ Escape(r, c, x, y)
<1> DEFINE p == One(c)  b == Code(x, y)  u == One(a)
<1>1. p \in Text \ {<<>>} /\ Len(p) = 1 /\ p[1] = c /\ u \in Text
  BY OneText
<1>2. b \in Text
  BY CodeType
<1>3. CASE a = c
  <2>1. u = p
    BY <1>3
  <2> HIDE DEF p, b, u
  <2>2. Replace(u ++ r, p, b) = b ++ Replace(r, p, b)
    BY <1>1, <1>2, <2>1, ReplaceMatch
  <2>3. QED
    BY <1>3, <2>2 DEF Escape, One, Code, p, b, u
<1>4. CASE a # c
  <2>1. ~IsPrefix(p, u ++ r)
    <3>1. Len(u ++ r) \in Nat /\ Len(u ++ r) >= 1 /\ (u ++ r)[1] = a
      <4>1. /\ Len(u ++ r) = Len(r) + 1 /\ (u ++ r)[1] = a
        BY TokensAfterFirst
      <4>2. Len(r) \in Nat
        BY LenText
      <4>3. QED
        BY <4>1, <4>2
    <3> DEFINE w == u ++ r
    <3>2. w \in Text
      BY <1>1, TextBasics
    <3> HIDE DEF w
    <3>3. SubSeq(w, 1, 1)[1] = a
      <4>1. Len(w) \in Nat /\ Len(w) >= 1 /\ w[1] = a
        BY <3>1 DEF w
      <4>2. \A i \in 1..1 : w[i] \in Token
        BY <4>1
      <4>3. 1 \in 1..(1 - 1 + 1) /\ 1 + 1 - 1 = 1
        OBVIOUS
      <4>4. SubSeq(w, 1, 1)[1] = w[1 + 1 - 1]
        BY <4>2, <4>3, SubSeqProperties
      <4>5. QED
        BY <4>1, <4>4
    <3>4. SubSeq(p, 1, 1) = p
      BY <1>1, SubSeqFull DEF Text
    <3>5. SubSeq(w, 1, 1) # SubSeq(p, 1, 1)
      BY <1>1, <1>4, <3>3, <3>4
    <3> HIDE DEF p
    <3>6. QED
      BY <1>1, <3>5 DEF IsPrefix, w
  <2> HIDE DEF p, b
  <2>2. Replace(One(a) ++ r, p, b) = One(a) ++ Replace(r, p, b)
    BY <1>1, <1>2, <2>1, ReplaceOther
  <2>3. QED
    BY <1>4, <2>2 DEF Escape, One, Code, p, b
<1>5. QED
  BY <1>3, <1>4

LEMMA EscapeType ==
  ASSUME NEW c \in Token, NEW x \in Token, NEW y \in Token
  PROVE  /\ Escape(<<>>, c, x, y) = <<>>
         /\ \A t \in Text : Escape(t, c, x, y) \in Text
<1> DEFINE p == One(c)  b == Code(x, y)
<1>1. p \in Text \ {<<>>}
  BY OneText
<1>2. b \in Text
  BY CodeType
<1> HIDE DEF p, b
<1>3. Replace(<<>>, p, b) = <<>> /\ \A t \in Text : Replace(t, p, b) \in Text
  BY <1>1, <1>2, ReplaceNothing, ReplaceType
<1>4. QED
  BY <1>3 DEF Escape, One, Code, p, b

LEMMA EscapeBoth ==
  ASSUME NEW c \in Token, NEW x \in Token, NEW y \in Token, NEW s \in Text, NEW t \in Text
  PROVE  Escape(s ++ t, c, x, y) = Escape(s, c, x, y) ++ Escape(t, c, x, y)
<1> DEFINE E(u) == Escape(u, c, x, y)
           P == {u \in Text : E(u ++ t) = E(u) ++ E(t)}
<1>1. \A u \in Text : E(u) \in Text
  BY EscapeType
<1>2. <<>> \in P
  <2>1. <<>> ++ t = t /\ <<>> ++ E(t) = E(t) /\ <<>> \in Text
    BY <1>1, EmptyText, NoneJoined
  <2>2. E(<<>>) = <<>>
    BY EscapeType
  <2>3. QED
    BY <2>1, <2>2
<1>3. ASSUME NEW a \in Token, NEW r \in Text, r \in P PROVE One(a) ++ r \in P
  <2> DEFINE v == One(a)
  <2> PICK code \in Text : E(v ++ r) = code ++ E(r) /\ E(v ++ (r ++ t)) = code ++ E(r ++ t)
    <3>1. r ++ t \in Text
      BY TwoJoined
    <3>2. Code(x, y) \in Text /\ One(a) \in Text
      BY OneText, CodeType
    <3>3. CASE a = c
      BY <3>1, <3>2, <3>3, EscapeFirst
    <3>4. CASE a # c
      BY <3>1, <3>2, <3>4, EscapeFirst
    <3>5. QED
      BY <3>3, <3>4
  <2>1. v \in Text /\ code \in Text
    BY OneText
  <2>2. E(v ++ r) = code ++ E(r)
    OBVIOUS
  <2>3. E(v ++ (r ++ t)) = code ++ E(r ++ t)
    OBVIOUS
  <2> HIDE DEF E, v
  <2>4. (v ++ r) ++ t = v ++ (r ++ t)
    BY <2>1, ThreeJoined
  <2>5. (code ++ E(r)) ++ E(t) = code ++ (E(r) ++ E(t))
    BY <1>1, <2>1, ThreeJoined
  <2>6. E(r ++ t) = E(r) ++ E(t)
    BY <1>3
  <2>7. v ++ r \in Text
    BY <2>1, TextBasics
  <2>8. v ++ r \in P
    BY <2>2, <2>3, <2>4, <2>5, <2>6, <2>7
  <2>9. QED
    BY <2>8 DEF v
<1> HIDE DEF P
<1>4. Text \subseteq P
  BY <1>2, <1>3, FirstInduction DEF Text
<1>5. QED
  BY <1>4 DEF P

\* Its first two tokens, if they are not escaped; and the other way round.
LEMMA EscapeTwo ==
  ASSUME NEW c \in Token, NEW x \in Token, NEW y \in Token, NEW t \in Text,
         NEW p \in Token \ {"%"}, NEW q \in Token \ {"%"}
  PROVE  /\ Len(t) >= 2 /\ t[1] = p /\ t[2] = q /\ p # c /\ q # c =>
              /\ Len(Escape(t, c, x, y)) >= 2
              /\ Escape(t, c, x, y)[1] = p /\ Escape(t, c, x, y)[2] = q
         /\ Len(Escape(t, c, x, y)) >= 2 /\ Escape(t, c, x, y)[1] = p /\ Escape(t, c, x, y)[2] = q =>
              Len(t) >= 2 /\ t[1] = p /\ t[2] = q
<1> DEFINE E(u) == Escape(u, c, x, y)
<1>0. Len(<<>>) = 0
  OBVIOUS
<1>1. E(<<>>) = <<>> /\ \A u \in Text : E(u) \in Text /\ Len(E(u)) \in Nat
  BY EscapeType, TextBasics
<1>2. ASSUME NEW u \in Text, u # <<>>
      PROVE  \E a \in Token, r \in Text :
               /\ Len(u) = Len(r) + 1 /\ u[1] = a /\ \A i \in 1..Len(r) : u[i + 1] = r[i]
               /\ Len(E(u)) >= 1
               /\ a = c => E(u)[1] = "%"
               /\ a # c => /\ Len(E(u)) = Len(E(r)) + 1 /\ E(u)[1] = a
                           /\ \A i \in 1..Len(E(r)) : E(u)[i + 1] = E(r)[i]
  <2>1. PICK a \in Token, r \in Text : u = One(a) ++ r
    BY <1>2, FirstAndRest
  <2>2. Len(u) = Len(r) + 1 /\ u[1] = a /\ \A i \in 1..Len(r) : u[i + 1] = r[i]
    <3> DEFINE w == One(a) ++ r
    <3>1. Len(w) = Len(r) + 1 /\ w[1] = a
      BY TokensAfterFirst
    <3>2. \A i \in 1..Len(r) : w[i + 1] = r[i]
      BY TokensAfterFirst
    <3> HIDE DEF w
    <3>3. QED
      BY <2>1, <3>1, <3>2 DEF w
  <2>3. (a = c => E(u) = Code(x, y) ++ E(r)) /\ (a # c => E(u) = One(a) ++ E(r))
    BY <2>1, EscapeFirst
  <2>4. CASE a = c
    <3> DEFINE code == Code(x, y)
    <3>1. code \in Text /\ Len(code) = 3 /\ code[1] = "%"
      BY CodeType
    <3>2. E(u) = code ++ E(r)
      BY <2>3, <2>4
    <3> HIDE DEF code, E
    <3>3. (code ++ E(r))[1] = code[1] /\ Len(code ++ E(r)) = 3 + Len(E(r))
      <4>1. 1 \in 1..Len(code) /\ E(r) \in Text
        BY <1>1, <3>1
      <4>2. (code ++ E(r))[1] = code[1]
        BY <3>1, <4>1, TokensOfBoth
      <4>3. Len(code ++ E(r)) = 3 + Len(E(r))
        BY <3>1, <4>1, TwoJoined
      <4>4. QED
        BY <4>2, <4>3
    <3>4. QED
      BY <1>1, <2>2, <2>4, <3>1, <3>2, <3>3
  <2>5. CASE a # c
    <3>1. E(u) = One(a) ++ E(r) /\ E(r) \in Text
      BY <1>1, <2>3, <2>5
    <3> HIDE DEF E
    <3>2. /\ Len(E(u)) = Len(E(r)) + 1 /\ E(u)[1] = a
          /\ \A i \in 1..Len(E(r)) : E(u)[i + 1] = E(r)[i]
      <4> DEFINE e == E(r)  w == One(a) ++ e
      <4> HIDE DEF e
      <4>1. e \in Text
        BY <3>1 DEF e
      <4>2. Len(w) = Len(e) + 1 /\ w[1] = a
        BY <4>1, TokensAfterFirst
      <4>3. \A i \in 1..Len(e) : w[i + 1] = e[i]
        BY <4>1, TokensAfterFirst
      <4>4. E(u) = w
        BY <3>1 DEF e
      <4> HIDE DEF w
      <4>5. QED
        BY <4>2, <4>3, <4>4 DEF e
    <3>3. QED
      BY <1>1, <2>2, <2>5, <3>2
  <2>6. QED
    BY <2>4, <2>5
<1> HIDE DEF E
<1>3. CASE t = <<>>
  BY <1>0, <1>1, <1>3 DEF E
<1>4. CASE t # <<>>
  <2>1. PICK a \in Token, r \in Text :
               /\ Len(t) = Len(r) + 1 /\ t[1] = a /\ \A i \in 1..Len(r) : t[i + 1] = r[i]
               /\ Len(E(t)) >= 1
               /\ a = c => E(t)[1] = "%"
               /\ a # c => /\ Len(E(t)) = Len(E(r)) + 1 /\ E(t)[1] = a
                           /\ \A i \in 1..Len(E(r)) : E(t)[i + 1] = E(r)[i]
    BY <1>2, <1>4
  <2>2. Len(r) \in Nat /\ Len(E(r)) \in Nat
    BY <1>1, TextBasics
  <2>3. CASE a = c
    BY <2>1, <2>3 DEF E
  <2>4. CASE a # c
    <3>1. CASE r = <<>>
      BY <1>0, <1>1, <2>1, <2>4, <3>1 DEF E
    <3>2. CASE r # <<>>
      <4>1. PICK b \in Token, q2 \in Text :
               /\ Len(r) = Len(q2) + 1 /\ r[1] = b
               /\ Len(E(r)) >= 1
               /\ b = c => E(r)[1] = "%"
               /\ b # c => E(r)[1] = b
        BY <1>2, <3>2
      <4>2. Len(q2) \in Nat /\ Len(r) >= 1
        BY <4>1, TextBasics
      <4>3. t[1 + 1] = r[1] /\ E(t)[1 + 1] = E(r)[1]
        <5>1. 1 \in 1..Len(r) /\ 1 \in 1..Len(E(r))
          BY <2>2, <4>1, <4>2
        <5>2. QED
          BY <2>1, <2>4, <5>1
      <4>4. t[2] = b /\ E(t)[2] = E(r)[1] /\ Len(t) >= 2 /\ Len(E(t)) >= 2
        BY <2>1, <2>2, <2>4, <4>1, <4>2, <4>3
      <4>5. QED
        BY <2>1, <2>4, <4>1, <4>4 DEF E
    <3>3. QED
      BY <3>1, <3>2
  <2>5. QED
    BY <2>3, <2>4
<1>5. QED
  BY <1>3, <1>4

\* A text in which no percent sign is followed by x and y.
Free(text, x, y) ==
  \A i \in 1..(Len(text) - 2) : ~(text[i] = "%" /\ text[i + 1] = x /\ text[i + 2] = y)

\* Unescape undoes Escape in a text where nothing looks like the code, and
\* wherever percent signs are escaped themselves.
LEMMA EscapeUndone ==
  ASSUME NEW c \in Token, NEW x \in Token \ {"%"}, NEW y \in Token \ {"%"}, NEW t \in Text,
         c = "%" \/ Free(t, x, y)
  PROVE  Unescape(Escape(t, c, x, y), c, x, y) = t
<1> DEFINE p == One(c)  code == Code(x, y)
           E(u) == Escape(u, c, x, y)  U(u) == Unescape(u, c, x, y)
           P == {u \in Text : c = "%" \/ Free(u, x, y) => U(E(u)) = u}
<1>1. \A u \in Text : E(u) \in Text
  BY EscapeType
<1>2. p \in Text /\ code \in Text \ {<<>>} /\ Len(code) = 3 /\ code[1] = "%" /\ code[2] = x /\ code[3] = y
  BY OneText, CodeType
<1>3. <<>> \in P
  <2>1. E(<<>>) = <<>> /\ <<>> \in Text
    BY EscapeType, TextBasics
  <2> HIDE DEF p, code
  <2>2. Replace(<<>>, code, p) = <<>>
    BY <1>2, ReplaceNothing
  <2>3. QED
    BY <2>1, <2>2 DEF Unescape, One, Code, code, p
<1>4. ASSUME NEW a \in Token, NEW r \in Text, r \in P PROVE One(a) ++ r \in P
  <2> DEFINE u == One(a) ++ r
  <2>1. u \in Text /\ Len(u) = Len(r) + 1 /\ u[1] = a /\ \A i \in 1..Len(r) : u[i + 1] = r[i]
    BY TokensAfterFirst
  <2> SUFFICES ASSUME c = "%" \/ Free(u, x, y) PROVE U(E(u)) = u
    BY <2>1
  <2>2. Len(r) \in Nat
    BY TextBasics
  <2>3. Free(u, x, y) => Free(r, x, y)
    <3> SUFFICES ASSUME Free(u, x, y), NEW i \in 1..(Len(r) - 2)
                 PROVE  ~(r[i] = "%" /\ r[i + 1] = x /\ r[i + 2] = y)
      BY DEF Free
    <3>1. i + 1 \in 1..(Len(u) - 2) /\ i \in 1..Len(r) /\ i + 1 \in 1..Len(r) /\ i + 2 \in 1..Len(r)
      BY <2>1, <2>2
    <3>2. u[i + 1] = r[i] /\ u[(i + 1) + 1] = r[i + 1] /\ u[(i + 1) + 2] = r[i + 2]
      <4> HIDE DEF u
      <4>1. (i + 2) + 1 = (i + 1) + 2
        BY <2>2
      <4>2. u[(i + 2) + 1] = r[i + 2]
        BY <2>1, <3>1
      <4>3. QED
        BY <2>1, <3>1, <4>1, <4>2
    <3>3. QED
      BY <3>1, <3>2 DEF Free
  <2>4. U(E(r)) = r
    BY <1>4, <2>3
  <2>5. (a = c => E(u) = code ++ E(r)) /\ (a # c => E(u) = One(a) ++ E(r))
    BY EscapeFirst
  <2>6. CASE a = c
    <3>1. E(u) = code ++ E(r)
      BY <2>5, <2>6
    <3>2. Replace(code ++ E(r), code, p) = p ++ Replace(E(r), code, p)
      <4> HIDE DEF code, p, E
      <4>1. QED
        BY <1>1, <1>2, ReplaceMatch
    <3>3. U(E(u)) = p ++ U(E(r))
      BY <3>1, <3>2 DEF Unescape, One, Code
    <3>4. QED
      BY <2>4, <2>6, <3>3
  <2>7. CASE a # c
    <3>1. E(u) = One(a) ++ E(r)
      BY <2>5, <2>7
    <3> DEFINE w == One(a) ++ E(r)
    <3>2. /\ w \in Text /\ Len(w) = Len(E(r)) + 1 /\ w[1] = a /\ Len(E(r)) \in Nat
          /\ \A i \in 1..Len(E(r)) : w[i + 1] = E(r)[i]
      BY <1>1, TokensAfterFirst, TextBasics
    <3>3. ~IsPrefix(code, w)
      <4> SUFFICES ASSUME IsPrefix(code, w) PROVE FALSE
        OBVIOUS
      <4> HIDE DEF code, w, E
      <4>1. Len(w) \in Nat /\ Len(w) >= 3 /\ SubSeq(code, 1, 3) = SubSeq(w, 1, 3)
        BY <1>2, <3>2 DEF IsPrefix
      <4>2. SubSeq(code, 1, 3) = code
        BY <1>2, SubSeqFull DEF Text
      <4>3. \A i \in 1..3 : code[i] = w[i]
        <5>1. \A i \in 1..3 : w[i] \in Token
          BY <3>2, <4>1, ElementOfSeq DEF Text
        <5>2. \A i \in 1..(3 - 1 + 1) : SubSeq(w, 1, 3)[i] = w[1 + i - 1]
          BY <5>1, SubSeqProperties
        <5>3. \A i \in 1..3 : i \in 1..(3 - 1 + 1) /\ 1 + i - 1 = i
          OBVIOUS
        <5>4. QED
          BY <4>1, <4>2, <5>2, <5>3
      <4>4. w[1] = "%" /\ w[2] = x /\ w[3] = y
        <5>1. 1 \in 1..3 /\ 2 \in 1..3 /\ 3 \in 1..3
          OBVIOUS
        <5>2. QED
          BY <1>2, <4>3, <5>1
      <4>5. a = "%" /\ c # "%"
        BY <2>7, <3>2, <4>4
      <4>6. E(r)[1] = x /\ E(r)[2] = y /\ Len(E(r)) >= 2
        <5>1. Len(E(r)) >= 2
          BY <3>2, <4>1
        <5>2. 1 \in 1..Len(E(r)) /\ 2 \in 1..Len(E(r)) /\ 1 + 1 = 2 /\ 2 + 1 = 3
          BY <3>2, <5>1
        <5>3. w[1 + 1] = E(r)[1] /\ w[2 + 1] = E(r)[2]
          BY <3>2, <5>2
        <5>4. QED
          BY <4>4, <5>1, <5>2, <5>3
      <4>7. Len(r) >= 2 /\ r[1] = x /\ r[2] = y
        BY <4>6, EscapeTwo DEF E
      <4>8. Free(u, x, y)
        BY <4>5
      <4>9. 1 \in 1..(Len(u) - 2) /\ u[1] = "%" /\ u[1 + 1] = x /\ u[1 + 2] = y
        <5> HIDE DEF u
        <5>1. 1 \in 1..(Len(u) - 2) /\ 1 \in 1..Len(r) /\ 2 \in 1..Len(r) /\ 2 + 1 = 1 + 2
          BY <2>1, <2>2, <4>7
        <5>2. u[1 + 1] = r[1] /\ u[2 + 1] = r[2]
          BY <2>1, <5>1
        <5>3. QED
          BY <2>1, <4>5, <4>7, <5>1, <5>2
      <4>10. QED
        BY <4>8, <4>9 DEF Free
    <3>4. Replace(One(a) ++ E(r), code, p) = One(a) ++ Replace(E(r), code, p)
      <4> HIDE DEF code, p, E
      <4>1. QED
        BY <1>1, <1>2, <3>3, ReplaceOther
    <3>5. U(E(u)) = One(a) ++ U(E(r))
      BY <3>1, <3>4 DEF Unescape, One, Code
    <3>6. QED
      BY <2>4, <3>5
  <2>8. QED
    BY <2>6, <2>7
<1> HIDE DEF P
<1>5. Text \subseteq P
  BY <1>3, <1>4, FirstInduction DEF Text
<1>6. QED
  BY <1>5 DEF P

\* Every percent sign is followed by one of these pairs.
Marked(text, pairs) ==
  \A i \in 1..Len(text) :
    text[i] = "%" => i + 2 <= Len(text) /\ <<text[i + 1], text[i + 2]>> \in pairs

LEMMA MarkedFirst ==
  ASSUME NEW a \in Token, NEW r \in Text, NEW pairs
  PROVE  Marked(One(a) ++ r, pairs)
           <=> Marked(r, pairs) /\ (a = "%" => Len(r) >= 2 /\ <<r[1], r[2]>> \in pairs)
<1> DEFINE t == One(a) ++ r
<1>1. Len(t) = Len(r) + 1 /\ t[1] = a
  BY TokensAfterFirst
<1>2. \A i \in 1..Len(r) : t[i + 1] = r[i]
  BY TokensAfterFirst
<1>3. Len(r) \in Nat
  BY LenText
<1> HIDE DEF t
<1>4. ASSUME Len(r) >= 2 PROVE t[1 + 1] = r[1] /\ t[1 + 2] = r[2]
  <2>1. 1 \in 1..Len(r) /\ 2 \in 1..Len(r) /\ 2 + 1 = 1 + 2
    BY <1>3, <1>4
  <2>2. t[1 + 1] = r[1] /\ t[2 + 1] = r[2]
    BY <1>2, <2>1
  <2>3. QED
    BY <2>1, <2>2
<1>5. ASSUME NEW i \in 1..Len(r), i + 2 <= Len(r)
      PROVE  t[(i + 1) + 1] = r[i + 1] /\ t[(i + 1) + 2] = r[i + 2]
  <2>1. i + 1 \in 1..Len(r) /\ i + 2 \in 1..Len(r) /\ (i + 2) + 1 = (i + 1) + 2
    BY <1>3, <1>5
  <2>2. t[(i + 1) + 1] = r[i + 1] /\ t[(i + 2) + 1] = r[i + 2]
    BY <1>2, <2>1
  <2>3. QED
    BY <2>1, <2>2
<1>6. ASSUME Marked(t, pairs)
      PROVE  Marked(r, pairs) /\ (a = "%" => Len(r) >= 2 /\ <<r[1], r[2]>> \in pairs)
  <2>1. ASSUME NEW i \in 1..Len(r), r[i] = "%"
        PROVE  i + 2 <= Len(r) /\ <<r[i + 1], r[i + 2]>> \in pairs
    <3>1. i + 1 \in 1..Len(t) /\ t[i + 1] = "%"
      BY <1>1, <1>2, <1>3, <2>1
    <3>2. (i + 1) + 2 <= Len(t) /\ <<t[(i + 1) + 1], t[(i + 1) + 2]>> \in pairs
      BY <1>6, <3>1 DEF Marked
    <3>3. i + 2 <= Len(r)
      BY <1>1, <1>3, <3>2
    <3>4. QED
      BY <1>5, <3>2, <3>3
  <2>2. ASSUME a = "%" PROVE Len(r) >= 2 /\ <<r[1], r[2]>> \in pairs
    <3>1. 1 \in 1..Len(t) /\ t[1] = "%"
      BY <1>1, <1>3, <2>2
    <3>2. 1 + 2 <= Len(t) /\ <<t[1 + 1], t[1 + 2]>> \in pairs
      BY <1>6, <3>1 DEF Marked
    <3>3. Len(r) >= 2
      BY <1>1, <1>3, <3>2
    <3>4. QED
      BY <1>4, <3>2, <3>3
  <2>3. QED
    BY <2>1, <2>2 DEF Marked
<1>7. ASSUME Marked(r, pairs), a = "%" => Len(r) >= 2 /\ <<r[1], r[2]>> \in pairs
      PROVE  Marked(t, pairs)
  <2> SUFFICES ASSUME NEW i \in 1..Len(t), t[i] = "%"
               PROVE  i + 2 <= Len(t) /\ <<t[i + 1], t[i + 2]>> \in pairs
    BY DEF Marked
  <2>1. CASE i = 1
    <3>1. Len(r) >= 2 /\ <<r[1], r[2]>> \in pairs
      BY <1>1, <1>7, <2>1
    <3>2. QED
      BY <1>1, <1>3, <1>4, <2>1, <3>1
  <2>2. CASE i # 1
    <3> DEFINE k == i - 1
    <3>1. k \in 1..Len(r) /\ k + 1 = i
      BY <1>1, <1>3, <2>2
    <3> HIDE DEF k
    <3>2. r[k] = "%"
      BY <1>2, <3>1
    <3>3. k + 2 <= Len(r) /\ <<r[k + 1], r[k + 2]>> \in pairs
      BY <1>7, <3>1, <3>2 DEF Marked
    <3>4. t[(k + 1) + 1] = r[k + 1] /\ t[(k + 1) + 2] = r[k + 2]
      BY <1>5, <3>1, <3>3
    <3>5. i + 2 <= Len(t)
      BY <1>1, <1>3, <3>1, <3>3
    <3>6. QED
      BY <3>1, <3>3, <3>4, <3>5
  <2>3. QED
    BY <2>1, <2>2
<1>8. QED
  BY <1>6, <1>7 DEF t

LEMMA MarkedCode ==
  ASSUME NEW x \in Token \ {"%"}, NEW y \in Token \ {"%"}, NEW r \in Text, NEW pairs,
         Marked(r, pairs), <<x, y>> \in pairs
  PROVE  Marked(Code(x, y) ++ r, pairs)
<1> DEFINE s == One(y) ++ r  t == One(x) ++ s
<1>1. "%" \in Token
  BY DEF Token
<1>2. Marked(s, pairs) /\ s \in Text /\ Len(s) = Len(r) + 1 /\ s[1] = y /\ Len(r) \in Nat
  BY MarkedFirst, TokensAfterFirst, LenText
<1> HIDE DEF s
<1>3. Marked(t, pairs) /\ t \in Text /\ Len(t) = Len(s) + 1 /\ t[1] = x
  BY <1>2, MarkedFirst, TokensAfterFirst
<1>4. t[1 + 1] = s[1]
  <2>1. 1 \in 1..Len(s)
    BY <1>2
  <2>2. QED
    BY <1>2, <2>1, TokensAfterFirst
<1> HIDE DEF t
<1>5. Len(t) >= 2 /\ <<t[1], t[2]>> \in pairs
  BY <1>2, <1>3, <1>4
<1>6. Marked(One("%") ++ t, pairs)
  BY <1>1, <1>3, <1>5, MarkedFirst
<1>7. QED
  BY <1>6, CodeType DEF s, t

\* Escaping leaves marks, and keeps those that are there.
LEMMA EscapeMarked ==
  ASSUME NEW c \in Token, NEW x \in Token \ {"%"}, NEW y \in Token \ {"%"}, NEW t \in Text,
         NEW pairs \in SUBSET ((Token \ {"%", c}) \X (Token \ {"%", c})),
         c = "%" \/ Marked(t, pairs)
  PROVE  Marked(Escape(t, c, x, y), pairs \cup {<<x, y>>})
<1> DEFINE E(u) == Escape(u, c, x, y)  all == pairs \cup {<<x, y>>}
           P == {u \in Text : c = "%" \/ Marked(u, pairs) => Marked(E(u), all)}
<1>1. \A u \in Text : E(u) \in Text
  BY EscapeType
<1>2. <<>> \in P
  <2>1. <<>> \in Text /\ Len(<<>>) = 0
    BY EmptyText
  <2>2. Marked(<<>>, all)
    BY <2>1 DEF Marked
  <2> HIDE DEF all
  <2>3. QED
    BY <2>1, <2>2, EscapeType
<1>3. ASSUME NEW a \in Token, NEW r \in Text, r \in P PROVE One(a) ++ r \in P
  <2>1. One(a) ++ r \in Text
    BY TokensAfterFirst
  <2> SUFFICES ASSUME c = "%" \/ Marked(One(a) ++ r, pairs) PROVE Marked(E(One(a) ++ r), all)
    BY <2>1
  <2>2. c # "%" => Marked(r, pairs) /\ (a = "%" => Len(r) >= 2 /\ <<r[1], r[2]>> \in pairs)
    BY MarkedFirst
  <2>3. Marked(E(r), all)
    BY <1>3, <2>2
  <2>4. CASE a = c
    <3>1. E(One(a) ++ r) = Code(x, y) ++ E(r)
      BY <2>4, EscapeFirst
    <3>2. Marked(Code(x, y) ++ E(r), all)
      <4>1. <<x, y>> \in all
        OBVIOUS
      <4> HIDE DEF all, E
      <4>2. QED
        BY <1>1, <2>3, <4>1, MarkedCode
    <3> HIDE DEF E, all
    <3>3. QED
      BY <3>1, <3>2
  <2>5. CASE a # c
    <3>1. E(One(a) ++ r) = One(a) ++ E(r)
      BY <2>5, EscapeFirst
    <3>2. ASSUME a = "%" PROVE Len(E(r)) >= 2 /\ <<E(r)[1], E(r)[2]>> \in all
      <4> DEFINE p == r[1]  q == r[2]
      <4>1. Len(r) >= 2 /\ <<p, q>> \in pairs
        BY <2>2, <2>5, <3>2
      <4> HIDE DEF p, q
      <4>2. p \in Token \ {"%"} /\ q \in Token \ {"%"} /\ p # c /\ q # c
        BY <4>1
      <4>3. Len(E(r)) >= 2 /\ E(r)[1] = p /\ E(r)[2] = q
        <5>1. Len(r) >= 2 /\ r[1] = p /\ r[2] = q
          BY <4>1 DEF p, q
        <5>2. x \in Token /\ y \in Token
          OBVIOUS
        <5>3. QED
          BY <4>2, <5>1, <5>2, EscapeTwo
      <4> HIDE DEF E
      <4>4. QED
        BY <4>1, <4>3
    <3> HIDE DEF E, all
    <3>3. Marked(One(a) ++ E(r), all)
      BY <1>1, <2>3, <3>2, MarkedFirst
    <3>4. QED
      BY <3>1, <3>3
  <2>6. QED
    BY <2>4, <2>5
<1> HIDE DEF P
<1>4. Text \subseteq P
  BY <1>2, <1>3, FirstInduction DEF Text
<1>5. QED
  BY <1>4 DEF P

LEMMA MarkedIsFree ==
  ASSUME NEW t \in Text, NEW pairs, Marked(t, pairs), NEW x, NEW y, <<x, y>> \notin pairs
  PROVE  Free(t, x, y)
<1> SUFFICES ASSUME NEW i \in 1..(Len(t) - 2), t[i] = "%", t[i + 1] = x, t[i + 2] = y PROVE FALSE
  BY DEF Free
<1>1. i \in 1..Len(t)
  BY LenText
<1>2. <<t[i + 1], t[i + 2]>> \in pairs
  BY <1>1 DEF Marked
<1>3. QED
  BY <1>2

\* A text without a token.
Lacks(text, c) == \A i \in 1..Len(text) : text[i] # c

LEMMA LacksBoth ==
  ASSUME NEW s \in Text, NEW t \in Text, NEW c
  PROVE  Lacks(s ++ t, c) <=> Lacks(s, c) /\ Lacks(t, c)
<1> DEFINE u == s ++ t
<1>1. Len(u) = Len(s) + Len(t) /\ Len(s) \in Nat /\ Len(t) \in Nat
  BY TwoJoined, LenText
<1>2. /\ \A i \in 1..Len(s) : u[i] = s[i]
      /\ \A i \in 1..Len(t) : u[i + Len(s)] = t[i]
      /\ \A i \in 1..(Len(s) + Len(t)) : i \in 1..Len(s) \/ i - Len(s) \in 1..Len(t)
  BY TokensOfBoth
<1> HIDE DEF u
<1>3. ASSUME Lacks(u, c) PROVE Lacks(s, c) /\ Lacks(t, c)
  <2>1. ASSUME NEW i \in 1..Len(s) PROVE s[i] # c
    <3>1. i \in 1..Len(u)
      BY <1>1
    <3>2. QED
      BY <1>2, <1>3, <3>1 DEF Lacks
  <2>2. ASSUME NEW i \in 1..Len(t) PROVE t[i] # c
    <3>1. i + Len(s) \in 1..Len(u)
      BY <1>1
    <3>2. QED
      BY <1>2, <1>3, <3>1 DEF Lacks
  <2>3. QED
    BY <2>1, <2>2 DEF Lacks
<1>4. ASSUME Lacks(s, c), Lacks(t, c) PROVE Lacks(u, c)
  <2> SUFFICES ASSUME NEW i \in 1..Len(u) PROVE u[i] # c
    BY DEF Lacks
  <2>1. CASE i \in 1..Len(s)
    BY <1>2, <1>4, <2>1 DEF Lacks
  <2>2. CASE i - Len(s) \in 1..Len(t)
    <3> DEFINE k == i - Len(s)
    <3>1. k \in 1..Len(t) /\ k + Len(s) = i
      BY <1>1, <2>2
    <3> HIDE DEF k
    <3>2. QED
      BY <1>2, <1>4, <3>1 DEF Lacks
  <2>3. QED
    BY <1>1, <1>2, <2>1, <2>2
<1>5. QED
  BY <1>3, <1>4 DEF u

LEMMA LacksOne ==
  ASSUME NEW a \in Token, NEW c, a # c
  PROVE  Lacks(One(a), c)
<1>1. Len(One(a)) = 1 /\ One(a)[1] = a
  BY OneText
<1>2. QED
  BY <1>1 DEF Lacks

LEMMA LacksCode ==
  ASSUME NEW x \in Token, NEW y \in Token, NEW c, c \notin {"%", x, y}
  PROVE  Lacks(Code(x, y), c)
<1>1. \A i \in 1..3 : i = 1 \/ i = 2 \/ i = 3
  OBVIOUS
<1>2. QED
  BY <1>1, CodeType DEF Lacks

LEMMA LacksNothing ==
  ASSUME NEW c
  PROVE  Lacks(<<>>, c)
BY EmptyText DEF Lacks

\* What is escaped is gone, and nothing else comes but the tokens of the code.
LEMMA EscapeLacks ==
  ASSUME NEW c \in Token, NEW x \in Token, NEW y \in Token, NEW t \in Text,
         NEW d \in Token \ {"%", x, y}, d = c \/ Lacks(t, d)
  PROVE  Lacks(Escape(t, c, x, y), d)
<1> DEFINE E(u) == Escape(u, c, x, y)
           P == {u \in Text : d = c \/ Lacks(u, d) => Lacks(E(u), d)}
<1>1. \A u \in Text : E(u) \in Text
  BY EscapeType
<1>2. <<>> \in P
  BY EmptyText, EscapeType, LacksNothing
<1>3. ASSUME NEW a \in Token, NEW r \in Text, r \in P PROVE One(a) ++ r \in P
  <2>1. One(a) ++ r \in Text /\ One(a) \in Text /\ Code(x, y) \in Text
    BY TokensAfterFirst, OneText, CodeType
  <2> SUFFICES ASSUME d = c \/ Lacks(One(a) ++ r, d) PROVE Lacks(E(One(a) ++ r), d)
    BY <2>1
  <2>2. d # c => Lacks(r, d) /\ Lacks(One(a), d)
    BY <2>1, LacksBoth
  <2>3. Lacks(E(r), d)
    BY <1>3, <2>2
  <2>4. CASE a = c
    <3>1. E(One(a) ++ r) = Code(x, y) ++ E(r)
      BY <2>4, EscapeFirst
    <3>2. Lacks(Code(x, y), d)
      BY LacksCode
    <3> HIDE DEF E
    <3>3. Lacks(Code(x, y) ++ E(r), d)
      BY <1>1, <2>1, <2>3, <3>2, LacksBoth
    <3>4. QED
      BY <3>1, <3>3
  <2>5. CASE a # c
    <3>1. E(One(a) ++ r) = One(a) ++ E(r)
      BY <2>5, EscapeFirst
    <3>2. Lacks(One(a), d)
      BY <2>2, <2>5, LacksOne
    <3> HIDE DEF E
    <3>3. Lacks(One(a) ++ E(r), d)
      BY <1>1, <2>1, <2>3, <3>2, LacksBoth
    <3>4. QED
      BY <3>1, <3>3
  <2>6. QED
    BY <2>4, <2>5
<1> HIDE DEF P
<1>4. Text \subseteq P
  BY <1>2, <1>3, FirstInduction DEF Text
<1>5. QED
  BY <1>4 DEF P

\* A text without the token is left as it is.
LEMMA EscapeSame ==
  ASSUME NEW c \in Token, NEW x \in Token, NEW y \in Token, NEW t \in Text, Lacks(t, c)
  PROVE  Escape(t, c, x, y) = t
<1> DEFINE E(u) == Escape(u, c, x, y)
           P == {u \in Text : Lacks(u, c) => E(u) = u}
<1>1. <<>> \in P
  BY EmptyText, EscapeType
<1>2. ASSUME NEW a \in Token, NEW r \in Text, r \in P PROVE One(a) ++ r \in P
  <2>1. One(a) ++ r \in Text /\ One(a) \in Text /\ Len(One(a)) = 1 /\ One(a)[1] = a
    BY TokensAfterFirst, OneText
  <2> SUFFICES ASSUME Lacks(One(a) ++ r, c) PROVE E(One(a) ++ r) = One(a) ++ r
    BY <2>1
  <2>2. Lacks(r, c) /\ Lacks(One(a), c)
    BY <2>1, LacksBoth
  <2>3. E(r) = r
    BY <1>2, <2>2
  <2>4. a # c
    BY <2>1, <2>2 DEF Lacks
  <2>5. E(One(a) ++ r) = One(a) ++ E(r)
    BY <2>4, EscapeFirst
  <2> HIDE DEF E
  <2>6. QED
    BY <2>3, <2>5
<1> HIDE DEF P
<1>3. Text \subseteq P
  BY <1>1, <1>2, FirstInduction DEF Text
<1>4. QED
  BY <1>3 DEF P

-----------------------------------------------------------------------------
(***************************************************************************)
(* Parts of a text.                                                        *)
(***************************************************************************)
\* Lists of texts, with one at least.
Lists == Seq(Text) \ {<<>>}

LEMMA ListJoined ==
  ASSUME NEW S, NEW s \in Seq(S), NEW t \in Seq(S)
  PROVE  /\ s ++ t \in Seq(S) /\ Len(s ++ t) = Len(s) + Len(t)
         /\ Len(s) \in Nat /\ Len(t) \in Nat
         /\ \A u \in Seq(S) : (s ++ t) ++ u = s ++ (t ++ u)
<1>1. Len(s) \in Nat /\ Len(t) \in Nat
  BY LenProperties
<1>2. s \o t \in Seq(S) /\ Len(s \o t) = Len(s) + Len(t)
  BY ConcatProperties
<1>3. \A u \in Seq(S) : (s \o t) \o u = s \o (t \o u)
  BY ConcatAssociative
<1>4. QED
  BY <1>1, <1>2, <1>3 DEF ++

LEMMA ListOne ==
  ASSUME NEW S, NEW s \in Seq(S), NEW x \in S
  PROVE  /\ One(x) \in Seq(S) /\ Len(One(x)) = 1 /\ One(x)[1] = x
         /\ s ++ One(x) \in Seq(S) /\ s ++ One(x) # <<>>
         /\ Len(s ++ One(x)) = Len(s) + 1
         /\ \A i \in 1..Len(s) : (s ++ One(x))[i] = s[i]
         /\ (s ++ One(x))[Len(s) + 1] = x
         /\ Append(s, x) = s ++ One(x)
<1>1. One(x) \in Seq(S) /\ Len(One(x)) = 1 /\ One(x)[1] = x
  BY SingleType DEF One
<1>2. Append(s, x) = s ++ One(x)
  BY AppendIsConcat DEF One, ++
<1>3. QED
  BY <1>1, <1>2, AppendProperties

LEMMA ListEnds ==
  ASSUME NEW S, NEW s \in Seq(S), s # <<>>
  PROVE  \E f \in Seq(S), x \in S : s = f ++ One(x)
<1>1. PICK f \in Seq(S), x \in S : s = Append(f, x)
  BY SequenceEmptyOrAppend
<1>2. QED
  BY <1>1, ListOne

\* The next token of a text, after all parts but the last.
LEMMA NextPartIs ==
  ASSUME NEW f \in Seq(Text), NEW l \in Text, NEW c \in Token, NEW separators, NEW n \in Int
  PROVE  LET cut == c \in separators /\ Len(f) + 1 < n IN
         /\ cut => NextPart(f ++ One(l), c, separators, n) = (f ++ One(l)) ++ One(<<>>)
         /\ ~cut => NextPart(f ++ One(l), c, separators, n) = f ++ One(l ++ One(c))
<1> DEFINE p == f ++ One(l)  cut == c \in separators /\ Len(f) + 1 < n
<1>1. p \in Seq(Text) /\ Len(p) = Len(f) + 1 /\ p[Len(f) + 1] = l /\ Len(f) \in Nat
      /\ \A i \in 1..Len(f) : p[i] = f[i]
  BY ListOne, LenProperties
<1> HIDE DEF p
<1>2. CASE cut
  <2>1. NextPart(p, c, separators, n) = Append(p, <<>>)
    BY <1>1, <1>2 DEF NextPart
  <2>2. Append(p, <<>>) = p ++ One(<<>>)
    <3> DEFINE e == <<>>
    <3>1. e \in Text
      BY EmptyText
    <3> HIDE DEF e
    <3>2. Append(p, e) = p ++ One(e)
      BY <1>1, <3>1, ListOne
    <3>3. QED
      BY <3>2 DEF e
  <2>3. QED
    BY <1>2, <2>1, <2>2 DEF p
<1>3. CASE ~cut
  <2> DEFINE x == l ++ One(c)  q == [p EXCEPT ![Len(p)] = x]  r == f ++ One(x)
  <2>1. x \in Text
    BY OneText, TwoJoined
  <2>2. NextPart(p, c, separators, n) = q
    <3>1. Len(p) \in 1..Len(p) /\ p[Len(p)] = l
      BY <1>1
    <3>2. Append(l, c) = l ++ One(c)
      BY LastJoined
    <3>3. NextPart(p, c, separators, n) = [p EXCEPT ![Len(p)] = Append(p[Len(p)], c)]
      BY <1>1, <1>3 DEF NextPart
    <3> HIDE DEF q
    <3>4. QED
      BY <3>1, <3>2, <3>3 DEF q
  <2> HIDE DEF x
  <2>3. q \in Seq(Text) /\ Len(q) = Len(p)
        /\ \A j \in 1..Len(p) : q[j] = IF j = Len(p) THEN x ELSE p[j]
    <3>1. Len(p) \in 1..Len(p)
      BY <1>1
    <3>2. QED
      BY <1>1, <2>1, <3>1, ExceptSeq
  <2>4. r \in Seq(Text) /\ Len(r) = Len(f) + 1 /\ r[Len(f) + 1] = x
        /\ \A i \in 1..Len(f) : r[i] = f[i]
    BY <2>1, ListOne
  <2> HIDE DEF q, r
  <2>5. \A j \in 1..Len(q) : q[j] = r[j]
    <3>1. \A j \in 1..Len(q) : (j = Len(f) + 1 /\ j = Len(p)) \/ (j \in 1..Len(f) /\ j # Len(p))
      BY <1>1, <2>3
    <3>2. QED
      BY <1>1, <2>3, <2>4, <3>1
  <2>6. q = r
    BY <1>1, <2>3, <2>4, <2>5, SeqEqual
  <2>7. QED
    BY <1>3, <2>2, <2>6 DEF p, r, x
<1>4. QED
  BY <1>2, <1>3

LEMMA ListMore ==
  ASSUME NEW s \in Lists
  PROVE  s ++ One(<<>>) \in Lists /\ Len(s ++ One(<<>>)) = Len(s) + 1
<1> DEFINE e == <<>>
<1>1. e \in Text
  BY EmptyText
<1> HIDE DEF e
<1>2. s \in Seq(Text)
  BY DEF Lists
<1>3. s ++ One(e) \in Seq(Text) /\ s ++ One(e) # <<>> /\ Len(s ++ One(e)) = Len(s) + 1
  BY <1>1, <1>2, ListOne
<1>4. QED
  BY <1>3 DEF e, Lists

LEMMA NextPartType ==
  ASSUME NEW parts \in Lists, NEW c \in Token, NEW separators, NEW n \in Int
  PROVE  /\ NextPart(parts, c, separators, n) \in Lists
         /\ Len(NextPart(parts, c, separators, n)) <= Len(parts) + 1
<1> PICK f \in Seq(Text), l \in Text : parts = f ++ One(l)
  BY ListEnds DEF Lists
<1> DEFINE cut == c \in separators /\ Len(f) + 1 < n
<1>1. parts \in Seq(Text) /\ Len(parts) = Len(f) + 1 /\ Len(f) \in Nat
  BY ListOne, LenProperties
<1>2. CASE cut
  <2>1. NextPart(parts, c, separators, n) = parts ++ One(<<>>)
    BY <1>2, NextPartIs
  <2>2. parts ++ One(<<>>) \in Lists /\ Len(parts ++ One(<<>>)) = Len(parts) + 1
    BY ListMore
  <2>3. QED
    BY <1>1, <2>1, <2>2
<1>3. CASE ~cut
  <2> DEFINE x == l ++ One(c)
  <2>1. x \in Text
    BY OneText, TwoJoined
  <2>2. NextPart(parts, c, separators, n) = f ++ One(x)
    BY <1>3, NextPartIs
  <2> HIDE DEF x
  <2>3. f ++ One(x) \in Lists /\ Len(f ++ One(x)) = Len(f) + 1
    BY <2>1, ListOne DEF Lists
  <2>4. QED
    BY <1>1, <2>2, <2>3
<1>4. QED
  BY <1>2, <1>3

\* Parts before the last ones only count.
LEMMA NextPartAfter ==
  ASSUME NEW g \in Lists, NEW parts \in Lists, NEW c \in Token, NEW separators, NEW n \in Int
  PROVE  NextPart(g ++ parts, c, separators, n) = g ++ NextPart(parts, c, separators, n - Len(g))
<1> PICK f \in Seq(Text), l \in Text : parts = f ++ One(l)
  BY ListEnds DEF Lists
<1> DEFINE h == g ++ f
<1>0. g \in Seq(Text)
  BY DEF Lists
<1>1. h \in Seq(Text) /\ Len(h) = Len(g) + Len(f) /\ Len(g) \in Nat /\ Len(f) \in Nat
  BY <1>0, ListJoined
<1>2. \A x \in Text : One(x) \in Seq(Text) /\ h ++ One(x) = g ++ (f ++ One(x))
  BY <1>0, ListOne, ListJoined
<1> HIDE DEF h
<1>3. g ++ parts = h ++ One(l)
  BY <1>2
<1>4. Len(h) + 1 < n <=> Len(f) + 1 < n - Len(g)
  BY <1>1
<1>5. n - Len(g) \in Int
  BY <1>1
<1>6. CASE c \in separators /\ Len(h) + 1 < n
  <2>1. NextPart(h ++ One(l), c, separators, n) = (h ++ One(l)) ++ One(<<>>)
    BY <1>1, <1>6, NextPartIs
  <2>2. NextPart(parts, c, separators, n - Len(g)) = parts ++ One(<<>>)
    BY <1>4, <1>5, <1>6, NextPartIs
  <2>3. (g ++ parts) ++ One(<<>>) = g ++ (parts ++ One(<<>>))
    <3>1. parts \in Seq(Text) /\ One(<<>>) \in Seq(Text)
      BY <1>2, EmptyText DEF Lists
    <3>2. QED
      BY <1>0, <3>1, ListJoined
  <2>4. QED
    BY <1>3, <2>1, <2>2, <2>3
<1>7. CASE ~(c \in separators /\ Len(h) + 1 < n)
  <2> DEFINE x == l ++ One(c)
  <2>1. x \in Text
    BY OneText, TwoJoined
  <2>2. NextPart(h ++ One(l), c, separators, n) = h ++ One(x)
    BY <1>1, <1>7, NextPartIs
  <2>3. NextPart(parts, c, separators, n - Len(g)) = f ++ One(x)
    BY <1>4, <1>5, <1>7, NextPartIs
  <2> HIDE DEF x
  <2>4. QED
    BY <1>2, <1>3, <2>1, <2>2, <2>3
<1>8. QED
  BY <1>6, <1>7

\* SplitN goes through the text token by token.
Splitted(text, separators, n, parts) ==
  /\ \A i \in 0..Len(text) : parts[i] \in Lists
  /\ parts[0] = One(<<>>)
  /\ \A i \in 1..Len(text) : parts[i] = NextPart(parts[i - 1], text[i], separators, n)
  /\ SplitN(text, separators, n) = parts[Len(text)]

LEMMA SplitSteps ==
  ASSUME NEW text \in Text, NEW separators, NEW n \in Int
  PROVE  \E parts : Splitted(text, separators, n, parts)
<1> DEFINE len == Len(text)
           Made(g) == g = [i \in 0..len |-> IF i = 0 THEN << <<>> >>
                                            ELSE NextPart(g[i - 1], text[i], separators, n)]
           parts == CHOOSE g : Made(g)
           step == [i \in 1..len |-> [p \in Lists |-> NextPart(p, text[i], separators, n)]]
           first == << <<>> >>
<1>1. len \in Nat /\ \A i \in 1..len : text[i] \in Token
  BY LenProperties, ElementOfSeq DEF Text
<1>2. first \in Lists /\ first = One(<<>>)
  BY EmptyText, SingleType DEF Lists, One
<1>3. step \in [1..len -> [Lists -> Lists]]
  BY <1>1, NextPartType
<1>4. PICK g : Iterated(Lists, first, len, step, g)
  <2> HIDE DEF step, first, len
  <2>1. QED
    BY <1>1, <1>2, <1>3, StepsTaken
<1>5. g \in [0..len -> Lists] /\ g[0] = first /\ \A i \in 1..len : g[i] = step[i][g[i - 1]]
  BY <1>4 DEF Iterated
<1>6. ASSUME NEW i \in 1..len PROVE g[i] = NextPart(g[i - 1], text[i], separators, n)
  <2>1. i - 1 \in 0..len
    BY <1>1
  <2>2. g[i - 1] \in Lists /\ g[i] = step[i][g[i - 1]]
    BY <1>5, <2>1
  <2>3. \A p \in Lists : step[i][p] = NextPart(p, text[i], separators, n)
    OBVIOUS
  <2> HIDE DEF step, len
  <2>4. QED
    BY <2>2, <2>3
<1>7. \A i \in 0..len : i = 0 \/ i \in 1..len
  BY <1>1
<1>8. Made(g)
  <2> HIDE DEF step, len, first
  <2>1. g \in [0..len -> Lists]
    BY <1>5
  <2>2. \A i \in 0..len : g[i] = IF i = 0 THEN first ELSE NextPart(g[i - 1], text[i], separators, n)
    BY <1>5, <1>6, <1>7
  <2>3. QED
    BY <2>1, <2>2 DEF first
<1>9. SplitN(text, separators, n) = parts[len]
  BY DEF SplitN
<1>10. Made(parts)
  <2> HIDE DEF Made
  <2>1. QED
    BY <1>8
<1> HIDE DEF parts
<1>11. /\ parts[0] = first
       /\ \A i \in 1..len : parts[i] = NextPart(parts[i - 1], text[i], separators, n)
  <2>1. 0 \in 0..len /\ \A i \in 1..len : i \in 0..len /\ i # 0
    BY <1>1
  <2> HIDE DEF len
  <2>2. QED
    BY <1>10, <2>1
<1> HIDE DEF Made
<1>12. \A i \in 0..len : parts[i] \in Lists
  <2> DEFINE T == {i \in 0..len : parts[i] \in Lists}
  <2>1. 0 \in T
    BY <1>1, <1>2, <1>11
  <2>2. ASSUME NEW i \in 1..len, i - 1 \in T PROVE i \in T
    <3>1. parts[i - 1] \in Lists /\ text[i] \in Token /\ i \in 0..len
      BY <1>1, <2>2
    <3>2. NextPart(parts[i - 1], text[i], separators, n) \in Lists
      BY <3>1, NextPartType
    <3>3. QED
      BY <1>11, <3>1, <3>2
  <2>3. 0..len \subseteq T
    <3> HIDE DEF T, len
    <3>1. QED
      BY <1>1, <2>1, <2>2, Induction
  <2>4. QED
    BY <2>3
<1>13. QED
  BY <1>2, <1>9, <1>11, <1>12 DEF Splitted

LEMMA SplitType ==
  ASSUME NEW text \in Text, NEW separators, NEW n \in Int
  PROVE  SplitN(text, separators, n) \in Lists
<1>1. PICK p : Splitted(text, separators, n, p)
  BY SplitSteps
<1>2. Len(text) \in 0..Len(text)
  BY LenText
<1>3. QED
  BY <1>1, <1>2 DEF Splitted

LEMMA SplitNothing ==
  ASSUME NEW separators, NEW n \in Int
  PROVE  SplitN(<<>>, separators, n) = One(<<>>)
<1>1. PICK p : Splitted(<<>>, separators, n, p)
  BY EmptyText, SplitSteps
<1>2. QED
  BY <1>1, EmptyText DEF Splitted

LEMMA SplitLast ==
  ASSUME NEW t \in Text, NEW c \in Token, NEW separators, NEW n \in Int
  PROVE  SplitN(t ++ One(c), separators, n) = NextPart(SplitN(t, separators, n), c, separators, n)
<1> DEFINE u == t ++ One(c)  l == Len(t)
<1>1. u \in Text /\ Len(u) = l + 1 /\ u[l + 1] = c /\ l \in Nat /\ \A i \in 1..l : u[i] = t[i]
  BY ListOne, LenText DEF Text
<1> HIDE DEF u
<1>2. PICK p : Splitted(t, separators, n, p)
  BY SplitSteps
<1>3. PICK q : Splitted(u, separators, n, q)
  BY <1>1, SplitSteps
<1>4. /\ p[0] = q[0]
      /\ \A i \in 1..l : p[i] = NextPart(p[i - 1], t[i], separators, n)
      /\ \A i \in 1..l : q[i] = NextPart(q[i - 1], t[i], separators, n)
  <2>1. \A i \in 1..l : i \in 1..Len(u)
    BY <1>1
  <2>2. QED
    BY <1>1, <1>2, <1>3, <2>1 DEF Splitted
<1> DEFINE T == {i \in 0..l : p[i] = q[i]}
<1>5. 0 \in T
  BY <1>1, <1>4
<1>6. ASSUME NEW i \in 1..l, i - 1 \in T PROVE i \in T
  <2>1. i \in 0..l /\ p[i - 1] = q[i - 1]
    BY <1>1, <1>6
  <2>2. p[i] = q[i]
    BY <1>4, <2>1
  <2>3. QED
    BY <2>1, <2>2
<1>7. l \in T
  <2> HIDE DEF T, l
  <2>1. 0..l \subseteq T
    BY <1>1, <1>5, <1>6, Induction
  <2>2. QED
    BY <1>1, <2>1
<1>8. q[l + 1] = NextPart(q[l], c, separators, n)
  <2>1. l + 1 \in 1..Len(u) /\ (l + 1) - 1 = l
    BY <1>1
  <2>2. q[l + 1] = NextPart(q[(l + 1) - 1], u[l + 1], separators, n)
    BY <1>3, <2>1 DEF Splitted
  <2>3. QED
    BY <1>1, <2>1, <2>2
<1>9. QED
  BY <1>1, <1>2, <1>3, <1>7, <1>8 DEF Splitted, u

\* There is no token of a set in the text.
LacksAll(text, tokens) == \A i \in 1..Len(text) : text[i] \notin tokens

LEMMA TextAfter ==
  ASSUME NEW r \in Seq(Token), NEW c \in Token
  PROVE  /\ r \in Text /\ Len(r) \in Nat /\ One(c) \in Text
         /\ r ++ One(c) \in Text /\ Len(r ++ One(c)) = Len(r) + 1
         /\ (r ++ One(c))[Len(r) + 1] = c
         /\ \A i \in 1..Len(r) : (r ++ One(c))[i] = r[i]
<1>1. r \in Text
  BY DEF Text
<1>2. QED
  BY <1>1, OneText, TwoJoined, LenText, ListOne

\* A text has no more parts than separators and one.
LEMMA SplitLength ==
  ASSUME NEW t \in Text, NEW separators, NEW n \in Int
  PROVE  Len(SplitN(t, separators, n)) \in 1..(Len(t) + 1)
<1> DEFINE L(u) == Len(SplitN(u, separators, n))
           P == {u \in Text : L(u) <= Len(u) + 1}
<1>1. \A u \in Text : SplitN(u, separators, n) \in Lists /\ L(u) \in Nat \ {0}
  <2> SUFFICES ASSUME NEW u \in Text PROVE SplitN(u, separators, n) \in Lists /\ L(u) \in Nat \ {0}
    OBVIOUS
  <2>1. SplitN(u, separators, n) \in Lists
    BY SplitType
  <2> HIDE DEF L
  <2> DEFINE s == SplitN(u, separators, n)
  <2>2. s \in Seq(Text) /\ s # <<>>
    BY <2>1 DEF Lists
  <2> HIDE DEF s
  <2>3. Len(s) \in Nat \ {0}
    BY <2>2, LenProperties, EmptySeq
  <2>4. QED
    BY <2>1, <2>3 DEF s, L
<1>2. <<>> \in P
  <2>1. SplitN(<<>>, separators, n) = One(<<>>)
    BY SplitNothing
  <2>2. Len(One(<<>>)) = 1
    BY DEF One
  <2>3. L(<<>>) = 1
    BY <2>1, <2>2
  <2> HIDE DEF L
  <2>4. QED
    BY <2>3, EmptyText
<1>3. ASSUME NEW c \in Token, NEW r \in Seq(Token), r \in P PROVE r ++ One(c) \in P
  <2>1. r \in Text /\ r ++ One(c) \in Text /\ Len(r ++ One(c)) = Len(r) + 1 /\ Len(r) \in Nat
    BY TextAfter
  <2>2. SplitN(r ++ One(c), separators, n) = NextPart(SplitN(r, separators, n), c, separators, n)
    BY <2>1, SplitLast
  <2>3. Len(NextPart(SplitN(r, separators, n), c, separators, n)) <= L(r) + 1
    BY <1>1, <2>1, NextPartType
  <2>4. L(r) <= Len(r) + 1 /\ L(r) \in Nat /\ L(r ++ One(c)) \in Nat
    BY <1>1, <1>3, <2>1
  <2>5. L(r ++ One(c)) <= L(r) + 1
    BY <2>2, <2>3
  <2> HIDE DEF L
  <2>6. QED
    BY <2>1, <2>4, <2>5
<1>4. t \in P
  <2> HIDE DEF P
  <2>1. Seq(Token) \subseteq P
    BY <1>2, <1>3, LastInduction
  <2>2. QED
    BY <2>1 DEF Text
<1>5. QED
  <2>1. L(t) \in Nat \ {0} /\ L(t) <= Len(t) + 1 /\ Len(t) \in Nat
    BY <1>1, <1>4, LenText
  <2>2. QED
    BY <2>1

\* A limit that cannot be reached does not matter.
LEMMA SplitLimits ==
  ASSUME NEW t \in Text, NEW separators, NEW n \in Int, NEW m \in Int, n > Len(t), m > Len(t)
  PROVE  SplitN(t, separators, n) = SplitN(t, separators, m)
<1> DEFINE P == {u \in Text : n > Len(u) /\ m > Len(u) => SplitN(u, separators, n) = SplitN(u, separators, m)}
<1>1. <<>> \in P
  BY EmptyText, SplitNothing
<1>2. ASSUME NEW c \in Token, NEW r \in Seq(Token), r \in P PROVE r ++ One(c) \in P
  <2>1. r \in Text /\ r ++ One(c) \in Text /\ Len(r ++ One(c)) = Len(r) + 1 /\ Len(r) \in Nat
    BY TextAfter
  <2> SUFFICES ASSUME n > Len(r) + 1, m > Len(r) + 1
               PROVE  SplitN(r ++ One(c), separators, n) = SplitN(r ++ One(c), separators, m)
    BY <2>1
  <2>2. SplitN(r, separators, n) = SplitN(r, separators, m)
    BY <1>2, <2>1
  <2>3. Len(SplitN(r, separators, n)) \in 1..(Len(r) + 1)
    BY <2>1, SplitLength
  <2>4. Len(SplitN(r, separators, n)) < n /\ Len(SplitN(r, separators, n)) < m
    BY <2>1, <2>3
  <2>5. NextPart(SplitN(r, separators, n), c, separators, n)
          = NextPart(SplitN(r, separators, n), c, separators, m)
    BY <2>4 DEF NextPart
  <2>6. /\ SplitN(r ++ One(c), separators, n) = NextPart(SplitN(r, separators, n), c, separators, n)
        /\ SplitN(r ++ One(c), separators, m) = NextPart(SplitN(r, separators, m), c, separators, m)
    BY <2>1, SplitLast
  <2>7. QED
    BY <2>2, <2>5, <2>6
<1>3. QED
  <2> HIDE DEF P
  <2>1. Seq(Token) \subseteq P
    BY <1>1, <1>2, LastInduction
  <2>2. QED
    BY <2>1 DEF Text, P

\* A separator divides the parts before it from those after it.
LEMMA SplitBoth ==
  ASSUME NEW u \in Text, NEW v \in Text, NEW separators, NEW c \in Token, c \in separators,
         NEW n \in Int, NEW g, SplitN(u, separators, n) = g, Len(g) < n, NEW k \in Int, k = n - Len(g)
  PROVE  SplitN((u ++ One(c)) ++ v, separators, n) = g ++ SplitN(v, separators, k)
<1> DEFINE w == u ++ One(c)
           P == {r \in Text : SplitN(w ++ r, separators, n) = g ++ SplitN(r, separators, k)}
<1>1. g \in Lists /\ Len(g) \in Nat /\ n - Len(g) = k
  BY SplitType, SplitLength, LenText
<1>2. w \in Text
  BY OneText, TwoJoined
<1>3. <<>> \in P
  <2>1. SplitN(w, separators, n) = NextPart(g, c, separators, n)
    BY SplitLast
  <2>2. NextPart(g, c, separators, n) = Append(g, <<>>)
    BY DEF NextPart
  <2>3. Append(g, <<>>) = g ++ One(<<>>)
    <3> DEFINE e == <<>>
    <3>1. e \in Text
      BY EmptyText
    <3> HIDE DEF e
    <3>2. g \in Seq(Text)
      BY <1>1 DEF Lists
    <3>3. Append(g, e) = g ++ One(e)
      BY <3>1, <3>2, ListOne
    <3>4. QED
      BY <3>3 DEF e
  <2>4. SplitN(<<>>, separators, k) = One(<<>>)
    BY <1>1, SplitNothing
  <2>5. w ++ <<>> = w
    BY <1>2, NoneJoined
  <2> HIDE DEF w
  <2>6. QED
    BY <2>1, <2>2, <2>3, <2>4, <2>5, EmptyText
<1>4. ASSUME NEW a \in Token, NEW r \in Seq(Token), r \in P PROVE r ++ One(a) \in P
  <2>1. r \in Text /\ One(a) \in Text /\ r ++ One(a) \in Text /\ w ++ r \in Text
    BY <1>2, TextAfter, TwoJoined
  <2>2. w ++ (r ++ One(a)) = (w ++ r) ++ One(a)
    BY <1>2, <2>1, ThreeJoined
  <2> HIDE DEF w
  <2>3. SplitN((w ++ r) ++ One(a), separators, n) = NextPart(SplitN(w ++ r, separators, n), a, separators, n)
    BY <2>1, SplitLast
  <2>4. SplitN(w ++ r, separators, n) = g ++ SplitN(r, separators, k)
    BY <1>4
  <2>5. SplitN(r, separators, k) \in Lists
    BY <1>1, <2>1, SplitType
  <2>6. NextPart(g ++ SplitN(r, separators, k), a, separators, n)
          = g ++ NextPart(SplitN(r, separators, k), a, separators, n - Len(g))
    BY <1>1, <2>5, NextPartAfter
  <2>7. SplitN(r ++ One(a), separators, k) = NextPart(SplitN(r, separators, k), a, separators, k)
    BY <1>1, <2>1, SplitLast
  <2>8. QED
    BY <1>1, <2>1, <2>2, <2>3, <2>4, <2>6, <2>7
<1>5. QED
  <2> HIDE DEF P, w
  <2>1. Seq(Token) \subseteq P
    BY <1>3, <1>4, LastInduction
  <2>2. QED
    BY <2>1 DEF Text, P, w

\* Without a separator, or with one part at most, a text stays whole.
LEMMA SplitWhole ==
  ASSUME NEW t \in Text, NEW separators, NEW n \in Int, n <= 1 \/ LacksAll(t, separators)
  PROVE  SplitN(t, separators, n) = One(t)
<1> DEFINE P == {u \in Text : n <= 1 \/ LacksAll(u, separators) => SplitN(u, separators, n) = One(u)}
<1>1. <<>> \in P
  BY EmptyText, SplitNothing
<1>2. ASSUME NEW c \in Token, NEW r \in Seq(Token), r \in P PROVE r ++ One(c) \in P
  <2>1. r \in Text /\ r ++ One(c) \in Text /\ Len(r) \in Nat
    BY TextAfter
  <2> SUFFICES ASSUME n <= 1 \/ LacksAll(r ++ One(c), separators)
               PROVE  SplitN(r ++ One(c), separators, n) = One(r ++ One(c))
    BY <2>1
  <2>2. /\ Len(r ++ One(c)) = Len(r) + 1
        /\ (r ++ One(c))[Len(r) + 1] = c
        /\ \A i \in 1..Len(r) : (r ++ One(c))[i] = r[i]
    BY ListOne
  <2>3. n <= 1 \/ (LacksAll(r, separators) /\ c \notin separators)
    <3> DEFINE w == r ++ One(c)
    <3> HIDE DEF w
    <3>1. \A i \in 1..Len(r) : i \in 1..Len(w)
      BY <2>1, <2>2 DEF w
    <3>2. Len(r) + 1 \in 1..Len(w)
      BY <2>1, <2>2 DEF w
    <3>3. n <= 1 \/ LacksAll(w, separators)
      BY DEF w
    <3>4. QED
      BY <2>2, <3>1, <3>2, <3>3 DEF LacksAll, w
  <2>4. SplitN(r, separators, n) = One(r)
    BY <1>2, <2>1, <2>3
  <2>5. SplitN(r ++ One(c), separators, n) = NextPart(One(r), c, separators, n)
    BY <2>1, <2>4, SplitLast
  <2>6. NextPart(One(r), c, separators, n) = One(Append(r, c))
    <3>1. One(r)[1] = r /\ Len(One(r)) = 1 /\ [One(r) EXCEPT ![1] = Append(r, c)] = One(Append(r, c))
      BY DEF One
    <3>2. ~(c \in separators /\ 1 < n)
      BY <2>3
    <3>3. QED
      BY <3>1, <3>2 DEF NextPart
  <2>7. QED
    BY <2>1, <2>5, <2>6, LastJoined
<1>3. QED
  <2> HIDE DEF P
  <2>1. Seq(Token) \subseteq P
    BY <1>1, <1>2, LastInduction
  <2>2. QED
    BY <2>1 DEF Text, P

\* The first field, up to a separator.
LEMMA SplitField ==
  ASSUME NEW u \in Text, NEW v \in Text, NEW separators, NEW c \in Token, c \in separators,
         LacksAll(u, separators), NEW n \in Int, n > 1
  PROVE  SplitN((u ++ One(c)) ++ v, separators, n) = One(u) ++ SplitN(v, separators, n - 1)
<1>1. SplitN(u, separators, n) = One(u)
  BY SplitWhole
<1>2. Len(One(u)) = 1
  BY DEF One
<1>3. n - 1 \in Int /\ n - 1 = n - Len(One(u)) /\ Len(One(u)) < n
  BY <1>2
<1>4. QED
  BY <1>1, <1>3, SplitBoth

\* All parts of two texts with a separator between them.
LEMMA SplitAll ==
  ASSUME NEW u \in Text, NEW v \in Text, NEW separators, NEW c \in Token, c \in separators
  PROVE  Split((u ++ One(c)) ++ v, separators) = Split(u, separators) ++ Split(v, separators)
<1> DEFINE w == u ++ One(c)  t == w ++ v  n == Len(t) + 1  g == SplitN(u, separators, n)
<1>1. /\ w \in Text /\ t \in Text /\ Len(u) \in Nat /\ Len(v) \in Nat
      /\ Len(t) = (Len(u) + 1) + Len(v)
  <2>1. One(c) \in Text /\ Len(One(c)) = 1
    BY OneText
  <2>2. w \in Text /\ Len(w) = Len(u) + 1
    BY <2>1, TwoJoined
  <2> HIDE DEF w
  <2>3. QED
    BY <2>2, TwoJoined, LenText
<1>2. Len(g) \in 1..(Len(u) + 1)
  BY <1>1, SplitLength
<1>3. SplitN(t, separators, n) = g ++ SplitN(v, separators, n - Len(g))
  <2>1. n \in Int /\ Len(g) < n /\ n - Len(g) \in Int
    BY <1>1, <1>2
  <2> HIDE DEF g, n
  <2>2. QED
    BY <2>1, SplitBoth DEF g
<1> HIDE DEF t
<1>4. g = Split(u, separators)
  BY <1>1, SplitLimits DEF Split
<1>5. SplitN(v, separators, n - Len(g)) = Split(v, separators)
  <2> HIDE DEF g
  <2>1. n - Len(g) \in Int /\ n - Len(g) > Len(v)
    BY <1>1, <1>2
  <2>2. QED
    BY <1>1, <2>1, SplitLimits DEF Split
<1>6. QED
  BY <1>3, <1>4, <1>5 DEF Split, t, w

LEMMA SplitNone ==
  ASSUME NEW t \in Text, NEW separators, LacksAll(t, separators)
  PROVE  Split(t, separators) = One(t)
BY LenText, SplitWhole DEF Split

-----------------------------------------------------------------------------
(***************************************************************************)
(* What surrounds a text.                                                  *)
(***************************************************************************)
\* All tokens of a text are among some; its first, or its last, is not.
AllIn(text, tokens) == \A i \in 1..Len(text) : text[i] \in tokens
Opens(text, tokens) == text # <<>> => text[1] \notin tokens
Closes(text, tokens) == text # <<>> => text[Len(text)] \notin tokens

LEMMA AllInNothing ==
  ASSUME NEW B
  PROVE  AllIn(<<>>, B) /\ Opens(<<>>, B) /\ Closes(<<>>, B)
BY EmptyText DEF AllIn, Opens, Closes

LEMMA AllInOne ==
  ASSUME NEW c \in Token, NEW B
  PROVE  /\ AllIn(One(c), B) <=> c \in B
         /\ Opens(One(c), B) <=> c \notin B
         /\ Closes(One(c), B) <=> c \notin B
<1>1. Len(One(c)) = 1 /\ One(c)[1] = c /\ One(c) # <<>>
  BY OneText
<1>2. QED
  BY <1>1 DEF AllIn, Opens, Closes

LEMMA AllInBoth ==
  ASSUME NEW s \in Text, NEW t \in Text, NEW B
  PROVE  /\ AllIn(s ++ t, B) <=> AllIn(s, B) /\ AllIn(t, B)
         /\ s # <<>> => (Opens(s ++ t, B) <=> Opens(s, B))
         /\ t # <<>> => (Closes(s ++ t, B) <=> Closes(t, B))
<1> DEFINE u == s ++ t
<1>1. Len(u) = Len(s) + Len(t) /\ Len(s) \in Nat /\ Len(t) \in Nat /\ u \in Text
      /\ (Len(s) = 0 <=> s = <<>>) /\ (Len(t) = 0 <=> t = <<>>) /\ (Len(u) = 0 <=> u = <<>>)
  BY TwoJoined, LenText
<1>2. /\ \A i \in 1..Len(s) : u[i] = s[i]
      /\ \A i \in 1..Len(t) : u[i + Len(s)] = t[i]
      /\ \A i \in 1..(Len(s) + Len(t)) : i \in 1..Len(s) \/ i - Len(s) \in 1..Len(t)
  BY TokensOfBoth
<1> HIDE DEF u
<1>3. AllIn(u, B) => AllIn(s, B) /\ AllIn(t, B)
  <2> SUFFICES ASSUME AllIn(u, B) PROVE AllIn(s, B) /\ AllIn(t, B)
    OBVIOUS
  <2>1. AllIn(s, B)
    <3>1. \A i \in 1..Len(s) : i \in 1..Len(u)
      BY <1>1
    <3>2. QED
      BY <1>2, <3>1 DEF AllIn
  <2>2. AllIn(t, B)
    <3>1. \A i \in 1..Len(t) : i + Len(s) \in 1..Len(u)
      BY <1>1
    <3>2. QED
      BY <1>2, <3>1 DEF AllIn
  <2>3. QED
    BY <2>1, <2>2
<1>4. AllIn(s, B) /\ AllIn(t, B) => AllIn(u, B)
  <2> SUFFICES ASSUME AllIn(s, B), AllIn(t, B), NEW i \in 1..Len(u) PROVE u[i] \in B
    BY DEF AllIn
  <2>1. CASE i \in 1..Len(s)
    BY <1>2, <2>1 DEF AllIn
  <2>2. CASE i - Len(s) \in 1..Len(t)
    <3> DEFINE k == i - Len(s)
    <3>1. k \in 1..Len(t) /\ k + Len(s) = i
      BY <1>1, <2>2
    <3> HIDE DEF k
    <3>2. QED
      BY <1>2, <3>1 DEF AllIn
  <2>3. QED
    BY <1>1, <1>2, <2>1, <2>2
<1>5. s # <<>> => (Opens(u, B) <=> Opens(s, B))
  <2> SUFFICES ASSUME s # <<>> PROVE Opens(u, B) <=> Opens(s, B)
    OBVIOUS
  <2>1. 1 \in 1..Len(s) /\ u # <<>>
    BY <1>1
  <2>2. QED
    BY <1>2, <2>1 DEF Opens
<1>6. t # <<>> => (Closes(u, B) <=> Closes(t, B))
  <2> SUFFICES ASSUME t # <<>> PROVE Closes(u, B) <=> Closes(t, B)
    OBVIOUS
  <2>1. Len(t) \in 1..Len(t) /\ Len(t) + Len(s) = Len(u) /\ u # <<>>
    BY <1>1
  <2>2. u[Len(u)] = t[Len(t)]
    BY <1>2, <2>1
  <2>3. QED
    BY <2>1, <2>2 DEF Closes
<1>7. QED
  BY <1>3, <1>4, <1>5, <1>6 DEF u

\* What ends a text, and what begins it.
LEMMA EndOf ==
  ASSUME NEW t \in Text, NEW B
  PROVE  \E m, b \in Text : t = m ++ b /\ AllIn(b, B) /\ Closes(m, B)
<1> DEFINE P == {u \in Text : \E m, b \in Text : u = m ++ b /\ AllIn(b, B) /\ Closes(m, B)}
<1>1. <<>> \in P
  BY EmptyText, NoneJoined, AllInNothing
<1>2. ASSUME NEW c \in Token, NEW r \in Seq(Token), r \in P PROVE r ++ One(c) \in P
  <2>1. PICK m \in Text, b \in Text : r = m ++ b /\ AllIn(b, B) /\ Closes(m, B)
    BY <1>2
  <2>2. r \in Text /\ One(c) \in Text /\ One(c) # <<>> /\ r ++ One(c) \in Text
    BY TextAfter, OneText
  <2>3. CASE c \in B
    <3> DEFINE d == b ++ One(c)
    <3>1. d \in Text /\ AllIn(d, B)
      BY <2>1, <2>2, <2>3, TwoJoined, AllInBoth, AllInOne
    <3>2. r ++ One(c) = m ++ d
      BY <2>1, <2>2, ThreeJoined
    <3> HIDE DEF d
    <3>3. QED
      BY <2>1, <2>2, <3>1, <3>2
  <2>4. CASE c \notin B
    <3> DEFINE u == r ++ One(c)
    <3>1. u \in Text /\ Closes(u, B)
      BY <2>2, <2>4, AllInBoth, AllInOne
    <3> HIDE DEF u
    <3>2. u = u ++ <<>>
      BY <3>1, NoneJoined
    <3>3. <<>> \in Text /\ AllIn(<<>>, B)
      BY EmptyText, AllInNothing
    <3>4. u \in P
      BY <3>1, <3>2, <3>3
    <3>5. QED
      BY <3>4 DEF u
  <2>5. QED
    BY <2>3, <2>4
<1>3. t \in P
  <2> HIDE DEF P
  <2>1. Seq(Token) \subseteq P
    BY <1>1, <1>2, LastInduction
  <2>2. QED
    BY <2>1 DEF Text
<1>4. QED
  BY <1>3

LEMMA BeginningOf ==
  ASSUME NEW t \in Text, NEW B
  PROVE  \E a, m \in Text : t = a ++ m /\ AllIn(a, B) /\ Opens(m, B)
<1> DEFINE P == {u \in Text : \E a, m \in Text : u = a ++ m /\ AllIn(a, B) /\ Opens(m, B)}
<1>1. <<>> \in P
  BY EmptyText, NoneJoined, AllInNothing
<1>2. ASSUME NEW c \in Token, NEW r \in Seq(Token), r \in P PROVE One(c) ++ r \in P
  <2>1. PICK a \in Text, m \in Text : r = a ++ m /\ AllIn(a, B) /\ Opens(m, B)
    BY <1>2
  <2>2. r \in Text /\ One(c) \in Text /\ One(c) # <<>>
    BY TextAfter, OneText
  <2>3. One(c) ++ r \in Text
    BY <2>2, TwoJoined
  <2>4. CASE c \in B
    <3> DEFINE d == One(c) ++ a
    <3>1. d \in Text /\ AllIn(d, B)
      BY <2>1, <2>2, <2>4, TwoJoined, AllInBoth, AllInOne
    <3>2. One(c) ++ r = d ++ m
      BY <2>1, <2>2, ThreeJoined
    <3> HIDE DEF d
    <3>3. QED
      BY <2>1, <2>3, <3>1, <3>2
  <2>5. CASE c \notin B
    <3> DEFINE u == One(c) ++ r
    <3>1. u \in Text /\ Opens(u, B)
      BY <2>2, <2>3, <2>5, AllInBoth, AllInOne
    <3> HIDE DEF u
    <3>2. u = <<>> ++ u
      BY <3>1, NoneJoined
    <3>3. <<>> \in Text /\ AllIn(<<>>, B)
      BY EmptyText, AllInNothing
    <3>4. u \in P
      BY <3>1, <3>2, <3>3
    <3>5. QED
      BY <3>4 DEF u
  <2>6. QED
    BY <2>4, <2>5
<1>3. t \in P
  <2> HIDE DEF P
  <2>1. Seq(Token) \subseteq P
    BY <1>1, <1>2, FirstInduction
  <2>2. QED
    BY <2>1 DEF Text
<1>4. QED
  BY <1>3

\* A text, with what surrounds it.
LEMMA MiddleOf ==
  ASSUME NEW t \in Text, NEW B
  PROVE  \E a, m, b \in Text :
           t = (a ++ m) ++ b /\ AllIn(a, B) /\ AllIn(b, B) /\ Opens(m, B) /\ Closes(m, B)
<1> PICK l \in Text, b \in Text : t = l ++ b /\ AllIn(b, B) /\ Closes(l, B)
  BY EndOf
<1> PICK a \in Text, m \in Text : l = a ++ m /\ AllIn(a, B) /\ Opens(m, B)
  BY BeginningOf
<1>1. Closes(m, B)
  <2>1. CASE m = <<>>
    BY <2>1 DEF Closes
  <2>2. CASE m # <<>>
    BY <2>2, AllInBoth
  <2>3. QED
    BY <2>1, <2>2
<1>2. QED
  BY <1>1

LEMMA NoTokens ==
  ASSUME NEW s
  PROVE  SubSeq(s, 1, 0) = <<>>
BY SubSeqEmpty

LEMMA MinIs ==
  ASSUME NEW S \in SUBSET Int, NEW x \in S, \A y \in S : x <= y
  PROVE  Min(S) = x
<1>1. \A z \in S : (\A y \in S : z <= y) => z = x
  OBVIOUS
<1>2. QED
  BY <1>1 DEF Min

LEMMA MaxIs ==
  ASSUME NEW S \in SUBSET Int, NEW x \in S, \A y \in S : x >= y
  PROVE  Max(S) = x
<1>1. \A z \in S : (\A y \in S : z >= y) => z = x
  OBVIOUS
<1>2. QED
  BY <1>1 DEF Max

\* The text between two others.
LEMMA TokensBetween ==
  ASSUME NEW a \in Text, NEW m \in Text, NEW b \in Text
  PROVE  LET t == (a ++ m) ++ b IN
         /\ t \in Text /\ Len(t) = (Len(a) + Len(m)) + Len(b)
         /\ \A i \in 1..Len(a) : t[i] = a[i]
         /\ \A i \in 1..Len(m) : t[i + Len(a)] = m[i]
         /\ \A i \in 1..Len(b) : t[i + (Len(a) + Len(m))] = b[i]
<1> DEFINE l == a ++ m  t == l ++ b
<1>1. l \in Text /\ Len(l) = Len(a) + Len(m) /\ Len(a) \in Nat /\ Len(m) \in Nat /\ Len(b) \in Nat
  BY TwoJoined, LenText
<1>2. /\ \A i \in 1..Len(a) : l[i] = a[i]
      /\ \A i \in 1..Len(m) : l[i + Len(a)] = m[i]
  BY TokensOfBoth
<1> HIDE DEF l
<1>3. t \in Text /\ Len(t) = Len(l) + Len(b)
  BY <1>1, TwoJoined
<1>4. /\ \A i \in 1..Len(l) : t[i] = l[i]
      /\ \A i \in 1..Len(b) : t[i + Len(l)] = b[i]
  BY <1>1, TokensOfBoth
<1> HIDE DEF t
<1>5. \A i \in 1..Len(a) : i \in 1..Len(l)
  BY <1>1
<1>6. \A i \in 1..Len(m) : i + Len(a) \in 1..Len(l)
  BY <1>1
<1>7. QED
  BY <1>1, <1>2, <1>3, <1>4, <1>5, <1>6 DEF t, l

LEMMA CutMiddle ==
  ASSUME NEW a \in Text, NEW m \in Text, NEW b \in Text, m # <<>>
  PROVE  SubSeq((a ++ m) ++ b, Len(a) + 1, Len(a) + Len(m)) = m
<1> DEFINE t == (a ++ m) ++ b  i == Len(a) + 1  j == Len(a) + Len(m)
<1>1. /\ t \in Text /\ Len(t) = (Len(a) + Len(m)) + Len(b)
      /\ \A k \in 1..Len(m) : t[k + Len(a)] = m[k]
  BY TokensBetween
<1>2. Len(a) \in Nat /\ Len(b) \in Nat /\ Len(m) \in Nat \ {0}
  BY LenText
<1> HIDE DEF t
<1>3. i \in 1..Len(t) /\ j \in 1..Len(t) /\ i <= j
  BY <1>1, <1>2
<1> DEFINE s == SubSeq(t, i, j)
<1>4. s \in Seq(Token) /\ Len(s) = Len(m) /\ \A k \in 1..Len(m) : s[k] = t[k + Len(a)]
  <2>1. s = [k \in 1..(j - i + 1) |-> t[i + k - 1]] /\ j - i + 1 = Len(m)
    <3>1. j - i + 1 = Len(m)
      BY <1>2
    <3>2. QED
      BY <3>1
  <2>2. \A k \in 1..Len(m) : t[i + k - 1] = t[k + Len(a)]
    <3>1. \A k \in 1..Len(m) : i + k - 1 = k + Len(a)
      BY <1>2
    <3>2. QED
      BY <3>1
  <2>3. \A k \in 1..Len(m) : t[k + Len(a)] \in Token
    <3>1. \A k \in 1..Len(m) : m[k] \in Token
      BY ElementOfSeq DEF Text
    <3>2. QED
      BY <1>1, <3>1
  <2>4. s = [k \in 1..Len(m) |-> t[k + Len(a)]]
    BY <2>1, <2>2
  <2> HIDE DEF s
  <2>5. QED
    BY <1>2, <2>3, <2>4
<1> HIDE DEF s
<1>5. s = m
  BY <1>1, <1>4, SameText DEF Text
<1>6. QED
  BY <1>5 DEF s, t, i, j

\* A text without the blanks around it.
LEMMA TrimIs ==
  ASSUME NEW a \in Text, NEW m \in Text, NEW b \in Text,
         AllIn(a, Blanks), AllIn(b, Blanks), Opens(m, Blanks), Closes(m, Blanks)
  PROVE  Trim((a ++ m) ++ b) = m
<1> DEFINE t == (a ++ m) ++ b
<1>1. /\ t \in Text /\ Len(t) = (Len(a) + Len(m)) + Len(b)
      /\ \A i \in 1..Len(a) : t[i] = a[i]
      /\ \A i \in 1..Len(m) : t[i + Len(a)] = m[i]
      /\ \A i \in 1..Len(b) : t[i + (Len(a) + Len(m))] = b[i]
  BY TokensBetween
<1>2. Len(a) \in Nat /\ Len(b) \in Nat /\ Len(m) \in Nat /\ (Len(m) = 0 <=> m = <<>>)
  BY LenText
<1> HIDE DEF t
<1>3. \A i \in Solid(t) : i - Len(a) \in 1..Len(m)
  <2> SUFFICES ASSUME NEW i \in 1..Len(t), t[i] \notin Blanks PROVE i - Len(a) \in 1..Len(m)
    BY DEF Solid
  <2>1. i \notin 1..Len(a)
    BY <1>1 DEF AllIn
  <2>2. i - (Len(a) + Len(m)) \notin 1..Len(b)
    <3> DEFINE k == i - (Len(a) + Len(m))
    <3>1. k + (Len(a) + Len(m)) = i
      BY <1>2
    <3> HIDE DEF k
    <3>2. k \notin 1..Len(b)
      BY <1>1, <3>1 DEF AllIn
    <3>3. QED
      BY <3>2 DEF k
  <2>3. QED
    BY <1>1, <1>2, <2>1, <2>2
<1>4. CASE m = <<>>
  <2>1. Solid(t) = {}
    BY <1>2, <1>3, <1>4
  <2>2. QED
    BY <1>4, <2>1 DEF Trim, Cut, t
<1>5. CASE m # <<>>
  <2>1. 1 \in 1..Len(m) /\ Len(m) \in 1..Len(m)
    BY <1>2, <1>5
  <2>2. t[1 + Len(a)] \notin Blanks /\ t[Len(m) + Len(a)] \notin Blanks
    BY <1>1, <1>5, <2>1 DEF Opens, Closes
  <2>3. 1 + Len(a) \in Solid(t) /\ Len(m) + Len(a) \in Solid(t)
    BY <1>1, <1>2, <2>1, <2>2 DEF Solid
  <2>4. Solid(t) \in SUBSET Int /\ \A i \in Solid(t) : 1 + Len(a) <= i /\ Len(m) + Len(a) >= i
    BY <1>2, <1>3 DEF Solid
  <2>5. Min(Solid(t)) = 1 + Len(a)
    BY <2>3, <2>4, MinIs
  <2>6. Max(Solid(t)) = Len(m) + Len(a)
    BY <2>3, <2>4, MaxIs
  <2>7. Trim(t) = SubSeq(t, Len(a) + 1, Len(a) + Len(m))
    <3>1. 1 + Len(a) = Len(a) + 1 /\ Len(m) + Len(a) = Len(a) + Len(m)
      BY <1>2
    <3>2. QED
      BY <2>3, <2>5, <2>6, <3>1 DEF Trim, Cut
  <2>8. QED
    BY <1>5, <2>7, CutMiddle DEF t
<1>6. QED
  BY <1>4, <1>5 DEF t

LEMMA CutEnd ==
  ASSUME NEW m \in Text, NEW b \in Text, m # <<>>
  PROVE  SubSeq(m ++ b, 1, Len(m)) = m
<1>1. <<>> \in Text /\ <<>> ++ m = m /\ Len(<<>>) = 0 /\ Len(m) \in Nat
  BY EmptyText, NoneJoined, LenText
<1>2. SubSeq((<<>> ++ m) ++ b, Len(<<>>) + 1, Len(<<>>) + Len(m)) = m
  BY <1>1, CutMiddle
<1>3. Len(<<>>) + 1 = 1 /\ Len(<<>>) + Len(m) = Len(m)
  BY <1>1
<1>4. QED
  BY <1>1, <1>2, <1>3

\* The indices of the tokens that are not among some.
AreOutside(outside, text, tokens) ==
  /\ outside \subseteq 1..Len(text)
  /\ \A i \in 1..Len(text) : i \in outside <=> text[i] \notin tokens

\* The last token that is not among some.
LEMMA LastOutside ==
  ASSUME NEW m \in Text, NEW b \in Text, NEW B, AllIn(b, B), Closes(m, B),
         NEW t, t = m ++ b, NEW outside, AreOutside(outside, t, B)
  PROVE  /\ m = <<>> => outside = {}
         /\ m # <<>> => outside # {} /\ Max(outside) = Len(m)
         /\ Max({0} \cup outside) = Len(m)
<1>0. outside \subseteq 1..Len(t) /\ \A i \in 1..Len(t) : i \in outside <=> t[i] \notin B
  BY DEF AreOutside
<1>1. /\ t \in Text /\ Len(t) = Len(m) + Len(b) /\ Len(m) \in Nat /\ Len(b) \in Nat
      /\ (Len(m) = 0 <=> m = <<>>)
  BY TwoJoined, LenText
<1>2. /\ \A i \in 1..Len(m) : t[i] = m[i]
      /\ \A i \in 1..Len(b) : t[i + Len(m)] = b[i]
  BY TokensOfBoth
<1>3. \A i \in outside : i \in 1..Len(m)
  <2> SUFFICES ASSUME NEW i \in 1..Len(t), t[i] \notin B PROVE i \in 1..Len(m)
    BY <1>0
  <2>1. i - Len(m) \notin 1..Len(b)
    <3> DEFINE k == i - Len(m)
    <3>1. k + Len(m) = i
      BY <1>1
    <3> HIDE DEF k
    <3>2. k \notin 1..Len(b)
      BY <1>2, <3>1 DEF AllIn
    <3>3. QED
      BY <3>2 DEF k
  <2>2. QED
    BY <1>1, <2>1
<1>4. m # <<>> => Len(m) \in outside
  <2> SUFFICES ASSUME m # <<>> PROVE Len(m) \in outside
    OBVIOUS
  <2>1. Len(m) \in 1..Len(m) /\ Len(m) \in 1..Len(t)
    BY <1>1
  <2>2. t[Len(m)] \notin B
    BY <1>2, <2>1 DEF Closes
  <2>3. QED
    BY <1>0, <2>1, <2>2
<1>5. outside \in SUBSET Int
  BY <1>0
<1>6. m = <<>> => outside = {}
  BY <1>1, <1>3
<1>7. m # <<>> => outside # {} /\ Max(outside) = Len(m)
  <2> SUFFICES ASSUME m # <<>> PROVE outside # {} /\ Max(outside) = Len(m)
    OBVIOUS
  <2>1. \A i \in outside : Len(m) >= i
    BY <1>1, <1>3
  <2>2. QED
    BY <1>4, <1>5, <2>1, MaxIs
<1>8. Max({0} \cup outside) = Len(m)
  <2> DEFINE all == {0} \cup outside
  <2>1. all \in SUBSET Int /\ Len(m) \in all /\ \A i \in all : Len(m) >= i
    BY <1>1, <1>3, <1>4, <1>5
  <2> HIDE DEF all
  <2>2. Max(all) = Len(m)
    BY <2>1, MaxIs
  <2>3. QED
    BY <2>2 DEF all
<1>9. QED
  BY <1>6, <1>7, <1>8

LEMMA TrimEndIs ==
  ASSUME NEW m \in Text, NEW b \in Text, AllIn(b, Blanks), Closes(m, Blanks)
  PROVE  TrimEnd(m ++ b) = m
<1> DEFINE t == m ++ b
<1> DEFINE solid == Solid(t)
<1>0. AreOutside(solid, t, Blanks)
  BY DEF Solid, AreOutside
<1> HIDE DEF solid
<1>9. t = m ++ b
  OBVIOUS
<1> HIDE DEF t
<1>1. /\ m = <<>> => solid = {}
      /\ m # <<>> => solid # {} /\ Max(solid) = Len(m)
  BY <1>0, <1>9, LastOutside
<1>2. CASE m = <<>>
  BY <1>1, <1>2 DEF TrimEnd, Cut, solid, t
<1>3. CASE m # <<>>
  <2>1. Min({1}) = 1
    BY MinIs
  <2>2. SubSeq(t, 1, Len(m)) = m
    BY <1>3, CutEnd DEF t
  <2>3. TrimEnd(t) = m
    BY <1>1, <1>3, <2>1, <2>2 DEF TrimEnd, Cut, solid
  <2>4. QED
    BY <2>3 DEF t
<1>4. QED
  BY <1>2, <1>3

LEMMA CutBefore ==
  ASSUME NEW m \in Text, NEW b \in Text
  PROVE  SubSeq(m ++ b, 1, Len(m)) = m
<1>1. CASE m = <<>>
  <2>1. SubSeq(m ++ b, 1, 0) = <<>>
    BY NoTokens
  <2>2. QED
    BY <1>1, <2>1, EmptyText
<1>2. CASE m # <<>>
  BY <1>2, CutEnd
<1>3. QED
  BY <1>1, <1>2

-----------------------------------------------------------------------------
(***************************************************************************)
(* Words.                                                                  *)
(***************************************************************************)
LEMMA ListThree ==
  ASSUME NEW S, NEW s \in Seq(S), NEW t \in Seq(S), NEW u \in Seq(S)
  PROVE  (s ++ t) ++ u = s ++ (t ++ u)
BY ListJoined

\* NotEmpty goes through the list element by element.
LEMMA NotEmptyLast ==
  ASSUME NEW f \in Seq(Text), NEW x \in Text
  PROVE  /\ NotEmpty(f) \in Seq(Text)
         /\ x = <<>> => NotEmpty(f ++ One(x)) = NotEmpty(f)
         /\ x # <<>> => NotEmpty(f ++ One(x)) = NotEmpty(f) ++ One(x)
<1> DEFINE n == Len(f)  g == f ++ One(x)
           I == {i \in 1..Len(f) : f[i] # <<>>}  J == {i \in 1..Len(g) : g[i] # <<>>}
<1>1. /\ n \in Nat /\ g \in Seq(Text) /\ Len(g) = n + 1 /\ g[n + 1] = x
      /\ \A i \in 1..n : g[i] = f[i]
  BY ListOne, LenProperties
<1> HIDE DEF g
<1>2. PICK p : Retaining(Text, f, I, p)
  BY RetainSteps
<1>3. PICK q : Retaining(Text, g, J, q)
  BY <1>1, RetainSteps
<1>4. \A i \in 1..n : i \in I <=> i \in J
  <2>1. \A i \in 1..n : i \in 1..Len(g)
    BY <1>1
  <2>2. QED
    BY <1>1, <2>1
<1>5. n + 1 \in J <=> x # <<>>
  <2>1. n + 1 \in 1..Len(g)
    BY <1>1
  <2>2. QED
    BY <1>1, <2>1
<1>6. NotEmpty(f) = Retain(f, I) /\ NotEmpty(g) = Retain(g, J)
  BY DEF NotEmpty
<1> HIDE DEF I, J
<1>7. /\ p[0] = <<>> /\ q[0] = <<>>
      /\ \A i \in 1..n : p[i] = IF i \in I THEN Append(p[i - 1], f[i]) ELSE p[i - 1]
      /\ \A i \in 1..(n + 1) : q[i] = IF i \in J THEN Append(q[i - 1], g[i]) ELSE q[i - 1]
      /\ Retain(f, I) = p[n] /\ Retain(g, J) = q[n + 1]
      /\ p[n] \in Seq(Text)
  <2>1. n \in 0..n
    BY <1>1
  <2>2. QED
    BY <1>1, <1>2, <1>3, <2>1 DEF Retaining
<1>8. \A i \in 0..n : p[i] = q[i]
  <2> DEFINE T == {i \in 0..n : p[i] = q[i]}
  <2>1. 0 \in T
    BY <1>1, <1>7
  <2>2. ASSUME NEW i \in 1..n, i - 1 \in T PROVE i \in T
    <3>1. i \in 0..n /\ i \in 1..(n + 1) /\ p[i - 1] = q[i - 1]
      BY <1>1, <2>2
    <3>2. p[i] = IF i \in I THEN Append(p[i - 1], f[i]) ELSE p[i - 1]
      BY <1>7
    <3>3. q[i] = IF i \in J THEN Append(q[i - 1], g[i]) ELSE q[i - 1]
      BY <1>7, <3>1
    <3>4. QED
      BY <1>1, <1>4, <3>1, <3>2, <3>3
  <2>3. 0..n \subseteq T
    <3> HIDE DEF T, n
    <3>1. QED
      BY <1>1, <2>1, <2>2, Induction
  <2>4. QED
    BY <2>3
<1>9. q[n + 1] = IF x # <<>> THEN Append(p[n], x) ELSE p[n]
  <2>1. n + 1 \in 1..(n + 1) /\ (n + 1) - 1 = n /\ n \in 0..n
    BY <1>1
  <2>2. q[n + 1] = IF n + 1 \in J THEN Append(q[(n + 1) - 1], g[n + 1]) ELSE q[(n + 1) - 1]
    BY <1>7, <2>1
  <2>3. q[n] = p[n]
    BY <1>8, <2>1
  <2>4. QED
    BY <1>1, <1>5, <2>1, <2>2, <2>3
<1>10. Append(p[n], x) = p[n] ++ One(x)
  <2> DEFINE last == p[n]
  <2>1. last \in Seq(Text)
    BY <1>7
  <2> HIDE DEF last
  <2>2. Append(last, x) = last ++ One(x)
    BY <2>1, ListOne
  <2>3. QED
    BY <2>2 DEF last
<1>11. QED
  BY <1>6, <1>7, <1>9, <1>10 DEF g

LEMMA NotEmptyNothing ==
  NotEmpty(<<>>) = <<>>
<1> DEFINE I == {i \in 1..Len(<<>>) : <<>>[i] # <<>>}
<1>1. <<>> \in Seq(Text) /\ Len(<<>>) = 0
  BY EmptySeq
<1>2. PICK p : Retaining(Text, <<>>, I, p)
  BY <1>1, RetainSteps
<1>3. NotEmpty(<<>>) = Retain(<<>>, I)
  BY DEF NotEmpty
<1> HIDE DEF I
<1>4. QED
  BY <1>1, <1>2, <1>3 DEF Retaining

LEMMA NotEmptyBoth ==
  ASSUME NEW f \in Seq(Text), NEW g \in Seq(Text)
  PROVE  NotEmpty(f ++ g) = NotEmpty(f) ++ NotEmpty(g)
<1> DEFINE P == {l \in Seq(Text) : NotEmpty(f ++ l) = NotEmpty(f) ++ NotEmpty(l)}
<1>0. \A l \in Seq(Text) : NotEmpty(l) \in Seq(Text) /\ l ++ <<>> = l
  BY NotEmptyLast, EmptyText, ConcatEmptySeq DEF ++
<1>1. <<>> \in P
  <2>1. <<>> \in Seq(Text)
    BY EmptySeq
  <2>2. QED
    BY <1>0, <2>1, NotEmptyNothing
<1>2. ASSUME NEW x \in Text, NEW l \in Seq(Text), l \in P PROVE l ++ One(x) \in P
  <2>1. l ++ One(x) \in Seq(Text) /\ One(x) \in Seq(Text) /\ f ++ l \in Seq(Text)
    BY ListOne, ListJoined
  <2>2. f ++ (l ++ One(x)) = (f ++ l) ++ One(x)
    BY <2>1, ListJoined
  <2>3. NotEmpty(f ++ l) = NotEmpty(f) ++ NotEmpty(l)
    BY <1>2
  <2>4. CASE x = <<>>
    <3>1. NotEmpty((f ++ l) ++ One(x)) = NotEmpty(f ++ l) /\ NotEmpty(l ++ One(x)) = NotEmpty(l)
      BY <2>1, <2>4, NotEmptyLast
    <3>2. QED
      BY <2>1, <2>2, <2>3, <3>1
  <2>5. CASE x # <<>>
    <3>1. /\ NotEmpty((f ++ l) ++ One(x)) = NotEmpty(f ++ l) ++ One(x)
          /\ NotEmpty(l ++ One(x)) = NotEmpty(l) ++ One(x)
      BY <2>1, <2>5, NotEmptyLast
    <3>2. (NotEmpty(f) ++ NotEmpty(l)) ++ One(x) = NotEmpty(f) ++ (NotEmpty(l) ++ One(x))
      <4>1. NotEmpty(f) \in Seq(Text) /\ NotEmpty(l) \in Seq(Text)
        BY <1>0
      <4>2. QED
        BY <2>1, <4>1, ListThree
    <3>3. QED
      BY <2>1, <2>2, <2>3, <3>1, <3>2
  <2>6. QED
    BY <2>4, <2>5
<1>3. QED
  <2> HIDE DEF P
  <2>1. Seq(Text) \subseteq P
    BY <1>1, <1>2, LastInduction
  <2>2. QED
    BY <2>1 DEF P

LEMMA BlankTokens ==
  /\ Blanks \subseteq Token /\ Newline \in Blanks /\ " " \in Blanks /\ "cr" \in Blanks
  /\ \A c \in Blanks : c = " " \/ c = "cr" \/ c = Newline
BY DEF Blanks, Newline, Token

LEMMA SplitText ==
  ASSUME NEW t \in Text, NEW separators
  PROVE  Split(t, separators) \in Seq(Text)
<1>1. Split(t, separators) \in Lists
  BY LenText, SplitType DEF Split
<1>2. QED
  BY <1>1 DEF Lists

\* Words of two texts with a blank between them; of a text with no blank; of none.
LEMMA WordsBoth ==
  ASSUME NEW u \in Text, NEW v \in Text, NEW c \in Blanks
  PROVE  Words((u ++ One(c)) ++ v) = Words(u) ++ Words(v)
<1>1. c \in Token
  BY BlankTokens
<1>2. Split((u ++ One(c)) ++ v, Blanks) = Split(u, Blanks) ++ Split(v, Blanks)
  BY <1>1, SplitAll
<1>3. Split(u, Blanks) \in Seq(Text) /\ Split(v, Blanks) \in Seq(Text)
  BY SplitText
<1>4. QED
  BY <1>2, <1>3, NotEmptyBoth DEF Words

LEMMA WordsWhole ==
  ASSUME NEW t \in Text, LacksAll(t, Blanks)
  PROVE  /\ t = <<>> => Words(t) = <<>>
         /\ t # <<>> => Words(t) = One(t)
<1>1. Split(t, Blanks) = One(t)
  BY SplitNone
<1> DEFINE e == <<>>
<1>2. e \in Seq(Text) /\ e ++ One(t) = One(t) /\ NotEmpty(e) = <<>>
  <2>1. One(t) \in Seq(Text) /\ e \in Seq(Text)
    BY ListOne, EmptySeq
  <2>2. QED
    BY <2>1, NotEmptyNothing, ConcatEmptySeq DEF ++
<1> HIDE DEF e
<1>3. /\ t = <<>> => NotEmpty(One(t)) = NotEmpty(e)
      /\ t # <<>> => NotEmpty(One(t)) = NotEmpty(e) ++ One(t)
  BY <1>2, NotEmptyLast
<1>4. NotEmpty(e) = e
  BY <1>2 DEF e
<1>5. QED
  BY <1>1, <1>2, <1>3, <1>4 DEF Words

LEMMA NoWords ==
  Words(<<>>) = <<>>
<1>1. <<>> \in Text /\ LacksAll(<<>>, Blanks)
  BY EmptyText DEF LacksAll
<1>2. QED
  BY <1>1, WordsWhole

LEMMA WordsType ==
  ASSUME NEW t \in Text
  PROVE  Words(t) \in Seq(Text) /\ Words(t) ++ <<>> = Words(t) /\ <<>> ++ Words(t) = Words(t)
<1>1. Split(t, Blanks) \in Seq(Text)
  BY SplitText
<1>2. Words(t) \in Seq(Text)
  BY <1>1, NotEmptyLast, EmptyText DEF Words
<1>3. QED
  BY <1>2, ConcatEmptySeq DEF ++

\* Blanks around a text do not change its words.
LEMMA WordsPadded ==
  ASSUME NEW a \in Text, NEW m \in Text, NEW b \in Text, AllIn(a, Blanks), AllIn(b, Blanks)
  PROVE  Words((a ++ m) ++ b) = Words(m)
<1> DEFINE P == {u \in Text : AllIn(u, Blanks) => Words(u ++ m) = Words(m)}
           Q == {u \in Text : AllIn(u, Blanks) => Words((a ++ m) ++ u) = Words(a ++ m)}
<1>0. a ++ m \in Text
  BY TwoJoined
<1>1. <<>> \in P /\ <<>> \in Q
  BY <1>0, EmptyText, NoneJoined
<1>2. ASSUME NEW c \in Token, NEW r \in Seq(Token), r \in P PROVE One(c) ++ r \in P
  <2>1. r \in Text /\ One(c) \in Text /\ One(c) ++ r \in Text /\ r ++ m \in Text
    BY TextAfter, TwoJoined
  <2> SUFFICES ASSUME AllIn(One(c) ++ r, Blanks) PROVE Words((One(c) ++ r) ++ m) = Words(m)
    BY <2>1
  <2>2. c \in Blanks /\ AllIn(r, Blanks)
    BY <2>1, AllInBoth, AllInOne
  <2>3. (One(c) ++ r) ++ m = One(c) ++ (r ++ m)
    BY <2>1, ThreeJoined
  <2>4. <<>> ++ One(c) = One(c)
    BY <2>1, NoneJoined
  <2>5. Words((<<>> ++ One(c)) ++ (r ++ m)) = Words(<<>>) ++ Words(r ++ m)
    BY <2>1, <2>2, EmptyText, WordsBoth
  <2>6. Words(r ++ m) = Words(m)
    BY <1>2, <2>1, <2>2
  <2>7. QED
    BY <2>3, <2>4, <2>5, <2>6, NoWords, WordsType
<1>3. ASSUME NEW c \in Token, NEW r \in Seq(Token), r \in Q PROVE r ++ One(c) \in Q
  <2> DEFINE t == a ++ m
  <2> HIDE DEF t
  <2>1. r \in Text /\ One(c) \in Text /\ r ++ One(c) \in Text /\ t \in Text /\ t ++ r \in Text
    BY <1>0, TextAfter, TwoJoined DEF t
  <2> SUFFICES ASSUME AllIn(r ++ One(c), Blanks) PROVE Words(t ++ (r ++ One(c))) = Words(t)
    BY <2>1 DEF t
  <2>2. c \in Blanks /\ AllIn(r, Blanks)
    BY <2>1, AllInBoth, AllInOne
  <2>3. t ++ (r ++ One(c)) = (t ++ r) ++ One(c)
    BY <2>1, ThreeJoined
  <2> DEFINE v == t ++ r
  <2>4. v \in Text
    BY <2>1
  <2>5. Words(v) = Words(t)
    BY <1>3, <2>1, <2>2 DEF t
  <2> HIDE DEF v
  <2>6. v ++ One(c) \in Text
    BY <2>1, <2>4, TwoJoined
  <2>7. (v ++ One(c)) ++ <<>> = v ++ One(c)
    BY <2>6, NoneJoined
  <2>8. Words((v ++ One(c)) ++ <<>>) = Words(v) ++ Words(<<>>)
    BY <2>2, <2>4, EmptyText, WordsBoth
  <2>9. Words(v) ++ <<>> = Words(v)
    BY <2>4, WordsType
  <2>10. QED
    BY <2>3, <2>5, <2>7, <2>8, <2>9, NoWords DEF v
<1>4. a \in P
  <2> HIDE DEF P
  <2>1. Seq(Token) \subseteq P
    BY <1>1, <1>2, FirstInduction
  <2>2. QED
    BY <2>1 DEF Text
<1>5. b \in Q
  <2> HIDE DEF Q
  <2>1. Seq(Token) \subseteq Q
    BY <1>1, <1>3, LastInduction
  <2>2. QED
    BY <2>1 DEF Text
<1>6. QED
  BY <1>4, <1>5

\* What comes before the first token of a kind.
LEMMA FirstPiece ==
  ASSUME NEW t \in Text, NEW B, ~LacksAll(t, B)
  PROVE  \E x, y \in Text, c \in Token : t = (x ++ One(c)) ++ y /\ c \in B /\ LacksAll(x, B)
<1> DEFINE Found(u) == \E x, y \in Text, c \in Token : u = (x ++ One(c)) ++ y /\ c \in B /\ LacksAll(x, B)
           P == {u \in Text : LacksAll(u, B) \/ Found(u)}
<1>1. <<>> \in P
  BY EmptyText DEF LacksAll
<1>2. ASSUME NEW d \in Token, NEW r \in Seq(Token), r \in P PROVE r ++ One(d) \in P
  <2>1. /\ r \in Text /\ Len(r) \in Nat /\ One(d) \in Text
        /\ r ++ One(d) \in Text /\ Len(r ++ One(d)) = Len(r) + 1
        /\ (r ++ One(d))[Len(r) + 1] = d
        /\ \A i \in 1..Len(r) : (r ++ One(d))[i] = r[i]
    BY TextAfter
  <2>2. CASE LacksAll(r, B) /\ d \notin B
    <3> DEFINE w == r ++ One(d)
    <3> HIDE DEF w
    <3>1. \A i \in 1..Len(w) : i \in 1..Len(r) \/ i = Len(r) + 1
      BY <2>1 DEF w
    <3>2. LacksAll(w, B)
      BY <2>1, <2>2, <3>1 DEF w, LacksAll
    <3>3. QED
      BY <2>1, <3>2 DEF w
  <2>3. CASE LacksAll(r, B) /\ d \in B
    <3>1. (r ++ One(d)) ++ <<>> = r ++ One(d)
      BY <2>1, NoneJoined
    <3>2. QED
      BY <2>1, <2>3, <3>1, EmptyText
  <2>4. CASE Found(r)
    <3> PICK x \in Text, y \in Text, c \in Token : r = (x ++ One(c)) ++ y /\ c \in B /\ LacksAll(x, B)
      BY <2>4
    <3> DEFINE z == y ++ One(d)  s == x ++ One(c)
    <3>1. z \in Text /\ s \in Text
      BY <2>1, OneText, TwoJoined
    <3>2. r ++ One(d) = s ++ z
      BY <2>1, <3>1, ThreeJoined
    <3> HIDE DEF z
    <3>3. QED
      BY <2>1, <3>1, <3>2
  <2>5. QED
    BY <1>2, <2>2, <2>3, <2>4
<1>3. t \in P
  <2> HIDE DEF P
  <2>1. Seq(Token) \subseteq P
    BY <1>1, <1>2, LastInduction
  <2>2. QED
    BY <2>1 DEF Text
<1>4. QED
  BY <1>3

\* A text that is not blank has a word.
LEMMA WordsSome ==
  ASSUME NEW t \in Text, ~AllIn(t, Blanks)
  PROVE  Len(Words(t)) >= 1
<1> PICK a \in Text, m \in Text, b \in Text :
      t = (a ++ m) ++ b /\ AllIn(a, Blanks) /\ AllIn(b, Blanks) /\ Opens(m, Blanks) /\ Closes(m, Blanks)
  BY MiddleOf
<1>1. Words(t) = Words(m)
  BY WordsPadded
<1>2. m # <<>>
  <2> SUFFICES ASSUME m = <<>> PROVE FALSE
    OBVIOUS
  <2>1. a ++ m = a
    BY NoneJoined
  <2>2. QED
    BY <2>1, AllInBoth
<1>3. CASE LacksAll(m, Blanks)
  <2>1. Words(m) = One(m)
    BY <1>2, <1>3, WordsWhole
  <2>2. Len(One(m)) = 1
    BY DEF One
  <2>3. QED
    BY <1>1, <2>1, <2>2
<1>4. CASE ~LacksAll(m, Blanks)
  <2> PICK x \in Text, y \in Text, c \in Token : m = (x ++ One(c)) ++ y /\ c \in Blanks /\ LacksAll(x, Blanks)
    BY <1>4, FirstPiece
  <2>1. Words(m) = Words(x) ++ Words(y)
    BY WordsBoth
  <2>2. x # <<>>
    <3> SUFFICES ASSUME x = <<>> PROVE FALSE
      OBVIOUS
    <3>1. x ++ One(c) = One(c) /\ One(c) \in Text /\ One(c) # <<>>
      BY OneText, NoneJoined
    <3>2. Opens(One(c), Blanks)
      BY <3>1, AllInBoth
    <3>3. QED
      BY <3>2, AllInOne
  <2>3. Words(x) = One(x) /\ Len(One(x)) = 1
    BY <2>2, WordsWhole DEF One
  <2>4. Words(x) \in Seq(Text) /\ Words(y) \in Seq(Text)
    BY WordsType
  <2>5. Len(Words(x) ++ Words(y)) = Len(Words(x)) + Len(Words(y)) /\ Len(Words(y)) \in Nat
    BY <2>4, ListJoined
  <2>6. QED
    BY <1>1, <2>1, <2>3, <2>5
<1>5. QED
  BY <1>3, <1>4

\* The only word of a text is what Trim leaves of it.
LEMMA OnlyWord ==
  ASSUME NEW t \in Text, Len(Words(t)) = 1
  PROVE  Words(t) = One(Trim(t)) /\ Trim(t) \in Text
<1> PICK a \in Text, m \in Text, b \in Text :
      t = (a ++ m) ++ b /\ AllIn(a, Blanks) /\ AllIn(b, Blanks) /\ Opens(m, Blanks) /\ Closes(m, Blanks)
  BY MiddleOf
<1>1. Words(t) = Words(m)
  BY WordsPadded
<1>2. Trim(t) = m
  BY TrimIs
<1>3. m # <<>>
  <2> SUFFICES ASSUME m = <<>> PROVE FALSE
    OBVIOUS
  <2>1. Len(Words(m)) = 0
    BY NoWords, EmptySeq
  <2>2. QED
    BY <1>1, <2>1
<1>4. LacksAll(m, Blanks)
  <2> SUFFICES ASSUME ~LacksAll(m, Blanks) PROVE FALSE
    OBVIOUS
  <2> PICK x \in Text, y \in Text, c \in Token : m = (x ++ One(c)) ++ y /\ c \in Blanks /\ LacksAll(x, Blanks)
    BY FirstPiece
  <2>1. Words(m) = Words(x) ++ Words(y)
    BY WordsBoth
  <2>2. x # <<>>
    <3> SUFFICES ASSUME x = <<>> PROVE FALSE
      OBVIOUS
    <3>1. x ++ One(c) = One(c) /\ One(c) \in Text /\ One(c) # <<>>
      BY OneText, NoneJoined
    <3>2. Opens(One(c), Blanks)
      BY <3>1, AllInBoth
    <3>3. QED
      BY <3>2, AllInOne
  <2>3. Words(x) = One(x) /\ Len(One(x)) = 1
    BY <2>2, WordsWhole DEF One
  <2>4. ~AllIn(y, Blanks)
    <3> DEFINE w == x ++ One(c)
    <3>1. w \in Text /\ Closes(w, Blanks) = FALSE
      <4>1. One(c) \in Text /\ One(c) # <<>> /\ ~Closes(One(c), Blanks)
        BY OneText, AllInOne
      <4>2. QED
        BY <4>1, TwoJoined, AllInBoth
    <3>2. w # <<>>
      BY <3>1 DEF Closes
    <3> HIDE DEF w
    <3>3. y # <<>>
      <4>1. w ++ <<>> = w
        BY <3>1, NoneJoined
      <4>2. QED
        BY <3>1, <4>1 DEF w
    <3>4. Closes(y, Blanks)
      BY <3>1, <3>3, AllInBoth DEF w
    <3>5. Len(y) \in 1..Len(y)
      BY <3>3, LenText
    <3>6. QED
      BY <3>3, <3>4, <3>5 DEF Closes, AllIn
  <2>5. Len(Words(y)) >= 1
    BY <2>4, WordsSome
  <2>6. Words(x) \in Seq(Text) /\ Words(y) \in Seq(Text)
    BY WordsType
  <2>7. Len(Words(x) ++ Words(y)) = Len(Words(x)) + Len(Words(y)) /\ Len(Words(y)) \in Nat
    BY <2>6, ListJoined
  <2>8. QED
    BY <1>1, <2>1, <2>3, <2>5, <2>7
<1>5. QED
  BY <1>1, <1>2, <1>3, <1>4, WordsWhole

-----------------------------------------------------------------------------
(***************************************************************************)
(* Lines.                                                                  *)
(***************************************************************************)
\* A field of a line, and what follows it.
Field(u, v) == (u ++ One("|")) ++ v

LEMMA FieldType ==
  ASSUME NEW u \in Text, NEW v \in Text
  PROVE  /\ Field(u, v) \in Text
         /\ \A w \in Text : Field(u, v) ++ w = Field(u, v ++ w)
         /\ Closes(v, Blanks) => Closes(Field(u, v), Blanks)
         /\ \A c \in Token \ {"|"} : Lacks(u, c) /\ Lacks(v, c) => Lacks(Field(u, v), c)
         /\ \A B : u # <<>> /\ Opens(u, B) => Opens(Field(u, v), B)
         /\ Field(u, v) # <<>>
<1> DEFINE p == u ++ One("|")
<1>0. "|" \in Token /\ "|" \notin Blanks
  BY DEF Token, Blanks, Newline
<1>1. One("|") \in Text /\ Len(One("|")) = 1 /\ One("|") # <<>> /\ p \in Text /\ Len(u) \in Nat
      /\ Len(p) = Len(u) + 1
  <2>1. u \in Seq(Token)
    BY DEF Text
  <2>2. One("|") # <<>> /\ Len(One("|")) = 1
    BY <1>0, OneText
  <2>3. QED
    BY <1>0, <2>1, <2>2, TextAfter
<1>2. p # <<>> /\ Closes(p, Blanks)
  BY <1>0, <1>1, EmptyText, AllInBoth, AllInOne
<1>3. \A w \in Text : Field(u, v) ++ w = Field(u, v ++ w)
  <2> SUFFICES ASSUME NEW w \in Text PROVE Field(u, v) ++ w = Field(u, v ++ w)
    OBVIOUS
  <2> HIDE DEF p
  <2>1. (p ++ v) ++ w = p ++ (v ++ w)
    BY <1>1, ThreeJoined
  <2>2. QED
    BY <2>1 DEF Field, p
<1>4. Closes(v, Blanks) => Closes(Field(u, v), Blanks)
  <2> HIDE DEF p
  <2>1. CASE v = <<>>
    <3>1. p ++ <<>> = p
      BY <1>1, NoneJoined
    <3>2. QED
      BY <1>2, <2>1, <3>1 DEF Field, p
  <2>2. CASE v # <<>>
    <3>1. Closes(p ++ v, Blanks) <=> Closes(v, Blanks)
      BY <1>1, <2>2, AllInBoth
    <3>2. QED
      BY <3>1 DEF Field, p
  <2>3. QED
    BY <2>1, <2>2
<1>5. \A c \in Token \ {"|"} : Lacks(u, c) /\ Lacks(v, c) => Lacks(Field(u, v), c)
  <2> SUFFICES ASSUME NEW c \in Token \ {"|"}, Lacks(u, c), Lacks(v, c) PROVE Lacks(Field(u, v), c)
    OBVIOUS
  <2>1. Lacks(One("|"), c)
    BY <1>0, LacksOne
  <2>2. Lacks(p, c)
    BY <1>1, <2>1, LacksBoth
  <2> HIDE DEF p
  <2>3. Lacks(p ++ v, c)
    BY <1>1, <2>2, LacksBoth
  <2>4. QED
    BY <2>3 DEF Field, p
<1>6. \A B : u # <<>> /\ Opens(u, B) => Opens(Field(u, v), B)
  <2> SUFFICES ASSUME NEW B, u # <<>>, Opens(u, B) PROVE Opens(Field(u, v), B)
    OBVIOUS
  <2>1. Opens(p, B)
    BY <1>1, AllInBoth
  <2> HIDE DEF p
  <2>2. Opens(p ++ v, B)
    BY <1>1, <1>2, <2>1, AllInBoth
  <2>3. QED
    BY <2>2 DEF Field, p
<1>7. Field(u, v) \in Text /\ Field(u, v) # <<>>
  <2> HIDE DEF p
  <2>1. p ++ v \in Text /\ Len(p ++ v) = Len(p) + Len(v) /\ Len(v) \in Nat
    BY <1>1, TwoJoined, LenText
  <2>2. p ++ v # <<>>
    BY <1>1, <2>1, EmptyText
  <2>3. QED
    BY <2>1, <2>2 DEF Field, p
<1>8. QED
  BY <1>3, <1>4, <1>5, <1>6, <1>7

LEMMA FieldSplit ==
  ASSUME NEW u \in Text, NEW v \in Text, Lacks(u, "|")
  PROVE  /\ Split(Field(u, v), {"|"}) = One(u) ++ Split(v, {"|"})
         /\ \A n \in Int : n > 1 => SplitN(Field(u, v), {"|"}, n) = One(u) ++ SplitN(v, {"|"}, n - 1)
<1>1. "|" \in Token /\ LacksAll(u, {"|"})
  BY DEF Token, Lacks, LacksAll
<1>2. Split((u ++ One("|")) ++ v, {"|"}) = Split(u, {"|"}) ++ Split(v, {"|"}) /\ Split(u, {"|"}) = One(u)
  BY <1>1, SplitAll, SplitNone
<1>3. ASSUME NEW n \in Int, n > 1
      PROVE  SplitN((u ++ One("|")) ++ v, {"|"}, n) = One(u) ++ SplitN(v, {"|"}, n - 1)
  BY <1>1, <1>3, SplitField
<1>4. QED
  BY <1>2, <1>3 DEF Field

\* Literals.
LEMMA Two ==
  ASSUME NEW S, NEW a \in S, NEW b \in S
  PROVE  <<a, b>> = One(a) ++ One(b)
<1>1. <<a>> \in Seq(S) /\ <<a, b>> = Append(<<a>>, b)
  OBVIOUS
<1>2. QED
  BY <1>1, AppendIsConcat DEF One, ++

LEMMA Four ==
  ASSUME NEW S, NEW a \in S, NEW b \in S, NEW c \in S, NEW d \in S
  PROVE  <<a, b, c, d>> = One(a) ++ (One(b) ++ (One(c) ++ One(d)))
<1>1. <<a, b, c, d>> = <<a>> \o <<b, c, d>>
  OBVIOUS
<1>2. <<b, c, d>> = One(b) ++ (One(c) ++ One(d))
  BY Three
<1>3. QED
  BY <1>1, <1>2, Zenon DEF One, ++

LEMMA Five ==
  ASSUME NEW S, NEW a \in S, NEW b \in S, NEW c \in S, NEW d \in S, NEW e \in S
  PROVE  <<a, b, c, d, e>> = One(a) ++ (One(b) ++ (One(c) ++ (One(d) ++ One(e))))
<1>1. <<a, b, c, d, e>> = <<a>> \o <<b, c, d, e>>
  OBVIOUS
<1>2. <<b, c, d, e>> = One(b) ++ (One(c) ++ (One(d) ++ One(e)))
  BY Four
<1>3. QED
  BY <1>1, <1>2, Zenon DEF One, ++

LEMMA Six ==
  ASSUME NEW S, NEW a \in S, NEW b \in S, NEW c \in S, NEW d \in S, NEW e \in S, NEW f \in S
  PROVE  <<a, b, c, d, e, f>> = One(a) ++ (One(b) ++ (One(c) ++ (One(d) ++ (One(e) ++ One(f)))))
<1>1. <<a, b, c, d, e, f>> = <<a>> \o <<b, c, d, e, f>>
  OBVIOUS
<1>2. <<b, c, d, e, f>> = One(b) ++ (One(c) ++ (One(d) ++ (One(e) ++ One(f))))
  BY Five
<1>3. QED
  BY <1>1, <1>2, Zenon DEF One, ++

LEMMA FieldAfter ==
  ASSUME NEW a \in Text, NEW w \in Text, NEW e \in Text
  PROVE  /\ (a ++ (One("|") ++ w)) ++ e = Field(a, w ++ e)
         /\ (a ++ One("|")) ++ e = Field(a, e)
<1> DEFINE bar == One("|")
<1>1. bar \in Text
  <2>1. "|" \in Token
    BY DEF Token
  <2>2. QED
    BY <2>1, OneText
<1> HIDE DEF bar
<1>2. bar ++ w \in Text /\ a ++ bar \in Text
  BY <1>1, TwoJoined
<1>3. (a ++ (bar ++ w)) ++ e = a ++ ((bar ++ w) ++ e)
  BY <1>2, ThreeJoined
<1>4. (bar ++ w) ++ e = bar ++ (w ++ e)
  BY <1>1, ThreeJoined
<1>5. w ++ e \in Text
  BY TwoJoined
<1>6. a ++ (bar ++ (w ++ e)) = (a ++ bar) ++ (w ++ e)
  BY <1>1, <1>5, ThreeJoined
<1>7. QED
  BY <1>3, <1>4, <1>6 DEF Field, bar

LEMMA EscapeEnds ==
  ASSUME NEW c \in Token, NEW x \in Token, NEW y \in Token, NEW t \in Text, NEW B, y \notin B, Closes(t, B)
  PROVE  Closes(Escape(t, c, x, y), B)
<1> DEFINE E(u) == Escape(u, c, x, y)
<1>1. CASE t = <<>>
  BY <1>1, EscapeType
<1>2. CASE t # <<>>
  <2>1. t \in Seq(Token)
    BY DEF Text
  <2> PICK f \in Seq(Token), a \in Token : t = f ++ One(a)
    BY <1>2, <2>1, ListEnds
  <2>2. f \in Text /\ One(a) \in Text /\ One(a) # <<>> /\ a \notin B
    <3>1. f \in Text /\ One(a) \in Text /\ One(a) # <<>>
      BY TextAfter, OneText
    <3>2. QED
      BY <3>1, AllInBoth, AllInOne
  <2>3. E(t) = E(f) ++ E(One(a)) /\ E(f) \in Text /\ E(One(a)) \in Text
    BY <2>2, EscapeBoth, EscapeType
  <2>4. One(a) ++ <<>> = One(a) /\ E(<<>>) = <<>> /\ <<>> \in Text
    BY <2>2, NoneJoined, EmptyText, EscapeType
  <2>5. a # c => E(One(a)) = One(a)
    <3>1. a # c => E(One(a) ++ <<>>) = One(a) ++ E(<<>>)
      BY EmptyText, EscapeFirst
    <3>2. QED
      BY <2>4, <3>1
  <2>6. a = c => E(One(a)) = Code(x, y)
    <3>1. a = c => E(One(a) ++ <<>>) = Code(x, y) ++ E(<<>>)
      BY EmptyText, EscapeFirst
    <3>2. Code(x, y) ++ <<>> = Code(x, y)
      BY CodeType, NoneJoined
    <3>3. QED
      BY <2>4, <3>1, <3>2
  <2>7. E(One(a)) # <<>> /\ Closes(E(One(a)), B)
    <3>1. Code(x, y) # <<>> /\ Closes(Code(x, y), B)
      BY CodeType DEF Closes
    <3>2. Closes(One(a), B)
      BY <2>2, AllInOne
    <3>3. QED
      BY <2>2, <2>5, <2>6, <3>1, <3>2
  <2> HIDE DEF E
  <2>8. Closes(E(f) ++ E(One(a)), B)
    BY <2>3, <2>7, AllInBoth
  <2>9. QED
    BY <2>3, <2>8 DEF E
<1>3. QED
  BY <1>1, <1>2

\* The three rounds of EscapePayload, each undone by UnescapePayload.
Payload(t)  == Escape(Escape(Escape(t, "%", "2", "5"), "|", "7", "C"), Newline, "0", "A")
Restored(e) == Unescape(Unescape(Unescape(e, Newline, "0", "A"), "|", "7", "C"), "%", "2", "5")

LEMMA PayloadText ==
  ASSUME NEW t \in Text
  PROVE  /\ Restored(Payload(t)) = t
         /\ Payload(t) \in Text /\ Lacks(Payload(t), "|") /\ Lacks(Payload(t), Newline)
<1> DEFINE e1 == Escape(t, "%", "2", "5")
           e2 == Escape(e1, "|", "7", "C")
           e3 == Escape(e2, Newline, "0", "A")
<1>0. Newline \in Token /\ Newline \notin {"%", "|", "2", "5", "7", "C", "0", "A"}
  BY DEF Newline, Token
<1>1. {"%", "2", "5", "7", "C", "0", "A", "|"} \subseteq Token
  BY DEF Token
<1>2. e1 \in Text /\ Unescape(e1, "%", "2", "5") = t
  <2>1. "%" \in Token /\ "2" \in Token \ {"%"} /\ "5" \in Token \ {"%"}
    BY <1>1
  <2>2. QED
    BY <2>1, EscapeType, EscapeUndone
<1>3. Marked(e1, {<<"2", "5">>})
  <2>1. {} \in SUBSET ((Token \ {"%", "%"}) \X (Token \ {"%", "%"}))
    OBVIOUS
  <2>2. Marked(e1, {} \cup {<<"2", "5">>})
    BY <1>1, <2>1, EscapeMarked
  <2>3. QED
    BY <2>2
<1> HIDE DEF e1
<1>4. e2 \in Text /\ Unescape(e2, "|", "7", "C") = e1
  <2>1. <<"7", "C">> \notin {<<"2", "5">>}
    OBVIOUS
  <2>2. Free(e1, "7", "C")
    BY <2>1, <1>2, <1>3, MarkedIsFree
  <2>3. QED
    BY <1>1, <1>2, <2>2, EscapeType, EscapeUndone
<1>5. Marked(e2, {<<"2", "5">>, <<"7", "C">>})
  <2>1. {<<"2", "5">>} \in SUBSET ((Token \ {"%", "|"}) \X (Token \ {"%", "|"}))
    BY <1>1
  <2>2. Marked(e2, {<<"2", "5">>} \cup {<<"7", "C">>})
    BY <1>1, <1>2, <1>3, <2>1, EscapeMarked
  <2>3. {<<"2", "5">>} \cup {<<"7", "C">>} = {<<"2", "5">>, <<"7", "C">>}
    OBVIOUS
  <2>4. QED
    BY <2>2, <2>3, Zenon
<1>6. Lacks(e2, "|")
  BY <1>1, <1>2, EscapeLacks
<1> HIDE DEF e2
<1>7. e3 \in Text /\ Unescape(e3, Newline, "0", "A") = e2
  <2>1. <<"0", "A">> \notin {<<"2", "5">>, <<"7", "C">>}
    OBVIOUS
  <2>2. Free(e2, "0", "A")
    BY <2>1, <1>4, <1>5, MarkedIsFree
  <2>3. QED
    BY <1>0, <1>1, <1>4, <2>2, EscapeType, EscapeUndone
<1>8. Lacks(e3, "|")
  BY <1>0, <1>1, <1>4, <1>6, EscapeLacks
<1>9. Lacks(e3, Newline)
  BY <1>0, <1>1, <1>4, EscapeLacks
<1>10. QED
  BY <1>2, <1>4, <1>7, <1>8, <1>9 DEF e1, e2, e3, Payload, Restored

\* The four rounds of EscapeValue, each undone by UnescapeValue.
Value(t) ==
  Escape(Escape(Escape(Escape(t, "%", "2", "5"), "=", "3", "D"), "cr", "0", "D"), Newline, "0", "A")
Reread(e) ==
  Unescape(Unescape(Unescape(Unescape(e, Newline, "0", "A"), "cr", "0", "D"), "=", "3", "D"), "%", "2", "5")

LEMMA ValueText ==
  ASSUME NEW t \in Text
  PROVE  /\ Reread(Value(t)) = t
         /\ Value(t) \in Text /\ Lacks(Value(t), "=") /\ Lacks(Value(t), "cr") /\ Lacks(Value(t), Newline)
<1> DEFINE e1 == Escape(t, "%", "2", "5")
           e2 == Escape(e1, "=", "3", "D")
           e3 == Escape(e2, "cr", "0", "D")
           e4 == Escape(e3, Newline, "0", "A")
<1>0. Newline \in Token /\ Newline \notin {"%", "=", "cr", "2", "5", "3", "D", "0", "A"}
  BY DEF Newline, Token
<1>1. {"%", "2", "5", "3", "D", "0", "A", "=", "cr"} \subseteq Token
  BY DEF Token
<1>2. e1 \in Text /\ Unescape(e1, "%", "2", "5") = t
  <2>1. "%" \in Token /\ "2" \in Token \ {"%"} /\ "5" \in Token \ {"%"}
    BY <1>1
  <2>2. QED
    BY <2>1, EscapeType, EscapeUndone
<1>3. Marked(e1, {<<"2", "5">>})
  <2>1. {} \in SUBSET ((Token \ {"%", "%"}) \X (Token \ {"%", "%"}))
    OBVIOUS
  <2>2. Marked(e1, {} \cup {<<"2", "5">>})
    BY <1>1, <2>1, EscapeMarked
  <2>3. QED
    BY <2>2
<1> HIDE DEF e1
<1>4. e2 \in Text /\ Unescape(e2, "=", "3", "D") = e1
  <2>1. <<"3", "D">> \notin {<<"2", "5">>}
    OBVIOUS
  <2>2. Free(e1, "3", "D")
    BY <2>1, <1>2, <1>3, MarkedIsFree
  <2>3. QED
    BY <1>1, <1>2, <2>2, EscapeType, EscapeUndone
<1>5. Marked(e2, {<<"2", "5">>, <<"3", "D">>})
  <2>1. {<<"2", "5">>} \in SUBSET ((Token \ {"%", "="}) \X (Token \ {"%", "="}))
    BY <1>1
  <2>2. Marked(e2, {<<"2", "5">>} \cup {<<"3", "D">>})
    BY <1>1, <1>2, <1>3, <2>1, EscapeMarked
  <2>3. {<<"2", "5">>} \cup {<<"3", "D">>} = {<<"2", "5">>, <<"3", "D">>}
    OBVIOUS
  <2>4. QED
    BY <2>2, <2>3, Zenon
<1>6. Lacks(e2, "=")
  BY <1>1, <1>2, EscapeLacks
<1> HIDE DEF e2
<1>7. e3 \in Text /\ Unescape(e3, "cr", "0", "D") = e2
  <2>1. <<"0", "D">> \notin {<<"2", "5">>, <<"3", "D">>}
    OBVIOUS
  <2>2. Free(e2, "0", "D")
    BY <2>1, <1>4, <1>5, MarkedIsFree
  <2>3. QED
    BY <1>1, <1>4, <2>2, EscapeType, EscapeUndone
<1>8. Marked(e3, {<<"2", "5">>, <<"3", "D">>, <<"0", "D">>})
  <2>1. {<<"2", "5">>, <<"3", "D">>} \in SUBSET ((Token \ {"%", "cr"}) \X (Token \ {"%", "cr"}))
    BY <1>1
  <2>2. Marked(e3, {<<"2", "5">>, <<"3", "D">>} \cup {<<"0", "D">>})
    BY <1>1, <1>4, <1>5, <2>1, EscapeMarked
  <2>3. {<<"2", "5">>, <<"3", "D">>} \cup {<<"0", "D">>}
          = {<<"2", "5">>, <<"3", "D">>, <<"0", "D">>}
    OBVIOUS
  <2>4. QED
    BY <2>2, <2>3, Zenon
<1>9. Lacks(e3, "=") /\ Lacks(e3, "cr")
  BY <1>1, <1>4, <1>6, EscapeLacks
<1> HIDE DEF e3
<1>10. e4 \in Text /\ Unescape(e4, Newline, "0", "A") = e3
  <2>1. <<"0", "A">> \notin {<<"2", "5">>, <<"3", "D">>, <<"0", "D">>}
    OBVIOUS
  <2>2. Free(e3, "0", "A")
    BY <2>1, <1>7, <1>8, MarkedIsFree
  <2>3. QED
    BY <1>0, <1>1, <1>7, <2>2, EscapeType, EscapeUndone
<1>11. Lacks(e4, "=") /\ Lacks(e4, "cr")
  BY <1>0, <1>1, <1>7, <1>9, EscapeLacks
<1>12. Lacks(e4, Newline)
  BY <1>0, <1>1, <1>7, EscapeLacks
<1>13. QED
  BY <1>2, <1>4, <1>7, <1>10, <1>11, <1>12 DEF e1, e2, e3, e4, Value, Reread

LEMMA LastIndex ==
  ASSUME NEW t \in Text, t # <<>>
  PROVE  Len(t) \in 1..Len(t)
BY LenText

\* EscapePayload goes through the text, and leaves what needs no escape.
LEMMA PayloadBoth ==
  ASSUME NEW s \in Text, NEW t \in Text
  PROVE  Payload(s ++ t) = Payload(s) ++ Payload(t)
<1> DEFINE E(u) == Escape(u, "%", "2", "5")
           F(u) == Escape(u, "|", "7", "C")
           G(u) == Escape(u, Newline, "0", "A")
<1>1. {"%", "|", Newline, "2", "5", "7", "C", "0", "A"} \subseteq Token
  BY DEF Newline, Token
<1>2. \A u, v \in Text : E(u ++ v) = E(u) ++ E(v) /\ E(u) \in Text
  BY <1>1, EscapeBoth, EscapeType
<1>3. \A u, v \in Text : F(u ++ v) = F(u) ++ F(v) /\ F(u) \in Text
  BY <1>1, EscapeBoth, EscapeType
<1>4. \A u, v \in Text : G(u ++ v) = G(u) ++ G(v) /\ G(u) \in Text
  BY <1>1, EscapeBoth, EscapeType
<1>5. \A u : Payload(u) = G(F(E(u)))
  BY DEF Payload
<1> HIDE DEF E, F, G
<1>6. QED
  BY <1>2, <1>3, <1>4, <1>5

LEMMA PayloadSame ==
  ASSUME NEW t \in Text, Lacks(t, "%"), Lacks(t, "|"), Lacks(t, Newline)
  PROVE  Payload(t) = t
<1>1. {"%", "|", Newline, "2", "5", "7", "C", "0", "A"} \subseteq Token
  BY DEF Newline, Token
<1>2. /\ Escape(t, "%", "2", "5") = t /\ Escape(t, "|", "7", "C") = t
      /\ Escape(t, Newline, "0", "A") = t
  BY <1>1, EscapeSame
<1>3. QED
  BY <1>2 DEF Payload

LEMMA PayloadCloses ==
  ASSUME NEW t \in Text, Closes(t, {" ", "cr"})
  PROVE  Closes(Payload(t), Blanks)
<1> DEFINE e == Escape(t, "%", "2", "5")  f == Escape(e, "|", "7", "C")
<1>1. {"%", "|", Newline, "2", "5", "7", "C", "0", "A"} \subseteq Token
  BY DEF Newline, Token
<1>2. e \in Text /\ Closes(e, {" ", "cr"})
  BY <1>1, EscapeType, EscapeEnds
<1> HIDE DEF e
<1>3. f \in Text /\ Closes(f, {" ", "cr"})
  BY <1>1, <1>2, EscapeType, EscapeEnds
<1> HIDE DEF f
<1>4. Closes(Escape(f, Newline, "0", "A"), {" ", "cr"})
  BY <1>1, <1>3, EscapeEnds
<1>5. Payload(t) = Escape(f, Newline, "0", "A")
  BY DEF Payload, e, f
<1>6. Payload(t) \in Text /\ Lacks(Payload(t), Newline)
  BY PayloadText
<1> DEFINE p == Payload(t)
<1>7. Closes(p, {" ", "cr"})
  BY <1>4, <1>5
<1> HIDE DEF p
<1>8. Closes(p, Blanks)
  <2> SUFFICES ASSUME p # <<>> PROVE p[Len(p)] \notin Blanks
    BY DEF Closes
  <2>1. Len(p) \in 1..Len(p)
    BY <1>6, LastIndex DEF p
  <2>2. p[Len(p)] # Newline
    BY <1>6, <2>1 DEF Lacks, p
  <2>3. p[Len(p)] \notin {" ", "cr"}
    BY <1>7 DEF Closes
  <2>4. QED
    BY <2>2, <2>3, BlankTokens
<1>9. QED
  BY <1>8 DEF p

\* The blank that a payload may end with.
Spaces == {" "}

\* The blanks at the end of a payload are those of the text.
LEMMA PayloadEnd ==
  ASSUME NEW t \in Text, Lacks(t, "cr")
  PROVE  \E u, b \in Text :
           /\ t = u ++ b /\ Closes(u, Spaces) /\ AllIn(b, Spaces) /\ AllIn(b, Blanks)
           /\ Payload(t) = Payload(u) ++ b /\ Closes(Payload(u), Blanks)
<1> PICK u \in Text, b \in Text : t = u ++ b /\ AllIn(b, Spaces) /\ Closes(u, Spaces)
  BY EndOf
<1>1. Payload(b) = b
  <2>1. Lacks(b, "%") /\ Lacks(b, "|") /\ Lacks(b, Newline)
    BY DEF Lacks, AllIn, Newline, Spaces
  <2>2. QED
    BY <2>1, PayloadSame
<1>2. Payload(t) = Payload(u) ++ b
  BY <1>1, PayloadBoth
<1>3. Closes(u, {" ", "cr"})
  <2> SUFFICES ASSUME u # <<>> PROVE u[Len(u)] \notin {" ", "cr"}
    BY DEF Closes
  <2>1. Len(u) \in 1..Len(u)
    BY LastIndex
  <2>2. Lacks(u, "cr")
    BY LacksBoth
  <2>3. QED
    BY <2>1, <2>2 DEF Lacks, Closes, Spaces
<1>4. AllIn(b, Blanks)
  BY BlankTokens DEF AllIn, Spaces
<1>5. QED
  BY <1>2, <1>3, <1>4, PayloadCloses

\* Beginnings of a text.
LEMMA PrefixOf ==
  ASSUME NEW p \in Text, NEW r \in Text, p # <<>>
  PROVE  IsPrefix(p, p ++ r)
<1>1. Len(p ++ r) = Len(p) + Len(r) /\ Len(p) \in Nat /\ Len(r) \in Nat
  BY TwoJoined, LenText
<1>2. SubSeq(p ++ r, 1, Len(p)) = p
  BY CutEnd
<1>3. SubSeq(p, 1, Len(p)) = p
  BY SubSeqFull DEF Text
<1>4. QED
  BY <1>1, <1>2, <1>3 DEF IsPrefix

LEMMA NoPrefix ==
  ASSUME NEW p \in Text, NEW t \in Text, p # <<>>, t # <<>>, NEW i \in 1..Len(p), i <= Len(t) => p[i] # t[i]
  PROVE  ~IsPrefix(p, t)
<1> SUFFICES ASSUME Len(p) <= Len(t), SubSeq(p, 1, Len(p)) = SubSeq(t, 1, Len(p)) PROVE FALSE
  BY DEF IsPrefix
<1>1. Len(p) \in Nat /\ Len(t) \in Nat
  BY LenText
<1>2. SubSeq(p, 1, Len(p)) = p
  BY SubSeqFull DEF Text
<1>3. \A k \in 1..Len(p) : t[k] \in Token
  <2>1. \A k \in 1..Len(p) : k \in 1..Len(t)
    BY <1>1
  <2>2. QED
    BY <2>1, ElementOfSeq DEF Text
<1>4. SubSeq(t, 1, Len(p))[i] = t[i]
  <2>1. \A k \in 1..(Len(p) - 1 + 1) : SubSeq(t, 1, Len(p))[k] = t[1 + k - 1]
    BY <1>1, <1>3, SubSeqProperties
  <2>2. i \in 1..(Len(p) - 1 + 1) /\ 1 + i - 1 = i
    BY <1>1
  <2>3. QED
    BY <2>1, <2>2
<1>5. i <= Len(t)
  BY <1>1
<1>6. QED
  BY <1>2, <1>4, <1>5

LEMMA Eight ==
  ASSUME NEW a, NEW b, NEW c, NEW d, NEW e, NEW f, NEW g, NEW h
  PROVE  <<a, b, c, d, e, f, g, h>> = <<a, b>> ++ (<<c, d>> ++ (<<e, f>> ++ <<g, h>>))
<1>1. <<e, f, g, h>> = <<e, f>> \o <<g, h>>
  OBVIOUS
<1>2. <<c, d, e, f, g, h>> = <<c, d>> \o <<e, f, g, h>>
  OBVIOUS
<1>3. <<a, b, c, d, e, f, g, h>> = <<a, b>> \o <<c, d, e, f, g, h>>
  OBVIOUS
<1>4. QED
  BY <1>1, <1>2, <1>3, Zenon DEF ++

LEMMA SixApart ==
  ASSUME NEW a, NEW b, NEW c, NEW d, NEW e, NEW f
  PROVE  <<a, b, c, d, e, f>> = <<a, b>> ++ (<<c, d>> ++ <<e, f>>)
<1>1. <<c, d, e, f>> = <<c, d>> \o <<e, f>>
  OBVIOUS
<1>2. <<a, b, c, d, e, f>> = <<a, b>> \o <<c, d, e, f>>
  OBVIOUS
<1>3. QED
  BY <1>1, <1>2, Zenon DEF ++

\* A word of a line, and what follows it.
Spaced(u, v) == (u ++ One(" ")) ++ v

LEMMA SpacedAfter ==
  ASSUME NEW a \in Text, NEW w \in Text, NEW e \in Text
  PROVE  /\ (a ++ (One(" ") ++ w)) ++ e = Spaced(a, w ++ e)
         /\ (a ++ One(" ")) ++ e = Spaced(a, e)
         /\ a ++ (One(" ") ++ e) = Spaced(a, e)
         /\ Spaced(a, w) ++ e = Spaced(a, w ++ e)
         /\ Spaced(a, e) \in Text /\ Len(Spaced(a, e)) = (Len(a) + 1) + Len(e)
         /\ a # <<>> => Spaced(a, e)[1] = a[1]
<1> DEFINE bar == One(" ")
<1>1. bar \in Text /\ Len(bar) = 1
  <2>1. " " \in Token
    BY BlankTokens
  <2>2. QED
    BY <2>1, OneText
<1> HIDE DEF bar
<1>2. bar ++ w \in Text /\ a ++ bar \in Text /\ Len(a ++ bar) = Len(a) + 1
  <2>1. bar ++ w \in Text /\ a ++ bar \in Text /\ Len(a ++ bar) = Len(a) + Len(bar)
    BY <1>1, TwoJoined
  <2>2. QED
    BY <1>1, <2>1
<1>3. (a ++ (bar ++ w)) ++ e = a ++ ((bar ++ w) ++ e)
  BY <1>2, ThreeJoined
<1>4. (bar ++ w) ++ e = bar ++ (w ++ e)
  BY <1>1, ThreeJoined
<1>5. w ++ e \in Text
  BY TwoJoined
<1>6. a ++ (bar ++ (w ++ e)) = (a ++ bar) ++ (w ++ e) /\ a ++ (bar ++ e) = (a ++ bar) ++ e
  BY <1>1, <1>5, ThreeJoined
<1>7. ((a ++ bar) ++ w) ++ e = (a ++ bar) ++ (w ++ e)
  BY <1>2, ThreeJoined
<1>8. (a ++ bar) ++ e \in Text /\ Len((a ++ bar) ++ e) = (Len(a) + 1) + Len(e)
  BY <1>2, TwoJoined
<1>9. a # <<>> => ((a ++ bar) ++ e)[1] = a[1]
  <2> SUFFICES ASSUME a # <<>> PROVE ((a ++ bar) ++ e)[1] = a[1]
    OBVIOUS
  <2>1. Len(a) \in 1..Len(a) /\ Len(a) \in Nat
    BY LastIndex, LenText
  <2>2. 1 \in 1..Len(a) /\ 1 \in 1..Len(a ++ bar)
    BY <1>2, <2>1
  <2>3. (a ++ bar)[1] = a[1]
    BY <1>1, <2>2, TokensOfBoth
  <2>4. ((a ++ bar) ++ e)[1] = (a ++ bar)[1]
    BY <1>2, <2>2, TokensOfBoth
  <2>5. QED
    BY <2>3, <2>4
<1>10. QED
  BY <1>3, <1>4, <1>6, <1>7, <1>8, <1>9 DEF Spaced, bar

LEMMA SpacedMore ==
  ASSUME NEW a \in Text, NEW w \in Text, NEW e \in Text
  PROVE  Spaced(a, w) ++ e = Spaced(a, w ++ e)
BY SpacedAfter

LEMMA SpacedWords ==
  ASSUME NEW u \in Text, NEW v \in Text
  PROVE  /\ Words(Spaced(u, v)) = Words(u) ++ Words(v)
         /\ u # <<>> /\ LacksAll(u, Blanks) => Words(Spaced(u, v)) = One(u) ++ Words(v)
         /\ u # <<>> /\ Opens(u, Blanks) => Opens(Spaced(u, v), Blanks)
         /\ v # <<>> /\ Closes(v, Blanks) => Closes(Spaced(u, v), Blanks)
         /\ Spaced(u, v) # <<>>
<1> DEFINE bar == One(" ")  p == u ++ bar
<1>0. " " \in Blanks /\ " " \in Token
  BY BlankTokens
<1>1. bar \in Text /\ Len(bar) = 1
  BY <1>0, OneText
<1>2. Words(Spaced(u, v)) = Words(u) ++ Words(v)
  BY <1>0, WordsBoth DEF Spaced
<1>3. u # <<>> /\ LacksAll(u, Blanks) => Words(u) = One(u)
  BY WordsWhole
<1>4. Spaced(u, v) = p ++ v
  BY DEF Spaced
<1> HIDE DEF bar
<1>5. p \in Text /\ Len(p) = Len(u) + Len(bar) /\ Len(u) \in Nat
  BY <1>1, TwoJoined, LenText
<1>6. u # <<>> => (Opens(p, Blanks) <=> Opens(u, Blanks))
  BY <1>1, AllInBoth
<1> HIDE DEF p
<1>7. p # <<>>
  <2>1. Len(p) # 0
    BY <1>1, <1>5
  <2>2. QED
    BY <2>1, EmptyText
<1>8. (Opens(p ++ v, Blanks) <=> Opens(p, Blanks)) /\ (v # <<>> => (Closes(p ++ v, Blanks) <=> Closes(v, Blanks)))
  BY <1>5, <1>7, AllInBoth
<1>9. p ++ v # <<>>
  <2>1. Len(p ++ v) = Len(p) + Len(v) /\ Len(v) \in Nat
    BY <1>5, TwoJoined, LenText
  <2>2. Len(p ++ v) # 0
    BY <1>1, <1>5, <2>1
  <2>3. QED
    BY <2>2, EmptyText
<1>10. QED
  BY <1>2, <1>3, <1>4, <1>6, <1>8, <1>9

LEMMA FourApart ==
  ASSUME NEW a, NEW b, NEW c, NEW d
  PROVE  <<a, b, c, d>> = One(a) ++ (One(b) ++ (One(c) ++ One(d)))
<1>1. <<a, b, c, d>> = <<a>> \o <<b, c, d>>
  OBVIOUS
<1>2. <<b, c, d>> = <<b>> \o <<c, d>>
  OBVIOUS
<1>3. <<c, d>> = One(c) ++ One(d)
  <2>1. c \in {c, d} /\ d \in {c, d}
    OBVIOUS
  <2>2. QED
    BY <2>1, Two
<1>4. QED
  BY <1>1, <1>2, <1>3, Zenon DEF One, ++

\* Lists of words: how long they are, and which is which.
LEMMA FourLong ==
  ASSUME NEW S, NEW a \in S, NEW b \in S, NEW c \in S, NEW w \in Seq(S)
  PROVE  /\ Len(One(a) ++ (w ++ (One(b) ++ One(c)))) = 3 + Len(w) /\ Len(w) \in Nat
<1>1. /\ One(a) \in Seq(S) /\ Len(One(a)) = 1 /\ One(b) \in Seq(S) /\ Len(One(b)) = 1
      /\ One(c) \in Seq(S) /\ Len(One(c)) = 1
  BY ListOne
<1> DEFINE o == One(a)  p == One(b)  q == One(c)  y == p ++ q  z == w ++ y
<1> HIDE DEF o, p, q
<1>2. y \in Seq(S) /\ Len(y) = 2
  <2>1. p \in Seq(S) /\ Len(p) = 1 /\ q \in Seq(S) /\ Len(q) = 1
    BY <1>1 DEF p, q
  <2>2. y \in Seq(S) /\ Len(y) = Len(p) + Len(q)
    BY <2>1, ListJoined
  <2>3. QED
    BY <2>1, <2>2
<1> HIDE DEF y
<1>3. z \in Seq(S) /\ Len(z) = Len(w) + 2 /\ Len(w) \in Nat
  BY <1>2, ListJoined
<1> HIDE DEF z
<1>4. Len(o ++ z) = 1 + Len(z)
  <2>1. o \in Seq(S) /\ Len(o) = 1
    BY <1>1 DEF o
  <2>2. Len(o ++ z) = Len(o) + Len(z)
    BY <1>3, <2>1, ListJoined
  <2>3. QED
    BY <2>1, <2>2
<1>5. QED
  BY <1>3, <1>4 DEF o, p, q, y, z
LEMMA SpacedType ==
  ASSUME NEW u \in Text, NEW v \in Text
  PROVE  Spaced(u, v) \in Text /\ Spaced(u, v) # <<>>
BY SpacedAfter, SpacedWords

LEMMA SpacedCloses ==
  ASSUME NEW u \in Text, NEW v \in Text, v # <<>>, Closes(v, Blanks)
  PROVE  Closes(Spaced(u, v), Blanks)
BY SpacedWords

LEMMA SpacedFirst ==
  ASSUME NEW u \in Text, NEW v \in Text, u # <<>>, LacksAll(u, Blanks)
  PROVE  Words(Spaced(u, v)) = One(u) ++ Words(v)
BY SpacedWords

LEMMA NotOne ==
  ASSUME NEW m, NEW c, Len(m) > 2
  PROVE  m # <<c>>
OBVIOUS

\* A text with blanks at its end only.
LEMMA TrimOf ==
  ASSUME NEW m \in Text, NEW b \in Text, Opens(m, Blanks), Closes(m, Blanks), AllIn(b, Blanks)
  PROVE  Trim(m ++ b) = m /\ Trim(m) = m
<1>1. <<>> \in Text /\ AllIn(<<>>, Blanks) /\ <<>> ++ m = m /\ m ++ <<>> = m
  BY EmptyText, AllInNothing, NoneJoined
<1>2. Trim((<<>> ++ m) ++ b) = m /\ Trim((<<>> ++ m) ++ <<>>) = m
  BY <1>1, TrimIs
<1>3. QED
  BY <1>1, <1>2

\* What follows the first word.
LEMMA SpacedRest ==
  ASSUME NEW c \in Token, NEW v \in Text, v # <<>>
  PROVE  LET m == Spaced(One(c), v)
         IN SubSeq(m, 3, Len(m)) = v /\ m[1] = c /\ IsPrefix(One(c) ++ One(" "), m) /\ Len(m) > 2
<1> DEFINE bar == One(" ")  a == One(c) ++ bar  m == a ++ v
<1>0. " " \in Token
  BY BlankTokens
<1>1. bar \in Text /\ Len(bar) = 1
  BY <1>0, OneText
<1>2. m = Spaced(One(c), v)
  BY DEF Spaced
<1> HIDE DEF bar
<1>3. One(c) \in Text /\ Len(One(c)) = 1 /\ One(c)[1] = c
  BY OneText
<1>4. a \in Text /\ Len(a) = 2
  <2>1. a \in Text /\ Len(a) = Len(One(c)) + Len(bar)
    BY <1>1, <1>3, TwoJoined
  <2>2. QED
    BY <1>1, <1>3, <2>1
<1>5. a[1] = c
  <2>1. 1 \in 1..Len(One(c))
    BY <1>3
  <2>2. (One(c) ++ bar)[1] = One(c)[1]
    BY <1>1, <1>3, <2>1, TokensOfBoth
  <2>3. QED
    BY <1>3, <2>2
<1> HIDE DEF a
<1>6. m \in Text /\ Len(m) = 2 + Len(v) /\ Len(v) \in Nat /\ Len(v) # 0
  BY <1>4, TwoJoined, LenText
<1>7. m[1] = c
  <2>1. 1 \in 1..Len(a)
    BY <1>4
  <2>2. (a ++ v)[1] = a[1]
    BY <1>4, <2>1, TokensOfBoth
  <2>3. QED
    BY <1>5, <2>2
<1>8. IsPrefix(a, m)
  <2>1. a # <<>>
    BY <1>4, EmptyText
  <2>2. QED
    BY <1>4, <2>1, PrefixOf
<1>9. SubSeq(m, 3, Len(m)) = v
  <2>1. SubSeq((a ++ v) ++ <<>>, Len(a) + 1, Len(a) + Len(v)) = v
    BY <1>4, EmptyText, CutMiddle
  <2>2. (a ++ v) ++ <<>> = m
    BY <1>6, NoneJoined
  <2> HIDE DEF m
  <2>3. Len(a) + 1 = 3 /\ Len(a) + Len(v) = Len(m)
    BY <1>4, <1>6
  <2>4. QED
    BY <2>1, <2>2, <2>3
<1>10. Len(m) > 2
  <2> HIDE DEF m
  <2>1. QED
    BY <1>6
<1>11. QED
  BY <1>2, <1>7, <1>8, <1>9, <1>10 DEF a, bar

-----------------------------------------------------------------------------
(***************************************************************************)
(* Join, and lines.                                                         *)
(***************************************************************************)
\* Joined goes through the list text by text.
JoinedSteps(texts, separator, made) ==
  /\ \A i \in 0..Len(texts) : made[i] \in Text
  /\ made[0] = <<>>
  /\ \A i \in 1..Len(texts) : made[i] = NextJoined(made[i - 1], texts[i], separator)
  /\ Joined(texts, separator) = made[Len(texts)]

LEMMA JoinedIsMade ==
  ASSUME NEW texts \in Seq(Text), NEW separator \in Text
  PROVE  \E made : JoinedSteps(texts, separator, made)
<1> DEFINE len == Len(texts)
           Made(g) == g = [i \in 0..len |-> IF i = 0 THEN <<>> ELSE NextJoined(g[i - 1], texts[i], separator)]
           made == CHOOSE g : Made(g)
           step == [i \in 1..len |-> [p \in Text |-> NextJoined(p, texts[i], separator)]]
<1>1. len \in Nat /\ \A i \in 1..len : texts[i] \in Text
  BY LenProperties, ElementOfSeq
<1>2. <<>> \in Text
  BY EmptyText
<1>3. \A i \in 1..len : \A p \in Text : NextJoined(p, texts[i], separator) \in Text
  <2> SUFFICES ASSUME NEW i \in 1..len, NEW p \in Text PROVE NextJoined(p, texts[i], separator) \in Text
    OBVIOUS
  <2>1. (p ++ separator) ++ texts[i] \in Text
    BY <1>1, TwoJoined
  <2>2. QED
    BY <1>1, <2>1 DEF NextJoined, ++
<1>4. step \in [1..len -> [Text -> Text]]
  BY <1>3
<1>5. PICK g : Iterated(Text, <<>>, len, step, g)
  <2> HIDE DEF step, len
  <2>1. QED
    BY <1>1, <1>2, <1>4, StepsTaken
<1>6. g \in [0..len -> Text] /\ g[0] = <<>> /\ \A i \in 1..len : g[i] = step[i][g[i - 1]]
  BY <1>5 DEF Iterated
<1>7. ASSUME NEW i \in 1..len PROVE g[i] = NextJoined(g[i - 1], texts[i], separator)
  <2>1. i - 1 \in 0..len
    BY <1>1
  <2>2. g[i - 1] \in Text /\ g[i] = step[i][g[i - 1]]
    BY <1>6, <2>1
  <2>3. \A p \in Text : step[i][p] = NextJoined(p, texts[i], separator)
    OBVIOUS
  <2> HIDE DEF step, len
  <2>4. QED
    BY <2>2, <2>3
<1>8. \A i \in 0..len : i = 0 \/ i \in 1..len
  BY <1>1
<1>9. Made(g)
  <2> HIDE DEF step, len
  <2>1. g \in [0..len -> Text]
    BY <1>6
  <2>2. \A i \in 0..len : g[i] = IF i = 0 THEN <<>> ELSE NextJoined(g[i - 1], texts[i], separator)
    BY <1>6, <1>7, <1>8
  <2>3. QED
    BY <2>1, <2>2
<1>10. Joined(texts, separator) = made[len]
  BY DEF Joined
<1>11. Made(made)
  <2> HIDE DEF Made
  <2>1. QED
    BY <1>9
<1> HIDE DEF made
<1>12. /\ made[0] = <<>>
       /\ \A i \in 1..len : made[i] = NextJoined(made[i - 1], texts[i], separator)
  <2>1. 0 \in 0..len /\ \A i \in 1..len : i \in 0..len /\ i # 0
    BY <1>1
  <2> HIDE DEF len
  <2>2. QED
    BY <1>11, <2>1
<1> HIDE DEF Made
<1>13. \A i \in 0..len : made[i] \in Text
  <2> DEFINE T == {i \in 0..len : made[i] \in Text}
  <2>1. 0 \in T
    <3>1. made[0] \in Text /\ 0 \in 0..len
      BY <1>1, <1>2, <1>12
    <3>2. QED
      BY <3>1
  <2>2. ASSUME NEW i \in 1..len, i - 1 \in T PROVE i \in T
    <3>1. made[i - 1] \in Text /\ i \in 0..len
      BY <1>1, <2>2
    <3>2. NextJoined(made[i - 1], texts[i], separator) \in Text
      BY <1>3, <3>1
    <3>3. QED
      BY <1>12, <3>1, <3>2
  <2>3. 0..len \subseteq T
    <3> HIDE DEF T, len
    <3>1. QED
      BY <1>1, <2>1, <2>2, Induction
  <2>4. QED
    BY <2>3
<1>14. QED
  BY <1>10, <1>12, <1>13 DEF JoinedSteps

LEMMA JoinedType ==
  ASSUME NEW texts \in Seq(Text), NEW separator \in Text
  PROVE  Joined(texts, separator) \in Text
<1>1. PICK made : JoinedSteps(texts, separator, made)
  BY JoinedIsMade
<1>2. Len(texts) \in 0..Len(texts)
  BY LenProperties
<1>3. QED
  BY <1>1, <1>2 DEF JoinedSteps

\* The lines of a text that ends with a newline.
LEMMA LinesNothing == LinesOf(<<>>) = <<>>
<1> DEFINE e == <<>>  l == One(e)
<1>1. Split(<<>>, {Newline}) = l
  BY EmptyText, SplitNone DEF LacksAll
<1>2. e \in Text /\ l \in Seq(Text) /\ Len(l) = 1 /\ l[1] = e /\ NotEmpty(<<>>) = <<>>
  BY EmptyText, EmptySeq, ListOne, NotEmptyNothing
<1>3. NotEmpty(l) = <<>>
  <2>1. <<>> \in Seq(Text) /\ <<>> ++ l = l
    BY <1>2, EmptySeq, ConcatEmptySeq DEF ++
  <2>2. NotEmpty(<<>> ++ l) = NotEmpty(<<>>)
    BY <1>2, <2>1, NotEmptyLast
  <2>3. QED
    BY <1>2, <2>1, <2>2
<1> HIDE DEF l, e
<1>4. <<Last(l)>> = l
  BY <1>2 DEF Last, l, One
<1>5. [i \in 1..(Len(l) - 1) |-> Chomped(l[i])] = <<>>
  <2>1. 1..(Len(l) - 1) = {}
    BY <1>2
  <2>2. QED
    BY <2>1
<1>6. Terminated(l) = <<>> \o <<>>
  BY <1>3, <1>4, <1>5 DEF Terminated
<1>7. QED
  BY <1>1, <1>6 DEF LinesOf

\* Each part but the last is a line.
LEMMA LinesTerminated ==
  ASSUME NEW u \in Text, \A k \in 1..Len(Split(u, {Newline})) :
           Chomped(Split(u, {Newline})[k]) = Split(u, {Newline})[k]
  PROVE  LinesOf(u ++ One(Newline)) = Split(u, {Newline})
<1> DEFINE l == Split(u, {Newline})  e == <<>>  parts == l ++ One(e)
<1>1. l \in Seq(Text) /\ e \in Text /\ Newline \in Token /\ Len(l) \in Nat
  BY SplitText, EmptyText, BlankTokens, LenProperties
<1>2. Split((u ++ One(Newline)) ++ e, {Newline}) = parts
  <2>1. Split(e, {Newline}) = One(e)
    BY <1>1, SplitNone DEF LacksAll
  <2>2. Split((u ++ One(Newline)) ++ e, {Newline}) = l ++ Split(e, {Newline})
    BY <1>1, SplitAll
  <2>3. QED
    BY <2>1, <2>2
<1>3. (u ++ One(Newline)) ++ e = u ++ One(Newline)
  <2>1. u ++ One(Newline) \in Text
    BY <1>1, OneText, TwoJoined
  <2>2. QED
    BY <2>1, NoneJoined
<1>4. \A k \in 1..Len(l) : Chomped(l[k]) = l[k]
  OBVIOUS
<1> HIDE DEF l
<1>5. /\ Len(parts) = Len(l) + 1 /\ parts[Len(l) + 1] = e
      /\ \A k \in 1..Len(l) : parts[k] = l[k]
  BY <1>1, ListOne
<1>6. NotEmpty(One(e)) = <<>>
  <2>1. One(e) \in Seq(Text) /\ <<>> \in Seq(Text) /\ <<>> ++ One(e) = One(e)
    BY <1>1, ListOne, EmptySeq, ConcatEmptySeq DEF ++
  <2>2. NotEmpty(<<>> ++ One(e)) = NotEmpty(<<>>)
    BY <1>1, <2>1, NotEmptyLast
  <2>3. QED
    BY <2>1, <2>2, NotEmptyNothing
<1> HIDE DEF parts, e
<1>7. [k \in 1..(Len(parts) - 1) |-> Chomped(parts[k])] = l
  <2>1. Len(parts) - 1 = Len(l)
    BY <1>1, <1>5
  <2>2. l = [k \in 1..Len(l) |-> l[k]]
    BY <1>1, LenProperties
  <2>3. [k \in 1..Len(l) |-> Chomped(parts[k])] = [k \in 1..Len(l) |-> l[k]]
    BY <1>4, <1>5
  <2>4. QED
    BY <2>1, <2>2, <2>3
<1>8. <<Last(parts)>> = One(e)
  BY <1>5 DEF Last, One
<1>9. Terminated(parts) = l \o <<>>
  BY <1>6, <1>7, <1>8 DEF Terminated
<1>10. l \o <<>> = l
  BY <1>1, ConcatEmptySeq
<1>11. QED
  BY <1>2, <1>3, <1>9, <1>10 DEF LinesOf, l

LEMMA FiveJoined ==
  ASSUME NEW a \in Text, NEW b \in Text, NEW c \in Text, NEW d \in Text, NEW e \in Text
  PROVE  (a ++ (b ++ (c ++ d))) ++ e = a ++ (b ++ (c ++ (d ++ e)))
<1> DEFINE cd == c ++ d  bcd == b ++ cd
<1>1. cd \in Text /\ cd ++ e = c ++ (d ++ e)
  BY TwoJoined, ThreeJoined
<1> HIDE DEF cd
<1>2. bcd \in Text /\ bcd ++ e = b ++ (cd ++ e)
  BY <1>1, TwoJoined, ThreeJoined
<1> HIDE DEF bcd
<1>3. (a ++ bcd) ++ e = a ++ (bcd ++ e)
  BY <1>2, ThreeJoined
<1>4. QED
  BY <1>1, <1>2, <1>3 DEF bcd, cd

\* A space between two texts is neither newline nor carriage return.
LEMMA SpacedLacks ==
  ASSUME NEW u \in Text, NEW v \in Text, NEW c \in Token, c = Newline \/ c = "cr", Lacks(u, c), Lacks(v, c)
  PROVE  Lacks(Spaced(u, v), c)
<1> DEFINE s == One(" ")
<1>1. s \in Text /\ Lacks(s, c)
  <2>1. " " \in Token /\ c # " "
    BY BlankTokens, Zenon DEF Newline
  <2>2. QED
    BY <2>1, OneText, LacksOne
<1>2. Spaced(u, v) = (u ++ s) ++ v
  BY DEF Spaced
<1> HIDE DEF s
<1>3. u ++ s \in Text /\ Lacks(u ++ s, c)
  BY <1>1, TwoJoined, LacksBoth
<1>4. QED
  BY <1>2, <1>3, LacksBoth

\* A list of words begins with its first.
LEMMA WordBefore ==
  ASSUME NEW S, NEW a \in S, NEW w \in Seq(S)
  PROVE  One(a) ++ w \in Seq(S) /\ Len(One(a) ++ w) = 1 + Len(w) /\ (One(a) ++ w)[1] = a
<1> DEFINE o == One(a)
<1>1. o \in Seq(S) /\ Len(o) = 1 /\ o[1] = a
  BY SingleType DEF One
<1> HIDE DEF o
<1>2. /\ o \o w \in Seq(S) /\ Len(o \o w) = Len(o) + Len(w)
      /\ \A i \in 1..Len(o) : (o \o w)[i] = o[i]
  <2>1. Len(o) \in Nat /\ Len(w) \in Nat
    BY <1>1, LenProperties
  <2>2. QED
    BY <1>1, <2>1, ConcatProperties
<1>3. 1 \in 1..Len(o)
  BY <1>1
<1>4. QED
  BY <1>1, <1>2, <1>3 DEF o, ++

LEMMA FourWords ==
  ASSUME NEW a \in Text, NEW b \in Text, NEW c \in Text, NEW d \in Text, NEW w \in Seq(Text)
  PROVE  /\ One(a) ++ (One(b) ++ (One(c) ++ (One(d) ++ w))) \in Seq(Text)
         /\ Len(One(a) ++ (One(b) ++ (One(c) ++ (One(d) ++ w)))) = 4 + Len(w)
<1> DEFINE w1 == One(d) ++ w  w2 == One(c) ++ w1  w3 == One(b) ++ w2  w4 == One(a) ++ w3
<1>1. w1 \in Seq(Text) /\ Len(w1) = 1 + Len(w) /\ Len(w) \in Nat
  BY WordBefore, LenProperties
<1> HIDE DEF w1
<1>2. w2 \in Seq(Text) /\ Len(w2) = 1 + Len(w1)
  BY <1>1, WordBefore
<1> HIDE DEF w2
<1>3. w3 \in Seq(Text) /\ Len(w3) = 1 + Len(w2)
  BY <1>2, WordBefore
<1> HIDE DEF w3
<1>4. w4 \in Seq(Text) /\ Len(w4) = 1 + Len(w3)
  BY <1>3, WordBefore
<1> HIDE DEF w4
<1>5. Len(w4) = 4 + Len(w)
  BY <1>1, <1>2, <1>3, <1>4
<1>6. QED
  BY <1>4, <1>5 DEF w4, w3, w2, w1

LEMMA FirstWord ==
  ASSUME NEW a \in Text, NEW b \in Text, NEW c \in Text, NEW d \in Text, NEW w \in Seq(Text)
  PROVE  (One(a) ++ (One(b) ++ (One(c) ++ (One(d) ++ w))))[1] = a
<1> DEFINE w1 == One(d) ++ w  w2 == One(c) ++ w1  w3 == One(b) ++ w2
<1>1. w1 \in Seq(Text)
  BY WordBefore
<1> HIDE DEF w1
<1>2. w2 \in Seq(Text)
  BY <1>1, WordBefore
<1> HIDE DEF w2
<1>3. w3 \in Seq(Text)
  BY <1>2, WordBefore
<1> HIDE DEF w3
<1>4. (One(a) ++ w3)[1] = a
  BY <1>3, WordBefore
<1>5. QED
  BY <1>4 DEF w3, w2, w1
=============================================================================
