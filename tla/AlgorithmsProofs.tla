---------------------------- MODULE AlgorithmsProofs ----------------------------
(***************************************************************************)
(* Theorems about Algorithms: the path that is shown, for any report; the   *)
(* clocks of the encoders, for any size of packets, buffers and frames;     *)
(* what is encoded arrives, for texts of any length; and the ids of sources  *)
(* lead back to them, for listings of any length.                            *)
(***************************************************************************)
EXTENDS Algorithms, SequenceLemmas

-----------------------------------------------------------------------------
(***************************************************************************)
(* Statistics.                                                              *)
(***************************************************************************)
\* The entries of a kind are those of the report that are of that kind.
LEMMA KindsKept ==
  ASSUME NEW S, NEW report \in Seq(S), NEW kind
  PROVE  LET left == Ice!OfKind(report, kind) IN
         /\ left \in Seq(S)
         /\ \A k \in 1..Len(left) :
              \E j \in 1..Len(report) : report[j].kind = kind /\ left[k] = report[j]
         /\ \A j \in 1..Len(report) :
              report[j].kind = kind => \E k \in 1..Len(left) : left[k] = report[j]
<1> DEFINE indices == {i \in 1..Len(report) : report[i].kind = kind}
<1>1. Ice!OfKind(report, kind) = Retain(report, indices)
  BY DEF Ice!OfKind, Ice!Retain, Retain
<1>2. \A j \in indices : j \in 1..Len(report) /\ report[j].kind = kind
  OBVIOUS
<1>3. \A j \in 1..Len(report) : report[j].kind = kind => j \in indices
  OBVIOUS
<1> HIDE DEF indices
<1>4. QED
  BY <1>1, <1>2, <1>3, RetainType, RetainKeeps

\* A pair as the statistics give it.
Pairs(Names) ==
  [kind : {"pair"}, local : Names, remote : Names, nominated : BOOLEAN, succeeded : BOOLEAN,
   traffic : Nat]

\* Scores are a linear order, up to pairs of the same score.
LEMMA ScoresOrder ==
  ASSUME NEW Names, NEW p \in Pairs(Names), NEW q \in Pairs(Names), NEW r \in Pairs(Names)
  PROVE  /\ ~Ice!ScoresHigher(p, p)
         /\ Ice!ScoresHigher(p, q) => ~Ice!ScoresHigher(q, p)
         /\ ~Ice!ScoresHigher(p, q) /\ ~Ice!ScoresHigher(q, r) => ~Ice!ScoresHigher(p, r)
<1>1. \A x \in Pairs(Names) : Ice!Rank(x) \in 0..2 /\ x.traffic \in Nat
  <2> TAKE x \in Pairs(Names)
  <2>1. x.succeeded \in BOOLEAN /\ x.nominated \in BOOLEAN /\ x.traffic \in Nat
    BY DEF Pairs
  <2>2. QED
    BY <2>1 DEF Ice!Rank
<1>2. QED
  BY <1>1 DEF Ice!ScoresHigher

\* The pair that is active is one of the report's, if it has any, and none
\* scores higher.
LEMMA BestIsActive ==
  ASSUME NEW Names, NEW pairs \in Seq(Pairs(Names)), NEW report,
         Ice!OfKind(report, "pair") = pairs
  PROVE  LET active == Ice!ActivePair(report) IN
         /\ pairs = <<>> => active = None
         /\ pairs # <<>> => /\ \E k \in 1..Len(pairs) : active = pairs[k]
                            /\ \A k \in 1..Len(pairs) : ~Ice!ScoresHigher(pairs[k], active)
<1> DEFINE n == Len(pairs)
           S == Pairs(Names) \cup {None}
           Pick(i, t) == IF i > 1 /\ Ice!ScoresHigher(t, pairs[i]) THEN t ELSE pairs[i]
           Chosen(g) == g = [i \in 0..n |-> IF i = 0 THEN None
                                            ELSE IF i > 1 /\ Ice!ScoresHigher(g[i - 1], pairs[i])
                                                 THEN g[i - 1] ELSE pairs[i]]
           best == CHOOSE g : Chosen(g)
           step == [i \in 1..n |-> [t \in S |-> Pick(i, t)]]
<1>1. n \in Nat /\ (n = 0 <=> pairs = <<>>) /\ \A i \in 1..n : pairs[i] \in Pairs(Names)
  BY LenProperties, ElementOfSeq, EmptySeq
<1>2. \E g : Chosen(g)
  <2>1. step \in [1..n -> [S -> S]] /\ None \in S
    BY <1>1
  <2>2. PICK g \in [0..n -> S] : g[0] = None /\ \A i \in 1..n : g[i] = step[i][g[i - 1]]
    <3>1. n \in Nat
      BY <1>1
    <3> HIDE DEF step, n, S
    <3>2. \E g : Iterated(S, None, n, step, g)
      BY <2>1, <3>1, StepsTaken
    <3>3. QED
      BY <3>2 DEF Iterated
  <2>3. ASSUME NEW i \in 1..n PROVE g[i] = Pick(i, g[i - 1])
    <3>1. i - 1 \in 0..n
      BY <1>1
    <3>2. g[i - 1] \in S /\ g[i] = step[i][g[i - 1]]
      BY <2>2, <3>1
    <3>3. \A t \in S : step[i][t] = Pick(i, t)
      OBVIOUS
    <3> HIDE DEF step, Pick, n, S
    <3>4. QED
      BY <3>2, <3>3
  <2>4. \A i \in 0..n : i = 0 \/ i \in 1..n
    BY <1>1
  <2>5. Chosen(g)
    <3> HIDE DEF step, n, S
    <3>1. g \in [0..n -> S]
      BY <2>2
    <3>2. \A i \in 0..n : g[i] = IF i = 0 THEN None ELSE Pick(i, g[i - 1])
      BY <2>2, <2>3, <2>4
    <3>3. QED
      BY <3>1, <3>2
  <2>6. QED
    BY <2>5
<1>3. Chosen(best)
  BY <1>2
<1>4. best[0] = None /\ \A i \in 1..n : best[i] = Pick(i, best[i - 1])
  <2>1. 0 \in 0..n /\ \A i \in 1..n : i \in 0..n /\ i # 0
    BY <1>1
  <2> HIDE DEF best, n
  <2>2. QED
    BY <1>3, <2>1
<1>5. Ice!ActivePair(report) = best[n]
  BY DEF Ice!ActivePair
<1> HIDE DEF Chosen, best
<1> DEFINE Best(i) == i # 0 => /\ \E k \in 1..i : best[i] = pairs[k]
                               /\ \A k \in 1..i : ~Ice!ScoresHigher(pairs[k], best[i])
           reached == {i \in 0..n : Best(i)}
<1>6. Best(0)
  OBVIOUS
<1>7. ASSUME NEW i \in 1..n, Best(i - 1) PROVE Best(i)
  <2>1. /\ pairs[i] \in Pairs(Names)
        /\ \A k \in 1..i : k = i \/ (k \in 1..(i - 1) /\ k \in 1..n)
        /\ i \in 1..i /\ \A k \in 1..(i - 1) : k \in 1..i /\ k \in 1..n
    BY <1>1
  <2>2. CASE i = 1
    <3>1. best[i] = pairs[i]
      BY <1>4, <2>2
    <3>2. \A k \in 1..i : k = i
      BY <2>2
    <3>3. ~Ice!ScoresHigher(pairs[i], pairs[i])
      BY <2>1, ScoresOrder
    <3>4. QED
      BY <2>1, <3>1, <3>2, <3>3
  <2>3. CASE i # 1
    <3> DEFINE old == best[i - 1]
    <3>1. PICK m \in 1..(i - 1) : old = pairs[m]
      BY <1>7, <2>3
    <3>2. old \in Pairs(Names)
      BY <1>1, <2>1, <3>1
    <3>3. \A k \in 1..(i - 1) : ~Ice!ScoresHigher(pairs[k], old)
      BY <1>7, <2>3
    <3>4. i > 1
      BY <2>3
    <3>5. CASE Ice!ScoresHigher(old, pairs[i])
      <4>1. best[i] = old
        BY <1>4, <3>4, <3>5
      <4>2. ~Ice!ScoresHigher(pairs[i], old)
        BY <2>1, <3>2, <3>5, ScoresOrder
      <4> HIDE DEF old
      <4>3. QED
        BY <2>1, <3>1, <3>3, <4>1, <4>2
    <3>6. CASE ~Ice!ScoresHigher(old, pairs[i])
      <4>1. best[i] = pairs[i]
        BY <1>4, <3>4, <3>6
      <4>2. \A k \in 1..(i - 1) : ~Ice!ScoresHigher(pairs[k], pairs[i])
        <5> HIDE DEF old
        <5>1. QED
          BY <1>1, <2>1, <3>2, <3>3, <3>6, ScoresOrder
      <4>3. ~Ice!ScoresHigher(pairs[i], pairs[i])
        BY <2>1, ScoresOrder
      <4>4. QED
        BY <2>1, <4>1, <4>2, <4>3
    <3>7. QED
      BY <3>5, <3>6
  <2>4. QED
    BY <2>2, <2>3
<1>8. 0..n \subseteq reached
  <2>1. 0 \in 0..n /\ \A i \in 1..n : i \in 0..n
    BY <1>1
  <2> HIDE DEF Best, n
  <2>2. 0 \in reached /\ \A i \in 1..n : i - 1 \in reached => i \in reached
    BY <1>6, <1>7, <2>1
  <2> HIDE DEF reached
  <2>3. QED
    BY <1>1, <2>2, Induction
<1>9. Best(n)
  BY <1>1, <1>8
<1>10. QED
  BY <1>1, <1>4, <1>5, <1>9

\* A sum of natural numbers is one.
LEMMA SumsAreNatural ==
  ASSUME NEW numbers \in Seq(Nat)
  PROVE  Ice!Sum(numbers) \in Nat
<1> DEFINE n == Len(numbers)
           Summed(g) == g = [i \in 0..n |-> IF i = 0 THEN 0 ELSE g[i - 1] + numbers[i]]
           sum == CHOOSE g : Summed(g)
           step == [i \in 1..n |-> [t \in Nat |-> t + numbers[i]]]
<1>1. n \in Nat /\ \A i \in 1..n : numbers[i] \in Nat
  BY LenProperties, ElementOfSeq
<1>2. \E g : Summed(g)
  <2>1. step \in [1..n -> [Nat -> Nat]] /\ 0 \in Nat
    BY <1>1
  <2>2. PICK g : Iterated(Nat, 0, n, step, g)
    <3> HIDE DEF step, n
    <3>1. QED
      BY <1>1, <2>1, StepsTaken
  <2>3. g \in [0..n -> Nat] /\ g[0] = 0 /\ \A i \in 1..n : g[i] = step[i][g[i - 1]]
    BY <2>2 DEF Iterated
  <2>4. ASSUME NEW i \in 1..n PROVE g[i] = g[i - 1] + numbers[i]
    <3>1. i - 1 \in 0..n
      BY <1>1
    <3>2. g[i - 1] \in Nat /\ g[i] = step[i][g[i - 1]]
      BY <2>3, <3>1
    <3>3. \A t \in Nat : step[i][t] = t + numbers[i]
      OBVIOUS
    <3> HIDE DEF step, n
    <3>4. QED
      BY <3>2, <3>3
  <2>5. \A i \in 0..n : i = 0 \/ i \in 1..n
    BY <1>1
  <2>6. Summed(g)
    <3> HIDE DEF step, n
    <3>1. \A i \in 0..n : g[i] = IF i = 0 THEN 0 ELSE g[i - 1] + numbers[i]
      BY <2>3, <2>4, <2>5
    <3>2. QED
      BY <2>3, <3>1
  <2>7. QED
    BY <2>6
<1>3. Summed(sum)
  BY <1>2
<1>4. sum[0] = 0 /\ \A i \in 1..n : sum[i] = sum[i - 1] + numbers[i]
  <2>1. 0 \in 0..n /\ \A i \in 1..n : i \in 0..n /\ i # 0
    BY <1>1
  <2> HIDE DEF sum, n
  <2>2. QED
    BY <1>3, <2>1
<1>5. Ice!Sum(numbers) = sum[n]
  BY DEF Ice!Sum
<1> HIDE DEF Summed, sum
<1> DEFINE reached == {i \in 0..n : sum[i] \in Nat}
<1>6. 0..n \subseteq reached
  <2> HIDE DEF n
  <2>1. ASSUME NEW i \in 1..n, i - 1 \in reached PROVE i \in reached
    <3>1. i \in 0..n /\ sum[i] = sum[i - 1] + numbers[i] /\ numbers[i] \in Nat
      BY <1>1, <1>4, <2>1
    <3>2. QED
      BY <2>1, <3>1
  <2>2. 0 \in reached
    BY <1>1, <1>4
  <2> HIDE DEF reached
  <2>3. QED
    BY <1>1, <2>1, <2>2, Induction
<1>7. n \in reached
  BY <1>1, <1>6
<1>8. QED
  BY <1>5, <1>7

\* Whatever the report: the path that ICE has nominated is the one shown, a path
\* is direct only between two candidates that are no relays, and no more packets
\* are lost than were sent (summarize_ice_path and summarize_packet_loss).
THEOREM AnyReportShowsPath ==
  ASSUME NEW Candidates, NEW Types, NEW report \in Seq(Ice!Entries(Candidates, Types))
  PROVE  ShowsNominatedPath(report)
<1> DEFINE n == Len(report)
           S == Ice!Entries(Candidates, Types)
           pairs == Ice!OfKind(report, "pair")
           known == {report[i] : i \in 1..n}
           active == Ice!ActivePair(report)
<1>1. n \in Nat /\ \A i \in 1..n : report[i] \in S
  BY LenProperties, ElementOfSeq
<1>2. /\ pairs \in Seq(S)
      /\ \A k \in 1..Len(pairs) : \E j \in 1..n : report[j].kind = "pair" /\ pairs[k] = report[j]
      /\ \A j \in 1..n : report[j].kind = "pair" => \E k \in 1..Len(pairs) : pairs[k] = report[j]
  <2>1. report \in Seq(S)
    OBVIOUS
  <2> HIDE DEF S
  <2>2. QED
    BY <2>1, KindsKept, SMTT(60)
<1>3. \A e \in S : e.kind = "pair" => e \in Pairs(Candidates)
  BY DEF Ice!Entries, Pairs
<1>4. pairs \in Seq(Pairs(Candidates))
  <2>1. Len(pairs) \in Nat /\ pairs = [k \in 1..Len(pairs) |-> pairs[k]]
    BY <1>2, LenProperties
  <2>2. \A k \in 1..Len(pairs) : pairs[k] \in Pairs(Candidates)
    <3> HIDE DEF n, S, pairs
    <3>1. QED
      BY <1>1, <1>2, <1>3
  <2> HIDE DEF pairs
  <2>3. QED
    BY <2>1, <2>2
<1>5. /\ pairs = <<>> => active = None
      /\ pairs # <<>> =>
           /\ \E j \in 1..n : report[j].kind = "pair" /\ active = report[j]
           /\ \A j \in 1..n : report[j].kind = "pair" => ~Ice!ScoresHigher(report[j], active)
  <2>1. /\ pairs = <<>> => active = None
        /\ pairs # <<>> => /\ \E k \in 1..Len(pairs) : active = pairs[k]
                           /\ \A k \in 1..Len(pairs) : ~Ice!ScoresHigher(pairs[k], active)
    BY <1>4, BestIsActive
  <2> HIDE DEF n, pairs, active
  <2>2. QED
    BY <1>2, <2>1
<1>6. ASSUME NEW j \in 1..n, report[j].kind = "pair"
      PROVE  /\ active \in known /\ active.kind = "pair"
             /\ report[j].succeeded => active.succeeded
             /\ report[j].succeeded /\ report[j].nominated => active.nominated
  <2>1. pairs # <<>>
    <3>1. PICK k \in 1..Len(pairs) : pairs[k] = report[j]
      BY <1>2, <1>6
    <3>2. Len(<<>>) = 0
      BY EmptySeq
    <3> HIDE DEF pairs
    <3>3. QED
      BY <3>1, <3>2
  <2>2. PICK m \in 1..n : report[m].kind = "pair" /\ active = report[m]
    BY <1>5, <2>1
  <2>3. active \in Pairs(Candidates) /\ report[j] \in Pairs(Candidates)
    <3> HIDE DEF n, S, active
    <3>1. QED
      BY <1>1, <1>3, <1>6, <2>2
  <2>4. ~Ice!ScoresHigher(report[j], active)
    BY <1>5, <1>6, <2>1
  <2>5. /\ active.succeeded \in BOOLEAN /\ active.nominated \in BOOLEAN
        /\ report[j].succeeded \in BOOLEAN /\ report[j].nominated \in BOOLEAN
        /\ active.traffic \in Nat /\ report[j].traffic \in Nat
    BY <2>3 DEF Pairs
  <2>6. ~(Ice!Rank(report[j]) > Ice!Rank(active))
    BY <2>4 DEF Ice!ScoresHigher
  <2> HIDE DEF active
  <2>7. /\ report[j].succeeded => active.succeeded
        /\ report[j].succeeded /\ report[j].nominated => active.nominated
    BY <2>5, <2>6 DEF Ice!Rank
  <2>8. active \in known
    BY <2>2
  <2>9. QED
    BY <2>2, <2>7, <2>8
<1>7. ASSUME Ice!Path(report) = "direct"
      PROVE  /\ \E c \in known : c.kind = "local" /\ c.id = active.local /\ c.type # "relay"
             /\ \E c \in known : c.kind = "remote" /\ c.id = active.remote /\ c.type # "relay"
  <2> DEFINE Known(kind, id) == {c \in known : c.kind = kind /\ c.id = id}
             local == Known("local", active.local)
             remote == Known("remote", active.remote)
  <2>1. Ice!Path(report) = IF active = None THEN "unknown" ELSE Ice!PathKind(local, remote)
    BY DEF Ice!Path
  <2>2. Ice!PathKind(local, remote) = "direct"
    <3> HIDE DEF active, local, remote
    <3>1. QED
      BY <1>7, <2>1
  <2>3. local # {} /\ remote # {} /\ \A c \in local \cup remote : c.type # "relay"
    <3> HIDE DEF local, remote
    <3>1. QED
      BY <2>2 DEF Ice!PathKind
  <2> HIDE DEF known, active
  <2>4. QED
    BY <2>3
<1>8. LET loss == Ice!Metrics(report).loss IN 0 <= loss.lost /\ loss.lost <= loss.total
  <2> DEFINE inbound == Ice!OfKind(report, "inbound")
             lost == [i \in 1..Len(inbound) |-> Ice!Max({inbound[i].lost, 0})]
             received == [i \in 1..Len(inbound) |-> inbound[i].received]
  <2>1. /\ inbound \in Seq(S)
        /\ \A k \in 1..Len(inbound) :
             \E j \in 1..n : report[j].kind = "inbound" /\ inbound[k] = report[j]
    <3> HIDE DEF known, pairs, active, lost, received, S
    <3>1. report \in Seq(S)
      BY DEF S
    <3>2. QED
      BY <3>1, KindsKept
  <2>2. \A k \in 1..Len(inbound) : inbound[k].lost \in Int /\ inbound[k].received \in Nat
    <3>1. \A e \in S : e.kind = "inbound" => e.lost \in Int /\ e.received \in Nat
      BY DEF Ice!Entries
    <3> HIDE DEF inbound, S, n
    <3>2. QED
      BY <1>1, <2>1, <3>1
  <2>3. ASSUME NEW x \in Int PROVE Ice!Max({x, 0}) \in Nat
    <3>1. \E y \in {x, 0} : \A z \in {x, 0} : y >= z
      <4>1. x >= 0 \/ 0 >= x
        OBVIOUS
      <4>2. QED
        BY <4>1
    <3>2. Ice!Max({x, 0}) \in {x, 0} /\ \A z \in {x, 0} : Ice!Max({x, 0}) >= z
      BY <3>1 DEF Ice!Max
    <3>3. QED
      BY <3>2
  <2> HIDE DEF inbound
  <2>4. Len(inbound) \in Nat
    BY <2>1, LenProperties
  <2>5. lost \in Seq(Nat) /\ received \in Seq(Nat)
    <3>1. \A i \in 1..Len(inbound) : Ice!Max({inbound[i].lost, 0}) \in Nat
      BY <2>2, <2>3
    <3>2. \A f : (\A i \in 1..Len(inbound) : f[i] \in Nat) /\ f = [i \in 1..Len(inbound) |-> f[i]]
            => f \in Seq(Nat)
      BY <2>4
    <3>3. QED
      BY <2>2, <3>1, <3>2
  <2> HIDE DEF lost, received
  <2>6. Ice!Sum(lost) \in Nat /\ Ice!Sum(received) \in Nat
    BY <2>5, SumsAreNatural
  <2>7. Ice!Loss(report) = [lost |-> Ice!Sum(lost), total |-> Ice!Sum(lost) + Ice!Sum(received)]
    BY DEF Ice!Loss, inbound, lost, received
  <2>8. QED
    BY <2>6, <2>7 DEF Ice!Metrics
<1>9. QED
  <2> DEFINE chosen == {p \in {e \in known : e.kind = "pair"} : p.nominated /\ p.succeeded}
  <2>1. chosen # {} => active \in chosen
    <3> HIDE DEF active
    <3>1. QED
      BY <1>6
  <2>2. (\E p \in known : p.kind = "pair" /\ p.succeeded) =>
          active \in {e \in known : e.kind = "pair"} /\ active.succeeded
    <3> HIDE DEF active
    <3>1. QED
      BY <1>6
  <2> HIDE DEF active, known, n, S, pairs
  <2>3. QED
    BY <1>7, <1>8, <2>1, <2>2 DEF ShowsNominatedPath, active, known, n

-----------------------------------------------------------------------------
(***************************************************************************)
(* The audio encoder.                                                       *)
(***************************************************************************)
Buffer  == [first : Nat, at : Nat, frames : Nat \ {0}]
Sample  == [number : Nat, at : Nat]
Packet  == [stamp : Int, samples : Seq(Sample)]
Opus    == [pending : Seq(Sample), stamp : Int, expected : Int, gaps : Nat, packets : Seq(Packet)]

\* From a sample to the next the capture has not left a gap.
Steady(samples) ==
  \A i \in 2..Len(samples) :
    samples[i].at - samples[i - 1].at \in (1 - Tolerance)..(1 + Tolerance)

\* What EncodersKeepTime says of a packet whose stamp may be off by so much.
Sound(o, k, drift) ==
  LET samples == o.packets[k].samples
  IN /\ Len(samples) = PacketFrames
     /\ \A i \in 2..Len(samples) : samples[i].number = samples[i - 1].number + 1
     /\ Steady(samples)
     /\ o.packets[k].stamp - samples[1].at \in (-drift)..drift
     /\ samples[1].number > LastOf(o.packets, k - 1)
     /\ o.gaps = 0 => samples[1].number = LastOf(o.packets, k - 1) + 1

\* What is pending ends with the last of the samples that came so far, it is as
\* steady as a packet has to be, and it follows on what is in the packets.
Waiting(o, drift, count) ==
  LET pending == o.pending  before == count - Len(pending)
  IN /\ \A i \in 1..Len(pending) : /\ pending[i].number = before + i
                                   /\ o.stamp + (i - 1) - pending[i].at \in (-drift)..drift
     /\ Steady(pending)
     /\ before >= LastOf(o.packets, Len(o.packets))
     /\ o.gaps = 0 => before = LastOf(o.packets, Len(o.packets))
     /\ pending # <<>> => pending[Len(pending)].at = o.expected - 1

Kept(o, drift, count) ==
  /\ o \in Opus /\ Waiting(o, drift, count)
  /\ \A k \in 1..Len(o.packets) : Sound(o, k, drift)

AudioKept ==
  problem = "audio" =>
    /\ input \in Seq(Buffer)
    /\ opus.expected = IF input = <<>> THEN Encode!Never
                       ELSE Last(input).at + Last(input).frames
    /\ Len(opus.pending) < PacketFrames
    /\ Kept(opus, Tolerance * Len(input), Count)

\* The number of the last sample in the packets is one.
LEMMA LastIsNumber ==
  ASSUME NEW drift \in Nat, NEW count \in Nat, NEW o, Kept(o, drift, count)
  PROVE  LastOf(o.packets, Len(o.packets)) \in Int
<1> DEFINE n == Len(o.packets)
<1>1. o.packets \in Seq(Packet) /\ n \in Nat /\ PacketFrames \in Nat \ {0}
  BY AlgorithmsAssumption, LenProperties DEF Kept, Opus
<1>2. CASE n = 0
  BY <1>2 DEF LastOf
<1>3. CASE n # 0
  <2>1. n \in 1..n /\ o.packets[n] \in Packet /\ Sound(o, n, drift)
    BY <1>1, <1>3, ElementOfSeq DEF Kept
  <2>2. o.packets[n].samples \in Seq(Sample) /\ Len(o.packets[n].samples) = PacketFrames
    BY <2>1 DEF Sound, Packet
  <2>3. o.packets[n].samples[PacketFrames] \in Sample
    BY <1>1, <2>2, ElementOfSeq
  <2>4. QED
    BY <1>3, <2>3 DEF LastOf, Sample
<1>4. QED
  BY <1>2, <1>3

\* One more packet keeps what the encoder has.
LEMMA DrainedKeeps ==
  ASSUME NEW drift \in Nat, NEW count \in Nat, NEW o, Kept(o, drift, count)
  PROVE  LET d == Encode!Drained(o) IN
         /\ Kept(d, drift, count) /\ d.expected = o.expected
         /\ Len(d.pending) =
              IF Len(o.pending) < PacketFrames THEN Len(o.pending) ELSE Len(o.pending) - PacketFrames
<1> DEFINE d == Encode!Drained(o)
           P == PacketFrames
           l == Len(o.pending)
           n == Len(o.packets)
           before == count - l
           last == LastOf(o.packets, n)
<1>1. /\ o.pending \in Seq(Sample) /\ o.packets \in Seq(Packet) /\ l \in Nat /\ n \in Nat
      /\ o.stamp \in Int /\ o.expected \in Int /\ o.gaps \in Nat /\ P \in Nat \ {0} /\ o \in Opus
      /\ l = Len(o.pending) /\ n = Len(o.packets) /\ before \in Int /\ count - l = before
  BY AlgorithmsAssumption, LenProperties DEF Kept, Opus
<1>2. CASE l < P
  BY <1>2 DEF Encode!Drained
<1>3. CASE ~(l < P)
  <2> DEFINE samples == SubSeq(o.pending, 1, P)
             rest == SubSeq(o.pending, P + 1, l)
             packet == [stamp |-> o.stamp, samples |-> samples]
  <2>1. d = [o EXCEPT !.pending = rest, !.stamp = @ + P, !.packets = Append(@, packet)]
    BY <1>3 DEF Encode!Drained
  <2> HIDE DEF l, n, before
  <2>2. /\ samples \in Seq(Sample) /\ Len(samples) = P
        /\ \A i \in 1..P : samples[i] = o.pending[i]
    BY <1>1, <1>3, SubSeqProperties
  <2>3. /\ rest \in Seq(Sample) /\ Len(rest) = l - P
        /\ \A i \in 1..(l - P) : rest[i] = o.pending[P + i]
    <3>1. /\ P + 1 \in Int /\ l \in Int /\ \A i \in (P + 1)..l : i \in 1..l
          /\ l - (P + 1) + 1 = l - P /\ \A i \in 1..(l - P) : (P + 1) + i - 1 = P + i
          /\ P + 1 <= l \/ (l = P /\ l - P = 0)
      BY <1>1, <1>3
    <3>2. \A i \in (P + 1)..l : o.pending[i] \in Sample
      BY <1>1, <3>1, ElementOfSeq
    <3>3. QED
      BY <3>1, <3>2, SubSeqProperties
  <2> HIDE DEF samples, rest, d
  <2>4. packet \in Packet /\ packet.stamp = o.stamp /\ packet.samples = samples
    BY <1>1, <2>2 DEF Packet
  <2> HIDE DEF packet
  <2>5. /\ d.packets \in Seq(Packet) /\ Len(d.packets) = n + 1 /\ d.packets[n + 1] = packet
        /\ \A k \in 1..n : d.packets[k] = o.packets[k]
    <3>1. d.packets = Append(o.packets, packet)
      BY <1>1, <2>1 DEF Opus
    <3>2. QED
      BY <1>1, <2>4, <3>1, AppendProperties
  <2>6. /\ d.pending = rest /\ d.stamp = o.stamp + P /\ d.expected = o.expected
        /\ d.gaps = o.gaps /\ d \in Opus
    <3>1. Append(o.packets, packet) \in Seq(Packet)
      BY <1>1, <2>4, AppendProperties
    <3>2. rest \in Seq(Sample) /\ o.stamp + P \in Int
      BY <1>1, <2>3
    <3>3. QED
      BY <1>1, <2>1, <3>1, <3>2 DEF Opus
  <2>7. Waiting(o, drift, count) /\ \A k \in 1..n : Sound(o, k, drift)
    BY <1>1 DEF Kept
  <2>8. \A i \in 1..l : o.pending[i] \in Sample /\ o.pending[i].number \in Nat
                        /\ o.pending[i].at \in Nat
    <3>1. \A i \in 1..l : o.pending[i] \in Sample
      BY <1>1, ElementOfSeq
    <3>2. QED
      BY <3>1 DEF Sample
  <2>9. \A i \in 1..l : o.pending[i].number = before + i
    BY <1>1, <2>7 DEF Waiting
  <2>10. \A i \in 1..l : o.stamp + (i - 1) - o.pending[i].at \in (-drift)..drift
    BY <1>1, <2>7 DEF Waiting
  <2>11. \A i \in 2..l : o.pending[i].at - o.pending[i - 1].at \in (1 - Tolerance)..(1 + Tolerance)
    BY <1>1, <2>7 DEF Waiting, Steady
  <2>12. last \in Int /\ before >= last /\ (o.gaps = 0 => before = last)
    BY <1>1, <2>7, LastIsNumber DEF Waiting, n
  <2>13. l # 0 => o.pending[l].at = o.expected - 1
    <3>1. l # 0 => o.pending # <<>>
      BY <1>1, EmptySeq
    <3>2. QED
      BY <1>1, <2>7, <3>1 DEF Waiting
  <2>14. /\ \A k \in 0..n : LastOf(d.packets, k) = LastOf(o.packets, k)
         /\ LastOf(d.packets, n + 1) = before + P
    <3>1. \A k \in 0..n : LastOf(d.packets, k) = LastOf(o.packets, k)
      BY <1>1, <2>5 DEF LastOf
    <3>2. LastOf(d.packets, n + 1) = samples[P].number
      BY <1>1, <2>4, <2>5 DEF LastOf
    <3>3. P \in 1..P /\ P \in 1..l
      BY <1>1, <1>3
    <3>4. QED
      BY <2>2, <2>9, <3>1, <3>2, <3>3
  <2> HIDE DEF last
  <2>15. ASSUME NEW k \in 1..n PROVE Sound(d, k, drift)
    <3>1. Sound(o, k, drift) /\ k - 1 \in 0..n
      BY <1>1, <2>7
    <3>2. QED
      BY <2>5, <2>6, <2>14, <3>1 DEF Sound
  <2>16. Sound(d, n + 1, drift)
    <3>1. ASSUME NEW i \in 2..P
          PROVE  /\ samples[i].number = samples[i - 1].number + 1
                 /\ samples[i].at - samples[i - 1].at \in (1 - Tolerance)..(1 + Tolerance)
      <4>1. i \in 1..P /\ i - 1 \in 1..P /\ i \in 1..l /\ i - 1 \in 1..l /\ i \in 2..l
        BY <1>1, <1>3
      <4>2. samples[i] = o.pending[i] /\ samples[i - 1] = o.pending[i - 1]
        BY <2>2, <4>1
      <4>3. o.pending[i].number = before + i /\ o.pending[i - 1].number = before + (i - 1)
        BY <2>9, <4>1
      <4>4. before + i = (before + (i - 1)) + 1
        BY <1>1, <4>1
      <4>5. samples[i].number = samples[i - 1].number + 1
        BY <4>2, <4>3, <4>4
      <4>6. QED
        BY <2>11, <4>1, <4>2, <4>5
    <3>2. samples[1].number = before + 1 /\ o.stamp - samples[1].at \in (-drift)..drift
      <4>1. 1 \in 1..P /\ 1 \in 1..l /\ o.stamp + (1 - 1) = o.stamp
        BY <1>1, <1>3
      <4>2. samples[1] = o.pending[1] /\ o.pending[1].number = before + 1
        BY <2>2, <2>9, <4>1
      <4>3. o.stamp + (1 - 1) - o.pending[1].at \in (-drift)..drift /\ o.pending[1].at \in Nat
        BY <2>8, <2>10, <4>1
      <4>4. o.stamp - o.pending[1].at \in (-drift)..drift
        <5>1. o.stamp \in Int
          BY <1>1
        <5>2. QED
          BY <4>3, <5>1
      <4>5. QED
        BY <4>2, <4>4
    <3>3. LastOf(d.packets, (n + 1) - 1) = last
      BY <1>1, <2>14 DEF last
    <3>4. /\ samples[1].number > last
          /\ o.gaps = 0 => samples[1].number = last + 1
      BY <1>1, <2>12, <3>2
    <3>5. Steady(samples)
      BY <2>2, <3>1 DEF Steady
    <3>6. QED
      BY <2>2, <2>4, <2>5, <2>6, <3>1, <3>2, <3>3, <3>4, <3>5 DEF Sound
  <2>17. Waiting(d, drift, count)
    <3>0. /\ P \in Nat /\ l \in Nat /\ count \in Int /\ before \in Int
          /\ o.stamp \in Int /\ before = count - l
      BY <1>1
    <3>1. Len(d.pending) = l - P /\ count - Len(d.pending) = before + P
      <4>1. Len(d.pending) = l - P
        BY <2>3, <2>6
      <4>2. QED
        BY <3>0, <4>1
    <3>2. ASSUME NEW i \in 1..(l - P)
          PROVE  /\ rest[i].number = (before + P) + i
                 /\ (o.stamp + P) + (i - 1) - rest[i].at \in (-drift)..drift
      <4>1. P + i \in 1..l /\ rest[i] = o.pending[P + i]
        <5>1. P \in Nat /\ l \in Nat /\ i \in Nat /\ i >= 1 /\ i <= l - P
          BY <1>1
        <5>2. P + i \in 1..l
          BY <5>1
        <5>3. rest[i] = o.pending[P + i]
          BY <2>3
        <5>4. QED
          BY <5>2, <5>3
      <4>2. o.pending[P + i].at \in Nat /\ o.pending[P + i].number = before + (P + i)
            /\ o.stamp + ((P + i) - 1) - o.pending[P + i].at \in (-drift)..drift
        BY <2>8, <2>9, <2>10, <4>1
      <4>3. before + (P + i) = (before + P) + i
            /\ o.stamp + ((P + i) - 1) = (o.stamp + P) + (i - 1)
        BY <3>0
      <4>4. (o.stamp + P) + (i - 1) - o.pending[P + i].at \in (-drift)..drift
        <5>1. o.stamp \in Int /\ P \in Nat
          BY <1>1
        <5>2. QED
          BY <4>2, <5>1
      <4>5. QED
        BY <4>1, <4>2, <4>3, <4>4
    <3>3. Steady(rest)
      <4>1. ASSUME NEW i \in 2..(l - P)
            PROVE rest[i].at - rest[i - 1].at \in (1 - Tolerance)..(1 + Tolerance)
        <5>1. i \in 1..(l - P) /\ i - 1 \in 1..(l - P) /\ P + i \in 2..l /\ P + (i - 1) = (P + i) - 1
          BY <1>1, <1>3
        <5>2. rest[i] = o.pending[P + i] /\ rest[i - 1] = o.pending[(P + i) - 1]
          BY <2>3, <5>1
        <5>3. QED
          BY <2>11, <5>1, <5>2
      <4>2. QED
        BY <2>3, <4>1 DEF Steady
    <3>4. rest # <<>> => rest[l - P].at = o.expected - 1
      <4>1. rest # <<>> => l - P \in 1..(l - P) /\ P + (l - P) = l /\ l # 0
        BY <1>1, <1>3, <2>3, EmptySeq
      <4>2. QED
        BY <2>3, <2>13, <4>1
    <3>5. LastOf(d.packets, Len(d.packets)) = before + P
      BY <2>5, <2>14
    <3>6. before + P \in Int /\ before + P >= before + P
      BY <1>1
    <3>7. \A i \in 1..Len(d.pending) :
            /\ d.pending[i].number = (count - Len(d.pending)) + i
            /\ d.stamp + (i - 1) - d.pending[i].at \in (-drift)..drift
      BY <2>6, <3>1, <3>2
    <3>8. QED
      BY <2>6, <3>1, <3>3, <3>4, <3>5, <3>6, <3>7 DEF Waiting
  <2>18. \A k \in 1..Len(d.packets) : Sound(d, k, drift)
    <3>1. \A k \in 1..(n + 1) : k \in 1..n \/ k = n + 1
      BY <1>1
    <3>2. QED
      BY <2>5, <2>15, <2>16, <3>1
  <2>19. QED
    BY <1>1, <1>3, <2>3, <2>6, <2>17, <2>18 DEF Kept, d
<1>4. QED
  BY <1>2, <1>3

\* All of them: it takes no more packets than there are samples.
LEMMA PacketizedKeeps ==
  ASSUME NEW drift \in Nat, NEW count \in Nat, NEW o, Kept(o, drift, count)
  PROVE  LET p == Encode!Packetized(o) IN
         Kept(p, drift, count) /\ p.expected = o.expected /\ Len(p.pending) < PacketFrames
<1> DEFINE n == Len(o.pending)
           S == {x \in Opus : Kept(x, drift, count) /\ x.expected = o.expected}
           Draining(g) == g = [i \in 0..n |-> IF i = 0 THEN o ELSE Encode!Drained(g[i - 1])]
           drained == CHOOSE g : Draining(g)
           step == [i \in 1..n |-> [t \in S |-> Encode!Drained(t)]]
<1>1. n \in Nat /\ o \in S /\ PacketFrames \in Nat \ {0}
  <2>1. o \in Opus
    BY DEF Kept
  <2>2. o.pending \in Seq(Sample)
    BY <2>1 DEF Opus
  <2>3. QED
    BY <2>1, <2>2, AlgorithmsAssumption, LenProperties
<1>2. \A t \in S : Encode!Drained(t) \in S
  <2>1. \A t \in S : Kept(Encode!Drained(t), drift, count) /\ Encode!Drained(t).expected = o.expected
    BY DrainedKeeps
  <2>2. QED
    BY <2>1 DEF Kept
<1>3. \E g : Draining(g)
  <2>1. step \in [1..n -> [S -> S]]
    BY <1>2
  <2>2. PICK g : Iterated(S, o, n, step, g)
    <3> HIDE DEF step, n, S
    <3>1. QED
      BY <1>1, <2>1, StepsTaken
  <2>3. g \in [0..n -> S] /\ g[0] = o /\ \A i \in 1..n : g[i] = step[i][g[i - 1]]
    BY <2>2 DEF Iterated
  <2>4. ASSUME NEW i \in 1..n PROVE g[i] = Encode!Drained(g[i - 1])
    <3>1. i - 1 \in 0..n
      BY <1>1
    <3>2. g[i - 1] \in S /\ g[i] = step[i][g[i - 1]]
      BY <2>3, <3>1
    <3>3. \A t \in S : step[i][t] = Encode!Drained(t)
      OBVIOUS
    <3> HIDE DEF step, n, S
    <3>4. QED
      BY <3>2, <3>3
  <2>5. \A i \in 0..n : i = 0 \/ i \in 1..n
    BY <1>1
  <2>6. Draining(g)
    <3> HIDE DEF step, n, S
    <3>1. \A i \in 0..n : g[i] = IF i = 0 THEN o ELSE Encode!Drained(g[i - 1])
      BY <2>3, <2>4, <2>5
    <3>2. QED
      BY <2>3, <3>1
  <2>7. QED
    BY <2>6
<1>4. Draining(drained)
  BY <1>3
<1>5. drained[0] = o /\ \A i \in 1..n : drained[i] = Encode!Drained(drained[i - 1])
  <2>1. 0 \in 0..n /\ \A i \in 1..n : i \in 0..n /\ i # 0
    BY <1>1
  <2> HIDE DEF drained, n
  <2>2. QED
    BY <1>4, <2>1
<1>6. Encode!Packetized(o) = drained[n]
  BY DEF Encode!Packetized
<1> HIDE DEF Draining, drained
<1> DEFINE Left(i) == Len(drained[i].pending)
           Good(i) == drained[i] \in S /\ (Left(i) < PacketFrames \/ Left(i) <= n - i)
           reached == {i \in 0..n : Good(i)}
<1>7. Good(0)
  BY <1>1, <1>5
<1>8. ASSUME NEW i \in 1..n, Good(i - 1) PROVE Good(i)
  <2> DEFINE t == drained[i - 1]
  <2>1. drained[i] = Encode!Drained(t) /\ t \in S /\ drained[i] \in S
    BY <1>2, <1>5, <1>8
  <2>2. Left(i) = IF Left(i - 1) < PacketFrames THEN Left(i - 1) ELSE Left(i - 1) - PacketFrames
    BY <2>1, DrainedKeeps
  <2>3. Left(i - 1) \in Nat
    <3>1. t.pending \in Seq(Sample)
      BY <2>1 DEF Opus
    <3>2. QED
      BY <3>1, LenProperties
  <2> HIDE DEF Left, S
  <2>4. Left(i) < PacketFrames \/ Left(i) <= n - i
    <3>1. Left(i - 1) < PacketFrames \/ Left(i - 1) <= n - (i - 1)
      BY <1>8
    <3> HIDE DEF n
    <3>2. QED
      BY <1>1, <2>2, <2>3, <3>1
  <2>5. QED
    BY <2>1, <2>4
<1>9. 0..n \subseteq reached
  <2>1. 0 \in 0..n /\ \A i \in 1..n : i \in 0..n
    BY <1>1
  <2> HIDE DEF Good, n
  <2>2. 0 \in reached /\ \A i \in 1..n : i - 1 \in reached => i \in reached
    BY <1>7, <1>8, <2>1
  <2> HIDE DEF reached
  <2>3. QED
    BY <1>1, <2>2, Induction
<1>10. Good(n)
  BY <1>1, <1>9
<1>11. Left(n) < PacketFrames
  <2>1. drained[n].pending \in Seq(Sample)
    BY <1>10 DEF Opus
  <2>2. Left(n) \in Nat
    BY <2>1, LenProperties
  <2> HIDE DEF Left, n
  <2>3. QED
    BY <1>1, <1>10, <2>2
<1>12. QED
  BY <1>6, <1>10, <1>11

\* What a buffer brings.
LEMMA NewSamples ==
  ASSUME NEW buffer \in Buffer
  PROVE  LET new == Encode!Samples(buffer) IN
         /\ new \in Seq(Sample) /\ Len(new) = buffer.frames
         /\ \A i \in 1..buffer.frames :
              new[i].number = buffer.first + i - 1 /\ new[i].at = buffer.at + i - 1
<1> DEFINE new == Encode!Samples(buffer)
           Made(i) == [number |-> buffer.first + i - 1, at |-> buffer.at + i - 1]
<1>1. buffer.first \in Nat /\ buffer.at \in Nat /\ buffer.frames \in Nat
  BY DEF Buffer
<1>2. \A i \in 1..buffer.frames : Made(i) \in Sample
  BY <1>1 DEF Sample
<1>3. new = [i \in 1..buffer.frames |-> Made(i)]
  BY DEF Encode!Samples
<1> HIDE DEF Made, new
<1>4. new \in Seq(Sample) /\ Len(new) = buffer.frames /\ \A i \in 1..buffer.frames : new[i] = Made(i)
  BY <1>1, <1>2, <1>3
<1>5. \A i \in 1..buffer.frames :
        Made(i).number = buffer.first + i - 1 /\ Made(i).at = buffer.at + i - 1
  BY DEF Made
<1>6. QED
  BY <1>4, <1>5 DEF new

\* A gap empties the encoder; without one the buffer follows on what is pending.
LEMMA JoinedKeeps ==
  ASSUME NEW drift \in Nat, NEW count \in Nat, NEW o, Kept(o, drift, count), NEW at \in Nat
  PROVE  LET joined == IF Encode!Discontinuous(o, at)
                       THEN [Encode!ResetOpus(o) EXCEPT !.gaps = @ + 1] ELSE o
         IN /\ Kept(joined, drift, count)
            /\ joined.pending # <<>> => at - joined.expected \in (-Tolerance)..Tolerance
<1> DEFINE last == LastOf(o.packets, Len(o.packets))
           l == Len(o.pending)
<1>1. /\ o \in Opus /\ o.pending \in Seq(Sample) /\ o.packets \in Seq(Packet) /\ o.gaps \in Nat
      /\ o.expected \in Int /\ l \in Nat /\ Tolerance \in Nat
  BY AlgorithmsAssumption, LenProperties DEF Kept, Opus
<1>2. last \in Int
  BY LastIsNumber
<1>3. Waiting(o, drift, count) /\ \A k \in 1..Len(o.packets) : Sound(o, k, drift)
  BY DEF Kept
<1>4. CASE Encode!Discontinuous(o, at)
  <2> DEFINE r == Encode!ResetOpus(o)
             j == [r EXCEPT !.gaps = @ + 1]
  <2>1. /\ j.pending = <<>> /\ j.packets = o.packets /\ j.gaps = o.gaps + 1 /\ j \in Opus
    <3>1. <<>> \in Seq(Sample) /\ Encode!Never \in Int
      BY EmptySeq DEF Encode!Never
    <3>2. r.pending = <<>> /\ r.packets = o.packets /\ r.gaps = o.gaps /\ r \in Opus
      BY <1>1, <3>1 DEF Opus, Encode!ResetOpus
    <3> HIDE DEF r
    <3>3. r.gaps \in Nat /\ r.gaps + 1 \in Nat /\ r.gaps + 1 = o.gaps + 1
      BY <1>1, <3>2
    <3>4. j.pending = r.pending /\ j.packets = r.packets /\ j.gaps = r.gaps + 1
      BY <3>2 DEF Opus
    <3>5. j \in Opus
      BY <3>2, <3>3 DEF Opus
    <3> HIDE DEF j
    <3>6. QED
      BY <3>2, <3>3, <3>4, <3>5
  <2> HIDE DEF j
  <2>2. Len(j.pending) = 0 /\ count - 0 = count /\ 1..0 = {} /\ 2..0 = {} /\ j.gaps # 0
    BY <1>1, <2>1, EmptySeq
  <2>3. count >= last
    <3>1. count - l >= last
      BY <1>1, <1>3 DEF Waiting
    <3> HIDE DEF l, last
    <3>2. QED
      BY <1>1, <1>2, <3>1
  <2>4. Waiting(j, drift, count)
    BY <2>1, <2>2, <2>3 DEF Waiting, Steady
  <2>5. \A k \in 1..Len(j.packets) : Sound(j, k, drift)
    BY <1>3, <2>1, <2>2 DEF Sound
  <2>6. Kept(j, drift, count)
    BY <2>1, <2>4, <2>5 DEF Kept
  <2>7. QED
    BY <1>4, <2>1, <2>6 DEF j, r
<1>5. CASE ~Encode!Discontinuous(o, at)
  <2>1. ASSUME o.pending # <<>> PROVE at - o.expected \in (-Tolerance)..Tolerance
    <3>1. l \in 1..l
      BY <1>1, <2>1, EmptySeq
    <3>2. o.pending[l] \in Sample
      BY <1>1, <3>1, ElementOfSeq
    <3>3. o.pending[l].at \in Nat
      BY <3>2 DEF Sample
    <3>4. o.pending[l].at = o.expected - 1
      BY <1>3, <2>1 DEF Waiting
    <3>5. o.expected # Encode!Never
      <4>1. o.expected # -1
        BY <1>1, <3>3, <3>4
      <4>2. QED
        BY <4>1 DEF Encode!Never
    <3>6. ~(at > o.expected + Tolerance) /\ ~(at < o.expected - Tolerance)
      BY <1>5, <3>5 DEF Encode!Discontinuous
    <3>7. QED
      BY <1>1, <3>6
  <2>2. QED
    BY <1>5, <2>1
<1>6. QED
  BY <1>4, <1>5

\* OpusEncoder::encode keeps the samples in order, and adds no more drift than
\* it tolerates between two buffers.
LEMMA EncodeAudioKeeps ==
  ASSUME NEW drift \in Nat, NEW count \in Nat, NEW o, Kept(o, drift, count),
         NEW buffer \in Buffer, buffer.first = count + 1
  PROVE  LET e == Encode!EncodeAudio(o, buffer) IN
         /\ Kept(e, drift + Tolerance, count + buffer.frames)
         /\ e.expected = buffer.at + buffer.frames /\ Len(e.pending) < PacketFrames
<1> DEFINE j == IF Encode!Discontinuous(o, buffer.at)
                THEN [Encode!ResetOpus(o) EXCEPT !.gaps = @ + 1] ELSE o
           new == Encode!Samples(buffer)
           m == [j EXCEPT !.stamp = IF j.pending = <<>> THEN buffer.at ELSE @,
                          !.expected = buffer.at + buffer.frames,
                          !.pending = @ \o new]
           l == Len(j.pending)
           f == buffer.frames
           before == count - l
           more == drift + Tolerance
           last == LastOf(j.packets, Len(j.packets))
<1>1. /\ buffer.first \in Nat /\ buffer.at \in Nat /\ f \in Nat /\ f # 0
      /\ Tolerance \in Nat /\ more \in Nat /\ more = drift + Tolerance
  BY AlgorithmsAssumption DEF Buffer
<1>2. Kept(j, drift, count) /\ (j.pending # <<>> => buffer.at - j.expected \in (-Tolerance)..Tolerance)
  BY <1>1, JoinedKeeps
<1>3. /\ new \in Seq(Sample) /\ Len(new) = f
      /\ \A i \in 1..f : new[i].number = buffer.first + i - 1 /\ new[i].at = buffer.at + i - 1
  BY NewSamples
<1>4. Encode!EncodeAudio(o, buffer) = Encode!Packetized(m)
  BY DEF Encode!EncodeAudio
<1> HIDE DEF j, new
<1>5. /\ j.pending \in Seq(Sample) /\ j.packets \in Seq(Packet) /\ j.gaps \in Nat /\ j.stamp \in Int
      /\ j.expected \in Int /\ l \in Nat /\ j \in Opus
  BY <1>2, LenProperties DEF Kept, Opus
<1>6. /\ m.pending = j.pending \o new /\ m.packets = j.packets /\ m.gaps = j.gaps /\ m \in Opus
      /\ m.stamp = IF j.pending = <<>> THEN buffer.at ELSE j.stamp
      /\ m.expected = buffer.at + f
  <2>1. j.pending \o new \in Seq(Sample)
    BY <1>3, <1>5, ConcatProperties
  <2>2. /\ buffer.at + f \in Int
        /\ (IF j.pending = <<>> THEN buffer.at ELSE j.stamp) \in Int
    BY <1>1, <1>5
  <2>3. QED
    BY <1>5, <2>1, <2>2 DEF Opus
<1>7. /\ Len(m.pending) = l + f
      /\ \A i \in 1..(l + f) : m.pending[i] = IF i <= l THEN j.pending[i] ELSE new[i - l]
  <2> DEFINE both == j.pending \o new
  <2>1. /\ Len(both) = Len(j.pending) + Len(new)
        /\ \A i \in 1..(Len(j.pending) + Len(new)) :
             both[i] = IF i <= Len(j.pending) THEN j.pending[i] ELSE new[i - Len(j.pending)]
    BY <1>3, <1>5, ConcatProperties
  <2>2. m.pending = both /\ Len(new) = f
    BY <1>3, <1>6
  <2> HIDE DEF m, both
  <2>3. QED
    BY <2>1, <2>2
<1> HIDE DEF m
<1>8. Waiting(j, drift, count) /\ \A k \in 1..Len(j.packets) : Sound(j, k, drift)
  BY <1>2 DEF Kept
<1>9. last \in Int /\ before >= last /\ (j.gaps = 0 => before = last)
  BY <1>2, <1>8, LastIsNumber DEF Waiting
<1>10. before \in Int /\ (count + f) - (l + f) = before /\ before + l = count
  BY <1>1, <1>5
<1>11. l = 0 <=> j.pending = <<>>
  BY <1>5, EmptySeq
<1>12. /\ \A i \in 1..l : j.pending[i].number = before + i
       /\ \A i \in 1..l : j.stamp + (i - 1) - j.pending[i].at \in (-drift)..drift
       /\ \A i \in 2..l : j.pending[i].at - j.pending[i - 1].at \in (1 - Tolerance)..(1 + Tolerance)
       /\ l # 0 => j.pending[l].at = j.expected - 1
  BY <1>8, <1>11 DEF Waiting, Steady
<1>13. \A i \in 1..l : j.pending[i].at \in Nat
  <2>1. \A i \in 1..l : j.pending[i] \in Sample
    BY <1>5, ElementOfSeq
  <2>2. QED
    BY <2>1 DEF Sample
<1> HIDE DEF l, f, before, more, last
<1>14. ASSUME NEW i \in 1..(l + f) PROVE m.pending[i].number = before + i
  <2>1. CASE i <= l
    <3>1. i \in 1..l
      BY <1>5, <2>1
    <3>2. QED
      BY <1>7, <1>12, <2>1, <3>1
  <2>2. CASE ~(i <= l)
    <3>1. i - l \in 1..f /\ buffer.first + (i - l) - 1 = before + i
      BY <1>1, <1>5, <1>10, <2>2
    <3>2. QED
      BY <1>3, <1>7, <2>2, <3>1
  <2>3. QED
    BY <2>1, <2>2
<1>15. l # 0 => j.stamp + (l - 1) - (j.expected - 1) \in (-drift)..drift
  <2>1. l # 0 => l \in 1..l
    BY <1>5
  <2>2. QED
    BY <1>12, <2>1
<1>16. ASSUME NEW i \in 1..(l + f) PROVE m.stamp + (i - 1) - m.pending[i].at \in (-more)..more
  <2>1. CASE i <= l
    <3>1. i \in 1..l /\ j.pending # <<>>
      BY <1>5, <1>11, <2>1
    <3>2. m.pending[i] = j.pending[i] /\ m.stamp = j.stamp
      BY <1>6, <1>7, <2>1, <3>1
    <3>3. j.stamp + (i - 1) - j.pending[i].at \in (-drift)..drift /\ j.pending[i].at \in Nat
      BY <1>12, <1>13, <3>1
    <3>4. j.stamp \in Int /\ i \in Nat
      BY <1>5, <3>1
    <3>5. QED
      BY <1>1, <3>2, <3>3, <3>4
  <2>2. CASE ~(i <= l)
    <3>1. i - l \in 1..f
      BY <1>1, <1>5, <2>2
    <3>2. m.pending[i].at = buffer.at + (i - l) - 1
      BY <1>3, <1>7, <2>2, <3>1
    <3>3. l \in Nat /\ i \in Nat /\ j.stamp \in Int /\ j.expected \in Int
      BY <1>5
    <3>4. CASE l = 0
      <4>1. m.stamp = buffer.at
        BY <1>6, <1>11, <3>4
      <4>2. QED
        BY <1>1, <3>2, <3>3, <3>4, <4>1
    <3>5. CASE l # 0
      <4>1. m.stamp = j.stamp /\ buffer.at - j.expected \in (-Tolerance)..Tolerance
        BY <1>2, <1>6, <1>11, <3>5
      <4>2. QED
        BY <1>1, <1>15, <3>2, <3>3, <3>5, <4>1
    <3>6. QED
      BY <3>4, <3>5
  <2>3. QED
    BY <2>1, <2>2
<1>17. ASSUME NEW i \in 2..(l + f)
       PROVE  m.pending[i].at - m.pending[i - 1].at \in (1 - Tolerance)..(1 + Tolerance)
  <2>1. i \in 1..(l + f) /\ i - 1 \in 1..(l + f) /\ i \in Nat /\ l \in Nat
    BY <1>1, <1>5
  <2>2. CASE i <= l
    <3>1. i \in 2..l /\ i - 1 <= l
      BY <2>1, <2>2
    <3>2. m.pending[i] = j.pending[i] /\ m.pending[i - 1] = j.pending[i - 1]
      BY <1>7, <2>1, <2>2, <3>1
    <3>3. QED
      BY <1>12, <3>1, <3>2
  <2>3. CASE i = l + 1
    <3>1. i - 1 = l /\ l # 0 /\ ~(i <= l) /\ i - l = 1 /\ 1 \in 1..f /\ l <= l
      BY <1>1, <2>1, <2>3
    <3>2. m.pending[i - 1] = j.pending[l] /\ m.pending[i] = new[1]
      BY <1>7, <2>1, <3>1
    <3>3. new[1].at = buffer.at + 1 - 1 /\ j.pending[l].at = j.expected - 1
      BY <1>3, <1>12, <3>1
    <3>4. buffer.at - j.expected \in (-Tolerance)..Tolerance /\ j.expected \in Int
      BY <1>2, <1>5, <1>11, <3>1
    <3>5. QED
      BY <1>1, <3>2, <3>3, <3>4
  <2>4. CASE i > l + 1
    <3>1. ~(i <= l) /\ ~(i - 1 <= l) /\ i - l \in 1..f /\ (i - 1) - l \in 1..f
      BY <1>1, <2>1, <2>4
    <3>2. m.pending[i] = new[i - l] /\ m.pending[i - 1] = new[(i - 1) - l]
      BY <1>7, <2>1, <3>1
    <3>3. new[i - l].at = buffer.at + (i - l) - 1 /\ new[(i - 1) - l].at = buffer.at + ((i - 1) - l) - 1
      BY <1>3, <3>1
    <3>4. QED
      BY <1>1, <2>1, <3>2, <3>3
  <2>5. QED
    BY <2>1, <2>2, <2>3, <2>4
<1>18. m.pending[l + f].at = m.expected - 1
  <2>1. l + f \in 1..(l + f) /\ ~(l + f <= l) /\ (l + f) - l = f /\ f \in 1..f
    BY <1>1, <1>5
  <2>2. m.pending[l + f] = new[f] /\ new[f].at = buffer.at + f - 1
    BY <1>3, <1>7, <2>1
  <2>3. QED
    BY <1>1, <1>6, <2>2
<1>19. Waiting(m, more, count + f)
  <2>1. /\ Len(m.pending) = l + f /\ (count + f) - Len(m.pending) = before
        /\ LastOf(m.packets, Len(m.packets)) = last /\ m.gaps = j.gaps
    BY <1>6, <1>7, <1>10 DEF last
  <2>2. Steady(m.pending)
    BY <1>17, <2>1 DEF Steady
  <2>3. QED
    BY <1>9, <1>14, <1>16, <1>18, <2>1, <2>2 DEF Waiting
<1>20. ASSUME NEW k \in 1..Len(m.packets) PROVE Sound(m, k, more)
  <2>1. Sound(j, k, drift) /\ j.packets[k] \in Packet /\ PacketFrames \in Nat \ {0}
    BY <1>5, <1>6, <1>8, AlgorithmsAssumption, ElementOfSeq
  <2> DEFINE p == j.packets[k]
  <2>2. p.stamp \in Int /\ p.samples[1].at \in Nat
    <3>1. p.stamp \in Int /\ p.samples \in Seq(Sample) /\ Len(p.samples) = PacketFrames
      BY <2>1 DEF Packet, Sound
    <3>2. p.samples[1] \in Sample
      BY <2>1, <3>1, ElementOfSeq
    <3>3. QED
      BY <3>1, <3>2 DEF Sample
  <2>3. p.stamp - p.samples[1].at \in (-drift)..drift
    BY <2>1 DEF Sound
  <2>4. p.stamp - p.samples[1].at \in (-more)..more
    <3>1. \A x \in Int : x \in (-drift)..drift => x \in (-more)..more
      BY <1>1
    <3>2. p.stamp - p.samples[1].at \in Int
      BY <2>2
    <3>3. QED
      BY <2>3, <3>1, <3>2
  <2>5. QED
    BY <1>6, <2>1, <2>4 DEF Sound
<1>21. Kept(m, more, count + f) /\ count + f \in Nat
  BY <1>1, <1>6, <1>19, <1>20 DEF Kept
<1>22. LET p == Encode!Packetized(m) IN
       Kept(p, more, count + f) /\ p.expected = m.expected /\ Len(p.pending) < PacketFrames
  BY <1>1, <1>21, PacketizedKeeps
<1>23. QED
  BY <1>4, <1>6, <1>22 DEF more, f

-----------------------------------------------------------------------------
(***************************************************************************)
(* The video encoder.                                                       *)
(***************************************************************************)
Encoded == [stamp : Nat, size : Nat, forced : BOOLEAN, lasts : Int]
H264    == [last : Int, size : Int, frames : Seq(Encoded)]

\* Of the frames that came, none was without a result.
AllEncoded(frames) == \A k \in 1..Len(frames) : frames[k].outcome = "encoded"

\* What EncodersKeepTime says of two frames in sequence.
Follows(one, two, all) ==
  /\ one.stamp < two.stamp /\ one.stamp <= two.stamp - two.lasts
  /\ all => (two.forced <=> one.size # two.size)

\* The encoder remembers the size and the stamp of its last frame, or what came
\* without a result after it.
Remembered(h, all) ==
  /\ h \in H264
  /\ \A i \in 2..Len(h.frames) : Follows(h.frames[i - 1], h.frames[i], all)
  /\ \A i \in 1..Len(h.frames) : i = Len(h.frames) =>
       h.frames[i].stamp <= h.last /\ (all => h.frames[i].size = h.size)

VideoKept ==
  problem = "video" => input \in Seq(Frames) /\ Remembered(h264, AllEncoded(input))

\* What the input of each problem is made of.
InputGiven ==
  /\ problem = "signal"     => input \in Seq(WireTokens)
  /\ problem = "settings"   => input \in Seq(SettingTokens)
  /\ problem = "servers"    => input \in Seq(ServerTokens)
  /\ problem = "statistics" => input \in Seq(Reports)
  /\ problem = "windows"    => input \in Seq(Rows)

EncodersInvariant == InputGiven /\ AudioKept /\ VideoKept
\* An encoder that gave no new frame.
LEMMA SameFramesRemembered ==
  ASSUME NEW h, NEW e, NEW before \in BOOLEAN, NEW after \in BOOLEAN, Remembered(h, before),
         e \in H264, e.frames = h.frames, h.last <= e.last,
         after => before, after => e.size = h.size
  PROVE  Remembered(e, after)
<1>1. h \in H264 /\ h.last \in Int /\ e.last \in Int /\ h.frames \in Seq(Encoded)
  BY DEF Remembered, H264
<1>2. ASSUME NEW i \in 2..Len(e.frames)
      PROVE  Follows(e.frames[i - 1], e.frames[i], after)
  <2>1. Follows(h.frames[i - 1], h.frames[i], before)
    BY <1>2 DEF Remembered
  <2>2. QED
    BY <2>1 DEF Follows
<1>3. ASSUME NEW i \in 1..Len(e.frames), i = Len(e.frames)
      PROVE  e.frames[i].stamp <= e.last /\ (after => e.frames[i].size = e.size)
  <2>1. h.frames[i].stamp <= h.last /\ (before => h.frames[i].size = h.size)
    BY <1>3 DEF Remembered
  <2>2. h.frames[i] \in Encoded
    BY <1>1, ElementOfSeq
  <2>3. h.frames[i].stamp \in Int
    BY <2>2 DEF Encoded
  <2>4. h.frames[i].stamp <= e.last
    BY <1>1, <2>1, <2>3
  <2>5. QED
    BY <2>1, <2>4
<1>4. QED
  BY <1>2, <1>3 DEF Remembered

\* An encoder that gave one frame more.
LEMMA NewFrameRemembered ==
  ASSUME NEW h, NEW e, NEW before \in BOOLEAN, NEW after \in BOOLEAN, Remembered(h, before),
         after => before, NEW f \in Encoded, f.stamp > h.last, f.lasts = f.stamp - h.last,
         f.forced <=> h.size # f.size,
         e = [last |-> f.stamp, size |-> f.size, frames |-> Append(h.frames, f)]
  PROVE  Remembered(e, after)
<1> DEFINE old == h.frames
           n   == Len(old)
           new == Append(old, f)
<1>1. h \in H264 /\ old \in Seq(Encoded) /\ n \in Nat /\ h.last \in Int /\ n = Len(old)
  BY LenProperties DEF Remembered, H264
<1>2. f.stamp \in Nat /\ f.size \in Nat /\ f.lasts \in Int
  BY DEF Encoded
<1>3. /\ \A i \in 2..n : Follows(old[i - 1], old[i], before)
      /\ \A i \in 1..n : i = n => old[i].stamp <= h.last /\ (before => old[i].size = h.size)
  BY DEF Remembered
<1> HIDE DEF n, old
<1>4. /\ new \in Seq(Encoded) /\ Len(new) = n + 1 /\ new[n + 1] = f
      /\ \A i \in 1..n : new[i] = old[i]
  BY <1>1, AppendProperties
<1>5. e.frames = new /\ e.last = f.stamp /\ e.size = f.size /\ e \in H264
  BY <1>2, <1>4 DEF H264, old
<1> HIDE DEF new
<1>6. ASSUME NEW i \in 2..(n + 1) PROVE Follows(new[i - 1], new[i], after)
  <2>1. CASE i # n + 1
    <3>1. i \in 2..n /\ i \in 1..n /\ i - 1 \in 1..n
      BY <1>1, <2>1
    <3>2. new[i] = old[i] /\ new[i - 1] = old[i - 1] /\ Follows(old[i - 1], old[i], before)
      BY <1>3, <1>4, <3>1
    <3>3. QED
      BY <3>2 DEF Follows
  <2>2. CASE i = n + 1
    <3>1. n \in 1..n /\ i - 1 = n
      BY <1>1, <2>2
    <3>2. new[i] = f /\ new[i - 1] = old[n]
      BY <1>4, <2>2, <3>1
    <3>3. old[n] \in Encoded /\ old[n].stamp <= h.last /\ (before => old[n].size = h.size)
      BY <1>1, <1>3, <3>1, ElementOfSeq
    <3>4. old[n].stamp \in Nat
      BY <3>3 DEF Encoded
    <3>5. old[n].stamp < f.stamp /\ old[n].stamp <= f.stamp - f.lasts
      BY <1>1, <1>2, <3>3, <3>4
    <3>6. after => (f.forced <=> old[n].size # f.size)
      BY <3>3
    <3>7. QED
      BY <3>2, <3>5, <3>6 DEF Follows
  <2>3. QED
    BY <2>1, <2>2
<1>7. \A i \in 1..(n + 1) : i = n + 1 => new[i].stamp <= e.last /\ (after => new[i].size = e.size)
  BY <1>2, <1>4, <1>5
<1>8. e \in H264 /\ e.frames = new /\ Len(e.frames) = n + 1
  BY <1>4, <1>5
<1>9. QED
  BY <1>6, <1>7, <1>8 DEF Remembered

\* H264Encoder::encode gives an older frame no result, and remembers the size of
\* the frame that it encodes.
LEMMA EncodeVideoKeeps ==
  ASSUME NEW h, NEW before \in BOOLEAN, NEW after \in BOOLEAN, Remembered(h, before),
         NEW frame \in Frames, after => before /\ frame.outcome = "encoded"
  PROVE  Remembered(Encode!EncodeVideo(h, frame), after)
<1> DEFINE size == Encode!Even(frame.size)
           forced == frame.force \/ h.size # size
           encoded == [stamp |-> frame.at, size |-> size, forced |-> forced,
                       lasts |-> frame.at - h.last]
<1>1. h \in H264 /\ h.last \in Int /\ h.size \in Int /\ h.frames \in Seq(Encoded)
  BY DEF Remembered, H264
<1>2. /\ frame.at \in Nat /\ frame.size \in Nat /\ frame.force = FALSE
      /\ frame.outcome \in {"unavailable", "failed", "nothing", "encoded"}
  BY AlgorithmsAssumption DEF Frames
<1>3. size \in Nat
  BY <1>2 DEF Encode!Even
<1>4. forced \in BOOLEAN /\ (forced <=> h.size # size)
  BY <1>2, Zenon
<1>5. h.last <= h.last
  BY <1>1
<1> HIDE DEF size, forced
<1>6. CASE frame.size = 0 \/ frame.at <= h.last \/ frame.outcome = "unavailable"
  <2>1. Encode!EncodeVideo(h, frame) = h
    BY <1>6 DEF Encode!EncodeVideo
  <2>2. Remembered(h, after)
    BY <1>1, <1>5, SameFramesRemembered
  <2>3. QED
    BY <2>1, <2>2
<1>7. CASE frame.size # 0 /\ ~(frame.at <= h.last) /\ frame.outcome = "failed"
  <2> DEFINE e == [h EXCEPT !.size = size]
  <2>1. Encode!EncodeVideo(h, frame) = e
    BY <1>2, <1>7 DEF Encode!EncodeVideo, size
  <2>2. e \in H264 /\ e.frames = h.frames /\ h.last <= e.last /\ ~after
    BY <1>1, <1>3, <1>5, <1>7 DEF H264
  <2> HIDE DEF e
  <2>3. Remembered(e, after)
    BY <2>2, SameFramesRemembered
  <2>4. QED
    BY <2>1, <2>3
<1>8. CASE frame.size # 0 /\ ~(frame.at <= h.last) /\ frame.outcome = "nothing"
  <2> DEFINE e == [h EXCEPT !.size = size, !.last = frame.at]
  <2>1. Encode!EncodeVideo(h, frame) = e
    BY <1>2, <1>8 DEF Encode!EncodeVideo, size
  <2> DEFINE sized == [h EXCEPT !.size = size]
  <2>2. e = [last |-> frame.at, size |-> size, frames |-> h.frames] /\ ~after
    <3>1. h = [last |-> h.last, size |-> h.size, frames |-> h.frames]
      BY <1>1 DEF H264
    <3>2. sized = [last |-> h.last, size |-> size, frames |-> h.frames]
      BY <3>1
    <3>3. e = [sized EXCEPT !.last = frame.at]
      BY <3>1
    <3>4. ~after
      BY <1>8
    <3> HIDE DEF e, sized
    <3>5. QED
      BY <3>2, <3>3, <3>4
  <2> HIDE DEF e, sized
  <2>3. e \in H264 /\ e.frames = h.frames /\ e.last = frame.at
    BY <1>1, <1>2, <1>3, <2>2 DEF H264
  <2>4. h.last <= e.last
    BY <1>1, <1>2, <1>8, <2>3
  <2>5. Remembered(e, after)
    BY <2>2, <2>3, <2>4, SameFramesRemembered
  <2>6. QED
    BY <2>1, <2>5
<1>9. CASE frame.size # 0 /\ ~(frame.at <= h.last) /\ frame.outcome = "encoded"
  <2> DEFINE e == [last |-> frame.at, size |-> size, frames |-> Append(h.frames, encoded)]
  <2>1. Encode!EncodeVideo(h, frame) = e
    BY <1>2, <1>9 DEF Encode!EncodeVideo, size, forced
  <2>2. /\ encoded \in Encoded /\ encoded.stamp = frame.at /\ encoded.size = size
        /\ encoded.lasts = frame.at - h.last /\ encoded.forced = forced
    BY <1>1, <1>2, <1>3, <1>4 DEF Encoded
  <2>3. frame.at > h.last
    BY <1>1, <1>2, <1>9
  <2> HIDE DEF encoded
  <2>4. /\ encoded.stamp > h.last /\ encoded.lasts = encoded.stamp - h.last
        /\ e = [last |-> encoded.stamp, size |-> encoded.size, frames |-> Append(h.frames, encoded)]
    BY <2>2, <2>3
  <2>5. encoded.forced <=> h.size # encoded.size
    BY <1>4, <2>2
  <2>6. after => before
    OBVIOUS
  <2> HIDE DEF e
  <2>7. Remembered(e, after)
    BY <2>2, <2>4, <2>5, <2>6, NewFrameRemembered
  <2>8. QED
    BY <2>1, <2>7
<1>10. QED
  BY <1>2, <1>6, <1>7, <1>8, <1>9

-----------------------------------------------------------------------------
(***************************************************************************)
(* Signaling: every message arrives.                                       *)
(***************************************************************************)
\* The operators on texts are the same wherever they are used.
LEMMA SameOperators ==
  /\ Wire!Newline = Newline /\ T!Newline = Newline
  /\ \A t : Wire!Trim(t) = Trim(t) /\ T!Trim(t) = Trim(t) /\ T!TrimEnd(t) = TrimEnd(t)
  /\ \A t : Wire!Words(t) = Words(t)
  /\ \A t, s : Wire!Split(t, s) = Split(t, s)
  /\ \A t, s, n : Wire!SplitN(t, s, n) = SplitN(t, s, n)
  /\ \A p, t : Wire!IsPrefix(p, t) = IsPrefix(p, t)
  /\ \A t, c, x, y : Wire!Escape(t, c, x, y) = Escape(t, c, x, y)
                     /\ Wire!Unescape(t, c, x, y) = Unescape(t, c, x, y)
<1>1. Wire!Newline = Newline /\ T!Newline = Newline
  BY DEF Wire!Newline, T!Newline, Newline
<1>2. Wire!Blanks = Blanks /\ T!Blanks = Blanks
  BY <1>1 DEF Wire!Blanks, T!Blanks, Blanks
<1>3. \A t : Wire!Trim(t) = Trim(t)
  BY <1>2 DEF Wire!Trim, Trim, Wire!Cut, Cut, Wire!Solid, Solid, Wire!Min, Min, Wire!Max, Max
<1>4. \A t : T!Trim(t) = Trim(t) /\ T!TrimEnd(t) = TrimEnd(t)
  BY <1>2 DEF T!Trim, Trim, T!TrimEnd, TrimEnd, T!Cut, Cut, T!Solid, Solid, T!Min, Min, T!Max, Max
<1>5. \A t, s, n : Wire!SplitN(t, s, n) = SplitN(t, s, n)
  BY DEF Wire!SplitN, SplitN, Wire!NextPart, NextPart
<1>6. \A t, s : Wire!Split(t, s) = Split(t, s)
  BY <1>5 DEF Wire!Split, Split
<1>7. \A t : Wire!NotEmpty(t) = NotEmpty(t)
  BY DEF Wire!NotEmpty, NotEmpty, Wire!Retain, Retain
<1>8. \A t : Wire!Words(t) = Words(t)
  BY <1>2, <1>6, <1>7 DEF Wire!Words, Words
<1>9. \A p, t : Wire!IsPrefix(p, t) = IsPrefix(p, t)
  BY DEF Wire!IsPrefix, IsPrefix
<1>10. \A t, c, x, y : Wire!Escape(t, c, x, y) = Escape(t, c, x, y)
  BY DEF Wire!Escape, Escape, Wire!Replace, Replace, Wire!IsPrefix, IsPrefix
<1>11. \A t, c, x, y : Wire!Unescape(t, c, x, y) = Unescape(t, c, x, y)
  BY DEF Wire!Unescape, Unescape, Wire!Replace, Replace, Wire!IsPrefix, IsPrefix
<1>12. QED
  BY <1>1, <1>3, <1>4, <1>5, <1>6, <1>8, <1>9, <1>10, <1>11

LEMMA SamePayloads ==
  \A t : Wire!EscapePayload(t) = Payload(t) /\ Wire!UnescapePayload(t) = Restored(t)
<1>1. /\ Wire!Newline = Newline
      /\ \A t, c, x, y : Wire!Escape(t, c, x, y) = Escape(t, c, x, y)
                         /\ Wire!Unescape(t, c, x, y) = Unescape(t, c, x, y)
  BY SameOperators
<1>2. QED
  BY <1>1 DEF Wire!EscapePayload, Wire!UnescapePayload, Payload, Restored

\* The texts that are sent.
LEMMA WireText ==
  /\ \A t \in Seq(WireTokens) : t \in Text /\ Lacks(t, "cr")
  /\ \A c \in {"SIG", "SDP", "ICE", "offer", "answer", "-", "7", "9", "a", "JOIN", "PEER", "ERROR",
               "WAITING", "sender", "receiver", "FRAME"} :
       /\ c \in Token \ (Blanks \cup {"%", "|"})
       /\ One(c) \in Text /\ One(c) # <<>> /\ Lacks(One(c), "|") /\ Lacks(One(c), Newline)
       /\ LacksAll(One(c), Blanks) /\ Payload(One(c)) = One(c)
<1>1. WireTokens \subseteq Token \ {"cr"}
  BY DEF WireTokens, T!Newline, Newline, Token
<1>2. ASSUME NEW t \in Seq(WireTokens) PROVE t \in Text /\ Lacks(t, "cr")
  <2>1. \A i \in 1..Len(t) : t[i] \in WireTokens
    BY ElementOfSeq
  <2>2. t \in Seq(Token)
    BY <1>1, SeqDef
  <2>3. QED
    BY <1>1, <2>1, <2>2 DEF Text, Lacks
<1>3. ASSUME NEW c \in {"SIG", "SDP", "ICE", "offer", "answer", "-", "7", "9", "a", "JOIN", "PEER", "ERROR",
                        "WAITING", "sender", "receiver", "FRAME"}
      PROVE  /\ c \in Token \ (Blanks \cup {"%", "|"})
             /\ One(c) \in Text /\ One(c) # <<>> /\ Lacks(One(c), "|") /\ Lacks(One(c), Newline)
             /\ LacksAll(One(c), Blanks) /\ Payload(One(c)) = One(c)
  <2>1. c \in Token /\ c \notin Blanks \cup {"%", "|"} /\ c # Newline
    BY DEF Token, Blanks, Newline
  <2>2. /\ One(c) \in Text /\ Len(One(c)) = 1 /\ One(c)[1] = c /\ One(c) # <<>>
        /\ Lacks(One(c), "|") /\ Lacks(One(c), Newline) /\ Lacks(One(c), "%")
    BY <2>1, OneText, LacksOne
  <2>3. LacksAll(One(c), Blanks)
    BY <2>1, <2>2 DEF LacksAll
  <2>4. Payload(One(c)) = One(c)
    BY <2>2, PayloadSame
  <2>5. QED
    BY <2>1, <2>2, <2>3, <2>4
<1>4. QED
  BY <1>2, <1>3

\* A signal arrives as what its line, without the blanks at its end, decodes to.
LEMMA SignalArrives ==
  ASSUME NEW r \in Text, NEW m, m = Field(One("SIG"), r), Closes(m, Blanks),
         NEW b \in Text, AllIn(b, Blanks), NEW d, Wire!DecodeSignal(m) = d, d # Invalid
  PROVE  Received(m ++ b) = d
<1> DEFINE sig == One("SIG")  nl == One(Newline)
<1>1. sig \in Text /\ sig # <<>> /\ Opens(sig, Blanks) /\ "SIG" \in Token /\ "|" \in Token
  <2>1. "SIG" \in Token /\ "SIG" \notin Blanks /\ "|" \in Token
    BY DEF Token, Blanks, Newline
  <2>2. QED
    BY <2>1, OneText, AllInOne
<1>2. m \in Text /\ m # <<>> /\ Opens(m, Blanks)
  BY <1>1, FieldType
<1>3. \A t \in Text : AllIn(t, Blanks) => Trim(m ++ t) = m
  <2> SUFFICES ASSUME NEW t \in Text, AllIn(t, Blanks) PROVE Trim(m ++ t) = m
    OBVIOUS
  <2>1. <<>> \in Text /\ AllIn(<<>>, Blanks) /\ <<>> ++ m = m
    BY <1>2, EmptyText, AllInNothing, NoneJoined
  <2>2. Trim((<<>> ++ m) ++ t) = m
    BY <1>2, <2>1, TrimIs
  <2>3. QED
    BY <2>1, <2>2
<1>4. Trim(m) = m
  <2>1. <<>> \in Text /\ AllIn(<<>>, Blanks) /\ m ++ <<>> = m
    BY <1>2, EmptyText, AllInNothing, NoneJoined
  <2>2. QED
    BY <1>3, <2>1
<1>5. nl \in Text /\ AllIn(nl, Blanks) /\ Append(m, Newline) = m ++ nl
  BY <1>2, BlankTokens, OneText, AllInOne, LastJoined
<1>6. IsPrefix(<<"SIG", "|">>, m)
  <2>1. <<"SIG", "|">> = sig ++ One("|")
    BY <1>1, Two
  <2> DEFINE p == sig ++ One("|")
  <2>2. p \in Text /\ p # <<>>
    <3>1. sig \in Seq(Token)
      BY <1>1 DEF Text
    <3>2. p \in Text /\ Len(p) = Len(sig) + 1 /\ Len(sig) \in Nat
      BY <1>1, <3>1, TextAfter
    <3>3. QED
      BY <3>2, EmptyText
  <2>3. m = p ++ r
    BY DEF Field
  <2> HIDE DEF p
  <2>4. IsPrefix(p, p ++ r)
    BY <2>2, PrefixOf
  <2>5. QED
    BY <2>1, <2>3, <2>4 DEF p
<1> HIDE DEF sig, nl
<1>7. \A s, t : Trim(s) = Trim(t) => Wire!DecodeSignal(s) = Wire!DecodeSignal(t)
  BY SameOperators DEF Wire!DecodeSignal
<1>8. Wire!Relayed(m ++ b) = m ++ nl
  <2>1. Trim(m ++ b) = m
    BY <1>3
  <2>2. Wire!DecodeSignal(m ++ b) # Invalid
    BY <1>4, <1>7, <2>1
  <2>3. QED
    BY <1>5, <2>1, <2>2, SameOperators DEF Wire!Relayed, nl
<1>9. Wire!EventOf(m ++ nl) = Wire!DecodeSignal(m)
  <2>1. Wire!Trim(m ++ nl) = m
    BY <1>3, <1>5, SameOperators
  <2>2. Wire!IsPrefix(<<"SIG", "|">>, m)
    BY <1>6, SameOperators
  <2>3. QED
    BY <1>2, <2>1, <2>2 DEF Wire!EventOf
<1>10. QED
  BY <1>8, <1>9 DEF Received

\* A line has one newline, at its end.
LEMMA LineEnds ==
  ASSUME NEW x \in Text, Lacks(x, Newline)
  PROVE  OneLine(x ++ One(Newline))
<1> DEFINE line == x ++ One(Newline)  n == Len(x) + 1
<1>1. Newline \in Token
  BY BlankTokens
<1>2. /\ line \in Text /\ Len(line) = n /\ line[n] = Newline /\ Len(x) \in Nat
      /\ \A i \in 1..Len(x) : line[i] = x[i]
  <2>1. x \in Seq(Token)
    BY DEF Text
  <2>2. QED
    BY <1>1, <2>1, TextAfter
<1> HIDE DEF line
<1>3. DOMAIN line = 1..n
  <2>1. line \in Seq(Token)
    BY <1>2 DEF Text
  <2>2. QED
    BY <1>2, <2>1, LenProperties
<1>4. {i \in DOMAIN line : line[i] = Newline} = {n}
  <2>1. \A i \in 1..n : i = n \/ i \in 1..Len(x)
    BY <1>2
  <2>2. \A i \in 1..Len(x) : line[i] # Newline
    BY <1>2 DEF Lacks
  <2>3. n \in 1..n
    BY <1>2
  <2>4. QED
    BY <1>2, <1>3, <2>1, <2>2, <2>3
<1>5. Cardinality({n}) = 1
  BY FS_Singleton
<1>6. T!Newline = Newline
  BY SameOperators
<1> HIDE DEF n
<1>7. QED
  BY <1>2, <1>4, <1>5, <1>6 DEF OneLine, Last, line

\* The lines of signals, field by field.
LEMMA DescriptionLine ==
  ASSUME NEW type \in {"offer", "answer"}, NEW t \in Text
  PROVE  Wire!EncodeDescription(Wire!Description(type, t))
           = Field(One("SIG"), Field(One("SDP"), Field(One(type), Payload(t)))) ++ One(Newline)
<1> DEFINE a == One("SIG")  b == One("SDP")  c == One(type)  bar == One("|")  e == Payload(t)
<1>1. a \in Text /\ b \in Text /\ c \in Text /\ e \in Text /\ bar \in Text /\ c ++ bar \in Text
      /\ b ++ (bar ++ (c ++ bar)) \in Text
  <2>1. a \in Text /\ b \in Text /\ c \in Text /\ e \in Text
    BY WireText, PayloadText
  <2>2. "|" \in Token
    BY DEF Token
  <2>3. bar \in Text
    BY <2>2, OneText
  <2> HIDE DEF a, b, c, bar, e
  <2>4. QED
    BY <2>1, <2>3, TwoJoined
<1>2. <<"SIG", "|", "SDP", "|", type, "|">> = a ++ (bar ++ (b ++ (bar ++ (c ++ bar))))
  <2>1. "SIG" \in Token /\ "SDP" \in Token /\ "|" \in Token /\ type \in Token
    BY DEF Token
  <2>2. QED
    BY <2>1, Six
<1>3. Wire!EncodeDescription(Wire!Description(type, t))
        = (<<"SIG", "|", "SDP", "|", type, "|">> ++ e) ++ One(Newline)
  <2>1. Wire!EscapePayload(t) = e /\ Wire!Newline = Newline
    BY SamePayloads, SameOperators
  <2>2. Wire!Description(type, t).type = type /\ Wire!Description(type, t).sdp = t
    BY DEF Wire!Description
  <2> HIDE DEF e
  <2>3. QED
    BY <2>1, <2>2, Zenon DEF Wire!EncodeDescription, One, ++
<1> HIDE DEF a, b, c, bar, e
<1>4. (a ++ (bar ++ (b ++ (bar ++ (c ++ bar))))) ++ e = Field(a, (b ++ (bar ++ (c ++ bar))) ++ e)
  BY <1>1, FieldAfter DEF bar
<1>5. (b ++ (bar ++ (c ++ bar))) ++ e = Field(b, (c ++ bar) ++ e)
  BY <1>1, FieldAfter DEF bar
<1>6. (c ++ bar) ++ e = Field(c, e)
  BY <1>1, FieldAfter DEF bar
<1>7. QED
  BY <1>2, <1>3, <1>4, <1>5, <1>6 DEF a, b, c, e

LEMMA CandidateLine ==
  ASSUME NEW em \in Text, NEW idx \in {"-", "7"}, NEW t \in Text,
         NEW mid, Wire!EscapeOptional(mid) = em,
         NEW index, (IF index = None THEN "-" ELSE index) = idx
  PROVE  Wire!EncodeCandidate(Wire!Candidate(mid, index, t))
           = Field(One("SIG"), Field(One("ICE"), Field(em, Field(One(idx), Payload(t))))) ++ One(Newline)
<1> DEFINE a == One("SIG")  b == One("ICE")  c == One(idx)  bar == One("|")  e == Payload(t)
           w == c ++ bar  z == bar ++ w
<1>1. a \in Text /\ b \in Text /\ c \in Text /\ e \in Text /\ bar \in Text /\ w \in Text /\ z \in Text
      /\ b ++ bar \in Text
  <2>1. a \in Text /\ b \in Text /\ c \in Text /\ e \in Text
    BY WireText, PayloadText
  <2>2. "|" \in Token
    BY DEF Token
  <2>3. bar \in Text
    BY <2>2, OneText
  <2> HIDE DEF a, b, c, bar, e
  <2>4. QED
    BY <2>1, <2>3, TwoJoined
<1>2. <<"SIG", "|", "ICE", "|">> = a ++ (bar ++ (b ++ bar)) /\ <<"|", idx, "|">> = z
  <2>1. "SIG" \in Token /\ "ICE" \in Token /\ "|" \in Token /\ idx \in Token
    BY DEF Token
  <2>2. <<"SIG", "|", "ICE", "|">> = a ++ (bar ++ (b ++ bar))
    BY <2>1, Four
  <2>3. <<"|", idx, "|">> = z
    BY <2>1, Three
  <2>4. QED
    BY <2>2, <2>3
<1>3. Wire!EncodeCandidate(Wire!Candidate(mid, index, t))
        = (((<<"SIG", "|", "ICE", "|">> ++ em) ++ <<"|", idx, "|">>) ++ e) ++ One(Newline)
  <2>1. Wire!EscapePayload(t) = e /\ Wire!Newline = Newline
    BY SamePayloads, SameOperators
  <2>2. /\ Wire!Candidate(mid, index, t).mid = mid /\ Wire!Candidate(mid, index, t).index = index
        /\ Wire!Candidate(mid, index, t).candidate = t
    BY DEF Wire!Candidate
  <2> HIDE DEF e
  <2>3. QED
    BY <2>1, <2>2, Zenon DEF Wire!EncodeCandidate, One, ++
<1> HIDE DEF a, b, c, bar, e, w, z
<1>4. (a ++ (bar ++ (b ++ bar))) ++ em = Field(a, (b ++ bar) ++ em)
  BY <1>1, FieldAfter DEF bar
<1>5. (b ++ bar) ++ em = Field(b, em)
  BY <1>1, FieldAfter DEF bar
<1>6. Field(a, Field(b, em)) ++ z = Field(a, Field(b, em ++ z))
  <2>1. Field(b, em) \in Text /\ Field(b, em) ++ z = Field(b, em ++ z)
    BY <1>1, FieldType
  <2>2. QED
    BY <1>1, <2>1, FieldType
<1>7. Field(a, Field(b, em ++ z)) ++ e = Field(a, Field(b, (em ++ z) ++ e))
  <2>1. em ++ z \in Text
    BY <1>1, TwoJoined
  <2>2. Field(b, em ++ z) \in Text /\ Field(b, em ++ z) ++ e = Field(b, (em ++ z) ++ e)
    BY <1>1, <2>1, FieldType
  <2>3. QED
    BY <1>1, <2>2, FieldType
<1>8. (em ++ z) ++ e = Field(em, w ++ e)
  BY <1>1, FieldAfter DEF bar, z
<1>9. w ++ e = Field(c, e)
  BY <1>1, FieldAfter DEF bar, w
<1>10. QED
  BY <1>2, <1>3, <1>4, <1>5, <1>6, <1>7, <1>8, <1>9 DEF a, b, c, e

\* What their fields decode to.
LEMMA DescriptionDecoded ==
  ASSUME NEW type \in {"offer", "answer"}, NEW e \in Text, Lacks(e, "|"), Closes(e, Blanks)
  PROVE  LET m == Field(One("SIG"), Field(One("SDP"), Field(One(type), e)))
         IN Wire!DecodeSignal(m) = Wire!Description(type, Restored(e))
<1> DEFINE a == One("SIG")  b == One("SDP")  c == One(type)
           m2 == Field(c, e)  m1 == Field(b, m2)  m == Field(a, m1)
<1>1. a \in Text /\ b \in Text /\ c \in Text /\ Lacks(a, "|") /\ Lacks(b, "|") /\ Lacks(c, "|")
      /\ a # <<>> /\ Opens(a, Blanks)
  <2>1. "SIG" \in Token /\ "SIG" \notin Blanks
    BY WireText
  <2>2. QED
    BY <2>1, WireText, AllInOne
<1>2. m2 \in Text /\ Closes(m2, Blanks) /\ Split(m2, {"|"}) = One(c) ++ Split(e, {"|"})
  BY <1>1, FieldType, FieldSplit
<1>3. LacksAll(e, {"|"})
  BY DEF Lacks, LacksAll
<1>4. Split(e, {"|"}) = One(e)
  BY <1>3, SplitNone
<1>5. <<a, b, c, e>> = One(a) ++ (One(b) ++ (One(c) ++ One(e)))
  BY <1>1, Four
<1> HIDE DEF a, b, c, m2
<1>6. m1 \in Text /\ Closes(m1, Blanks) /\ Split(m1, {"|"}) = One(b) ++ Split(m2, {"|"})
  BY <1>1, <1>2, FieldType, FieldSplit
<1> HIDE DEF m1
<1>7. m \in Text /\ Closes(m, Blanks) /\ Opens(m, Blanks) /\ Split(m, {"|"}) = One(a) ++ Split(m1, {"|"})
  BY <1>1, <1>6, FieldType, FieldSplit
<1> HIDE DEF m
<1>8. Split(m, {"|"}) = <<a, b, c, e>>
  BY <1>2, <1>4, <1>5, <1>6, <1>7
<1>9. Trim(m) = m
  <2>1. <<>> \in Text /\ AllIn(<<>>, Blanks) /\ m ++ <<>> = m /\ <<>> ++ m = m
    BY <1>7, EmptyText, AllInNothing, NoneJoined
  <2>2. Trim((<<>> ++ m) ++ <<>>) = m
    BY <1>7, <2>1, TrimIs
  <2>3. QED
    BY <2>1, <2>2
<1> DEFINE parts == Wire!Split(Wire!Trim(m), {"|"})
<1>10. parts = <<a, b, c, e>>
  BY <1>8, <1>9, SameOperators
<1>11. Len(parts) = 4 /\ parts[1] = <<"SIG">> /\ parts[2] = <<"SDP">> /\ parts[3] = <<type>> /\ parts[4] = e
  BY <1>10 DEF a, b, c, One
<1>12. Wire!SdpTypeOf(parts[3]) = type /\ type # Invalid
  <2>1. type # Invalid
    BY MarksAssumption
  <2>2. type = "offer" \/ type = "answer"
    OBVIOUS
  <2>3. Wire!SdpTypeOf(<<type>>) = type
    BY <2>2 DEF Wire!SdpTypeOf
  <2>4. QED
    BY <1>11, <2>1, <2>3
<1>13. <<"SDP">> # <<"ICE">>
  OBVIOUS
<1>14. Wire!DecodeSignal(m) = Wire!Description(type, Wire!UnescapePayload(e))
  <2> HIDE DEF parts
  <2>1. Wire!DecodeSignal(m) = Wire!Description(Wire!SdpTypeOf(parts[3]), Wire!UnescapePayload(parts[4]))
    BY <1>11, <1>12, <1>13 DEF Wire!DecodeSignal, parts
  <2>2. QED
    BY <1>11, <1>12, <2>1
<1>15. QED
  BY <1>14, SamePayloads DEF m, m1, m2, a, b, c

LEMMA CandidateDecoded ==
  ASSUME NEW em \in Text, Lacks(em, "|"), NEW idx \in {"-", "7"}, NEW e \in Text, Lacks(e, "|"), Closes(e, Blanks)
  PROVE  LET m == Field(One("SIG"), Field(One("ICE"), Field(em, Field(One(idx), e))))
         IN Wire!DecodeSignal(m)
              = Wire!Candidate(Wire!UnescapeOptional(em), IF idx = "-" THEN None ELSE idx, Restored(e))
<1> DEFINE a == One("SIG")  b == One("ICE")  c == One(idx)
           m3 == Field(c, e)  m2 == Field(em, m3)  m1 == Field(b, m2)  m == Field(a, m1)
<1>1. a \in Text /\ b \in Text /\ c \in Text /\ Lacks(a, "|") /\ Lacks(b, "|") /\ Lacks(c, "|")
      /\ a # <<>> /\ Opens(a, Blanks)
  <2>1. "SIG" \in Token /\ "SIG" \notin Blanks
    BY WireText
  <2>2. QED
    BY <2>1, WireText, AllInOne
<1>2. m3 \in Text /\ Closes(m3, Blanks) /\ Split(m3, {"|"}) = One(c) ++ Split(e, {"|"})
  BY <1>1, FieldType, FieldSplit
<1>3. LacksAll(e, {"|"})
  BY DEF Lacks, LacksAll
<1>4. Split(e, {"|"}) = One(e)
  BY <1>3, SplitNone
<1>5. <<a, b, em, c, e>> = One(a) ++ (One(b) ++ (One(em) ++ (One(c) ++ One(e))))
  BY <1>1, Five
<1> HIDE DEF a, b, c, m3
<1>6. m2 \in Text /\ Closes(m2, Blanks) /\ Split(m2, {"|"}) = One(em) ++ Split(m3, {"|"})
  BY <1>2, FieldType, FieldSplit
<1> HIDE DEF m2
<1>7. m1 \in Text /\ Closes(m1, Blanks) /\ Split(m1, {"|"}) = One(b) ++ Split(m2, {"|"})
  BY <1>1, <1>6, FieldType, FieldSplit
<1> HIDE DEF m1
<1>8. m \in Text /\ Closes(m, Blanks) /\ Opens(m, Blanks) /\ Split(m, {"|"}) = One(a) ++ Split(m1, {"|"})
  BY <1>1, <1>7, FieldType, FieldSplit
<1> HIDE DEF m
<1>9. Split(m, {"|"}) = <<a, b, em, c, e>>
  BY <1>2, <1>4, <1>5, <1>6, <1>7, <1>8
<1>10. Trim(m) = m
  <2>1. <<>> \in Text /\ AllIn(<<>>, Blanks) /\ m ++ <<>> = m /\ <<>> ++ m = m
    BY <1>8, EmptyText, AllInNothing, NoneJoined
  <2>2. Trim((<<>> ++ m) ++ <<>>) = m
    BY <1>8, <2>1, TrimIs
  <2>3. QED
    BY <2>1, <2>2
<1> DEFINE parts == Wire!Split(Wire!Trim(m), {"|"})
           index == IF parts[4] = <<"-">> THEN None ELSE Wire!NumberOf(parts[4])
           given == IF idx = "-" THEN None ELSE idx
<1>11. parts = <<a, b, em, c, e>>
  BY <1>9, <1>10, SameOperators
<1>12. Len(parts) = 5 /\ parts[1] = <<"SIG">> /\ parts[2] = <<"ICE">> /\ parts[3] = em /\ parts[4] = <<idx>>
       /\ parts[5] = e
  BY <1>11 DEF a, b, c, One
<1>13. index = given /\ index # Invalid
  <2> HIDE DEF parts
  <2>1. None # Invalid /\ "7" # Invalid
    BY MarksAssumption DEF Ports
  <2>2. CASE idx = "-"
    BY <1>12, <2>1, <2>2
  <2>3. CASE idx = "7"
    <3>1. Wire!NumberOf(<<"7">>) = "7"
      BY DEF Wire!NumberOf, Ports
    <3>2. <<"7">> # <<"-">>
      OBVIOUS
    <3>3. parts[4] = <<"7">>
      BY <1>12, <2>3
    <3>4. QED
      BY <2>1, <2>3, <3>1, <3>2, <3>3
  <2>4. QED
    BY <2>2, <2>3
<1>14. Wire!DecodeSignal(m) = Wire!Candidate(Wire!UnescapeOptional(em), given, Wire!UnescapePayload(e))
  <2> HIDE DEF parts, index, given
  <2>1. Wire!DecodeSignal(m)
          = Wire!Candidate(Wire!UnescapeOptional(parts[3]), index, Wire!UnescapePayload(parts[5]))
    BY <1>12, <1>13 DEF Wire!DecodeSignal, parts, index
  <2>2. QED
    BY <1>12, <1>13, <2>1
<1>15. QED
  BY <1>14, SamePayloads DEF m, m1, m2, m3, a, b, c

\* Optional texts come back, but for a dash.
LEMMA OptionalText ==
  ASSUME NEW mid \in {None} \cup Seq(WireTokens)
  PROVE  LET em == Wire!EscapeOptional(mid) IN
         /\ em \in Text /\ Lacks(em, "|") /\ Lacks(em, Newline)
         /\ mid = One("-") => Wire!UnescapeOptional(em) = None
         /\ mid # One("-") => Wire!UnescapeOptional(em) = mid
<1> DEFINE em == Wire!EscapeOptional(mid)  dash == One("-")
<1>0. dash \in Text /\ Lacks(dash, "|") /\ Lacks(dash, Newline) /\ Payload(dash) = dash /\ dash = <<"-">>
  BY WireText DEF One
<1>1. CASE mid = None
  <2>1. em = dash /\ dash # None
    <3>1. dash \in Seq(WireTokens)
      <4>1. "-" \in WireTokens
        BY DEF WireTokens
      <4>2. QED
        BY <4>1, SingleType
    <3>2. QED
      BY <1>0, <1>1, <3>1, MarksAssumption DEF Wire!EscapeOptional
  <2> HIDE DEF em, dash
  <2>2. Wire!UnescapeOptional(em) = None
    BY <1>0, <2>1 DEF Wire!UnescapeOptional
  <2>3. QED
    BY <1>0, <1>1, <2>1, <2>2 DEF em, dash
<1>2. CASE mid \in Seq(WireTokens)
  <2>1. mid \in Text /\ em = Payload(mid)
    BY <1>2, WireText, MarksAssumption, SamePayloads DEF Wire!EscapeOptional
  <2> HIDE DEF em, dash
  <2>2. em \in Text /\ Lacks(em, "|") /\ Lacks(em, Newline) /\ Restored(em) = mid
    BY <2>1, PayloadText
  <2>3. em = dash <=> mid = dash
    BY <1>0, <2>1, <2>2, PayloadText
  <2>4. /\ em = dash => Wire!UnescapeOptional(em) = None
        /\ em # dash => Wire!UnescapeOptional(em) = Restored(em)
    BY <1>0, SamePayloads DEF Wire!UnescapeOptional
  <2>5. QED
    BY <2>2, <2>3, <2>4 DEF em, dash
<1>3. QED
  BY <1>1, <1>2

\* A beginning has the tokens of the whole.
LEMMA BeginningType ==
  ASSUME NEW S, NEW u \in Text, NEW b \in Text, u ++ b \in Seq(S)
  PROVE  u \in Seq(S)
<1>1. CASE u = <<>>
  BY <1>1, EmptySeq
<1>2. CASE u # <<>>
  <2> DEFINE t == u ++ b
  <2>1. SubSeq(t, 1, Len(u)) = u
    BY <1>2, CutEnd
  <2>2. Len(t) = Len(u) + Len(b) /\ Len(u) \in Nat /\ Len(b) \in Nat
    BY TwoJoined, LenText
  <2>3. \A i \in 1..Len(t) : t[i] \in S
    BY ElementOfSeq
  <2> HIDE DEF t
  <2>4. \A i \in 1..Len(u) : i \in 1..Len(t)
    BY <2>2
  <2>5. \A i \in 1..Len(u) : t[i] \in S
    BY <2>3, <2>4
  <2>6. SubSeq(t, 1, Len(u)) \in Seq(S)
    BY <2>2, <2>5, SubSeqProperties
  <2>7. QED
    BY <2>1, <2>6
<1>3. QED
  BY <1>1, <1>2

\* Unpadded leaves no space at the end.
LEMMA UnpaddedIs ==
  ASSUME NEW m \in Text, NEW b \in Text, AllIn(b, Spaces), Closes(m, Spaces), NEW t, t = m ++ b
  PROVE  Unpadded(t) = m
<1>1. DOMAIN t = 1..Len(t)
  <2>1. t \in Seq(Token)
    BY TwoJoined DEF Text
  <2>2. QED
    BY <2>1, LenProperties
<1> DEFINE outside == {i \in DOMAIN t : t[i] # " "}
<1>2. AreOutside(outside, t, Spaces)
  BY <1>1 DEF AreOutside, Spaces
<1>3. Unpadded(t) = SubSeq(t, 1, Max({0} \cup outside))
  BY DEF Unpadded
<1> HIDE DEF outside
<1>4. Max({0} \cup outside) = Len(m)
  BY <1>2, LastOutside
<1>5. SubSeq(t, 1, Len(m)) = m
  BY CutBefore
<1>6. QED
  BY <1>3, <1>4, <1>5

\* What is sent as the last field, and what Unpadded says of it.
LEMMA LastField ==
  ASSUME NEW t \in Seq(WireTokens)
  PROVE  \E u, b \in Text :
           /\ t = u ++ b /\ Unpadded(t) = u /\ u \in Seq(WireTokens) /\ AllIn(b, Blanks) /\ Lacks(b, Newline)
           /\ Payload(t) = Payload(u) ++ b /\ Closes(Payload(u), Blanks)
<1>1. t \in Text /\ Lacks(t, "cr")
  BY WireText
<1> PICK u \in Text, b \in Text :
      /\ t = u ++ b /\ Closes(u, Spaces) /\ AllIn(b, Spaces) /\ AllIn(b, Blanks)
      /\ Payload(t) = Payload(u) ++ b /\ Closes(Payload(u), Blanks)
  BY <1>1, PayloadEnd
<1>2. u \in Seq(WireTokens)
  BY BeginningType
<1>3. Unpadded(t) = u
  BY UnpaddedIs
<1>4. Lacks(b, Newline)
  BY DEF AllIn, Lacks, Newline, Spaces
<1>5. QED
  BY <1>2, <1>3, <1>4

\* A signal is one line, and arrives.
LEMMA DescriptionArrives ==
  ASSUME NEW type \in {"offer", "answer"}, NEW t \in Seq(WireTokens)
  PROVE  LET line == Wire!EncodeDescription(Wire!Description(type, t))
         IN OneLine(line) /\ Received(line) = Wire!Description(type, Unpadded(t))
<1> PICK u \in Text, b \in Text :
      /\ t = u ++ b /\ Unpadded(t) = u /\ u \in Seq(WireTokens) /\ AllIn(b, Blanks) /\ Lacks(b, Newline)
      /\ Payload(t) = Payload(u) ++ b /\ Closes(Payload(u), Blanks)
  BY LastField
<1> DEFINE line == Wire!EncodeDescription(Wire!Description(type, t))
           e == Payload(u)  a == One("SIG")  d == One("SDP")  c == One(type)  nl == One(Newline)
           m2 == Field(c, e)  m1 == Field(d, m2)  m == Field(a, m1)
<1>1. /\ t \in Text /\ e \in Text /\ Lacks(e, "|") /\ Lacks(e, Newline) /\ Restored(e) = u
  BY WireText, PayloadText
<1>2. /\ a \in Text /\ d \in Text /\ c \in Text
      /\ Lacks(a, Newline) /\ Lacks(d, Newline) /\ Lacks(c, Newline)
  BY WireText
<1>3. Newline \in Token \ {"|"} /\ nl \in Text /\ AllIn(nl, Blanks)
  <2>1. Newline \in Token \ {"|"} /\ Newline \in Blanks
    BY BlankTokens DEF Newline
  <2>2. QED
    BY <2>1, OneText, AllInOne
<1>4. line = Field(a, Field(d, Field(c, e ++ b))) ++ nl
  BY <1>1, DescriptionLine
<1>5. Wire!DecodeSignal(m) = Wire!Description(type, u)
  BY <1>1, DescriptionDecoded
<1> HIDE DEF a, d, c, e, nl
<1>6. m2 \in Text /\ Closes(m2, Blanks) /\ Lacks(m2, Newline) /\ Field(c, e ++ b) = m2 ++ b
  BY <1>1, <1>2, <1>3, FieldType DEF e
<1> HIDE DEF m2
<1>7. m1 \in Text /\ Closes(m1, Blanks) /\ Lacks(m1, Newline) /\ Field(d, m2 ++ b) = m1 ++ b
  BY <1>2, <1>3, <1>6, FieldType
<1> HIDE DEF m1
<1>8. m \in Text /\ Closes(m, Blanks) /\ Lacks(m, Newline) /\ Field(a, m1 ++ b) = m ++ b
  BY <1>2, <1>3, <1>7, FieldType
<1> HIDE DEF m
<1>9. line = (m ++ b) ++ nl /\ line = m ++ (b ++ nl)
  BY <1>3, <1>4, <1>6, <1>7, <1>8, ThreeJoined
<1> HIDE DEF line
<1>10. m ++ b \in Text /\ Lacks(m ++ b, Newline) /\ b ++ nl \in Text /\ AllIn(b ++ nl, Blanks)
  BY <1>3, <1>8, TwoJoined, LacksBoth, AllInBoth
<1>11. OneLine(line)
  BY <1>9, <1>10, LineEnds DEF nl
<1>12. Wire!Description(type, u) # Invalid
  BY MarksAssumption DEF Wire!Description
<1>13. Received(line) = Wire!Description(type, u)
  <2>1. m = Field(One("SIG"), m1)
    BY DEF m, a
  <2>2. QED
    BY <1>5, <1>7, <1>8, <1>9, <1>10, <1>12, <2>1, SignalArrives
<1>14. QED
  BY <1>11, <1>13 DEF line

LEMMA CandidateArrives ==
  ASSUME NEW mid \in {None} \cup Seq(WireTokens), NEW index \in {None, "7"}, NEW t \in Seq(WireTokens),
         NEW back, (mid = One("-") /\ back = None) \/ (mid # One("-") /\ back = mid)
  PROVE  LET line == Wire!EncodeCandidate(Wire!Candidate(mid, index, t))
         IN OneLine(line) /\ Received(line) = Wire!Candidate(back, index, Unpadded(t))
<1> PICK u \in Text, b \in Text :
      /\ t = u ++ b /\ Unpadded(t) = u /\ u \in Seq(WireTokens) /\ AllIn(b, Blanks) /\ Lacks(b, Newline)
      /\ Payload(t) = Payload(u) ++ b /\ Closes(Payload(u), Blanks)
  BY LastField
<1> DEFINE line == Wire!EncodeCandidate(Wire!Candidate(mid, index, t))
           em == Wire!EscapeOptional(mid)  idx == IF index = None THEN "-" ELSE index
           e == Payload(u)  a == One("SIG")  d == One("ICE")  c == One(idx)  nl == One(Newline)
           m3 == Field(c, e)  m2 == Field(em, m3)  m1 == Field(d, m2)  m == Field(a, m1)
<1>0. idx \in {"-", "7"} /\ (IF idx = "-" THEN None ELSE idx) = index
  OBVIOUS
<1>1. /\ t \in Text /\ e \in Text /\ Lacks(e, "|") /\ Lacks(e, Newline) /\ Restored(e) = u
  BY WireText, PayloadText
<1>2. em \in Text /\ Lacks(em, "|") /\ Lacks(em, Newline) /\ Wire!UnescapeOptional(em) = back
  BY OptionalText
<1>4. Wire!EscapeOptional(mid) = em /\ (IF index = None THEN "-" ELSE index) = idx
  OBVIOUS
<1> HIDE DEF idx, em
<1>5. line = Field(a, Field(d, Field(em, Field(c, e ++ b)))) ++ nl
  BY <1>0, <1>1, <1>2, <1>4, CandidateLine
<1>6. Wire!DecodeSignal(m) = Wire!Candidate(back, index, u)
  BY <1>0, <1>1, <1>2, CandidateDecoded
<1>3. /\ a \in Text /\ d \in Text /\ c \in Text
      /\ Lacks(a, Newline) /\ Lacks(d, Newline) /\ Lacks(c, Newline)
  BY <1>0, WireText
<1>7. Newline \in Token \ {"|"} /\ nl \in Text /\ AllIn(nl, Blanks)
  <2>1. Newline \in Token \ {"|"} /\ Newline \in Blanks
    BY BlankTokens DEF Newline
  <2>2. QED
    BY <2>1, OneText, AllInOne
<1> HIDE DEF a, d, c, e, nl
<1>8. m3 \in Text /\ Closes(m3, Blanks) /\ Lacks(m3, Newline) /\ Field(c, e ++ b) = m3 ++ b
  BY <1>1, <1>3, <1>7, FieldType DEF e
<1> HIDE DEF m3
<1>9. m2 \in Text /\ Closes(m2, Blanks) /\ Lacks(m2, Newline) /\ Field(em, m3 ++ b) = m2 ++ b
  BY <1>2, <1>7, <1>8, FieldType
<1> HIDE DEF m2
<1>10. m1 \in Text /\ Closes(m1, Blanks) /\ Lacks(m1, Newline) /\ Field(d, m2 ++ b) = m1 ++ b
  BY <1>3, <1>7, <1>9, FieldType
<1> HIDE DEF m1
<1>11. m \in Text /\ Closes(m, Blanks) /\ Lacks(m, Newline) /\ Field(a, m1 ++ b) = m ++ b
  BY <1>3, <1>7, <1>10, FieldType
<1> HIDE DEF m
<1>12. line = (m ++ b) ++ nl /\ line = m ++ (b ++ nl)
  BY <1>5, <1>7, <1>8, <1>9, <1>10, <1>11, ThreeJoined
<1> HIDE DEF line
<1>13. m ++ b \in Text /\ Lacks(m ++ b, Newline) /\ b ++ nl \in Text /\ AllIn(b ++ nl, Blanks)
  BY <1>7, <1>11, TwoJoined, LacksBoth, AllInBoth
<1>14. OneLine(line)
  BY <1>12, <1>13, LineEnds DEF nl
<1>15. Wire!Candidate(back, index, u) # Invalid
  BY MarksAssumption DEF Wire!Candidate, Ports
<1>16. Received(line) = Wire!Candidate(back, index, u)
  <2>1. m = Field(One("SIG"), m1)
    BY DEF m, a
  <2>2. QED
    BY <1>6, <1>10, <1>11, <1>12, <1>13, <1>15, <2>1, SignalArrives
<1>17. QED
  BY <1>14, <1>16 DEF line

\* A room name with blanks in it, or none, is refused; any other is trimmed.
LEMMA JoinLine ==
  ASSUME NEW room \in Text, NEW role \in {"sender", "receiver"}
  PROVE  Wire!EncodeJoin(room, role, "7")
           = Spaced(One("JOIN"), Spaced(room, Spaced(One(role), One("7"))))
<1> DEFINE j == One("JOIN")  r == One(role)  p == One("7")  sp == One(" ")
<1>1. j \in Text /\ r \in Text /\ p \in Text /\ "JOIN" \in Token /\ role \in Token /\ "7" \in Token
  BY WireText
<1>2. sp \in Text /\ " " \in Token
  BY BlankTokens, OneText
<1>3. Wire!EncodeJoin(room, role, "7") = ((j ++ sp) ++ room) ++ (sp ++ (r ++ (sp ++ p)))
  <2>1. <<"JOIN", " ">> = j ++ sp
    BY <1>1, <1>2, Two
  <2>2. <<" ", role, " ", "7">> = sp ++ (r ++ (sp ++ p))
    <3> DEFINE b == " "  s == "7"
    <3> HIDE DEF b, s
    <3>1. <<b, role, b, s>> = One(b) ++ (One(role) ++ (One(b) ++ One(s)))
      BY FourApart
    <3>2. QED
      BY <3>1 DEF b, s
  <2>3. Wire!EncodeJoin(room, role, "7") = (<<"JOIN", " ">> ++ room) ++ <<" ", role, " ", "7">>
    BY Zenon DEF Wire!EncodeJoin, ++
  <2>4. QED
    BY <2>1, <2>2, <2>3, Zenon
<1>4. sp \in Text
  BY <1>2
<1>5. /\ (j ++ sp) ++ room = Spaced(j, room) /\ r ++ (sp ++ p) = Spaced(r, p) /\ Spaced(r, p) \in Text
      /\ Spaced(j, room) \in Text
  BY <1>1, SpacedAfter
<1> DEFINE v == Spaced(r, p)
<1>6. Spaced(j, room) ++ (sp ++ v) = Spaced(j, room ++ (sp ++ v)) /\ room ++ (sp ++ v) = Spaced(room, v)
  <2> HIDE DEF j, r, p, v
  <2>1. v \in Text /\ room ++ (sp ++ v) = Spaced(room, v)
    BY <1>5, SpacedAfter DEF v
  <2> HIDE DEF sp
  <2>2. sp ++ v \in Text
    BY <1>4, <2>1, TwoJoined
  <2>3. Spaced(j, room) ++ (sp ++ v) = Spaced(j, room ++ (sp ++ v))
    BY <1>1, <2>2, SpacedMore
  <2>4. QED
    BY <2>1, <2>3
<1>7. QED
  <2> HIDE DEF j, r, p, sp
  <2>1. Wire!EncodeJoin(room, role, "7") = Spaced(j, Spaced(room, Spaced(r, p)))
    BY <1>3, <1>5, <1>6
  <2>2. QED
    BY <2>1 DEF j, r, p

LEMMA JoinParsed ==
  ASSUME NEW role \in {"sender", "receiver"}, NEW line, NEW name,
         NEW words, words = Wire!Words(line), Len(words) = 4,
         words[1] = <<"JOIN">>, words[2] = name, words[3] = <<role>>, words[4] = <<"7">>
  PROVE  Wire!ParseJoin(line) = [room |-> name, role |-> role, port |-> "7"]
<1>1. Wire!RoleOf(<<role>>) = role
  <2>1. role = "sender" \/ role = "receiver"
    OBVIOUS
  <2>2. QED
    BY <2>1 DEF Wire!RoleOf
<1>2. Wire!NumberOf(<<"7">>) = "7"
  BY DEF Wire!NumberOf, Ports
<1>3. Invalid \notin {role, "7"}
  BY MarksAssumption DEF Ports
<1>4. Wire!RoleOf(words[3]) = role /\ Wire!NumberOf(words[4]) = "7"
  BY <1>1, <1>2
<1> DEFINE join == [room |-> words[2], role |-> Wire!RoleOf(words[3]), port |-> Wire!NumberOf(words[4])]
<1>5. join = [room |-> name, role |-> role, port |-> "7"]
  BY <1>4
<1>6. Invalid \notin {join.role, join.port}
  BY <1>3, <1>5
<1>7. Wire!ParseJoin(line) = join
  BY <1>6 DEF Wire!ParseJoin
<1>8. QED
  BY <1>5, <1>7

LEMMA JoinArrives ==
  ASSUME NEW room \in Text, NEW role \in {"sender", "receiver"}
  PROVE  Wire!ParseJoin(Wire!EncodeJoin(room, role, "7"))
           \in {Invalid, [room |-> Trim(room), role |-> role, port |-> "7"]}
<1> DEFINE j == One("JOIN")  r == One(role)  p == One("7")
           v == Spaced(r, p)  line == Wire!EncodeJoin(room, role, "7")
<1>1. /\ j \in Text /\ j # <<>> /\ LacksAll(j, Blanks) /\ r \in Text /\ r # <<>> /\ LacksAll(r, Blanks)
      /\ p \in Text /\ p # <<>> /\ LacksAll(p, Blanks)
  BY WireText
<1>2. line = Spaced(j, Spaced(room, v))
  BY JoinLine
<1> HIDE DEF j, r, p, line
<1>5. v \in Text /\ Spaced(room, v) \in Text
  BY <1>1, SpacedAfter
<1>6. Words(v) = One(r) ++ One(p)
  BY <1>1, SpacedWords, WordsWhole
<1> HIDE DEF v
<1>7. Words(line) = One(j) ++ (Words(room) ++ (One(r) ++ One(p)))
  <2>1. Words(Spaced(room, v)) = Words(room) ++ Words(v)
    BY <1>5, SpacedWords
  <2>2. Words(Spaced(j, Spaced(room, v))) = One(j) ++ Words(Spaced(room, v))
    BY <1>1, <1>5, SpacedWords
  <2>3. QED
    BY <1>2, <1>6, <2>1, <2>2
<1> DEFINE words == Wire!Words(line)
<1>8. words = One(j) ++ (Words(room) ++ (One(r) ++ One(p)))
  BY <1>7, SameOperators
<1>9. Len(words) = 3 + Len(Words(room)) /\ Len(Words(room)) \in Nat
  <2>1. Words(room) \in Seq(Text)
    BY WordsType
  <2> HIDE DEF words
  <2>2. QED
    BY <1>1, <1>8, <2>1, FourLong
<1> DEFINE name == Trim(room)
<1>10. CASE Len(words) # 4
  BY <1>10 DEF Wire!ParseJoin, line
<1>11. CASE Len(words) = 4
  <2>0. Len(Words(room)) = 1
    <3> DEFINE n == Len(Words(room))
    <3>1. n \in Nat /\ 4 = 3 + n
      BY <1>9, <1>11
    <3> HIDE DEF n
    <3>2. n = 1
      BY <3>1
    <3>3. QED
      BY <3>2 DEF n
  <2>1. Words(room) = One(name) /\ name \in Text
    BY <2>0, OnlyWord
  <2> HIDE DEF name
  <2>2. <<j, name, r, p>> = One(j) ++ (One(name) ++ (One(r) ++ One(p)))
    BY <1>1, <2>1, Four
  <2>3. words = <<j, name, r, p>>
    BY <1>8, <2>1, <2>2
  <2> HIDE DEF words
  <2>4. words[1] = j /\ words[2] = name /\ words[3] = r /\ words[4] = p
    BY <2>3
  <2>5. words[1] = <<"JOIN">> /\ words[3] = <<role>> /\ words[4] = <<"7">>
    BY <2>4 DEF j, r, p, One
  <2>6. words = Wire!Words(line)
    BY DEF words
  <2>7. Wire!ParseJoin(line) = [room |-> name, role |-> role, port |-> "7"]
    BY <1>11, <2>4, <2>5, <2>6, JoinParsed
  <2>8. QED
    BY <2>7 DEF line, name
<1>12. QED
  BY <1>10, <1>11

\* A line that begins otherwise.
LEMMA OtherFirst ==
  ASSUME NEW m \in Text, m # <<>>, NEW c \in Token, NEW d \in Token, m[1] # c
  PROVE  ~Wire!IsPrefix(<<c, d>>, m)
<1> DEFINE p == <<c, d>>
<1>1. p \in Text /\ p # <<>> /\ p[1] = c /\ 1 \in 1..Len(p)
  BY DEF Text
<1> HIDE DEF p
<1>2. ~IsPrefix(p, m)
  BY <1>1, NoPrefix
<1>3. QED
  BY <1>2, SameOperators DEF p

\* A line that is no signal.
LEMMA OtherLine ==
  ASSUME NEW m \in Text, m # <<>>, m[1] # "SIG", NEW line, Trim(line) = m
  PROVE  Wire!EventOf(line) = Wire!ParsePeer(m)
<1>1. ~Wire!IsPrefix(<<"SIG", "|">>, m)
  <2>1. "SIG" \in Token /\ "|" \in Token
    BY DEF Token
  <2>2. QED
    BY <2>1, OtherFirst
<1>2. Wire!Trim(line) = m
  BY SameOperators
<1>3. QED
  BY <1>1, <1>2 DEF Wire!EventOf

LEMMA ErrorParsed ==
  ASSUME NEW v \in Text, v # <<>>, NEW m, m = Spaced(One("ERROR"), v), Trim(m) = m
  PROVE  Wire!ParsePeer(m) = [error |-> v]
<1> DEFINE e == One("ERROR")
<1>1. e \in Text /\ e # <<>> /\ LacksAll(e, Blanks) /\ "ERROR" \in Token
  BY WireText
<1>2. SubSeq(m, 3, Len(m)) = v /\ m[1] = "ERROR" /\ IsPrefix(e ++ One(" "), m) /\ Len(m) > 2
  BY <1>1, SpacedRest
<1>3. m # <<"WAITING">>
  <2>1. Len(m) > 2
    BY <1>2
  <2>2. QED
    BY <2>1, NotOne
<1>4. Wire!Words(m)[1] # <<"PEER">>
  <2>1. Words(m) = One(e) ++ Words(v)
    BY <1>1, SpacedWords
  <2> HIDE DEF e
  <2>2. One(e) \in Seq(Text) /\ Words(v) \in Seq(Text)
    BY <1>1, SingleType, WordsType
  <2>3. (One(e) ++ Words(v))[1] = e
    BY <2>2 DEF One, ++
  <2>4. e # <<"PEER">>
    BY DEF e, One
  <2>5. QED
    BY <2>1, <2>3, <2>4, SameOperators
<1>5. Wire!IsPrefix(<<"ERROR", " ">>, m)
  <2>1. " " \in Token
    BY BlankTokens
  <2>2. <<"ERROR", " ">> = e ++ One(" ")
    BY <1>1, <2>1, Two
  <2>3. QED
    BY <1>2, <2>2, SameOperators
<1>6. Wire!Trim(m) = m
  BY SameOperators
<1>7. QED
  BY <1>2, <1>3, <1>4, <1>5, <1>6 DEF Wire!ParsePeer

LEMMA EmptyError ==
  Wire!ParsePeer(One("ERROR")) = Invalid
<1> DEFINE e == One("ERROR")
<1>1. e \in Text /\ e # <<>> /\ LacksAll(e, Blanks) /\ "ERROR" \in Token /\ "ERROR" \notin Blanks
  BY WireText
<1>2. Trim(e) = e
  <2>1. Opens(e, Blanks) /\ Closes(e, Blanks)
    BY <1>1, AllInOne
  <2>2. QED
    BY <1>1, <2>1, EmptyText, AllInNothing, TrimOf
<1>3. Wire!Words(e) = One(e)
  BY <1>1, WordsWhole, SameOperators
<1>4. Len(One(e)) # 4
  <2> HIDE DEF e
  <2>1. QED
    BY DEF One
<1>5. ~IsPrefix(<<"ERROR", " ">>, e)
  <2>1. Len(e) = 1
    BY <1>1, OneText
  <2> HIDE DEF e
  <2>2. Len(<<"ERROR", " ">>) = 2
    OBVIOUS
  <2>3. QED
    BY <2>1, <2>2 DEF IsPrefix
<1>6. e # <<"WAITING">>
  BY DEF One
<1>7. Wire!Trim(e) = e /\ ~Wire!IsPrefix(<<"ERROR", " ">>, e)
  BY <1>2, <1>5, SameOperators
<1>8. QED
  BY <1>3, <1>4, <1>6, <1>7 DEF Wire!ParsePeer

\* The text of an error arrives, but for blanks at its end; without one, the line is refused.
LEMMA ErrorArrives ==
  ASSUME NEW text \in Text
  PROVE  Wire!EventOf(Wire!EncodeError(text)) \in {Invalid, [error |-> TrimEnd(text)]}
<1> DEFINE e == One("ERROR")  sp == One(" ")  nl == One(Newline)  line == Wire!EncodeError(text)
<1>1. e \in Text /\ e # <<>> /\ Opens(e, Blanks) /\ Closes(e, Blanks) /\ e[1] = "ERROR" /\ "ERROR" \in Token
  <2>1. "ERROR" \in Token /\ "ERROR" \notin Blanks
    BY WireText
  <2>2. QED
    BY <2>1, OneText, AllInOne
<1>2. sp \in Text /\ AllIn(sp, Blanks) /\ nl \in Text /\ AllIn(nl, Blanks) /\ " " \in Token
  BY BlankTokens, OneText, AllInOne
<1>3. line = ((e ++ sp) ++ text) ++ nl
  <2>1. <<"ERROR", " ">> = e ++ sp
    BY <1>1, <1>2, Two
  <2>2. line = (<<"ERROR", " ">> ++ text) ++ One(Newline)
    BY SameOperators, Zenon DEF Wire!EncodeError, ++, One
  <2>3. QED
    BY <2>1, <2>2, Zenon
<1> PICK u \in Text, b \in Text : text = u ++ b /\ AllIn(b, Blanks) /\ Closes(u, Blanks)
  BY EndOf
<1>4. TrimEnd(text) = u
  BY TrimEndIs
<1>5. nl \in Text /\ AllIn(nl, Blanks) /\ sp \in Text /\ AllIn(sp, Blanks) /\ e ++ sp \in Text
  BY <1>1, <1>2, TwoJoined
<1>6. Spaced(e, u) \in Text /\ Spaced(e, u) = (e ++ sp) ++ u
  BY <1>1, SpacedAfter DEF Spaced
<1> HIDE DEF e, sp, nl, line
<1> DEFINE c == b ++ nl
<1>7. c \in Text /\ AllIn(c, Blanks)
  BY <1>5, TwoJoined, AllInBoth
<1>8. line = ((e ++ sp) ++ u) ++ c
  <2> DEFINE a == e ++ sp
  <2> HIDE DEF a
  <2>1. a \in Text /\ line = (a ++ (u ++ b)) ++ nl
    BY <1>3, <1>5 DEF a
  <2>2. a ++ (u ++ b) = (a ++ u) ++ b /\ a ++ u \in Text
    BY <2>1, ThreeJoined, TwoJoined
  <2>3. ((a ++ u) ++ b) ++ nl = (a ++ u) ++ (b ++ nl)
    BY <1>5, <2>2, ThreeJoined
  <2>4. QED
    BY <2>1, <2>2, <2>3 DEF a
<1> HIDE DEF c
<1>9. CASE u # <<>>
  <2> DEFINE m == Spaced(e, u)
  <2>1. m \in Text /\ Opens(m, Blanks) /\ Closes(m, Blanks) /\ m # <<>>
    BY <1>1, <1>6, <1>9, SpacedWords
  <2>2. m[1] = "ERROR"
    BY <1>1, <1>9, SpacedRest DEF e
  <2>3. line = m ++ c
    BY <1>6, <1>8
  <2> HIDE DEF m
  <2>4. Trim(line) = m /\ Trim(m) = m
    BY <1>7, <2>1, <2>3, TrimOf
  <2>5. Wire!EventOf(line) = Wire!ParsePeer(m)
    BY <2>1, <2>2, <2>4, OtherLine
  <2>6. Wire!ParsePeer(m) = [error |-> u]
    BY <1>9, <2>4, ErrorParsed DEF m, e
  <2>7. QED
    BY <1>4, <2>5, <2>6 DEF line
<1>10. CASE u = <<>>
  <2>1. (e ++ sp) ++ u = e ++ sp
    BY <1>5, <1>10, NoneJoined
  <2>2. (e ++ sp) ++ c = e ++ (sp ++ c) /\ sp ++ c \in Text /\ AllIn(sp ++ c, Blanks)
    BY <1>1, <1>5, <1>7, ThreeJoined, TwoJoined, AllInBoth
  <2>3. line = e ++ (sp ++ c)
    BY <1>8, <2>1, <2>2
  <2>4. Trim(line) = e
    BY <1>1, <2>2, <2>3, TrimOf
  <2>5. Wire!EventOf(line) = Wire!ParsePeer(e)
    BY <1>1, <2>4, OtherLine
  <2>6. QED
    BY <2>5, EmptyError DEF e, line
<1>11. QED
  BY <1>9, <1>10

LEMMA PeerLine ==
  ASSUME NEW role \in {"sender", "receiver"}
  PROVE  Wire!EncodePeer([role |-> role, ip |-> "9", port |-> "7"])
           = Spaced(One("PEER"), Spaced(One(role), Spaced(One("9"), One("7")))) ++ One(Newline)
<1> DEFINE k == One("PEER")  r == One(role)  i == One("9")  p == One("7")  nl == One(Newline)  sp == One(" ")
<1>1. /\ k \in Text /\ r \in Text /\ i \in Text /\ p \in Text /\ nl \in Text
      /\ "PEER" \in Token /\ role \in Token /\ "9" \in Token /\ "7" \in Token /\ Newline \in Token
  BY WireText, BlankTokens, OneText
<1>2. " " \in Token
  BY BlankTokens
<1>3. Wire!EncodePeer([role |-> role, ip |-> "9", port |-> "7"])
        = <<"PEER", " ", role, " ", "9", " ", "7", Newline>>
  BY SameOperators DEF Wire!EncodePeer
<1>4. <<"PEER", " ", role, " ", "9", " ", "7", Newline>>
        = <<"PEER", " ">> ++ (<<role, " ">> ++ (<<"9", " ">> ++ <<"7", Newline>>))
  <2> DEFINE b == " "  a == "PEER"  e == "9"  f == "7"  g == Newline
  <2> HIDE DEF b, a, e, f, g
  <2>1. <<a, b, role, b, e, b, f, g>> = <<a, b>> ++ (<<role, b>> ++ (<<e, b>> ++ <<f, g>>))
    BY Eight
  <2>2. QED
    BY <2>1, Zenon DEF b, a, e, f, g
<1>5. <<"PEER", " ">> = k ++ sp /\ <<role, " ">> = r ++ sp
  BY <1>1, <1>2, Two
<1>6. <<"9", " ">> = i ++ sp /\ <<"7", Newline>> = p ++ nl
  BY <1>1, <1>2, Two
<1>7. Wire!EncodePeer([role |-> role, ip |-> "9", port |-> "7"]) = Spaced(k, Spaced(r, Spaced(i, p ++ nl)))
  BY <1>3, <1>4, <1>5, <1>6, Zenon DEF Spaced
<1> HIDE DEF k, r, i, p, nl, sp
<1>8. Spaced(i, p) ++ nl = Spaced(i, p ++ nl) /\ Spaced(i, p) \in Text
  BY <1>1, SpacedMore, SpacedType
<1>9. Spaced(r, Spaced(i, p)) ++ nl = Spaced(r, Spaced(i, p ++ nl)) /\ Spaced(r, Spaced(i, p)) \in Text
  BY <1>1, <1>8, SpacedMore, SpacedType
<1>10. Spaced(k, Spaced(r, Spaced(i, p))) ++ nl = Spaced(k, Spaced(r, Spaced(i, p ++ nl)))
  BY <1>1, <1>9, SpacedMore
<1>11. QED
  BY <1>7, <1>10 DEF k, r, i, p, nl

LEMMA PeerParsed ==
  ASSUME NEW role \in {"sender", "receiver"}, NEW m \in Text, Wire!Trim(m) = m, Len(m) > 2, m[1] = "PEER",
         NEW words, words = Wire!Words(m), Len(words) = 4,
         words[1] = <<"PEER">>, words[2] = <<role>>, words[3] = <<"9">>, words[4] = <<"7">>
  PROVE  Wire!ParsePeer(m) = [role |-> role, ip |-> "9", port |-> "7"]
<1>1. Wire!RoleOf(words[2]) = role
  <2>1. role = "sender" \/ role = "receiver"
    OBVIOUS
  <2>2. QED
    BY <2>1 DEF Wire!RoleOf
<1>2. Wire!NumberOf(words[3]) = "9" /\ Wire!NumberOf(words[4]) = "7"
  BY DEF Wire!NumberOf, Ports
<1>3. Invalid \notin {role, "9", "7"}
  BY MarksAssumption DEF Ports
<1> DEFINE peer == [role |-> Wire!RoleOf(words[2]), ip |-> Wire!NumberOf(words[3]), port |-> Wire!NumberOf(words[4])]
<1>4. peer = [role |-> role, ip |-> "9", port |-> "7"]
  BY <1>1, <1>2
<1>5. Invalid \notin {peer.role, peer.ip, peer.port}
  BY <1>3, <1>4
<1>6. m # <<"WAITING">>
  BY NotOne
<1>7. Wire!ParsePeer(m) = peer
  <2>1. Len(Wire!Words(m)) = 4 /\ Wire!Words(m)[1] = <<"PEER">> /\ Wire!Trim(m) # <<"WAITING">>
    BY <1>6
  <2>2. peer = [role |-> Wire!RoleOf(Wire!Words(m)[2]), ip |-> Wire!NumberOf(Wire!Words(m)[3]),
                port |-> Wire!NumberOf(Wire!Words(m)[4])]
    OBVIOUS
  <2>3. ~Wire!IsPrefix(<<"ERROR", " ">>, m)
    <3>1. "ERROR" \in Token /\ " " \in Token
      BY WireText, BlankTokens
    <3>2. m # <<>>
      BY EmptyText
    <3>3. QED
      BY <3>1, <3>2, OtherFirst
  <2> HIDE DEF peer
  <2>4. QED
    BY <1>5, <2>1, <2>2, <2>3 DEF Wire!ParsePeer
<1>8. QED
  BY <1>4, <1>7

\* An announcement of a peer arrives.
LEMMA PeerArrives ==
  ASSUME NEW role \in {"sender", "receiver"}
  PROVE  LET peer == [role |-> role, ip |-> "9", port |-> "7"]
         IN Wire!EventOf(Wire!EncodePeer(peer)) = peer
<1> DEFINE k == One("PEER")  r == One(role)  i == One("9")  p == One("7")  nl == One(Newline)
           line == Wire!EncodePeer([role |-> role, ip |-> "9", port |-> "7"])
           w == Spaced(i, p)  v == Spaced(r, w)  m == Spaced(k, v)
<1>1. /\ k \in Text /\ k # <<>> /\ LacksAll(k, Blanks) /\ Opens(k, Blanks) /\ "PEER" \in Token
      /\ r \in Text /\ r # <<>> /\ LacksAll(r, Blanks)
  <2>1. "PEER" \in Token /\ "PEER" \notin Blanks
    BY WireText
  <2>2. QED
    BY <2>1, WireText, AllInOne
<1>2. /\ i \in Text /\ i # <<>> /\ LacksAll(i, Blanks)
      /\ p \in Text /\ p # <<>> /\ LacksAll(p, Blanks) /\ Closes(p, Blanks)
      /\ nl \in Text /\ AllIn(nl, Blanks)
  <2>1. "7" \in Token /\ "7" \notin Blanks
    BY WireText
  <2>2. QED
    BY <2>1, WireText, BlankTokens, OneText, AllInOne
<1>3. line = m ++ nl
  BY PeerLine
<1> HIDE DEF k, r, i, p, nl, line
<1>4. w \in Text /\ w # <<>> /\ Closes(w, Blanks) /\ Words(w) = One(i) ++ One(p)
  BY <1>2, SpacedType, SpacedCloses, SpacedFirst, WordsWhole
<1> HIDE DEF w
<1>5. v \in Text /\ v # <<>> /\ Closes(v, Blanks) /\ Words(v) = One(r) ++ (One(i) ++ One(p))
  BY <1>1, <1>4, SpacedType, SpacedCloses, SpacedFirst
<1> HIDE DEF v
<1>6. /\ m \in Text /\ m # <<>> /\ Opens(m, Blanks) /\ Closes(m, Blanks)
      /\ Words(m) = One(k) ++ (One(r) ++ (One(i) ++ One(p)))
  <2>1. Opens(m, Blanks)
    BY <1>1, <1>5, SpacedWords
  <2>2. QED
    BY <1>1, <1>5, <2>1, SpacedType, SpacedCloses, SpacedFirst
<1>7. m[1] = "PEER" /\ Len(m) > 2
  BY <1>1, <1>5, SpacedRest DEF k
<1> HIDE DEF m
<1>8. Trim(line) = m /\ Trim(m) = m
  BY <1>2, <1>3, <1>6, TrimOf
<1>9. Wire!EventOf(line) = Wire!ParsePeer(m)
  BY <1>6, <1>7, <1>8, OtherLine
<1>10. Wire!ParsePeer(m) = [role |-> role, ip |-> "9", port |-> "7"]
  <2> DEFINE words == <<k, r, i, p>>
  <2>1. words = One(k) ++ (One(r) ++ (One(i) ++ One(p)))
    BY FourApart
  <2>2. words = Wire!Words(m)
    BY <1>6, <2>1, SameOperators
  <2>3. Len(words) = 4
    OBVIOUS
  <2>4. words[1] = k /\ words[2] = r /\ words[3] = i /\ words[4] = p
    OBVIOUS
  <2> HIDE DEF words
  <2>5. words[1] = <<"PEER">> /\ words[2] = <<role>> /\ words[3] = <<"9">> /\ words[4] = <<"7">>
    BY <2>4 DEF k, r, i, p, One
  <2>6. Wire!Trim(m) = m
    BY <1>8, SameOperators
  <2>7. QED
    BY <1>6, <1>7, <2>2, <2>3, <2>5, <2>6, PeerParsed
<1>11. QED
  BY <1>9, <1>10 DEF line
-----------------------------------------------------------------------------
LEMMA MediaLine ==
  ASSUME NEW payload \in Text
  PROVE  Wire!EncodeMedia([sequence |-> "7", at |-> "9", source |-> <<"a">>, payload |-> payload])
           = Field(One("FRAME"), Field(One("7"), Field(One("9"), Field(One("a"), payload))))
<1> DEFINE f == One("FRAME")  s == One("7")  t == One("9")  a == One("a")  bar == One("|")
<1>1. /\ f \in Text /\ s \in Text /\ t \in Text /\ a \in Text /\ bar \in Text
      /\ "FRAME" \in Token /\ "7" \in Token /\ "9" \in Token /\ "|" \in Token
  <2>1. "|" \in Token
    BY DEF Token
  <2>2. QED
    BY <2>1, WireText, OneText
<1>2. Wire!EncodeMedia([sequence |-> "7", at |-> "9", source |-> <<"a">>, payload |-> payload])
        = ((<<"FRAME", "|", "7", "|", "9", "|">> ++ a) ++ bar) ++ payload
  BY Zenon DEF Wire!EncodeMedia, ++, One
<1>3. <<"FRAME", "|", "7", "|", "9", "|">> = <<"FRAME", "|">> ++ (<<"7", "|">> ++ <<"9", "|">>)
  BY SixApart
<1>4. <<"FRAME", "|">> = f ++ bar /\ <<"7", "|">> = s ++ bar /\ <<"9", "|">> = t ++ bar
  BY <1>1, Two
<1> DEFINE x == (f ++ bar) ++ ((s ++ bar) ++ (t ++ bar))
<1>5. Wire!EncodeMedia([sequence |-> "7", at |-> "9", source |-> <<"a">>, payload |-> payload])
        = ((x ++ a) ++ bar) ++ payload
  BY <1>2, <1>3, <1>4, Zenon
<1> HIDE DEF f, s, t, a, bar
<1>6. f ++ bar \in Text /\ s ++ bar \in Text /\ t ++ bar \in Text
  BY <1>1, TwoJoined
<1>7. (s ++ bar) ++ (t ++ bar) \in Text /\ x \in Text
  BY <1>6, TwoJoined
<1> HIDE DEF x
<1> DEFINE w == Field(a, payload)
<1>8. ((x ++ a) ++ bar) ++ payload = x ++ w
  <2>1. (x ++ a) ++ bar = x ++ (a ++ bar) /\ a ++ bar \in Text
    BY <1>1, <1>7, ThreeJoined, TwoJoined
  <2>2. (x ++ (a ++ bar)) ++ payload = x ++ ((a ++ bar) ++ payload)
    BY <1>7, <2>1, ThreeJoined
  <2>3. QED
    BY <2>1, <2>2 DEF Field, bar
<1>9. w \in Text
  BY <1>1, FieldType
<1> HIDE DEF w
<1>10. x ++ w = (f ++ bar) ++ ((s ++ bar) ++ ((t ++ bar) ++ w))
  <2>1. ((s ++ bar) ++ (t ++ bar)) ++ w = (s ++ bar) ++ ((t ++ bar) ++ w)
    BY <1>6, <1>9, ThreeJoined
  <2>2. x ++ w = (f ++ bar) ++ (((s ++ bar) ++ (t ++ bar)) ++ w)
    BY <1>6, <1>7, <1>9, ThreeJoined DEF x
  <2>3. QED
    BY <2>1, <2>2
<1>11. x ++ w = Field(f, Field(s, Field(t, w)))
  BY <1>10 DEF Field, bar
<1>12. QED
  BY <1>5, <1>8, <1>11 DEF f, s, t, a, w

\* A media packet arrives, whatever it carries.
LEMMA MediaArrives ==
  ASSUME NEW payload \in Text
  PROVE  LET packet == [sequence |-> "7", at |-> "9", source |-> <<"a">>, payload |-> payload]
         IN Wire!DecodeMedia(Wire!EncodeMedia(packet)) = packet
<1> DEFINE f == One("FRAME")  s == One("7")  t == One("9")  a == One("a")
           packet == [sequence |-> "7", at |-> "9", source |-> <<"a">>, payload |-> payload]
           line == Wire!EncodeMedia(packet)  parts == Wire!SplitN(line, {"|"}, 5)
           u4 == Field(a, payload)  u3 == Field(t, u4)  u2 == Field(s, u3)  u1 == Field(f, u2)
<1>1. /\ f \in Text /\ s \in Text /\ t \in Text /\ a \in Text
      /\ Lacks(f, "|") /\ Lacks(s, "|") /\ Lacks(t, "|") /\ Lacks(a, "|")
  BY WireText
<1>2. line = u1
  BY MediaLine
<1> HIDE DEF f, s, t, a
<1>3. u4 \in Text /\ SplitN(u4, {"|"}, 2) = One(a) ++ One(payload)
  <2>1. SplitN(payload, {"|"}, 1) = One(payload)
    BY SplitWhole
  <2>2. 2 \in Int /\ 2 > 1 /\ 2 - 1 = 1
    OBVIOUS
  <2>3. SplitN(u4, {"|"}, 2) = One(a) ++ SplitN(payload, {"|"}, 2 - 1)
    BY <1>1, <2>2, FieldSplit
  <2>4. QED
    BY <1>1, <2>1, <2>2, <2>3, FieldType
<1> HIDE DEF u4
<1>4. u3 \in Text /\ SplitN(u3, {"|"}, 3) = One(t) ++ SplitN(u4, {"|"}, 2)
  <2>1. 3 \in Int /\ 3 > 1 /\ 3 - 1 = 2
    OBVIOUS
  <2>2. SplitN(u3, {"|"}, 3) = One(t) ++ SplitN(u4, {"|"}, 3 - 1)
    BY <1>1, <1>3, <2>1, FieldSplit
  <2>3. QED
    BY <1>1, <1>3, <2>1, <2>2, FieldType
<1> HIDE DEF u3
<1>5. u2 \in Text /\ SplitN(u2, {"|"}, 4) = One(s) ++ SplitN(u3, {"|"}, 3)
  <2>1. 4 \in Int /\ 4 > 1 /\ 4 - 1 = 3
    OBVIOUS
  <2>2. SplitN(u2, {"|"}, 4) = One(s) ++ SplitN(u3, {"|"}, 4 - 1)
    BY <1>1, <1>4, <2>1, FieldSplit
  <2>3. QED
    BY <1>1, <1>4, <2>1, <2>2, FieldType
<1> HIDE DEF u2
<1>6. SplitN(u1, {"|"}, 5) = One(f) ++ SplitN(u2, {"|"}, 4)
  <2>1. 5 \in Int /\ 5 > 1 /\ 5 - 1 = 4
    OBVIOUS
  <2>2. SplitN(u1, {"|"}, 5) = One(f) ++ SplitN(u2, {"|"}, 5 - 1)
    BY <1>1, <1>5, <2>1, FieldSplit
  <2>3. QED
    BY <2>1, <2>2
<1> HIDE DEF u1, line
<1>7. parts = <<f, s, t, a, payload>>
  <2>1. <<f, s, t, a, payload>> = One(f) ++ (One(s) ++ (One(t) ++ (One(a) ++ One(payload))))
    BY <1>1, Five
  <2>2. parts = SplitN(line, {"|"}, 5)
    BY SameOperators
  <2>3. QED
    BY <1>2, <1>3, <1>4, <1>5, <1>6, <2>1, <2>2
<1>8. Len(parts) = 5 /\ parts[1] = f /\ parts[2] = s /\ parts[3] = t /\ parts[4] = a /\ parts[5] = payload
  <2> HIDE DEF parts
  <2>1. QED
    BY <1>7
<1> HIDE DEF parts
<1>9. parts[1] = <<"FRAME">> /\ parts[2] = <<"7">> /\ parts[3] = <<"9">> /\ parts[4] = <<"a">>
  BY <1>8 DEF f, s, t, a, One
<1>10. Wire!NumberOf(parts[2]) = "7" /\ Wire!NumberOf(parts[3]) = "9"
  BY <1>9 DEF Wire!NumberOf, Ports
<1>11. Invalid \notin {"7", "9"}
  BY MarksAssumption DEF Ports
<1> DEFINE got == [sequence |-> Wire!NumberOf(parts[2]), at |-> Wire!NumberOf(parts[3]),
                   source |-> parts[4], payload |-> parts[5]]
<1>12. got = packet
  BY <1>8, <1>9, <1>10
<1>13. Invalid \notin {got.sequence, got.at}
  BY <1>10, <1>11
<1>14. Wire!DecodeMedia(line) = got
  BY <1>8, <1>9, <1>13 DEF Wire!DecodeMedia, parts
<1>15. QED
  BY <1>12, <1>14 DEF line

\* Texts that every peer sends.
LEMMA SentTexts ==
  /\ <<"a">> \in Seq(WireTokens) /\ Unpadded(<<"a">>) = <<"a">>
  /\ None # One("-") /\ <<"a">> # One("-")
<1>1. <<"a">> \in Seq(WireTokens) /\ One("-") \in Seq(WireTokens)
  BY DEF WireTokens, One
<1>2. None # One("-")
  BY <1>1, MarksAssumption
<1>3. <<"a">> # One("-")
  BY DEF One
<1>4. Unpadded(<<"a">>) = <<"a">>
  <2> DEFINE a == One("a")
  <2>0. "a" \in Token /\ "a" \notin Spaces
    BY DEF Token, Spaces
  <2>1. a \in Text /\ Closes(a, Spaces)
    BY <2>0, OneText, AllInOne
  <2>2. <<>> \in Text /\ AllIn(<<>>, Spaces) /\ a ++ <<>> = a
    BY <2>1, EmptyText, AllInNothing, NoneJoined
  <2>3. Unpadded(a) = a
    <3> HIDE DEF a
    <3>1. QED
      BY <2>1, <2>2, UnpaddedIs
  <2>4. QED
    BY <2>3 DEF One
<1>5. QED
  BY <1>1, <1>2, <1>3, <1>4

-----------------------------------------------------------------------------
(***************************************************************************)
(* Source ids.                                                              *)
(***************************************************************************)
LEMMA SameListing ==
  /\ \A t : Ids!Words(t) = Words(t)
  /\ \A t : Ids!LinesOf(t) = LinesOf(t)
  /\ \A t, s : Ids!Split(t, s) = Split(t, s)
  /\ \A t, s : Ids!Joined(t, s) = Joined(t, s)
  /\ \A t : Ids!NotEmpty(t) = NotEmpty(t)
  /\ \A p, t : Ids!IsPrefix(p, t) = IsPrefix(p, t)
<1>1. Ids!Newline = Newline /\ Ids!Blanks = Blanks
  BY DEF Ids!Newline, Newline, Ids!Blanks, Blanks
<1>2. \A t, s : Ids!Split(t, s) = Split(t, s)
  BY DEF Ids!Split, Split, Ids!SplitN, SplitN, Ids!NextPart, NextPart
<1>3. \A t : Ids!NotEmpty(t) = NotEmpty(t)
  BY DEF Ids!NotEmpty, NotEmpty, Ids!Retain, Retain
<1>4. \A t : Ids!Words(t) = Words(t)
  BY <1>1, <1>2, <1>3 DEF Ids!Words, Words
<1>5. \A t, s : Ids!Joined(t, s) = Joined(t, s)
  BY DEF Ids!Joined, Joined, Ids!NextJoined, NextJoined
<1>6. \A t : Ids!Chomped(t) = Chomped(t)
  BY DEF Ids!Chomped, Chomped, Ids!Last, Last, Ids!Front, Front
<1>7. \A p : Ids!Terminated(p) = Terminated(p)
  BY <1>3, <1>6 DEF Ids!Terminated, Terminated, Ids!Last, Last
<1>8. \A t : Ids!LinesOf(t) = LinesOf(t)
  BY <1>1, <1>2, <1>7 DEF Ids!LinesOf, LinesOf
<1>9. \A p, t : Ids!IsPrefix(p, t) = IsPrefix(p, t)
  BY DEF Ids!IsPrefix, IsPrefix
<1>10. QED
  BY <1>2, <1>3, <1>4, <1>5, <1>8, <1>9

\* A slug is a text, whatever it is made of.
LEMMA SlugifyType ==
  ASSUME NEW t \in Text
  PROVE  Ids!Slugify(t) \in Text
<1> DEFINE plain == [i \in DOMAIN t |-> IF t[i] \in Letters THEN t[i] ELSE "-"]
           words == NotEmpty(Split(plain, Ids!Dashes))
<1>1. plain \in Text
  <2>1. DOMAIN t = 1..Len(t) /\ Len(t) \in Nat /\ \A i \in 1..Len(t) : t[i] \in Token
    BY LenProperties, ElementOfSeq DEF Text
  <2>2. "-" \in Token
    BY DEF Token
  <2>3. plain \in [1..Len(t) -> Token]
    BY <2>1, <2>2
  <2>4. QED
    BY <2>1, <2>3, SeqDef DEF Text
<1> HIDE DEF plain
<1>2. words \in Seq(Text)
  BY <1>1, SplitText, NotEmptyLast, EmptyText
<1>3. One("-") \in Text /\ One("unnamed") \in Text
  BY OneText DEF Token
<1>4. Joined(words, One("-")) \in Text
  BY <1>2, <1>3, JoinedType
<1>5. Ids!Slugify(t) = IF words = <<>> THEN One("unnamed") ELSE Joined(words, One("-"))
  BY SameListing DEF Ids!Slugify, plain, One
<1>6. QED
  BY <1>3, <1>4, <1>5

\* Three tokens say which window an id is of.
IdHead(window) == One("linux-window") ++ (One("-") ++ One(window))

LEMMA HeadType ==
  ASSUME NEW w \in Token
  PROVE  IdHead(w) \in Text /\ Len(IdHead(w)) = 3 /\ IdHead(w)[3] = w
<1>1. One("linux-window") \in Text /\ One("-") \in Text /\ One(w) \in Text
      /\ "linux-window" \in Token /\ "-" \in Token
  BY OneText DEF Token
<1>2. /\ One("-") ++ One(w) \in Text /\ Len(One("-") ++ One(w)) = Len(One(w)) + 1
      /\ \A i \in 1..Len(One(w)) : (One("-") ++ One(w))[i + 1] = One(w)[i]
  BY <1>1, TokensAfterFirst
<1>3. Len(One(w)) = 1 /\ One(w)[1] = w
  BY OneText
<1> DEFINE r == One("-") ++ One(w)
<1>4. r \in Text /\ Len(r) = 2 /\ r[2] = w
  BY <1>2, <1>3
<1> HIDE DEF r
<1>5. /\ One("linux-window") ++ r \in Text /\ Len(One("linux-window") ++ r) = Len(r) + 1
      /\ \A i \in 1..Len(r) : (One("linux-window") ++ r)[i + 1] = r[i]
  BY <1>1, <1>4, TokensAfterFirst
<1>6. (One("linux-window") ++ r)[2 + 1] = r[2] /\ Len(One("linux-window") ++ r) = 3
  BY <1>4, <1>5
<1>7. QED
  BY <1>4, <1>5, <1>6 DEF IdHead, r

\* Whatever the names of the application and of the window are.
LEMMA WindowIdIs ==
  ASSUME NEW w \in Token, NEW app \in Text, NEW title \in Text
  PROVE  LET id == Ids!WindowId(One(w), app, title) IN id \in Text /\ SubSeq(id, 1, 3) = IdHead(w)
<1> DEFINE l == One("linux-window")  d == One("-")  x == One(w)
           a == Ids!Slugify(app)  b == Ids!Slugify(title)
           p == l ++ d
           rest == ((d ++ a) ++ d) ++ b
<1>1. l \in Text /\ d \in Text /\ x \in Text /\ a \in Text /\ b \in Text
  BY OneText, SlugifyType DEF Token
<1>2. Ids!WindowId(One(w), app, title) = ((((p ++ x) ++ d) ++ a) ++ d) ++ b
  BY DEF Ids!WindowId, One, ++
<1> HIDE DEF l, d, x, a, b
<1>3. p \in Text /\ p ++ x \in Text /\ p ++ x = l ++ (d ++ x)
  BY <1>1, TwoJoined, ThreeJoined
<1> HIDE DEF p
<1>4. d ++ a \in Text /\ (d ++ a) ++ d \in Text /\ rest \in Text
  BY <1>1, TwoJoined
<1>5. ((((p ++ x) ++ d) ++ a) ++ d) ++ b = (p ++ x) ++ rest
  <2> DEFINE h == p ++ x
  <2>1. h \in Text
    BY <1>3
  <2> HIDE DEF h
  <2>2. (h ++ d) ++ a = h ++ (d ++ a)
    BY <1>1, <2>1, ThreeJoined
  <2>3. (h ++ (d ++ a)) ++ d = h ++ ((d ++ a) ++ d)
    BY <1>1, <1>4, <2>1, ThreeJoined
  <2>4. (h ++ ((d ++ a) ++ d)) ++ b = h ++ (((d ++ a) ++ d) ++ b)
    BY <1>1, <1>4, <2>1, ThreeJoined
  <2>5. QED
    BY <2>2, <2>3, <2>4 DEF h
<1>6. p ++ x = IdHead(w) /\ Len(IdHead(w)) = 3 /\ IdHead(w) \in Text
  BY <1>3, HeadType DEF IdHead, l, d, x
<1> HIDE DEF rest
<1>7. IdHead(w) ++ rest \in Text /\ SubSeq(IdHead(w) ++ rest, 1, 3) = IdHead(w)
  BY <1>4, <1>6, CutBefore, TwoJoined
<1>8. QED
  BY <1>2, <1>5, <1>6, <1>7 DEF rest

\* The rows of a listing: a title is empty or has a word.
LEMMA RowParts ==
  ASSUME NEW row \in Rows
  PROVE  /\ row.window \in {"7", "9"} /\ row.app \in {"7", "9"} /\ row.title \in Text
         /\ row.title # <<>> => ~AllIn(row.title, Blanks)
         /\ Lacks(row.title, Newline) /\ Lacks(row.title, "cr")
<1> DEFINE titles == {<<>>, <<"a">>, <<"-", "a">>, <<"a", " ", "b">>}
<1>1. row.window \in {"7", "9"} /\ row.app \in {"7", "9"} /\ row.title \in titles
  <2> DEFINE t == titles
  <2>1. row \in [window : {"7", "9"}, app : {"7", "9"}, title : t]
    BY Zenon DEF Rows
  <2> HIDE DEF t
  <2>2. row.window \in {"7", "9"} /\ row.app \in {"7", "9"} /\ row.title \in t
    BY <2>1
  <2>3. QED
    BY <2>2, Zenon DEF t
<1> DEFINE a == One("a")  b == One("b")  d == One("-")  s == One(" ")
<1>2. row.title = <<>> \/ row.title = a \/ row.title = d ++ a \/ row.title = a ++ (s ++ b)
  <2>1. <<"-", "a">> = d ++ a
    <3>1. "a" \in Token /\ "-" \in Token
      BY DEF Token
    <3>2. QED
      BY <3>1, Two
  <2>2. <<"a", " ", "b">> = a ++ (s ++ b)
    <3>1. "a" \in Token /\ " " \in Token /\ "b" \in Token
      BY BlankTokens, Zenon DEF Token
    <3>2. QED
      BY <3>1, Three, Zenon
  <2>3. QED
    BY <1>1, <2>1, <2>2, Zenon DEF One
<1>3. /\ "a" \in Token /\ "b" \in Token /\ "-" \in Token /\ " " \in Token
      /\ "a" \notin Blanks
  <2>1. "a" \in Token /\ "b" \in Token /\ "-" \in Token
    BY DEF Token
  <2>2. "a" \notin Blanks
    BY DEF Blanks, Newline
  <2>3. QED
    BY <2>1, <2>2, BlankTokens
<1>4. Newline # "a" /\ Newline # "b" /\ Newline # "-" /\ Newline # " "
  BY Zenon DEF Newline
<1>5. a \in Text /\ b \in Text /\ d \in Text /\ s \in Text /\ a # <<>>
  BY <1>3, OneText
<1>6. /\ Lacks(a, Newline) /\ Lacks(b, Newline) /\ Lacks(d, Newline) /\ Lacks(s, Newline)
      /\ Lacks(a, "cr") /\ Lacks(b, "cr") /\ Lacks(d, "cr") /\ Lacks(s, "cr")
  BY <1>3, <1>4, LacksOne
<1>7. ~AllIn(a, Blanks)
  BY <1>3, AllInOne
<1> HIDE DEF a, b, d, s
<1>8. CASE row.title = <<>>
  BY <1>1, <1>8, EmptyText, LacksNothing
<1>9. CASE row.title = a
  BY <1>1, <1>5, <1>6, <1>7, <1>9
<1>10. CASE row.title = d ++ a
  BY <1>1, <1>5, <1>6, <1>7, <1>10, TwoJoined, LacksBoth, AllInBoth
<1>11. CASE row.title = a ++ (s ++ b)
  <2>1. s ++ b \in Text /\ Lacks(s ++ b, Newline) /\ Lacks(s ++ b, "cr")
    BY <1>5, <1>6, TwoJoined, LacksBoth
  <2> DEFINE e == s ++ b
  <2> HIDE DEF e
  <2>2. e \in Text /\ Lacks(e, Newline) /\ Lacks(e, "cr") /\ row.title = a ++ e
    BY <1>11, <2>1 DEF e
  <2>3. a ++ e \in Text /\ Lacks(a ++ e, Newline) /\ Lacks(a ++ e, "cr")
    BY <1>5, <1>6, <2>2, TwoJoined, LacksBoth
  <2>4. ~AllIn(a ++ e, Blanks)
    BY <1>5, <1>7, <2>2, AllInBoth
  <2>5. QED
    BY <1>1, <2>2, <2>3, <2>4
<1>12. QED
  BY <1>2, <1>8, <1>9, <1>10, <1>11

\* The line of a row, without its newline.
RowText(row) ==
  Spaced(One(row.window), Spaced(One("0"), Spaced(One(row.app), Spaced(One("a"), row.title))))

\* A line is that text and a newline.
LEMMA RowLineIs ==
  ASSUME NEW row \in Rows
  PROVE  RowLine(row) = RowText(row) ++ One(Newline)
<1> DEFINE w == One(row.window)  o == One("0")  p == One(row.app)  a == One("a")  s == One(" ")
           t == row.title
<1>1. /\ w \in Text /\ o \in Text /\ p \in Text /\ a \in Text /\ s \in Text /\ t \in Text
      /\ row.window \in Token /\ row.app \in Token
  <2>1. row.window \in Token /\ row.app \in Token /\ "0" \in Token /\ "a" \in Token
    BY RowParts DEF Token
  <2>2. " " \in Token
    BY BlankTokens
  <2>3. QED
    BY <2>1, <2>2, OneText, RowParts
<1>2. <<row.window, " ", "0", " ", row.app, " ", "a", " ">>
        = (w ++ s) ++ ((o ++ s) ++ ((p ++ s) ++ (a ++ s)))
  <2>1. " " \in Token /\ "0" \in Token /\ "a" \in Token /\ row.window \in Token /\ row.app \in Token
    BY <1>1, BlankTokens, Zenon DEF Token
  <2>2. <<row.window, " ">> = w ++ s /\ <<"0", " ">> = o ++ s /\ <<row.app, " ">> = p ++ s
        /\ <<"a", " ">> = a ++ s
    BY <2>1, Two, Zenon
  <2>3. <<row.window, " ", "0", " ", row.app, " ", "a", " ">>
          = <<row.window, " ">> ++ (<<"0", " ">> ++ (<<row.app, " ">> ++ <<"a", " ">>))
    <3> DEFINE b == " "  x == row.window  y == row.app  z == "0"  u == "a"
    <3> HIDE DEF b, x, y, z, u
    <3>1. <<x, b, z, b, y, b, u, b>> = <<x, b>> ++ (<<z, b>> ++ (<<y, b>> ++ <<u, b>>))
      BY Eight
    <3>2. QED
      BY <3>1, Zenon DEF b, x, y, z, u
  <2>4. QED
    BY <2>2, <2>3, Zenon
<1>3. RowLine(row) = (((w ++ s) ++ ((o ++ s) ++ ((p ++ s) ++ (a ++ s)))) ++ t) ++ One(Newline)
  <2>1. T!Newline = Newline
    BY DEF T!Newline, Newline
  <2>2. RowLine(row) = (<<row.window, " ", "0", " ", row.app, " ", "a", " ">> ++ t) ++ One(Newline)
    BY <2>1, Zenon DEF RowLine, One, ++
  <2>3. QED
    BY <1>2, <2>2, Zenon
<1>4. RowText(row) = (w ++ s) ++ ((o ++ s) ++ ((p ++ s) ++ ((a ++ s) ++ t)))
  BY Zenon DEF RowText, Spaced
<1> HIDE DEF w, o, p, a, s, t
<1> DEFINE wx == w ++ s  ox == o ++ s  px == p ++ s  ax == a ++ s
<1>5. wx \in Text /\ ox \in Text /\ px \in Text /\ ax \in Text
  BY <1>1, TwoJoined
<1> HIDE DEF wx, ox, px, ax
<1>7. (wx ++ (ox ++ (px ++ ax))) ++ t = wx ++ (ox ++ (px ++ (ax ++ t)))
  BY <1>1, <1>5, FiveJoined
<1>8. QED
  BY <1>3, <1>4, <1>7 DEF wx, ox, px, ax

\* It is one line, and no carriage return is chopped off.
LEMMA RowTextIs ==
  ASSUME NEW row \in Rows
  PROVE  /\ RowText(row) \in Text /\ LacksAll(RowText(row), {Newline})
         /\ Chomped(RowText(row)) = RowText(row)
<1> DEFINE w == One(row.window)  o == One("0")  p == One(row.app)  a == One("a")  t == row.title
<1>1. /\ w \in Text /\ o \in Text /\ p \in Text /\ a \in Text /\ t \in Text
      /\ row.window \in Token /\ row.app \in Token /\ "0" \in Token /\ "a" \in Token
  <2>1. row.window \in Token /\ row.app \in Token /\ "0" \in Token /\ "a" \in Token
    BY RowParts DEF Token
  <2>2. QED
    BY <2>1, OneText, RowParts
<1>2. ASSUME NEW c \in Token, c = Newline \/ c = "cr"
      PROVE  Lacks(w, c) /\ Lacks(o, c) /\ Lacks(p, c) /\ Lacks(a, c) /\ Lacks(t, c)
  <2>1. row.window # c /\ row.app # c /\ "0" # c /\ "a" # c
    BY <1>2, RowParts DEF Newline
  <2>2. Lacks(w, c) /\ Lacks(o, c) /\ Lacks(p, c) /\ Lacks(a, c)
    BY <1>1, <2>1, LacksOne
  <2>3. Lacks(t, c)
    BY <1>2, RowParts
  <2>4. QED
    BY <2>2, <2>3
<1>3. RowText(row) = Spaced(w, Spaced(o, Spaced(p, Spaced(a, t))))
  BY DEF RowText
<1> HIDE DEF w, o, p, a, t
<1>4. /\ Spaced(a, t) \in Text /\ Spaced(p, Spaced(a, t)) \in Text
      /\ Spaced(o, Spaced(p, Spaced(a, t))) \in Text
      /\ RowText(row) \in Text /\ RowText(row) # <<>>
  BY <1>1, <1>3, SpacedType
<1>5. ASSUME NEW c \in Token, c = Newline \/ c = "cr"
      PROVE  Lacks(RowText(row), c)
  <2>1. Lacks(Spaced(a, t), c)
    BY <1>1, <1>2, <1>5, SpacedLacks
  <2>2. Lacks(Spaced(p, Spaced(a, t)), c)
    BY <1>1, <1>2, <1>4, <1>5, <2>1, SpacedLacks
  <2>3. Lacks(Spaced(o, Spaced(p, Spaced(a, t))), c)
    BY <1>1, <1>2, <1>4, <1>5, <2>2, SpacedLacks
  <2>4. QED
    BY <1>1, <1>2, <1>3, <1>4, <1>5, <2>3, SpacedLacks
<1>6. Newline \in Token /\ "cr" \in Token
  BY BlankTokens
<1>7. Lacks(RowText(row), Newline) /\ Lacks(RowText(row), "cr")
  BY <1>5, <1>6
<1>8. Len(RowText(row)) \in 1..Len(RowText(row))
  BY <1>4, LastIndex
<1>9. Last(RowText(row)) # "cr"
  BY <1>7, <1>8 DEF Lacks, Last
<1>10. Chomped(RowText(row)) = RowText(row)
  BY <1>9 DEF Chomped
<1>11. LacksAll(RowText(row), {Newline})
  BY <1>7 DEF Lacks, LacksAll
<1>12. QED
  BY <1>4, <1>10, <1>11

\* Its words: four that are always there, and those of the title.
LEMMA RowWords ==
  ASSUME NEW row \in Rows
  PROVE  /\ Words(row.title) \in Seq(Text)
         /\ Words(RowText(row))
              = One(One(row.window)) ++ (One(One("0")) ++ (One(One(row.app))
                  ++ (One(One("a")) ++ Words(row.title))))
<1> DEFINE w == One(row.window)  o == One("0")  p == One(row.app)  a == One("a")  t == row.title
<1>1. row.window \in Token /\ row.app \in Token /\ "0" \in Token /\ "a" \in Token
  BY RowParts DEF Token
<1>2. row.window \notin Blanks /\ row.app \notin Blanks /\ "0" \notin Blanks /\ "a" \notin Blanks
  <2>1. "7" \notin Blanks /\ "9" \notin Blanks /\ "0" \notin Blanks /\ "a" \notin Blanks
    BY DEF Blanks, Newline
  <2>2. QED
    BY <2>1, RowParts
<1>3. ASSUME NEW c \in Token, c \notin Blanks
      PROVE  One(c) \in Text /\ One(c) # <<>> /\ LacksAll(One(c), Blanks)
  BY <1>3, OneText DEF LacksAll
<1>4. /\ w \in Text /\ w # <<>> /\ LacksAll(w, Blanks) /\ o \in Text /\ o # <<>> /\ LacksAll(o, Blanks)
      /\ p \in Text /\ p # <<>> /\ LacksAll(p, Blanks) /\ a \in Text /\ a # <<>> /\ LacksAll(a, Blanks)
      /\ t \in Text
  BY <1>1, <1>2, <1>3, RowParts
<1>5. RowText(row) = Spaced(w, Spaced(o, Spaced(p, Spaced(a, t))))
  BY DEF RowText
<1> HIDE DEF w, o, p, a, t
<1>6. Spaced(a, t) \in Text /\ Spaced(p, Spaced(a, t)) \in Text /\ Spaced(o, Spaced(p, Spaced(a, t))) \in Text
  BY <1>4, SpacedType
<1>7. Words(Spaced(a, t)) = One(a) ++ Words(t)
  BY <1>4, SpacedFirst
<1>8. Words(Spaced(p, Spaced(a, t))) = One(p) ++ (One(a) ++ Words(t))
  BY <1>4, <1>6, <1>7, SpacedFirst
<1>9. Words(Spaced(o, Spaced(p, Spaced(a, t)))) = One(o) ++ (One(p) ++ (One(a) ++ Words(t)))
  BY <1>4, <1>6, <1>8, SpacedFirst
<1>10. Words(RowText(row)) = One(w) ++ (One(o) ++ (One(p) ++ (One(a) ++ Words(t))))
  BY <1>4, <1>5, <1>6, <1>9, SpacedFirst
<1>11. Words(t) \in Seq(Text)
  BY <1>4, WordsType
<1>12. QED
  BY <1>10, <1>11 DEF w, o, p, a, t

\* What wmctrl prints, row by row.
ListingSteps(made) ==
  /\ \A i \in 0..Len(input) : made[i] \in Text
  /\ made[0] = <<>>
  /\ \A i \in 1..Len(input) : made[i] = made[i - 1] ++ RowLine(input[i])
  /\ Listing = made[Len(input)]

LEMMA ListingIsMade ==
  ASSUME input \in Seq(Rows)
  PROVE  \E made : ListingSteps(made)
<1> DEFINE len == Len(input)
           Made(g) == g = [i \in 0..len |-> IF i = 0 THEN <<>> ELSE g[i - 1] ++ RowLine(input[i])]
           made == CHOOSE g : Made(g)
           step == [i \in 1..len |-> [p \in Text |-> p ++ RowLine(input[i])]]
<1>1. len \in Nat /\ \A i \in 1..len : input[i] \in Rows
  BY LenProperties, ElementOfSeq
<1>2. <<>> \in Text
  BY EmptyText
<1>3. \A i \in 1..len : \A p \in Text : p ++ RowLine(input[i]) \in Text
  <2> SUFFICES ASSUME NEW i \in 1..len, NEW p \in Text PROVE p ++ RowLine(input[i]) \in Text
    OBVIOUS
  <2>1. RowLine(input[i]) = RowText(input[i]) ++ One(Newline) /\ RowText(input[i]) \in Text
    BY <1>1, RowLineIs, RowTextIs
  <2>2. RowLine(input[i]) \in Text
    BY <2>1, BlankTokens, OneText, TwoJoined
  <2>3. QED
    BY <2>2, TwoJoined
<1>4. step \in [1..len -> [Text -> Text]]
  BY <1>3
<1>5. PICK g : Iterated(Text, <<>>, len, step, g)
  <2> HIDE DEF step, len
  <2>1. QED
    BY <1>1, <1>2, <1>4, StepsTaken
<1>6. g \in [0..len -> Text] /\ g[0] = <<>> /\ \A i \in 1..len : g[i] = step[i][g[i - 1]]
  BY <1>5 DEF Iterated
<1>7. ASSUME NEW i \in 1..len PROVE g[i] = g[i - 1] ++ RowLine(input[i])
  <2>1. i - 1 \in 0..len
    BY <1>1
  <2>2. g[i - 1] \in Text /\ g[i] = step[i][g[i - 1]]
    BY <1>6, <2>1
  <2>3. \A p \in Text : step[i][p] = p ++ RowLine(input[i])
    OBVIOUS
  <2> HIDE DEF step, len
  <2>4. QED
    BY <2>2, <2>3
<1>8. \A i \in 0..len : i = 0 \/ i \in 1..len
  BY <1>1
<1>9. Made(g)
  <2> HIDE DEF step, len
  <2>1. g \in [0..len -> Text]
    BY <1>6
  <2>2. \A i \in 0..len : g[i] = IF i = 0 THEN <<>> ELSE g[i - 1] ++ RowLine(input[i])
    BY <1>6, <1>7, <1>8
  <2>3. QED
    BY <2>1, <2>2
<1>10. Listing = made[len]
  BY DEF Listing, ++
<1>11. Made(made)
  <2> HIDE DEF Made
  <2>1. QED
    BY <1>9
<1> HIDE DEF made
<1>12. /\ made[0] = <<>>
       /\ \A i \in 1..len : made[i] = made[i - 1] ++ RowLine(input[i])
  <2>1. 0 \in 0..len /\ \A i \in 1..len : i \in 0..len /\ i # 0
    BY <1>1
  <2> HIDE DEF len
  <2>2. QED
    BY <1>11, <2>1
<1> HIDE DEF Made
<1>13. \A i \in 0..len : made[i] \in Text
  <2> DEFINE reached == {i \in 0..len : made[i] \in Text}
  <2>1. 0 \in reached
    <3>1. made[0] \in Text /\ 0 \in 0..len
      BY <1>1, <1>2, <1>12
    <3>2. QED
      BY <3>1
  <2>2. ASSUME NEW i \in 1..len, i - 1 \in reached PROVE i \in reached
    <3>1. made[i - 1] \in Text /\ i \in 0..len
      BY <1>1, <2>2
    <3>2. made[i - 1] ++ RowLine(input[i]) \in Text
      BY <1>3, <3>1
    <3>3. QED
      BY <1>12, <3>1, <3>2
  <2>3. 0..len \subseteq reached
    <3> HIDE DEF reached, len
    <3>1. QED
      BY <1>1, <2>1, <2>2, Induction
  <2>4. QED
    BY <2>3
<1>14. QED
  BY <1>10, <1>12, <1>13 DEF ListingSteps

\* The lines of the first i rows.
RowTexts(lines, i) ==
  /\ lines \in Seq(Text) /\ Len(lines) = i
  /\ \A k \in 1..i : lines[k] = RowText(input[k])

\* A listing of i rows.
Prints(raw, i) ==
  \/ i = 0 /\ raw = <<>>
  \/ /\ i > 0
     /\ \E u \in Text : raw = u ++ One(Newline) /\ RowTexts(Split(u, {Newline}), i)

LEMMA OneMoreRow ==
  ASSUME input \in Seq(Rows), NEW i \in 1..Len(input), NEW raw \in Text, Prints(raw, i - 1)
  PROVE  Prints(raw ++ RowLine(input[i]), i)
<1> DEFINE x == RowText(input[i])  nl == One(Newline)
<1>1. /\ input[i] \in Rows /\ Newline \in Token
      /\ RowLine(input[i]) = x ++ nl /\ x \in Text /\ LacksAll(x, {Newline})
  <2>1. input[i] \in Rows
    BY ElementOfSeq
  <2>2. QED
    BY <2>1, RowLineIs, RowTextIs, BlankTokens
<1>2. Split(x, {Newline}) = One(x)
  BY <1>1, SplitNone
<1>3. Len(input) \in Nat /\ i \in Nat /\ i > 0
  BY LenProperties
<1>4. nl \in Text
  BY <1>1, OneText
<1> HIDE DEF x
<1>5. CASE i - 1 = 0 /\ raw = <<>>
  <2>1. i = 1
    BY <1>3, <1>5
  <2>2. raw ++ RowLine(input[i]) = x ++ nl
    BY <1>1, <1>4, <1>5, TwoJoined, NoneJoined
  <2>3. RowTexts(One(x), 1)
    <3>1. One(x) \in Seq(Text) /\ Len(One(x)) = 1 /\ One(x)[1] = x
      BY <1>1, SingleType DEF One
    <3>2. \A k \in 1..1 : k = i
      BY <2>1
    <3>3. \A k \in 1..1 : One(x)[k] = RowText(input[k])
      BY <2>1, <3>1, <3>2 DEF x
    <3>4. QED
      BY <3>1, <3>3 DEF RowTexts
  <2>4. QED
    BY <1>1, <1>2, <1>3, <2>1, <2>2, <2>3 DEF Prints
<1>6. ASSUME i - 1 > 0, NEW u \in Text, raw = u ++ nl, RowTexts(Split(u, {Newline}), i - 1)
      PROVE  Prints(raw ++ RowLine(input[i]), i)
  <2> DEFINE v == (u ++ nl) ++ x  l == Split(u, {Newline})
  <2>1. v \in Text /\ u ++ nl \in Text
    BY <1>1, <1>4, TwoJoined
  <2>2. raw ++ RowLine(input[i]) = v ++ nl
    <3> DEFINE w == u ++ nl
    <3>1. w \in Text /\ raw = w
      BY <1>6, <2>1
    <3> HIDE DEF w
    <3>2. w ++ (x ++ nl) = (w ++ x) ++ nl
      BY <1>1, <1>4, <3>1, ThreeJoined
    <3>3. QED
      BY <1>1, <3>1, <3>2 DEF w
  <2>3. Split(v, {Newline}) = l ++ One(x)
    BY <1>1, <1>2, SplitAll
  <2> HIDE DEF l, v
  <2>4. l \in Seq(Text) /\ Len(l) = i - 1 /\ \A k \in 1..(i - 1) : l[k] = RowText(input[k])
    BY <1>6 DEF RowTexts, l
  <2>5. /\ l ++ One(x) \in Seq(Text) /\ Len(l ++ One(x)) = (i - 1) + 1
        /\ \A k \in 1..(i - 1) : (l ++ One(x))[k] = l[k]
        /\ (l ++ One(x))[(i - 1) + 1] = x
    <3>1. /\ l ++ One(x) \in Seq(Text) /\ Len(l ++ One(x)) = Len(l) + 1
          /\ \A k \in 1..Len(l) : (l ++ One(x))[k] = l[k]
          /\ (l ++ One(x))[Len(l) + 1] = x
      <4>1. l \in Seq(Text) /\ x \in Text
        BY <1>1, <2>4
      <4>2. QED
        BY <4>1, ListOne
    <3>2. QED
      BY <2>4, <3>1
  <2>6. (i - 1) + 1 = i /\ \A k \in 1..i : k \in 1..(i - 1) \/ k = i
    BY <1>3
  <2>7. \A k \in 1..i : (l ++ One(x))[k] = RowText(input[k])
    BY <2>4, <2>5, <2>6 DEF x
  <2>8. RowTexts(l ++ One(x), i)
    BY <2>5, <2>6, <2>7 DEF RowTexts
  <2>9. QED
    BY <1>3, <2>1, <2>2, <2>3, <2>8 DEF Prints
<1>7. QED
  BY <1>5, <1>6 DEF Prints

\* The lines of a listing are the texts of its rows.
LEMMA ListingLines ==
  ASSUME input \in Seq(Rows)
  PROVE  RowTexts(LinesOf(Listing), Len(input))
<1> DEFINE n == Len(input)
<1>1. n \in Nat
  BY LenProperties
<1>2. PICK made : ListingSteps(made)
  BY ListingIsMade
<1>3. /\ \A i \in 0..n : made[i] \in Text
      /\ made[0] = <<>>
      /\ \A i \in 1..n : made[i] = made[i - 1] ++ RowLine(input[i])
      /\ Listing = made[n]
  BY <1>2 DEF ListingSteps
<1>4. \A i \in 0..n : Prints(made[i], i)
  <2> DEFINE reached == {i \in 0..n : Prints(made[i], i)}
  <2>1. 0 \in reached
    BY <1>1, <1>3 DEF Prints
  <2>2. ASSUME NEW i \in 1..n, i - 1 \in reached PROVE i \in reached
    <3>1. i - 1 \in 0..n /\ i \in 0..n /\ made[i - 1] \in Text /\ Prints(made[i - 1], i - 1)
      BY <1>1, <1>3, <2>2
    <3>2. Prints(made[i - 1] ++ RowLine(input[i]), i)
      BY <3>1, OneMoreRow
    <3>3. QED
      BY <1>3, <3>1, <3>2
  <2>3. 0..n \subseteq reached
    <3> HIDE DEF reached, n
    <3>1. QED
      BY <1>1, <2>1, <2>2, Induction
  <2>4. QED
    BY <2>3
<1> HIDE DEF n
<1>5. Prints(Listing, n)
  BY <1>1, <1>3, <1>4
<1>6. CASE n = 0 /\ Listing = <<>>
  <2>1. RowTexts(<<>>, n)
    BY <1>6, EmptySeq DEF RowTexts
  <2>2. QED
    BY <1>6, <2>1, LinesNothing DEF n
<1>7. ASSUME NEW u \in Text, Listing = u ++ One(Newline), RowTexts(Split(u, {Newline}), n)
      PROVE  RowTexts(LinesOf(Listing), n)
  <2> DEFINE l == Split(u, {Newline})
  <2>1. Len(l) = n /\ \A k \in 1..n : l[k] = RowText(input[k]) /\ input[k] \in Rows
    BY <1>7, ElementOfSeq DEF RowTexts, n
  <2>2. \A k \in 1..Len(l) : Chomped(l[k]) = l[k]
    BY <2>1, RowTextIs
  <2>3. LinesOf(u ++ One(Newline)) = l
    BY <2>2, LinesTerminated
  <2>4. QED
    BY <1>7, <2>3
<1>8. QED
  BY <1>5, <1>6, <1>7 DEF Prints, n

Source == [id : Text, title : Text]

\* A row with a title has a source, and the id names its window.
LEMMA RowIsParsed ==
  ASSUME NEW row \in Rows
  PROVE  LET line == RowText(row)  source == Ids!ParseRow(line, Apps) IN
         /\ Ids!IsTitled(line) <=> row.title # <<>>
         /\ row.title # <<>> =>
              source \in Source /\ SubSeq(source.id, 1, 3) = IdHead(row.window)
<1> DEFINE line == RowText(row)  rest == Words(row.title)  words == Words(line)
<1>1. row.window \in Token /\ row.app \in Token /\ "0" \in Token /\ "a" \in Token
      /\ row.title \in Text
  BY RowParts DEF Token
<1>2. /\ One(row.window) \in Text /\ One("0") \in Text /\ One(row.app) \in Text /\ One("a") \in Text
  BY <1>1, OneText
<1>3. rest \in Seq(Text)
      /\ words = One(One(row.window)) ++ (One(One("0")) ++ (One(One(row.app)) ++ (One(One("a")) ++ rest)))
  BY RowWords
<1> HIDE DEF words, rest
<1>4. words \in Seq(Text) /\ Len(words) = 4 + Len(rest) /\ words[1] = One(row.window)
  <2> DEFINE a == One(row.window)  b == One("0")  c == One(row.app)  d == One("a")
  <2>1. a \in Text /\ b \in Text /\ c \in Text /\ d \in Text
        /\ words = One(a) ++ (One(b) ++ (One(c) ++ (One(d) ++ rest)))
    BY <1>2, <1>3
  <2> HIDE DEF a, b, c, d
  <2>2. a \in Text /\ b \in Text /\ c \in Text /\ d \in Text /\ rest \in Seq(Text)
    BY <1>3, <2>1
  <2>3. words \in Seq(Text)
    BY <2>1, <2>2, FourWords
  <2>4. Len(words) = 4 + Len(rest)
    BY <2>1, <2>2, FourWords
  <2>5. words[1] = a
    BY <2>1, <2>2, FirstWord
  <2>6. QED
    BY <2>3, <2>4, <2>5 DEF a
<1>5. Len(rest) \in Nat /\ (Len(rest) >= 1 <=> row.title # <<>>)
  <2>1. Len(rest) \in Nat
    BY <1>3, LenProperties
  <2>2. CASE row.title = <<>>
    <3>1. rest = <<>>
      BY <2>2, NoWords DEF rest
    <3>2. Len(rest) = 0
      BY <3>1, EmptyText
    <3>3. QED
      BY <2>2, <3>2
  <2>3. CASE row.title # <<>>
    <3>1. Len(rest) >= 1
      BY <1>1, <2>3, RowParts, WordsSome DEF rest
    <3>2. QED
      BY <2>3, <3>1
  <2>4. QED
    BY <2>1, <2>2, <2>3
<1>6. Ids!IsTitled(line) <=> row.title # <<>>
  <2>1. Ids!IsTitled(line) <=> Len(words) > 4
    BY SameListing DEF Ids!IsTitled, words
  <2>2. QED
    BY <1>4, <1>5, <2>1
<1>7. ASSUME row.title # <<>>
      PROVE  LET source == Ids!ParseRow(line, Apps)
             IN source \in Source /\ SubSeq(source.id, 1, 3) = IdHead(row.window)
  <2> DEFINE blank == One(" ")
             title == Joined(SubSeq(words, 5, Len(words)), blank)
             app == IF words[3] \in DOMAIN Apps THEN Apps[words[3]] ELSE <<"unknown-app">>
             id == Ids!WindowId(One(row.window), app, title)
  <2>1. title \in Text
    <3>1. blank \in Text
      BY BlankTokens, OneText
    <3> HIDE DEF blank
    <3>2. Len(words) \in Nat /\ \A i \in 1..Len(words) : words[i] \in Text
      BY <1>4, LenProperties, ElementOfSeq
    <3>3. \A i \in 5..Len(words) : words[i] \in Text
      BY <3>2
    <3>4. SubSeq(words, 5, Len(words)) \in Seq(Text)
      BY <3>2, <3>3, SubSeqProperties
    <3>5. QED
      BY <3>1, <3>4, JoinedType
  <2>2. app \in Text
    <3>1. One("a") \in Text /\ One("unknown-app") \in Text
      BY OneText DEF Token
    <3>2. \A x \in DOMAIN Apps : Apps[x] = <<"a">>
      BY DEF Apps
    <3>3. QED
      BY <3>1, <3>2 DEF One
  <2>3. Ids!ParseRow(line, Apps) = [id |-> id, title |-> title]
    <3>1. Ids!Words(line) = words
      BY SameListing DEF words
    <3>2. Ids!Joined(SubSeq(words, 5, Len(words)), blank) = title
      BY SameListing
    <3> DEFINE apps == Apps
    <3> HIDE DEF apps
    <3>3. Ids!ParseRow(line, apps)
            = [id |-> Ids!WindowId(words[1],
                                   IF words[3] \in DOMAIN apps THEN apps[words[3]] ELSE <<"unknown-app">>,
                                   Ids!Joined(SubSeq(words, 5, Len(words)), blank)),
               title |-> Ids!Joined(SubSeq(words, 5, Len(words)), blank)]
      BY <3>1, Zenon DEF Ids!ParseRow, One
    <3>4. QED
      BY <1>4, <3>2, <3>3, Zenon DEF apps
  <2> HIDE DEF title, app
  <2>4. id \in Text /\ SubSeq(id, 1, 3) = IdHead(row.window)
    BY <1>1, <2>1, <2>2, WindowIdIs
  <2> HIDE DEF id
  <2>5. QED
    BY <2>1, <2>3, <2>4 DEF Source
<1>8. QED
  BY <1>6, <1>7

\* parse_window_listing goes through the lines one by one.
SourcesSteps(lines, made) ==
  /\ \A i \in 0..Len(lines) : made[i] \in Seq(Source)
  /\ made[0] = <<>>
  /\ \A i \in 1..Len(lines) : made[i] = Ids!NextSource(made[i - 1], lines[i], Apps)
  /\ Ids!ParseListing(Listing, Apps) = made[Len(lines)]

LEMMA SourcesAreMade ==
  ASSUME input \in Seq(Rows), NEW lines, lines = Ids!LinesOf(Listing), RowTexts(lines, Len(input))
  PROVE  \E made : SourcesSteps(lines, made)
<1> DEFINE len == Len(lines)
           Made(g) == g = [i \in 0..len |-> IF i = 0 THEN <<>> ELSE Ids!NextSource(g[i - 1], lines[i], Apps)]
           made == CHOOSE g : Made(g)
           step == [i \in 1..len |-> [p \in Seq(Source) |-> Ids!NextSource(p, lines[i], Apps)]]
<1>1. len \in Nat /\ \A i \in 1..len : input[i] \in Rows /\ lines[i] = RowText(input[i])
  BY LenProperties, ElementOfSeq DEF RowTexts
<1>2. <<>> \in Seq(Source)
  BY EmptySeq
<1>3. \A i \in 1..len : \A p \in Seq(Source) : Ids!NextSource(p, lines[i], Apps) \in Seq(Source)
  <2> SUFFICES ASSUME NEW i \in 1..len, NEW p \in Seq(Source)
               PROVE  Ids!NextSource(p, lines[i], Apps) \in Seq(Source)
    OBVIOUS
  <2> DEFINE line == lines[i]  source == Ids!ParseRow(line, Apps)
  <2>1. Ids!IsTitled(line) => source \in Source
    BY <1>1, RowIsParsed
  <2> HIDE DEF source, line
  <2>2. Ids!NextSource(p, line, Apps)
          = IF Ids!IsTitled(line) /\ \A k \in 1..Len(p) : p[k].id # source.id
            THEN Append(p, source) ELSE p
    BY DEF Ids!NextSource, source
  <2>3. QED
    BY <2>1, <2>2, AppendProperties DEF line
<1>4. step \in [1..len -> [Seq(Source) -> Seq(Source)]]
  BY <1>3
<1>5. PICK g : Iterated(Seq(Source), <<>>, len, step, g)
  <2> HIDE DEF step, len
  <2>1. QED
    BY <1>1, <1>2, <1>4, StepsTaken
<1>6. g \in [0..len -> Seq(Source)] /\ g[0] = <<>> /\ \A i \in 1..len : g[i] = step[i][g[i - 1]]
  BY <1>5 DEF Iterated
<1>7. ASSUME NEW i \in 1..len PROVE g[i] = Ids!NextSource(g[i - 1], lines[i], Apps)
  <2>1. i - 1 \in 0..len
    BY <1>1
  <2>2. g[i - 1] \in Seq(Source) /\ g[i] = step[i][g[i - 1]]
    BY <1>6, <2>1
  <2>3. \A p \in Seq(Source) : step[i][p] = Ids!NextSource(p, lines[i], Apps)
    OBVIOUS
  <2> HIDE DEF step, len
  <2>4. QED
    BY <2>2, <2>3
<1>8. \A i \in 0..len : i = 0 \/ i \in 1..len
  BY <1>1
<1>9. Made(g)
  <2> HIDE DEF step, len
  <2>1. g \in [0..len -> Seq(Source)]
    BY <1>6
  <2>2. \A i \in 0..len : g[i] = IF i = 0 THEN <<>> ELSE Ids!NextSource(g[i - 1], lines[i], Apps)
    BY <1>6, <1>7, <1>8
  <2>3. QED
    BY <2>1, <2>2
<1>10. Ids!ParseListing(Listing, Apps) = made[len]
  BY DEF Ids!ParseListing
<1>11. Made(made)
  <2> HIDE DEF Made
  <2>1. QED
    BY <1>9
<1> HIDE DEF made
<1>12. /\ made[0] = <<>>
       /\ \A i \in 1..len : made[i] = Ids!NextSource(made[i - 1], lines[i], Apps)
  <2>1. 0 \in 0..len /\ \A i \in 1..len : i \in 0..len /\ i # 0
    BY <1>1
  <2> HIDE DEF len
  <2>2. QED
    BY <1>11, <2>1
<1> HIDE DEF Made
<1>13. \A i \in 0..len : made[i] \in Seq(Source)
  <2> DEFINE reached == {i \in 0..len : made[i] \in Seq(Source)}
  <2>1. 0 \in reached
    <3>1. made[0] \in Seq(Source) /\ 0 \in 0..len
      BY <1>1, <1>2, <1>12
    <3>2. QED
      BY <3>1
  <2>2. ASSUME NEW i \in 1..len, i - 1 \in reached PROVE i \in reached
    <3>1. made[i - 1] \in Seq(Source) /\ i \in 0..len
      BY <1>1, <2>2
    <3>2. Ids!NextSource(made[i - 1], lines[i], Apps) \in Seq(Source)
      BY <1>3, <3>1
    <3>3. QED
      BY <1>12, <3>1, <3>2
  <2>3. 0..len \subseteq reached
    <3> HIDE DEF reached, len
    <3>1. QED
      BY <1>1, <2>1, <2>2, Induction
  <2>4. QED
    BY <2>3
<1>14. QED
  BY <1>10, <1>12, <1>13 DEF SourcesSteps

\* What is offered after i rows: no id twice, rows with a title, and all of them.
NoneTwice(sources) ==
  \A a, b \in 1..Len(sources) : sources[a].id = sources[b].id => a = b
FromRow(source, j) ==
  input[j].title # <<>> /\ SubSeq(source.id, 1, 3) = IdHead(input[j].window)
FromRows(sources, i) ==
  \A a \in 1..Len(sources) : \E j \in 1..i : FromRow(sources[a], j)
OfAllRows(sources, i) ==
  \A j \in 1..i : input[j].title # <<>> => \E a \in 1..Len(sources) : FromRow(sources[a], j)
IdsOffered(sources, i) == NoneTwice(sources) /\ FromRows(sources, i) /\ OfAllRows(sources, i)

\* A row adds its source, or its id is there already.
LEMMA NextSourceKeeps ==
  ASSUME input \in Seq(Rows), NEW i \in 1..Len(input), NEW sources \in Seq(Source),
         IdsOffered(sources, i - 1)
  PROVE  IdsOffered(Ids!NextSource(sources, RowText(input[i]), Apps), i)
<1> DEFINE line == RowText(input[i])  source == Ids!ParseRow(line, Apps)
           next == Ids!NextSource(sources, line, Apps)
           new == \A k \in 1..Len(sources) : sources[k].id # source.id
           n == Len(sources)
<1>1. input[i] \in Rows /\ Len(input) \in Nat /\ n \in Nat
  BY ElementOfSeq, LenProperties
<1>2. /\ Ids!IsTitled(line) <=> input[i].title # <<>>
      /\ input[i].title # <<>> =>
           source \in Source /\ SubSeq(source.id, 1, 3) = IdHead(input[i].window)
  BY <1>1, RowIsParsed
<1>3. next = IF Ids!IsTitled(line) /\ new THEN Append(sources, source) ELSE sources
  BY DEF Ids!NextSource
<1> HIDE DEF source, line, next
<1> SUFFICES IdsOffered(next, i)
  BY DEF next, line
<1>4. i - 1 \in Nat /\ i \in 1..i /\ \A j \in 1..i : j \in 1..(i - 1) \/ j = i
  BY <1>1
<1>5. \A j \in 1..(i - 1) : j \in 1..i
  BY <1>1
<1>6. NoneTwice(sources) /\ FromRows(sources, i - 1) /\ OfAllRows(sources, i - 1)
  BY DEF IdsOffered
<1>7. FromRows(sources, i)
  BY <1>5, <1>6 DEF FromRows
<1>8. CASE input[i].title = <<>>
  <2>1. next = sources
    BY <1>2, <1>3, <1>8
  <2>2. OfAllRows(sources, i)
    BY <1>4, <1>6, <1>8 DEF OfAllRows
  <2>3. QED
    BY <1>6, <1>7, <2>1, <2>2 DEF IdsOffered
<1>9. CASE input[i].title # <<>> /\ ~new
  <2>1. next = sources
    BY <1>3, <1>9
  <2>2. PICK k \in 1..n : sources[k].id = source.id
    BY <1>9
  <2>3. FromRow(sources[k], i)
    BY <1>2, <1>9, <2>2 DEF FromRow
  <2>4. OfAllRows(sources, i)
    BY <1>4, <1>6, <2>3 DEF OfAllRows
  <2>5. QED
    BY <1>6, <1>7, <2>1, <2>4 DEF IdsOffered
<1>10. CASE input[i].title # <<>> /\ new
  <2>1. next = Append(sources, source)
    BY <1>2, <1>3, <1>10
  <2>2. source \in Source /\ FromRow(source, i)
    BY <1>2, <1>10 DEF FromRow
  <2>3. /\ Len(next) = n + 1 /\ next[n + 1] = source
        /\ \A k \in 1..n : next[k] = sources[k]
    BY <2>1, <2>2, AppendProperties
  <2>4. \A k \in 1..Len(next) : k \in 1..n \/ k = n + 1
    BY <1>1, <2>3
  <2>5. n + 1 \in 1..Len(next) /\ \A k \in 1..n : k \in 1..Len(next)
    BY <1>1, <2>3
  <2>6. \A k \in 1..n : sources[k].id # source.id
    BY <1>10
  <2>7. NoneTwice(next)
    <3> SUFFICES ASSUME NEW a \in 1..Len(next), NEW b \in 1..Len(next), next[a].id = next[b].id
                 PROVE  a = b
      BY DEF NoneTwice
    <3>1. CASE a \in 1..n /\ b \in 1..n
      BY <1>6, <2>3, <3>1 DEF NoneTwice
    <3>2. CASE a = n + 1 /\ b \in 1..n
      BY <2>3, <2>6, <3>2
    <3>3. CASE a \in 1..n /\ b = n + 1
      BY <2>3, <2>6, <3>3
    <3>4. QED
      BY <2>4, <3>1, <3>2, <3>3
  <2>8. FromRows(next, i)
    <3> SUFFICES ASSUME NEW a \in 1..Len(next) PROVE \E j \in 1..i : FromRow(next[a], j)
      BY DEF FromRows
    <3>1. CASE a = n + 1
      BY <1>4, <2>2, <2>3, <3>1
    <3>2. CASE a \in 1..n
      BY <1>7, <2>3, <3>2 DEF FromRows
    <3>3. QED
      BY <2>4, <3>1, <3>2
  <2>9. OfAllRows(next, i)
    <3> SUFFICES ASSUME NEW j \in 1..i, input[j].title # <<>>
                 PROVE  \E a \in 1..Len(next) : FromRow(next[a], j)
      BY DEF OfAllRows
    <3>1. CASE j = i
      BY <2>2, <2>3, <2>5, <3>1
    <3>2. CASE j \in 1..(i - 1)
      <4>1. PICK a \in 1..n : FromRow(sources[a], j)
        BY <1>6, <3>2 DEF OfAllRows
      <4>2. QED
        BY <2>3, <2>5, <4>1
    <3>3. QED
      BY <1>4, <3>1, <3>2
  <2>10. QED
    BY <2>7, <2>8, <2>9 DEF IdsOffered
<1>11. QED
  BY <1>8, <1>9, <1>10

\* So it is of a whole listing.
LEMMA SourcesOffered ==
  ASSUME input \in Seq(Rows)
  PROVE  /\ Ids!ParseListing(Listing, Apps) \in Seq(Source)
         /\ IdsOffered(Ids!ParseListing(Listing, Apps), Len(input))
<1> DEFINE n == Len(input)  lines == Ids!LinesOf(Listing)
<1>1. n \in Nat
  BY LenProperties
<1>2. RowTexts(lines, n)
  BY ListingLines, SameListing
<1>3. PICK made : SourcesSteps(lines, made)
  <2> HIDE DEF lines
  <2>1. lines = Ids!LinesOf(Listing)
    BY DEF lines
  <2>2. QED
    BY <1>2, <2>1, SourcesAreMade
<1> HIDE DEF lines
<1>4. Len(lines) = n /\ \A i \in 1..n : lines[i] = RowText(input[i])
  BY <1>2 DEF RowTexts
<1>5. /\ \A i \in 0..n : made[i] \in Seq(Source)
      /\ made[0] = <<>>
      /\ \A i \in 1..n : made[i] = Ids!NextSource(made[i - 1], RowText(input[i]), Apps)
      /\ Ids!ParseListing(Listing, Apps) = made[n]
  BY <1>3, <1>4 DEF SourcesSteps
<1>6. \A i \in 0..n : IdsOffered(made[i], i)
  <2> DEFINE reached == {i \in 0..n : IdsOffered(made[i], i)}
  <2>1. 0 \in reached
    <3>1. Len(made[0]) = 0
      BY <1>5
    <3>2. \A x : x \notin 1..0
      OBVIOUS
    <3>3. QED
      BY <1>1, <3>1, <3>2 DEF IdsOffered, NoneTwice, FromRows, OfAllRows
  <2>2. ASSUME NEW i \in 1..n, i - 1 \in reached PROVE i \in reached
    <3>1. i - 1 \in 0..n /\ i \in 0..n /\ made[i - 1] \in Seq(Source) /\ IdsOffered(made[i - 1], i - 1)
      BY <1>1, <1>5, <2>2
    <3>2. IdsOffered(Ids!NextSource(made[i - 1], RowText(input[i]), Apps), i)
      BY <3>1, NextSourceKeeps
    <3>3. QED
      BY <1>5, <3>1, <3>2
  <2>3. 0..n \subseteq reached
    <3> HIDE DEF reached, n
    <3>1. QED
      BY <1>1, <2>1, <2>2, Induction
  <2>4. QED
    BY <2>3
<1>7. n \in 0..n
  BY <1>1
<1>8. QED
  BY <1>5, <1>6, <1>7

\* There are as many beginnings of ids as there are windows.
LEMMA HeadsOfWindows ==
  ASSUME NEW W, W \subseteq {"7", "9"}
  PROVE  Cardinality({IdHead(w) : w \in W}) = Cardinality(W)
<1> DEFINE heads == {IdHead(w) : w \in W}  f == [w \in W |-> IdHead(w)]
<1>1. IsFiniteSet(W)
  <2>1. IsFiniteSet({"7"}) /\ IsFiniteSet({"9"})
    BY FS_Singleton
  <2>2. IsFiniteSet({"7"} \cup {"9"})
    BY <2>1, FS_Union
  <2>3. W \in SUBSET ({"7"} \cup {"9"})
    OBVIOUS
  <2>4. QED
    BY <2>2, <2>3, FS_Subset
<1>2. \A w \in W : IdHead(w)[3] = w
  <2>1. \A w \in W : w \in Token
    BY DEF Token
  <2>2. QED
    BY <2>1, HeadType
<1>3. ExistsBijection(W, heads)
  <2>1. f \in [W -> heads] /\ (\A a, b \in W : f[a] = f[b] => a = b)
        /\ \A t \in heads : \E s \in W : f[s] = t
    BY <1>2
  <2>2. f \in Bijection(W, heads)
    BY <2>1 DEF Bijection, Injection, Surjection, IsInjective
  <2>3. QED
    BY <2>2 DEF ExistsBijection
<1>4. QED
  BY <1>1, <1>3, FS_Bijection

\* The ids of macOS.  What a kind's ids begin with.
LEMMA PrefixIs ==
  ASSUME NEW kind \in Ids!MacKinds
  PROVE  LET p == Ids!Prefix(kind)
         IN p \in Text /\ p # <<>> /\ Len(p) = 4 /\ p[3] = kind
<1>1. "macos" \in Token /\ "-" \in Token /\ kind \in Token
  BY DEF Token, Ids!MacKinds
<1>2. Ids!Prefix(kind) = <<"macos", "-", kind, "-">>
  BY DEF Ids!Prefix
<1>3. <<"macos", "-", kind, "-">> \in Seq(Token)
  BY <1>1
<1>4. QED
  BY <1>2, <1>3 DEF Text

\* Digits are no dashes.
LEMMA NumberIs ==
  ASSUME NEW n \in Numerals \cup {<<"0">>}
  PROVE  n \in Text /\ n # <<>> /\ Split(n, Ids!Dashes) = One(n)
<1>1. PICK c \in {"7", "9", "0"} : n = One(c)
  BY DEF Numerals, One
<1>2. c \in Token /\ c \notin Ids!Dashes
  BY DEF Token, Ids!Dashes
<1>3. One(c) \in Text /\ One(c) # <<>> /\ LacksAll(One(c), Ids!Dashes)
  BY <1>2, OneText DEF LacksAll
<1>4. QED
  BY <1>1, <1>3, SplitNone

\* What follows the prefix.
Target(kind, n) ==
  [kind |-> kind, identifier |-> n, display |-> IF kind = "application" THEN <<"9">> ELSE None]
Rest(kind, n) == IF kind = "application" THEN (n ++ One("-")) ++ One("9") ELSE n

\* An id is its prefix and the rest.
LEMMA MacIdIs ==
  ASSUME NEW kind \in Ids!MacKinds, NEW n \in Numerals \cup {<<"0">>}
  PROVE  /\ Rest(kind, n) \in Text
         /\ Ids!MacId(Target(kind, n)) = Ids!Prefix(kind) ++ Rest(kind, n)
<1> DEFINE p == Ids!Prefix(kind)  d == One("-")  e == One("9")
<1>1. p \in Text /\ n \in Text /\ d \in Text /\ e \in Text
  BY PrefixIs, NumberIs, OneText DEF Token
<1>2. CASE kind = "application"
  <2>1. Ids!MacId(Target(kind, n)) = (p ++ n) ++ (d ++ e)
    BY <1>2 DEF Ids!MacId, Target, One, ++
  <2> HIDE DEF p, d, e
  <2>2. d ++ e \in Text /\ n ++ d \in Text /\ (n ++ d) ++ e \in Text
    BY <1>1, TwoJoined
  <2>3. (p ++ n) ++ (d ++ e) = p ++ (n ++ (d ++ e)) /\ (n ++ d) ++ e = n ++ (d ++ e)
    BY <1>1, <2>2, ThreeJoined
  <2>4. QED
    BY <1>2, <2>1, <2>2, <2>3 DEF Rest, p, d, e
<1>3. CASE kind # "application"
  <2>1. Ids!MacId(Target(kind, n)) = (p ++ n) ++ <<>>
    BY <1>3 DEF Ids!MacId, Target, ++
  <2> HIDE DEF p
  <2>2. p ++ n \in Text
    BY <1>1, TwoJoined
  <2>3. (p ++ n) ++ <<>> = p ++ n
    BY <2>2, NoneJoined
  <2>4. QED
    BY <1>1, <1>3, <2>1, <2>3 DEF Rest, p
<1>4. QED
  BY <1>2, <1>3

\* The rest has as many fields as the kind wants.
LEMMA FieldsOfId ==
  ASSUME NEW kind \in Ids!MacKinds, NEW n \in Numerals \cup {<<"0">>}
  PROVE  LET fields == Split(Rest(kind, n), Ids!Dashes)
         IN /\ kind # "application" => fields = <<n>>
            /\ kind = "application" => fields = <<n, <<"9">>>>
<1>1. n \in Text /\ Split(n, Ids!Dashes) = One(n)
  BY NumberIs
<1>2. CASE kind # "application"
  BY <1>1, <1>2 DEF Rest, One
<1>3. CASE kind = "application"
  <2>1. "-" \in Token /\ "-" \in Ids!Dashes
    BY DEF Token, Ids!Dashes
  <2>2. One("9") \in Text /\ Split(One("9"), Ids!Dashes) = One(One("9"))
    BY NumberIs DEF Numerals, One
  <2>3. Split((n ++ One("-")) ++ One("9"), Ids!Dashes) = One(n) ++ One(One("9"))
    BY <1>1, <2>1, <2>2, SplitAll
  <2>4. One(n) ++ One(One("9")) = <<n, <<"9">>>>
    <3>1. <<n, One("9")>> = One(n) ++ One(One("9"))
      BY <1>1, <2>2, Two
    <3>2. QED
      BY <3>1 DEF One
  <2>5. QED
    BY <1>3, <2>3, <2>4 DEF Rest
<1>4. QED
  BY <1>2, <1>3

\* An id is parsed as what it was given to, by its kind and by no other.
LEMMA TargetFound ==
  ASSUME NEW kind \in Ids!MacKinds, NEW other \in Ids!MacKinds, NEW n \in Numerals \cup {<<"0">>}
  PROVE  Ids!ParseTarget(Ids!MacId(Target(kind, n)), other)
           = IF kind = other /\ n \in Numerals THEN Target(kind, n) ELSE None
<1> DEFINE id == Ids!MacId(Target(kind, n))  p == Ids!Prefix(kind)  q == Ids!Prefix(other)
           rest == Rest(kind, n)
<1>1. rest \in Text /\ id = p ++ rest
  BY MacIdIs
<1>2. /\ p \in Text /\ p # <<>> /\ Len(p) = 4 /\ p[3] = kind
      /\ q \in Text /\ q # <<>> /\ Len(q) = 4 /\ q[3] = other
  BY PrefixIs
<1> HIDE DEF id, p, q, rest
<1>3. id \in Text /\ Len(id) = 4 + Len(rest) /\ Len(rest) \in Nat
  <2>1. id \in Text /\ Len(id) = Len(p) + Len(rest)
    BY <1>1, <1>2, TwoJoined
  <2>2. QED
    BY <1>1, <1>2, <2>1, LenText
<1>4. CASE kind # other
  <2>1. 3 \in 1..Len(p)
    BY <1>2
  <2>2. (p ++ rest)[3] = p[3]
    BY <1>1, <1>2, <2>1, TokensOfBoth
  <2>3. q[3] # id[3] /\ id # <<>> /\ 3 \in 1..Len(q)
    BY <1>1, <1>2, <1>3, <1>4, <2>2, LenText
  <2>4. ~IsPrefix(q, id)
    BY <1>2, <1>3, <2>3, NoPrefix
  <2>5. Ids!ParseTarget(id, other) = None
    BY <2>4, SameListing DEF Ids!ParseTarget, q
  <2>6. QED
    BY <1>4, <2>5 DEF id
<1>5. CASE kind = other
  <2>1. p = q /\ IsPrefix(q, id)
    BY <1>1, <1>2, <1>5, PrefixOf DEF p, q
  <2>2. SubSeq(id, Len(q) + 1, Len(id)) = rest
    <3>1. 1 \in 1..(Len(rest) + 1) /\ 1 + Len(p) = Len(q) + 1
      BY <1>2, <1>3
    <3>2. From(p ++ rest, 1 + Len(p)) = From(rest, 1)
      BY <1>1, <1>2, <3>1, FromSecond
    <3>3. From(rest, 1) = rest
      BY <1>1, FromFirst
    <3>4. QED
      BY <1>1, <3>1, <3>2, <3>3 DEF From
  <2> DEFINE fields == Split(rest, Ids!Dashes)  wanted == IF other = "application" THEN 2 ELSE 1
  <2>3. /\ kind # "application" => fields = <<n>>
        /\ kind = "application" => fields = <<n, <<"9">>>>
    BY FieldsOfId DEF rest
  <2> HIDE DEF fields
  <2>4. Ids!ParseTarget(id, other)
          = IF Len(fields) = wanted /\ \A i \in DOMAIN fields : fields[i] \in Numerals
            THEN [kind |-> other, identifier |-> fields[1],
                  display |-> IF wanted = 2 THEN fields[2] ELSE None]
            ELSE None
    <3>1. Ids!Split(SubSeq(id, Len(q) + 1, Len(id)), Ids!Dashes) = fields
      BY <2>2, SameListing DEF fields
    <3>2. Ids!IsPrefix(q, id)
      BY <2>1, SameListing
    <3>3. QED
      BY <3>1, <3>2 DEF Ids!ParseTarget, q
  <2>5. <<"9">> \in Numerals
    BY DEF Numerals
  <2>6. CASE kind = "application"
    <3>1. /\ Len(fields) = 2 /\ fields[1] = n /\ fields[2] = <<"9">> /\ DOMAIN fields = {1, 2}
      BY <2>3, <2>6
    <3>2. wanted = 2
      BY <1>5, <2>6
    <3>3. (\A i \in DOMAIN fields : fields[i] \in Numerals) <=> n \in Numerals
      BY <2>5, <3>1
    <3>4. Ids!ParseTarget(id, other)
            = IF n \in Numerals THEN [kind |-> other, identifier |-> n, display |-> <<"9">>] ELSE None
      BY <2>4, <3>1, <3>2, <3>3
    <3>5. QED
      BY <1>5, <2>6, <3>4 DEF Target, id
  <2>7. CASE kind # "application"
    <3>1. /\ Len(fields) = 1 /\ fields[1] = n /\ DOMAIN fields = {1}
      BY <2>3, <2>7
    <3>2. wanted = 1
      BY <1>5, <2>7
    <3>3. (\A i \in DOMAIN fields : fields[i] \in Numerals) <=> n \in Numerals
      BY <3>1
    <3>4. Ids!ParseTarget(id, other)
            = IF n \in Numerals THEN [kind |-> other, identifier |-> n, display |-> None] ELSE None
      BY <2>4, <3>1, <3>2, <3>3
    <3>5. QED
      BY <1>5, <2>7, <3>4 DEF Target, id
  <2>8. QED
    BY <2>6, <2>7
<1>6. QED
  BY <1>4, <1>5

-----------------------------------------------------------------------------
(***************************************************************************)
(* The invariant.                                                           *)
(***************************************************************************)
LEMMA InvariantHolds == Init => EncodersInvariant
<1> SUFFICES ASSUME Init PROVE EncodersInvariant
  OBVIOUS
<1>1. input = <<>> /\ Len(input) = 0 /\ Count = 0
  BY DEF Init, Count
<1>2. opus = [pending |-> <<>>, stamp |-> -1, expected |-> -1, gaps |-> 0, packets |-> <<>>]
  BY DEF Init, Encode!NewOpus, Encode!Never
<1>3. h264 = [last |-> -1, size |-> -1, frames |-> <<>>]
  BY DEF Init, Encode!NewH264, Encode!Never
<1>4. AudioKept
  <2>1. opus \in Opus
    BY <1>2 DEF Opus
  <2>2. /\ opus.pending = <<>> /\ opus.packets = <<>> /\ Len(opus.pending) = 0
        /\ Len(opus.packets) = 0 /\ opus.expected = Encode!Never
    BY <1>2 DEF Encode!Never
  <2>3. LastOf(opus.packets, Len(opus.packets)) = 0
    BY <2>2 DEF LastOf
  <2>4. Waiting(opus, Tolerance * Len(input), Count)
    BY <1>1, <2>2, <2>3 DEF Waiting, Steady
  <2>5. Kept(opus, Tolerance * Len(input), Count)
    BY <2>1, <2>2, <2>4 DEF Kept
  <2>6. Len(opus.pending) < PacketFrames
    BY <2>2, AlgorithmsAssumption
  <2>7. input \in Seq(Buffer)
    BY <1>1
  <2>8. QED
    BY <1>1, <2>2, <2>5, <2>6, <2>7 DEF AudioKept
<1>5. VideoKept
  <2>1. h264 \in H264 /\ h264.frames = <<>> /\ Len(h264.frames) = 0
    BY <1>3 DEF H264
  <2>2. QED
    BY <1>1, <2>1 DEF VideoKept, Remembered
<1>6. InputGiven
  BY <1>1 DEF InputGiven
<1>7. QED
  BY <1>4, <1>5, <1>6 DEF EncodersInvariant

\* Other problems have no encoder.
LEMMA LongerKeeps ==
  ASSUME EncodersInvariant, NEW name, NEW elements, NEW bound, Longer(name, elements, bound),
         \/ name = "signal" /\ elements = WireTokens
         \/ name = "settings" /\ elements = SettingTokens
         \/ name = "servers" /\ elements = ServerTokens
         \/ name = "statistics" /\ elements = Reports
         \/ name = "windows" /\ elements = Rows
  PROVE  EncodersInvariant'
<1>1. problem = name /\ problem' = problem
  BY DEF Longer
<1>2. PICK element \in elements : input' = Append(input, element)
  BY DEF Longer
<1>3. AudioKept' /\ VideoKept'
  BY <1>1 DEF AudioKept, VideoKept
<1>4. input' \in Seq(elements)
  <2>1. input \in Seq(elements)
    BY <1>1 DEF EncodersInvariant, InputGiven
  <2>2. QED
    BY <1>2, <2>1, AppendProperties
<1>5. InputGiven'
  BY <1>1, <1>4 DEF InputGiven
<1>6. QED
  BY <1>3, <1>5 DEF EncodersInvariant

\* The samples that were captured.
LEMMA CountIsNatural ==
  ASSUME input \in Seq(Buffer)
  PROVE  Count \in Nat /\ (input # <<>> => Last(input) \in Buffer)
<1>1. CASE input = <<>>
  BY <1>1 DEF Count
<1>2. CASE input # <<>>
  <2>1. Len(input) \in 1..Len(input) /\ Last(input) = input[Len(input)]
    BY <1>2, EmptySeq, LenProperties DEF Last
  <2>2. Last(input) \in Buffer
    BY <2>1, ElementOfSeq
  <2>3. Last(input).first \in Nat /\ Last(input).frames \in Nat \ {0}
    BY <2>2 DEF Buffer
  <2>4. QED
    BY <1>2, <2>2, <2>3 DEF Count
<1>3. QED
  BY <1>1, <1>2

\* A buffer keeps the audio encoder's invariant.
LEMMA EncodeBufferKeeps == EncodersInvariant /\ EncodeBuffer => EncodersInvariant'
<1> SUFFICES ASSUME EncodersInvariant, EncodeBuffer PROVE EncodersInvariant'
  OBVIOUS
<1> DEFINE end == IF input = <<>> THEN MaxLate ELSE Last(input).at + Last(input).frames
<1>1. PICK late \in (-MaxLate)..MaxLate, frames \in BufferSizes :
        LET buffer == [first |-> Count + 1, at |-> end + late, frames |-> frames]
        IN /\ buffer.at >= 0
           /\ input' = Append(input, buffer) /\ opus' = Encode!EncodeAudio(opus, buffer)
  BY DEF EncodeBuffer
<1> DEFINE buffer == [first |-> Count + 1, at |-> end + late, frames |-> frames]
<1>2. problem = "audio" /\ problem' = "audio"
  BY DEF EncodeBuffer
<1>3. /\ input \in Seq(Buffer) /\ Kept(opus, Tolerance * Len(input), Count)
      /\ Len(input) \in Nat /\ Tolerance \in Nat /\ MaxLate \in Nat
  BY <1>2, LenProperties, AlgorithmsAssumption DEF EncodersInvariant, AudioKept
<1>4. end \in Int /\ Count \in Nat
  <2>1. Count \in Nat /\ (input # <<>> => Last(input) \in Buffer)
    BY <1>3, CountIsNatural
  <2>2. input # <<>> => Last(input).at \in Nat /\ Last(input).frames \in Nat
    BY <2>1 DEF Buffer
  <2>3. QED
    BY <1>3, <2>1, <2>2
<1> HIDE DEF end
<1>5. /\ buffer \in Buffer /\ buffer.first = Count + 1
  <2>1. frames \in Nat \ {0} /\ end + late \in Nat
    BY <1>1, <1>3, <1>4, AlgorithmsAssumption
  <2>2. QED
    BY <1>4, <2>1 DEF Buffer
<1>6. input' = Append(input, buffer) /\ opus' = Encode!EncodeAudio(opus, buffer)
  BY <1>1
<1> HIDE DEF buffer
<1>7. /\ input' \in Seq(Buffer) /\ Len(input') = Len(input) + 1
      /\ input'[Len(input')] = buffer
  BY <1>3, <1>5, <1>6, AppendProperties
<1>8. input' # <<>> /\ Last(input)' = buffer
  BY <1>3, <1>7 DEF Last
<1>9. buffer.first \in Nat /\ buffer.frames \in Nat
  BY <1>5 DEF Buffer
<1>10. Count' = Count + buffer.frames
  BY <1>4, <1>5, <1>8, <1>9 DEF Count
<1>11. Tolerance * Len(input) \in Nat /\ Tolerance * Len(input)' = Tolerance * Len(input) + Tolerance
  BY <1>3, <1>7
<1>12. /\ Kept(opus', Tolerance * Len(input) + Tolerance, Count + buffer.frames)
       /\ opus'.expected = buffer.at + buffer.frames /\ Len(opus'.pending) < PacketFrames
  BY <1>3, <1>4, <1>5, <1>6, <1>11, EncodeAudioKeeps
<1>13. AudioKept'
  BY <1>7, <1>8, <1>10, <1>11, <1>12 DEF AudioKept
<1>14. QED
  BY <1>2, <1>13 DEF EncodersInvariant, VideoKept, InputGiven

\* A frame keeps the video encoder's invariant.
LEMMA EncodeFrameKeeps == EncodersInvariant /\ EncodeFrame => EncodersInvariant'
<1> SUFFICES ASSUME EncodersInvariant, EncodeFrame PROVE EncodersInvariant'
  OBVIOUS
<1>1. PICK frame \in Frames :
        input' = Append(input, frame) /\ h264' = Encode!EncodeVideo(h264, frame)
  BY DEF EncodeFrame
<1>2. problem = "video" /\ problem' = "video"
  BY DEF EncodeFrame
<1>3. /\ input \in Seq(Frames) /\ Remembered(h264, AllEncoded(input)) /\ Len(input) \in Nat
  BY <1>2, LenProperties DEF EncodersInvariant, VideoKept
<1>4. /\ input' \in Seq(Frames) /\ Len(input') = Len(input) + 1
      /\ input'[Len(input) + 1] = frame
      /\ \A i \in 1..Len(input) : input'[i] = input[i]
  BY <1>1, <1>3, AppendProperties
<1>5. AllEncoded(input') => AllEncoded(input) /\ frame.outcome = "encoded"
  <2>1. Len(input) + 1 \in 1..Len(input') /\ \A i \in 1..Len(input) : i \in 1..Len(input')
    BY <1>3, <1>4
  <2>2. QED
    BY <1>4, <2>1 DEF AllEncoded
<1>6. AllEncoded(input) \in BOOLEAN /\ AllEncoded(input') \in BOOLEAN
  BY DEF AllEncoded
<1>7. Remembered(h264', AllEncoded(input'))
  BY <1>1, <1>3, <1>5, <1>6, EncodeVideoKeeps
<1>8. VideoKept'
  BY <1>4, <1>7 DEF VideoKept
<1>9. QED
  BY <1>2, <1>8 DEF EncodersInvariant, AudioKept, InputGiven

LEMMA InvariantKept == EncodersInvariant /\ [Next]_vars => EncodersInvariant'
<1> SUFFICES ASSUME EncodersInvariant, [Next]_vars PROVE EncodersInvariant'
  OBVIOUS
<1>1. CASE \/ Longer("signal", WireTokens, MaxText)
           \/ Longer("settings", SettingTokens, MaxSetting)
           \/ Longer("servers", ServerTokens, MaxServers)
           \/ Longer("statistics", Reports, MaxReport)
           \/ Longer("windows", Rows, MaxRows)
  BY <1>1, LongerKeeps
<1>2. CASE EncodeBuffer
  BY <1>2, EncodeBufferKeeps
<1>3. CASE EncodeFrame
  BY <1>3, EncodeFrameKeeps
<1>4. CASE UNCHANGED vars
  BY <1>4 DEF vars, EncodersInvariant, AudioKept, VideoKept, InputGiven, Count
<1>5. QED
  BY <1>1, <1>2, <1>3, <1>4 DEF Next

-----------------------------------------------------------------------------
(***************************************************************************)
(* The theorems.                                                            *)
(***************************************************************************)
\* connection_metrics of lib.rs never shows another pair than the one ICE has
\* nominated, whatever the statistics list.
THEOREM PathIsShown == Spec => []NominatedPathIsShown
<1>1. Reports \subseteq Ice!Entries({1, 2, 3}, {"host", "relay", "srflx"})
  BY DEF Reports, Ice!Entries
<1>2. ASSUME InputGiven PROVE NominatedPathIsShown
  <2> SUFFICES ASSUME problem = "statistics" PROVE ShowsNominatedPath(input)
    BY DEF NominatedPathIsShown
  <2>1. input \in Seq(Reports)
    BY <1>2 DEF InputGiven
  <2>2. input \in Seq(Ice!Entries({1, 2, 3}, {"host", "relay", "srflx"}))
    BY <1>1, <2>1, SeqDef
  <2>3. QED
    BY <2>2, AnyReportShowsPath
<1>3. EncodersInvariant => NominatedPathIsShown
  BY <1>2 DEF EncodersInvariant
<1>4. QED
  BY <1>3, InvariantHolds, InvariantKept, PTL DEF Spec

\* escape_payload and unescape_payload of protocol.rs: no text is changed by being
\* escaped and restored, and escaped it has no separator and no newline.  Rounds
\* are undone in the opposite order; in any other the percent sign of an escape
\* could be taken for that of a text.
THEOREM PayloadsComeBack ==
  \A text \in Text :
    /\ Wire!UnescapePayload(Wire!EscapePayload(text)) = text
    /\ Lacks(Wire!EscapePayload(text), "|") /\ Lacks(Wire!EscapePayload(text), Newline)
BY SamePayloads, PayloadText

\* The same of escape_value and unescape_value of preferences.rs.
THEOREM ValuesComeBack ==
  \A text \in Text :
    /\ Settings!UnescapeValue(Settings!EscapeValue(text)) = text
    /\ Lacks(Settings!EscapeValue(text), "=") /\ Lacks(Settings!EscapeValue(text), Newline)
<1>1. Settings!Newline = Newline
  BY DEF Settings!Newline, Newline
<1>2. \A t, c, x, y : Settings!Escape(t, c, x, y) = Escape(t, c, x, y)
  BY DEF Settings!Escape, Escape, Settings!Replace, Replace, Settings!IsPrefix, IsPrefix
<1>3. \A t, c, x, y : Settings!Unescape(t, c, x, y) = Unescape(t, c, x, y)
  BY DEF Settings!Unescape, Unescape, Settings!Replace, Replace, Settings!IsPrefix, IsPrefix
<1>4. \A t : Settings!EscapeValue(t) = Value(t) /\ Settings!UnescapeValue(t) = Reread(t)
  BY <1>1, <1>2, <1>3 DEF Settings!EscapeValue, Settings!UnescapeValue, Value, Reread
<1>5. QED
  BY <1>4, ValueText

\* What protocol.rs encodes arrives: every description and candidate is one line
\* and decodes, after its way through the server, to what was sent, whatever its
\* text; requests, announcements, errors and packets do too.
THEOREM MessagesArrive == Spec => []MessagesSurvive
<1>1. ASSUME input \in Seq(WireTokens)
      PROVE  /\ \A type \in {"offer", "answer"} :
                  LET line == Wire!EncodeDescription(Wire!Description(type, input))
                  IN OneLine(line) /\ Received(line) = Wire!Description(type, Unpadded(input))
             /\ \A mid \in {None, <<"a">>}, index \in {None, "7"} :
                  LET line == Wire!EncodeCandidate(Wire!Candidate(mid, index, input))
                  IN OneLine(line) /\ Received(line) = Wire!Candidate(mid, index, Unpadded(input))
  <2>1. ASSUME NEW mid \in {None, <<"a">>}, NEW index \in {None, "7"}
        PROVE  LET line == Wire!EncodeCandidate(Wire!Candidate(mid, index, input))
               IN OneLine(line) /\ Received(line) = Wire!Candidate(mid, index, Unpadded(input))
    <3>1. mid \in {None} \cup Seq(WireTokens) /\ mid # One("-")
      BY SentTexts
    <3>2. QED
      BY <1>1, <3>1, CandidateArrives, ZenonT(60)
  <2>2. ASSUME NEW type \in {"offer", "answer"}
        PROVE  LET line == Wire!EncodeDescription(Wire!Description(type, input))
               IN OneLine(line) /\ Received(line) = Wire!Description(type, Unpadded(input))
    BY <1>1, DescriptionArrives
  <2>3. QED
    BY <2>1, <2>2
<1>2. ASSUME input \in Seq(WireTokens)
      PROVE  LET c == Wire!Candidate(input, None, <<"a">>)
             IN /\ OneLine(Wire!EncodeCandidate(c))
                /\ Received(Wire!EncodeCandidate(c)) = IF input = <<"-">> THEN [c EXCEPT !.mid = None] ELSE c
  <2> DEFINE back == IF input = One("-") THEN None ELSE input
             c == Wire!Candidate(input, None, <<"a">>)
  <2>1. <<"a">> \in Seq(WireTokens) /\ Unpadded(<<"a">>) = <<"a">>
    BY SentTexts
  <2>2. (input = One("-") /\ back = None) \/ (input # One("-") /\ back = input)
    OBVIOUS
  <2> HIDE DEF back
  <2>3. /\ OneLine(Wire!EncodeCandidate(c))
        /\ Received(Wire!EncodeCandidate(c)) = Wire!Candidate(back, None, Unpadded(<<"a">>))
    BY <1>2, <2>1, <2>2, CandidateArrives
  <2>4. Wire!Candidate(back, None, <<"a">>) = IF input = <<"-">> THEN [c EXCEPT !.mid = None] ELSE c
    BY DEF back, Wire!Candidate, One
  <2>5. QED
    BY <2>1, <2>3, <2>4
<1>3. ASSUME input \in Seq(WireTokens), NEW role \in {"sender", "receiver"}
      PROVE  /\ Wire!ParseJoin(Wire!EncodeJoin(input, role, "7"))
                   \in {Invalid, [room |-> T!Trim(input), role |-> role, port |-> "7"]}
             /\ Wire!EventOf(Wire!EncodeError(input)) \in {Invalid, [error |-> T!TrimEnd(input)]}
             /\ LET peer == [role |-> role, ip |-> "9", port |-> "7"]
                IN Wire!EventOf(Wire!EncodePeer(peer)) = peer
  <2>1. input \in Text /\ T!Trim(input) = Trim(input) /\ T!TrimEnd(input) = TrimEnd(input)
    BY <1>3, WireText, SameOperators
  <2>2. QED
    BY <2>1, JoinArrives, ErrorArrives, PeerArrives
<1>4. ASSUME input \in Seq(WireTokens)
      PROVE  LET packet == [sequence |-> "7", at |-> "9", source |-> <<"a">>, payload |-> input]
             IN Wire!DecodeMedia(Wire!EncodeMedia(packet)) = packet
  <2>1. input \in Text
    BY <1>4, WireText
  <2>2. QED
    BY <2>1, MediaArrives
<1>5. ASSUME EncodersInvariant PROVE MessagesSurvive
  <2> SUFFICES ASSUME problem = "signal" PROVE MessagesSurvive
    BY DEF MessagesSurvive
  <2>1. input \in Seq(WireTokens)
    BY <1>5 DEF EncodersInvariant, InputGiven
  <2>2. QED
    BY <1>1, <1>2, <1>3, <1>4, <2>1 DEF MessagesSurvive
<1>6. QED
  BY <1>5, InvariantHolds, InvariantKept, PTL DEF Spec

\* parse_window_listing of capture-linux and NativeTarget::parse of capture-macos:
\* of a listing of any length every window with a title is offered, under an id that
\* no other window has; and an id leads back to what it was given to.
THEOREM IdsLeadBack == Spec => []IdsNameTheirSource
<1>1. ASSUME input \in Seq(Rows)
      PROVE  LET sources == Ids!ParseListing(Listing, Apps)
                 titled  == {i \in DOMAIN input : input[i].title # <<>>}
             IN /\ \A i, j \in DOMAIN sources : sources[i].id = sources[j].id => i = j
                /\ Cardinality({SubSeq(sources[i].id, 1, 3) : i \in DOMAIN sources})
                     = Cardinality({input[i].window : i \in titled})
  <2> DEFINE sources == Ids!ParseListing(Listing, Apps)
             titled  == {i \in DOMAIN input : input[i].title # <<>>}
             windows == {input[i].window : i \in titled}
  <2>1. sources \in Seq(Source) /\ IdsOffered(sources, Len(input))
    BY <1>1, SourcesOffered
  <2> HIDE DEF sources
  <2>2. DOMAIN sources = 1..Len(sources) /\ DOMAIN input = 1..Len(input)
    BY <1>1, <2>1, LenProperties
  <2>3. \A i, j \in DOMAIN sources : sources[i].id = sources[j].id => i = j
    BY <2>1, <2>2 DEF IdsOffered, NoneTwice
  <2>4. {SubSeq(sources[i].id, 1, 3) : i \in DOMAIN sources} = {IdHead(w) : w \in windows}
    <3>1. ASSUME NEW i \in DOMAIN sources
          PROVE  \E w \in windows : SubSeq(sources[i].id, 1, 3) = IdHead(w)
      BY <2>1, <2>2 DEF IdsOffered, FromRows, FromRow
    <3>2. ASSUME NEW w \in windows
          PROVE  \E i \in DOMAIN sources : SubSeq(sources[i].id, 1, 3) = IdHead(w)
      <4>1. PICK j \in titled : w = input[j].window
        OBVIOUS
      <4>2. j \in 1..Len(input) /\ input[j].title # <<>>
        BY <2>2
      <4>3. PICK a \in 1..Len(sources) : FromRow(sources[a], j)
        BY <2>1, <4>2 DEF IdsOffered, OfAllRows
      <4>4. QED
        BY <2>2, <4>1, <4>3 DEF FromRow
    <3> HIDE DEF windows
    <3>3. QED
      BY <3>1, <3>2
  <2>5. windows \subseteq {"7", "9"}
    <3>1. \A i \in 1..Len(input) : input[i].window \in {"7", "9"}
      BY <1>1, ElementOfSeq, RowParts
    <3>2. QED
      BY <2>2, <3>1
  <2> HIDE DEF windows
  <2>6. Cardinality({IdHead(w) : w \in windows}) = Cardinality(windows)
    BY <2>5, HeadsOfWindows
  <2>7. QED
    BY <2>3, <2>4, <2>6 DEF sources, windows
<1>2. \A kind, other \in Ids!MacKinds, n \in Numerals \cup {<<"0">>} :
        LET target == [kind |-> kind, identifier |-> n,
                       display |-> IF kind = "application" THEN <<"9">> ELSE None]
        IN Ids!ParseTarget(Ids!MacId(target), other)
             = IF kind = other /\ n \in Numerals THEN target ELSE None
  BY TargetFound DEF Target
<1>3. EncodersInvariant => IdsNameTheirSource
  <2>1. EncodersInvariant /\ problem = "windows" => input \in Seq(Rows)
    BY DEF EncodersInvariant, InputGiven
  <2>2. QED
    BY <1>1, <1>2, <2>1 DEF IdsNameTheirSource
<1>4. QED
  BY <1>3, InvariantHolds, InvariantKept, PTL DEF Spec

\* OpusEncoder and H264Encoder keep the time of what was captured: a packet is
\* whole, follows on the one before it, and its stamp has drifted by no more
\* than the buffers have; frames follow one another, and a new size comes with
\* a keyframe.
THEOREM TimeIsKept == Spec => []EncodersKeepTime
<1>1. ASSUME EncodersInvariant PROVE EncodersKeepTime
  <2>1. ASSUME problem = "audio"
        PROVE  /\ \A k \in 1..Len(opus.packets) :
                    LET samples == opus.packets[k].samples
                    IN /\ Len(samples) = PacketFrames
                       /\ \A i \in 2..Len(samples) :
                            /\ samples[i].number = samples[i - 1].number + 1
                            /\ samples[i].at - samples[i - 1].at \in (1 - Tolerance)..(1 + Tolerance)
                       /\ opus.packets[k].stamp - samples[1].at
                            \in -(Tolerance * Len(input))..(Tolerance * Len(input))
                       /\ samples[1].number > LastOf(opus.packets, k - 1)
                       /\ opus.gaps = 0 => samples[1].number = LastOf(opus.packets, k - 1) + 1
               /\ opus.gaps = 0 => Count = LastOf(opus.packets, Len(opus.packets)) + Len(opus.pending)
    <3>1. Kept(opus, Tolerance * Len(input), Count)
      BY <1>1, <2>1 DEF EncodersInvariant, AudioKept
    <3>2. ASSUME NEW k \in 1..Len(opus.packets)
          PROVE  LET samples == opus.packets[k].samples
                 IN /\ Len(samples) = PacketFrames
                    /\ \A i \in 2..Len(samples) :
                         /\ samples[i].number = samples[i - 1].number + 1
                         /\ samples[i].at - samples[i - 1].at \in (1 - Tolerance)..(1 + Tolerance)
                    /\ opus.packets[k].stamp - samples[1].at
                         \in -(Tolerance * Len(input))..(Tolerance * Len(input))
                    /\ samples[1].number > LastOf(opus.packets, k - 1)
                    /\ opus.gaps = 0 => samples[1].number = LastOf(opus.packets, k - 1) + 1
      <4>1. Sound(opus, k, Tolerance * Len(input))
        BY <3>1 DEF Kept
      <4>2. QED
        BY <4>1 DEF Sound, Steady
    <3>3. opus.gaps = 0 => Count = LastOf(opus.packets, Len(opus.packets)) + Len(opus.pending)
      <4>1. /\ opus.gaps = 0 => Count - Len(opus.pending) = LastOf(opus.packets, Len(opus.packets))
        BY <3>1 DEF Kept, Waiting
      <4>2. Len(opus.pending) \in Nat
        BY <3>1, LenProperties DEF Kept, Opus
      <4>3. Count \in Int
        BY <1>1, <2>1, CountIsNatural DEF EncodersInvariant, AudioKept
      <4>4. QED
        BY <4>1, <4>2, <4>3
    <3>4. QED
      BY <3>2, <3>3
  <2>2. ASSUME problem = "video", NEW i \in 2..Len(h264.frames)
        PROVE  LET one == h264.frames[i - 1]  two == h264.frames[i]
               IN /\ one.stamp < two.stamp /\ one.stamp <= two.stamp - two.lasts
                  /\ (\A k \in 1..Len(input) : input[k].outcome = "encoded") =>
                       two.forced = (one.size # two.size)
    <3>1. Remembered(h264, AllEncoded(input))
      BY <1>1, <2>2 DEF EncodersInvariant, VideoKept
    <3>2. Follows(h264.frames[i - 1], h264.frames[i], AllEncoded(input))
      BY <2>2, <3>1 DEF Remembered
    <3>3. h264.frames \in Seq(Encoded)
      BY <3>1 DEF Remembered, H264
    <3>4. h264.frames[i] \in Encoded
      BY <2>2, <3>3, ElementOfSeq
    <3>5. h264.frames[i].forced \in BOOLEAN
      BY <3>4 DEF Encoded
    <3>6. QED
      BY <3>2, <3>5 DEF Follows, AllEncoded
  <2>3. QED
    BY <2>1, <2>2 DEF EncodersKeepTime
<1>2. QED
  BY <1>1, InvariantHolds, InvariantKept, PTL DEF Spec
=============================================================================
