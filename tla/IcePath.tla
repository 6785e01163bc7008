--------------------------------- MODULE IcePath ---------------------------------
(***************************************************************************)
(* What is shown of the path the media take: the statistics of              *)
(* crates/transport-webrtc/src/lib.rs.  A report is a map that is read in   *)
(* an arbitrary order: here a sequence.                                     *)
(***************************************************************************)
EXTENDS FiniteSetsExt, Retain

CONSTANT None  \* no candidate pair

\* The entries of a report.
Entries(Ids, Types) ==
  [kind : {"pair"}, local : Ids, remote : Ids, nominated : BOOLEAN, succeeded : BOOLEAN,
   traffic : Nat]
    \cup [kind : {"local", "remote"}, id : Ids, type : Types]
    \cup [kind : {"inbound"}, lost : Int, received : Nat]

OfKind(report, kind) == Retain(report, {i \in 1..Len(report) : report[i].kind = kind})

\* The score of a pair: whether it is nominated and has succeeded, whether it
\* has succeeded, and its traffic.
Rank(pair) == IF ~pair.succeeded THEN 0 ELSE IF pair.nominated THEN 2 ELSE 1

\* Mistake: traffic comes first.
FaultyScoresHigher(p, q) == p.traffic > q.traffic

\* They are compared in that order.
ScoresHigher(p, q) == Rank(p) > Rank(q) \/ (Rank(p) = Rank(q) /\ p.traffic > q.traffic)

\* select_active_candidate_pair: max_by_key keeps the last of the best.
ActivePair(report) ==
  LET pairs == OfKind(report, "pair")
      best[i \in 0..Len(pairs)] ==
        IF i = 0 THEN None
        ELSE IF i > 1 /\ ScoresHigher(best[i - 1], pairs[i]) THEN best[i - 1] ELSE pairs[i]
  IN best[Len(pairs)]

\* derive_ice_path_kind, of the candidates of either side that are known: at most
\* one, since an id stands for one candidate
PathKind(local, remote) ==
  CASE \E c \in local \cup remote : c.type = "relay" -> "relay"
    [] local # {} /\ remote # {} /\ \A c \in local \cup remote : c.type # "relay" -> "direct"
    [] OTHER -> "unknown"

\* summarize_ice_path
Path(report) ==
  LET pair == ActivePair(report)
      Known(kind, id) == {c \in {report[i] : i \in 1..Len(report)} : c.kind = kind /\ c.id = id}
  IN IF pair = None THEN "unknown"
     ELSE PathKind(Known("local", pair.local), Known("remote", pair.remote))

Sum(numbers) ==
  LET sum[i \in 0..Len(numbers)] == IF i = 0 THEN 0 ELSE sum[i - 1] + numbers[i]
  IN sum[Len(numbers)]

\* summarize_packet_loss: what was lost, never less than nothing, of how many.
Loss(report) ==
  LET inbound == OfKind(report, "inbound")
      lost == Sum([i \in 1..Len(inbound) |-> Max({inbound[i].lost, 0})])
  IN [lost |-> lost, total |-> lost + Sum([i \in 1..Len(inbound) |-> inbound[i].received])]

\* summarize_transport_metrics: those of the active pair.
Metrics(report) ==
  [traffic |-> IF ActivePair(report) = None THEN None ELSE ActivePair(report).traffic,
   loss |-> Loss(report)]
=============================================================================
