----------------------------- MODULE BenchStats -----------------------------
(***************************************************************************)
(* The figures of the command line client: the import of a capture, the     *)
(* comparison of two runs and the comparison of two groups of runs.  Times   *)
(* are whole milliseconds.  A comparison is one step from its inputs to what *)
(* it prints.                                                               *)
(***************************************************************************)
EXTENDS Integers, Sequences, SequencesExt, FiniteSetsExt

CONSTANTS
  FrameTime,   \* frame times of a capture
  MaxRows,     \* bound: rows of a capture
  Time,        \* P99 and P99.9 of a run
  Hitches,     \* stutter_abs_60hz of a run
  Group        \* three baseline and two treated samples of one metric

StatsAssumption ==
  /\ FrameTime \subseteq Nat /\ MaxRows \in Nat /\ Time \subseteq Nat \ {0}
  /\ Hitches \subseteq Nat /\ Group \subseteq [b: [1..3 -> Nat], t: [1..2 -> Nat]]

VARIABLES asked, said

vars == <<asked, said>>

Total(s) == FoldSeq(LAMBDA x, y: x + y, 0, s)

-----------------------------------------------------------------------------
(* presentmon-import.  A row counts when it is of the process, was shown and *)
(* its time is above 0 and at most 5 s.                                      *)

Row == [app: {"game.exe", "other.exe"}, dropped: BOOLEAN, ft: FrameTime]

Counts(r) == r.app = "game.exe" /\ ~r.dropped /\ r.ft \in 1..5000

\* The frame times that count, in the order of their rows.
Kept(rows) ==
  LET kept == {i \in DOMAIN rows : Counts(rows[i])}
      nth == CHOOSE p \in [1..Cardinality(kept) -> kept] :
               \A k, m \in DOMAIN p : k < m => p[k] < p[m]
  IN  [k \in 1..Cardinality(kept) |-> rows[nth[k]].ft]

(* mutant: the frame times are ranked in the order they were captured.       *)
AsCaptured(s) == s

\* std::sort
Ranked(s) ==
  LET order == CHOOSE p \in [DOMAIN s -> DOMAIN s] :
                 /\ \A i \in DOMAIN s : \E k \in DOMAIN s : p[k] = i
                 /\ \A k, m \in DOMAIN s : k < m => s[p[k]] <= s[p[m]]
  IN  [k \in DOMAIN s |-> s[order[k]]]

(* pct_at: the frame at index floor(p * (n - 1)), p in thousandths.           *)
pct_at(s, p) == s[(p * (Len(s) - 1)) \div 1000 + 1]

Above(s, limit) == Cardinality({i \in DOMAIN s : s[i] > limit})

cmd_presentmon_import(rows) ==
  LET s == Ranked(Kept(rows))
      n == Len(s)
  IN  IF n = 0 THEN [exit |-> 1]
      ELSE [exit |-> 0, n |-> n, sum |-> Total(s),
            p50 |-> pct_at(s, 500), p99 |-> pct_at(s, 990), p999 |-> pct_at(s, 999),
            max |-> s[n], hitches |-> Above(s, 16),
            stutters |-> Cardinality({i \in 1..n : n * s[i] > 2 * Total(s)})]

-----------------------------------------------------------------------------
(* bench diff.  A change of at least p percent is decided without division.  *)

Run == [p99: Time, p999: Time, hitch: Hitches]

Gains(a, b, p) == IF a = 0 THEN p <= 0 ELSE 100 * (a - b) >= p * a

Drops(a, b, p) == IF a = 0 THEN FALSE ELSE 100 * (a - b) <= -p * a

cmd_bench_diff(a, b) ==
  CASE Gains(a.p999, b.p999, 10) /\ Gains(a.p99, b.p99, 2) /\ Gains(a.hitch, b.hitch, -10)
         -> "SIGNIFICANT"
    [] Gains(a.p999, b.p999, 3) /\ Gains(a.p99, b.p99, 0)
       /\ ~(Gains(a.p999, b.p999, 10) /\ Gains(a.p99, b.p99, 2) /\ Gains(a.hitch, b.hitch, -10))
         -> "MARGINAL"
    [] ~(Gains(a.p999, b.p999, 3) /\ Gains(a.p99, b.p99, 0))
       /\ (Drops(a.p999, b.p999, 3) \/ Drops(a.hitch, b.hitch, 25))
         -> "REGRESSION"
    [] OTHER -> "NEUTRAL"

-----------------------------------------------------------------------------
(* bench multi.  Means are kept as sums and counts, and the 95% intervals    *)
(* are compared by squaring: 1.96 * 1.96 is taken as 96/25.                  *)

Stat(vs) ==
  LET n == Len(vs)
      sum == Total(vs)
  IN  [n |-> n, sum |-> sum,
       dev |-> n * Total([i \in 1..n |-> vs[i] * vs[i]]) - sum * sum]

(* The interval of x lies wholly below the interval of y.                    *)
Below(x, y) ==
  LET d == x.n * y.sum - y.n * x.sum
      k == (x.n - 1) * (y.n - 1)
      e == x.n * x.n * (x.n - 1) * y.dev
      f == y.n * y.n * (y.n - 1) * x.dev
      r == 25 * k * d * d - 96 * (e + f)
  IN  d > 0 /\ r > 0 /\ 4 * 96 * 96 * e * f < r * r

(* delta_pct above p percent.                                                *)
TrendsAbove(b, t, p) ==
  b.sum > 0 /\ 100 * (b.sum * t.n - t.sum * b.n) > p * b.sum * t.n

(* mutant: the longest frame is no reason to report a regression.            *)
RegressedButMax(b, t) == Below(b.p999, t.p999) \/ Below(b.hitch, t.hitch)

Regressed(b, t) ==
  Below(b.p999, t.p999) \/ Below(b.hitch, t.hitch) \/ Below(b.max, t.max)

cmd_bench_multi(b, t) ==
  LET p99 == Below(t.p99, b.p99)
      max == Below(t.max, b.max)
  IN  IF Regressed(b, t) THEN "REGRESSION"
      ELSE IF Below(t.p999, b.p999) \/ (p99 /\ max) THEN "SIGNIFICANT"
      ELSE IF \/ p99 /\ TrendsAbove(b.p999, t.p999, 0)
              \/ max /\ TrendsAbove(b.p99, t.p99, 5) THEN "MARGINAL"
      ELSE "NEUTRAL"

Metric == {"p99", "p999", "max", "hitch"}

-----------------------------------------------------------------------------
Init ==
  /\ said = <<>>
  /\ \/ \E rows \in UNION {[1..n -> Row] : n \in 1..MaxRows} : asked = <<"import", rows>>
     \/ \E a \in Run, b \in Run : asked = <<"diff", a, b>>
     \/ \E g \in [Metric -> Group] : asked = <<"multi", g>>

Import == asked[1] = "import" /\ said' = <<cmd_presentmon_import(asked[2])>>

Diff ==
  /\ asked[1] = "diff"
  /\ said' = <<cmd_bench_diff(asked[2], asked[3]), cmd_bench_diff(asked[3], asked[2])>>

Multi ==
  /\ asked[1] = "multi"
  /\ LET b == [x \in Metric |-> Stat(asked[2][x].b)]
         t == [x \in Metric |-> Stat(asked[2][x].t)]
     IN  said' = <<cmd_bench_multi(b, t), cmd_bench_multi(t, b)>>

Next == said = <<>> /\ (Import \/ Diff \/ Multi) /\ UNCHANGED asked

Spec == Init /\ [][Next]_vars /\ WF_vars(Next)

-----------------------------------------------------------------------------
(* What ranks k-th among the frames has at most k shorter ones and more than *)
(* k that are not longer: the definition the sorted index must agree with.   *)
HasRank(s, v, k) ==
  /\ Cardinality({i \in DOMAIN s : s[i] < v}) <= k
  /\ Cardinality({i \in DOMAIN s : s[i] <= v}) > k

(* The percentiles of an import have their rank among the frames that count, *)
(* and its longest frame is as long as any.                                  *)
PercentilesHaveTheirRank ==
  said # <<>> /\ asked[1] = "import" /\ said[1].exit = 0 =>
    LET s == Kept(asked[2])
        k(p) == (p * (Len(s) - 1)) \div 1000
    IN  /\ HasRank(s, said[1].p50, k(500)) /\ HasRank(s, said[1].p99, k(990))
        /\ HasRank(s, said[1].p999, k(999)) /\ HasRank(s, said[1].max, Len(s) - 1)

(* What one comparison calls an improvement the reversed comparison calls a   *)
(* regression: any improvement of two runs, a significant one of two groups.  *)
ReversedIsRegression ==
  said # <<>> =>
    /\ asked[1] = "diff" /\ said[1] \in {"SIGNIFICANT", "MARGINAL"} => said[2] = "REGRESSION"
    /\ asked[1] = "multi" /\ said[1] = "SIGNIFICANT" => said[2] = "REGRESSION"

(* A comparison of two runs is not called an improvement when the hitches     *)
(* went up by as much as is called a regression.                             *)
HitchesVeto ==
  said # <<>> /\ asked[1] = "diff" /\ Drops(asked[2].hitch, asked[3].hitch, 25) =>
    said[1] \notin {"SIGNIFICANT", "MARGINAL"}
=============================================================================
