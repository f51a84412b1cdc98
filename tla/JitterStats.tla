------------------------------ MODULE JitterStats ------------------------------
(***************************************************************************)
(* core/src/telemetry.rs: a histogram of wake jitter with buckets of fixed *)
(* width and one overflow bucket, exact extremes, and nearest-rank         *)
(* percentiles reported as the upper edge of a bucket.                     *)
(***************************************************************************)
EXTENDS Integers, Functions

CONSTANTS
    BUCKET_WIDTH_US,
    NUM_BUCKETS,
    U64Max             \* u64::MAX: where sum_us saturates

ASSUME BucketAssumption ==
    /\ BUCKET_WIDTH_US \in Nat \ {0}
    /\ NUM_BUCKETS \in Nat \ {0}
    /\ U64Max \in Nat

OVERFLOW_FLOOR_US == BUCKET_WIDTH_US * NUM_BUCKETS
Buckets == 0 .. NUM_BUCKETS

NewStats ==
    [buckets |-> [i \in Buckets |-> 0], count |-> 0, sum |-> 0,
     min |-> U64Max, max |-> 0, missed |-> 0]

BucketOf(v) ==
    IF v \div BUCKET_WIDTH_US >= NUM_BUCKETS THEN NUM_BUCKETS ELSE v \div BUCKET_WIDTH_US

\* JitterStats::record
WithSample(s, v) ==
    [s EXCEPT !.buckets[BucketOf(v)] = @ + 1,
              !.count = @ + 1,
              !.sum = IF @ + v > U64Max THEN U64Max ELSE @ + v,
              !.min = IF v < @ THEN v ELSE @,
              !.max = IF v > @ THEN v ELSE @]

\* n calls of record_miss.
WithMisses(s, n) == [s EXCEPT !.missed = @ + n]

MinUs(s) == IF s.count = 0 THEN 0 ELSE s.min
MeanUs(s) == IF s.count = 0 THEN 0 ELSE s.sum \div s.count
Overflowed(s) == s.buckets[NUM_BUCKETS] > 0

\* Mutant: the rank is rounded down.
RankDown(s, permille) ==
    LET floor == (s.count * permille) \div 1000
    IN  IF floor = 0 THEN 1 ELSE floor

\* ceil(count * permille / 1000), at least 1.
Rank(s, permille) ==
    LET ceil == (s.count * permille + 999) \div 1000
    IN  IF ceil = 0 THEN 1 ELSE ceil

\* percentile_permille, for 0 <= permille <= 1000: the first bucket at which
\* the cumulative count has reached the rank.
Percentile(s, permille) ==
    LET reached == {i \in Buckets : SumFunctionOnSet(s.buckets, 0 .. i) >= Rank(s, permille)}
        first == CHOOSE i \in reached : \A j \in reached : i <= j
    IN  IF s.count = 0 THEN 0
        ELSE IF first = NUM_BUCKETS THEN OVERFLOW_FLOOR_US
        ELSE (first + 1) * BUCKET_WIDTH_US

P50(s) == Percentile(s, 500)
P99(s) == Percentile(s, 990)

-----------------------------------------------------------------------------
(* The reference: a bag of samples, as a function from values to counts.   *)

Size(drawn) == SumFunction(drawn)
AtMost(drawn, v) == SumFunctionOnSet(drawn, {w \in DOMAIN drawn : w <= v})

\* The smallest sample that permille/1000 of the samples do not exceed.
TrueValue(drawn, permille) ==
    LET enough == {v \in DOMAIN drawn : /\ drawn[v] > 0
                                        /\ AtMost(drawn, v) * 1000 >= permille * Size(drawn)}
    IN  CHOOSE v \in enough : \A w \in enough : v <= w

\* A reported percentile r means the true value lies in [r - width, r), and
\* is a lower bound if it fell into the overflow bucket; the extremes are
\* exact (telemetry.rs:16-28).
Brackets(s, drawn, permille) ==
    LET r == Percentile(s, permille)
        v == TrueValue(drawn, permille)
    IN  IF v >= OVERFLOW_FLOOR_US
        THEN r = OVERFLOW_FLOOR_US /\ Overflowed(s)
        ELSE r - BUCKET_WIDTH_US <= v /\ v < r

Summarises(s, drawn) ==
    LET values == {v \in DOMAIN drawn : drawn[v] > 0}
    IN  /\ s.count = Size(drawn)
        /\ values = {} => MinUs(s) = 0 /\ s.max = 0 /\ Percentile(s, 500) = 0
        /\ values # {} =>
              /\ MinUs(s) \in values /\ s.max \in values
              /\ \A v \in values : MinUs(s) <= v /\ v <= s.max
              /\ MeanUs(s) <= s.max
              /\ s.sum < U64Max => MinUs(s) <= MeanUs(s)
=============================================================================
