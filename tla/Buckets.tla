------------------------------- MODULE Buckets -------------------------------
(* Temperature buckets, and the probability a forecast gives each of them   *)
(* (markets/buckets.py, model/distribution.py, visualizer/bucket_math.py).  *)
(* Temperatures are counted in tenths of a degree, so that half degrees and *)
(* the smallest sigma are integers; a value that the code divides out is    *)
(* kept as its numerator over a denominator, <<n, d>>.                      *)
EXTENDS Absent, Integers, FiniteSets, Sequences, FiniteSetsExt, SequencesExt

Degree == 10
Half == 5

\* What a market writes on a bucket: its wording and the whole degrees in it.
Label(form, lo, hi) == [form |-> form, lo |-> lo, hi |-> hi]

\* The interval [lower, upper) of a label, or None for one that does not parse.
parse_temperature_bucket(label) ==
    LET Interval(lower, upper) == [label |-> label, kind |-> label.form,
                                   lower |-> lower, upper |-> upper]
    IN  CASE label.form = "above" -> Interval(label.lo * Degree + Half, None)
          [] label.form = "or_below" -> Interval(None, label.lo * Degree + Half)
          [] label.form = "or_higher" -> Interval(label.lo * Degree - Half, None)
          [] label.form = "range" /\ label.lo <= label.hi ->
                Interval(label.lo * Degree - Half, label.hi * Degree + Half)
          [] label.form = "single" ->
                Interval(label.lo * Degree - Half, label.lo * Degree + Half)
          [] OTHER -> None

Holds(bucket, value) ==
    /\ bucket.lower # None => value >= bucket.lower
    /\ bucket.upper # None => value < bucket.upper

\* The first bucket that holds the value; None is the exception.
bucket_label_for_value(value, buckets) ==
    LET holding == {i \in DOMAIN buckets : Holds(buckets[i], value)}
    IN  IF holding = {} THEN None ELSE buckets[Min(holding)].label

----------------------------------------------------------------------------
\* Mean and spread

lead_time_sigma_floor(lead) ==
    CASE lead < 12 -> 5 [] lead >= 12 /\ lead < 24 -> 8 [] lead >= 24 /\ lead < 48 -> 12
      [] lead >= 48 /\ lead < 72 -> 16 [] OTHER -> 20

SumUp(s) == SumFunction(s)
Squares(s, shift, scale) == SumUp([i \in DOMAIN s |-> (scale * s[i] - shift) * (scale * s[i] - shift)])

(* The mean <<n, d>> and the variance <<n, d>> of the forecast: of one value *)
(* the floor of its lead or the default; of several the spread of the        *)
(* values, to which the floor is added in quadrature.                        *)
build_distribution(values, default, lead) ==
    LET n == Len(values)
        total == SumUp(values)
        spread == <<Squares(values, total, n), n * n * (n - 1)>>
        base == IF lead = None THEN default ELSE lead_time_sigma_floor(lead)
    IN  [mean |-> <<total, n>>,
         var |-> CASE n = 1 -> <<base * base, 1>>
                   [] n > 1 /\ lead # None -> <<base * base * spread[2] + spread[1], spread[2]>>
                   [] OTHER -> IF spread[1] = 0 THEN <<base * base, 1>> ELSE spread]

\* build_calibrated_distribution: the error of the calibration, as it is.
build_calibrated_distribution(mu, sigma) == [mean |-> <<mu, 1>>, var |-> <<sigma * sigma, 1>>]

----------------------------------------------------------------------------
\* Masses

(* In place of the normal distribution any bell does that is symmetric and  *)
(* has no mass left far from its mean, as erf has none in floating point    *)
(* beyond nine sigma: here two, in units of BellMass.                       *)
BellMass(sigma) == 8 * sigma * sigma

_normal_cdf(x, mu, sigma) ==
    LET reach == 2 * sigma
        u == x - mu + reach
    IN  CASE u <= 0 -> 0
          [] 0 < u /\ u <= reach -> u * u
          [] reach < u /\ u < 2 * reach -> BellMass(sigma) - (2 * reach - u) * (2 * reach - u)
          [] OTHER -> BellMass(sigma)

probability_for_bucket(mu, sigma, bucket) ==
    (IF bucket.upper = None THEN BellMass(sigma) ELSE _normal_cdf(bucket.upper, mu, sigma))
        - (IF bucket.lower = None THEN 0 ELSE _normal_cdf(bucket.lower, mu, sigma))

OfTotal(mass) == IF SumUp(mass) = 0 THEN None ELSE [mass |-> mass, total |-> SumUp(mass)]

\* The probability of bucket i is mass[i] / total; None is "total is zero".
probabilities_for_buckets(mu, sigma, buckets) ==
    OfTotal([i \in DOMAIN buckets |-> probability_for_bucket(mu, sigma, buckets[i])])

\* Buckets that end at or below a temperature already observed.
Beaten(buckets, floor) == {i \in DOMAIN buckets : buckets[i].upper # None /\ buckets[i].upper <= floor}

\* Mutant: what the beaten buckets lose is given to nobody.
ConditionWithoutSharing(probs, buckets, floor) ==
    [mass |-> [i \in DOMAIN buckets |-> IF i \in Beaten(buckets, floor) THEN 0 ELSE probs.mass[i]],
     total |-> probs.total]

condition_probabilities_on_observed_floor(probs, buckets, floor) ==
    LET beaten == Beaten(buckets, floor)
        left == OfTotal([i \in DOMAIN buckets |-> IF i \in beaten THEN 0 ELSE probs.mass[i]])
    IN  IF beaten = {} \/ left = None THEN probs ELSE left

----------------------------------------------------------------------------
\* What the market believes

bucket_center_c(bucket) ==
    IF bucket.lower # None /\ bucket.upper # None THEN (bucket.lower + bucket.upper) \div 2
    ELSE IF bucket.lower # None THEN bucket.lower + Half ELSE bucket.upper - Half

Moments(origin, total, first, second) ==
    IF total = 0 THEN None
    ELSE [mean |-> <<total * origin + first, total>>,
          var |-> <<total * second - first * first, total * total>>]

\* asks[i] is the price of buckets[i] or None.
compute_market_implied_summary(buckets, asks) ==
    LET Weight(i) == IF asks[i] = None THEN 0 ELSE asks[i]
        origin == bucket_center_c(buckets[1])
        away(i) == bucket_center_c(buckets[i]) - origin
    IN  Moments(origin, SumUp([i \in DOMAIN buckets |-> Weight(i)]),
                SumUp([i \in DOMAIN buckets |-> Weight(i) * away(i)]),
                SumUp([i \in DOMAIN buckets |-> Weight(i) * away(i) * away(i)]))

AbsDiff(a, b) == IF a >= b THEN a - b ELSE b - a

MinCappedVariance == <<1, 1>>     \* MIN_MARKET_CAPPED_SIGMA_C, a tenth

\* The variance to use, and whether the market's was taken.
CapTo(market, mean, sigma) ==
    LET Unchanged == [applied |-> FALSE, var |-> <<sigma * sigma, 1>>]
    IN  IF market = None THEN Unchanged
        ELSE IF \/ AbsDiff(mean * market.mean[2], market.mean[1]) > Degree * market.mean[2]
                \/ market.var[1] >= sigma * sigma * market.var[2]
        THEN Unchanged
        ELSE [applied |-> TRUE,
              var |-> IF market.var[1] >= market.var[2] THEN market.var ELSE MinCappedVariance]

cap_sigma_to_market(mean, sigma, buckets, asks) ==
    CapTo(compute_market_implied_summary(buckets, asks), mean, sigma)

----------------------------------------------------------------------------
\* What these promise

LessEq(p, q) == p[1] * q[2] <= q[1] * p[2]

Covers(buckets, values) ==
    \A v \in values : Cardinality({i \in DOMAIN buckets : Holds(buckets[i], v)}) = 1

(* Settlement and forecast agree about the buckets: where the labels of an  *)
(* event cover the line without overlap, every value settles on the bucket  *)
(* that holds it, nothing is lost to rounding or to the open ends, and what *)
(* a bucket is given is the mass of exactly the values that settle on it.   *)
LabelsShareOneBell(labels, mu, sigma) ==
    LET buckets == [i \in DOMAIN labels |-> parse_temperature_bucket(labels[i])]
        line == (mu - 2 * sigma - 1) .. (mu + 2 * sigma + 1)
        probs == probabilities_for_buckets(mu, sigma, buckets)
        settled(i) == {v \in line : bucket_label_for_value(v, buckets) = labels[i]}
    IN  Covers(buckets, line) =>
            /\ probs # None /\ probs.total = BellMass(sigma)
            /\ \A i \in DOMAIN labels :
                  probs.mass[i] = SumUp([v \in settled(i) |->
                      _normal_cdf(v + 1, mu, sigma) - _normal_cdf(v, mu, sigma)])

Conditioned(before, after, alive) ==
    before # None =>
        /\ SumUp(after.mass) = after.total
        /\ (\E i \in alive : before.mass[i] > 0) =>
              \A i \in DOMAIN after.mass \ alive : after.mass[i] = 0
        /\ \A i, j \in alive : after.mass[i] * before.mass[j] = after.mass[j] * before.mass[i]
        /\ \A i \in alive : before.mass[i] * after.total <= after.mass[i] * before.total

ConditionedOn(probs, buckets, floor) ==
    Conditioned(probs, condition_probabilities_on_observed_floor(probs, buckets, floor),
                DOMAIN buckets \ Beaten(buckets, floor))

FloorRules(mu, sigma, buckets, floor) ==
    ConditionedOn(probabilities_for_buckets(mu, sigma, buckets), buckets, floor)

(* After an observation no mass stays below it, the surviving buckets keep  *)
(* their odds against each other and share everything between them, unless  *)
(* the forecast left them nothing at all: then the observation is ignored,  *)
(* and the beaten buckets keep their mass.                                  *)
ObservationRules(labels, mu, sigma, floor) ==
    FloorRules(mu, sigma, [i \in DOMAIN labels |-> parse_temperature_bucket(labels[i])], floor)

(* With a lead no forecast is narrower than the floor of its lead, and the  *)
(* floor grows with the lead; taking the market's spread never makes it     *)
(* wider, except up to the smallest sigma the code allows.                  *)
SpreadBounds(values, default, lead, later) ==
    /\ lead # None =>
          LET floor == lead_time_sigma_floor(lead)
          IN  /\ LessEq(<<floor * floor, 1>>, build_distribution(values, default, lead).var)
              /\ later >= lead => LessEq(build_distribution(values, default, lead).var,
                                         build_distribution(values, default, later).var)
    /\ build_distribution(values, default, lead).var[1] > 0

Tightens(cap, market, mean, sigma) ==
    /\ LessEq(cap.var, <<sigma * sigma, 1>>) \/ cap.var = MinCappedVariance
    /\ cap.applied => /\ market # None /\ LessEq(market.var, cap.var)
                      /\ AbsDiff(mean * market.mean[2], market.mean[1]) <= Degree * market.mean[2]

CapOnlyTightens(mean, sigma, labels, asks) ==
    LET buckets == [i \in DOMAIN labels |-> parse_temperature_bucket(labels[i])]
    IN  Tightens(cap_sigma_to_market(mean, sigma, buckets, asks),
                 compute_market_implied_summary(buckets, asks), mean, sigma)
=============================================================================
