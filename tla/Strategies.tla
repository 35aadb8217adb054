----------------------------- MODULE Strategies -----------------------------
(* The fifteen strategies (strategy/): from what the model and the market   *)
(* think of every bucket of an event to a decision per bucket.              *)
(* Probabilities and prices are in percentage points, money in dollars.     *)
(* The confidence, the reason and the spread warning of a decision are      *)
(* labels that nothing reads again and are left out.                        *)
EXTENDS Absent, Integers, FiniteSets, Sequences, FiniteSetsExt, SequencesExt

One == 100

\* What is known of one bucket: the model's probability and the market's quote.
Bucket(p, quote, liquidity, tail) ==
    [p |-> p, bid |-> quote.bid, ask |-> quote.ask, spread |-> quote.spread,
     liquidity |-> liquidity, tail |-> tail]

calculate_yes_edge(b) == IF b.ask = None THEN None ELSE b.p - b.ask
calculate_no_edge(b) == IF b.bid = None THEN None ELSE b.bid - b.p
EdgeOn(b, side) == IF side = "YES" THEN calculate_yes_edge(b) ELSE calculate_no_edge(b)

\* A decision; stake (dollars) and fraction are <<n, d>>, or None: sized by the edge.
Decision(side, edge, stake, fraction) ==
    [buy |-> side, edge |-> edge, stake |-> stake, fraction |-> fraction]
Skip == Decision("none", None, None, None)
Buy(b, side) == Decision(side, EdgeOn(b, side), None, None)

\* The gate every strategy but the baskets ends with.
Passes(b, edge, min_edge, min_liquidity) ==
    edge # None /\ edge > min_edge /\ b.liquidity # None /\ b.liquidity >= min_liquidity

If(condition, decision) == IF condition THEN decision ELSE Skip

\* decide_bucket and decide_bucket_no, with DecisionConfig.
decide_bucket(b, side) == If(Passes(b, EdgeOn(b, side), 0, 100), Buy(b, side))

\* The side with the higher edge, YES if they are equal, "none" without any.
_best_side(b) ==
    LET yes == calculate_yes_edge(b)
        no == calculate_no_edge(b)
    IN  CASE yes = None /\ no = None -> "none"
          [] yes # None /\ (no = None \/ yes >= no) -> "YES"
          [] OTHER -> "NO"

_best_edge(b) == IF _best_side(b) = "none" THEN None ELSE EdgeOn(b, _best_side(b))

\* The first index with the greatest value among those that have one.
FirstBest(I, value(_), Greater(_, _)) ==
    Min({i \in I : \A j \in I : ~Greater(value(j), value(i))})

Above(x, y) == x > y

\* One bucket is looked at, the rest are skipped.
Only(edges, i, decision) == [j \in DOMAIN edges |-> IF j = i THEN decision ELSE Skip]
EachBucket(edges, decide(_)) == [i \in DOMAIN edges |-> decide(edges[i])]

----------------------------------------------------------------------------
\* One bet per event

argmax_yes(edges) ==
    LET Mass(i) == edges[i].p
        i == FirstBest(DOMAIN edges, Mass, Above)
    IN  Only(edges, i, decide_bucket(edges[i], "YES"))

argmax_no(edges) ==
    LET I == {i \in DOMAIN edges : calculate_no_edge(edges[i]) # None}
        No(i) == calculate_no_edge(edges[i])
        i == FirstBest(I, No, Above)
    IN  IF I = {} THEN EachBucket(edges, LAMBDA b : Skip)
        ELSE Only(edges, i, decide_bucket(edges[i], "NO"))

max_edge(edges) ==
    LET I == {i \in DOMAIN edges : _best_side(edges[i]) # "none"}
        Best(i) == _best_edge(edges[i])
        i == FirstBest(I, Best, Above)
    IN  IF I = {} THEN EachBucket(edges, LAMBDA b : Skip)
        ELSE Only(edges, i, decide_bucket(edges[i], _best_side(edges[i])))

\* Expected return on the stake, win / price - 1, as <<win - price, price>>.
RoiYes(b) == IF b.ask # None /\ b.ask > 0 /\ b.p >= 5 THEN <<b.p - b.ask, b.ask>> ELSE None
RoiNo(b) == IF b.bid # None /\ b.bid < One /\ One - b.p >= 5
            THEN <<b.bid - b.p, One - b.bid>> ELSE None
AboveRatio(x, y) == x[1] * y[2] > y[1] * x[2]

_best_roi_side(b) ==
    CASE RoiYes(b) = None /\ RoiNo(b) = None -> "none"
      [] RoiYes(b) # None /\ (RoiNo(b) = None \/ ~AboveRatio(RoiNo(b), RoiYes(b))) -> "YES"
      [] OTHER -> "NO"

max_roi(edges) ==
    LET I == {i \in DOMAIN edges : _best_roi_side(edges[i]) # "none"}
        Roi(i) == IF _best_roi_side(edges[i]) = "YES" THEN RoiYes(edges[i]) ELSE RoiNo(edges[i])
        i == FirstBest(I, Roi, AboveRatio)
        b == edges[i]
    IN  IF I = {} THEN EachBucket(edges, LAMBDA x : Skip)
        ELSE Only(edges, i, If(/\ AboveRatio(Roi(i), <<5, One>>)
                               /\ b.liquidity # None /\ b.liquidity >= 25,
                               Buy(b, _best_roi_side(b))))

\* The k best of one side; of equal ones the first in the order of the event.
TopK(edges, k, side) ==
    LET I == {i \in DOMAIN edges : EdgeOn(edges[i], side) # None}
        E(i) == EdgeOn(edges[i], side)
        ahead(i) == {j \in I : E(j) > E(i) \/ (E(j) = E(i) /\ j < i)}
    IN  [i \in DOMAIN edges |->
            If(i \in I /\ Cardinality(ahead(i)) < k, decide_bucket(edges[i], side))]

----------------------------------------------------------------------------
\* Bucket by bucket

dist_arb(edges) ==
    EachBucket(edges, LAMBDA b : If(Passes(b, _best_edge(b), 0, 25), Buy(b, _best_side(b))))

dist_arb_tight(edges) ==
    EachBucket(edges, LAMBDA b :
        If(Passes(b, _best_edge(b), 0, 100) /\ b.spread # None /\ b.spread <= 5,
           Buy(b, _best_side(b))))

edge_band(edges) ==
    EachBucket(edges, LAMBDA b :
        If(Passes(b, _best_edge(b), 5, 25) /\ _best_edge(b) <= 25, Buy(b, _best_side(b))))

mid_band(edges) ==
    EachBucket(edges, LAMBDA b :
        If(b.ask # None /\ b.ask \in 20..60 /\ Passes(b, calculate_yes_edge(b), 0, 50),
           Decision("YES", calculate_yes_edge(b), <<5, 1>>, None)))

tail_fade(edges) ==
    EachBucket(edges, LAMBDA b :
        If(/\ b.tail /\ b.p <= 5 /\ b.bid # None /\ b.bid >= 3
           /\ Passes(b, calculate_no_edge(b), 0, 25), Buy(b, "NO")))

\* A quarter of Kelly, at most a twentieth, as <<n, d>>; None: no payout left.
_kelly_fraction(b, side) ==
    LET win == IF side = "YES" THEN b.p ELSE One - b.p
        entry == IF side = "YES" THEN b.ask ELSE One - b.bid
    IN  IF entry >= One THEN None
        ELSE IF 20 * (win - entry) >= 4 * (One - entry) THEN <<1, 20>>
        ELSE <<win - entry, 4 * (One - entry)>>

dist_arb_kelly(edges) ==
    EachBucket(edges, LAMBDA b :
        LET side == _best_side(b)
            fraction == _kelly_fraction(b, side)
        IN  IF ~Passes(b, _best_edge(b), 0, 25) THEN Skip
            ELSE If(fraction # None /\ fraction[1] > 0,
                    Decision(side, _best_edge(b), None, fraction)))

\* The mass of a bucket decides its side; the market only vetoes.
_assign_role(edges, b) ==
    LET mode == Max({edges[i].p : i \in DOMAIN edges})
    IN  CASE 2 * b.p >= mode /\ mode > 0 -> "core"
          [] ~(2 * b.p >= mode /\ mode > 0) /\ b.p >= 8 -> "believe_tail"
          [] ~(2 * b.p >= mode /\ mode > 0) /\ b.p < 8 /\ b.p <= 5 -> "fade"
          [] OTHER -> "ignore"

mass_side(edges) ==
    EachBucket(edges, LAMBDA b :
        LET role == _assign_role(edges, b)
            Yes(stake) == If(b.ask # None /\ b.ask <= 90 /\ Passes(b, calculate_yes_edge(b), 0, 25),
                             Decision("YES", calculate_yes_edge(b), stake, None))
        IN  CASE role = "core" -> Yes(None)
              [] role = "believe_tail" -> Yes(<<1, 1>>)
              [] role = "fade" ->
                    If(b.bid # None /\ One - b.bid <= 85 /\ Passes(b, calculate_no_edge(b), 0, 25),
                       Buy(b, "NO"))
              [] role = "ignore" -> Skip)

----------------------------------------------------------------------------
\* Baskets

Sum(edges, I, value(_)) == MapThenSumSet(LAMBDA i : value(edges[i]), I)
MassOf(edges, I) == Sum(edges, I, LAMBDA b : b.p)

\* Grows from the peak towards the heavier neighbour until 80 are held.
_coverage_window(edges) ==
    LET n == Len(edges)
        Mass(i) == edges[i].p
        peak == FirstBest(DOMAIN edges, Mass, Above)
        Left(w) == IF w[1] > 1 THEN edges[w[1] - 1].p ELSE None
        Right(w) == IF w[2] < n THEN edges[w[2] + 1].p ELSE None
        Grow(w) ==
            IF MassOf(edges, w[1]..w[2]) >= 80 \/ w = <<1, n>> THEN w
            ELSE IF Right(w) = None \/ (Left(w) # None /\ Left(w) >= Right(w))
            THEN <<w[1] - 1, w[2]>> ELSE <<w[1], w[2] + 1>>
        window == FoldLeft(LAMBDA w, i : Grow(w), <<peak, peak>>, [i \in 1..n |-> i])
    IN  window[1]..window[2]

BasketEdge(edges, I) == MassOf(edges, I) - Sum(edges, I, LAMBDA b : b.ask)

coverage_band(edges) ==
    LET window == _coverage_window(edges)
        trades == /\ \A i \in window : edges[i].ask # None
                  /\ BasketEdge(edges, window) > 5
                  /\ \A i \in window : edges[i].liquidity # None /\ edges[i].liquidity >= 25
    IN  [i \in DOMAIN edges |->
            If(trades /\ i \in window, Decision("YES", calculate_yes_edge(edges[i]), <<5, 1>>, None))]

_yes_book_profit_pp(edges) ==
    IF \E i \in DOMAIN edges : edges[i].ask = None THEN None
    ELSE One - Sum(edges, DOMAIN edges, LAMBDA b : b.ask)
_no_book_profit_pp(edges) ==
    IF \E i \in DOMAIN edges : edges[i].bid = None THEN None
    ELSE Sum(edges, DOMAIN edges, LAMBDA b : b.bid) - One

_entry_price(b, side) == IF side = "YES" THEN b.ask ELSE One - b.bid

\* Equal shares of every bucket for 20 dollars; stakes as <<n, d>>.
book_arb(edges) ==
    LET yes == _yes_book_profit_pp(edges)
        no == _no_book_profit_pp(edges)
        side == IF no = None \/ (yes # None /\ yes >= no) THEN "YES" ELSE "NO"
        profit == IF side = "YES" THEN yes ELSE no
        cost == Sum(edges, DOMAIN edges, LAMBDA b : _entry_price(b, side))
        liquid == \A i \in DOMAIN edges : edges[i].liquidity # None /\ edges[i].liquidity >= 25
    IN  IF Len(edges) < 2 \/ profit = None THEN EachBucket(edges, LAMBDA b : Skip)
        ELSE IF profit <= 2 \/ ~liquid \/ cost <= 0 THEN EachBucket(edges, LAMBDA b : Skip)
        ELSE EachBucket(edges, LAMBDA b :
                Decision(side, EdgeOn(b, side), <<20 * _entry_price(b, side), cost>>, None))

----------------------------------------------------------------------------

Decide(strategy, edges) ==
    CASE strategy = "argmax_yes" -> argmax_yes(edges)
      [] strategy = "argmax_no" -> argmax_no(edges)
      [] strategy = "max_edge" -> max_edge(edges)
      [] strategy = "max_roi" -> max_roi(edges)
      [] strategy = "topk_yes" -> TopK(edges, 3, "YES")
      [] strategy = "topk_no" -> TopK(edges, 3, "NO")
      [] strategy = "dist_arb" -> dist_arb(edges)
      [] strategy = "dist_arb_tight" -> dist_arb_tight(edges)
      [] strategy = "dist_arb_kelly" -> dist_arb_kelly(edges)
      [] strategy = "edge_band" -> edge_band(edges)
      [] strategy = "mid_band" -> mid_band(edges)
      [] strategy = "tail_fade" -> tail_fade(edges)
      [] strategy = "mass_side" -> mass_side(edges)
      [] strategy = "coverage_band" -> coverage_band(edges)
      [] strategy = "book_arb" -> book_arb(edges)

StrategyNames ==
    {"argmax_yes", "argmax_no", "max_edge", "max_roi", "topk_yes", "topk_no", "dist_arb",
     "dist_arb_tight", "dist_arb_kelly", "edge_band", "mid_band", "tail_fade", "mass_side",
     "coverage_band", "book_arb"}
=============================================================================
