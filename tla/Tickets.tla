------------------------------- MODULE Tickets -------------------------------
(* From decisions to money: the stakes of the paper ledger (paper/sizing.py *)
(* and open_trades_from_analysis) and the orders of the live node           *)
(* (live/sizing.py).  Money is in cents, a share pays 100 of them; shares   *)
(* are in hundredths and rounded as the code rounds them.                   *)
EXTENDS Strategies

\* round(n / d, 0): to the nearest.
Rounded(n, d) == (2 * n + d) \div (2 * d)

\* 2% at 7 points, 5% at 15, linear between, as <<n, d>>.
stake_fraction(edge) ==
    IF edge <= 7 THEN <<2, 100>> ELSE IF edge >= 15 THEN <<5, 100>>
    ELSE <<16 + 3 * (edge - 7), 800>>

\* The stake a decision implies, in cents as <<n, d>>.
implied_stake_usd(d, balance) ==
    IF d.stake # None THEN <<100 * d.stake[1], d.stake[2]>>
    ELSE IF d.fraction # None THEN <<balance * d.fraction[1], d.fraction[2]>>
    ELSE <<balance * stake_fraction(d.edge)[1], stake_fraction(d.edge)[2]>>

\* Rows that may be bought: a decision to buy, not held already, with a price.
Eligible(edges, decisions, held) ==
    {i \in DOMAIN edges :
        /\ decisions[i].buy # "none" /\ decisions[i].edge # None
        /\ <<i, decisions[i].buy>> \notin held
        /\ _entry_price(edges[i], decisions[i].buy) > 0}

\* The stake of every row, 0 for one that gets no ticket.
InOrder(f) == [i \in DOMAIN f |-> i]
Tickets(f, spend(_, _)) ==
    FoldLeft(LAMBDA acc, i : LET s == spend(i, acc.left)
                             IN  [left |-> acc.left - s, of |-> [acc.of EXCEPT ![i] = s]],
             [left |-> f.balance, of |-> [i \in DOMAIN f.rows |-> 0]], InOrder(f.rows)).of

_allocate_legacy(decisions, rows, balance) ==
    LET Spend(i, left) ==
            LET implied == implied_stake_usd(decisions[i], left)
                stake == Rounded(implied[1], implied[2])
            IN  IF i \notin rows \/ left <= 0 \/ stake <= 0 \/ stake > left THEN 0 ELSE stake
    IN  Tickets([rows |-> decisions, balance |-> balance], Spend)

\* Half a dollar is dust, and a ticket is at least one dollar.
_apply_budget_ticket_floors(n, d) ==
    IF n < 50 * d THEN 0 ELSE IF n < 100 * d THEN 100 ELSE Rounded(n, d)

CommonMultiple(a, b) == Min({m \in {a * k : k \in 1..b} : m % b = 0})

\* The implied stakes scaled to budget percent of the balance.
_allocate_budget(decisions, rows, balance, budget) ==
    LET implied == [i \in rows |-> implied_stake_usd(decisions[i], balance)]
        common == FoldSet(CommonMultiple, 1, {implied[i][2] : i \in rows})
        Weight(i) == implied[i][1] * (common \div implied[i][2])
        positive == {i \in rows : Weight(i) > 0}
        total == MapThenSumSet(Weight, positive)
        pool == Rounded(budget * balance, One)
        Spend(i, left) ==
            IF i \notin positive THEN 0
            ELSE LET s == _apply_budget_ticket_floors(pool * Weight(i), total)
                 IN  IF s > left THEN 0 ELSE s
    IN  IF balance <= 0 THEN [i \in DOMAIN decisions |-> 0]
        ELSE Tickets([rows |-> decisions, balance |-> balance], Spend)

\* open_trades_from_analysis: shares are bought at the entry price.
SharesOf(edges, decisions, stakes) ==
    [i \in DOMAIN edges |->
        IF stakes[i] = 0 THEN 0
        ELSE Rounded(100 * stakes[i], _entry_price(edges[i], decisions[i].buy))]

----------------------------------------------------------------------------
\* A live order

\* Mutant: the larger of the two caps.
LooseWalkCap(max_slippage, edge, fraction) ==
    IF fraction = None THEN max_slippage
    ELSE Max({max_slippage, (fraction * (IF edge = None \/ edge < 0 THEN 0 ELSE edge)) \div One})

\* How far above the best ask an order may walk; the fraction is in percent.
walk_cap(max_slippage, edge, fraction) ==
    IF fraction = None THEN max_slippage
    ELSE LET allowed == (fraction * (IF edge = None \/ edge < 0 THEN 0 ELSE edge)) \div One
         IN  IF allowed < max_slippage THEN allowed ELSE max_slippage

\* asks: <<price, size>> with ascending prices, sizes in whole shares.
\* One level of the asks is taken, or what the stake has left of it.
Take(acc, l, stake) ==
    LET left == stake - acc.cost IN
    IF left <= 0 \/ acc.done THEN [acc EXCEPT !.done = TRUE]
    ELSE IF l[1] * l[2] <= left
    THEN [acc EXCEPT !.shares = @ + 100 * l[2], !.cost = @ + l[1] * l[2],
                     !.limit = l[1], !.levels = @ + 1]
    ELSE [acc EXCEPT !.shares = @ + (100 * left) \div l[1], !.cost = stake,
                     !.limit = l[1], !.levels = @ + 1, !.done = TRUE]

Walk(window, stake) ==
    FoldLeft(LAMBDA acc, l : Take(acc, l, stake),
             [shares |-> 0, cost |-> 0, limit |-> 0, levels |-> 0, done |-> FALSE], window)

BuyIn(window, stake, min_depth) ==
    LET depth == FoldLeft(LAMBDA a, l : a + l[1] * l[2], 0, window)
        walked == Walk(window, stake)
    IN  IF window = <<>> \/ depth < min_depth \/ walked.shares <= 0 THEN None
        ELSE [limit |-> walked.limit, shares |-> walked.shares, stake |-> walked.cost,
              levels |-> walked.levels]

size_buy(asks, stake, max_slippage, min_depth, max_price) ==
    LET Cap(best) == IF best + max_slippage < max_price THEN best + max_slippage ELSE max_price
        Window(cap) == FoldLeft(LAMBDA w, l : IF l[1] <= cap THEN Append(w, l) ELSE w, <<>>, asks)
    IN  IF asks = <<>> THEN None ELSE BuyIn(Window(Cap(asks[1][1])), stake, min_depth)

----------------------------------------------------------------------------
\* What these promise

Bought(ds) == {i \in DOMAIN ds : ds[i].buy # "none"}

WholeBook(edges, ds, bought, cost) ==
    LET yes == \A i \in bought : ds[i].buy = "YES"
        no == \A i \in bought : ds[i].buy = "NO"
    IN  /\ bought = DOMAIN edges /\ (yes \/ no)
        /\ cost < (IF yes THEN One ELSE (Len(edges) - 1) * One)

Favourable(strategy, edges, ds, bought) ==
    LET Worth(i) == IF ds[i].buy = "YES" THEN edges[i].p ELSE One - edges[i].p
        Pays(i) == _entry_price(edges[i], ds[i].buy)
    IN  /\ Len(ds) = Len(edges)
        /\ \A i \in bought : edges[i].liquidity # None /\ edges[i].liquidity >= 25
        /\ strategy \notin {"coverage_band", "book_arb"} => \A i \in bought : Worth(i) > Pays(i)
        /\ strategy = "coverage_band" =>
              MapThenSumSet(Worth, bought) >= MapThenSumSet(Pays, bought)
        /\ strategy = "book_arb" /\ bought # {} =>
              WholeBook(edges, ds, bought, MapThenSumSet(Pays, bought))
        /\ strategy \in {"argmax_yes", "argmax_no", "max_edge", "max_roi"} =>
              Cardinality(bought) <= 1
        /\ strategy \in {"topk_yes", "topk_no"} => Cardinality(bought) <= 3
        /\ strategy = "max_edge" =>
              \A i \in bought, j \in DOMAIN edges, side \in {"YES", "NO"} :
                  EdgeOn(edges[j], side) # None => EdgeOn(edges[j], side) <= ds[i].edge

OnlyFavourableIn(strategy, edges, ds) == Favourable(strategy, edges, ds, Bought(ds))

(* A strategy only buys what the model thinks is worth more than it costs:  *)
(* leg by leg, or for a basket over the whole basket, and the model-free    *)
(* book only when one side of it costs less than it must pay.  The          *)
(* strategies for one bet make one, and it is the best one there is.        *)
OnlyFavourable(strategy, edges) == OnlyFavourableIn(strategy, edges, Decide(strategy, edges))

Unimodal(edges) ==
    \E k \in DOMAIN edges : \A i, j \in DOMAIN edges :
        (i < j /\ j <= k => edges[i].p <= edges[j].p) /\ (k <= i /\ i < j => edges[j].p <= edges[i].p)

(* The credible interval is as narrow as it can be: no shorter run of       *)
(* buckets holds the mass asked for, as long as the forecast has one peak,  *)
(* which every distribution the model builds has.                           *)
WindowIsSmallest(edges) ==
    LET w == _coverage_window(edges) IN
    Unimodal(edges) /\ MassOf(edges, w) >= 80 =>
        \A a, b \in DOMAIN edges :
            a <= b /\ b - a + 1 < Cardinality(w) => MassOf(edges, a..b) < 80

Hedged(edges, ds, rows, stakes, shares, balance) ==
    LET spent == MapThenSumSet(LAMBDA i : stakes[i], DOMAIN edges)
        Payout(k) == MapThenSumSet(LAMBDA i : IF (ds[i].buy = "YES") <=> (i = k) THEN shares[i] ELSE 0,
                                   DOMAIN edges)
    IN  rows # {} =>
            /\ balance >= 2010 => \A i \in rows : stakes[i] > 0
            /\ (\A i \in DOMAIN edges : stakes[i] > 0) =>
                  \A k \in DOMAIN edges : Payout(k) + 100 >= spent

HedgedAt(edges, ds, rows, stakes, balance) ==
    Hedged(edges, ds, rows, stakes, SharesOf(edges, ds, stakes), balance)

HedgedBy(edges, ds, rows, balance) ==
    HedgedAt(edges, ds, rows, _allocate_legacy(ds, rows, balance), balance)

BookOf(edges, ds, balance) == HedgedBy(edges, ds, Eligible(edges, ds, {}), balance)

(* A book of every bucket that is bought whole loses at most what rounding  *)
(* to cents can cost, whichever bucket wins: half a cent of stake and the   *)
(* shares it buys.  It is bought whole by the legacy sizing if the balance  *)
(* suffices and no leg is held already or rounds to nothing.                *)
WholeBookIsHedged(edges, balance) == BookOf(edges, book_arb(edges), balance)

WithinMeans(legacy, pooled, balance, budget) ==
    LET Total(f) == MapThenSumSet(LAMBDA i : f[i], DOMAIN f)
        raised == {i \in DOMAIN pooled : pooled[i] = 100}
    IN  /\ Total(legacy) <= balance /\ Total(pooled) <= balance
        /\ \A i \in DOMAIN pooled : pooled[i] = 0 \/ pooled[i] >= 100
        /\ 100 * Total(pooled) <=
              budget * balance + 100 * (50 * Cardinality(raised) + Len(pooled))

SpendsOn(ds, rows, balance, budget) ==
    WithinMeans(_allocate_legacy(ds, rows, balance), _allocate_budget(ds, rows, balance, budget),
                balance, budget)

SpendsFor(edges, ds, balance, budget) == SpendsOn(ds, Eligible(edges, ds, {}), balance, budget)

(* Both sizings never spend more than the balance, and the budget of an     *)
(* event is only exceeded by tickets that were raised to the smallest one   *)
(* or rounded up.                                                           *)
SpendsWithinMeans(edges, strategy, balance, budget) ==
    SpendsFor(edges, Decide(strategy, edges), balance, budget)

Affordable(order, best, walk, stake, slippage, edge, fraction, max_price) ==
    order # None =>
        /\ order.stake <= stake
        /\ order.limit <= max_price /\ order.limit <= best + walk
        /\ walk <= slippage
        /\ edge # None /\ edge > 0 /\ fraction # None /\ fraction <= One =>
              order.limit <= best + edge
        /\ order.shares * best <= 100 * order.stake
        /\ order.shares * order.limit <= 100 * order.stake + order.shares * walk

(* A live order never costs more than its stake at the prices it was sized  *)
(* against, never pays above its limit or the caps, and what it may cost    *)
(* more if the book has moved is bounded by the walk above the best ask.    *)
OrderWithinStake(asks, stake, slippage, edge, fraction, min_depth, max_price) ==
    LET walk == walk_cap(slippage, edge, fraction)
    IN  asks # <<>> =>
            Affordable(size_buy(asks, stake, walk, min_depth, max_price), asks[1][1], walk,
                       stake, slippage, edge, fraction, max_price)
=============================================================================
