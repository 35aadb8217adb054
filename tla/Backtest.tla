------------------------------ MODULE Backtest ------------------------------
(* The backtest of paper/backtest.py: one profile, day after day, opened at *)
(* its gate and held to the settlement, on a ledger in memory.  A day is    *)
(* None when no event was found, or has an event of its own number: what    *)
(* the gate inputs lack ("" when they are complete), the rows of the        *)
(* analysis and the winning bucket (None while the event is unresolved).    *)
(* Money is in cents and shares in hundredths, as in Tickets.               *)
EXTENDS Tickets

CONSTANT StartingBalance      \* STARTING_BALANCE_USD

ASSUME BalanceAssumption == StartingBalance \in Nat

Open(day, bucket, side, stake, shares) ==
    [kind |-> "OPEN", day |-> day, bucket |-> bucket, side |-> side, stake |-> stake,
     shares |-> shares, payout |-> 0]

Won(trade, winner) == (trade.side = "YES") <=> (trade.bucket = winner)

\* SETTLE repeats its trade, which a bucket, a side and a day identify.
Settle(trade, winner) ==
    [trade EXCEPT !.kind = "SETTLE", !.payout = IF Won(trade, winner) THEN trade.shares ELSE 0]

Replay(state, r) ==
    IF r.kind = "OPEN"
    THEN [state EXCEPT !.balance = @ - r.stake, !.open = Append(@, r)]
    ELSE [balance |-> state.balance + r.payout,
          open |-> SelectSeq(state.open, LAMBDA o : <<o.day, o.bucket, o.side>> # <<r.day, r.bucket, r.side>>),
          realized |-> state.realized + r.payout - r.stake]

read_state(records) ==
    FoldLeft(Replay, [balance |-> StartingBalance, open |-> <<>>, realized |-> 0], records)

OpenOn(records, day) == SelectSeq(read_state(records).open, LAMBDA o : o.day = day)

\* A ticket for every bucket with a stake.
Opened(day, ds, stakes, shares) ==
    LET Ticket(i) == Open(day, i, ds[i].buy, stakes[i], shares[i])
        opened == SelectSeq([i \in DOMAIN stakes |-> i], LAMBDA i : stakes[i] > 0)
    IN  [k \in DOMAIN opened |-> Ticket(opened[k])]

OpenAt(day, edges, ds, stakes) == Opened(day, ds, stakes, SharesOf(edges, ds, stakes))

StakesFor(budget, ds, rows, balance) ==
    IF budget = None THEN _allocate_legacy(ds, rows, balance)
    ELSE _allocate_budget(ds, rows, balance, budget)

OpenUnder(state, budget, day, edges, ds) ==
    LET held == {<<o.bucket, o.side>> : o \in {o \in ToSet(state.open) : o.day = day}}
    IN  OpenAt(day, edges, ds, StakesFor(budget, ds, Eligible(edges, ds, held), state.balance))

open_trades_from_analysis(records, profile, day, edges) ==
    records \o OpenUnder(read_state(records), profile.budget, day, edges,
                         Decide(profile.strategy, edges))

settle_event(records, day, winner) ==
    LET mine == OpenOn(records, day)
    IN  records \o [k \in DOMAIN mine |-> Settle(mine[k], winner)]

\* A day of one profile: nothing to open on is a skip, an event without a
\* winner leaves its positions open, and only a settlement is a result.
Resulted(acc, day, trades, settled, balance) ==
    [acc EXCEPT !.records = settled, !.trades = @ \o trades, !.final = balance,
                !.curve = Append(@, <<day, balance>>)]

SettledDay(acc, day, opened, settled) ==
    Resulted(acc, day, OpenOn(opened, day), settled, read_state(settled).balance)

OpenedDay(acc, day, winner, opened) ==
    LET _bump_skip(reason) == [acc EXCEPT !.skips = Append(@, reason)]
    IN  CASE opened = acc.records -> _bump_skip("SKIP")
          [] opened # acc.records /\ winner = None ->
                [_bump_skip("unresolved_no_winner") EXCEPT !.records = opened]
          [] opened # acc.records /\ winner # None ->
                SettledDay(acc, day, opened, settle_event(opened, day, winner))

DayOfProfile(acc, profile, day, d) ==
    IF d = None THEN acc
    ELSE IF d.lacks # "" THEN [acc EXCEPT !.skips = Append(@, d.lacks)]
    ELSE OpenedDay(acc, day, d.winner, open_trades_from_analysis(acc.records, profile, day, d.edges))

run_backtest(profile, days) ==
    FoldLeft(LAMBDA acc, k : DayOfProfile(acc, profile, k, days[k]),
             [records |-> <<>>, trades |-> <<>>, skips |-> <<>>, curve |-> <<>>,
              final |-> StartingBalance],
             [k \in DOMAIN days |-> k])

PnlOf(days, t) == Settle(t, days[t.day].winner).payout - t.stake
SumBy(F(_), seq) == FoldLeft(LAMBDA a, x : a + F(x), 0, seq)

max_drawdown_usd(curve) ==
    FoldLeft(LAMBDA acc, x : [peak |-> Max({acc.peak, x[2]}),
                              drop |-> Max({acc.drop, Max({acc.peak, x[2]}) - x[2]})],
             [peak |-> StartingBalance, drop |-> 0], curve).drop

\* One row per day with a trade, its start-of-day balance less the day's stakes.
DayRow(d, mine, before, days) ==
    LET Pnl(t) == PnlOf(days, t)
    IN  [day |-> d, pnl |-> SumBy(Pnl, mine), n_trades |-> Len(mine),
         sod |-> StartingBalance + SumBy(Pnl, before) - SumBy(LAMBDA t : t.stake, mine)]

RowsOfDates(dates, days, trades) ==
    [k \in DOMAIN dates |->
        DayRow(dates[k], SelectSeq(trades, LAMBDA t : t.day = dates[k]),
               SelectSeq(trades, LAMBDA t : t.day < dates[k]), days)]

build_daily_performance_rows(days, trades) ==
    RowsOfDates(SetToSortSeq({trades[i].day : i \in DOMAIN trades}, LAMBDA x, y : x < y),
                days, trades)

----------------------------------------------------------------------------
\* What these promise

Stake(t) == t.stake

\* A row starts from the curve of the days before it, less its own stakes.
RowStarts(row, r, open) ==
    LET before == {c \in ToSet(r.curve) : c[1] < row.day}
        latest == CHOOSE c \in before : \A b \in before : b[1] <= c[1]
        own == SumBy(Stake, SelectSeq(r.trades, LAMBDA t : t.day = row.day))
        StuckBefore(d) == SumBy(Stake, SelectSeq(open, LAMBDA o : o.day < d))
    IN  IF before = {} THEN row.sod + own = StartingBalance
        ELSE row.sod + own = latest[2] + StuckBefore(latest[1])

Balances(r, state, made, rows, days) ==
    LET last == IF r.trades = <<>> THEN 0 ELSE Max({t.day : t \in ToSet(r.trades)})
    IN  /\ state.realized = made
        /\ state.balance = StartingBalance + made - SumBy(Stake, state.open)
        /\ \A o \in ToSet(state.open) : days[o.day].winner = None
        /\ r.final = state.balance + SumBy(Stake, SelectSeq(state.open, LAMBDA o : o.day > last))
        /\ r.curve # <<>> => r.curve[Len(r.curve)][2] = r.final
        /\ r.final >= StartingBalance - max_drawdown_usd(r.curve)
        /\ state.balance >= 0
        /\ SumBy(LAMBDA row : row.pnl, rows) = made
        /\ \A k \in DOMAIN rows : RowStarts(rows[k], r, state.open)

BalancesOf(r, days) ==
    Balances(r, read_state(r.records), SumBy(LAMBDA t : PnlOf(days, t), r.trades),
             build_daily_performance_rows(days, r.trades), days)

(* No cent appears or is lost: the ledger in memory holds the starting      *)
(* balance, what the reported trades made, and not the stakes of events     *)
(* that have no winner.  The reported balance, the curve and the drawdown   *)
(* agree with it, except that the stakes opened since the last settlement   *)
(* are missing from them; and a day's row starts where the days before it   *)
(* ended, as if such stakes had come back.                                  *)
BacktestBooksBalance(profile, days) == BalancesOf(run_backtest(profile, days), days)

\* The same days in the order of the clock: a gate is lead hours before the
\* end of its day, and an event is settled delay hours after it.
InOrderOfTheClock(profile, days, lead, delay) ==
    LET steps == {<<24 * (k + 1) - lead, 1, k>> : k \in DOMAIN days}
                    \cup {<<24 * (k + 1) + delay, 0, k>> : k \in DOMAIN days}
        Before(x, y) == x[1] < y[1] \/ (x[1] = y[1] /\ (x[2] < y[2] \/ (x[2] = y[2] /\ x[3] < y[3])))
        Step(records, s) ==
            LET d == days[s[3]] IN
            IF d = None THEN records
            ELSE IF d.lacks # "" \/ (s[2] = 0 /\ d.winner = None) THEN records
            ELSE IF s[2] = 1 THEN open_trades_from_analysis(records, profile, s[3], d.edges)
            ELSE settle_event(records, s[3], d.winner)
    IN  FoldLeft(Step, <<>>, SetToSortSeq(steps, Before))

SameBankroll(tested, lived, days, settled_in_time) ==
    /\ settled_in_time => tested = lived
    /\ \A first \in DOMAIN days :
          (\A k \in 1..first-1 : days[k] = None) =>
              {r \in tested : r.day = first} = {r \in lived : r.day = first}

(* The bankroll of a gate is what it was then, if every event is settled    *)
(* before the next gate opens; with longer leads the backtest stakes        *)
(* winnings (and misses stakes) that were not settled yet at the gate, from *)
(* the second day on.                                                       *)
BankrollAsOfTheGate(profile, days, lead, delay) ==
    SameBankroll(ToSet(run_backtest(profile, days).records),
                 ToSet(InOrderOfTheClock(profile, days, lead, delay)), days, lead + delay <= 24)
=============================================================================
