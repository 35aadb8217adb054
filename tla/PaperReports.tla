----------------------------- MODULE PaperReports -----------------------------
(* The readers of the paper ledger that compute a wallet's days once more:  *)
(* the report of performance (scripts/report_performance.py) and the        *)
(* viewer's list of trades (visualizer/trades.py), which go over the rows of*)
(* paper_events themselves, and the table of scenarios (cli/main.py), which *)
(* pays the open trades once more.                                          *)
(*                                                                          *)
(* What they know of days is a record: date, the settlement dates of the    *)
(* events Gamma answered for, and written, the UTC day of each row's ts_utc.*)
EXTENDS PaperLedger, FiniteSetsExt

\* The day a SETTLE or CLOSE row is reported under.
realization_day(log, k, known) ==
    LET e == log[k].leg.event
    IN  IF e \in DOMAIN known.date THEN known.date[e] ELSE known.written[k]

NoPerf == [balance |-> StartingBalance, stakes |-> <<>>, sod |-> <<>>, daily |-> <<>>]

\* A dict with d[x] = y.
Assigned(f, x, y) == [z \in DOMAIN f \cup {x} |-> IF z = x THEN y ELSE f[z]]

AddTrade(daily, d, pnl) ==
    LET cell == IF d \in DOMAIN daily THEN daily[d] ELSE [pnl |-> 0, n_trades |-> 0]
    IN  Assigned(daily, d, [pnl |-> cell.pnl + pnl, n_trades |-> cell.n_trades + 1])

\* What one of the wallet's rows, reported under day d, does to its replay.
Booked(perf, r, d, window) ==
    LET stake == IF r.trade \in DOMAIN perf.stakes THEN perf.stakes[r.trade] ELSE 0
    IN  IF r.kind = "OPEN"
        THEN [perf EXCEPT !.balance = @ - r.stake, !.stakes = Assigned(@, r.trade, r.stake)]
        ELSE [balance |-> perf.balance + r.payout,
              stakes  |-> Restrict(perf.stakes, DOMAIN perf.stakes \ {r.trade}),
              sod     |-> IF d \in DOMAIN perf.sod THEN perf.sod
                          ELSE Assigned(perf.sod, d, perf.balance),
              daily   |-> IF d \in window THEN AddTrade(perf.daily, d, r.payout - stake)
                          ELSE perf.daily]

\* _replay_profile: the rows of one wallet, its days of the window with their
\* P/L, trades and the balance before the first realization of the day; day has
\* the day each row is reported under.
Replayed(log, w, window, day) ==
    LET perf == FoldLeftDomain(LAMBDA p, k : IF log[k].wallet = w
                                             THEN Booked(p, log[k], day[k], window) ELSE p,
                               NoPerf, log)
    IN  [balance |-> perf.balance,
         daily   |-> [d \in DOMAIN perf.daily |->
                         [sod |-> perf.sod[d], pnl |-> perf.daily[d].pnl,
                          n_trades |-> perf.daily[d].n_trades]]]

\* Mutant: an early exit is reported under the day it was written.
ReplaysExitsWhenWritten(log, w, window, known) ==
    Replayed(log, w, window,
             [k \in DOMAIN log |-> IF log[k].kind = "CLOSE" THEN known.written[k]
                                   ELSE realization_day(log, k, known)])

_replay_profile(log, w, window, known) ==
    Replayed(log, w, window, [k \in DOMAIN log |-> realization_day(log, k, known)])

\* _rollup: a row for several wallets. A sum of zero counts as no balance.
_rollup(perfs) ==
    LET Of(d) == {w \in DOMAIN perfs : d \in DOMAIN perfs[w].daily}
        Cell(d) ==
            LET sod == SumFunction([w \in Of(d) |-> perfs[w].daily[d].sod])
            IN  [pnl      |-> SumFunction([w \in Of(d) |-> perfs[w].daily[d].pnl]),
                 n_trades |-> SumFunction([w \in Of(d) |-> perfs[w].daily[d].n_trades]),
                 sod |-> IF sod # 0 THEN sod ELSE Cardinality(DOMAIN perfs) * StartingBalance]
    IN  [balance |-> SumFunction([w \in DOMAIN perfs |-> perfs[w].balance]),
         daily   |-> [d \in UNION {DOMAIN perfs[w].daily : w \in DOMAIN perfs} |-> Cell(d)]]

\* The viewer: each row that ends a trade, joined with the row that opened it.
realized_trades_from_rows(log, w, settlement_date, known) ==
    LET opens(k) == {n \in DOMAIN log : /\ log[n].kind = "OPEN" /\ log[n].wallet = w
                                        /\ log[n].trade = log[k].trade}
    IN  {[row |-> k, pnl |-> log[k].payout - log[CHOOSE n \in opens(k) : TRUE].stake] :
            k \in {n \in DOMAIN log : /\ Ends(log[n]) /\ log[n].wallet = w /\ opens(n) # {}
                                      /\ realization_day(log, n, known) = settlement_date}}

-----------------------------------------------------------------------------
(* paper scenarios (cli/main.py): what each possible winner would bring.     *)
(* The buckets come in ascending order, cheap are those whose ask is below   *)
(* --min-prob; the cheap ends of the ladder that nobody bet YES on are one   *)
(* row each, with the worst of their outcomes for each wallet.               *)

_scenario_pnl(trades, w, winner) ==
    LET Pays(t) == \/ t.leg.side = SIDE_YES /\ t.leg.bucket = winner
                   \/ t.leg.side = SIDE_NO /\ t.leg.bucket # winner
    IN  SumFunction([t \in {o \in trades : o.wallet = w} |->
                        (IF Pays(t) THEN t.stake * PayoutUnit ELSE 0) - t.stake])

\* min(p[name] for p in pnls), wallet by wallet.
Worst(trades, w, tail) ==
    Min({_scenario_pnl(trades, w, tail[k]) : k \in DOMAIN tail})

paper_scenarios(trades, ordered, cheap) ==
    LET n == Len(ordered)
        _rollable(k) == /\ ordered[k] \in cheap
                        /\ \A t \in trades : t.leg.side = SIDE_YES => t.leg.bucket # ordered[k]
        i == Min({k \in 1..n : ~_rollable(k)} \cup {n + 1})
        j == Max({k \in i..n : ~_rollable(k)} \cup {i - 1})
        Rolled(first, last) ==
            IF first > last THEN {}
            ELSE LET tail == SubSeq(ordered, first, last)
                 IN  {[winners |-> Range(tail),
                       pnl |-> [w \in Wallets |-> Worst(trades, w, tail)]]}
    IN  Rolled(1, i - 1) \cup Rolled(j + 1, n)
        \cup {[winners |-> {ordered[k]},
               pnl |-> [w \in Wallets |-> _scenario_pnl(trades, w, ordered[k])]] : k \in i..j}

=============================================================================
