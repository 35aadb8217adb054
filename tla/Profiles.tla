------------------------------- MODULE Profiles -------------------------------
(* From a configuration file to trading profiles: the paper wallets          *)
(* (profiles/load.py), what the report says of each, and the profiles and    *)
(* limits of the live node (live/config.py).                                 *)
(*                                                                           *)
(* A file's lists are sequences; budgets, xsell, active and profiles are None*)
(* where the key is absent. lead_gates is the sequence of the keys and gate  *)
(* has their hours, in halves. The parts of an id that the code joins with   *)
(* "_" are a tuple: no key of a gate has that character.                     *)
EXTENDS CalibrationChoice

_MODEL_ABBREV ==
    [best_historical |-> "bh", best_historical_updated |-> "bhu",
     weighted_historical_updated |-> "whu", weighted_historical_market_sigma |-> "whums",
     weighted_historical_updated_sharp |-> "whus", ensemble_spread |-> "es"]

Abbrev(model) == IF model \in DOMAIN _MODEL_ABBREV THEN _MODEL_ABBREV[model] ELSE model

_calibration_path_for_strategy(model) ==
    IF model \in {"best_historical_updated", "weighted_historical_updated",
                  "weighted_historical_market_sigma", "weighted_historical_updated_sharp"}
    THEN "updated" ELSE "static"

EVENT_BUDGETS == <<"legacy", "budget_normalize_wallet_percent">>

Profile(id, model, trade, gate) ==
    [id |-> id, model |-> model, trade |-> trade, gate |-> gate,
     stats |-> _calibration_path_for_strategy(model),
     exit |-> FALSE, active |-> FALSE, sizing |-> "legacy"]

\* One profile for each model, trade strategy and key, in this order.
Crossed(models, trades, keys, gate) ==
    FlattenSeq([i \in DOMAIN models |->
        FlattenSeq([j \in DOMAIN trades |->
            [k \in DOMAIN keys |->
                Profile(<<Abbrev(models[i]), trades[j], keys[k]>>, models[i], trades[j],
                        gate[keys[k]])]])])

generate_all_twelve_profiles(f) ==
    Crossed(f.models, f.trades, f.lead_gates, f.gate)

generate_xsell_profiles(f) ==
    IF f.xsell = None THEN <<>>
    ELSE LET twins == Crossed(f.xsell.models, f.xsell.trades, f.xsell.lead_gates, f.gate)
         IN  [k \in DOMAIN twins |-> [twins[k] EXCEPT !.id = Append(@, "xsell"), !.exit = TRUE]]

\* The gate is a placeholder of 54 hours.
generate_active_profiles(f) ==
    IF f.active = None THEN <<>>
    ELSE LET wallets == Crossed(f.active.models, f.active.trades, <<"active">>, [active |-> 108])
         IN  [k \in DOMAIN wallets |-> [wallets[k] EXCEPT !.active = TRUE]]

generate_budget_normalize_wallet_percent_profiles(hold) ==
    LET legacy == SelectSeq(hold, LAMBDA p : ~p.exit /\ ~p.active /\ p.sizing = "legacy")
    IN  [k \in DOMAIN legacy |-> [legacy[k] EXCEPT !.id = Append(@, "bnwp"),
                                                   !.sizing = "budget_normalize_wallet_percent"]]

\* Repeated entries are dropped.
parse_event_budgets(budgets) == Range(IF budgets = None THEN EVENT_BUDGETS ELSE budgets)

expand_event_budgets(hold, budgets) ==
    LET wanted == parse_event_budgets(budgets)
    IN  (IF "legacy" \in wanted THEN hold ELSE <<>>)
        \o (IF "budget_normalize_wallet_percent" \in wanted
            THEN generate_budget_normalize_wallet_percent_profiles(hold) ELSE <<>>)

\* load_paper_profiles raises.
Refused(f, known_trades) ==
    LET ids == {p.id : p \in Range(generate_all_twelve_profiles(f))}
    IN  \/ f.lead_gates = <<>> \/ f.budgets = <<>>
        \/ ~(Range(f.trades) \subseteq known_trades)
        \/ f.xsell # None /\ ~(/\ Range(f.xsell.trades) \subseteq known_trades
                               /\ Range(f.xsell.lead_gates) \subseteq Range(f.lead_gates))
        \/ f.active # None /\ ~(Range(f.active.trades) \subseteq known_trades)
        \/ f.profiles # None /\ ~(Range(f.profiles) \subseteq ids)

\* f.profiles is None for "all_twelve", else the ids of active_profiles.
load_paper_profiles(f) ==
    LET all == generate_all_twelve_profiles(f)
        hold == IF f.profiles = None THEN all
                ELSE [k \in DOMAIN f.profiles |->
                          CHOOSE p \in Range(all) : p.id = f.profiles[k]]
    IN  expand_event_budgets(hold, f.budgets)
        \o generate_xsell_profiles(f) \o generate_active_profiles(f)

\* What a row of the report says of its wallet: the hours are cut to whole ones.
_attach_profile_meta(p) ==
    [model |-> p.model, trade |-> p.trade, event_budget |-> p.sizing,
     lead |-> IF p.active THEN None ELSE p.gate \div 2,
     exit_mode |-> IF p.active THEN "active" ELSE IF p.exit THEN "xsell" ELSE "hold"]

----------------------------------------------------------------------------
\* The live node

\* The node has a list of its own of the models that read the updated file.
stats_path(model) ==
    IF model \in {"best_historical_updated", "weighted_historical_updated",
                  "weighted_historical_market_sigma", "weighted_historical_updated_sharp"}
    THEN "updated" ELSE "static"

\* One profile for each gate of the knob; the id has the whole hours.
to_trading_profiles(knob) ==
    [k \in DOMAIN knob.lead_gates |->
        [Profile(<<"live", knob.id, knob.lead_gates[k] \div 2>>, knob.model, knob.trade,
                 knob.lead_gates[k]) EXCEPT !.stats = stats_path(knob.model)]]

\* A fraction is in tenths.
resolve_stake_usd(stake, balance) ==
    IF stake.fixed # None THEN stake.fixed
    ELSE IF balance = None THEN None
    ELSE (balance * stake.fraction) \div 10

\* The caps, as amounts over a number.
scale_risk_config(risk, balance) ==
    IF risk.ref = None \/ balance = None
    THEN [open |-> risk.open, event |-> risk.event, over |-> 1]
    ELSE [open |-> risk.open * balance, event |-> risk.event * balance, over |-> risk.ref]

\* The exposure limits of check_open.
check_exposure(caps, stake, open_exposure, event_exposure) ==
    /\ (open_exposure + stake) * caps.over <= caps.open
    /\ (event_exposure + stake) * caps.over <= caps.event

\* One ticket after the other, on events of their own and paid in full out of
\* the collateral, until one is denied.
TicketsUntilDenied(stake, risk, balance, tickets) ==
    LET Buy(st, k) ==
            LET s == resolve_stake_usd(stake, st.cash)
            IN  IF st.denied \/ ~check_exposure(scale_risk_config(risk, st.cash), s, st.spent, 0)
                THEN [st EXCEPT !.denied = TRUE]
                ELSE [st EXCEPT !.cash = @ - s, !.spent = @ + s]
    IN  FoldLeft(Buy, [cash |-> balance, spent |-> 0, denied |-> FALSE], [k \in 1..tickets |-> k])

----------------------------------------------------------------------------
\* What these promise

Repeats(names) == \E i, j \in DOMAIN names : i # j /\ names[i] = names[j]

NamesSomethingTwice(f) ==
    \/ Repeats(f.models) \/ Repeats(f.trades)
    \/ f.profiles # None /\ Repeats(f.profiles)
    \/ f.xsell # None /\ (Repeats(f.xsell.models) \/ Repeats(f.xsell.trades) \/ Repeats(f.xsell.lead_gates))
    \/ f.active # None /\ (Repeats(f.active.models) \/ Repeats(f.active.trades))

(* No two profiles of a file trade one wallet, and the report tells any two  *)
(* wallets apart, unless the file names something twice; two gates that      *)
(* share a whole hour look the same in the report.                           *)
WalletsAreDistinct(f, known_trades) ==
    LET loaded == load_paper_profiles(f)
    IN  Refused(f, known_trades) \/ NamesSomethingTwice(f)
        \/ \A i, j \in DOMAIN loaded : i # j =>
              LET p == loaded[i]
                  q == loaded[j]
              IN  /\ p.id # q.id
                  /\ _attach_profile_meta(p) = _attach_profile_meta(q)
                        => p.gate # q.gate /\ p.gate \div 2 = q.gate \div 2

(* A wallet that sells, or that spends a budget, decides on the model, trade *)
(* strategy, gate and statistics of a wallet of the grid ("it A/B's against  *)
(* its hold-to-settle twin"), unless xsell_wallets names what the grid lacks;*)
(* and what a model reads is what must be fresh before it may trade.         *)
TwinsDecideAlike(f, known_trades) ==
    Refused(f, known_trades) \/
    \A p \in Range(load_paper_profiles(f)) :
        /\ (p.stats = "updated") = (p.model \in UpdatedStrategies)
        /\ \/ p.active
           \/ p.exit /\ ~(p.model \in Range(f.models) /\ p.trade \in Range(f.trades))
           \/ \E q \in Range(generate_all_twelve_profiles(f)) :
                  /\ q.model = p.model /\ q.trade = p.trade
                  /\ q.gate = p.gate /\ q.stats = p.stats

(* The live node reads the statistics the paper wallet of its model reads,   *)
(* and its profiles share an id, and with it a journal, only if their gates  *)
(* share a whole hour.                                                       *)
LiveMatchesPaper(knob) ==
    LET profiles == to_trading_profiles(knob)
    IN  \A i, j \in DOMAIN profiles :
            /\ profiles[i].stats = _calibration_path_for_strategy(knob.model)
            /\ i # j /\ profiles[i].id = profiles[j].id
                  => knob.lead_gates[i] \div 2 = knob.lead_gates[j] \div 2

(* "The same percentages hold as the wallet grows" (live_node.yaml): with a  *)
(* bankroll of reference, tickets that are a fraction of the balance are     *)
(* bought or denied alike at every balance; and what is held stays below the *)
(* cap's share of the equity, although each purchase shrinks the balance     *)
(* that cap and ticket are computed from.                                    *)
LimitsFollowTheBalance(stake, risk, balance, other, tickets) ==
    LET here == TicketsUntilDenied(stake, risk, balance, tickets)
        there == TicketsUntilDenied(stake, risk, other, tickets)
    IN  /\ stake.fixed = None /\ risk.ref # None
              => here.spent * other = there.spent * balance
        /\ IF risk.ref = None THEN here.spent <= risk.open
           ELSE here.spent * risk.ref <= risk.open * (here.cash + here.spent)

=============================================================================
