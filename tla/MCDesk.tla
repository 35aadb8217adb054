------------------------------- MODULE MCDesk -------------------------------
(* A small instance of CalibrationJob for TLC, and beside it the questions  *)
(* that are answered from what it stores by calculation alone: every        *)
(* question is one state, reached from the initial one, so that TLC checks  *)
(* the answer for all the small inputs listed here.                         *)
EXTENDS CalibrationJob, ForecastBatch, Snapshots, Backtest, Analysis, Profiles, Desk, TLC

CONSTANTS s1, s2, om, om2, wu

Line(cmd, stations, noObs) == [cmd |-> cmd, stations |-> stations, noObs |-> noObs]

\* Every script for all stations; the nightly update also for one of them, and
\* a bootstrap without observations.
MCCommands ==
    {Line("bootstrap", Stations, FALSE), Line("wu_bootstrap", Stations, FALSE),
     Line("wu_bootstrap", {s1}, TRUE),
     Line("daily", Stations, FALSE), Line("daily", {s1}, FALSE)}

Quiet == [about |-> "nothing"]

----------------------------------------------------------------------------
\* Run times: two inits a day of four hours.

MCRunHours == {0, 2}

RangeQuestions == [about : {"range"}, start : 0..9, end : 0..9, interval : 1..4]

LeadQuestions ==
    {q \in [about : {"leads"}, target : {2}, max_lead : 1..6, step : 1..3, offset : -2..2] :
        q.max_lead >= q.step}

\* Hourly series of one or two whole days that begin at any hour of day 0.
Hour(t, temp) == [day |-> t \div Day, hour |-> t % Day, temp |-> temp]

Series(first, f) ==
    [about |-> "series", hours |-> [i \in DOMAIN f |-> Hour(first + i - 1, f[i])]]

----------------------------------------------------------------------------
\* Calibration: two models, two leads, both anchors, rows with and without a
\* usable error; runs that are known, unknown or not given.

MCRows ==
    {CalibrationStatRow(s1, om, 24, RunInit, 0, 2, 3), CalibrationStatRow(s1, om, 48, RunInit, 1, 0, 3),
     CalibrationStatRow(s1, wu, 24, Legacy, 0, 1, 0), CalibrationStatRow(s1, wu, 48, ScrapedAt, -1, 2, 2),
     CalibrationStatRow(s1, om, 36, Legacy, 0, 1, 1), CalibrationStatRow(s1, om, 36, ScrapedAt, 0, 0, 0),
     CalibrationStatRow(s2, om, 24, RunInit, 0, 1, 1)}

Leads == {0, 24, 30, 48, 60}
MCInits == {None} \cup UNION {[D -> {12, 30}] : D \in SUBSET {om, wu}}

ChoiceQuestions ==
    [about : {"choice"}, rows : SUBSET MCRows, models : {<<om, wu>>, <<wu, om>>}, wall : {24, 30, 48},
     inits : MCInits]

MixtureQuestions ==
    [about : {"mixture"}, rows : SUBSET MCRows, models : {<<om, wu>>}, wall : {24},
     predicted : {(om :> 20 @@ wu :> 22), (om :> 20 @@ wu :> 20), (om :> 21)},
     inits : {None, (om :> 24 @@ wu :> 24)}, exponent : {1, 2}]

ReadyQuestions ==
    [about : {"ready"},
     file : {None} \cup [age : {0, 48, 49}, rows : SUBSET {r \in MCRows : r.lead = 24}],
     profiles : {[strategy : ModelStrategies, station : {s1, s2}]}]

----------------------------------------------------------------------------
\* Buckets: ladders with open ends, one with a gap, and one with an overlap.

Ladder(lo, hi) ==
    <<Label("or_below", lo, lo)>> \o [i \in 1..(hi - lo - 1) |-> Label("single", lo + i, lo + i)]
        \o <<Label("or_higher", hi, hi)>>

MCLadders ==
    {Ladder(22, 24), Ladder(21, 25), <<Label("or_below", 22, 22), Label("range", 23, 24), Label("above", 24, 24)>>,
     <<Label("or_below", 22, 22), Label("or_higher", 24, 24)>>,
     <<Label("single", 23, 23), Label("or_higher", 23, 23)>>}

BellQuestions == [about : {"bell"}, labels : MCLadders, mu : {200, 221, 230, 238}, sigma : {1, 5, 8, 20}]
FloorQuestions ==
    [about : {"floor"}, labels : MCLadders, mu : {200, 221, 230, 238}, sigma : {1, 5, 8},
     floor : {215, 225, 230, 240, 260}]
SpreadQuestions ==
    [about : {"spread"}, values : UNION {[1..n -> {220, 225, 240}] : n \in 1..3}, default : {10},
     lead : {0, 11, 12, 24, 48, 72, None}, later : {0, 12, 30, 60, 80}]
CapQuestions ==
    [about : {"cap"}, mean : {220, 230, 236}, sigma : {0, 1, 5, 20}, labels : {Ladder(22, 24), Ladder(21, 25)},
     asks : [1..3 -> {None, 0, 1, 2, 9}]]

----------------------------------------------------------------------------
\* Markets

Market(label, price, closed, bid, ask, token) ==
    [label |-> label, price |-> price, closed |-> closed, bid |-> bid, ask |-> ask,
     liquidity |-> 100, token |-> token]

Event2(p, closed, ask) ==
    <<Market(Label("or_below", 22, 22), p[1], closed, 40, ask, "a"),
      Market(Label("single", 23, 23), p[2], FALSE, None, 60, "b"),
      Market(Label("or_higher", 24, 24), p[3], FALSE, 2, 3, None)>>

Book(bids, asks) == [bids |-> bids, asks |-> asks]
MCBooks ==
    {[t \in {} |-> None], [t \in {"a"} |-> Book({}, {<<99, 5>>})],
     [t \in {"a", "b"} |-> Book({<<30, 2>>, <<35, 1>>}, {<<45, 1>>, <<50, 3>>})]}

WinnerQuestions ==
    [about : {"winner"},
     now : {Event2(p, c, a) : p \in [1..3 -> {"one", "zero", "mid", "none"}], c \in BOOLEAN, a \in {45, 100}},
     later : {Event2(p, TRUE, 45) : p \in [1..3 -> {"one", "zero", "mid"}]}, books : MCBooks]

Listing(cities, date, lowest, labels) ==
    [cities |-> cities, date |-> date, lowest |-> lowest, labels |-> labels]
MCListings ==
    {Listing({"london"}, 1, FALSE, Ladder(22, 24)), Listing({"london"}, 1, TRUE, Ladder(5, 7)),
     Listing({"london"}, 1, FALSE, <<Label("odd", 0, 0)>>), Listing({"london"}, 1, FALSE, <<>>),
     Listing({"paris", "london"}, 1, FALSE, Ladder(21, 25)), Listing({"london"}, 2, FALSE, Ladder(22, 24)),
     Listing({"paris"}, None, FALSE, Ladder(22, 24))}
EventQuestions ==
    [about : {"event"}, listed : UNION {[1..n -> MCListings] : n \in 0..3}, limit : {1, 2, 20},
     city : {"london"}, date : {1}]

----------------------------------------------------------------------------
\* Strategies and stakes

Quote(bid, ask) == [bid |-> bid, ask |-> ask,
                    spread |-> IF bid = None \/ ask = None THEN None ELSE ask - bid]
MCQuotes == {Quote(None, None), Quote(2, 4), Quote(30, 32), Quote(40, 50), Quote(96, None), Quote(None, 1)}
MCMasses == {<<4, 80, 16>>, <<50, 30, 20>>, <<20, 60, 20>>, <<3, 90, 7>>, <<0, 0, 100>>}

Event3(p, q, liquidity) ==
    [i \in 1..3 |-> Bucket(p[i], q[i], IF i = 2 THEN liquidity ELSE 200, i # 2)]
MCEvents == {Event3(p, q, l) : p \in MCMasses, q \in [1..3 -> MCQuotes], l \in {None, 30, 200}}
Priced == {Event3(p, q, 200) : p \in MCMasses, q \in [1..3 -> {Quote(2, 4), Quote(30, 32), Quote(40, 50), Quote(62, 64)}]}

DecisionQuestions == [about : {"decision"}, edges : MCEvents]
WindowQuestions ==
    [about : {"window"},
     edges : {[i \in 1..5 |-> Bucket(p[i], Quote(1, 2), 200, FALSE)] : p \in [1..5 -> {0, 5, 20, 40, 60}]}]
BookQuestions ==
    [about : {"book"}, balance : {500, 1999, 2010, 100000},
     edges : {[i \in 1..n |-> Bucket(30, f[i], 100, FALSE)] : n \in {2},
                  f \in [1..2 -> {Quote(b, b + 1) : b \in {1, 2, 3, 40, 55, 93, 94, 96}}]}
             \cup {[i \in 1..3 |-> Bucket(30, f[i], 100, FALSE)] :
                  f \in [1..3 -> {Quote(b, b + 1) : b \in {1, 2, 30, 31, 32, 44, 60}}]}]
StakeQuestions ==
    [about : {"stakes"}, edges : Priced, balance : {0, 99, 1000, 2500}, budget : {1, 10, 100}]
OrderQuestions ==
    [about : {"order"},
     asks : {<<>>} \cup {<<<<a, n>>>> : a \in {1, 50, 99}, n \in {1, 10}}
               \cup {<<<<a, n>>, <<a + 2, 3>>, <<a + 5, 40>>>> : a \in {1, 40, 90}, n \in {1, 10}},
     stake : {1, 100, 555}, slippage : {0, 2, 5}, edge : {None, 1, 8, 20}, fraction : {None, 25, 100},
     min_depth : {0, 100}, max_price : {45, 95}]

----------------------------------------------------------------------------
\* Whole analyses: a day seen from both its ends, with and without observations.

Ev(asks) == parse_event_payload(
    [i \in 1..4 |-> Market(Ladder(21, 24)[i], "mid", FALSE, IF asks[i] > 4 THEN asks[i] - 3 ELSE None, asks[i], None)])
MCAnalysed == {Ev(<<1, 20, 60, 22>>), Ev(<<2, 2, 40, 50>>), Ev(<<10, 70, 9, 9>>), Ev(<<24, 24, 24, 24>>)}

Forecast(models, values, inits, runs, floor) ==
    [models |-> models, values |-> values, inits |-> inits, runs |-> runs, floor |-> floor]
MCForecasts ==
    {Forecast(<<om, wu>>, v, i, r, f) : v \in {<<230, 233>>, <<205, 207>>}, i \in {None, <<24, 24>>},
         r \in {None, <<None, "r">>}, f \in {None, 225, 231, 250}}
    \cup {Forecast(<<>>, <<230>>, None, None, None)}

AnalysisQuestions ==
    [about : {"analysis"}, requested : ModelStrategies, forecast : MCForecasts, event : MCAnalysed,
     station : {None, s1}, lead : {None, 24},
     rows : {{}, {CalibrationStatRow(s2, om, 48, RunInit, 0, 5, 5)},
             {CalibrationStatRow(s1, om, 48, RunInit, 0, 3, 5), CalibrationStatRow(s1, wu, 48, ScrapedAt, 2, 2, 5)}}]

----------------------------------------------------------------------------
\* Live forecasts of day 1 (hours 4..7): runs that appear while they are
\* fetched, files that are missing, values that are missing or absurd.

Times(r, s, t, b, a) ==
    [before |-> [status |-> b, run |-> r], made |-> s, after |-> [status |-> a, run |-> t]]
MCTimelines ==
    {x \in {Times(r, s, t, b, a) : r, s, t \in {0, 2}, b, a \in {"ok", "missing"}} :
        x.before.run <= x.made /\ x.made <= x.after.run}
    \cup {Times(0, 0, 0, "ok", "broken")}
Oms == {om, om2}
Answer(values) == [status |-> "ok", payload |-> [models |-> <<om, om2>>, days |-> (1 :> values)]]
Failed(status) == [status |-> status]
MCAttempts ==
    {<<Answer(v)>> : v \in [Oms -> {None, 200, 999}]}
    \cup {[i \in 1..n |-> Failed("timeout")] \o <<Answer([m \in Oms |-> 200])>> : n \in {2, 3}}
    \cup {<<Failed("unavailable"), Failed("refused"), Answer([m \in Oms |-> 200])>>}

FetchRows ==
    {CalibrationStatRow(s1, om, 2, RunInit, 0, 1, 1), CalibrationStatRow(s1, om, 6, RunInit, 0, 2, 3),
     CalibrationStatRow(s1, om2, 6, RunInit, 0, 1, 3), CalibrationStatRow(s1, om, 8, RunInit, 0, 4, 3),
     CalibrationStatRow(s1, om2, 8, Legacy, 0, 5, 5),
     CalibrationStatRow(s1, wu, 6, Legacy, 0, 3, 5)}
FetchQuestions ==
    [about : {"fetch"}, om : MCTimelines, om2 : MCTimelines, attempts : MCAttempts,
     rows : {FetchRows, {r \in FetchRows : r.lead # 8}},
     hourly : {None, {[at |-> 6, day |-> 1, temp |-> 230]}}]

\* Three planned forecasts, two of which share a run, and calls that die.
BatchJobs == <<[target |-> 1, run |-> 0, lead |-> 4], [target |-> 1, run |-> 2, lead |-> 2],
               [target |-> 2, run |-> 2, lead |-> 6]>>
Served == [{0, 2, 4} -> {None, (1 :> 20 @@ 2 :> 22), (1 :> None @@ 2 :> 23)}]
Dies(at, k) == [at |-> at, k |-> k]
Alive == Dies("never", 1)
Call(answers, crash) == [answers |-> answers, crash |-> crash]
AskBatch ==
    \E first, second \in Served, c \in {Alive, Dies("fetch", 1), Dies("fetch", 2), Dies("fetch", 3),
                                       Dies("append", 1), Dies("append", 2)},
       d \in {Alive, Dies("append", 1)} :
        question' = [about |-> "batch", calls |-> <<Call(first, c), Call(second, d)>>]

Observed(t, at, temp) == [target |-> t, at |-> at, temp |-> temp]
MCHistory == {None} \cup SUBSET {Observed(1, 4, 210), Observed(1, 5, 240), Observed(1, 6, 225), Observed(0, 3, 300)}
MCHourly == {None} \cup SUBSET {[at |-> 4, day |-> 1, temp |-> 250], [at |-> 6, day |-> 1, temp |-> 230],
                               [at |-> 7, day |-> 1, temp |-> None], [at |-> 8, day |-> 2, temp |-> 300]}
AdjustQuestions ==
    [about : {"adjust"}, hourly : MCHourly, history : MCHistory, as_of : 3..8,
     models : {<<om>>, <<om, wu>>}, floor : {None, 215}]

Row(h, mi, se, at, temp) == [hour |-> h, minute |-> mi, second |-> se, target |-> 1, at |-> at, temp |-> temp]
RecordQuestions ==
    [about : {"record"},
     rows : SUBSET {Row(3, 0, 0, 5, 220), Row(3, 0, 0, 6, 240), Row(3, 0, 30, 6, 250), Row(3, 15, 0, 6, 260),
                    Row(5, 0, 10, 5, 230), Row(5, 0, 10, 6, 210), Row(5, 0, 10, 7, None), Row(9, 0, 0, 7, 215)},
     history : SUBSET {Observed(1, 4, 210), Observed(1, 5, 235), Observed(1, 6, 225), Observed(0, 3, 300)},
     since : {0, 4}, limit : {3, 60}]

ObservedQuestions ==
    [about : {"observed"}, hourly : [0..2 -> {{}, {205, 215}, {214, 225}, {226}}],
     grid : {[d \in {} |-> 0], (1 :> 235), [d \in 0..2 |-> 205 + 10 * d]}]

----------------------------------------------------------------------------
\* The past: day 1 with a gate at hour 5, what was stored around it.

Cycle(at, rows) == [at |-> at, rows |-> {[model |-> m, target |-> 1, predicted |-> 200 + at, run |-> r,
                                          lead |-> IF r = None THEN None ELSE 8 - r] : <<m, r>> \in rows}]
MCCycles == {Cycle(2, {}), Cycle(3, {<<om, 2>>, <<om2, None>>}), Cycle(5, {<<om, 2>>}), Cycle(6, {<<om, 5>>})}
Seen(at, published, temp) == [target |-> 1, at |-> at, published |-> published, temp |-> temp]
QuoteRow(label, ask) == [label |-> label, bid |-> None, ask |-> ask, spread |-> None, liquidity |-> 5]
Slot(slot, fetched, asks) ==
    [slot |-> slot, fetched |-> fetched,
     quotes |-> {QuoteRow(Ladder(22, 24)[i], asks[i]) : i \in DOMAIN asks}]
MCSlots == {Slot(260, 260, <<30, 40, 20>>), Slot(270, 271, <<35, 40>>), Slot(300, 301, <<50, 100>>),
            Slot(330, 330, <<60, 20>>)}
Version(from, content) == [from |-> from, content |-> content]
MCVersions == {<<Version(1, "a"), Version(4, "b"), Version(5, "c"), Version(6, "d")>>, <<Version(7, "a"), Version(8, "b")>>}

PastQuestions ==
    [about : {"past"}, om : SUBSET MCCycles,
     wu : {{Row(3, 0, 0, 6, 240)}, {Row(3, 0, 0, 6, 240), Row(5, 0, 0, 6, 230)}, {Row(3, 0, 0, 6, 240), Row(5, 0, 20, 6, 250)},
           {Row(3, 0, 0, 6, 240), Row(4, 15, 0, 6, 250)}},
     observations : {{Seen(4, 4, 241), Seen(5, 5, 235)}, {Seen(4, 6, 245), Seen(6, 6, 250)}},
     clob : SUBSET MCSlots, versions : MCVersions,
     event : {parse_event_payload(Event2(p, FALSE, 45)) : p \in {<<"mid", "mid", "mid">>, <<"zero", "one", "zero">>}},
     gate : {4, 5}]

TestDay(lacks, edges, winner) == [lacks |-> lacks, edges |-> edges, winner |-> winner]
TestEdges(q) == [i \in 1..3 |-> Bucket(<<4, 80, 16>>[i], q[i], 200, i # 2)]
MCDays ==
    {None, TestDay("no_clob_snapshot", TestEdges(<<Quote(30, 32), Quote(30, 32), Quote(2, 4)>>), 1)}
    \cup {TestDay("", TestEdges(q), w) : q \in {<<Quote(30, 32), Quote(30, 32), Quote(2, 4)>>,
                                                <<Quote(2, 4), Quote(62, 64), Quote(30, 33)>>},
                                       w \in {None, 1, 2}}
TestQuestions ==
    [about : {"test"}, days : [1..3 -> MCDays], clock : {<<12, 6>>, <<24, 0>>, <<36, 6>>},
     strategy : {"topk_yes", "dist_arb"}, budget : {None, 10}]

----------------------------------------------------------------------------
\* Configuration files: gates in halves of an hour, two of them in one hour.

bh == "best_historical"
bhu == "best_historical_updated"
KnownTrades == {"max_edge", "dist_arb"}
Grid(m, t, k) == [models |-> m, trades |-> t, lead_gates |-> k]

FileQuestions ==
    [about : {"profiles"}, models : {<<bh, bhu>>, <<bhu>>, <<bh, bh>>},
     trades : {<<"max_edge">>, <<"dist_arb", "max_edge">>, <<"max_edge", "unheard">>},
     lead_gates : {<<>>, <<"lead24">>, <<"lead24", "lead24half", "lead42">>},
     gate : {[lead24 |-> 48, lead24half |-> 49, lead42 |-> 84]},
     budgets : {None, <<>>, <<"legacy">>, <<"budget_normalize_wallet_percent", "legacy">>},
     xsell : {None, Grid(<<bh>>, <<"max_edge">>, <<"lead24">>),
              Grid(<<bh, "ensemble_spread">>, <<"dist_arb">>, <<"lead42", "lead24">>)},
     active : {None, [models |-> <<bh, bhu>>, trades |-> <<"max_edge">>]},
     profiles : {None, << <<"bhu", "max_edge", "lead24">> >>,
                 << <<"bh", "dist_arb", "lead42">>, <<"bhu", "max_edge", "lead24">> >>}]
KnobQuestions ==
    [about : {"knob"}, id : {"k"}, model : DOMAIN _MODEL_ABBREV, trade : {"max_edge"},
     lead_gates : {<<48>>, <<48, 49>>, <<48, 84>>}]
LimitQuestions ==
    [about : {"limits"},
     stake : [fixed : {None}, fraction : {1, 3, 5}] \cup [fixed : {1500}, fraction : {None}],
     risk : [ref : {None, 5000}, open : {1500, 3000, 6000}, event : {500, 2500}],
     balance : {2000, 5000, 7000}, other : {5000, 9000}]

----------------------------------------------------------------------------

AskRunTimes ==
    \/ question' \in RangeQuestions \cup LeadQuestions
    \/ \E first \in 0..3, n \in {4, 8} : \E f \in [1..n -> {1, 2, None}] : question' = Series(first, f)
AskCalibration == question' \in ChoiceQuestions \cup MixtureQuestions \cup ReadyQuestions
AskForecasts == AskBatch \/ question' \in FetchQuestions \cup AdjustQuestions \cup RecordQuestions \cup ObservedQuestions
AskPast == question' \in PastQuestions \cup TestQuestions
AskBuckets == question' \in BellQuestions \cup FloorQuestions \cup SpreadQuestions \cup CapQuestions
AskMarkets == question' \in WinnerQuestions \cup EventQuestions

\* What is asked of buckets and markets may be asked.
ASSUME QuestionsAreAskable ==
    /\ \A q \in BellQuestions \cup FloorQuestions : Askable(q)
    /\ \A q \in SpreadQuestions : Askable(q)
    /\ \A q \in CapQuestions : Askable(q)
    /\ \A q \in WinnerQuestions : Askable(q)
    /\ \A q \in EventQuestions : Askable(q)
AskDecisions == question' \in DecisionQuestions \cup WindowQuestions
AskStakes == question' \in BookQuestions \cup StakeQuestions \cup OrderQuestions
AskAnalysis == question' \in AnalysisQuestions
AskProfiles == question' \in FileQuestions \cup KnobQuestions \cup LimitQuestions

Ask ==
    /\ question = Quiet
    /\ vars = <<0, Empty, Empty, {}, {}, {}, NoStats, NoJob, [starts |-> 0, faults |-> 0, slow |-> 0], {}>>
    /\ \/ AskRunTimes \/ AskCalibration \/ AskForecasts \/ AskPast \/ AskBuckets \/ AskMarkets
       \/ AskDecisions \/ AskStakes \/ AskAnalysis \/ AskProfiles
    /\ UNCHANGED vars

Answered ==
    /\ question # Quiet
    /\ question' = Quiet
    /\ UNCHANGED vars

DeskInit == Init /\ question = Quiet
DeskNext == (question = Quiet /\ Next /\ UNCHANGED question) \/ Ask \/ Answered
DeskSpec == DeskInit /\ [][DeskNext]_<<vars, question>>

----------------------------------------------------------------------------
\* Properties: every answer is the right one

RunsAreRight ==
    LET q == question IN
    /\ q.about = "range" => RangeIsTheGrid(q.start, q.end, q.interval)
    /\ q.about = "leads" => LeadsNotUnderstated(q.target, q.max_lead, q.step, q.offset)
    /\ q.about = "series" => MaximaOfWholeDays(q.hours)

ChoicesAreRight ==
    LET q == question IN
    /\ q.about = "choice" => BestIsCovered(q.rows, s1, q.models, q.wall, q.inits)
    /\ q.about = "mixture" =>
          MixtureBetweenMembers(q.rows, s1, q.models, q.wall, q.predicted, q.inits, q.exponent)
    /\ q.about = "ready" => EnabledAreCalibrated(q.profiles, q.file)

ForecastsAreRight ==
    LET q == question IN
    /\ q.about = "fetch" =>
          ErrorCoversTheRun((om :> q.om.before @@ om2 :> q.om2.before), q.attempts,
                            (om :> q.om.after @@ om2 :> q.om2.after),
                            (om :> q.om.made @@ om2 :> q.om2.made), 1,
                            [hourly |-> q.hourly, history |-> None], 3, q.rows, s1)
    /\ q.about = "adjust" =>
          AdjustedKnowsThePast([models |-> q.models, values |-> [i \in DOMAIN q.models |-> 220],
                                inits |-> [i \in DOMAIN q.models |-> 4], runs |-> [i \in DOMAIN q.models |-> 4],
                                floor |-> q.floor],
                               [hourly |-> q.hourly, history |-> q.history], 1, q.as_of)
    /\ q.about = "record" => RecordsSayWhatLiveSaw(q.rows, q.history, q.since, q.limit)
    /\ q.about = "batch" =>
          LET answered == [r \in {0, 2, 4} |-> (1 :> 20 @@ 2 :> 22)]
          IN  /\ BatchResumes(q.calls, BatchJobs, 0)
              /\ BatchResumes(Append(q.calls, Call(answered, Alive)), BatchJobs, 0)
              /\ RawFilesAreKept(q.calls, BatchJobs, 0, answered)
    /\ q.about = "observed" => ObservedIsOfItsDay(q.hourly, q.grid, 0, 2)

(* What the desk believes about the weather is known when it is believed:   *)
(* planned runs and their leads cover the runs that are fetched, daily      *)
(* maxima come from whole days (historical_forecasts.py); a calibrated      *)
(* error belongs to a lead that covers the run's age and never to another   *)
(* station (model_error_stats.py, calibrated_combo.py); a live forecast     *)
(* carries the run its values came from unless the run changed while it was *)
(* fetched, and observations only raise it to what was published by then    *)
(* (wu_live_forecast.py, calibration_wu_forecasts.py); a batch that died    *)
(* resumes without losing a record it can still get                         *)
(* (historical_forecasts.py).                                               *)
ForecastsAreKnown == RunsAreRight /\ ChoicesAreRight /\ ForecastsAreRight

(* A backtest knows no more than the gate it replays did, but for the       *)
(* exceptions BankrollAsOfTheGate and NoHindsight name (snapshot_reads.py,  *)
(* backtest.py), and its book balances.                                     *)
HindsightIsListed ==
    LET q == question IN
    /\ q.about = "past" =>
        LET h == [om |-> q.om, wu |-> q.wu, observations |-> q.observations, clob |-> q.clob, versions |-> q.versions]
        IN  NoHindsight(h, q.event, 1, q.gate) /\ RebuiltAsRecorded(h, 1)
    /\ q.about = "test" =>
        LET profile == [strategy |-> q.strategy, budget |-> q.budget]
        IN  /\ BacktestBooksBalance(profile, q.days)
            /\ BankrollAsOfTheGate(profile, q.days, q.clock[1], q.clock[2])

TicketsAreRight ==
    LET q == question IN
    /\ q.about = "decision" => \A s \in StrategyNames : OnlyFavourable(s, q.edges)
    /\ q.about = "window" => WindowIsSmallest(q.edges)
    /\ q.about = "book" => WholeBookIsHedged(q.edges, q.balance)
    /\ q.about = "stakes" => \A s \in StrategyNames \ {"dist_arb_kelly"} :
                                 SpendsWithinMeans(q.edges, s, q.balance, q.budget)
    /\ q.about = "order" => OrderWithinStake(q.asks, q.stake, q.slippage, q.edge, q.fraction,
                                             q.min_depth, q.max_price)

AnalysesAreRight ==
    LET q == question IN
    q.about = "analysis" =>
        /\ \A path \in {"paper", "live", "active"}, s \in {"argmax_yes"} :
              TradesWhatWasAsked(path, s, q.requested, q.forecast, q.event, q.station, q.lead, q.rows)
        /\ \A s \in StrategyNames :
              PassedIsNotBought(s, q.requested, q.forecast, q.event, q.station, q.lead, q.rows)

ProfilesAreRight ==
    LET q == question IN
    /\ q.about = "profiles" =>
          WalletsAreDistinct(q, KnownTrades) /\ TwinsDecideAlike(q, KnownTrades)
    /\ q.about = "knob" => LiveMatchesPaper(q)
    /\ q.about = "limits" => LimitsFollowTheBalance(q.stake, q.risk, q.balance, q.other, 3)

(* Nothing is bought that the strategy that was asked for does not favour   *)
(* at the price it would pay, a hedge covers the whole book, stakes stay    *)
(* within balance and budget, an order within its stake, and the trade is   *)
(* made on the model that was asked for or not at all, but for the listed   *)
(* fallbacks of the three paths (strategy/, edge.py, live/sizing.py,        *)
(* analysis.py). It is made by one profile in a wallet of its own, on the   *)
(* statistics of its model, and the limits of the live node do not depend   *)
(* on how much there is, but as the file says (profiles/load.py,            *)
(* live/config.py).                                                         *)
DecisionsAreRight == TicketsAreRight /\ AnalysesAreRight /\ ProfilesAreRight

=============================================================================
