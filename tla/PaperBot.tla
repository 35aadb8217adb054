------------------------------ MODULE PaperBot ------------------------------
(***************************************************************************)
(* The paper bot (paper/bot.py, paper/run.py, paper/active_controller.py,  *)
(* scripts/run_paper_bot.py): one thread that ticks for ever. A tick       *)
(* settles what resolved, closes what hit its bracket, sweeps the active   *)
(* wallets once per gate instant, and opens trades for the wallets whose   *)
(* entry gate is open.                                                     *)
(*                                                                         *)
(* A method of the ledger that reads and then appends in a transaction of  *)
(* its own is two steps when what it read can change in between: the ends  *)
(* of trades wait in pend for their commit. A tick may fail and the process*)
(* may die between any two steps; launchd starts it again.                 *)
(***************************************************************************)
EXTENDS PaperReports

CONSTANTS
    Active,        \* wallets with active_params
    Bracket,       \* wallets with an exit_policy
    GateAt,        \* gate_target_utc of each wallet that is not active, per event
    CapNum, CapDen,\* max_position_fraction of the active wallets
    Tickets,       \* what the sizing may stake on one leg
    Marks,         \* sell prices of a share
    MaxClock,      \* bound: moments of the clock
    MaxTrades,     \* bound: trades opened
    MaxFaults,     \* bound: failed ticks, failed sweeps, crashes
    NoWinner

Gated == Wallets \ Active

ASSUME ProfilesAssumption ==
    /\ Active \subseteq Wallets /\ Bracket \subseteq Gated
    /\ GateAt \in [Gated -> [Events -> Nat \ {0}]]

ASSUME SizingAssumption ==
    /\ CapNum \in Nat /\ CapDen \in Nat \ {0} /\ CapNum <= CapDen
    /\ Tickets \subseteq Nat \ {0} /\ Marks \subseteq 0..PayoutUnit

ASSUME BoundsAssumption ==
    MaxClock \in Nat /\ MaxTrades \in Nat /\ MaxFaults \in Nat /\ NoWinner \notin Buckets

VARIABLES
    log,      \* paper_events
    stored,   \* paper_bot_state: the instant of the last active sweep, 0 for none
    clock,    \* UTC now
    winner,   \* the winning bucket Gamma reports for an event, or NoWinner
    enabled,  \* the profiles that the configuration enables
    faults,   \* failed ticks, failed sweeps and crashes so far
    pc,       \* where the bot's thread is
    pend,     \* rows a transaction is about to append
    tick      \* run_tick's locals

vars == <<log, stored, clock, winner, enabled, faults, pc, pend, tick>>

env == <<clock, winner, enabled>>

(* The locals of a tick: now, the profiles it runs with, what is left to do*)
(* of each part, and the active sweep's reading of the wallet it manages.  *)
NoSweep == [wallet |-> {}, bankroll |-> 0, balance |-> 0,
            held |-> [l \in Legs |-> 0], todo |-> {}, closing |-> {}, mark |-> 0]

NoTick == [now |-> 0, profiles |-> {}, events |-> {}, pairs |-> {}, quoted |-> {},
           wallets |-> {}, trades |-> {}, sweep |-> NoSweep]

Pairs == Wallets \X Events

TickLocals ==
    [now : Nat, profiles : SUBSET Wallets, events : SUBSET Events,
     pairs : SUBSET Pairs, quoted : SUBSET Events, wallets : SUBSET Wallets,
     trades : SUBSET Row,
     sweep : [wallet : SUBSET Wallets, bankroll : Nat, balance : Nat,
              held : [Legs -> Nat], todo : SUBSET Legs, closing : SUBSET Row,
              mark : Nat]]

Init ==
    /\ log = <<>> /\ stored = 0
    /\ clock = 0 /\ winner = [e \in Events |-> NoWinner]
    /\ enabled = Wallets
    /\ faults = 0
    /\ pc = "idle" /\ pend = <<>> /\ tick = NoTick

\* A day without legs has no market yet (LookupError of fetch_market_context).
Listed == {l.event : l \in Legs}

Unresolved == {e \in Listed : winner[e] = NoWinner}

Opened == {k \in DOMAIN log : log[k].kind = "OPEN"}

\* The rows of a set, in the order of their trades.
InOrder(rows) ==
    CHOOSE s \in [1..Cardinality(rows) -> rows] :
        \A m, n \in DOMAIN s : m < n => s[m].trade < s[n].trade

-----------------------------------------------------------------------------
(* The transactions that end trades: what is committed was read before.    *)

Commit ==
    /\ pend # <<>>
    /\ log' = log \o pend
    /\ pend' = <<>>
    /\ UNCHANGED <<stored, env, faults, pc, tick>>

\* Mutant: every trade the wallet ever opened on the event is settled.
SettlesEveryOpenRow(w, e, b) ==
    InOrder({SettleRow(log[k], b) : k \in {n \in Opened : /\ log[n].wallet = w
                                                         /\ log[n].leg.event = e}})

\* settle_event, up to its commit: the rows of the trades read_state has open.
Settlement(w, e, b) ==
    InOrder({SettleRow(r, b) : r \in {o \in read_state(log, w).open : o.leg.event = e}})

\* close_position, up to its commit: nothing if the trade is no longer open.
Closing(r, mark) ==
    IF r \in read_state(log, r.wallet).open THEN <<CloseRow(r, mark)>> ELSE <<>>

-----------------------------------------------------------------------------
(* settle_resolved_open_events.                                            *)

AtGate(w, e, now) == now \in {GateAt[w][e] - 1, GateAt[w][e]}

\* Mutant: the events are looked at only while some gate is open.
BeginTickAtGate ==
    /\ pc = "idle"
    /\ pc' = "settle"
    /\ tick' = [NoTick EXCEPT !.now = clock, !.profiles = enabled,
                    !.events = IF \E w \in Gated, e \in Events : AtGate(w, e, clock)
                               THEN fetch_open_event_ids(log) ELSE {}]
    /\ UNCHANGED <<log, stored, env, faults, pend>>

BeginTick ==
    /\ pc = "idle"
    /\ pc' = "settle"
    /\ tick' = [NoTick EXCEPT !.now = clock, !.profiles = enabled,
                              !.events = fetch_open_event_ids(log)]
    /\ UNCHANGED <<log, stored, env, faults, pend>>

\* fetch_event raised, or the event is not resolved to a single winner.
SkipEvent(e) ==
    /\ pc = "settle" /\ pend = <<>> /\ tick.pairs = {}
    /\ e \in tick.events
    /\ tick' = [tick EXCEPT !.events = @ \ {e}]
    /\ UNCHANGED <<log, stored, env, faults, pc, pend>>

ResolvedEvent(e) ==
    /\ pc = "settle" /\ pend = <<>> /\ tick.pairs = {}
    /\ e \in tick.events /\ winner[e] # NoWinner
    /\ tick' = [tick EXCEPT !.events = @ \ {e}, !.pairs = tick.profiles \X {e}]
    /\ UNCHANGED <<log, stored, env, faults, pc, pend>>

SettleProfile(w, e) ==
    /\ pc = "settle" /\ pend = <<>>
    /\ <<w, e>> \in tick.pairs
    /\ tick' = [tick EXCEPT !.pairs = @ \ {<<w, e>>}]
    /\ pend' = Settlement(w, e, winner[e])
    /\ UNCHANGED <<log, stored, env, faults, pc>>

\* On to sweep_active_exits; events resolved by now are skipped there.
SettleDone ==
    /\ pc = "settle" /\ pend = <<>> /\ tick.events = {} /\ tick.pairs = {}
    /\ tick' = [tick EXCEPT !.wallets = tick.profiles \cap Bracket,
                            !.quoted = Unresolved]
    /\ pc' = "exits"
    /\ UNCHANGED <<log, stored, env, faults, pend>>

-----------------------------------------------------------------------------
(* sweep_active_exits: each open trade of a wallet with an exit policy is  *)
(* held, or closed at its mark when that is past one of its ratios.        *)

ExitsOf(w) ==
    /\ pc = "exits" /\ pend = <<>> /\ tick.trades = {}
    /\ w \in tick.wallets
    /\ tick' = [tick EXCEPT !.wallets = @ \ {w}, !.trades = read_state(log, w).open]
    /\ UNCHANGED <<log, stored, env, faults, pc, pend>>

HoldTrade(r) ==
    /\ pc = "exits" /\ pend = <<>> /\ r \in tick.trades
    /\ tick' = [tick EXCEPT !.trades = @ \ {r}]
    /\ UNCHANGED <<log, stored, env, faults, pc, pend>>

CloseTrade(r, mark) ==
    /\ pc = "exits" /\ pend = <<>> /\ r \in tick.trades
    /\ r.leg.event \in tick.quoted
    /\ tick' = [tick EXCEPT !.trades = @ \ {r}]
    /\ pend' = Closing(r, mark)
    /\ UNCHANGED <<log, stored, env, faults, pc>>

ExitsDone ==
    /\ pc = "exits" /\ pend = <<>> /\ tick.wallets = {} /\ tick.trades = {}
    /\ pc' = "sweep"
    /\ UNCHANGED <<log, stored, env, faults, pend, tick>>

-----------------------------------------------------------------------------
(* run_active_sweep and manage_active_wallets.                             *)

\* latest_due_gate_instant, 0 when none has passed. The gates are those of the
\* profiles in use; all modelled days are within the look-back.
LatestDue(profiles, now) ==
    Max({0} \cup {g \in {GateAt[w][e] : w \in profiles \cap Gated, e \in Events} : g <= now})

Instant == LatestDue(tick.profiles, tick.now)

ActiveInUse == tick.profiles \cap Active

\* Mutant: the stored instant is not compared.
SweepIsDueAlways == ActiveInUse # {} /\ Instant # 0

SweepIsDue == ActiveInUse # {} /\ Instant # 0 /\ Instant # stored

\* The gated wallets whose gate is open are looked at after the sweep.
ToUnits ==
    /\ pc' = "units"
    /\ tick' = [tick EXCEPT !.wallets = {}, !.sweep = NoSweep, !.quoted = Unresolved,
                            !.pairs = {p \in Pairs :
                                          /\ p[1] \in tick.profiles \cap Gated
                                          /\ AtGate(p[1], p[2], tick.now)}]

SkipSweep ==
    /\ pc = "sweep" /\ ~SweepIsDue
    /\ ToUnits
    /\ UNCHANGED <<log, stored, env, faults, pend>>

\* The contexts that could be fetched; without one the sweep is empty.
BeginSweep ==
    /\ pc = "sweep" /\ SweepIsDue
    /\ pc' = "manage"
    /\ \E contexts \in SUBSET Unresolved :
          tick' = [tick EXCEPT !.quoted = contexts,
                               !.wallets = IF contexts = {} THEN {} ELSE ActiveInUse]
    /\ UNCHANGED <<log, stored, env, faults, pend>>

LegExposure(w, l) ==
    LET rows == {o \in read_state(log, w).open : o.leg = l}
    IN  SumFunctionOnSet([r \in rows |-> r.stake], rows)

ManageWallet(w) ==
    /\ pc = "manage" /\ tick.sweep.wallet = {} /\ w \in tick.wallets
    /\ LET balance == read_state(log, w).balance
       IN  tick' = [tick EXCEPT
              !.wallets = @ \ {w},
              !.sweep = [NoSweep EXCEPT
                  !.wallet = {w}, !.bankroll = balance, !.balance = balance,
                  !.held = [l \in Legs |-> LegExposure(w, l)],
                  !.todo = {l \in Legs : l.event \in tick.quoted}]]
    /\ UNCHANGED <<log, stored, env, faults, pc, pend>>

AtLeg(w, l) ==
    /\ pc = "manage" /\ pend = <<>>
    /\ tick.sweep.wallet = {w} /\ tick.sweep.closing = {} /\ l \in tick.sweep.todo

\* Stale or illiquid, no edge, below the floor, at the cap: nothing is done.
HoldLeg(w, l) ==
    /\ AtLeg(w, l)
    /\ tick' = [tick EXCEPT !.sweep.todo = @ \ {l}]
    /\ UNCHANGED <<log, stored, env, faults, pc, pend>>

\* flatten_leg: the tickets open on the leg are closed one by one.
FlattenLeg(w, l, mark) ==
    /\ AtLeg(w, l) /\ tick.sweep.held[l] > 0
    /\ tick' = [tick EXCEPT
                  !.sweep.todo = @ \ {l}, !.sweep.mark = mark,
                  !.sweep.closing = {r \in read_state(log, w).open : r.leg = l}]
    /\ UNCHANGED <<log, stored, env, faults, pc, pend>>

CloseTicket(r) ==
    /\ pc = "manage" /\ pend = <<>> /\ r \in tick.sweep.closing
    /\ tick' = [tick EXCEPT !.sweep.closing = @ \ {r}]
    /\ pend' = Closing(r, tick.sweep.mark)
    /\ UNCHANGED <<log, stored, env, faults, pc>>

Cap(bankroll) == (bankroll * CapNum) \div CapDen

\* Mutants of AddStake: the balance, or what the leg already holds, is forgotten.
AddStakeOnCredit(bankroll, exposure, balance) ==
    {s \in Tickets : s <= Cap(bankroll) - exposure}

AddStakePerTicket(bankroll, exposure, balance) ==
    {s \in Tickets : s <= Cap(bankroll) /\ s <= balance}

\* _add_stake: one ticket within the headroom of the leg's cap and the balance.
AddStake(bankroll, exposure, balance) ==
    {s \in Tickets : s <= Cap(bankroll) - exposure /\ s <= balance}

\* A ticket on a held leg (ACTIVE_ADD) or on a new one (ACTIVE_OPEN).
BuyLeg(w, l, s) ==
    /\ AtLeg(w, l) /\ Cardinality(Opened) < MaxTrades
    /\ s \in AddStake(tick.sweep.bankroll, tick.sweep.held[l], tick.sweep.balance)
    /\ log' = Append(log, OpenRow(Len(log) + 1, w, l, s, Instant))
    /\ tick' = [tick EXCEPT !.sweep.todo = @ \ {l}, !.sweep.balance = @ - s]
    /\ UNCHANGED <<stored, env, faults, pc, pend>>

WalletDone ==
    /\ pc = "manage" /\ pend = <<>> /\ tick.sweep.wallet # {}
    /\ tick.sweep.todo = {} /\ tick.sweep.closing = {}
    /\ tick' = [tick EXCEPT !.sweep = NoSweep]
    /\ UNCHANGED <<log, stored, env, faults, pc, pend>>

SweepDone ==
    /\ pc = "manage" /\ tick.sweep.wallet = {} /\ tick.wallets = {}
    /\ pc' = "mark"
    /\ UNCHANGED <<log, stored, env, faults, pend, tick>>

\* manage_active_wallets raised: the tick goes on, the instant is not stored.
SweepFails ==
    /\ pc = "manage" /\ faults < MaxFaults
    /\ faults' = faults + 1
    /\ pend' = <<>>
    /\ ToUnits
    /\ UNCHANGED <<log, stored, env>>

\* Mutant: only a sweep that changed something stores its instant.
MarkInstantIfTraded ==
    /\ pc = "mark"
    /\ stored' = IF \E k \in Opened : log[k].at = Instant THEN Instant ELSE stored
    /\ ToUnits
    /\ UNCHANGED <<log, env, faults, pend>>

MarkInstant ==
    /\ pc = "mark"
    /\ stored' = Instant
    /\ ToUnits
    /\ UNCHANGED <<log, env, faults, pend>>

-----------------------------------------------------------------------------
(* The work units of run_tick, and run_profile for each profile at its gate.*)

\* No market context: the profiles of the unit are left for this tick.
UnitFails(e) ==
    /\ pc = "units" /\ pend = <<>> /\ \E w \in Wallets : <<w, e>> \in tick.pairs
    /\ tick' = [tick EXCEPT !.pairs = {p \in @ : p[2] # e}]
    /\ UNCHANGED <<log, stored, env, faults, pc, pend>>

AtProfile(w, e) ==
    pc = "units" /\ pend = <<>> /\ e \in Listed /\ <<w, e>> \in tick.pairs

\* The fetched event is resolved already.
SettleAtGate(w, e) ==
    /\ AtProfile(w, e) /\ winner[e] # NoWinner
    /\ tick' = [tick EXCEPT !.pairs = @ \ {<<w, e>>}]
    /\ pend' = Settlement(w, e, winner[e])
    /\ UNCHANGED <<log, stored, env, faults, pc>>

\* allocate_stakes with the balance check of open_trades_from_analysis: the
\* stakes of the BUY rows are paid out of one balance, row after row.
Allocations(e, balance) ==
    {f \in UNION {[legs -> Tickets] : legs \in SUBSET {l \in Legs : l.event = e}} :
        /\ DOMAIN f # {}
        /\ SumFunctionOnSet(f, DOMAIN f) <= balance
        /\ \A l, m \in DOMAIN f : l.bucket = m.bucket => l = m}

\* Mutant: dedupe on legs only, as open_trades_from_analysis alone does.
NeedsDecisionAlways(w, e) == TRUE

NeedsDecision(w, e) == ~profile_has_open_on_event(log, w, e)

\* DEDUPED_OPEN_TRADES_EXIST, no BUY row, or a model without its statistics.
SkipProfile(w, e) ==
    /\ AtProfile(w, e)
    /\ tick' = [tick EXCEPT !.pairs = @ \ {<<w, e>>}]
    /\ UNCHANGED <<log, stored, env, faults, pc, pend>>

\* open_trades_from_analysis: the rows are one transaction. What another process
\* may append after the balance was read only raises the balance.
OpenTrades(w, e) ==
    /\ AtProfile(w, e) /\ e \in tick.quoted /\ NeedsDecision(w, e)
    /\ \E f \in Allocations(e, read_state(log, w).balance) :
          LET legs == SetToSeq({l \in DOMAIN f :
                          \A o \in read_state(log, w).open : o.leg # l})
          IN  /\ Cardinality(Opened) + Len(legs) <= MaxTrades
              /\ log' = log \o [n \in DOMAIN legs |->
                            OpenRow(Len(log) + n, w, legs[n], f[legs[n]], tick.now)]
    /\ tick' = [tick EXCEPT !.pairs = @ \ {<<w, e>>}]
    /\ UNCHANGED <<stored, env, faults, pc, pend>>

TickDone ==
    /\ pc = "units" /\ pend = <<>> /\ tick.pairs = {}
    /\ pc' = "idle" /\ tick' = NoTick
    /\ UNCHANGED <<log, stored, env, faults, pend>>

-----------------------------------------------------------------------------
(* A call of the tick raised outside the sweep, or the process died and was*)
(* started again: what was not committed is lost.                          *)
TickFails ==
    /\ pc # "idle" /\ faults < MaxFaults
    /\ faults' = faults + 1
    /\ pc' = "idle" /\ pend' = <<>> /\ tick' = NoTick
    /\ UNCHANGED <<log, stored, env>>

TimePasses ==
    /\ clock < MaxClock
    /\ clock' = clock + 1
    /\ UNCHANGED <<log, stored, winner, enabled, faults, pc, pend, tick>>

\* A market resolves after the gates of its event.
MarketResolves(e, b) ==
    /\ e \in Unresolved /\ \A w \in Gated : clock > GateAt[w][e]
    /\ winner' = [winner EXCEPT ![e] = b]
    /\ UNCHANGED <<log, stored, clock, enabled, faults, pc, pend, tick>>

Settle ==
    \/ \E e \in Events : SkipEvent(e) \/ ResolvedEvent(e)
    \/ \E w \in Wallets, e \in Events : SettleProfile(w, e)
    \/ SettleDone

Exits ==
    \/ \E w \in Wallets : ExitsOf(w)
    \/ \E r \in tick.trades : HoldTrade(r) \/ \E m \in Marks : CloseTrade(r, m)
    \/ ExitsDone

Sweep ==
    \/ SkipSweep \/ BeginSweep
    \/ \E w \in Active : ManageWallet(w)
    \/ \E w \in Active, l \in Legs :
          \/ HoldLeg(w, l)
          \/ \E m \in Marks : FlattenLeg(w, l, m)
          \/ \E s \in Tickets : BuyLeg(w, l, s)
    \/ \E r \in tick.sweep.closing : CloseTicket(r)
    \/ WalletDone \/ SweepDone \/ MarkInstant

Units ==
    \/ \E e \in Events : UnitFails(e)
    \/ \E w \in Gated, e \in Events :
          SettleAtGate(w, e) \/ SkipProfile(w, e) \/ OpenTrades(w, e)
    \/ TickDone

BotStep == BeginTick \/ Settle \/ Exits \/ Sweep \/ Units \/ Commit

Next ==
    \/ BotStep \/ SweepFails \/ TickFails \/ TimePasses
    \/ \E e \in Events, b \in Buckets : MarketResolves(e, b)

Spec == Init /\ [][Next]_vars

-----------------------------------------------------------------------------
(* Fairness, for the liveness properties only: launchd keeps the process   *)
(* alive and its loop never ends; Gamma's answer on a resolved event is not*)
(* lost for ever.                                                          *)
FairSpec ==
    /\ Spec
    /\ WF_vars(BotStep)
    /\ \A e \in Listed : SF_vars(ResolvedEvent(e))

-----------------------------------------------------------------------------
(* Properties.                                                             *)

TypeOK ==
    /\ log \in Seq(Row) /\ pend \in Seq(Row)
    /\ stored \in Nat /\ clock \in Nat /\ faults \in Nat
    /\ winner \in [Events -> Buckets \cup {NoWinner}]
    /\ enabled \subseteq Wallets
    /\ pc \in {"idle", "settle", "exits", "sweep", "manage", "mark", "units"}
    /\ tick \in TickLocals

(* A trade ends once, by one SETTLE or one CLOSE row: exits, flattened legs *)
(* and settlements of interrupted ticks never pay a trade twice            *)
(* (tests/test_active_exits.py: "must not write a second payout").         *)
EndsOnce ==
    \A k, n \in DOMAIN log :
        /\ Ends(log[k]) /\ Ends(log[n])
        /\ log[k].trade = log[n].trade
        => k = n

\* Day 2 is the weather day of every event and day 1 the one before: a row may
\* be written on either, and Gamma may not answer for an event.
Days == 1..2
Knowledge ==
    {[date |-> [e \in answered |-> 2], written |-> [k \in DOMAIN log |-> IF k <= n THEN 1 ELSE 2]] :
        answered \in SUBSET Listed, n \in 0..Len(log)}

\* read_state and the SQL views.
ViewsAgree ==
    \A w \in Wallets :
        /\ read_state(log, w).balance = paper_profile_balance(log, w)
        /\ read_state(log, w).open = {r \in paper_open_positions(log) : r.wallet = w}

\* The report, day by day, with the viewer's trades, its own windows and rows
\* of several wallets.
ReportsAgree ==
    \A known \in Knowledge :
        LET perf == [w \in {r.wallet : r \in Range(log)} |-> _replay_profile(log, w, Days, known)]
            all == _rollup(perf).daily
        IN  /\ \A w \in DOMAIN perf :
                /\ perf[w].balance = paper_profile_balance(log, w)
                /\ \A d \in Days :
                    LET trades == realized_trades_from_rows(log, w, d, known)
                    IN  IF d \in DOMAIN perf[w].daily
                        THEN /\ perf[w].daily[d].n_trades = Cardinality(trades)
                             /\ perf[w].daily[d].pnl = SumFunction([t \in trades |-> t.pnl])
                             /\ _replay_profile(log, w, {d}, known).daily
                                    = Restrict(perf[w].daily, {d})
                        ELSE trades = {}
            /\ SumFunction([d \in DOMAIN all |-> all[d].pnl])
                    = SumFunction([w \in Wallets |-> read_state(log, w).realized])

\* What the scenario table promises of a winner is what settle_event then pays
\* each wallet, or less where the row stands for several winners.
ScenariosComeTrue ==
    \A e \in fetch_open_event_ids(log), cheap \in SUBSET Buckets, ordered \in SetToSeqs(Buckets) :
        LET trades == UNION {{t \in read_state(log, w).open : t.leg.event = e} : w \in Wallets}
            rows == paper_scenarios(trades, ordered, cheap)
            Settled(w, b) ==
                LET paid == Settlement(w, e, b)
                IN  SumFunction([k \in DOMAIN paid |-> paid[k].payout - paid[k].stake])
        IN  /\ \A b \in Buckets : Cardinality({r \in rows : b \in r.winners}) = 1
            /\ \A r \in rows, w \in Wallets :
                    /\ \A b \in r.winners : r.pnl[w] <= Settled(w, b)
                    /\ \E b \in r.winners : r.pnl[w] = Settled(w, b)

(* A wallet is computed in five places: by the replay of read_state, by the  *)
(* SQL views, by the report of performance, by the viewer's drill-down and by*)
(* the table of scenarios. They agree on its balance, its open trades, on    *)
(* what each day earned, whatever Gamma answers, and on what the settlement  *)
(* of an open event will pay (schema_paper_postgres.sql,                     *)
(* report_performance.py, trades.py, cli/main.py). The last three are asked  *)
(* between two ticks, after a crash in the middle of one too.                *)
ReadersAgree ==
    /\ ViewsAgree
    /\ pc = "idle" => ReportsAgree /\ ScenariosComeTrue

(* No wallet is overdrawn, though the sweep sizes its tickets on a balance *)
(* it read once, over several legs and events.                             *)
Solvent == \A w \in Wallets : read_state(log, w).balance >= 0

(* What an active wallet holds on a leg, over all its sweeps, retried ones *)
(* included, stays under the cap of the largest bankroll it ever had.      *)
LegWithinCap ==
    \A w \in Active, l \in Legs :
        \E n \in 0..Len(log) :
            LegExposure(w, l) <= Cap(read_state(SubSeq(log, 1, n), w).balance)

(* Both together: the tickets of one sweep, each sized on what was read      *)
(* before the first of them, stay within the wallet's means.                *)
WithinMeans == Solvent /\ LegWithinCap

(* Dedupe: what a gated wallet holds on an event was opened by one decision *)
(* although its gate is open for several ticks.                            *)
OneDecisionPerEvent ==
    \A q, r \in paper_open_positions(log) :
        /\ q.wallet \in Gated /\ q.wallet = r.wallet
        /\ q.leg.event = r.leg.event
        => q.at = r.at

(* bot.py: the sweep is "deduped on the gate instant so each tick fires the *)
(* sweep exactly once": a leg gets one ticket per instant, and another one *)
(* only for every sweep or tick that failed.                               *)
OneTicketPerInstant ==
    \A w \in Active, l \in Legs, m \in 1..MaxClock :
        Cardinality({k \in Opened : /\ log[k].wallet = w /\ log[k].leg = l
                                    /\ log[k].at = m}) <= 1 + faults

(* Every trade on a resolved event is paid in the end: again and again, no *)
(* event that is resolved has an open trade.                               *)
ResolvedIsPaid ==
    []<>(fetch_open_event_ids(log) \subseteq Unresolved)

(* bot.py: an instant is "caught at the gate wake, or within the next      *)
(* 15-min settle sweep": again and again the instant stored is the latest. *)
InstantIsSwept ==
    []<>(Active # {} => stored = LatestDue(enabled, clock))
=============================================================================
