------------------------------ MODULE LiveNode ------------------------------
(***************************************************************************)
(* The live trading node (live/node.py, live/risk.py and the loop of       *)
(* scripts/run_live_node.py) with everything it drives: its journal, the   *)
(* place-and-manage loop, reconciliation and the exchange.                 *)
(*                                                                         *)
(* One process with one thread: pc says where it is. Around it the exchange*)
(* fills and cancels, markets resolve, time passes each profile's gate, the*)
(* operator works the kill switch and the halt row, and the process dies   *)
(* and is started again.                                                   *)
(***************************************************************************)
EXTENDS LiveReconcile

CONSTANTS
    ProfileEvent,      \* the event of a profile's city and settlement date
    MaxOpenExposure, MaxEventExposure, MaxDailyLoss,     \* RiskConfig
    MaxIntents,        \* bound: intents recorded in a behaviour
    MaxFaults,         \* bound: crashes and failed ticks
    MaxOperator        \* bound: operator actions

ASSUME ProfileAssumption == ProfileEvent \in [Profiles -> Events]

ASSUME LimitsAssumption ==
    /\ MaxOpenExposure \in Nat /\ MaxEventExposure \in Nat
    /\ MaxDailyLoss \in Nat \ {0}

ASSUME BoundsAssumption == {MaxIntents, MaxFaults, MaxOperator} \subseteq Nat

VARIABLES
    tick,        \* run_node_tick's local state
    phase,       \* where wall-clock time stands relative to a profile's gate
    stop,        \* which of the operator's stops are on
    nextIntent,  \* the next fresh intent id (uuid4)
    sentStopped, \* history: orders sent since a stop was put on
    faults, operatorActions

(* early: before the gate window; gate: lead_hours_at_target holds; retry: *)
(* inside the retry window after it; over: past that window.               *)
Phases == <<"early", "gate", "retry", "over">>

PhaseIndex(h) == CHOOSE n \in DOMAIN Phases : Phases[n] = h

Stops == {"kill switch", "ledger halted"}

TickLocals ==
    [at     : [Profiles -> {Phases[n] : n \in DOMAIN Phases}],  \* phase at "now"
     settle : SUBSET Events,                \* open events still to look at
     units  : SUBSET Events,                \* work units still to look at
     due    : SUBSET Profiles,              \* profiles due on the current unit
     rows   : SUBSET (Profiles \X Legs)]    \* BUY rows of the current profile

envVars == <<phase, stop, operatorActions>>
nodeVars == <<tick, nextIntent, sentStopped, faults>>
vars == <<exchVars, journal, pc, orderVars, recVars, envVars, nodeVars>>

Idle(t) == [t EXCEPT !.settle = {}, !.units = {}, !.due = {}, !.rows = {}]

NoGateSeen == [p \in Profiles |-> "early"]

Init ==
    /\ ExchInit
    /\ journal = <<>>
    /\ pc = "down"
    /\ cur = NoRow /\ ack = NoSnapshot /\ last = "PENDING" /\ result = NoSnapshot
    /\ rec = NotReconciling /\ reported = {}
    /\ tick = [at |-> NoGateSeen, settle |-> {}, units |-> {}, due |-> {}, rows |-> {}]
    /\ phase = [p \in Profiles |-> "early"]
    /\ stop = {}
    /\ nextIntent = 1
    /\ sentStopped = 0
    /\ faults = 0 /\ operatorActions = 0

-----------------------------------------------------------------------------
(* main: start, reconcile, then tick, perhaps reconcile, and sleep.        *)

Start ==
    /\ pc = "down"
    /\ BeginReconcile(TRUE)
    /\ tick' = Idle([tick EXCEPT !.at = NoGateSeen])
    /\ UNCHANGED <<exchVars, journal, orderVars, reported, envVars,
                   nextIntent, sentStopped, faults>>

AfterTick ==
    /\ pc = "after"
    /\ \/ BeginReconcile(FALSE)
       \/ pc' = "tick" /\ UNCHANGED rec
    /\ UNCHANGED <<exchVars, journal, orderVars, reported, envVars, nodeVars>>

Elsewhere == UNCHANGED <<envVars, nodeVars>>

ReconcileStep == Reconcile /\ Elsewhere

(* Mutant: open events are settled on gate ticks only.                     *)
BeginTickAtGateOnly ==
    /\ pc = "tick"
    /\ \A p \in Profiles : ~(phase[p] = "gate" /\ tick.at[p] = "gate")
    /\ tick' = [tick EXCEPT !.at = phase,
                            !.settle = IF \E p \in Profiles : phase[p] = "gate"
                                       THEN open_event_ids(journal) ELSE {}]
    /\ pc' = "settle"
    /\ UNCHANGED <<exchVars, journal, orderVars, recVars, envVars,
                   nextIntent, sentStopped, faults>>

(* A tick fixes its "now". The 15-minute sleep outlasts a gate window, so  *)
(* without a restart no two ticks see the same gate open.                  *)
BeginTick ==
    /\ pc = "tick"
    /\ \A p \in Profiles : ~(phase[p] = "gate" /\ tick.at[p] = "gate")
    /\ tick' = [tick EXCEPT !.at = phase, !.settle = open_event_ids(journal)]
    /\ pc' = "settle"
    /\ UNCHANGED <<exchVars, journal, orderVars, recVars, envVars,
                   nextIntent, sentStopped, faults>>

-----------------------------------------------------------------------------
(* settle_open_events: one fetch and one transaction per open event.       *)

\* The fetch raised, or Gamma does not report a winner yet.
SkipSettle(e) ==
    /\ pc = "settle" /\ e \in tick.settle
    /\ tick' = [tick EXCEPT !.settle = @ \ {e}]
    /\ UNCHANGED <<exchVars, journal, pc, orderVars, recVars, envVars,
                   nextIntent, sentStopped, faults>>

record_settlement(e) ==
    /\ pc = "settle" /\ e \in tick.settle
    /\ winner[e] # NoWinner
    /\ \E ks \in HeldInOrder(journal, e) :
          journal' = journal \o [n \in DOMAIN ks |-> SettleRow(journal[ks[n]], winner[e])]
    /\ tick' = [tick EXCEPT !.settle = @ \ {e}]
    /\ UNCHANGED <<exchVars, pc, orderVars, recVars, envVars,
                   nextIntent, sentStopped, faults>>

SettleDone ==
    /\ pc = "settle" /\ tick.settle = {}
    /\ tick' = [tick EXCEPT !.units = Events]
    /\ pc' = "units"
    /\ UNCHANGED <<exchVars, journal, orderVars, recVars, envVars,
                   nextIntent, sentStopped, faults>>

-----------------------------------------------------------------------------
(* The gate: which profiles of a unit are due, and what each buys.         *)

Due(p) ==
    \/ tick.at[p] = "gate"
    \/ tick.at[p] = "retry" /\ unfilled_retry_pending(journal, p)

\* Without a due profile or a market context the unit is left.
NextUnit(e) ==
    LET ready == {p \in Profiles : ProfileEvent[p] = e /\ Due(p)}
    IN  /\ pc = "units" /\ e \in tick.units
        /\ \/ /\ tick' = [tick EXCEPT !.units = @ \ {e}]
              /\ UNCHANGED pc
           \/ /\ ready # {}
              /\ tick' = [tick EXCEPT !.units = @ \ {e}, !.due = ready]
              /\ pc' = "due"
        /\ UNCHANGED <<exchVars, journal, orderVars, recVars, envVars,
                       nextIntent, sentStopped, faults>>

UnitsDone ==
    /\ pc = "units" /\ tick.units = {}
    /\ pc' = "after"
    /\ UNCHANGED <<exchVars, journal, orderVars, recVars, envVars, nodeVars>>

\* analyze_event: at most one BUY row per bucket, on one of its sides.
BuyRows(e) ==
    {b \in SUBSET {l \in Legs : l.event = e} :
        \A l, m \in b : l.bucket = m.bucket => l = m}

NextProfile(p) ==
    /\ pc = "due" /\ p \in tick.due
    /\ \/ /\ has_open_on_event(journal, ProfileEvent[p], p)
          /\ tick' = [tick EXCEPT !.due = @ \ {p}]
       \/ /\ ~has_open_on_event(journal, ProfileEvent[p], p)
          /\ \E b \in BuyRows(ProfileEvent[p]) :
                tick' = [tick EXCEPT !.due = @ \ {p}, !.rows = {p} \X b]
    /\ pc' = IF tick'.rows = {} THEN "due" ELSE "rows"
    /\ UNCHANGED <<exchVars, journal, orderVars, recVars, envVars,
                   nextIntent, sentStopped, faults>>

DueDone ==
    /\ pc = "due" /\ tick.due = {}
    /\ pc' = "units"
    /\ UNCHANGED <<exchVars, journal, orderVars, recVars, envVars, nodeVars>>

-----------------------------------------------------------------------------
(* One BUY row: size, ask the risk engine, record the intent, execute.     *)

\* Mutants: no daily loss limit; a kill switch nobody reads.
TickStopByOperator == stop # {}

TickStopByLoss == realized_pnl(journal) <= -MaxDailyLoss

\* The reasons that end the tick: kill switch, ledger halted, daily loss.
TickStop == stop # {} \/ realized_pnl(journal) <= -MaxDailyLoss

\* Mutant: the event cap is compared without the order's own stake.
WithinOldLimits(l, s) ==
    /\ open_exposure_usd(journal) + s <= MaxOpenExposure
    /\ event_exposure_usd(journal, l.event) <= MaxEventExposure

WithinLimits(l, s) ==
    /\ open_exposure_usd(journal) + s <= MaxOpenExposure
    /\ event_exposure_usd(journal, l.event) + s <= MaxEventExposure

\* No token, book, balance or size for the row, or a denial of this row alone.
SkipRow(r) ==
    /\ pc = "rows" /\ r \in tick.rows
    /\ tick' = [tick EXCEPT !.rows = @ \ {r}]
    /\ UNCHANGED <<exchVars, journal, pc, orderVars, recVars, envVars,
                   nextIntent, sentStopped, faults>>

StopTick ==
    /\ pc = "rows" /\ tick.rows # {}
    /\ TickStop
    /\ tick' = Idle(tick)
    /\ pc' = "after"
    /\ UNCHANGED <<exchVars, journal, orderVars, recVars, envVars,
                   nextIntent, sentStopped, faults>>

record_intent(r, s) ==
    /\ pc = "rows" /\ r \in tick.rows
    /\ ~TickStop
    /\ WithinLimits(r[2], s)
    /\ nextIntent <= MaxIntents
    /\ cur' = IntentRow(nextIntent, r[1], r[2], s)
    /\ journal' = Append(journal, cur')
    /\ nextIntent' = nextIntent + 1
    /\ tick' = [tick EXCEPT !.rows = @ \ {r}]
    /\ pc' = "place"
    /\ UNCHANGED <<exchVars, ack, last, result, recVars, envVars, sentStopped, faults>>

RowsDone ==
    /\ pc = "rows" /\ tick.rows = {}
    /\ pc' = "due"
    /\ UNCHANGED <<exchVars, journal, orderVars, recVars, envVars, nodeVars>>

ManageStep ==
    /\ ManageOrder
    /\ sentStopped' = IF pc = "place" /\ stop # {} THEN sentStopped + 1
                                                    ELSE sentStopped
    /\ UNCHANGED <<recVars, envVars, tick, nextIntent, faults>>

-----------------------------------------------------------------------------
(* Failures.                                                               *)

\* A fetch, an analysis or a transaction raised: main logs it and goes on.
TickFails ==
    /\ pc \in {"settle", "units", "due", "rows", "ack", "poll", "final", "result"}
    /\ faults < MaxFaults
    /\ faults' = faults + 1
    /\ tick' = Idle(tick)
    /\ NoOrder
    /\ pc' = "after"
    /\ UNCHANGED <<exchVars, journal, recVars, envVars, nextIntent, sentStopped>>

Crash ==
    /\ pc # "down"
    /\ faults < MaxFaults
    /\ faults' = faults + 1
    /\ tick' = Idle([tick EXCEPT !.at = NoGateSeen])
    /\ NoOrder
    /\ rec' = NotReconciling
    /\ pc' = "down"
    /\ UNCHANGED <<exchVars, journal, reported, envVars, nextIntent, sentStopped>>

-----------------------------------------------------------------------------
(* The environment.                                                        *)

untouched == <<journal, pc, orderVars, recVars, tick, nextIntent, faults>>

TimePasses(p) ==
    /\ phase[p] # "over"
    /\ phase' = [phase EXCEPT ![p] = Phases[PhaseIndex(@) + 1]]
    /\ UNCHANGED <<exchVars, untouched, stop, operatorActions, sentStopped>>

\* touch or rm the kill switch file; append a HALT or a clearing HALT row.
OperatorStop(reason) ==
    /\ operatorActions < MaxOperator
    /\ operatorActions' = operatorActions + 1
    /\ stop' = IF reason \in stop THEN stop \ {reason} ELSE stop \cup {reason}
    /\ sentStopped' = IF stop' = {} THEN 0 ELSE sentStopped
    /\ UNCHANGED <<exchVars, untouched, phase>>

ExchangeFills(o) == Fill(o) /\ UNCHANGED <<untouched, envVars, sentStopped>>

\* A market resolves only after the entry windows of all its profiles.
MarketResolves(e, b) ==
    /\ \A p \in Profiles : ProfileEvent[p] = e => phase[p] = "over"
    /\ Resolve(e, b)
    /\ UNCHANGED <<untouched, envVars, sentStopped>>

TickStep ==
    \/ BeginTick
    \/ \E e \in Events : SkipSettle(e) \/ record_settlement(e) \/ NextUnit(e)
    \/ SettleDone \/ UnitsDone \/ DueDone
    \/ \E p \in Profiles : NextProfile(p)
    \/ \E r \in tick.rows : SkipRow(r) \/ \E s \in Stakes : record_intent(r, s)
    \/ StopTick \/ RowsDone
    \/ ManageStep
    \/ AfterTick

Environment ==
    \/ \E p \in Profiles : TimePasses(p)
    \/ \E reason \in Stops : OperatorStop(reason)
    \/ \E o \in DOMAIN exch : ExchangeFills(o)
    \/ \E e \in Events, b \in Buckets : MarketResolves(e, b)

Next == Start \/ ReconcileStep \/ TickStep \/ TickFails \/ Crash \/ Environment

Spec == Init /\ [][Next]_vars

-----------------------------------------------------------------------------
(* Fairness, for the liveness properties only. The thread runs as long as  *)
(* the process lives; wall-clock time passes; a market ends up resolved;   *)
(* Gamma's answer is not lost for ever. Start is not fair: launchd does not*)
(* relaunch the node, an operator does.                                    *)

Settlement == \E e \in Events : record_settlement(e)

FairSpec ==
    /\ Spec
    /\ WF_vars(TickStep \/ ReconcileStep)
    /\ WF_vars(\E p \in Profiles : TimePasses(p))
    /\ SF_vars(Settlement)

(* A diligent operator starts the node whenever it is down, and no call of *)
(* a reconciliation that can be answered raises for ever.                  *)
OperatorRestarts ==
    /\ FairSpec
    /\ WF_vars(Start)
    /\ SF_vars(ListOpenOrders /\ Elsewhere)
    /\ SF_vars(ListUnresolved /\ Elsewhere)
    /\ SF_vars(ComparePositions /\ Elsewhere)
    /\ \A i \in 1..MaxIntents :
          /\ SF_vars((StillOpen(i) \/ ManualReview(i)) /\ Elsewhere)
          /\ SF_vars((ReadOutcome(i) \/ AssumeNeverPlaced(i)) /\ Elsewhere)
          /\ SF_vars(ResolveStaleIntent(i) /\ Elsewhere)

-----------------------------------------------------------------------------
(* Properties.                                                             *)

TypeOK ==
    /\ journal \in Seq(Row)
    /\ exch \in Seq(ExchangeOrder)
    /\ winner \in [Events -> Buckets \cup {NoWinner}]
    /\ pc \in {"down", "r_open", "r_intents", "r_next", "r_write", "tick", "settle",
               "units", "due", "rows", "place", "ack", "poll", "cancel", "final",
               "result", "after"}
    /\ cur \in Row \cup {NoRow}
    /\ ack \in Snapshot /\ last \in ORDER_STATES /\ result \in Snapshot
    /\ rec \in ReconcileLocals /\ reported \subseteq Nat
    /\ tick \in TickLocals
    /\ phase \in [Profiles -> {Phases[n] : n \in DOMAIN Phases}]
    /\ stop \subseteq Stops
    /\ nextIntent \in Nat /\ sentStopped \in Nat
    /\ faults \in Nat /\ operatorActions \in Nat

(* The write-ahead: no order is on the exchange unless its INTENT row, for *)
(* the same token, was in the journal first (ledger.py: "an INTENT row is  *)
(* written BEFORE any order is sent"), and no intent is sent twice.        *)
WriteAhead ==
    \A o \in DOMAIN exch :
        /\ \E k \in DOMAIN journal : /\ journal[k].type = "INTENT"
                                     /\ journal[k].intent = exch[o].intent
                                     /\ journal[k].leg = exch[o].leg
        /\ \A q \in DOMAIN exch : exch[q].intent = exch[o].intent => q = o

(* ledger.py: "exactly one RESULT row per intent". The order loop and the  *)
(* reconciliation both write RESULT rows, across crashes and failed ticks. *)
OneResult ==
    \A k, n \in DOMAIN journal :
        /\ journal[k].type = "RESULT" /\ journal[n].type = "RESULT"
        /\ journal[k].intent = journal[n].intent
        => k = n

(* record_settlement is "idempotent-safe": an intent is paid at most once, *)
(* only after a RESULT with shares, and for exactly those shares.          *)
PaidOnceForItsShares ==
    \A k \in DOMAIN journal : journal[k].type = "SETTLE" =>
        /\ \E n \in 1..(k - 1) : /\ journal[n].type = "RESULT"
                                 /\ journal[n].intent = journal[k].intent
                                 /\ journal[n].filled = journal[k].filled
                                 /\ journal[n].filled > 0
        /\ \A n \in DOMAIN journal :
              /\ journal[n].type = "SETTLE"
              /\ journal[n].intent = journal[k].intent
              => n = k

(* The ledger never claims shares the exchange did not fill: what a RESULT *)
(* records was read from that intent's own order, and fills only grow.     *)
LedgerNeverOverstates ==
    \A k \in DOMAIN journal : journal[k].type = "RESULT" /\ journal[k].filled > 0 =>
        \E o \in DOMAIN exch : /\ exch[o].intent = journal[k].intent
                               /\ exch[o].leg = journal[k].leg
                               /\ journal[k].filled <= exch[o].filled

\* The results that leave open what became of the order: the answer to the
\* placement was lost, its status could not be read, or it was cancelled with
\* no proof that the cancel took effect.
Unsettled(row) == row.id = NoId \/ row.state \in {"FAILED", "CANCELED"}

MisjudgedOnlyAsListed ==
    \A o \in DOMAIN exch, k \in DOMAIN journal :
        /\ journal[k].type = "RESULT" /\ journal[k].intent = exch[o].intent
        /\ journal[k].filled < exch[o].filled \/ Resting(o)
        => Unsettled(journal[k])

(* The ledger and the exchange agree about every closed intent: the ledger  *)
(* never claims more than was filled, and an order that got more than its   *)
(* RESULT says, or may still get it, is one of the three kinds of Unsettled:*)
(* never one that was booked FILLED or REJECTED, whether by the order loop  *)
(* (orders.py:37, :89, :126) or by a reconciliation after a crash           *)
(* (reconcile.py:50).                                                       *)
LedgerAgreesWithExchange == LedgerNeverOverstates /\ MisjudgedOnlyAsListed

(* Dedupe: through gates, retries, crashes and reconciliation, a profile   *)
(* never has two intents on one token that are in flight or hold shares.   *)
OneLiveIntentPerToken ==
    \A k, n \in InFlight(journal) \cup Held(journal) :
        /\ journal[k].prof = journal[n].prof
        /\ journal[k].leg = journal[n].leg
        => k = n

(* The exposure limits, checked on the quoted cost before each order, hold *)
(* for the ledger at all times up to the slippage of a single order: what  *)
(* the fills of the last one admitted may cost above its quote.            *)
ExposureWithinCaps ==
    LET slip == Shares - Min(Stakes)
    IN  /\ open_exposure_usd(journal) <= MaxOpenExposure + slip
        /\ \A e \in Events : event_exposure_usd(journal, e) <= MaxEventExposure + slip

(* The kill switch and the halt row stop all opening: at most the one order*)
(* whose risk check had already passed is sent while a stop is on.         *)
AtMostOneAfterStop == sentStopped <= 1

(* What a day can cost at worst: if everything held or in flight lost, the  *)
(* day's loss would stay within the daily limit plus one full book. The    *)
(* limit is checked on SETTLE rows only, while settlements move exposure   *)
(* to losses and new orders move cash to exposure.                         *)
WorstCaseDayLoss ==
    realized_pnl(journal) - open_exposure_usd(journal)
        > -(MaxDailyLoss + MaxOpenExposure + Shares - Min(Stakes))

(* Every intent gets its RESULT, as long as the process lives and no       *)
(* transaction fails: the poll loop ends by its deadline at the latest.    *)
IntentsResolve ==
    \A i \in 1..MaxIntents :
        (i \in unresolved_intents(journal)) ~> (i \notin unresolved_intents(journal))

(* Shares the ledger holds on a resolved market are paid in the end.       *)
HeldSharesArePaid ==
    \A e \in Events :
        (winner[e] # NoWinner /\ e \in open_event_ids(journal))
            ~> (e \notin open_event_ids(journal))

-----------------------------------------------------------------------------
(* The node implements the intent lifecycle, read off the journal and the  *)
(* exchange's orders.                                                      *)

Recorded(type, i) == \E k \in DOMAIN journal : /\ journal[k].type = type
                                                /\ journal[k].intent = i

StageOf(i) ==
    IF Recorded("SETTLE", i) THEN "paid"
    ELSE IF HasResult(journal, i) THEN "booked"
    ELSE IF Recorded("INTENT", i) THEN "intended" ELSE "none"

FilledOf(i) ==
    IF \E o \in DOMAIN exch : exch[o].intent = i
    THEN exch[CHOOSE o \in DOMAIN exch : exch[o].intent = i].filled ELSE 0

BookedOf(i) ==
    IF HasResult(journal, i)
    THEN journal[CHOOSE k \in DOMAIN journal : /\ journal[k].type = "RESULT"
                                               /\ journal[k].intent = i].filled
    ELSE 0

Lifecycle == INSTANCE IntentLifecycle WITH
    Intents <- 1..MaxIntents,
    MaxFill <- Shares,
    stage <- [i \in 1..MaxIntents |-> StageOf(i)],
    sent <- {exch[o].intent : o \in DOMAIN exch},
    filled <- [i \in 1..MaxIntents |-> FilledOf(i)],
    booked <- [i \in 1..MaxIntents |-> BookedOf(i)]

(* Every step of the node, its crashes, its reconciliation and the exchange*)
(* is a step of the lifecycle: the journal invariant as a refinement.      *)
ImplementsLifecycle == Lifecycle!Spec

-----------------------------------------------------------------------------
(* What the repository says of the program and the code does not do.       *)

(* orders.py, on the ack: "Carry any fill the placement response already   *)
(* reported"; a failed read that forgets it "would strand a real position".*)
NoStrandedFill ==
    \A k, n \in DOMAIN journal :
        /\ journal[k].type = "ORDER" /\ journal[n].type = "RESULT"
        /\ journal[k].intent = journal[n].intent
        => journal[k].filled <= journal[n].filled

(* ledger.py, unfilled_retry_pending: a FAILED with an order id "may still *)
(* be resting, so it must never be re-sent".                               *)
FailedWithIdNeverResent ==
    \A k, n \in DOMAIN journal :
        /\ journal[k].type = "RESULT" /\ journal[k].state = "FAILED"
        /\ journal[k].id \notin {NoId, EmptyId}
        /\ n > k /\ journal[n].type = "INTENT"
        /\ journal[n].prof = journal[k].prof
        => journal[n].leg # journal[k].leg

(* reconcile.py: it "resolves crash-orphaned intents in the ledger" and    *)
(* "anything it cannot resolve safely is left as a discrepancy for an      *)
(* operator": one or the other, if the operator keeps starting the node.   *)
OrphansResolvedOrReported ==
    \A i \in 1..MaxIntents :
        (pc = "down" /\ i \in unresolved_intents(journal))
            ~> (i \notin unresolved_intents(journal) \/ i \in reported)

=============================================================================
