---------------------------- MODULE LiveJournal ----------------------------
(***************************************************************************)
(* The live node's journal: the append-only table live_events, and the     *)
(* questions LiveLedger asks of it (live/ledger.py, live/models.py).       *)
(*                                                                         *)
(* A journal is a sequence of rows in the order of the table's id column.  *)
(* Nothing else is stored: exposure, dedupe, retry and settlement are all  *)
(* queries over the rows, so they are operators of a journal j here.       *)
(*                                                                         *)
(* Shares are small integers and money is counted in units of the limit    *)
(* price, so a fill of n shares has a stake of n.                          *)
(***************************************************************************)
EXTENDS Integers, Sequences, FiniteSets, FiniteSetsExt, Functions

CONSTANTS
    Profiles,   \* trading profiles (one per city and lead gate)
    Events,     \* Polymarket events, one per city and settlement date
    Buckets,    \* temperature buckets of an event
    Legs,       \* tradable outcome tokens: [event, bucket, side]
    Shares,     \* shares of one order
    Stakes,     \* the walked cost size_buy may quote for an order
    PayoutUnit  \* what one winning share pays, in units of the limit price

SIDE_YES == "YES"
SIDE_NO == "NO"

ASSUME LegsAssumption ==
    Legs \subseteq [event : Events, bucket : Buckets, side : {SIDE_YES, SIDE_NO}]

ASSUME SharesAssumption == Shares \in Nat \ {0}

\* Walking the asks costs at most the shares at the limit, the last ask walked.
ASSUME StakesAssumption == Stakes \subseteq 1..Shares /\ Stakes # {}

ASSUME PayoutAssumption == PayoutUnit \in Nat

-----------------------------------------------------------------------------
(* The vocabulary of live/models.py.                                       *)

ORDER_STATES ==
    {"PENDING", "SUBMITTED", "OPEN", "FILLED", "CANCELED", "REJECTED", "FAILED"}

TERMINAL_STATES == {"FILLED", "CANCELED", "REJECTED", "FAILED"}

\* order_id: NULL, the empty string of a refused placement, or an exchange id.
NoId == 0
EmptyId == -1

(* One row of live_events, with the columns some query or property reads.  *)
Row ==
    [type   : {"INTENT", "ORDER", "RESULT", "SETTLE"},
     intent : Nat,            \* intent_id
     prof   : Profiles,       \* metadata->>'profile_id' of the intent
     leg    : Legs,           \* event, bucket and side, i.e. token_id
     id     : Int,            \* order_id
     state  : ORDER_STATES,
     filled : Nat,            \* filled_shares
     stake  : Nat,            \* stake_usd
     payout : Nat]            \* payout_usd

(* A snapshot of an order as the execution client reports it.              *)
Snapshot == [state : ORDER_STATES, id : Int, filled : Nat]

IntentRow(i, p, l, s) ==
    [type |-> "INTENT", intent |-> i, prof |-> p, leg |-> l, id |-> NoId,
     state |-> "PENDING", filled |-> 0, stake |-> s, payout |-> 0]

OrderRow(r, st) ==
    [r EXCEPT !.type = "ORDER", !.id = st.id, !.state = st.state,
              !.filled = st.filled, !.stake = 0]

\* record_result: the stake of a RESULT is what was filled, not what was meant.
ResultRow(r, st) ==
    [r EXCEPT !.type = "RESULT", !.id = st.id, !.state = st.state,
              !.filled = st.filled, !.stake = st.filled]

-----------------------------------------------------------------------------
(* Queries.                                                                *)

HasResult(j, i) == \E k \in DOMAIN j : j[k].type = "RESULT" /\ j[k].intent = i

IsSettled(j, i) == \E k \in DOMAIN j : j[k].type = "SETTLE" /\ j[k].intent = i

\* An INTENT row whose outcome is unknown: the write-ahead, crash window.
InFlight(j) == {k \in DOMAIN j : j[k].type = "INTENT" /\ ~HasResult(j, j[k].intent)}

\* Mutants of Held: pay again what was paid; pay intents that filled nothing.
HeldPaidToo(j) == {k \in DOMAIN j : j[k].type = "RESULT" /\ j[k].filled > 0}

HeldUnfilledToo(j) ==
    {k \in DOMAIN j : j[k].type = "RESULT" /\ ~IsSettled(j, j[k].intent)}

\* A RESULT row with shares that no SETTLE row has paid out yet.
Held(j) == {k \in DOMAIN j : /\ j[k].type = "RESULT"
                             /\ j[k].filled > 0
                             /\ ~IsSettled(j, j[k].intent)}

\* Mutant: an intent in flight does not block its event.
has_shares_on_event(j, e, p) ==
    \E h \in Held(j) : j[h].leg.event = e /\ j[h].prof = p

has_open_on_event(j, e, p) ==
    \E k \in DOMAIN j :
        /\ j[k].type = "INTENT"
        /\ j[k].leg.event = e
        /\ j[k].prof = p
        /\ \/ k \in InFlight(j)
           \/ \E h \in Held(j) : j[h].intent = j[k].intent

(* Outcomes after which the retry window may try again: zero fills, and    *)
(* CANCELED, REJECTED, or a FAILED that never had an order id. The modelled*)
(* horizon is one gate and its window, so every attempt is inside "since". *)
Retryable(r) ==
    /\ r.filled = 0
    /\ r.state \in {"CANCELED", "REJECTED"} \/ (r.state = "FAILED" /\ r.id = NoId)

unfilled_retry_pending(j, p) ==
    LET outcomes == {k \in DOMAIN j : j[k].type = "RESULT" /\ j[k].prof = p}
    IN  /\ \E k \in outcomes : Retryable(j[k])
        /\ \A k \in outcomes : j[k].filled = 0

open_event_ids(j) == {j[k].leg.event : k \in Held(j)}

\* _exposure: filled, unsettled stake plus the stake of intents in flight.
Exposure(j, evs) ==
    SumFunctionOnSet([k \in DOMAIN j |-> j[k].stake],
                     {k \in Held(j) \cup InFlight(j) : j[k].leg.event \in evs})

open_exposure_usd(j) == Exposure(j, Events)

event_exposure_usd(j, e) == Exposure(j, {e})

open_positions_by_token(j, l) ==
    MapThenSumSet(LAMBDA k : j[k].filled, {k \in Held(j) : j[k].leg = l})

\* SETTLE rows, each joined with the RESULT rows of its intent; one day.
Settled(j) ==
    {pair \in (DOMAIN j) \X (DOMAIN j) : /\ j[pair[1]].type = "SETTLE"
                                         /\ j[pair[2]].type = "RESULT"
                                         /\ j[pair[1]].intent = j[pair[2]].intent}

realized_pnl(j) ==
    SumFunctionOnSet([pair \in (DOMAIN j) \X (DOMAIN j) |->
                          j[pair[1]].payout - j[pair[2]].stake],
                     Settled(j))

\* Mutant: unresolved means without a terminal ORDER row.
intents_not_settled(j) ==
    {j[k].intent : k \in DOMAIN j} \
        {j[k].intent : k \in {n \in DOMAIN j : /\ j[n].type = "ORDER"
                                              /\ j[n].state \in TERMINAL_STATES}}

unresolved_intents(j) == {j[k].intent : k \in InFlight(j)}

\* The order id of the latest ORDER row of an intent, NULL when it has none.
LatestOrderId(j, i) ==
    LET acks == {k \in DOMAIN j : j[k].type = "ORDER" /\ j[k].intent = i}
    IN  IF acks = {} THEN NoId ELSE j[Max(acks)].id

\* The INTENT row of an intent, from which every later row copies its columns.
IntentOf(j, i) == j[CHOOSE k \in DOMAIN j : j[k].type = "INTENT" /\ j[k].intent = i]

(* record_settlement: every held RESULT of the event gets one SETTLE row,  *)
(* in the order of their ids and in one transaction. A YES share pays one  *)
(* unit of collateral when its bucket wins, a NO share when it does not.   *)
Won(l, winner) == (l.side = SIDE_YES) = (l.bucket = winner)

\* Mutant: the profit is journaled as the payout.
SettleRowNet(r, winner) ==
    [r EXCEPT !.type = "SETTLE", !.id = NoId, !.stake = 0,
              !.payout = (IF Won(r.leg, winner) THEN r.filled * PayoutUnit ELSE 0)
                            - r.stake]

SettleRow(r, winner) ==
    [r EXCEPT !.type = "SETTLE", !.id = NoId, !.stake = 0,
              !.payout = IF Won(r.leg, winner) THEN r.filled * PayoutUnit ELSE 0]

Increasing(ks) == \A m, n \in DOMAIN ks : m < n => ks[m] < ks[n]

HeldInOrder(j, e) ==
    LET due == {k \in Held(j) : j[k].leg.event = e}
    IN  {ks \in [1..Cardinality(due) -> due] : Increasing(ks)}
=============================================================================
