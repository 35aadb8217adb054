---------------------------- MODULE PaperLedger ----------------------------
(***************************************************************************)
(* The paper ledger: the append-only table paper_events, and the wallets   *)
(* and open positions that are computed from it (paper/ledger.py,          *)
(* storage/paper_postgres.py, storage/schema_paper_postgres.sql).          *)
(*                                                                         *)
(* The state of a wallet exists twice in the code: read_state replays the  *)
(* rows in the order of their ids, and the SQL views select over the whole *)
(* table. Both are operators of the log here, each from its own source.    *)
(*                                                                         *)
(* Money is counted in units of the entry price, so a stake of n buys n    *)
(* shares.                                                                 *)
(***************************************************************************)
EXTENDS Integers, Sequences, FiniteSets, SequencesExt

CONSTANTS
    Wallets,          \* paper profiles
    Events,           \* Polymarket events
    Buckets,          \* temperature buckets of an event
    Legs,             \* what can be held: [event, bucket, side]
    StartingBalance,  \* STARTING_BALANCE_USD
    PayoutUnit        \* what one winning share pays

SIDE_YES == "YES"
SIDE_NO == "NO"

ASSUME LegsAssumption ==
    /\ Legs \subseteq [event : Events, bucket : Buckets, side : {SIDE_YES, SIDE_NO}]
    /\ \A e \in Events : IsFiniteSet({l \in Legs : l.event = e})

\* load_paper_profiles returns a list, and an event has a list of buckets.
ASSUME FiniteAssumption == IsFiniteSet(Wallets) /\ IsFiniteSet(Buckets)

ASSUME MoneyAssumption == StartingBalance \in Nat /\ PayoutUnit \in Nat

(* One row of paper_events, with the columns some query or property reads. *)
Row ==
    [kind   : {"OPEN", "SETTLE", "CLOSE"},
     wallet : Wallets,
     trade  : Nat,       \* trade_id: the row number of the trade's OPEN row
     leg    : Legs,
     stake  : Nat,       \* stake_usd, and the shares
     payout : Nat,       \* payout_usd
     at     : Nat]       \* lead_hours of an OPEN row: the gate it was decided at

OpenRow(t, w, l, s, m) ==
    [kind |-> "OPEN", wallet |-> w, trade |-> t, leg |-> l,
     stake |-> s, payout |-> 0, at |-> m]

\* settle_event: a winning share pays one unit of collateral.
Won(l, b) == (l.side = SIDE_YES) = (l.bucket = b)

SettleRow(r, b) ==
    [r EXCEPT !.kind = "SETTLE",
              !.payout = IF Won(r.leg, b) THEN r.stake * PayoutUnit ELSE 0]

\* close_position: the shares are sold at the mark.
CloseRow(r, mark) == [r EXCEPT !.kind = "CLOSE", !.payout = r.stake * mark]

Ends(r) == r.kind \in {"SETTLE", "CLOSE"}

-----------------------------------------------------------------------------
(* read_state: the replay of one wallet.                                   *)

Apply(r, st) ==
    IF r.kind = "OPEN"
    THEN [st EXCEPT !.balance = @ - r.stake, !.open = @ \cup {r}]
    ELSE LET mine == {o \in st.open : o.trade = r.trade}
         IN  [balance  |-> st.balance + r.payout,
              open     |-> st.open \ mine,
              realized |-> st.realized + (IF mine = {} THEN 0 ELSE r.payout - r.stake)]

read_state(log, w) ==
    FoldLeft(LAMBDA st, r : IF r.wallet = w THEN Apply(r, st) ELSE st,
             [balance |-> StartingBalance, open |-> {}, realized |-> 0], log)

-----------------------------------------------------------------------------
(* The views and the queries on them.                                      *)

Ended(log, t) == \E k \in DOMAIN log : Ends(log[k]) /\ log[k].trade = t

paper_open_positions(log) ==
    {log[k] : k \in {n \in DOMAIN log : log[n].kind = "OPEN"
                                         /\ ~Ended(log, log[n].trade)}}

\* The balance of paper_profile_balances.
paper_profile_balance(log, w) ==
    LET rowsOf(kinds) == {k \in DOMAIN log : log[k].wallet = w /\ log[k].kind \in kinds}
    IN  StartingBalance
          - SumFunctionOnSet([k \in DOMAIN log |-> log[k].stake], rowsOf({"OPEN"}))
          + SumFunctionOnSet([k \in DOMAIN log |-> log[k].payout], rowsOf({"SETTLE", "CLOSE"}))

fetch_open_event_ids(log) == {r.leg.event : r \in paper_open_positions(log)}

profile_has_open_on_event(log, w, e) ==
    \E r \in paper_open_positions(log) : r.wallet = w /\ r.leg.event = e

=============================================================================
