---------------------------- MODULE LiveExchange ----------------------------
(***************************************************************************)
(* The exchange, and the execution client the node talks to it with        *)
(* (live/execution.py). The exchange is not part of the program: its orders*)
(* rest, fill, are cancelled and are refused as the client's code, its     *)
(* comments and its tests expect.                                          *)
(*                                                                         *)
(* An order's id is its position in exch. Every client call can raise; one *)
(* that raises may or may not have had its effect.                         *)
(***************************************************************************)
EXTENDS LiveJournal

VARIABLES
    exch,     \* the node's orders, in the order the exchange accepted them
    winner    \* the winning bucket Gamma reports for an event, or NoWinner

CONSTANT NoWinner

ASSUME NoWinnerAssumption == NoWinner \notin Buckets

\* Raw CLOB statuses an accepted order can have; UNKNOWN is any other string.
RAW_STATUSES == {"LIVE", "MATCHED", "UNMATCHED", "CANCELED", "UNKNOWN"}

ExchangeOrder ==
    [intent : Nat, leg : Legs, filled : 0..Shares, status : RAW_STATUSES]

exchVars == <<exch, winner>>

ExchInit ==
    /\ exch = <<>>
    /\ winner = [e \in Events |-> NoWinner]

-----------------------------------------------------------------------------
(* The client's view of an order.                                          *)

\* Mutant: a status the client does not know counts as a refusal.
UnknownIsRejected(raw, filled, total) ==
    CASE total > 0 /\ filled >= total -> "FILLED"
      [] OTHER -> CASE raw = "LIVE" -> "OPEN"
                    [] raw = "MATCHED" -> "FILLED"
                    [] raw = "CANCELED" -> "CANCELED"
                    [] OTHER -> "REJECTED"

\* DELAYED is not listed: the code maps it to OPEN exactly as it maps LIVE.
normalize_clob_status(raw, filled, total) ==
    CASE total > 0 /\ filled >= total -> "FILLED"
      [] OTHER -> CASE raw = "LIVE" -> "OPEN"
                    [] raw = "MATCHED" -> "FILLED"
                    [] raw = "UNMATCHED" -> "REJECTED"
                    [] raw = "CANCELED" -> "CANCELED"
                    [] OTHER -> "FAILED"

\* What get_order returns for order o, normalized (normalize_open_order).
order_status(o) ==
    [state  |-> normalize_clob_status(exch[o].status, exch[o].filled, Shares),
     id     |-> o,
     filled |-> exch[o].filled]

\* get_order finds only orders; a refused placement has the empty id. Any call
\* may raise, and for a fully matched order ("OpenOrder not found") it may do
\* so for good: callers of Served have a raising alternative that is always on.
Served(o) == o \in DOMAIN exch

\* open_orders: the listing without the entries that normalize to terminal.
open_orders == {o \in DOMAIN exch : order_status(o).state \notin TERMINAL_STATES}

\* positions: shares of a token the wallet got from the node's orders.
positions(l) ==
    MapThenSumSet(LAMBDA o : exch[o].filled, {o \in DOMAIN exch : exch[o].leg = l})

Resting(o) == exch[o].status \in {"LIVE", "UNKNOWN"}

(* place_limit_buy, when the exchange accepts: the order enters with the   *)
(* status the response carries and whatever it matched on entry.           *)
Accept(i, l, raw, n) ==
    /\ winner[l.event] = NoWinner
    /\ (raw = "MATCHED") = (n = Shares)
    /\ raw = "UNMATCHED" => n = 0
    /\ exch' = Append(exch, [intent |-> i, leg |-> l, filled |-> n, status |-> raw])

\* A placement never comes back CANCELED (tests/test_live_execution.py).
PLACED_STATUSES == RAW_STATUSES \ {"CANCELED"}

\* The ack place_limit_buy builds: the state ignores the fill, raw carries it.
Ack(o, raw, n) ==
    [state |-> normalize_clob_status(raw, 0, Shares), id |-> o, filled |-> n]

Refusal == [state |-> "REJECTED", id |-> EmptyId, filled |-> 0]

\* cancel_order takes effect on order o.
CancelOnBook(o) == exch' = [exch EXCEPT ![o].status = "CANCELED"]

-----------------------------------------------------------------------------
(* What the exchange does on its own.                                      *)

Fill(o) ==
    /\ Resting(o)
    /\ exch' = [exch EXCEPT ![o].filled = @ + 1,
                            ![o].status = IF exch[o].filled + 1 = Shares
                                          THEN "MATCHED" ELSE @]
    /\ UNCHANGED winner

\* The market resolves: its book closes and Gamma reports the winning bucket.
Resolve(e, b) ==
    /\ winner[e] = NoWinner
    /\ winner' = [winner EXCEPT ![e] = b]
    /\ exch' = [o \in DOMAIN exch |->
                  IF exch[o].leg.event = e /\ Resting(o)
                  THEN [exch[o] EXCEPT !.status = "CANCELED"] ELSE exch[o]]
=============================================================================
