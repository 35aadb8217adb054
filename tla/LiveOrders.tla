----------------------------- MODULE LiveOrders -----------------------------
(***************************************************************************)
(* manage_order (live/orders.py): place one intent, journal the ack, poll  *)
(* until the order settles or the timeout passes, then cancel and read the *)
(* final status; and record_result, which closes the intent.               *)
(*                                                                         *)
(* Every exchange call and every journal transaction is a step of its own, *)
(* so the exchange moves and the process dies between any two of them. A   *)
(* status read and the ORDER row it causes are one step: the row holds what*)
(* was read, and nothing else writes the journal in between.               *)
(***************************************************************************)
EXTENDS LiveExchange

CONSTANT NoRow

ASSUME NoRowAssumption == NoRow \notin Row

VARIABLES
    journal,  \* live_events
    pc,       \* where the node's only thread is
    cur,      \* the INTENT row being managed, NoRow when there is none
    ack,      \* manage_order's ack: the placement's own snapshot
    last,     \* manage_order's last_state; PENDING stands for None
    result    \* the ExecutionResult about to be recorded

orderVars == <<cur, ack, last, result>>

NoSnapshot == [state |-> "PENDING", id |-> NoId, filled |-> 0]

NoOrder ==
    /\ cur' = NoRow
    /\ ack' = NoSnapshot
    /\ last' = "PENDING"
    /\ result' = NoSnapshot

\* A call raised: zero fills, under the order id the loop knows, if any.
Failed(id) == [state |-> "FAILED", id |-> id, filled |-> 0]

Finish(st) == result' = st /\ pc' = "result"

\* emit: an ORDER row for a state that differs from the last one.
Emit(st) ==
    /\ journal' = IF st.state # last THEN Append(journal, OrderRow(cur, st))
                                     ELSE journal
    /\ last' = st.state

-----------------------------------------------------------------------------
(* Mutant: a placement that raised is tried again.                         *)
PlaceRaisesAndRetries ==
    /\ pc = "place"
    /\ \/ UNCHANGED exch
       \/ \E raw \in PLACED_STATUSES, n \in 0..Shares :
             Accept(cur.intent, cur.leg, raw, n)
    /\ UNCHANGED <<winner, journal, pc, cur, ack, last, result>>

(* Placement. An exception may be raised before or after the exchange took *)
(* the order: the caller cannot tell.                                      *)
PlaceRaises ==
    /\ pc = "place"
    /\ \/ UNCHANGED exch
       \/ \E raw \in PLACED_STATUSES, n \in 0..Shares :
             Accept(cur.intent, cur.leg, raw, n)
    /\ Finish(Failed(NoId))
    /\ UNCHANGED <<winner, journal, cur, ack, last>>

PlaceRefused ==
    /\ pc = "place"
    /\ ack' = Refusal
    /\ pc' = "ack"
    /\ UNCHANGED <<exchVars, journal, cur, last, result>>

PlaceAccepted ==
    /\ pc = "place"
    /\ \E raw \in PLACED_STATUSES, n \in 0..Shares :
          /\ Accept(cur.intent, cur.leg, raw, n)
          /\ ack' = Ack(Len(exch) + 1, raw, n)
    /\ pc' = "ack"
    /\ UNCHANGED <<winner, journal, cur, last, result>>

\* The ack row, with its id. A refusal has no order to poll.
JournalAck ==
    /\ pc = "ack"
    /\ Emit(ack)
    /\ IF ack.state \in TERMINAL_STATES /\ ack.id = EmptyId
       THEN Finish(ack)
       ELSE pc' = "poll" /\ UNCHANGED result
    /\ UNCHANGED <<exchVars, cur, ack>>

-----------------------------------------------------------------------------
(* Polling, until a terminal status or the deadline.                       *)

\* A terminal ack is trusted over a failed read; otherwise the state is unknown.
PollRaises ==
    /\ pc = "poll"
    /\ Finish(IF ack.state \in TERMINAL_STATES THEN ack ELSE Failed(ack.id))
    /\ UNCHANGED <<exchVars, journal, cur, ack, last>>

PollAnswers ==
    /\ pc = "poll"
    /\ Served(ack.id)
    /\ LET st == order_status(ack.id)
       IN  /\ Emit(st)
           /\ IF st.state \in TERMINAL_STATES
              THEN Finish(st)
              ELSE pc' \in {"poll", "cancel"} /\ UNCHANGED result
    /\ UNCHANGED <<exchVars, cur, ack>>

\* Timed out: the cancel works, is refused, or raises; each is ignored.
Cancel ==
    /\ pc = "cancel"
    /\ \/ UNCHANGED exch
       \/ Resting(ack.id) /\ CancelOnBook(ack.id)
    /\ pc' = "final"
    /\ UNCHANGED <<winner, journal, orderVars>>

FinalRaises ==
    /\ pc = "final"
    /\ Finish(Failed(ack.id))
    /\ UNCHANGED <<exchVars, journal, cur, ack, last>>

\* An order that still rests is reported CANCELED, with the fills seen so far.
FinalAnswers ==
    /\ pc = "final"
    /\ Served(ack.id)
    /\ LET st == order_status(ack.id)
       IN  /\ Emit(st)
           /\ Finish(IF st.state \in TERMINAL_STATES THEN st
                     ELSE [st EXCEPT !.state = "CANCELED"])
    /\ UNCHANGED <<exchVars, cur, ack>>

\* Mutant: an attempt that filled nothing needs no result.
RecordResultIfFilled ==
    /\ pc = "result"
    /\ journal' = IF result.filled > 0 THEN Append(journal, ResultRow(cur, result))
                                       ELSE journal
    /\ pc' = "rows"
    /\ NoOrder
    /\ UNCHANGED exchVars

RecordResult ==
    /\ pc = "result"
    /\ journal' = Append(journal, ResultRow(cur, result))
    /\ pc' = "rows"
    /\ NoOrder
    /\ UNCHANGED exchVars

ManageOrder ==
    \/ PlaceRaises \/ PlaceRefused \/ PlaceAccepted \/ JournalAck
    \/ PollRaises \/ PollAnswers
    \/ Cancel \/ FinalRaises \/ FinalAnswers
    \/ RecordResult
=============================================================================
