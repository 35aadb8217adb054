---------------------------- MODULE LiveReconcile ----------------------------
(***************************************************************************)
(* reconcile (live/reconcile.py) and its caller _run_reconcile             *)
(* (scripts/run_live_node.py): close the intents a crash or a failed tick  *)
(* left without a RESULT, and compare the positions the ledger holds with  *)
(* the wallet's. It runs at startup, where a report that is not ok refuses *)
(* the start, and every few hours between two ticks.                       *)
(***************************************************************************)
EXTENDS LiveOrders

VARIABLES
    rec,       \* the run's local state
    reported   \* history: intents some delivered report named

recVars == <<rec, reported>>

ReconcileLocals ==
    [startup : BOOLEAN,        \* run before the first tick
     open    : SUBSET Nat,     \* open_order_ids
     todo    : SUBSET Nat,     \* intents still to look at
     named   : SUBSET Nat,     \* intents with a discrepancy line so far
     ok      : BOOLEAN,        \* no line so far but informational ones
     found   : Snapshot]       \* the outcome about to be written

NotReconciling ==
    [startup |-> FALSE, open |-> {}, todo |-> {}, named |-> {}, ok |-> TRUE,
     found |-> NoSnapshot]

BeginReconcile(startup) ==
    /\ rec' = [NotReconciling EXCEPT !.startup = startup]
    /\ pc' = "r_open"

\* _run_reconcile returns: main goes on, sleeps, or refuses to start.
EndReconcile(ok) ==
    /\ pc' = IF rec.startup /\ ~ok THEN "down" ELSE "tick"
    /\ rec' = NotReconciling

ListOpenOrders ==
    /\ pc = "r_open"
    /\ rec' = [rec EXCEPT !.open = open_orders]
    /\ pc' = "r_intents"
    /\ UNCHANGED <<exchVars, journal, orderVars, reported>>

ListUnresolved ==
    /\ pc = "r_intents"
    /\ rec' = [rec EXCEPT !.todo = unresolved_intents(journal)]
    /\ pc' = "r_next"
    /\ UNCHANGED <<exchVars, journal, orderVars, reported>>

\* The intents are looked at in the order they were recorded.
Looking(i) == pc = "r_next" /\ i \in rec.todo /\ \A k \in rec.todo : i <= k

\* Still on the book: informational, and left alone.
StillOpen(i) ==
    /\ Looking(i)
    /\ LatestOrderId(journal, i) \in rec.open
    /\ rec' = [rec EXCEPT !.todo = @ \ {i}, !.named = @ \cup {i}]
    /\ UNCHANGED <<exchVars, journal, pc, orderVars, reported>>

\* Fills no RESULT accounts for are never guessed at: manual review.
ManualReview(i) ==
    LET id == LatestOrderId(journal, i)
    IN  /\ Looking(i)
        /\ id # NoId /\ id \notin rec.open
        /\ Served(id)
        /\ order_status(id).filled > 0
        /\ rec' = [rec EXCEPT !.todo = @ \ {i}, !.named = @ \cup {i}, !.ok = FALSE]
        /\ UNCHANGED <<exchVars, journal, pc, orderVars, reported>>

\* Nothing filled: the status read is the outcome, whatever state it carries.
ReadOutcome(i) ==
    LET id == LatestOrderId(journal, i)
    IN  /\ Looking(i)
        /\ id # NoId /\ id \notin rec.open
        /\ Served(id)
        /\ order_status(id).filled = 0
        /\ rec' = [rec EXCEPT !.found = order_status(id)]
        /\ pc' = "r_write"
        /\ UNCHANGED <<exchVars, journal, orderVars, reported>>

\* No ack row: assumed never placed.
AssumeNeverPlaced(i) ==
    /\ Looking(i)
    /\ LatestOrderId(journal, i) = NoId
    /\ rec' = [rec EXCEPT !.found = Failed(NoId)]
    /\ pc' = "r_write"
    /\ UNCHANGED <<exchVars, journal, orderVars, reported>>

\* resolve_stale_intent: a RESULT with zero fills and the latest order id.
ResolveStaleIntent(i) ==
    /\ pc = "r_write" /\ i \in rec.todo /\ \A k \in rec.todo : i <= k
    /\ journal' = Append(journal, ResultRow(IntentOf(journal, i), rec.found))
    /\ rec' = [rec EXCEPT
                 !.todo = @ \ {i},
                 !.named = IF rec.found.id = NoId THEN @ \cup {i} ELSE @,
                 !.ok = @ /\ rec.found.id # NoId,
                 !.found = NoSnapshot]
    /\ pc' = "r_next"
    /\ UNCHANGED <<exchVars, orderVars, reported>>

\* Only the tokens the ledger holds are compared; the report is delivered.
ComparePositions ==
    /\ pc = "r_next" /\ rec.todo = {}
    /\ EndReconcile(/\ rec.ok
                    /\ \A l \in {journal[k].leg : k \in Held(journal)} :
                          open_positions_by_token(journal, l) = positions(l))
    /\ reported' = reported \cup rec.named
    /\ UNCHANGED <<exchVars, journal, orderVars>>

\* A client call or a transaction raised: the whole report is lost.
ReconcileRaises ==
    /\ pc \in {"r_open", "r_intents", "r_next", "r_write"}
    /\ EndReconcile(FALSE)
    /\ UNCHANGED <<exchVars, journal, orderVars, reported>>

Reconcile ==
    \/ ListOpenOrders \/ ListUnresolved
    \/ \E i \in rec.todo : \/ StillOpen(i) \/ ManualReview(i) \/ ReadOutcome(i)
                           \/ AssumeNeverPlaced(i) \/ ResolveStaleIntent(i)
    \/ ComparePositions
    \/ ReconcileRaises
=============================================================================
