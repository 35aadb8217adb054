--------------------------- MODULE LiveNodeProofs ---------------------------
(***************************************************************************)
(* Proofs about LiveNode: its type invariant, the write-ahead, the         *)
(* uniqueness of results and of payments, the dedupe and the stops, for    *)
(* every set of profiles, events and tokens, every bound, and any number of*)
(* crashes and operator actions.                                           *)
(***************************************************************************)
EXTENDS LiveNode, FiniteSetTheorems, TLAPS

-----------------------------------------------------------------------------
(* The inductive invariant. WriteAhead and OneResult are not inductive by  *)
(* themselves: that the loop and the reconciliation write a RESULT only    *)
(* once rests on what each of them holds in its locals while it works.     *)

Managing == {"place", "ack", "poll", "cancel", "final", "result"}

Intended(i) == \E k \in DOMAIN journal : /\ journal[k].type = "INTENT"
                                        /\ journal[k].intent = i

\* The loop manages an intent that is in the journal and has no RESULT.
CurUnresolved ==
    pc \in Managing =>
        /\ cur \in Row
        /\ \E k \in DOMAIN journal : /\ journal[k].type = "INTENT"
                                     /\ journal[k].intent = cur.intent
                                     /\ journal[k].leg = cur.leg
        /\ ~HasResult(journal, cur.intent)

\* What the reconciliation still has to look at has no RESULT either.
TodoUnresolved ==
    /\ rec.todo # {} => pc \in {"r_next", "r_write"}
    /\ \A i \in rec.todo : Intended(i) /\ ~HasResult(journal, i)

\* Intent ids are fresh.
IdsFresh == \A k \in DOMAIN journal : journal[k].intent < nextIntent

\* The order about to be placed is the first one for its intent.
FirstPlacement ==
    pc = "place" => \A o \in DOMAIN exch : exch[o].intent # cur.intent

Consistent ==
    /\ CurUnresolved
    /\ TodoUnresolved
    /\ IdsFresh
    /\ FirstPlacement
    /\ WriteAhead
    /\ OneResult

IInv == TypeOK /\ Consistent

-----------------------------------------------------------------------------
(* The types of rows and snapshots.                                        *)

LEMMA IntentRowType ==
    ASSUME NEW i \in Nat, NEW p \in Profiles, NEW l \in Legs, NEW s \in Nat
    PROVE  IntentRow(i, p, l, s) \in Row
  BY DEF IntentRow, Row, ORDER_STATES, NoId

LEMMA OrderRowType ==
    ASSUME NEW r \in Row, NEW st \in Snapshot
    PROVE  OrderRow(r, st) \in Row
  BY DEF OrderRow, Row, Snapshot

LEMMA ResultRowType ==
    ASSUME NEW r \in Row, NEW st \in Snapshot
    PROVE  ResultRow(r, st) \in Row
  BY DEF ResultRow, Row, Snapshot

LEMMA SettleRowType ==
    ASSUME NEW r \in Row, NEW b
    PROVE  SettleRow(r, b) \in Row
  <1>1. r.filled * PayoutUnit \in Nat
    BY PayoutAssumption DEF Row
  <1>2. (IF Won(r.leg, b) THEN r.filled * PayoutUnit ELSE 0) \in Nat
    BY <1>1
  <1>3. ASSUME NEW i \in Int, NEW s \in Nat, NEW p \in Nat
        PROVE  [r EXCEPT !.type = "SETTLE", !.id = i, !.stake = s, !.payout = p] \in Row
    BY DEF Row
  <1>4. NoId \in Int /\ 0 \in Nat
    BY DEF NoId
  <1> QED
    BY <1>2, <1>3, <1>4 DEF SettleRow

LEMMA OrderStatusType ==
    ASSUME exch \in Seq(ExchangeOrder), NEW o \in DOMAIN exch
    PROVE  /\ order_status(o) \in Snapshot
           /\ order_status(o).id = o
           /\ order_status(o).filled = exch[o].filled
  <1>1. /\ exch[o] \in ExchangeOrder
        /\ o \in Int
    OBVIOUS
  <1>2. /\ exch[o].status \in RAW_STATUSES
        /\ exch[o].filled \in Nat
    BY <1>1, SharesAssumption DEF ExchangeOrder
  <1>3. normalize_clob_status(exch[o].status, exch[o].filled, Shares) \in ORDER_STATES
    BY <1>2 DEF normalize_clob_status, ORDER_STATES, RAW_STATUSES
  <1> QED
    BY <1>1, <1>2, <1>3 DEF order_status, Snapshot

LEMMA AckType ==
    ASSUME NEW o \in Int, NEW raw \in RAW_STATUSES, NEW n \in Nat
    PROVE  Ack(o, raw, n) \in Snapshot
  BY DEF Ack, Snapshot, normalize_clob_status, ORDER_STATES, RAW_STATUSES

-----------------------------------------------------------------------------
(* Steps that leave the intents, their results and their orders as they    *)
(* are: rows may be added, but no RESULT, and no order enters the exchange.*)

Quiet ==
    /\ DOMAIN journal \subseteq DOMAIN journal'
    /\ \A k \in DOMAIN journal : journal'[k] = journal[k]
    /\ \A k \in DOMAIN journal' \ DOMAIN journal :
          journal'[k].type # "RESULT" /\ journal'[k].intent < nextIntent
    /\ DOMAIN exch' = DOMAIN exch
    /\ \A o \in DOMAIN exch :
          exch'[o].intent = exch[o].intent /\ exch'[o].leg = exch[o].leg
    /\ nextIntent' = nextIntent
    /\ pc' \in Managing => pc \in Managing /\ cur' = cur
    /\ pc' = "place" => pc = "place"
    /\ rec'.todo \subseteq rec.todo
    /\ rec'.todo # {} => pc' \in {"r_next", "r_write"}

(* No quiet step of the node touches what Consistent says.                 *)
LEMMA QuietStep ==
    ASSUME Consistent, Quiet
    PROVE  Consistent'
  <1>1. \A i : HasResult(journal, i)' => HasResult(journal, i)
    BY DEF Quiet, HasResult
  <1>2. CurUnresolved'
    BY <1>1 DEF Consistent, CurUnresolved, Quiet
  <1>3. TodoUnresolved'
    BY <1>1 DEF Consistent, TodoUnresolved, Quiet, Intended
  <1>4. IdsFresh'
    BY DEF Consistent, IdsFresh, Quiet
  <1>5. FirstPlacement'
    BY DEF Consistent, FirstPlacement, Quiet, Managing
  <1>6. WriteAhead'
    BY DEF Consistent, WriteAhead, Quiet
  <1>7. OneResult'
    <2> SUFFICES ASSUME NEW k \in DOMAIN journal', NEW n \in DOMAIN journal',
                        journal'[k].type = "RESULT", journal'[n].type = "RESULT",
                        journal'[k].intent = journal'[n].intent
                 PROVE  k = n
      BY DEF OneResult
    <2>1. k \in DOMAIN journal /\ n \in DOMAIN journal
      BY DEF Quiet
    <2> QED
      BY <2>1 DEF Quiet, Consistent, OneResult
  <1> QED
    BY <1>2, <1>3, <1>4, <1>5, <1>6, <1>7 DEF Consistent

-----------------------------------------------------------------------------
(* The tick, up to the order it places.                                    *)

LEMMA LegType ==
    ASSUME NEW l \in Legs
    PROVE  l.event \in Events
  BY LegsAssumption

LEMMA OpenEventsType ==
    ASSUME journal \in Seq(Row)
    PROVE  open_event_ids(journal) \subseteq Events
  <1>1. ASSUME NEW k \in DOMAIN journal
        PROVE  journal[k].leg.event \in Events
    <2>1. journal[k] \in Row
      OBVIOUS
    <2>2. journal[k].leg \in Legs
      BY <2>1 DEF Row
    <2> QED
      BY <2>2, LegType
  <1> QED
    BY <1>1 DEF open_event_ids, Held

LEMMA TickQuiet ==
    ASSUME TypeOK, Consistent, pc \notin Managing, pc \notin {"r_next", "r_write"},
           UNCHANGED <<exchVars, journal, cur, recVars, nextIntent>>,
           pc' \notin Managing
    PROVE  Consistent'
  <1>1. rec.todo = {}
    BY DEF Consistent, TodoUnresolved
  <1>2. Quiet
    BY <1>1 DEF Quiet, exchVars, recVars, Managing
  <1> QED
    BY <1>2, QuietStep

\* What changes when only the tick's locals and the program counter move.
LEMMA TickTypes ==
    ASSUME TypeOK,
           UNCHANGED <<exchVars, journal, orderVars, recVars, envVars,
                       nextIntent, sentStopped, faults>>,
           tick' \in TickLocals,
           pc' \in {"tick", "settle", "units", "due", "rows", "after"}
    PROVE  TypeOK'
  BY DEF TypeOK, exchVars, orderVars, recVars, envVars

LEMMA TickKeeps ==
    ASSUME IInv, TickStep, ~ManageStep, ~AfterTick,
           \A r \in tick.rows, s \in Stakes : ~record_intent(r, s),
           \A e \in Events : ~record_settlement(e)
    PROVE  IInv'
  <1>0. TypeOK /\ Consistent /\ tick \in TickLocals
    BY DEF IInv, TypeOK
  <1>1. CASE BeginTick
    <2>1. open_event_ids(journal) \subseteq Events
      BY <1>0, OpenEventsType DEF TypeOK
    <2>2. tick' \in TickLocals
      BY <1>0, <1>1, <2>1 DEF TypeOK, BeginTick, TickLocals
    <2>3. TypeOK'
      BY <1>0, <1>1, <2>2, TickTypes DEF BeginTick
    <2>4. Consistent'
      BY <1>0, <1>1, TickQuiet DEF BeginTick, Managing, orderVars
    <2> QED
      BY <2>3, <2>4 DEF IInv
  <1>2. ASSUME NEW e \in Events, SkipSettle(e)
        PROVE  IInv'
    <2>1. tick' \in TickLocals /\ pc' = "settle"
      BY <1>0, <1>2 DEF SkipSettle, TickLocals
    <2>2. TypeOK'
      BY <1>0, <1>2, <2>1, TickTypes DEF SkipSettle
    <2>3. Consistent'
      BY <1>0, <1>2, TickQuiet DEF SkipSettle, Managing, orderVars
    <2> QED
      BY <2>2, <2>3 DEF IInv
  <1>3. CASE SettleDone
    <2>1. tick' \in TickLocals
      BY <1>0, <1>3 DEF SettleDone, TickLocals
    <2>2. TypeOK'
      BY <1>0, <1>3, <2>1, TickTypes DEF SettleDone
    <2>3. Consistent'
      BY <1>0, <1>3, TickQuiet DEF SettleDone, Managing, orderVars
    <2> QED
      BY <2>2, <2>3 DEF IInv
  <1>4. ASSUME NEW e \in Events, NextUnit(e)
        PROVE  IInv'
    <2>1. tick' \in TickLocals /\ pc' \in {"units", "due"}
      BY <1>0, <1>4 DEF NextUnit, TickLocals
    <2>2. TypeOK'
      BY <1>0, <1>4, <2>1, TickTypes DEF NextUnit
    <2>3. Consistent'
      BY <1>0, <1>4, <2>1, TickQuiet DEF NextUnit, Managing, orderVars
    <2> QED
      BY <2>2, <2>3 DEF IInv
  <1>5. CASE UnitsDone \/ DueDone \/ RowsDone
    <2>1. tick' \in TickLocals /\ pc' \in {"after", "units", "due"}
      BY <1>0, <1>5 DEF UnitsDone, DueDone, RowsDone, nodeVars
    <2>2. TypeOK'
      BY <1>0, <1>5, <2>1, TickTypes DEF UnitsDone, DueDone, RowsDone, nodeVars
    <2>3. Consistent'
      BY <1>0, <1>5, <2>1, TickQuiet DEF UnitsDone, DueDone, RowsDone, Managing, orderVars,
                                         nodeVars
    <2> QED
      BY <2>2, <2>3 DEF IInv
  <1>6. ASSUME NEW p \in Profiles, NextProfile(p)
        PROVE  IInv'
    <2>1. tick' \in TickLocals
      <3>1. CASE tick' = [tick EXCEPT !.due = @ \ {p}]
        BY <1>0, <3>1 DEF TickLocals
      <3>2. ASSUME NEW b \in BuyRows(ProfileEvent[p]),
                   tick' = [tick EXCEPT !.due = @ \ {p}, !.rows = {p} \X b]
            PROVE  tick' \in TickLocals
        <4>1. {p} \X b \subseteq Profiles \X Legs
          BY DEF BuyRows
        <4> QED
          BY <1>0, <3>2, <4>1 DEF TickLocals
      <3> QED
        BY <1>6, <3>1, <3>2 DEF NextProfile
    <2>2. pc' \in {"due", "rows"} /\ pc = "due"
      BY <1>6 DEF NextProfile
    <2>3. UNCHANGED <<exchVars, journal, orderVars, recVars, envVars,
                      nextIntent, sentStopped, faults>>
      BY <1>6 DEF NextProfile
    <2>4. TypeOK'
      BY <1>0, <2>1, <2>2, <2>3, TickTypes
    <2>5. Consistent'
      BY <1>0, <2>2, <2>3, TickQuiet DEF Managing, orderVars
    <2> QED
      BY <2>4, <2>5 DEF IInv
  <1>7. ASSUME NEW r \in tick.rows, SkipRow(r)
        PROVE  IInv'
    <2>1. tick' \in TickLocals /\ pc' = "rows"
      BY <1>0, <1>7 DEF SkipRow, TickLocals
    <2>2. TypeOK'
      BY <1>0, <1>7, <2>1, TickTypes DEF SkipRow
    <2>3. Consistent'
      BY <1>0, <1>7, TickQuiet DEF SkipRow, Managing, orderVars
    <2> QED
      BY <2>2, <2>3 DEF IInv
  <1>8. CASE StopTick
    <2>1. tick' \in TickLocals
      BY <1>0, <1>8 DEF StopTick, Idle, TickLocals
    <2>2. TypeOK'
      BY <1>0, <1>8, <2>1, TickTypes DEF StopTick
    <2>3. Consistent'
      BY <1>0, <1>8, TickQuiet DEF StopTick, Managing, orderVars
    <2> QED
      BY <2>2, <2>3 DEF IInv
  <1> QED
    BY <1>1, <1>2, <1>3, <1>4, <1>5, <1>6, <1>7, <1>8 DEF TickStep

-----------------------------------------------------------------------------
(* Managing one order.                                                     *)

\* What every step of manage_order and record_result leaves alone.
LEMMA ManageTypes ==
    ASSUME TypeOK, UNCHANGED <<winner, recVars, envVars, tick, nextIntent, faults>>,
           sentStopped' \in Nat,
           journal' \in Seq(Row), exch' \in Seq(ExchangeOrder),
           cur' \in Row \cup {NoRow},
           ack' \in Snapshot, last' \in ORDER_STATES, result' \in Snapshot,
           pc' \in Managing \cup {"rows"}
    PROVE  TypeOK'
  BY DEF TypeOK, recVars, envVars, Managing

\* The intent being managed is older than the next one.
LEMMA CurIsOld ==
    ASSUME Consistent, pc \in Managing
    PROVE  /\ cur \in Row
           /\ cur.intent < nextIntent
           /\ ~HasResult(journal, cur.intent)
  BY DEF Consistent, CurUnresolved, IdsFresh

LEMMA NoTodoOutside ==
    ASSUME Consistent, pc \notin {"r_next", "r_write"}
    PROVE  rec.todo = {}
  BY DEF Consistent, TodoUnresolved

\* emit adds at most an ORDER row of the intent being managed.
LEMMA EmitAdds ==
    ASSUME TypeOK, Consistent, pc \in Managing, NEW st \in Snapshot, Emit(st)
    PROVE  /\ journal' \in Seq(Row) /\ last' \in ORDER_STATES
           /\ DOMAIN journal \subseteq DOMAIN journal'
           /\ \A k \in DOMAIN journal : journal'[k] = journal[k]
           /\ \A k \in DOMAIN journal' \ DOMAIN journal :
                 journal'[k].type # "RESULT" /\ journal'[k].intent < nextIntent
  <1>1. journal \in Seq(Row)
    BY DEF TypeOK
  <1>2. last' \in ORDER_STATES
    BY DEF Emit, Snapshot
  <1>3. CASE journal' = journal
    BY <1>1, <1>2, <1>3
  <1>4. CASE journal' = Append(journal, OrderRow(cur, st))
    <2> DEFINE r == OrderRow(cur, st)
    <2>1. r \in Row /\ r.type # "RESULT" /\ r.intent = cur.intent
      BY CurIsOld, OrderRowType DEF OrderRow, Row
    <2>2. r.intent < nextIntent
      BY <2>1, CurIsOld
    <2> HIDE DEF r
    <2> QED
      BY <1>1, <1>2, <1>4, <2>1, <2>2 DEF r
  <1> QED
    BY <1>3, <1>4 DEF Emit

\* The order of the intent being managed enters the exchange.
LEMMA AcceptKeeps ==
    ASSUME TypeOK, Consistent, pc = "place",
           NEW raw \in PLACED_STATUSES, NEW n \in 0..Shares,
           Accept(cur.intent, cur.leg, raw, n),
           UNCHANGED <<journal, cur, rec, nextIntent>>,
           pc' \in Managing \ {"place"}
    PROVE  exch' \in Seq(ExchangeOrder) /\ Consistent'
  <1> DEFINE new == [intent |-> cur.intent, leg |-> cur.leg, filled |-> n, status |-> raw]
  <1>1. cur \in Row /\ exch \in Seq(ExchangeOrder)
    BY CurIsOld DEF TypeOK, Managing
  <1>2. new \in ExchangeOrder /\ new.intent = cur.intent /\ new.leg = cur.leg
    BY <1>1 DEF ExchangeOrder, Row, PLACED_STATUSES
  <1>3. exch' = Append(exch, new)
    BY DEF Accept
  <1>4. \A o \in DOMAIN exch : exch[o].intent # cur.intent
    BY DEF Consistent, FirstPlacement
  <1>5. \E k \in DOMAIN journal : /\ journal[k].type = "INTENT"
                                  /\ journal[k].intent = cur.intent
                                  /\ journal[k].leg = cur.leg
    BY DEF Consistent, CurUnresolved, Managing
  <1> HIDE DEF new
  <1>6. /\ exch' \in Seq(ExchangeOrder)
        /\ DOMAIN exch' = DOMAIN exch \cup {Len(exch) + 1}
        /\ exch'[Len(exch) + 1] = new
        /\ \A o \in DOMAIN exch : exch'[o] = exch[o]
    BY <1>1, <1>2, <1>3
  <1>7. WriteAhead'
    <2> SUFFICES ASSUME NEW o \in DOMAIN exch'
                 PROVE  /\ \E k \in DOMAIN journal : /\ journal[k].type = "INTENT"
                                                     /\ journal[k].intent = exch'[o].intent
                                                     /\ journal[k].leg = exch'[o].leg
                        /\ \A q \in DOMAIN exch' : exch'[q].intent = exch'[o].intent => q = o
      BY DEF WriteAhead
    <2>1. CASE o = Len(exch) + 1
      BY <1>2, <1>4, <1>5, <1>6, <2>1
    <2>2. CASE o \in DOMAIN exch
      BY <1>2, <1>4, <1>6, <2>2 DEF Consistent, WriteAhead
    <2> QED
      BY <1>6, <2>1, <2>2
  <1>8. CurUnresolved' /\ TodoUnresolved' /\ IdsFresh' /\ FirstPlacement' /\ OneResult'
    BY DEF Consistent, CurUnresolved, TodoUnresolved, IdsFresh, FirstPlacement, OneResult,
           HasResult, Intended, Managing
  <1> QED
    BY <1>6, <1>7, <1>8 DEF Consistent

\* One RESULT row for an intent that had none.
LEMMA BookKeeps ==
    ASSUME TypeOK, Consistent, NEW r \in Row,
           r.type = "RESULT", ~HasResult(journal, r.intent), r.intent < nextIntent,
           journal' = Append(journal, r),
           UNCHANGED <<exch, nextIntent>>,
           pc' \notin Managing,
           rec'.todo \subseteq rec.todo \ {r.intent},
           rec'.todo # {} => pc' \in {"r_next", "r_write"}
    PROVE  journal' \in Seq(Row) /\ Consistent'
  <1>1. journal \in Seq(Row)
    BY DEF TypeOK
  <1>2. /\ journal' \in Seq(Row)
        /\ DOMAIN journal' = DOMAIN journal \cup {Len(journal) + 1}
        /\ journal'[Len(journal) + 1] = r
        /\ \A k \in DOMAIN journal : journal'[k] = journal[k]
    BY <1>1
  <1>3. \A k \in DOMAIN journal : journal[k].type = "RESULT" => journal[k].intent # r.intent
    BY DEF HasResult
  <1>4. OneResult'
    <2> SUFFICES ASSUME NEW k \in DOMAIN journal', NEW n \in DOMAIN journal',
                        journal'[k].type = "RESULT", journal'[n].type = "RESULT",
                        journal'[k].intent = journal'[n].intent
                 PROVE  k = n
      BY DEF OneResult
    <2>1. CASE k \in DOMAIN journal /\ n \in DOMAIN journal
      BY <1>2, <2>1 DEF Consistent, OneResult
    <2> QED
      BY <1>2, <1>3, <2>1
  <1>5. \A i : i # r.intent /\ ~HasResult(journal, i) => ~HasResult(journal', i)
    BY <1>2 DEF HasResult
  <1>6. TodoUnresolved'
    BY <1>2, <1>5 DEF Consistent, TodoUnresolved, Intended
  <1>7. WriteAhead'
    BY <1>2 DEF Consistent, WriteAhead
  <1>8. IdsFresh'
    BY <1>2 DEF Consistent, IdsFresh
  <1>9. CurUnresolved' /\ FirstPlacement'
    BY DEF CurUnresolved, FirstPlacement, Managing
  <1> QED
    BY <1>2, <1>4, <1>6, <1>7, <1>8, <1>9 DEF Consistent

\* A step of the loop that journals at most an ORDER row.
LEMMA LoopQuiet ==
    ASSUME TypeOK, Consistent, pc \in Managing, pc' \in Managing \ {"place"},
           UNCHANGED <<cur, rec, nextIntent>>,
           journal' = journal \/ \E st \in Snapshot : Emit(st),
           DOMAIN exch' = DOMAIN exch,
           \A o \in DOMAIN exch :
              exch'[o].intent = exch[o].intent /\ exch'[o].leg = exch[o].leg
    PROVE  journal' \in Seq(Row) /\ Consistent'
  <1>1. /\ journal' \in Seq(Row)
        /\ DOMAIN journal \subseteq DOMAIN journal'
        /\ \A k \in DOMAIN journal : journal'[k] = journal[k]
        /\ \A k \in DOMAIN journal' \ DOMAIN journal :
              journal'[k].type # "RESULT" /\ journal'[k].intent < nextIntent
    <2>1. CASE journal' = journal
      BY <2>1 DEF TypeOK
    <2>2. ASSUME NEW st \in Snapshot, Emit(st)
          PROVE  /\ journal' \in Seq(Row)
                 /\ DOMAIN journal \subseteq DOMAIN journal'
                 /\ \A k \in DOMAIN journal : journal'[k] = journal[k]
                 /\ \A k \in DOMAIN journal' \ DOMAIN journal :
                       journal'[k].type # "RESULT" /\ journal'[k].intent < nextIntent
      BY <2>2, EmitAdds
    <2> QED
      BY <2>1, <2>2
  <1>2. rec.todo = {} /\ rec'.todo = {}
    BY NoTodoOutside DEF Managing
  <1>3. Quiet
    BY <1>1, <1>2 DEF Quiet, Managing
  <1> QED
    BY <1>1, <1>3, QuietStep

LEMMA CancelType ==
    ASSUME exch \in Seq(ExchangeOrder), NEW o, CancelOnBook(o)
    PROVE  /\ exch' \in Seq(ExchangeOrder)
           /\ DOMAIN exch' = DOMAIN exch
           /\ \A q \in DOMAIN exch :
                 exch'[q].intent = exch[q].intent /\ exch'[q].leg = exch[q].leg
  <1>1. exch' = [exch EXCEPT ![o].status = "CANCELED"]
    BY DEF CancelOnBook
  <1>2. \A q \in DOMAIN exch : exch[q] \in ExchangeOrder
    OBVIOUS
  <1>3. \A q \in DOMAIN exch : exch'[q] = exch[q]
                               \/ exch'[q] = [exch[q] EXCEPT !.status = "CANCELED"]
    BY <1>1
  <1>4. ASSUME NEW x \in ExchangeOrder
        PROVE  /\ [x EXCEPT !.status = "CANCELED"] \in ExchangeOrder
               /\ [x EXCEPT !.status = "CANCELED"].intent = x.intent
               /\ [x EXCEPT !.status = "CANCELED"].leg = x.leg
    BY DEF ExchangeOrder, RAW_STATUSES
  <1>5. DOMAIN exch' = DOMAIN exch /\ exch' = [q \in DOMAIN exch |-> exch'[q]]
    BY <1>1
  <1>6. \A q \in DOMAIN exch : exch'[q] \in ExchangeOrder
    BY <1>2, <1>3, <1>4
  <1>7. exch' \in Seq(ExchangeOrder)
    <2>1. DOMAIN exch = 1..Len(exch) /\ Len(exch) \in Nat
      OBVIOUS
    <2>2. exch' \in [1..Len(exch) -> ExchangeOrder]
      BY <1>5, <1>6, <2>1
    <2> QED
      BY <2>1, <2>2
  <1> QED
    BY <1>2, <1>3, <1>4, <1>5, <1>7

LEMMA PlaceKeeps ==
    ASSUME IInv, ManageStep, pc = "place"
    PROVE  IInv'
  <1>0. TypeOK /\ Consistent /\ pc \in Managing
    BY DEF IInv, Managing
  <1>1. /\ UNCHANGED <<winner, recVars, envVars, tick, nextIntent, faults>>
        /\ sentStopped' \in Nat
        /\ UNCHANGED <<journal, cur, last>>
        /\ pc' \in {"ack", "result"}
        /\ ack' \in Snapshot /\ result' \in Snapshot
    <2>1. UNCHANGED <<recVars, envVars, tick, nextIntent, faults>> /\ sentStopped' \in Nat
      BY <1>0 DEF ManageStep, TypeOK
    <2>2. PlaceRaises \/ PlaceRefused \/ PlaceAccepted
      BY DEF ManageStep, ManageOrder, JournalAck, PollRaises, PollAnswers, Cancel,
             FinalRaises, FinalAnswers, RecordResult
    <2>3. CASE PlaceRaises
      <3>1. Failed(NoId) \in Snapshot
        BY DEF Failed, NoId, Snapshot, ORDER_STATES
      <3> QED
        BY <1>0, <2>1, <2>3, <3>1 DEF PlaceRaises, Finish, TypeOK
    <2>4. CASE PlaceRefused
      <3>1. Refusal \in Snapshot
        BY DEF Refusal, EmptyId, Snapshot, ORDER_STATES
      <3> QED
        BY <1>0, <2>1, <2>4, <3>1 DEF PlaceRefused, TypeOK, exchVars
    <2>5. CASE PlaceAccepted
      <3>1. PICK raw \in PLACED_STATUSES, n \in 0..Shares :
                ack' = Ack(Len(exch) + 1, raw, n)
        BY <2>5 DEF PlaceAccepted
      <3>2. Len(exch) + 1 \in Int /\ n \in Nat /\ raw \in RAW_STATUSES
        BY <1>0, SharesAssumption DEF TypeOK, PLACED_STATUSES
      <3>3. ack' \in Snapshot
        BY <3>1, <3>2, AckType
      <3> QED
        BY <1>0, <2>1, <2>5, <3>3 DEF PlaceAccepted, TypeOK
    <2> QED
      BY <2>2, <2>3, <2>4, <2>5
  <1>2. \/ UNCHANGED exch
        \/ \E raw \in PLACED_STATUSES, n \in 0..Shares : Accept(cur.intent, cur.leg, raw, n)
    BY DEF ManageStep, ManageOrder, PlaceRaises, PlaceRefused, PlaceAccepted, JournalAck,
           PollRaises, PollAnswers, Cancel, FinalRaises, FinalAnswers, RecordResult, exchVars
  <1>3. exch' \in Seq(ExchangeOrder) /\ Consistent'
    <2>1. CASE UNCHANGED exch
      <3>1. UNCHANGED rec /\ pc' \in Managing \ {"place"}
        BY <1>1 DEF recVars, Managing
      <3>2. Consistent'
        BY <1>0, <1>1, <2>1, <3>1, LoopQuiet
      <3> QED
        BY <1>0, <2>1, <3>2 DEF TypeOK
    <2>2. ASSUME NEW raw \in PLACED_STATUSES, NEW n \in 0..Shares,
                 Accept(cur.intent, cur.leg, raw, n)
          PROVE  exch' \in Seq(ExchangeOrder) /\ Consistent'
      <3>1. UNCHANGED rec /\ pc' \in Managing \ {"place"}
        BY <1>1 DEF recVars, Managing
      <3> QED
        BY <1>0, <1>1, <2>2, <3>1, AcceptKeeps
    <2> QED
      BY <1>2, <2>1, <2>2
  <1>4. TypeOK'
    <2>1. /\ journal' \in Seq(Row) /\ cur' \in Row \cup {NoRow}
          /\ last' \in ORDER_STATES /\ pc' \in Managing \cup {"rows"}
      BY <1>0, <1>1 DEF TypeOK, Managing
    <2> QED
      BY <1>0, <1>1, <1>3, <2>1, ManageTypes
  <1> QED
    BY <1>3, <1>4 DEF IInv

\* Reading an order's final status, and what is concluded from it.
LEMMA FinalType ==
    ASSUME NEW st \in Snapshot
    PROVE  (IF st.state \in TERMINAL_STATES THEN st
            ELSE [st EXCEPT !.state = "CANCELED"]) \in Snapshot
  BY DEF Snapshot, ORDER_STATES

LEMMA FailedType ==
    ASSUME NEW id \in Int
    PROVE  Failed(id) \in Snapshot
  BY DEF Failed, Snapshot, ORDER_STATES

\* Every step of the loop between the placement and the result.
LEMMA LoopKeeps ==
    ASSUME IInv, ManageStep, pc # "place", ~RecordResult
    PROVE  IInv'
  <1>0. /\ TypeOK /\ Consistent
        /\ UNCHANGED <<recVars, envVars, tick, nextIntent, faults>>
        /\ sentStopped' \in Nat
    BY DEF IInv, ManageStep, TypeOK
  <1>1. /\ ack \in Snapshot /\ result \in Snapshot /\ exch \in Seq(ExchangeOrder)
        /\ journal \in Seq(Row) /\ last \in ORDER_STATES
        /\ ack.id \in Int
    BY <1>0 DEF TypeOK, Snapshot
  <1>2. ASSUME pc \in Managing, UNCHANGED <<winner, cur>>,
               ack' \in Snapshot, result' \in Snapshot,
               pc' \in Managing \ {"place"},
               UNCHANGED <<journal, last>> \/ \E st \in Snapshot : Emit(st),
               exch' \in Seq(ExchangeOrder), DOMAIN exch' = DOMAIN exch,
               \A o \in DOMAIN exch :
                  exch'[o].intent = exch[o].intent /\ exch'[o].leg = exch[o].leg
        PROVE  IInv'
    <2>1. UNCHANGED <<rec, nextIntent>>
      BY <1>0 DEF recVars
    <2>2. journal' \in Seq(Row) /\ Consistent'
      BY <1>0, <1>2, <2>1, LoopQuiet
    <2>3. last' \in ORDER_STATES
      BY <1>1, <1>2 DEF Emit, Snapshot
    <2>4. pc' \in Managing \cup {"rows"} /\ cur' \in Row \cup {NoRow}
      BY <1>0, <1>2 DEF TypeOK
    <2>5. TypeOK'
      BY <1>0, <1>2, <2>2, <2>3, <2>4, ManageTypes
    <2> QED
      BY <2>2, <2>5 DEF IInv
  <1>3. CASE JournalAck
    <2>1. Emit(ack) /\ result' \in Snapshot /\ pc' \in {"result", "poll"}
      BY <1>1, <1>3 DEF JournalAck, Finish
    <2> QED
      BY <1>1, <1>2, <1>3, <2>1 DEF JournalAck, exchVars, Managing
  <1>4. CASE PollRaises
    <2>1. result' \in Snapshot /\ pc' = "result"
      BY <1>1, <1>4, FailedType DEF PollRaises, Finish
    <2> QED
      BY <1>1, <1>2, <1>4, <2>1 DEF PollRaises, exchVars, Managing
  <1>5. CASE PollAnswers
    <2>1. order_status(ack.id) \in Snapshot
      BY <1>1, <1>5, OrderStatusType DEF PollAnswers, Served
    <2>2. /\ Emit(order_status(ack.id)) /\ result' \in Snapshot
          /\ pc' \in {"result", "poll", "cancel"}
      BY <1>1, <1>5, <2>1 DEF PollAnswers, Finish
    <2> QED
      BY <1>1, <1>2, <1>5, <2>1, <2>2 DEF PollAnswers, exchVars, Managing
  <1>6. CASE Cancel
    <2>1. /\ exch' \in Seq(ExchangeOrder) /\ DOMAIN exch' = DOMAIN exch
          /\ \A o \in DOMAIN exch :
                exch'[o].intent = exch[o].intent /\ exch'[o].leg = exch[o].leg
      BY <1>1, <1>6, CancelType DEF Cancel
    <2> QED
      BY <1>1, <1>2, <1>6, <2>1 DEF Cancel, orderVars, Managing
  <1>7. CASE FinalRaises
    <2>1. result' \in Snapshot /\ pc' = "result"
      BY <1>1, <1>7, FailedType DEF FinalRaises, Finish
    <2> QED
      BY <1>1, <1>2, <1>7, <2>1 DEF FinalRaises, exchVars, Managing
  <1>8. CASE FinalAnswers
    <2>1. order_status(ack.id) \in Snapshot
      BY <1>1, <1>8, OrderStatusType DEF FinalAnswers, Served
    <2>2. /\ Emit(order_status(ack.id)) /\ result' \in Snapshot
          /\ pc' = "result"
      BY <1>8, <2>1, FinalType DEF FinalAnswers, Finish
    <2> QED
      BY <1>1, <1>2, <1>8, <2>1, <2>2 DEF FinalAnswers, exchVars, Managing
  <1>9. ManageOrder /\ pc # "place"
    BY DEF ManageStep
  <1> QED
    BY <1>3, <1>4, <1>5, <1>6, <1>7, <1>8, <1>9
    DEF ManageOrder, PlaceRaises, PlaceRefused, PlaceAccepted

\* The RESULT row that closes the intent.
LEMMA ResultKeeps ==
    ASSUME IInv, ManageStep, RecordResult
    PROVE  IInv'
  <1>0. /\ TypeOK /\ Consistent /\ pc \in Managing
        /\ UNCHANGED <<recVars, envVars, tick, nextIntent, faults>>
        /\ sentStopped' \in Nat
    BY DEF IInv, ManageStep, TypeOK, RecordResult, Managing
  <1> DEFINE r == ResultRow(cur, result)
  <1>1. /\ r \in Row /\ r.type = "RESULT" /\ r.intent = cur.intent
        /\ r.intent < nextIntent /\ ~HasResult(journal, r.intent)
    <2>1. cur \in Row /\ result \in Snapshot
      BY <1>0, CurIsOld DEF TypeOK
    <2>2. r \in Row
      BY <2>1, ResultRowType
    <2>3. r.type = "RESULT" /\ r.intent = cur.intent
      BY <2>1 DEF ResultRow, Row
    <2> QED
      BY <1>0, <2>2, <2>3, CurIsOld
  <1>2. journal' = Append(journal, r) /\ pc' = "rows" /\ UNCHANGED <<exch, winner>>
    BY DEF RecordResult, exchVars
  <1>3. rec.todo = {} /\ rec' = rec
    BY <1>0, NoTodoOutside DEF RecordResult, recVars
  <1> HIDE DEF r
  <1>4. journal' \in Seq(Row) /\ Consistent'
    BY <1>0, <1>1, <1>2, <1>3, BookKeeps DEF Managing
  <1>5. /\ cur' \in Row \cup {NoRow} /\ ack' \in Snapshot
        /\ last' \in ORDER_STATES /\ result' \in Snapshot
    BY DEF RecordResult, NoOrder, NoSnapshot, Snapshot, ORDER_STATES, NoId
  <1>6. exch' \in Seq(ExchangeOrder)
    BY <1>0, <1>2 DEF TypeOK
  <1>7. TypeOK'
    BY <1>0, <1>2, <1>4, <1>5, <1>6, ManageTypes DEF exchVars
  <1> QED
    BY <1>4, <1>7 DEF IInv

LEMMA ManageKeeps ==
    ASSUME IInv, ManageStep
    PROVE  IInv'
  BY PlaceKeeps, LoopKeeps, ResultKeeps

-----------------------------------------------------------------------------
(* The two tick steps that write the journal outside the loop.             *)

\* A fresh intent: no result, no order, not among those to reconcile.
LEMMA IntentKeeps ==
    ASSUME IInv, NEW r \in tick.rows, NEW s \in Stakes, record_intent(r, s)
    PROVE  IInv'
  <1>0. TypeOK /\ Consistent /\ tick \in TickLocals /\ rec.todo = {}
    BY NoTodoOutside DEF IInv, TypeOK, record_intent
  <1>1. r[1] \in Profiles /\ r[2] \in Legs /\ s \in Nat /\ nextIntent \in Nat
    BY <1>0, StakesAssumption, SharesAssumption DEF TypeOK, TickLocals
  <1> DEFINE new == IntentRow(nextIntent, r[1], r[2], s)
  <1>2. /\ new \in Row /\ new.type = "INTENT" /\ new.intent = nextIntent
    BY <1>1, IntentRowType DEF IntentRow
  <1>3. /\ cur' = new /\ journal' = Append(journal, new)
        /\ nextIntent' = nextIntent + 1 /\ pc' = "place" /\ pc = "rows"
        /\ tick' = [tick EXCEPT !.rows = @ \ {r}]
        /\ UNCHANGED <<exchVars, ack, last, result, recVars, envVars, sentStopped, faults>>
    BY DEF record_intent
  <1> HIDE DEF new
  <1>4. /\ journal' \in Seq(Row)
        /\ DOMAIN journal' = DOMAIN journal \cup {Len(journal) + 1}
        /\ journal'[Len(journal) + 1] = new
        /\ \A k \in DOMAIN journal : journal'[k] = journal[k]
    BY <1>0, <1>2, <1>3 DEF TypeOK
  <1>5. TypeOK'
    <2>1. tick \in TickLocals /\ tick' = [tick EXCEPT !.rows = @ \ {r}]
      BY <1>0, <1>3
    <2>2. tick' \in TickLocals
      BY <2>1 DEF TickLocals
    <2>3. nextIntent' \in Nat
      BY <1>1, <1>3
    <2> QED
      BY <1>0, <1>2, <1>3, <1>4, <2>2, <2>3 DEF TypeOK, exchVars, recVars, envVars
  <1>6. \A k \in DOMAIN journal : journal[k].intent # nextIntent
    <2>1. ASSUME NEW k \in DOMAIN journal
          PROVE  journal[k].intent # nextIntent
      <3>1. journal[k] \in Row
        BY <1>0 DEF TypeOK
      <3>2. journal[k].intent \in Nat /\ journal[k].intent < nextIntent
        BY <1>0, <3>1 DEF Row, Consistent, IdsFresh
      <3> QED
        BY <1>1, <3>2
    <2> QED
      BY <2>1
  <1>7. CurUnresolved'
    <2>1. ~HasResult(journal', nextIntent)
      BY <1>2, <1>4, <1>6 DEF HasResult
    <2> QED
      BY <1>2, <1>3, <1>4, <2>1 DEF CurUnresolved
  <1>8. TodoUnresolved'
    BY <1>0, <1>3 DEF TodoUnresolved, recVars
  <1>9. IdsFresh'
    <2>1. ASSUME NEW k \in DOMAIN journal
          PROVE  journal[k].intent < nextIntent + 1
      <3>1. journal[k] \in Row
        BY <1>0 DEF TypeOK
      <3>2. journal[k].intent \in Nat /\ journal[k].intent < nextIntent
        BY <1>0, <3>1 DEF Row, Consistent, IdsFresh
      <3> QED
        BY <1>1, <3>2
    <2> QED
      BY <1>1, <1>2, <1>3, <1>4, <2>1 DEF IdsFresh
  <1>10. WriteAhead'
    BY <1>0, <1>3, <1>4 DEF Consistent, WriteAhead, exchVars
  <1>11. FirstPlacement'
    BY <1>0, <1>2, <1>3, <1>6 DEF Consistent, WriteAhead, FirstPlacement, exchVars
  <1>12. OneResult'
    BY <1>0, <1>2, <1>4 DEF Consistent, OneResult
  <1> QED
    BY <1>5, <1>7, <1>8, <1>9, <1>10, <1>11, <1>12 DEF IInv, Consistent

\* The journal's rows are finitely many, so what is due can be put in order.
LEMMA DueFinite ==
    ASSUME journal \in Seq(Row), NEW due, due \subseteq DOMAIN journal
    PROVE  Cardinality(due) \in Nat
  <1>1. DOMAIN journal = 1..Len(journal) /\ Len(journal) \in Nat
    OBVIOUS
  <1>2. IsFiniteSet(1..Len(journal))
    BY <1>1, FS_Interval
  <1> QED
    BY <1>1, <1>2, FS_Subset, FS_CardinalityType

LEMMA SettlementKeeps ==
    ASSUME IInv, NEW e \in Events, record_settlement(e)
    PROVE  IInv'
  <1>0. /\ TypeOK /\ Consistent /\ tick \in TickLocals /\ journal \in Seq(Row)
        /\ rec.todo = {}
    BY NoTodoOutside DEF IInv, TypeOK, record_settlement
  <1> DEFINE due == {k \in Held(journal) : journal[k].leg.event = e}
  <1>1. due \subseteq DOMAIN journal /\ Cardinality(due) \in Nat
    <2>1. due \subseteq DOMAIN journal
      BY DEF Held
    <2> QED
      BY <1>0, <2>1, DueFinite
  <1>2. PICK ks \in [1..Cardinality(due) -> due] :
            journal' = journal \o [n \in DOMAIN ks |-> SettleRow(journal[ks[n]], winner[e])]
    BY DEF record_settlement, HeldInOrder
  <1> HIDE DEF due
  <1> DEFINE rows == [n \in DOMAIN ks |-> SettleRow(journal[ks[n]], winner[e])]
  <1>3. ASSUME NEW n \in DOMAIN ks
        PROVE  /\ rows[n] \in Row
               /\ rows[n].type = "SETTLE"
               /\ rows[n].intent < nextIntent
    <2>1. ks[n] \in DOMAIN journal
      BY <1>1
    <2>2. journal[ks[n]] \in Row /\ journal[ks[n]].intent < nextIntent
      BY <1>0, <2>1 DEF Consistent, IdsFresh
    <2>3. SettleRow(journal[ks[n]], winner[e]) \in Row
      BY <2>2, SettleRowType
    <2>4. /\ SettleRow(journal[ks[n]], winner[e]).type = "SETTLE"
          /\ SettleRow(journal[ks[n]], winner[e]).intent = journal[ks[n]].intent
      BY <2>2 DEF SettleRow, Row
    <2> QED
      BY <2>2, <2>3, <2>4
  <1>4. rows \in Seq(Row) /\ Len(rows) = Cardinality(due) /\ DOMAIN rows = DOMAIN ks
    BY <1>1, <1>3
  <1> HIDE DEF rows
  <1>5. journal' = journal \o rows
    BY <1>2 DEF rows
  <1>6. /\ journal' \in Seq(Row)
        /\ DOMAIN journal = 1..Len(journal) /\ DOMAIN rows = 1..Len(rows)
        /\ DOMAIN journal' = 1..(Len(journal) + Len(rows))
        /\ \A k \in DOMAIN journal : journal'[k] = journal[k]
        /\ \A k \in DOMAIN journal' \ DOMAIN journal :
              /\ k - Len(journal) \in DOMAIN rows
              /\ journal'[k] = rows[k - Len(journal)]
    BY <1>0, <1>4, <1>5
  <1>7. /\ tick' = [tick EXCEPT !.settle = @ \ {e}] /\ pc = "settle" /\ pc' = pc
        /\ UNCHANGED <<exchVars, pc, orderVars, recVars, envVars,
                       nextIntent, sentStopped, faults>>
    BY DEF record_settlement
  <1>8. Consistent'
    <2>1. DOMAIN journal \subseteq DOMAIN journal'
      BY <1>0, <1>4, <1>6
    <2>2. \A k \in DOMAIN journal' \ DOMAIN journal :
             journal'[k].type # "RESULT" /\ journal'[k].intent < nextIntent
      BY <1>3, <1>4, <1>6
    <2>3. Quiet
      BY <1>0, <1>6, <1>7, <2>1, <2>2 DEF Quiet, exchVars, recVars, Managing
    <2> QED
      BY <1>0, <2>3, QuietStep
  <1>9. TypeOK'
    <2>1. tick' \in TickLocals
      BY <1>0, <1>7 DEF TickLocals
    <2> QED
      BY <1>0, <1>6, <1>7, <2>1 DEF TypeOK, exchVars, orderVars, recVars, envVars
  <1> QED
    BY <1>8, <1>9 DEF IInv

-----------------------------------------------------------------------------
(* Reconciliation.                                                         *)

LEMMA FreshLocals ==
    /\ NotReconciling \in ReconcileLocals /\ NotReconciling.todo = {}
    /\ \A s \in BOOLEAN : /\ [NotReconciling EXCEPT !.startup = s] \in ReconcileLocals
                          /\ [NotReconciling EXCEPT !.startup = s].todo = {}
  <1>1. NoSnapshot \in Snapshot
    BY DEF NoSnapshot, Snapshot, NoId, ORDER_STATES
  <1> QED
    BY <1>1 DEF NotReconciling, ReconcileLocals

\* Starting or ending a reconciliation, or losing the process: nothing is left
\* to look at and nothing else Consistent speaks of moves.
LEMMA OutsideKeeps ==
    ASSUME Consistent, UNCHANGED <<exchVars, journal, nextIntent>>,
           pc' \notin Managing, rec'.todo = {}
    PROVE  Consistent'
  <1>1. Quiet
    BY DEF Quiet, exchVars, Managing
  <1> QED
    BY <1>1, QuietStep

LEMMA BeginKeeps ==
    ASSUME IInv, Start \/ AfterTick
    PROVE  IInv'
  <1>0. TypeOK /\ Consistent /\ tick \in TickLocals
    BY DEF IInv, TypeOK
  <1>1. CASE Start
    <2>1. rec' \in ReconcileLocals /\ rec'.todo = {} /\ pc' = "r_open"
      BY <1>1, FreshLocals DEF Start, BeginReconcile
    <2>2. Consistent'
      BY <1>0, <1>1, <2>1, OutsideKeeps DEF Start, Managing
    <2>3. NoGateSeen \in [Profiles -> {Phases[n] : n \in DOMAIN Phases}]
      <3>1. "early" \in {Phases[n] : n \in DOMAIN Phases}
        <4>1. Phases[1] = "early" /\ 1 \in DOMAIN Phases
          BY DEF Phases
        <4> QED
          BY <4>1
      <3> QED
        BY <3>1 DEF NoGateSeen
    <2>4. tick' \in TickLocals
      <3>1. tick' = Idle([tick EXCEPT !.at = NoGateSeen])
        BY <1>1 DEF Start
      <3> HIDE DEF NoGateSeen
      <3> QED
        BY <1>0, <2>3, <3>1 DEF Idle, TickLocals
    <2>5. TypeOK'
      BY <1>0, <1>1, <2>1, <2>4 DEF TypeOK, Start, exchVars, orderVars, envVars
    <2> QED
      BY <2>2, <2>5 DEF IInv
  <1>2. CASE AfterTick
    <2>1. rec.todo = {} /\ rec \in ReconcileLocals
      BY <1>0, <1>2, NoTodoOutside DEF AfterTick, TypeOK
    <2>2. rec' \in ReconcileLocals /\ rec'.todo = {} /\ pc' \in {"r_open", "tick"}
      BY <1>2, <2>1, FreshLocals DEF AfterTick, BeginReconcile
    <2>3. Consistent'
      BY <1>0, <1>2, <2>2, OutsideKeeps DEF AfterTick, Managing, nodeVars
    <2>4. TypeOK'
      BY <1>0, <1>2, <2>2 DEF TypeOK, AfterTick, exchVars, orderVars, envVars, nodeVars
    <2> QED
      BY <2>3, <2>4 DEF IInv
  <1> QED
    BY <1>1, <1>2

\* The types a reconciliation step can disturb.
LEMMA ReconcileTypes ==
    ASSUME TypeOK, Elsewhere, UNCHANGED <<exchVars, orderVars>>,
           journal' \in Seq(Row), rec' \in ReconcileLocals, reported' \subseteq Nat,
           pc' \in {"down", "tick", "r_open", "r_intents", "r_next", "r_write"}
    PROVE  TypeOK'
  BY DEF TypeOK, Elsewhere, exchVars, orderVars, envVars, nodeVars

\* A step that looks and does not write.
LEMMA LookKeeps ==
    ASSUME Consistent, UNCHANGED <<exchVars, journal, nextIntent>>,
           rec'.todo \subseteq rec.todo,
           pc' \in {"r_next", "r_write"}
    PROVE  Consistent'
  <1>1. Quiet
    BY DEF Quiet, exchVars, Managing
  <1> QED
    BY <1>1, QuietStep

LEMMA EndType ==
    ASSUME NEW ok, EndReconcile(ok)
    PROVE  rec' \in ReconcileLocals /\ rec'.todo = {} /\ pc' \in {"down", "tick"}
  BY FreshLocals DEF EndReconcile

\* Every order id the journal holds is an integer.
LEMMA LatestIdType ==
    ASSUME journal \in Seq(Row), NEW i, Served(LatestOrderId(journal, i)),
           exch \in Seq(ExchangeOrder)
    PROVE  order_status(LatestOrderId(journal, i)) \in Snapshot
  BY OrderStatusType DEF Served

LEMMA ListingKeeps ==
    ASSUME IInv, ReconcileStep, ListOpenOrders \/ ListUnresolved
    PROVE  IInv'
  <1>0. /\ TypeOK /\ Consistent /\ rec \in ReconcileLocals /\ Elsewhere
        /\ journal \in Seq(Row) /\ exch \in Seq(ExchangeOrder) /\ nextIntent' = nextIntent
    BY DEF IInv, TypeOK, ReconcileStep, Elsewhere, nodeVars
  <1>1. CASE ListOpenOrders
    <2>1. open_orders \subseteq Nat
      <3>1. DOMAIN exch \subseteq Nat
        BY <1>0
      <3> QED
        BY <3>1 DEF open_orders
    <2>2. rec' \in ReconcileLocals /\ rec'.todo = rec.todo
      BY <1>0, <1>1, <2>1 DEF ListOpenOrders, ReconcileLocals
    <2>3. rec.todo = {}
      BY <1>0, <1>1, NoTodoOutside DEF ListOpenOrders
    <2>4. Consistent'
      BY <1>0, <1>1, <2>2, <2>3, OutsideKeeps DEF ListOpenOrders, Managing
    <2>5. TypeOK'
      BY <1>0, <1>1, <2>2, ReconcileTypes DEF ListOpenOrders, TypeOK
    <2> QED
      BY <2>4, <2>5 DEF IInv
  <1>2. CASE ListUnresolved
    <2>1. ASSUME NEW i \in unresolved_intents(journal)
          PROVE  i \in Nat /\ Intended(i) /\ ~HasResult(journal, i)
      <3>1. PICK k \in InFlight(journal) : i = journal[k].intent
        BY <2>1 DEF unresolved_intents
      <3>2. /\ k \in DOMAIN journal /\ journal[k].type = "INTENT"
            /\ ~HasResult(journal, journal[k].intent)
        BY <3>1 DEF InFlight
      <3>3. journal[k] \in Row
        BY <1>0, <3>2
      <3>4. journal[k].intent \in Nat
        BY <3>3 DEF Row
      <3> QED
        BY <3>1, <3>2, <3>4 DEF Intended
    <2>2. /\ rec' \in ReconcileLocals /\ rec'.todo = unresolved_intents(journal)
          /\ pc' = "r_next" /\ UNCHANGED <<exchVars, journal, orderVars, reported>>
      BY <1>0, <1>2, <2>1 DEF ListUnresolved, ReconcileLocals
    <2>3. TypeOK'
      BY <1>0, <2>2, ReconcileTypes DEF TypeOK
    <2>4. TodoUnresolved'
      BY <2>1, <2>2 DEF TodoUnresolved, Intended, HasResult
    <2>5. CurUnresolved' /\ FirstPlacement' /\ IdsFresh' /\ WriteAhead' /\ OneResult'
      BY <1>0, <2>2 DEF Consistent, CurUnresolved, FirstPlacement, IdsFresh, WriteAhead,
                        OneResult, Managing, exchVars
    <2> QED
      BY <2>3, <2>4, <2>5 DEF IInv, Consistent
  <1> QED
    BY <1>1, <1>2

\* What is looked at and what is found out about one intent.
LEMMA LookingKeeps ==
    ASSUME IInv, ReconcileStep, NEW i \in rec.todo,
           StillOpen(i) \/ ManualReview(i) \/ ReadOutcome(i) \/ AssumeNeverPlaced(i)
    PROVE  IInv'
  <1>0. /\ TypeOK /\ Consistent /\ rec \in ReconcileLocals /\ Elsewhere
        /\ journal \in Seq(Row) /\ exch \in Seq(ExchangeOrder) /\ nextIntent' = nextIntent
        /\ i \in Nat
    BY DEF IInv, TypeOK, ReconcileStep, Elsewhere, nodeVars, ReconcileLocals
  <1>1. ASSUME UNCHANGED <<exchVars, journal, orderVars, reported>>,
               rec' \in ReconcileLocals, rec'.todo \subseteq rec.todo,
               pc' \in {"r_next", "r_write"}
        PROVE  IInv'
    <2>1. Consistent'
      BY <1>0, <1>1, LookKeeps
    <2>2. reported' \subseteq Nat /\ journal' \in Seq(Row)
      BY <1>0, <1>1 DEF TypeOK
    <2>3. TypeOK'
      BY <1>0, <1>1, <2>2, ReconcileTypes
    <2> QED
      BY <2>1, <2>3 DEF IInv
  <1>2. CASE StillOpen(i) \/ ManualReview(i)
    <2>1. ASSUME NEW ok \in BOOLEAN,
                 rec' = [rec EXCEPT !.todo = @ \ {i}, !.named = @ \cup {i}, !.ok = ok]
          PROVE  rec' \in ReconcileLocals /\ rec'.todo \subseteq rec.todo
      BY <1>0, <2>1 DEF ReconcileLocals
    <2>2. CASE StillOpen(i)
      <3>1. rec' = [rec EXCEPT !.todo = @ \ {i}, !.named = @ \cup {i}]
        BY <2>2 DEF StillOpen
      <3>2. rec' \in ReconcileLocals /\ rec'.todo \subseteq rec.todo
        BY <1>0, <3>1 DEF ReconcileLocals
      <3> QED
        BY <1>1, <2>2, <3>2 DEF StillOpen, Looking
    <2>3. CASE ManualReview(i)
      <3>1. rec' \in ReconcileLocals /\ rec'.todo \subseteq rec.todo
        BY <2>1, <2>3 DEF ManualReview
      <3> QED
        BY <1>1, <2>3, <3>1 DEF ManualReview, Looking
    <2> QED
      BY <1>2, <2>2, <2>3
  <1>3. ASSUME NEW st \in Snapshot, rec' = [rec EXCEPT !.found = st]
        PROVE  rec' \in ReconcileLocals /\ rec'.todo \subseteq rec.todo
    BY <1>0, <1>3 DEF ReconcileLocals
  <1>4. CASE ReadOutcome(i)
    <2>1. order_status(LatestOrderId(journal, i)) \in Snapshot
      BY <1>0, <1>4, LatestIdType DEF ReadOutcome
    <2> QED
      BY <1>1, <1>3, <1>4, <2>1 DEF ReadOutcome
  <1>5. CASE AssumeNeverPlaced(i)
    <2>1. Failed(NoId) \in Snapshot
      BY FailedType DEF NoId
    <2> QED
      BY <1>1, <1>3, <1>5, <2>1 DEF AssumeNeverPlaced
  <1> QED
    BY <1>2, <1>4, <1>5

\* The RESULT row of a stale intent.
LEMMA ResolveKeeps ==
    ASSUME IInv, ReconcileStep, NEW i \in rec.todo, ResolveStaleIntent(i)
    PROVE  IInv'
  <1>0. /\ TypeOK /\ Consistent /\ rec \in ReconcileLocals /\ Elsewhere
        /\ journal \in Seq(Row) /\ UNCHANGED <<exchVars, orderVars, reported>>
        /\ nextIntent' = nextIntent /\ i \in Nat /\ rec.found \in Snapshot
    BY DEF IInv, TypeOK, ReconcileStep, Elsewhere, nodeVars, ReconcileLocals,
           ResolveStaleIntent
  <1> DEFINE row == IntentOf(journal, i)
             r == ResultRow(row, rec.found)
  <1>1. Intended(i) /\ ~HasResult(journal, i)
    BY <1>0 DEF Consistent, TodoUnresolved
  <1>2. row \in Row /\ row.intent = i /\ i < nextIntent
    <2>1. PICK k \in DOMAIN journal : journal[k].type = "INTENT" /\ journal[k].intent = i
      BY <1>1 DEF Intended
    <2>2. PICK n \in DOMAIN journal : /\ journal[n].type = "INTENT" /\ journal[n].intent = i
                                      /\ row = journal[n]
      BY <2>1 DEF IntentOf
    <2> QED
      BY <1>0, <2>2 DEF Consistent, IdsFresh
  <1>3. r \in Row /\ r.type = "RESULT" /\ r.intent = i
    <2>1. r \in Row
      BY <1>0, <1>2, ResultRowType
    <2> HIDE DEF row
    <2> QED
      BY <1>2, <2>1 DEF ResultRow, Row
  <1>4. /\ journal' = Append(journal, r) /\ pc' = "r_next"
        /\ rec' \in ReconcileLocals /\ rec'.todo = rec.todo \ {i}
    <2>1. NoSnapshot \in Snapshot
      BY DEF NoSnapshot, Snapshot, NoId, ORDER_STATES
    <2>2. ASSUME NEW named \in SUBSET Nat, NEW ok \in BOOLEAN, NEW st \in Snapshot
          PROVE  LET new == [rec EXCEPT !.todo = @ \ {i}, !.named = named, !.ok = ok,
                                        !.found = st]
                 IN  new \in ReconcileLocals /\ new.todo = rec.todo \ {i}
      BY <1>0 DEF ReconcileLocals
    <2>3. /\ (IF rec.found.id = NoId THEN rec.named \cup {i} ELSE rec.named) \in SUBSET Nat
          /\ (rec.ok /\ rec.found.id # NoId) \in BOOLEAN
      BY <1>0 DEF ReconcileLocals
    <2> QED
      BY <2>1, <2>2, <2>3 DEF ResolveStaleIntent
  <1> HIDE DEF r, row
  <1>5. journal' \in Seq(Row) /\ Consistent'
    BY <1>0, <1>1, <1>2, <1>3, <1>4, BookKeeps DEF exchVars, Managing
  <1>6. reported' \subseteq Nat
    BY <1>0 DEF TypeOK
  <1>7. TypeOK'
    BY <1>0, <1>4, <1>5, <1>6, ReconcileTypes
  <1> QED
    BY <1>5, <1>7 DEF IInv

LEMMA ReconcileKeeps ==
    ASSUME IInv, ReconcileStep
    PROVE  IInv'
  <1>0. /\ TypeOK /\ Consistent /\ rec \in ReconcileLocals /\ Elsewhere
        /\ nextIntent' = nextIntent /\ reported \subseteq Nat /\ rec.named \subseteq Nat
        /\ journal \in Seq(Row)
    BY DEF IInv, TypeOK, ReconcileStep, Elsewhere, nodeVars, ReconcileLocals
  <1>1. ASSUME NEW ok, EndReconcile(ok), UNCHANGED <<exchVars, journal, orderVars>>,
               reported' \subseteq Nat
        PROVE  IInv'
    <2>1. rec' \in ReconcileLocals /\ rec'.todo = {} /\ pc' \in {"down", "tick"}
      BY <1>1, EndType
    <2>2. Consistent'
      BY <1>0, <1>1, <2>1, OutsideKeeps DEF Managing
    <2>3. TypeOK'
      BY <1>0, <1>1, <2>1, ReconcileTypes
    <2> QED
      BY <2>2, <2>3 DEF IInv
  <1>2. CASE ComparePositions
    BY <1>0, <1>1, <1>2 DEF ComparePositions
  <1>3. CASE ReconcileRaises
    BY <1>0, <1>1, <1>3 DEF ReconcileRaises
  <1> QED
    BY <1>2, <1>3, ListingKeeps, LookingKeeps, ResolveKeeps DEF ReconcileStep, Reconcile

-----------------------------------------------------------------------------
(* Failures and the environment.                                           *)

LEMMA FailureKeeps ==
    ASSUME IInv, TickFails \/ Crash
    PROVE  IInv'
  <1>0. TypeOK /\ Consistent /\ tick \in TickLocals /\ faults \in Nat
    BY DEF IInv, TypeOK
  <1>1. NoGateSeen \in [Profiles -> {Phases[n] : n \in DOMAIN Phases}]
    <2>1. Phases[1] = "early" /\ 1 \in DOMAIN Phases
      BY DEF Phases
    <2>2. "early" \in {Phases[n] : n \in DOMAIN Phases}
      BY <2>1
    <2> QED
      BY <2>2 DEF NoGateSeen
  <1> HIDE DEF NoGateSeen
  <1>2. tick' \in TickLocals /\ faults' \in Nat
    <2>1. \/ tick' = Idle(tick)
          \/ tick' = Idle([tick EXCEPT !.at = NoGateSeen])
      BY DEF TickFails, Crash
    <2>2. faults' \in Nat
      BY <1>0 DEF TickFails, Crash
    <2>3. CASE tick' = Idle(tick)
      BY <1>0, <2>2, <2>3 DEF Idle, TickLocals
    <2>4. CASE tick' = Idle([tick EXCEPT !.at = NoGateSeen])
      BY <1>0, <1>1, <2>2, <2>4 DEF Idle, TickLocals
    <2> QED
      BY <2>1, <2>3, <2>4
  <1>3. /\ cur' \in Row \cup {NoRow} /\ ack' \in Snapshot
        /\ last' \in ORDER_STATES /\ result' \in Snapshot
    BY DEF TickFails, Crash, NoOrder, NoSnapshot, Snapshot, ORDER_STATES, NoId
  <1>4. CASE TickFails
    <2>1. pc \notin {"r_next", "r_write"}
      BY <1>4 DEF TickFails
    <2>2. rec.todo = {} /\ rec' = rec /\ pc' = "after"
      BY <1>0, <1>4, <2>1, NoTodoOutside DEF TickFails, recVars
    <2>3. Consistent'
      BY <1>0, <1>4, <2>2, OutsideKeeps DEF TickFails, Managing
    <2>4. TypeOK'
      BY <1>0, <1>2, <1>3, <1>4 DEF TypeOK, TickFails, exchVars, recVars, envVars
    <2> QED
      BY <2>3, <2>4 DEF IInv
  <1>5. CASE Crash
    <2>1. rec' \in ReconcileLocals /\ rec'.todo = {} /\ pc' = "down"
      BY <1>5, FreshLocals DEF Crash
    <2>2. Consistent'
      BY <1>0, <1>5, <2>1, OutsideKeeps DEF Crash, Managing
    <2>3. TypeOK'
      BY <1>0, <1>2, <1>3, <1>5, <2>1 DEF TypeOK, Crash, exchVars, envVars
    <2> QED
      BY <2>2, <2>3 DEF IInv
  <1> QED
    BY <1>4, <1>5

\* A resting order has room for another share: it entered unmatched or partly
\* matched, and the fill that completes it changes its status.
RestingHasRoom == \A o \in DOMAIN exch : Resting(o) => exch[o].filled < Shares

\* The exchange's own steps change how an order stands, never whose it is.
LEMMA ExchangeQuiet ==
    ASSUME IInv, UNCHANGED <<untouched, phase, stop, operatorActions, sentStopped, reported>>,
           DOMAIN exch' = DOMAIN exch,
           \A o \in DOMAIN exch : /\ exch'[o].intent = exch[o].intent
                                  /\ exch'[o].leg = exch[o].leg,
           exch' \in Seq(ExchangeOrder),
           winner' \in [Events -> Buckets \cup {NoWinner}]
    PROVE  IInv'
  <1>0. TypeOK /\ Consistent
    BY DEF IInv
  <1>1. Quiet
    BY <1>0 DEF Quiet, Consistent, TodoUnresolved, untouched, recVars, orderVars
  <1>2. Consistent'
    BY <1>0, <1>1, QuietStep
  <1>3. TypeOK'
    BY <1>0 DEF TypeOK, untouched, orderVars, recVars
  <1> QED
    BY <1>2, <1>3 DEF IInv

LEMMA SameLengthType ==
    ASSUME exch \in Seq(ExchangeOrder), DOMAIN exch' = DOMAIN exch,
           exch' = [o \in DOMAIN exch |-> exch'[o]],
           \A o \in DOMAIN exch : exch'[o] \in ExchangeOrder
    PROVE  exch' \in Seq(ExchangeOrder)
  <1>1. DOMAIN exch = 1..Len(exch) /\ Len(exch) \in Nat
    OBVIOUS
  <1>2. exch' \in [1..Len(exch) -> ExchangeOrder]
    BY <1>1
  <1> QED
    BY <1>1, <1>2

LEMMA FillsKeep ==
    ASSUME IInv, RestingHasRoom, NEW o \in DOMAIN exch, ExchangeFills(o)
    PROVE  IInv'
  <1>0. TypeOK /\ exch \in Seq(ExchangeOrder) /\ exch[o] \in ExchangeOrder
    BY DEF IInv, TypeOK
  <1>1. exch[o].filled + 1 \in 0..Shares
    BY <1>0, SharesAssumption DEF RestingHasRoom, ExchangeFills, Fill, ExchangeOrder
  <1>2. PICK status \in RAW_STATUSES :
            exch' = [exch EXCEPT ![o].filled = exch[o].filled + 1, ![o].status = status]
    <2>1. (IF exch[o].filled + 1 = Shares THEN "MATCHED" ELSE exch[o].status)
              \in RAW_STATUSES
      BY <1>0 DEF ExchangeOrder, RAW_STATUSES
    <2>2. exch' = [exch EXCEPT ![o].filled = exch[o].filled + 1,
                               ![o].status = IF exch[o].filled + 1 = Shares
                                             THEN "MATCHED" ELSE exch[o].status]
      BY DEF ExchangeFills, Fill
    <2> QED
      BY <2>1, <2>2
  <1>3. ASSUME NEW x \in ExchangeOrder, NEW n \in 0..Shares
        PROVE  /\ [x EXCEPT !.filled = n, !.status = status] \in ExchangeOrder
               /\ [x EXCEPT !.filled = n, !.status = status].intent = x.intent
               /\ [x EXCEPT !.filled = n, !.status = status].leg = x.leg
    BY DEF ExchangeOrder
  <1>4. /\ DOMAIN exch' = DOMAIN exch /\ exch' = [q \in DOMAIN exch |-> exch'[q]]
        /\ exch'[o] = [exch[o] EXCEPT !.filled = exch[o].filled + 1, !.status = status]
        /\ \A q \in DOMAIN exch : q # o => exch'[q] = exch[q]
    BY <1>2
  <1>5. \A q \in DOMAIN exch : /\ exch'[q] \in ExchangeOrder
                               /\ exch'[q].intent = exch[q].intent
                               /\ exch'[q].leg = exch[q].leg
    <2>1. ASSUME NEW q \in DOMAIN exch
          PROVE  /\ exch'[q] \in ExchangeOrder
                 /\ exch'[q].intent = exch[q].intent
                 /\ exch'[q].leg = exch[q].leg
      <3>1. CASE q # o
        <4>1. exch[q] \in ExchangeOrder /\ exch'[q] = exch[q]
          BY <1>0, <1>4, <3>1
        <4> QED
          BY <4>1
      <3>2. CASE q = o
        <4>1. exch'[o] = [exch[o] EXCEPT !.filled = exch[o].filled + 1, !.status = status]
          BY <1>4
        <4> QED
          BY <1>0, <1>1, <1>3, <3>2, <4>1
      <3> QED
        BY <3>1, <3>2
    <2> QED
      BY <2>1
  <1>6. exch' \in Seq(ExchangeOrder)
    BY <1>0, <1>4, <1>5, SameLengthType
  <1>7. /\ UNCHANGED <<untouched, phase, stop, operatorActions, sentStopped, reported>>
        /\ winner' \in [Events -> Buckets \cup {NoWinner}]
    BY <1>0 DEF ExchangeFills, Fill, envVars, untouched, recVars, TypeOK
  <1> QED
    BY <1>4, <1>5, <1>6, <1>7, ExchangeQuiet

LEMMA ResolutionKeeps ==
    ASSUME IInv, NEW e \in Events, NEW b \in Buckets, MarketResolves(e, b)
    PROVE  IInv'
  <1>0. TypeOK /\ exch \in Seq(ExchangeOrder)
    BY DEF IInv, TypeOK
  <1>1. exch' = [o \in DOMAIN exch |->
                    IF exch[o].leg.event = e /\ Resting(o)
                    THEN [exch[o] EXCEPT !.status = "CANCELED"] ELSE exch[o]]
    BY DEF MarketResolves, Resolve
  <1>2. ASSUME NEW x \in ExchangeOrder
        PROVE  /\ [x EXCEPT !.status = "CANCELED"] \in ExchangeOrder
               /\ [x EXCEPT !.status = "CANCELED"].intent = x.intent
               /\ [x EXCEPT !.status = "CANCELED"].leg = x.leg
    BY DEF ExchangeOrder, RAW_STATUSES
  <1>3. /\ DOMAIN exch' = DOMAIN exch /\ exch' = [o \in DOMAIN exch |-> exch'[o]]
        /\ \A o \in DOMAIN exch : \/ exch'[o] = exch[o]
                                  \/ exch'[o] = [exch[o] EXCEPT !.status = "CANCELED"]
    BY <1>1
  <1>4. \A o \in DOMAIN exch : /\ exch'[o] \in ExchangeOrder
                               /\ exch'[o].intent = exch[o].intent
                               /\ exch'[o].leg = exch[o].leg
    <2>1. ASSUME NEW o \in DOMAIN exch
          PROVE  /\ exch'[o] \in ExchangeOrder
                 /\ exch'[o].intent = exch[o].intent
                 /\ exch'[o].leg = exch[o].leg
      <3>1. exch[o] \in ExchangeOrder
        BY <1>0
      <3> QED
        BY <1>2, <1>3, <3>1
    <2> QED
      BY <2>1
  <1>5. exch' \in Seq(ExchangeOrder)
    BY <1>0, <1>3, <1>4, SameLengthType
  <1>6. UNCHANGED <<untouched, phase, stop, operatorActions, sentStopped, reported>>
    BY DEF MarketResolves, envVars, untouched, recVars
  <1>7. winner' \in [Events -> Buckets \cup {NoWinner}]
    BY <1>0 DEF TypeOK, MarketResolves, Resolve
  <1> QED
    BY <1>3, <1>4, <1>5, <1>6, <1>7, ExchangeQuiet

LEMMA ClockKeeps ==
    ASSUME IInv,
           \/ \E p \in Profiles : TimePasses(p)
           \/ \E reason \in Stops : OperatorStop(reason)
    PROVE  IInv'
  <1>0. /\ TypeOK /\ Consistent /\ operatorActions \in Nat /\ sentStopped \in Nat
        /\ phase \in [Profiles -> {Phases[n] : n \in DOMAIN Phases}] /\ stop \subseteq Stops
    BY DEF IInv, TypeOK
  <1>1. UNCHANGED <<exchVars, untouched>>
    BY DEF TimePasses, OperatorStop
  <1>2. phase' \in [Profiles -> {Phases[n] : n \in DOMAIN Phases}]
    <2>1. ASSUME NEW p \in Profiles, TimePasses(p)
          PROVE  phase' \in [Profiles -> {Phases[n] : n \in DOMAIN Phases}]
      <3>1. Phases[PhaseIndex(phase[p]) + 1] \in {Phases[n] : n \in DOMAIN Phases}
        <4>1. DOMAIN Phases = 1..4 /\ Phases[4] = "over"
          BY DEF Phases
        <4>2. PICK m \in DOMAIN Phases : Phases[m] = phase[p]
          BY <1>0
        <4>3. /\ PhaseIndex(phase[p]) \in DOMAIN Phases
              /\ Phases[PhaseIndex(phase[p])] = phase[p]
          BY <4>2 DEF PhaseIndex
        <4>4. PhaseIndex(phase[p]) # 4
          BY <2>1, <4>1, <4>3 DEF TimePasses
        <4> QED
          BY <4>1, <4>3, <4>4
      <3>2. phase' = [phase EXCEPT ![p] = Phases[PhaseIndex(phase[p]) + 1]]
        BY <2>1 DEF TimePasses
      <3> QED
        BY <1>0, <3>1, <3>2
    <2> QED
      BY <1>0, <2>1 DEF OperatorStop
  <1>3. stop' \subseteq Stops /\ operatorActions' \in Nat /\ sentStopped' \in Nat
    BY <1>0 DEF TimePasses, OperatorStop
  <1>4. Quiet
    BY <1>0, <1>1 DEF Quiet, Consistent, TodoUnresolved, exchVars, untouched, recVars, orderVars
  <1>5. Consistent'
    BY <1>0, <1>4, QuietStep
  <1>6. TypeOK'
    BY <1>0, <1>1, <1>2, <1>3 DEF TypeOK, exchVars, untouched, orderVars, recVars
  <1> QED
    BY <1>5, <1>6 DEF IInv

-----------------------------------------------------------------------------
(* The invariant, and what follows from it.                                *)

IndInv == IInv /\ RestingHasRoom

LEMMA RoomSame ==
    ASSUME RestingHasRoom, UNCHANGED exch
    PROVE  RestingHasRoom'
  BY DEF RestingHasRoom, Resting

\* An order enters with room left unless it matched whole; then it is not resting.
LEMMA AcceptLeavesRoom ==
    ASSUME TypeOK, RestingHasRoom, NEW i, NEW l, NEW raw \in PLACED_STATUSES,
           NEW n \in 0..Shares, Accept(i, l, raw, n)
    PROVE  RestingHasRoom'
  <1> DEFINE new == [intent |-> i, leg |-> l, filled |-> n, status |-> raw]
  <1>1. exch \in Seq(ExchangeOrder)
    BY DEF TypeOK
  <1>2. new.status \in {"LIVE", "UNKNOWN"} => new.filled < Shares
    BY SharesAssumption DEF Accept
  <1>3. exch' = Append(exch, new)
    BY DEF Accept
  <1> HIDE DEF new
  <1>4. /\ DOMAIN exch' = DOMAIN exch \cup {Len(exch) + 1}
        /\ exch'[Len(exch) + 1] = new
        /\ \A o \in DOMAIN exch : exch'[o] = exch[o]
    BY <1>1, <1>3
  <1> QED
    BY <1>2, <1>4 DEF RestingHasRoom, Resting

LEMMA RoomKept ==
    ASSUME TypeOK, RestingHasRoom, Next
    PROVE  RestingHasRoom'
  <1>0. exch \in Seq(ExchangeOrder)
    BY DEF TypeOK
  <1>1. CASE Start \/ ReconcileStep \/ TickFails \/ Crash
    <2>1. UNCHANGED exch
      BY <1>1 DEF Start, ReconcileStep, Reconcile, ListOpenOrders, ListUnresolved, StillOpen,
                  ManualReview, ReadOutcome, AssumeNeverPlaced, ResolveStaleIntent,
                  ComparePositions, ReconcileRaises, TickFails, Crash, exchVars
    <2> QED
      BY <2>1, RoomSame
  <1>2. CASE TickStep /\ ~ManageStep
    <2>1. UNCHANGED exch
      BY <1>2 DEF TickStep, BeginTick, SkipSettle, record_settlement, NextUnit, SettleDone,
                  UnitsDone, DueDone, NextProfile, SkipRow, record_intent, StopTick, RowsDone,
                  AfterTick, exchVars
    <2> QED
      BY <2>1, RoomSame
  <1>3. CASE ManageStep
    <2>1. CASE UNCHANGED exch
      BY <2>1, RoomSame
    <2>2. ASSUME NEW raw \in PLACED_STATUSES, NEW n \in 0..Shares,
                 Accept(cur.intent, cur.leg, raw, n)
          PROVE  RestingHasRoom'
      BY <2>2, AcceptLeavesRoom
    <2>3. CASE CancelOnBook(ack.id)
      BY <2>3 DEF CancelOnBook, RestingHasRoom, Resting
    <2> QED
      BY <1>3, <2>1, <2>2, <2>3
      DEF ManageStep, ManageOrder, PlaceRaises, PlaceRefused, PlaceAccepted, JournalAck,
          PollRaises, PollAnswers, Cancel, FinalRaises, FinalAnswers, RecordResult, exchVars
  <1>4. CASE Environment
    <2>1. ASSUME NEW o \in DOMAIN exch, ExchangeFills(o)
          PROVE  RestingHasRoom'
      <3>1. exch[o] \in ExchangeOrder
        BY <1>0
      <3>2. /\ exch[o].filled + 1 <= Shares /\ exch[o].filled \in Nat
            /\ exch' = [exch EXCEPT ![o].filled = exch[o].filled + 1,
                                    ![o].status = IF exch[o].filled + 1 = Shares
                                                  THEN "MATCHED" ELSE exch[o].status]
        BY <2>1, <3>1, SharesAssumption
        DEF ExchangeFills, Fill, RestingHasRoom, ExchangeOrder
      <3>3. /\ DOMAIN exch' = DOMAIN exch
            /\ exch'[o].filled = exch[o].filled + 1
            /\ exch'[o].status = IF exch[o].filled + 1 = Shares
                                 THEN "MATCHED" ELSE exch[o].status
            /\ \A q \in DOMAIN exch : q # o => exch'[q] = exch[q]
        BY <3>1, <3>2 DEF ExchangeOrder
      <3>4. Resting(o)' => exch'[o].filled < Shares
        BY <3>2, <3>3, SharesAssumption DEF Resting
      <3> QED
        BY <3>3, <3>4 DEF RestingHasRoom, Resting
    <2>2. ASSUME NEW e \in Events, NEW b \in Buckets, MarketResolves(e, b)
          PROVE  RestingHasRoom'
      BY <2>2 DEF MarketResolves, Resolve, RestingHasRoom, Resting
    <2>3. CASE UNCHANGED exch
      BY <2>3, RoomSame
    <2> QED
      BY <1>4, <2>1, <2>2, <2>3 DEF Environment, TimePasses, OperatorStop, exchVars
  <1> QED
    BY <1>1, <1>2, <1>3, <1>4 DEF Next

(* A node that was never started: an empty journal and an empty exchange   *)
(* satisfy the invariant.                                                  *)
THEOREM InitInv == Init => IndInv
  <1> SUFFICES ASSUME Init PROVE IndInv
    OBVIOUS
  <1>1. NoSnapshot \in Snapshot /\ NotReconciling \in ReconcileLocals
    BY FreshLocals DEF NoSnapshot, Snapshot, NoId, ORDER_STATES
  <1>2. NoGateSeen \in [Profiles -> {Phases[n] : n \in DOMAIN Phases}]
    <2>1. Phases[1] = "early" /\ 1 \in DOMAIN Phases
      BY DEF Phases
    <2>2. "early" \in {Phases[n] : n \in DOMAIN Phases}
      BY <2>1
    <2> QED
      BY <2>2 DEF NoGateSeen
  <1>3. tick \in TickLocals
    <2>1. tick = [at |-> NoGateSeen, settle |-> {}, units |-> {}, due |-> {}, rows |-> {}]
      BY DEF Init
    <2> HIDE DEF NoGateSeen
    <2> QED
      BY <1>2, <2>1 DEF TickLocals
  <1>4. phase \in [Profiles -> {Phases[n] : n \in DOMAIN Phases}]
    BY <1>2 DEF Init, NoGateSeen
  <1>5. TypeOK
    BY <1>1, <1>3, <1>4 DEF Init, ExchInit, TypeOK, ORDER_STATES
  <1>6. Consistent
    BY FreshLocals DEF Init, ExchInit, Consistent, CurUnresolved, TodoUnresolved, IdsFresh,
                       FirstPlacement, WriteAhead, OneResult, Managing
  <1>7. RestingHasRoom
    BY DEF Init, ExchInit, RestingHasRoom
  <1> QED
    BY <1>5, <1>6, <1>7 DEF IndInv, IInv

(* Every step preserves it: the node's own, a failed tick, a crash, what   *)
(* the exchange and the markets do, and the operator.                      *)
THEOREM NextInv == IndInv /\ [Next]_vars => IndInv'
  <1> SUFFICES ASSUME IndInv, [Next]_vars PROVE IndInv'
    OBVIOUS
  <1>0. IInv /\ TypeOK /\ Consistent /\ RestingHasRoom
    BY DEF IndInv, IInv
  <1>1. CASE UNCHANGED vars
    <2>1. TypeOK'
      BY <1>0, <1>1 DEF TypeOK, vars, exchVars, orderVars, recVars, envVars, nodeVars
    <2>2. Quiet
      BY <1>0, <1>1 DEF Quiet, Consistent, TodoUnresolved, vars, exchVars, orderVars, recVars,
                        nodeVars
    <2>3. UNCHANGED exch
      BY <1>1 DEF vars, exchVars
    <2> QED
      BY <1>0, <2>1, <2>2, <2>3, QuietStep, RoomSame DEF IndInv, IInv
  <1>2. CASE Next
    <2>1. RestingHasRoom'
      BY <1>0, <1>2, RoomKept
    <2>2. IInv'
      <3>1. CASE Start \/ AfterTick
        BY <1>0, <3>1, BeginKeeps
      <3>2. CASE ReconcileStep
        BY <1>0, <3>2, ReconcileKeeps
      <3>3. CASE TickStep /\ ~AfterTick
        BY <1>0, <3>3, ManageKeeps, IntentKeeps, SettlementKeeps, TickKeeps
      <3>4. CASE TickFails \/ Crash
        BY <1>0, <3>4, FailureKeeps
      <3>5. CASE Environment
        BY <1>0, <3>5, FillsKeep, ResolutionKeeps, ClockKeeps DEF Environment
      <3> QED
        BY <1>2, <3>1, <3>2, <3>3, <3>4, <3>5 DEF Next
    <2> QED
      BY <2>1, <2>2 DEF IndInv
  <1> QED
    BY <1>1, <1>2

(* The invariant holds in every reachable state.                           *)
THEOREM AlwaysInv == Spec => []IndInv
  BY InitInv, NextInv, PTL DEF Spec

(* Every variable has its type: ids, fills and stakes stay natural, an     *)
(* order is never filled beyond its shares.                                *)
THEOREM TypeCorrect == Spec => []TypeOK
  <1>1. IndInv => TypeOK
    BY DEF IndInv, IInv
  <1> QED
    BY <1>1, AlwaysInv, PTL

(* ledger.py: "an INTENT row is written BEFORE any order is sent". No order*)
(* is on the exchange without its INTENT row, and no intent is sent twice, *)
(* whatever raises and wherever the process dies.                          *)
THEOREM WriteAheadHolds == Spec => []WriteAhead
  <1>1. IndInv => WriteAhead
    BY DEF IndInv, IInv, Consistent
  <1> QED
    BY <1>1, AlwaysInv, PTL

(* ledger.py: "exactly one RESULT row per intent": the order loop, a tick  *)
(* that failed, a crash and the reconciliation after it never record two.  *)
THEOREM OneResultHolds == Spec => []OneResult
  <1>1. IndInv => OneResult
    BY DEF IndInv, IInv, Consistent
  <1> QED
    BY <1>1, AlwaysInv, PTL

-----------------------------------------------------------------------------
(* What the journal is for: a stop stops, shares are paid once, and a token*)
(* is never bought twice, for every set of profiles, events and tokens.    *)
-----------------------------------------------------------------------------
(* The stops of the operator.                                              *)

(* An order is sent after its risk check, which no stop passes; so the     *)
(* count of orders sent under a stop is still zero whenever one is about to*)
(* be sent.                                                                *)
StopInv ==
    /\ sentStopped \in {0, 1}
    /\ stop = {} => sentStopped = 0
    /\ pc = "place" => sentStopped = 0

\* Every step but the risk check, the placement and the operator's.
LEMMA StopKept ==
    ASSUME StopInv, UNCHANGED <<stop, sentStopped>>, pc' = "place" => pc = "place"
    PROVE  StopInv'
  BY DEF StopInv

LEMMA StopNext ==
    ASSUME StopInv, [Next]_vars
    PROVE  StopInv'
  <1>1. CASE UNCHANGED vars
    BY <1>1, StopKept DEF vars, envVars, nodeVars
  <1>2. CASE Start \/ ReconcileStep \/ TickFails \/ Crash
    <2>1. UNCHANGED <<stop, sentStopped>> /\ pc' # "place"
      BY <1>2 DEF Start, BeginReconcile, ReconcileStep, Reconcile, Elsewhere, ListOpenOrders,
                  ListUnresolved, StillOpen, Looking, ManualReview, ReadOutcome,
                  AssumeNeverPlaced, ResolveStaleIntent, ComparePositions, ReconcileRaises,
                  EndReconcile, TickFails, Crash, envVars, nodeVars
    <2> QED BY <2>1, StopKept
  <1>3. CASE TickStep /\ ~ManageStep /\ ~(\E r \in tick.rows, s \in Stakes : record_intent(r, s))
    <2>1. UNCHANGED <<stop, sentStopped>> /\ pc' # "place"
      BY <1>3 DEF TickStep, BeginTick, SkipSettle, record_settlement, NextUnit, SettleDone,
                  UnitsDone, DueDone, NextProfile, SkipRow, StopTick, RowsDone, AfterTick,
                  BeginReconcile, envVars, nodeVars
    <2> QED BY <2>1, StopKept
  <1>4. ASSUME NEW r \in tick.rows, NEW s \in Stakes, record_intent(r, s)
        PROVE  StopInv'
    <2>1. stop = {} /\ UNCHANGED <<stop, sentStopped>>
      BY <1>4 DEF record_intent, TickStop, envVars
    <2> QED BY <2>1 DEF StopInv
  <1>5. CASE ManageStep
    <2>1. UNCHANGED stop /\ pc' # "place"
      BY <1>5 DEF ManageStep, ManageOrder, PlaceRaises, PlaceRefused, PlaceAccepted, JournalAck,
                  PollRaises, PollAnswers, Cancel, FinalRaises, FinalAnswers, RecordResult,
                  Finish, envVars
    <2>2. sentStopped' = IF pc = "place" /\ stop # {} THEN sentStopped + 1 ELSE sentStopped
      BY <1>5 DEF ManageStep
    <2> QED BY <2>1, <2>2 DEF StopInv
  <1>6. CASE Environment
    <2>1. ASSUME NEW reason \in Stops, OperatorStop(reason)
          PROVE  StopInv'
      <3>1. pc' = pc /\ sentStopped' = IF stop' = {} THEN 0 ELSE sentStopped
        BY <2>1 DEF OperatorStop, untouched
      <3>2. stop' # {} => sentStopped' = sentStopped  BY <3>1
      <3> QED BY <3>1, <3>2 DEF StopInv
    <2>2. CASE ~(\E reason \in Stops : OperatorStop(reason))
      <3>1. UNCHANGED <<stop, sentStopped, pc>>
        BY <1>6, <2>2 DEF Environment, TimePasses, ExchangeFills, MarketResolves, untouched, envVars
      <3> QED BY <3>1, StopKept
    <2> QED BY <2>1, <2>2
  <1> QED BY <1>1, <1>2, <1>3, <1>4, <1>5, <1>6 DEF Next

(* The kill switch and the halt row stop all opening, whenever they are put *)
(* on: at most one order is sent while a stop is on.                        *)
THEOREM AtMostOneAfterStopHolds == Spec => []AtMostOneAfterStop
  <1>1. Init => StopInv  BY DEF Init, StopInv
  <1>2. StopInv => AtMostOneAfterStop  BY DEF StopInv, AtMostOneAfterStop
  <1> QED BY <1>1, <1>2, StopNext, PTL DEF Spec

-----------------------------------------------------------------------------
(* What a step adds to the journal.                                        *)

\* The intent being managed is a row of the journal.
CurInJournal ==
    pc \in Managing => \E k \in DOMAIN journal : journal[k] = cur /\ cur.type = "INTENT"

\* r closes the intent of row i.
Closes(r, i) == r.type = "RESULT" /\ r.intent = i.intent /\ r.prof = i.prof /\ r.leg = i.leg

AddsNothing == journal' = journal
AddsOrder == \E r \in Row : r.type = "ORDER" /\ journal' = Append(journal, r)
AddsResult ==
    \E r \in Row, k \in InFlight(journal) : Closes(r, journal[k]) /\ journal' = Append(journal, r)

\* The two places that write a RESULT.
WritesResult == RecordResult \/ \E i \in rec.todo : ResolveStaleIntent(i)

\* Neither the buy rows of a profile nor a new intent are involved.
InTheLoop ==
    /\ tick'.rows \subseteq tick.rows
    /\ pc' \in Managing => pc \in Managing /\ cur' = cur

LEMMA OutsideAdds ==
    ASSUME IndInv, Start \/ TickFails \/ Crash \/ AfterTick \/ UNCHANGED vars
    PROVE  InTheLoop /\ AddsNothing
  <1>1. tick \in TickLocals  BY DEF IndInv, IInv, TypeOK
  <1>2. tick'.rows \subseteq tick.rows /\ journal' = journal
    BY <1>1 DEF Start, TickFails, Crash, AfterTick, Idle, TickLocals, vars, nodeVars, envVars
  <1>3. pc' \in Managing => pc \in Managing /\ cur' = cur
    BY DEF Start, TickFails, Crash, AfterTick, BeginReconcile, Managing, vars, orderVars
  <1> QED BY <1>2, <1>3 DEF InTheLoop, AddsNothing

LEMMA ReconcileAdds ==
    ASSUME IndInv, ReconcileStep
    PROVE  InTheLoop /\ (AddsNothing \/ (AddsResult /\ WritesResult))
  <1>0. TypeOK /\ Consistent /\ journal \in Seq(Row) /\ rec \in ReconcileLocals
    BY DEF IndInv, IInv, TypeOK
  <1>1. tick' = tick /\ pc' \notin Managing
    BY DEF ReconcileStep, Elsewhere, nodeVars, Reconcile, ListOpenOrders, ListUnresolved,
           StillOpen, Looking, ManualReview, ReadOutcome, AssumeNeverPlaced, ResolveStaleIntent,
           ComparePositions, ReconcileRaises, EndReconcile, Managing
  <1>2. CASE \A i \in rec.todo : ~ResolveStaleIntent(i)
    BY <1>1, <1>2 DEF ReconcileStep, Reconcile, ListOpenOrders, ListUnresolved, StillOpen,
           ManualReview, ReadOutcome, AssumeNeverPlaced, ComparePositions, ReconcileRaises,
           AddsNothing, InTheLoop
  <1>3. ASSUME NEW i \in rec.todo, ResolveStaleIntent(i)
        PROVE  AddsResult
    <2>1. Intended(i) /\ ~HasResult(journal, i)
      BY <1>0 DEF Consistent, TodoUnresolved
    <2> DEFINE k == CHOOSE n \in DOMAIN journal : journal[n].type = "INTENT" /\ journal[n].intent = i
    <2>2. k \in DOMAIN journal /\ journal[k].type = "INTENT" /\ journal[k].intent = i
      BY <2>1 DEF Intended
    <2>3. IntentOf(journal, i) = journal[k]  BY DEF IntentOf
    <2> HIDE DEF k
    <2>4. k \in InFlight(journal) /\ journal[k] \in Row
      BY <1>0, <2>1, <2>2 DEF InFlight
    <2>5. rec.found \in Snapshot  BY <1>0 DEF ReconcileLocals
    <2>6. /\ ResultRow(journal[k], rec.found) \in Row
          /\ Closes(ResultRow(journal[k], rec.found), journal[k])
      BY <2>4, <2>5, ResultRowType DEF ResultRow, Closes, Row
    <2>7. journal' = Append(journal, ResultRow(journal[k], rec.found))
      BY <1>3, <2>3 DEF ResolveStaleIntent
    <2> QED BY <2>4, <2>6, <2>7 DEF AddsResult
  <1> QED BY <1>1, <1>2, <1>3 DEF InTheLoop, WritesResult

LEMMA EmitOrder ==
    ASSUME TypeOK, cur \in Row, NEW st \in Snapshot, Emit(st)
    PROVE  AddsNothing \/ AddsOrder
  <1>1. OrderRow(cur, st) \in Row /\ OrderRow(cur, st).type = "ORDER"
    BY OrderRowType DEF OrderRow, Row
  <1> QED BY <1>1 DEF Emit, AddsNothing, AddsOrder

LEMMA ManageAdds ==
    ASSUME IndInv, CurInJournal, ManageStep
    PROVE  InTheLoop /\ (AddsNothing \/ AddsOrder \/ (AddsResult /\ WritesResult))
  <1>0. /\ TypeOK /\ Consistent /\ journal \in Seq(Row) /\ exch \in Seq(ExchangeOrder)
        /\ ack \in Snapshot /\ result \in Snapshot /\ tick' = tick
    BY DEF IndInv, IInv, TypeOK, ManageStep
  <1>1. pc \in Managing /\ cur \in Row /\ ~HasResult(journal, cur.intent)
    <2>1. pc \in Managing
      BY DEF ManageStep, ManageOrder, PlaceRaises, PlaceRefused, PlaceAccepted, JournalAck,
             PollRaises, PollAnswers, Cancel, FinalRaises, FinalAnswers, RecordResult, Managing
    <2> QED BY <1>0, <2>1, CurIsOld
  <1>2. pc' \in Managing => cur' = cur
    BY DEF ManageStep, ManageOrder, PlaceRaises, PlaceRefused, PlaceAccepted, JournalAck,
           PollRaises, PollAnswers, Cancel, FinalRaises, FinalAnswers, RecordResult, Managing,
           orderVars
  <1>3. CASE RecordResult
    <2>1. PICK k \in DOMAIN journal : journal[k] = cur /\ cur.type = "INTENT"
      BY <1>1 DEF CurInJournal
    <2>2. k \in InFlight(journal)  BY <1>1, <2>1 DEF InFlight
    <2>3. ResultRow(cur, result) \in Row /\ Closes(ResultRow(cur, result), journal[k])
      BY <1>0, <1>1, <2>1, ResultRowType DEF ResultRow, Closes, Row
    <2>4. journal' = Append(journal, ResultRow(cur, result))  BY <1>3 DEF RecordResult
    <2>5. AddsResult  BY <2>2, <2>3, <2>4 DEF AddsResult
    <2> QED BY <1>0, <1>1, <1>2, <1>3, <2>5 DEF InTheLoop, WritesResult
  <1>4. CASE JournalAck
    BY <1>0, <1>1, <1>2, <1>4, EmitOrder DEF JournalAck, InTheLoop
  <1>5. CASE PollAnswers \/ FinalAnswers
    <2>1. ack.id \in DOMAIN exch  BY <1>5 DEF PollAnswers, FinalAnswers, Served
    <2>2. order_status(ack.id) \in Snapshot  BY <1>0, <2>1, OrderStatusType
    <2> QED BY <1>0, <1>1, <1>2, <1>5, <2>2, EmitOrder DEF PollAnswers, FinalAnswers, InTheLoop
  <1>6. CASE ~RecordResult /\ ~JournalAck /\ ~PollAnswers /\ ~FinalAnswers
    <2>1. journal' = journal
      BY <1>6 DEF ManageStep, ManageOrder, PlaceRaises, PlaceRefused, PlaceAccepted, PollRaises,
                  Cancel, FinalRaises
    <2> QED BY <1>0, <1>1, <1>2, <2>1 DEF InTheLoop, AddsNothing
  <1> QED BY <1>3, <1>4, <1>5, <1>6

LEMMA TickAdds ==
    ASSUME IndInv, TickStep, ~ManageStep, ~AfterTick,
           \A p \in Profiles : ~NextProfile(p),
           \A r \in tick.rows, s \in Stakes : ~record_intent(r, s),
           \A e \in Events : ~record_settlement(e)
    PROVE  InTheLoop /\ AddsNothing
  <1>1. tick \in TickLocals  BY DEF IndInv, IInv, TypeOK
  <1>2. tick'.rows \subseteq tick.rows /\ journal' = journal
    BY <1>1 DEF TickStep, BeginTick, SkipSettle, NextUnit, SettleDone, UnitsDone, DueDone,
                SkipRow, StopTick, RowsDone, Idle, TickLocals, nodeVars
  <1>3. pc' \notin Managing
    BY DEF TickStep, BeginTick, SkipSettle, NextUnit, SettleDone, UnitsDone, DueDone,
           SkipRow, StopTick, RowsDone, Managing
  <1> QED BY <1>2, <1>3 DEF InTheLoop, AddsNothing

LEMMA EnvironmentAdds ==
    ASSUME Environment
    PROVE  InTheLoop /\ AddsNothing
  <1>1. UNCHANGED untouched
    BY DEF Environment, TimePasses, OperatorStop, ExchangeFills, MarketResolves, untouched
  <1> QED BY <1>1 DEF untouched, orderVars, InTheLoop, AddsNothing

\* The kinds of steps.
LEMMA Kinds ==
    ASSUME IndInv, CurInJournal, [Next]_vars
    PROVE  \/ \E p \in Profiles : NextProfile(p)
           \/ \E r \in tick.rows, s \in Stakes : record_intent(r, s)
           \/ \E e \in Events : record_settlement(e)
           \/ InTheLoop /\ (AddsNothing \/ AddsOrder \/ (AddsResult /\ WritesResult))
  BY OutsideAdds, ReconcileAdds, ManageAdds, TickAdds, EnvironmentAdds DEF Next, TickStep

-----------------------------------------------------------------------------
(* The invariant of the ledger.                                            *)

Live == InFlight(journal) \cup Held(journal)

\* uuid4: an intent has one INTENT row.
IntentsUnique ==
    \A k, n \in DOMAIN journal :
        /\ journal[k].type = "INTENT" /\ journal[n].type = "INTENT"
        /\ journal[k].intent = journal[n].intent
        => k = n

\* A RESULT closes an intent that was recorded before, for the same token.
ResultsFollow ==
    \A n \in DOMAIN journal : journal[n].type = "RESULT" =>
        \E k \in 1..(n - 1) : journal[k].type = "INTENT" /\ Closes(journal[n], journal[k])

\* What is about to be bought is neither in flight nor held: the dedupe of
\* NextProfile still holds when its rows are worked one by one.
RowsFree ==
    \A r \in tick.rows, k \in Live : ~(journal[k].prof = r[1] /\ journal[k].leg = r[2])

LedgerInv ==
    /\ CurInJournal
    /\ IntentsUnique
    /\ ResultsFollow
    /\ PaidOnceForItsShares
    /\ RowsFree
    /\ OneLiveIntentPerToken

\* The journal is append-only.
Extended ==
    /\ DOMAIN journal \subseteq DOMAIN journal'
    /\ \A k \in DOMAIN journal : journal'[k] = journal[k]

LEMMA Appended ==
    ASSUME journal \in Seq(Row), NEW r \in Row, journal' = Append(journal, r)
    PROVE  /\ Extended
           /\ DOMAIN journal = 1..Len(journal) /\ Len(journal) \in Nat
           /\ DOMAIN journal' = DOMAIN journal \cup {Len(journal) + 1}
           /\ Len(journal) + 1 \notin DOMAIN journal
           /\ journal'[Len(journal) + 1] = r
  BY DEF Extended

\* Rows that are neither intents nor results open no position.
LEMMA NoneOpened ==
    ASSUME journal \in Seq(Row), Extended,
           \A k \in DOMAIN journal' \ DOMAIN journal :
               journal'[k].type \notin {"INTENT", "RESULT"}
    PROVE  /\ Live' \subseteq Live
           /\ IntentsUnique => IntentsUnique'
           /\ ResultsFollow => ResultsFollow'
  <1>1. \A k \in DOMAIN journal' :
            journal'[k].type \in {"INTENT", "RESULT"} =>
                k \in DOMAIN journal /\ journal'[k] = journal[k]
    BY DEF Extended
  <1>2. \A i : HasResult(journal, i) => HasResult(journal', i)
    BY DEF HasResult, Extended
  <1>3. \A i : IsSettled(journal, i) => IsSettled(journal', i)
    BY DEF IsSettled, Extended
  <1>4. InFlight(journal') \subseteq InFlight(journal)
    BY <1>1, <1>2 DEF InFlight
  <1>5. Held(journal') \subseteq Held(journal)
    BY <1>1, <1>3 DEF Held
  <1>6. Live' \subseteq Live
    BY <1>4, <1>5 DEF Live
  <1>7. IntentsUnique => IntentsUnique'
    BY <1>1 DEF IntentsUnique
  <1>8. ASSUME ResultsFollow, NEW n \in DOMAIN journal', journal'[n].type = "RESULT"
        PROVE  \E k \in 1..(n - 1) : journal'[k].type = "INTENT" /\ Closes(journal'[n], journal'[k])
    <2>1. n \in DOMAIN journal /\ journal'[n] = journal[n]
      BY <1>1, <1>8
    <2>2. PICK k \in 1..(n - 1) : journal[k].type = "INTENT" /\ Closes(journal[n], journal[k])
      BY <1>8, <2>1 DEF ResultsFollow
    <2>3. k \in DOMAIN journal
      BY <2>1, <2>2
    <2> QED BY <2>1, <2>2, <2>3 DEF Extended
  <1> QED BY <1>6, <1>7, <1>8 DEF ResultsFollow

\* Nor do they disturb what holds of the live positions.
LEMMA SamePositions ==
    ASSUME Extended, Live' \subseteq Live, tick'.rows \subseteq tick.rows
    PROVE  /\ RowsFree => RowsFree'
           /\ OneLiveIntentPerToken => OneLiveIntentPerToken'
  <1>1. Live \subseteq DOMAIN journal
    BY DEF Live, InFlight, Held
  <1>2. \A k \in Live' : k \in Live /\ journal'[k] = journal[k]
    BY <1>1 DEF Extended
  <1> QED BY <1>2 DEF RowsFree, OneLiveIntentPerToken, Live

\* Without a new SETTLE row nothing is paid.
LEMMA SamePayments ==
    ASSUME Extended, PaidOnceForItsShares, journal \in Seq(Row),
           \A k \in DOMAIN journal' \ DOMAIN journal : journal'[k].type # "SETTLE"
    PROVE  PaidOnceForItsShares'
  <1>1. \A k \in DOMAIN journal' : journal'[k].type = "SETTLE" =>
            k \in DOMAIN journal /\ journal'[k] = journal[k]
    BY DEF Extended
  <1>2. ASSUME NEW k \in DOMAIN journal', journal'[k].type = "SETTLE"
        PROVE  /\ \E n \in 1..(k - 1) : /\ journal'[n].type = "RESULT"
                                        /\ journal'[n].intent = journal'[k].intent
                                        /\ journal'[n].filled = journal'[k].filled
                                        /\ journal'[n].filled > 0
               /\ \A n \in DOMAIN journal' :
                     /\ journal'[n].type = "SETTLE"
                     /\ journal'[n].intent = journal'[k].intent
                     => n = k
    <2>1. k \in DOMAIN journal /\ journal'[k] = journal[k]
      BY <1>1, <1>2
    <2>2. PICK n \in 1..(k - 1) : /\ journal[n].type = "RESULT"
                                  /\ journal[n].intent = journal[k].intent
                                  /\ journal[n].filled = journal[k].filled
                                  /\ journal[n].filled > 0
      BY <1>2, <2>1 DEF PaidOnceForItsShares
    <2>3. n \in DOMAIN journal
      BY <2>1, <2>2
    <2>4. journal'[n] = journal[n]
      BY <2>3 DEF Extended
    <2> QED BY <1>1, <1>2, <2>1, <2>2, <2>4 DEF PaidOnceForItsShares
  <1> QED BY <1>2 DEF PaidOnceForItsShares

LEMMA CurStays ==
    ASSUME CurInJournal, Extended, pc' \in Managing => pc \in Managing /\ cur' = cur
    PROVE  CurInJournal'
  BY DEF CurInJournal, Extended

-----------------------------------------------------------------------------
(* Each kind of step keeps it.                                             *)

LEMMA PlainKeeps ==
    ASSUME IndInv, LedgerInv, InTheLoop, AddsNothing \/ AddsOrder
    PROVE  LedgerInv'
  <1>0. journal \in Seq(Row)  BY DEF IndInv, IInv, TypeOK
  <1>1. Extended /\ \A k \in DOMAIN journal' \ DOMAIN journal : journal'[k].type = "ORDER"
    <2>1. CASE AddsNothing  BY <2>1 DEF AddsNothing, Extended
    <2>2. CASE AddsOrder
      <3>1. PICK r \in Row : r.type = "ORDER" /\ journal' = Append(journal, r)
        BY <2>2 DEF AddsOrder
      <3> QED BY <1>0, <3>1, Appended
    <2> QED BY <2>1, <2>2
  <1>2. Live' \subseteq Live /\ IntentsUnique' /\ ResultsFollow'
    BY <1>0, <1>1, NoneOpened DEF LedgerInv
  <1>3. RowsFree' /\ OneLiveIntentPerToken'
    BY <1>1, <1>2, SamePositions DEF InTheLoop, LedgerInv
  <1>4. PaidOnceForItsShares'
    BY <1>0, <1>1, SamePayments DEF LedgerInv
  <1>5. CurInJournal'
    BY <1>1, CurStays DEF InTheLoop, LedgerInv
  <1> QED BY <1>2, <1>3, <1>4, <1>5 DEF LedgerInv

LEMMA DedupeKeeps ==
    ASSUME IndInv, LedgerInv, NEW p \in Profiles, NextProfile(p)
    PROVE  LedgerInv'
  <1>0. journal \in Seq(Row) /\ journal' = journal /\ pc' \notin Managing
    BY DEF IndInv, IInv, TypeOK, NextProfile, Managing
  <1>1. Live' = Live /\ IntentsUnique' /\ ResultsFollow' /\ PaidOnceForItsShares'
        /\ OneLiveIntentPerToken'
    BY <1>0 DEF LedgerInv, Live, IntentsUnique, ResultsFollow, PaidOnceForItsShares,
                OneLiveIntentPerToken
  <1>2. CurInJournal'
    BY <1>0 DEF CurInJournal
  <1>3. RowsFree'
    <2>1. CASE tick'.rows = tick.rows
      BY <1>0, <1>1, <2>1 DEF LedgerInv, RowsFree
    <2>2. CASE /\ ~has_open_on_event(journal, ProfileEvent[p], p)
               /\ \E b \in BuyRows(ProfileEvent[p]) : tick'.rows = {p} \X b
      <3>1. \A r \in tick'.rows : r[1] = p /\ r[2].event = ProfileEvent[p]
        BY <2>2 DEF BuyRows
      <3>2. ASSUME NEW k \in Live, journal[k].prof = p, journal[k].leg.event = ProfileEvent[p]
            PROVE  FALSE
        <4>1. CASE k \in InFlight(journal)
          BY <2>2, <3>2, <4>1 DEF InFlight, has_open_on_event
        <4>2. CASE k \in Held(journal)
          <5>1. k \in DOMAIN journal /\ journal[k].type = "RESULT"
            BY <4>2 DEF Held
          <5>2. PICK n \in 1..(k - 1) : journal[n].type = "INTENT" /\ Closes(journal[k], journal[n])
            BY <5>1 DEF LedgerInv, ResultsFollow
          <5>3. n \in DOMAIN journal  BY <1>0, <5>1, <5>2
          <5> QED BY <2>2, <3>2, <4>2, <5>2, <5>3 DEF Closes, has_open_on_event
        <4> QED BY <4>1, <4>2 DEF Live
      <3> QED BY <1>0, <1>1, <3>1, <3>2 DEF RowsFree
    <2>3. tick \in TickLocals  BY DEF IndInv, IInv, TypeOK
    <2> QED BY <2>1, <2>2, <2>3 DEF NextProfile, TickLocals
  <1> QED BY <1>1, <1>2, <1>3 DEF LedgerInv

LEMMA IntentAdds ==
    ASSUME IndInv, LedgerInv, NEW r \in tick.rows, NEW s \in Stakes, record_intent(r, s)
    PROVE  LedgerInv'
  <1>0. /\ journal \in Seq(Row) /\ tick \in TickLocals /\ nextIntent \in Nat
        /\ r = <<r[1], r[2]>> /\ r[1] \in Profiles /\ r[2] \in Legs /\ s \in Nat
    BY StakesAssumption, SharesAssumption DEF IndInv, IInv, TypeOK, TickLocals
  <1> DEFINE new == IntentRow(nextIntent, r[1], r[2], s)
             z == Len(journal) + 1
  <1>1. /\ new \in Row /\ new.type = "INTENT" /\ new.intent = nextIntent
        /\ new.prof = r[1] /\ new.leg = r[2]
    BY <1>0, IntentRowType DEF IntentRow
  <1>2. cur' = new /\ journal' = Append(journal, new) /\ tick'.rows = tick.rows \ {r}
    BY <1>0 DEF record_intent, TickLocals
  <1>3. \A k \in DOMAIN journal : journal[k].intent < nextIntent /\ journal[k] \in Row
    BY <1>0 DEF IndInv, IInv, Consistent, IdsFresh
  <1> HIDE DEF new
  <1>4. /\ Extended /\ DOMAIN journal' = DOMAIN journal \cup {z} /\ z \notin DOMAIN journal
        /\ journal'[z] = new /\ DOMAIN journal = 1..Len(journal) /\ Len(journal) \in Nat
    BY <1>0, <1>1, <1>2, Appended
  <1>5. \A k \in DOMAIN journal : journal'[k] = journal[k] /\ journal[k].intent # nextIntent
    BY <1>0, <1>3, <1>4 DEF Extended, Row
  <1> HIDE DEF z
  <1>6. CurInJournal'
    BY <1>1, <1>2, <1>4 DEF CurInJournal
  <1>7. IntentsUnique'
    BY <1>1, <1>4, <1>5 DEF LedgerInv, IntentsUnique
  <1>8. ResultsFollow'
    <2>1. ASSUME NEW n \in DOMAIN journal', journal'[n].type = "RESULT"
          PROVE  \E k \in 1..(n - 1) :
                     journal'[k].type = "INTENT" /\ Closes(journal'[n], journal'[k])
      <3>1. n \in DOMAIN journal  BY <1>1, <1>4, <2>1
      <3>2. PICK k \in 1..(n - 1) : journal[k].type = "INTENT" /\ Closes(journal[n], journal[k])
        BY <1>5, <2>1, <3>1 DEF LedgerInv, ResultsFollow
      <3>3. k \in DOMAIN journal  BY <1>4, <3>1, <3>2
      <3> QED BY <1>5, <3>1, <3>2, <3>3
    <2> QED BY <2>1 DEF ResultsFollow
  <1>9. PaidOnceForItsShares'
    BY <1>0, <1>1, <1>4, SamePayments DEF LedgerInv
  <1>10. Live' \subseteq Live \cup {z}
    BY <1>1, <1>4, <1>5 DEF Live, InFlight, Held, HasResult, IsSettled
  <1>11. \A k \in Live : k \in DOMAIN journal
    BY DEF Live, InFlight, Held
  <1>12. RowsFree'
    <2>1. \A q \in tick'.rows : q \in tick.rows /\ ~(new.prof = q[1] /\ new.leg = q[2])
      BY <1>0, <1>1, <1>2 DEF TickLocals
    <2> QED BY <1>4, <1>5, <1>10, <1>11, <2>1 DEF LedgerInv, RowsFree
  <1>13. OneLiveIntentPerToken'
    <2>1. \A k \in Live : ~(journal[k].prof = r[1] /\ journal[k].leg = r[2])
      BY DEF LedgerInv, RowsFree
    <2>2. \A k, n \in Live : journal[k].prof = journal[n].prof /\ journal[k].leg = journal[n].leg
                                => k = n
      BY DEF LedgerInv, OneLiveIntentPerToken, Live
    <2>3. \A k, n \in Live' : journal'[k].prof = journal'[n].prof
                               /\ journal'[k].leg = journal'[n].leg => k = n
      BY <1>1, <1>4, <1>5, <1>10, <1>11, <2>1, <2>2
    <2> QED BY <2>3 DEF OneLiveIntentPerToken, Live
  <1> QED BY <1>6, <1>7, <1>8, <1>9, <1>12, <1>13 DEF LedgerInv

LEMMA ResultAdds ==
    ASSUME IndInv, LedgerInv, InTheLoop, AddsResult
    PROVE  LedgerInv'
  <1>0. journal \in Seq(Row)  BY DEF IndInv, IInv, TypeOK
  <1>1. PICK r \in Row, i \in InFlight(journal) :
            Closes(r, journal[i]) /\ journal' = Append(journal, r)
    BY DEF AddsResult
  <1> DEFINE z == Len(journal) + 1
  <1>2. /\ Extended /\ DOMAIN journal' = DOMAIN journal \cup {z} /\ z \notin DOMAIN journal
        /\ journal'[z] = r /\ DOMAIN journal = 1..Len(journal) /\ Len(journal) \in Nat
    BY <1>0, <1>1, Appended
  <1>3. \A k \in DOMAIN journal : journal'[k] = journal[k]
    BY <1>2 DEF Extended
  <1>4. i \in DOMAIN journal /\ journal[i].type = "INTENT" /\ ~HasResult(journal, r.intent)
    BY <1>1 DEF InFlight, Closes
  <1>5. i \in 1..(z - 1)
    BY <1>2, <1>4
  <1> HIDE DEF z
  <1>6. CurInJournal'
    BY <1>2, CurStays DEF InTheLoop, LedgerInv
  <1>7. IntentsUnique'
    BY <1>1, <1>2, <1>3 DEF LedgerInv, IntentsUnique, Closes
  <1>8. ResultsFollow'
    <2>1. ASSUME NEW n \in DOMAIN journal', journal'[n].type = "RESULT"
          PROVE  \E k \in 1..(n - 1) :
                     journal'[k].type = "INTENT" /\ Closes(journal'[n], journal'[k])
      <3>1. CASE n = z  BY <1>1, <1>2, <1>3, <1>4, <1>5, <3>1
      <3>2. CASE n \in DOMAIN journal
        <4>1. PICK k \in 1..(n - 1) :
                  journal[k].type = "INTENT" /\ Closes(journal[n], journal[k])
          BY <1>3, <2>1, <3>2 DEF LedgerInv, ResultsFollow
        <4>2. k \in DOMAIN journal  BY <1>2, <3>2, <4>1
        <4> QED BY <1>3, <3>2, <4>1, <4>2
      <3> QED BY <1>2, <3>1, <3>2
    <2> QED BY <2>1 DEF ResultsFollow
  <1>9. PaidOnceForItsShares'
    BY <1>0, <1>1, <1>2, SamePayments DEF LedgerInv, Closes
  <1>10. Live' \subseteq (Live \ {i}) \cup {z}
    <2>1. InFlight(journal') \subseteq InFlight(journal) \ {i}
      BY <1>1, <1>2, <1>3, <1>4 DEF InFlight, HasResult, Closes
    <2>2. Held(journal') \subseteq (Held(journal) \ {i}) \cup {z}
      BY <1>2, <1>3, <1>4 DEF Held, IsSettled
    <2> QED BY <2>1, <2>2 DEF Live
  <1>11. i \in Live /\ \A k \in Live : k \in DOMAIN journal
    BY <1>1 DEF Live, InFlight, Held
  <1>12. r.prof = journal[i].prof /\ r.leg = journal[i].leg
    BY <1>1 DEF Closes
  <1>13. RowsFree'
    <2>1. \A q \in tick.rows, k \in Live : ~(journal[k].prof = q[1] /\ journal[k].leg = q[2])
      BY DEF LedgerInv, RowsFree
    <2>2. \A q \in tick'.rows, k \in Live' :
              ~(journal'[k].prof = q[1] /\ journal'[k].leg = q[2])
      BY <1>2, <1>3, <1>10, <1>11, <1>12, <2>1 DEF InTheLoop
    <2> QED BY <2>2 DEF RowsFree
  <1>14. OneLiveIntentPerToken'
    <2>1. \A k, n \in Live : journal[k].prof = journal[n].prof /\ journal[k].leg = journal[n].leg
                                => k = n
      BY DEF LedgerInv, OneLiveIntentPerToken, Live
    <2>2. \A k, n \in Live' : journal'[k].prof = journal'[n].prof
                               /\ journal'[k].leg = journal'[n].leg => k = n
      BY <1>2, <1>3, <1>10, <1>11, <1>12, <2>1
    <2> QED BY <2>2 DEF OneLiveIntentPerToken, Live
  <1> QED BY <1>6, <1>7, <1>8, <1>9, <1>13, <1>14 DEF LedgerInv

\* The event's held results are paid in one transaction, each once: the
\* results are listed in their order, and no intent has two.
LEMMA SettlementPays ==
    ASSUME IndInv, LedgerInv, NEW e \in Events, record_settlement(e)
    PROVE  LedgerInv'
  <1>0. journal \in Seq(Row) /\ OneResult /\ tick \in TickLocals
    BY DEF IndInv, IInv, TypeOK, Consistent
  <1> DEFINE due == {k \in Held(journal) : journal[k].leg.event = e}
  <1>1. due \subseteq DOMAIN journal /\ due \subseteq Held(journal) /\ Cardinality(due) \in Nat
    <2>1. due \subseteq DOMAIN journal  BY DEF Held
    <2> QED BY <1>0, <2>1, DueFinite
  <1>2. PICK ks \in [1..Cardinality(due) -> due] :
            /\ Increasing(ks)
            /\ journal' = journal \o [n \in DOMAIN ks |-> SettleRow(journal[ks[n]], winner[e])]
    BY DEF record_settlement, HeldInOrder
  <1> HIDE DEF due
  <1> DEFINE rows == [n \in DOMAIN ks |-> SettleRow(journal[ks[n]], winner[e])]
             last_row == Len(journal)
  <1>3. ASSUME NEW n \in DOMAIN ks
        PROVE  /\ ks[n] \in Held(journal) /\ ks[n] \in DOMAIN journal
               /\ rows[n] \in Row /\ rows[n].type = "SETTLE"
               /\ rows[n].intent = journal[ks[n]].intent
               /\ rows[n].filled = journal[ks[n]].filled
    <2>1. ks[n] \in Held(journal) /\ ks[n] \in DOMAIN journal  BY <1>1
    <2>2. journal[ks[n]] \in Row  BY <1>0, <2>1
    <2>3. SettleRow(journal[ks[n]], winner[e]) \in Row  BY <2>2, SettleRowType
    <2>4. /\ SettleRow(journal[ks[n]], winner[e]).type = "SETTLE"
          /\ SettleRow(journal[ks[n]], winner[e]).intent = journal[ks[n]].intent
          /\ SettleRow(journal[ks[n]], winner[e]).filled = journal[ks[n]].filled
      BY <2>2 DEF SettleRow, Row
    <2> QED BY <2>1, <2>3, <2>4
  <1>4. rows \in Seq(Row) /\ Len(rows) = Cardinality(due) /\ DOMAIN rows = DOMAIN ks
    BY <1>1, <1>3
  <1>5. \A m, n \in DOMAIN ks : ks[m] = ks[n] => m = n
    <2>1. \A m, n \in DOMAIN ks : m \in Int /\ n \in Int /\ ks[m] \in Int /\ ks[n] \in Int
      BY <1>0, <1>3
    <2> QED BY <1>2, <2>1 DEF Increasing
  <1> HIDE DEF rows
  <1>6. journal' = journal \o rows
    BY <1>2 DEF rows
  <1>7. /\ DOMAIN journal = 1..last_row /\ last_row \in Nat
        /\ DOMAIN journal' = 1..(last_row + Len(rows))
        /\ DOMAIN rows = 1..Len(rows)
        /\ \A k \in DOMAIN journal : journal'[k] = journal[k]
        /\ \A k \in DOMAIN journal' \ DOMAIN journal :
              k - last_row \in DOMAIN ks /\ journal'[k] = rows[k - last_row]
    BY <1>0, <1>4, <1>6
  <1> HIDE DEF last_row
  <1>8. Extended /\ \A k \in DOMAIN journal' \ DOMAIN journal : journal'[k].type = "SETTLE"
    <2>1. DOMAIN journal \subseteq DOMAIN journal'  BY <1>1, <1>4, <1>7
    <2> QED BY <1>3, <1>7, <2>1 DEF Extended
  <1>9. tick'.rows = tick.rows /\ pc' \notin Managing
    BY <1>0 DEF record_settlement, TickLocals, Managing
  <1>10. Live' \subseteq Live /\ IntentsUnique' /\ ResultsFollow'
    BY <1>0, <1>8, NoneOpened DEF LedgerInv
  <1>11. RowsFree' /\ OneLiveIntentPerToken'
    BY <1>8, <1>9, <1>10, SamePositions DEF LedgerInv
  <1>12. CurInJournal'
    BY <1>9 DEF CurInJournal
  <1>13. ASSUME NEW k \in DOMAIN journal', journal'[k].type = "SETTLE"
         PROVE  \E n \in 1..(k - 1) : /\ journal'[n].type = "RESULT"
                                      /\ journal'[n].intent = journal'[k].intent
                                      /\ journal'[n].filled = journal'[k].filled
                                      /\ journal'[n].filled > 0
    <2>1. CASE k \in DOMAIN journal
      <3>1. PICK n \in 1..(k - 1) : /\ journal[n].type = "RESULT"
                                    /\ journal[n].intent = journal[k].intent
                                    /\ journal[n].filled = journal[k].filled
                                    /\ journal[n].filled > 0
        BY <1>7, <1>13, <2>1 DEF LedgerInv, PaidOnceForItsShares
      <3>2. n \in DOMAIN journal  BY <1>7, <2>1
      <3> QED BY <1>7, <2>1, <3>1, <3>2
    <2>2. CASE k \notin DOMAIN journal
      <3> DEFINE m == ks[k - last_row]
      <3>1. k - last_row \in DOMAIN ks /\ journal'[k] = rows[k - last_row]
        BY <1>7, <2>2
      <3>2. /\ m \in Held(journal) /\ m \in DOMAIN journal
            /\ journal'[k].intent = journal[m].intent /\ journal'[k].filled = journal[m].filled
        BY <1>3, <3>1
      <3>3. m \in 1..(k - 1) /\ journal'[m] = journal[m]
        BY <1>7, <2>2, <3>2
      <3> QED BY <3>2, <3>3 DEF Held
    <2> QED BY <2>1, <2>2
  <1>14. ASSUME NEW k \in DOMAIN journal', NEW n \in DOMAIN journal',
                journal'[k].type = "SETTLE", journal'[n].type = "SETTLE",
                journal'[n].intent = journal'[k].intent
         PROVE  n = k
    <2>1. CASE k \in DOMAIN journal /\ n \in DOMAIN journal
      BY <1>7, <1>14, <2>1 DEF LedgerInv, PaidOnceForItsShares
    <2>2. ASSUME NEW a \in DOMAIN journal, NEW b \in DOMAIN journal' \ DOMAIN journal,
                 journal'[a].type = "SETTLE", journal'[a].intent = journal'[b].intent
          PROVE  FALSE
      <3>1. b - last_row \in DOMAIN ks /\ journal'[b] = rows[b - last_row]  BY <1>7
      <3>2. ks[b - last_row] \in Held(journal)
            /\ journal'[b].intent = journal[ks[b - last_row]].intent
        BY <1>3, <3>1
      <3>3. IsSettled(journal, journal'[b].intent)
        BY <1>7, <2>2 DEF IsSettled
      <3> QED BY <3>2, <3>3 DEF Held
    <2>3. CASE k \notin DOMAIN journal /\ n \notin DOMAIN journal
      <3>1. /\ k - last_row \in DOMAIN ks /\ n - last_row \in DOMAIN ks
            /\ journal'[k] = rows[k - last_row] /\ journal'[n] = rows[n - last_row]
        BY <1>7, <2>3
      <3>2. /\ journal[ks[k - last_row]].intent = journal[ks[n - last_row]].intent
            /\ ks[k - last_row] \in Held(journal) /\ ks[n - last_row] \in Held(journal)
        BY <1>3, <1>14, <3>1
      <3>3. ks[k - last_row] = ks[n - last_row]
        BY <1>0, <3>2 DEF OneResult, Held
      <3>4. k - last_row = n - last_row
        BY <1>5, <3>1, <3>3
      <3> QED BY <1>7, <3>4
    <2> QED BY <1>14, <2>1, <2>2, <2>3
  <1>15. PaidOnceForItsShares'
    BY <1>13, <1>14 DEF PaidOnceForItsShares
  <1> QED BY <1>10, <1>11, <1>12, <1>15 DEF LedgerInv

LEMMA LedgerNext ==
    ASSUME IndInv, LedgerInv, [Next]_vars
    PROVE  LedgerInv'
  BY Kinds, DedupeKeeps, IntentAdds, SettlementPays, PlainKeeps, ResultAdds DEF LedgerInv

(* What the journal says of an intent holds together at all times.         *)
THEOREM LedgerInvariant == Spec => []LedgerInv
  <1>1. Init => LedgerInv
    BY DEF Init, LedgerInv, CurInJournal, Managing, IntentsUnique, ResultsFollow,
           PaidOnceForItsShares, RowsFree, OneLiveIntentPerToken, InFlight, Held
  <1>2. IndInv /\ LedgerInv /\ [Next]_vars => LedgerInv'
    BY LedgerNext
  <1> QED BY <1>1, <1>2, AlwaysInv, PTL DEF Spec

(* record_settlement is "idempotent-safe": shares are paid once, only after *)
(* their RESULT, and exactly as many as it says, however ticks, crashes and *)
(* reconciliations alternate.                                               *)
THEOREM PaidOnceForItsSharesHolds == Spec => []PaidOnceForItsShares
  <1>1. LedgerInv => PaidOnceForItsShares  BY DEF LedgerInv
  <1> QED BY <1>1, LedgerInvariant, PTL

(* The dedupe: a profile never has two intents on one token that are in    *)
(* flight or hold shares, although it is asked per event, before the rows  *)
(* are worked, and never again before an intent is recorded.               *)
THEOREM OneLiveIntentPerTokenHolds == Spec => []OneLiveIntentPerToken
  <1>1. LedgerInv => OneLiveIntentPerToken  BY DEF LedgerInv
  <1> QED BY <1>1, LedgerInvariant, PTL
===============================================================================
