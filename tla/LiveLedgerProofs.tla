--------------------------- MODULE LiveLedgerProofs ---------------------------
(***************************************************************************)
(* The ledger of the live node, against the exchange and against its own   *)
(* limits: proved, for every set of profiles, events and tokens, every     *)
(* bound and limit, any crashes, failed calls, lost answers and late fills,*)
(* that the journal claims no share the exchange did not fill, that an     *)
(* order which got more than its RESULT says, or still may, is one the     *)
(* RESULT leaves open, that the node implements the lifecycle of an intent,*)
(* that the exposure limits hold for the ledger up to the slippage of one  *)
(* order, and that a day can cost no more than its loss limit and one full *)
(* book.                                                                   *)
(***************************************************************************)
EXTENDS LiveNodeProofs, SumProofs, WellFoundedInduction

-----------------------------------------------------------------------------
(* What a snapshot of an order is worth, given the exchange's orders x. The*)
(* exchange is a parameter so that a snapshot taken before a step can be   *)
(* judged after it.                                                        *)

RestsIn(x, o) == x[o].status \in {"LIVE", "UNKNOWN"}

\* What st claims was filled for intent i is on an order of that intent.
Backed(st, i, l, x) ==
    st.filled > 0 => \E o \in DOMAIN x : /\ x[o].intent = i
                                         /\ x[o].leg = l
                                         /\ st.filled <= x[o].filled

\* Unless st leaves it open, it accounts for all the order got or will get.
Judged(st, i, x) ==
    ~Unsettled(st) => \A o \in DOMAIN x : x[o].intent = i =>
        x[o].filled <= st.filled /\ ~RestsIn(x, o)

Sound(st, i, l, x) == Backed(st, i, l, x) /\ Judged(st, i, x)

Owned(id, i, l, x) == id # EmptyId => id \in DOMAIN x /\ x[id].intent = i /\ x[id].leg = l

RowSound(r, x) ==
    /\ r.type = "RESULT" => Sound(r, r.intent, r.leg, x)
    /\ r.type = "ORDER" => Owned(r.id, r.intent, r.leg, x)

RowsSound == \A k \in DOMAIN journal : RowSound(journal[k], exch)

AckSound ==
    pc \in {"ack", "poll", "cancel", "final"} =>
        /\ Owned(ack.id, cur.intent, cur.leg, exch)
        /\ ack.state \in TERMINAL_STATES => Sound(ack, cur.intent, cur.leg, exch)

ResultSound == pc = "result" => Sound(result, cur.intent, cur.leg, exch)

Concluded(x, o) ==
    normalize_clob_status(x[o].status, x[o].filled, Shares) \in TERMINAL_STATES

ListingSound ==
    pc \in {"r_intents", "r_next", "r_write"} =>
        \A o \in DOMAIN exch \ rec.open : Concluded(exch, o)

FoundSound ==
    pc = "r_write" =>
        /\ rec.found.filled = 0
        /\ \A i \in rec.todo : (\A k \in rec.todo : i <= k) => Judged(rec.found, i, exch)

AgreeInv == RowsSound /\ AckSound /\ ResultSound /\ ListingSound /\ FoundSound

-----------------------------------------------------------------------------
(* Time on the exchange.                                                   *)

\* Orders keep their intent and token, fills only grow, and an order that no
\* longer rests stays as it is.
Moves(x, y) ==
    \A o \in DOMAIN x : /\ o \in DOMAIN y
                        /\ y[o].intent = x[o].intent /\ y[o].leg = x[o].leg
                        /\ x[o].filled <= y[o].filled
                        /\ ~RestsIn(x, o) => y[o] = x[o]
                        /\ Concluded(x, o) => Concluded(y, o)

LEMMA OrderType ==
    ASSUME NEW x \in Seq(ExchangeOrder), NEW o \in DOMAIN x
    PROVE  /\ x[o] \in ExchangeOrder /\ x[o].filled \in Nat /\ x[o].filled <= Shares
           /\ x[o].status \in RAW_STATUSES
  <1>1. x[o] \in ExchangeOrder  OBVIOUS
  <1>2. x[o].filled \in 0..Shares /\ x[o].status \in RAW_STATUSES
    BY <1>1 DEF ExchangeOrder
  <1> QED BY <1>1, <1>2, SharesAssumption

LEMMA SoundStays ==
    ASSUME NEW x \in Seq(ExchangeOrder), NEW y \in Seq(ExchangeOrder), Moves(x, y),
           NEW st, st.filled \in Nat, NEW i, NEW l, Sound(st, i, l, x),
           \A o \in DOMAIN y \ DOMAIN x : y[o].intent # i
    PROVE  Sound(st, i, l, y)
  <1>1. \A o \in DOMAIN x : x[o].filled \in Nat
    BY OrderType
  <1>2. \A o \in DOMAIN y : y[o].filled \in Nat
    BY OrderType
  <1>3. Backed(st, i, l, y)
    BY <1>1, <1>2 DEF Sound, Backed, Moves
  <1>4. Judged(st, i, y)
    BY <1>1, <1>2 DEF Sound, Judged, Moves, RestsIn
  <1> QED BY <1>3, <1>4 DEF Sound

LEMMA OwnedStays ==
    ASSUME NEW x, NEW y, Moves(x, y), NEW id, NEW i, NEW l, Owned(id, i, l, x)
    PROVE  Owned(id, i, l, y)
  BY DEF Owned, Moves

LEMMA SameMoves ==
    ASSUME exch \in Seq(ExchangeOrder)
    PROVE  Moves(exch, exch)
  <1>1. \A o \in DOMAIN exch : exch[o].filled \in Nat
    BY OrderType
  <1> QED BY <1>1 DEF Moves

\* An order that stops resting or gets its last share is concluded.
LEMMA ConcludedBy ==
    ASSUME NEW x, NEW o,
           x[o].status \in {"MATCHED", "UNMATCHED", "CANCELED", "UNKNOWN"}
    PROVE  Concluded(x, o)
  BY DEF Concluded, normalize_clob_status, TERMINAL_STATES

LEMMA FillMoves ==
    ASSUME IndInv, NEW q \in DOMAIN exch, Fill(q)
    PROVE  Moves(exch, exch') /\ DOMAIN exch' = DOMAIN exch
  <1>0. exch \in Seq(ExchangeOrder)
    BY DEF IndInv, IInv, TypeOK
  <1>1. exch[q] \in ExchangeOrder /\ exch[q].filled \in Nat /\ RestsIn(exch, q)
    BY <1>0, OrderType DEF Fill, Resting, RestsIn
  <1> DEFINE st == IF exch[q].filled + 1 = Shares THEN "MATCHED" ELSE exch[q].status
  <1>2. exch' = [exch EXCEPT ![q].filled = exch[q].filled + 1, ![q].status = st]
    BY DEF Fill
  <1>3. st = "MATCHED" \/ st = exch[q].status
    OBVIOUS
  <1> HIDE DEF st
  <1>4. /\ DOMAIN exch' = DOMAIN exch
        /\ exch'[q] = [exch[q] EXCEPT !.filled = exch[q].filled + 1, !.status = st]
        /\ \A o \in DOMAIN exch : o # q => exch'[o] = exch[o]
    BY <1>2
  <1>5. /\ exch'[q].intent = exch[q].intent /\ exch'[q].leg = exch[q].leg
        /\ exch'[q].filled = exch[q].filled + 1 /\ exch'[q].status = st
    BY <1>1, <1>4 DEF ExchangeOrder
  <1>6. Concluded(exch, q) => Concluded(exch', q)
    <2>1. CASE exch'[q].status \in {"MATCHED", "UNKNOWN"}
      BY <2>1, ConcludedBy
    <2>2. CASE exch'[q].status = "LIVE"
      <3>1. exch[q].status = "LIVE"
        BY <1>3, <1>5, <2>2
      <3>2. Concluded(exch, q) => Shares > 0 /\ exch[q].filled >= Shares
        BY <3>1 DEF Concluded, normalize_clob_status, TERMINAL_STATES
      <3>3. exch[q].filled < Shares
        BY <1>1 DEF IndInv, RestingHasRoom, Resting, RestsIn
      <3> QED BY <1>1, <3>2, <3>3, SharesAssumption
    <2> QED BY <1>1, <1>3, <1>5, <2>1, <2>2 DEF RestsIn
  <1>7. ASSUME NEW o \in DOMAIN exch, o # q
        PROVE  /\ exch'[o] = exch[o] /\ exch[o].filled <= exch'[o].filled
               /\ Concluded(exch, o) => Concluded(exch', o)
    <2>1. exch[o].filled \in Nat
      BY <1>0, OrderType
    <2> QED BY <1>4, <1>7, <2>1 DEF Concluded
  <1>8. exch[q].filled <= exch'[q].filled
    BY <1>1, <1>5
  <1>9. \A o \in DOMAIN exch : o # q \/ o = q
    OBVIOUS
  <1> QED BY <1>1, <1>4, <1>5, <1>6, <1>7, <1>8, <1>9 DEF Moves

\* Some resting orders are cancelled, by the node or as their market closes.
LEMMA CancelMoves ==
    ASSUME exch \in Seq(ExchangeOrder), DOMAIN exch' = DOMAIN exch,
           \A o \in DOMAIN exch :
               \/ exch'[o] = exch[o]
               \/ RestsIn(exch, o) /\ exch'[o] = [exch[o] EXCEPT !.status = "CANCELED"]
    PROVE  Moves(exch, exch')
  <1> SUFFICES ASSUME NEW o \in DOMAIN exch
               PROVE  /\ exch'[o].intent = exch[o].intent /\ exch'[o].leg = exch[o].leg
                      /\ exch[o].filled <= exch'[o].filled
                      /\ ~RestsIn(exch, o) => exch'[o] = exch[o]
                      /\ Concluded(exch, o) => Concluded(exch', o)
    BY DEF Moves
  <1>1. exch[o] \in ExchangeOrder /\ exch[o].filled \in Nat
    BY OrderType
  <1>2. CASE exch'[o] = exch[o]
    BY <1>1, <1>2 DEF Concluded
  <1>3. CASE RestsIn(exch, o) /\ exch'[o] = [exch[o] EXCEPT !.status = "CANCELED"]
    <2>1. /\ exch'[o].intent = exch[o].intent /\ exch'[o].leg = exch[o].leg
          /\ exch'[o].filled = exch[o].filled /\ exch'[o].status = "CANCELED"
      BY <1>1, <1>3 DEF ExchangeOrder
    <2>2. Concluded(exch', o)
      BY <2>1, ConcludedBy
    <2>3. exch[o].filled <= exch'[o].filled
      BY <1>1, <2>1
    <2> QED BY <1>3, <2>1, <2>2, <2>3
  <1> QED BY <1>2, <1>3

\* An order enters.
LEMMA EntryMoves ==
    ASSUME exch \in Seq(ExchangeOrder), NEW new \in ExchangeOrder, exch' = Append(exch, new)
    PROVE  /\ Moves(exch, exch')
           /\ DOMAIN exch' = DOMAIN exch \cup {Len(exch) + 1}
           /\ exch'[Len(exch) + 1] = new /\ Len(exch) + 1 \in Nat \ {0}
           /\ Len(exch) + 1 \notin DOMAIN exch
  <1>1. /\ DOMAIN exch' = DOMAIN exch \cup {Len(exch) + 1}
        /\ exch'[Len(exch) + 1] = new /\ Len(exch) + 1 \in Nat \ {0}
        /\ Len(exch) + 1 \notin DOMAIN exch
        /\ \A o \in DOMAIN exch : exch'[o] = exch[o]
    OBVIOUS
  <1>2. \A o \in DOMAIN exch : exch[o].filled \in Nat
    BY OrderType
  <1>3. \A o \in DOMAIN exch : Concluded(exch, o) => Concluded(exch', o)
    BY <1>1 DEF Concluded
  <1> QED BY <1>1, <1>2, <1>3 DEF Moves

-----------------------------------------------------------------------------
(* Reading an order.                                                       *)

\* A final status of an order accounts for all of it: whatever still rests
\* normalizes to OPEN or to FAILED.
LEMMA ReadingSound ==
    ASSUME IndInv, NEW o \in DOMAIN exch, Concluded(exch, o)
    PROVE  Sound(order_status(o), exch[o].intent, exch[o].leg, exch)
  <1>0. /\ exch[o] \in ExchangeOrder /\ exch[o].filled \in Nat /\ exch[o].filled <= Shares
        /\ exch[o].status \in RAW_STATUSES
    BY OrderType DEF IndInv, IInv, TypeOK
  <1>1. order_status(o).filled = exch[o].filled
    BY DEF order_status
  <1>2. Backed(order_status(o), exch[o].intent, exch[o].leg, exch)
    BY <1>0, <1>1 DEF Backed
  <1>3. ASSUME ~Unsettled(order_status(o))
        PROVE  ~RestsIn(exch, o)
    <2>1. normalize_clob_status(exch[o].status, exch[o].filled, Shares)
              \in TERMINAL_STATES \ {"FAILED", "CANCELED"}
      BY <1>3 DEF Unsettled, order_status, Concluded
    <2>2. CASE exch[o].filled >= Shares
      BY <1>0, <2>2, SharesAssumption DEF IndInv, RestingHasRoom, Resting, RestsIn
    <2>3. CASE ~(exch[o].filled >= Shares)
      BY <2>1, <2>3 DEF normalize_clob_status, TERMINAL_STATES, RestsIn
    <2> QED BY <2>2, <2>3
  <1>4. \A q \in DOMAIN exch : exch[q].intent = exch[o].intent => q = o
    BY DEF IndInv, IInv, Consistent, WriteAhead
  <1>5. Judged(order_status(o), exch[o].intent, exch)
    BY <1>0, <1>1, <1>3, <1>4 DEF Judged
  <1> QED BY <1>2, <1>5 DEF Sound

\* A call that raised claims nothing and leaves everything open.
LEMMA FailedSound ==
    ASSUME NEW id, NEW i, NEW l, NEW x
    PROVE  Sound(Failed(id), i, l, x)
  BY DEF Sound, Backed, Judged, Unsettled, Failed

\* The answer to the placement: what it matched on entry is the order's.
LEMMA AckIsSound ==
    ASSUME NEW x \in Seq(ExchangeOrder), NEW o \in DOMAIN x,
           NEW raw \in PLACED_STATUSES, NEW n \in 0..Shares,
           (raw = "MATCHED") = (n = Shares), raw = "UNMATCHED" => n = 0,
           x[o].filled = n, x[o].status = raw,
           \A q \in DOMAIN x : x[q].intent = x[o].intent => q = o,
           Ack(o, raw, n).state \in TERMINAL_STATES
    PROVE  Sound(Ack(o, raw, n), x[o].intent, x[o].leg, x)
  <1>1. Ack(o, raw, n).filled = n /\ n \in Nat
    BY SharesAssumption DEF Ack
  <1>2. Backed(Ack(o, raw, n), x[o].intent, x[o].leg, x)
    BY <1>1 DEF Backed
  <1>3. ~Unsettled(Ack(o, raw, n)) => raw \in {"MATCHED", "UNMATCHED"}
    <2>1. normalize_clob_status(raw, 0, Shares) =
              CASE raw = "LIVE" -> "OPEN" [] raw = "MATCHED" -> "FILLED"
                [] raw = "UNMATCHED" -> "REJECTED" [] raw = "CANCELED" -> "CANCELED"
                [] OTHER -> "FAILED"
      BY SharesAssumption DEF normalize_clob_status
    <2>2. Ack(o, raw, n).state = normalize_clob_status(raw, 0, Shares)
      BY DEF Ack
    <2> QED BY <2>1, <2>2 DEF Unsettled, TERMINAL_STATES, PLACED_STATUSES, RAW_STATUSES
  <1>4. Judged(Ack(o, raw, n), x[o].intent, x)
    BY <1>1, <1>3 DEF Judged, RestsIn
  <1> QED BY <1>2, <1>4 DEF Sound

\* Only a refused placement has the empty id; it has no order.
LEMMA RefusalSound ==
    ASSUME NEW i, NEW l, NEW x, \A o \in DOMAIN x : x[o].intent # i
    PROVE  Sound(Refusal, i, l, x)
  BY DEF Sound, Backed, Judged, Refusal

\* The id the reconciliation looks up is the one of some ORDER row.
LEMMA LatestOrderRow ==
    ASSUME journal \in Seq(Row), NEW i, LatestOrderId(journal, i) # NoId
    PROVE  \E k \in DOMAIN journal : /\ journal[k].type = "ORDER" /\ journal[k].intent = i
                                     /\ journal[k].id = LatestOrderId(journal, i)
  <1> DEFINE acks == {k \in DOMAIN journal : journal[k].type = "ORDER" /\ journal[k].intent = i}
             below == {Len(journal) - k : k \in acks}
  <1>1. acks # {} /\ LatestOrderId(journal, i) = journal[Max(acks)].id
    BY DEF LatestOrderId
  <1>2. \A k \in acks : k \in Nat /\ Len(journal) - k \in Nat
    OBVIOUS
  <1>3. below \subseteq Nat /\ below # {}
    BY <1>1, <1>2
  <1>4. PICK x \in below : \A y \in below : ~(<<y, x>> \in OpToRel(<, Nat))
    BY <1>3, NatLessThanWellFounded, WFMin
  <1>5. \A y \in below : ~(y < x)
    BY <1>3, <1>4 DEF OpToRel
  <1>6. PICK m \in acks : x = Len(journal) - m
    OBVIOUS
  <1>7. ASSUME NEW k \in acks
        PROVE  m >= k
    <2>1. ~(Len(journal) - k < Len(journal) - m)
      BY <1>5, <1>6
    <2>2. Len(journal) \in Nat /\ k \in Nat /\ m \in Nat
      BY <1>2
    <2> HIDE DEF acks
    <2> QED BY <2>1, <2>2
  <1>8. Max(acks) \in acks
    BY <1>6, <1>7 DEF Max
  <1> QED BY <1>1, <1>8

-----------------------------------------------------------------------------
(* The rows of the journal.                                                *)

\* Rows stay sound while orders move and an order enters only for an intent
\* without a RESULT.
LEMMA RowsStay ==
    ASSUME IndInv, RowsSound, exch' \in Seq(ExchangeOrder), Moves(exch, exch'), Extended,
           \A o \in DOMAIN exch' \ DOMAIN exch : ~HasResult(journal, exch'[o].intent),
           \A k \in DOMAIN journal' \ DOMAIN journal : RowSound(journal'[k], exch')
    PROVE  RowsSound'
  <1>0. journal \in Seq(Row) /\ exch \in Seq(ExchangeOrder)
    BY DEF IndInv, IInv, TypeOK
  <1>1. ASSUME NEW k \in DOMAIN journal
        PROVE  RowSound(journal[k], exch')
    <2>0. journal[k] \in Row
      BY <1>0
    <2>1. journal[k].filled \in Nat
      BY <2>0 DEF Row
    <2>2. RowSound(journal[k], exch)
      BY DEF RowsSound
    <2>3. CASE journal[k].type = "RESULT"
      <3>1. \A o \in DOMAIN exch' \ DOMAIN exch : exch'[o].intent # journal[k].intent
        BY <2>3 DEF HasResult
      <3>2. Sound(journal[k], journal[k].intent, journal[k].leg, exch)
        BY <2>2, <2>3 DEF RowSound
      <3>3. Sound(journal[k], journal[k].intent, journal[k].leg, exch')
        BY <1>0, <2>1, <3>1, <3>2, SoundStays
      <3> QED BY <2>3, <3>3 DEF RowSound
    <2>4. CASE journal[k].type # "RESULT"
      BY <2>2, <2>4, OwnedStays DEF RowSound
    <2> QED BY <2>3, <2>4
  <1>2. \A k \in DOMAIN journal' : RowSound(journal'[k], exch')
    BY <1>1 DEF Extended
  <1> QED BY <1>2 DEF RowsSound

\* One row more, nothing else.
LEMMA RowAdded ==
    ASSUME IndInv, RowsSound, exch' = exch, NEW r \in Row, RowSound(r, exch),
           journal' = Append(journal, r) \/ journal' = journal
    PROVE  RowsSound'
  <1>0. journal \in Seq(Row) /\ exch \in Seq(ExchangeOrder)
    BY DEF IndInv, IInv, TypeOK
  <1>1. Extended /\ \A k \in DOMAIN journal' \ DOMAIN journal : journal'[k] = r
    <2>1. CASE journal' = journal
      BY <2>1 DEF Extended
    <2>2. CASE journal' = Append(journal, r)
      BY <1>0, <2>2, Appended
    <2> QED BY <2>1, <2>2
  <1> QED BY <1>0, <1>1, RowsStay, SameMoves

-----------------------------------------------------------------------------
(* Each part of the node keeps the agreement.                              *)

LEMMA SettlementRows ==
    ASSUME IndInv, NEW e \in Events, record_settlement(e)
    PROVE  Extended /\ \A k \in DOMAIN journal' \ DOMAIN journal : journal'[k].type = "SETTLE"
  <1>0. journal \in Seq(Row)
    BY DEF IndInv, IInv, TypeOK
  <1> DEFINE due == {k \in Held(journal) : journal[k].leg.event = e}
  <1>1. due \subseteq DOMAIN journal /\ Cardinality(due) \in Nat
    <2>1. due \subseteq DOMAIN journal  BY DEF Held
    <2> QED BY <1>0, <2>1, DueFinite
  <1>2. PICK ks \in [1..Cardinality(due) -> due] :
            journal' = journal \o [n \in DOMAIN ks |-> SettleRow(journal[ks[n]], winner[e])]
    BY DEF record_settlement, HeldInOrder
  <1> HIDE DEF due
  <1> DEFINE rows == [n \in DOMAIN ks |-> SettleRow(journal[ks[n]], winner[e])]
  <1>3. ASSUME NEW n \in DOMAIN ks
        PROVE  rows[n] \in Row /\ rows[n].type = "SETTLE"
    <2>1. journal[ks[n]] \in Row  BY <1>0, <1>1
    <2>2. SettleRow(journal[ks[n]], winner[e]) \in Row  BY <2>1, SettleRowType
    <2>3. SettleRow(journal[ks[n]], winner[e]).type = "SETTLE"
      BY <2>1 DEF SettleRow, Row
    <2> QED BY <2>2, <2>3
  <1>4. rows \in Seq(Row) /\ Len(rows) = Cardinality(due) /\ DOMAIN rows = DOMAIN ks
    BY <1>1, <1>3
  <1> HIDE DEF rows
  <1>5. journal' = journal \o rows
    BY <1>2 DEF rows
  <1>6. /\ DOMAIN journal \subseteq DOMAIN journal'
        /\ \A k \in DOMAIN journal : journal'[k] = journal[k]
        /\ \A k \in DOMAIN journal' \ DOMAIN journal :
              k - Len(journal) \in DOMAIN rows /\ journal'[k] = rows[k - Len(journal)]
    BY <1>0, <1>1, <1>4, <1>5
  <1> QED BY <1>3, <1>4, <1>6 DEF Extended

\* Where an order or an outcome is at hand.
Working == {"ack", "poll", "cancel", "final", "result", "r_intents", "r_next", "r_write"}

LEMMA IdleAgrees ==
    ASSUME pc' \notin Working, RowsSound'
    PROVE  AgreeInv'
  BY DEF AgreeInv, AckSound, ResultSound, ListingSound, FoundSound, Working

\* Start, the tick outside the order loop, a failed tick, a crash.
LEMMA TickAgrees ==
    ASSUME IndInv, AgreeInv, Start \/ (TickStep /\ ~ManageStep) \/ TickFails \/ Crash
    PROVE  AgreeInv'
  <1>0. journal \in Seq(Row) /\ exch \in Seq(ExchangeOrder) /\ RowsSound
    BY DEF IndInv, IInv, TypeOK, AgreeInv
  <1>1. exch' = exch /\ pc' \notin Working
    BY DEF Start, TickStep, BeginTick, SkipSettle, record_settlement, NextUnit, SettleDone,
           UnitsDone, DueDone, NextProfile, SkipRow, record_intent, StopTick, RowsDone,
           AfterTick, BeginReconcile, TickFails, Crash, Working, exchVars
  <1>2. Extended /\ \A k \in DOMAIN journal' \ DOMAIN journal :
                        journal'[k].type \in {"INTENT", "SETTLE"}
    <2>1. CASE \E e \in Events : record_settlement(e)
      BY <2>1, SettlementRows
    <2>2. ASSUME NEW r \in tick.rows, NEW s \in Stakes, record_intent(r, s)
          PROVE  Extended /\ \A k \in DOMAIN journal' \ DOMAIN journal :
                                 journal'[k].type \in {"INTENT", "SETTLE"}
      <3> DEFINE new == IntentRow(nextIntent, r[1], r[2], s)
      <3>1. r[1] \in Profiles /\ r[2] \in Legs /\ s \in Nat /\ nextIntent \in Nat
        BY StakesAssumption, SharesAssumption DEF IndInv, IInv, TypeOK, TickLocals
      <3>2. new \in Row /\ new.type = "INTENT"
        BY <3>1, IntentRowType DEF IntentRow
      <3>3. journal' = Append(journal, new)
        BY <2>2 DEF record_intent
      <3> HIDE DEF new
      <3> QED BY <1>0, <3>2, <3>3, Appended
    <2>3. CASE /\ ~(\E e \in Events : record_settlement(e))
               /\ ~(\E r \in tick.rows, s \in Stakes : record_intent(r, s))
      <3>1. journal' = journal
        BY <2>3 DEF Start, TickStep, BeginTick, SkipSettle, NextUnit, SettleDone, UnitsDone,
                    DueDone, NextProfile, SkipRow, StopTick, RowsDone, AfterTick, TickFails,
                    Crash
      <3> QED BY <3>1 DEF Extended
    <2> QED BY <2>1, <2>2, <2>3
  <1>3. RowsSound'
    <2>1. \A k \in DOMAIN journal' \ DOMAIN journal : RowSound(journal'[k], exch')
      BY <1>2 DEF RowSound
    <2> QED BY <1>0, <1>1, <1>2, <2>1, RowsStay, SameMoves
  <1> QED BY <1>1, <1>3, IdleAgrees

\* What the node holds stays true while the exchange moves on its own.
LEMMA WorldAgrees ==
    ASSUME IndInv, AgreeInv, Environment \/ UNCHANGED vars
    PROVE  AgreeInv'
  <1>0. /\ journal \in Seq(Row) /\ exch \in Seq(ExchangeOrder)
        /\ ack.filled \in Nat /\ result.filled \in Nat /\ rec.found.filled \in Nat
    BY DEF IndInv, IInv, TypeOK, Snapshot, ReconcileLocals
  <1>1. Moves(exch, exch') /\ DOMAIN exch' = DOMAIN exch
    <2>1. ASSUME NEW o \in DOMAIN exch, ExchangeFills(o)
          PROVE  Moves(exch, exch') /\ DOMAIN exch' = DOMAIN exch
      BY <2>1, FillMoves DEF ExchangeFills
    <2>2. ASSUME NEW e \in Events, NEW b \in Buckets, MarketResolves(e, b)
          PROVE  Moves(exch, exch') /\ DOMAIN exch' = DOMAIN exch
      <3>1. exch' = [o \in DOMAIN exch |->
                        IF exch[o].leg.event = e /\ Resting(o)
                        THEN [exch[o] EXCEPT !.status = "CANCELED"] ELSE exch[o]]
        BY <2>2 DEF MarketResolves, Resolve
      <3>2. DOMAIN exch' = DOMAIN exch
            /\ \A o \in DOMAIN exch :
                   \/ exch'[o] = exch[o]
                   \/ RestsIn(exch, o) /\ exch'[o] = [exch[o] EXCEPT !.status = "CANCELED"]
        BY <3>1 DEF Resting, RestsIn
      <3> QED BY <1>0, <3>2, CancelMoves
    <2>3. CASE exch' = exch
      BY <1>0, <2>3, SameMoves
    <2> QED BY <2>1, <2>2, <2>3 DEF Environment, TimePasses, OperatorStop, exchVars, vars
  <1>2. exch' \in Seq(ExchangeOrder)
    <2>1. IndInv'  BY NextInv DEF Next
    <2> QED BY <2>1 DEF IndInv, IInv, TypeOK
  <1>3. journal' = journal /\ pc' = pc /\ cur' = cur /\ ack' = ack /\ result' = result /\ rec' = rec
    BY DEF Environment, TimePasses, OperatorStop, ExchangeFills, MarketResolves, untouched,
           orderVars, recVars, vars
  <1>4. ASSUME NEW st, st.filled \in Nat, NEW i, NEW l, Sound(st, i, l, exch)
        PROVE  Sound(st, i, l, exch')
    BY <1>0, <1>1, <1>2, <1>4, SoundStays
  <1>5. RowsSound'
    <2>1. Extended  BY <1>3 DEF Extended
    <2> QED BY <1>1, <1>2, <1>3, <2>1, RowsStay DEF AgreeInv
  <1>6. AckSound'
    BY <1>0, <1>1, <1>3, <1>4, OwnedStays DEF AgreeInv, AckSound
  <1>7. ResultSound'
    BY <1>0, <1>3, <1>4 DEF AgreeInv, ResultSound
  <1>8. ListingSound'
    BY <1>1, <1>3 DEF AgreeInv, ListingSound, Moves
  <1>9. FoundSound'
    <2>1. ASSUME NEW i, rec.found.filled = 0, Judged(rec.found, i, exch)
          PROVE  Judged(rec.found, i, exch')
      <3>1. Sound(rec.found, i, i, exch)
        BY <2>1 DEF Sound, Backed
      <3> QED BY <1>0, <1>4, <3>1 DEF Sound
    <2> QED BY <1>3, <2>1 DEF AgreeInv, FoundSound
  <1> QED BY <1>5, <1>6, <1>7, <1>8, <1>9 DEF AgreeInv

\* The outcome the reconciliation writes was read after it had listed the open
\* orders: an order that is not among them is final.
LEMMA ReconcileAgrees ==
    ASSUME IndInv, AgreeInv, ReconcileStep
    PROVE  AgreeInv'
  <1>0. /\ journal \in Seq(Row) /\ exch \in Seq(ExchangeOrder) /\ rec \in ReconcileLocals
        /\ TodoUnresolved /\ RowsSound
    BY DEF IndInv, IInv, TypeOK, Consistent, AgreeInv
  <1>1. exch' = exch
    BY DEF ReconcileStep, Reconcile, ListOpenOrders, ListUnresolved, StillOpen, ManualReview,
           ReadOutcome, AssumeNeverPlaced, ResolveStaleIntent, ComparePositions,
           ReconcileRaises, exchVars
  <1>2. AckSound' /\ ResultSound'
    BY DEF ReconcileStep, Reconcile, ListOpenOrders, ListUnresolved, StillOpen, ManualReview,
           ReadOutcome, AssumeNeverPlaced, ResolveStaleIntent, ComparePositions,
           ReconcileRaises, EndReconcile, Looking, AckSound, ResultSound
  <1>3. ASSUME journal' = journal
        PROVE  RowsSound'
    BY <1>0, <1>1, <1>3 DEF RowsSound
  <1>4. CASE ListOpenOrders
    <2>1. rec'.open = open_orders /\ pc' = "r_intents" /\ journal' = journal
      BY <1>0, <1>4 DEF ListOpenOrders, ReconcileLocals
    <2>2. \A o \in DOMAIN exch \ open_orders : Concluded(exch, o)
      BY DEF open_orders, order_status, Concluded
    <2>3. ListingSound' /\ FoundSound'
      BY <1>1, <2>1, <2>2 DEF ListingSound, FoundSound
    <2> QED BY <1>2, <1>3, <2>1, <2>3 DEF AgreeInv
  <1>5. ASSUME journal' = journal, rec'.open = rec.open, pc' = "r_next",
               pc \in {"r_intents", "r_next", "r_write"}
        PROVE  AgreeInv'
    <2>1. ListingSound' /\ FoundSound'
      BY <1>1, <1>5 DEF AgreeInv, ListingSound, FoundSound
    <2> QED BY <1>2, <1>3, <1>5, <2>1 DEF AgreeInv
  <1>6. CASE ListUnresolved
    <2>1. /\ journal' = journal /\ rec'.open = rec.open
          /\ pc' = "r_next" /\ pc = "r_intents"
      BY <1>0, <1>6 DEF ListUnresolved, ReconcileLocals
    <2> QED BY <1>5, <2>1
  <1>7. ASSUME NEW i \in rec.todo, StillOpen(i) \/ ManualReview(i)
        PROVE  AgreeInv'
    <2>1. /\ journal' = journal /\ rec'.open = rec.open
          /\ pc' = "r_next" /\ pc = "r_next"
      BY <1>0, <1>7 DEF StillOpen, ManualReview, Looking, ReconcileLocals
    <2> QED BY <1>5, <2>1
  <1>8. ASSUME NEW i \in rec.todo, NEW st, rec' = [rec EXCEPT !.found = st],
               pc' = "r_write", Looking(i), journal' = journal,
               st.filled = 0, Judged(st, i, exch)
        PROVE  AgreeInv'
    <2>1. /\ rec'.open = rec.open /\ rec'.todo = rec.todo /\ rec'.found = st
          /\ pc = "r_next"
      BY <1>0, <1>8 DEF ReconcileLocals, Looking
    <2>2. \A j \in rec.todo : (\A k \in rec.todo : j <= k) => j = i
      <3>1. \A j \in rec.todo : j \in Nat
        BY <1>0 DEF ReconcileLocals
      <3> QED BY <1>8, <3>1 DEF Looking
    <2>3. ListingSound'
      BY <1>1, <2>1 DEF AgreeInv, ListingSound
    <2>4. FoundSound'
      BY <1>1, <1>8, <2>1, <2>2 DEF FoundSound
    <2> QED BY <1>2, <1>3, <1>8, <2>3, <2>4 DEF AgreeInv
  <1>9. ASSUME NEW i \in rec.todo, ReadOutcome(i)
        PROVE  AgreeInv'
    <2> DEFINE id == LatestOrderId(journal, i)
               st == order_status(id)
    <2>1. /\ Looking(i) /\ id # NoId /\ id \notin rec.open /\ id \in DOMAIN exch
          /\ st.filled = 0 /\ rec' = [rec EXCEPT !.found = st] /\ pc' = "r_write"
          /\ journal' = journal
      BY <1>9 DEF ReadOutcome, Served
    <2>2. PICK k \in DOMAIN journal : /\ journal[k].type = "ORDER" /\ journal[k].intent = i
                                      /\ journal[k].id = id
      BY <1>0, <2>1, LatestOrderRow
    <2>3. id # EmptyId
      BY <1>0, <2>1 DEF EmptyId
    <2>4. exch[id].intent = i
      BY <1>0, <2>2, <2>3 DEF RowsSound, RowSound, Owned
    <2>5. Concluded(exch, id)
      BY <2>1 DEF AgreeInv, ListingSound, Looking
    <2>6. Judged(st, i, exch)
      BY <2>1, <2>4, <2>5, ReadingSound DEF Sound
    <2> HIDE DEF st, id
    <2> QED BY <1>8, <2>1, <2>6
  <1>10. ASSUME NEW i \in rec.todo, AssumeNeverPlaced(i)
         PROVE  AgreeInv'
    <2>1. Failed(NoId).filled = 0 /\ Judged(Failed(NoId), i, exch)
      BY FailedSound DEF Sound, Failed
    <2> QED BY <1>8, <1>10, <2>1 DEF AssumeNeverPlaced
  <1>11. ASSUME NEW i \in rec.todo, ResolveStaleIntent(i)
         PROVE  AgreeInv'
    <2> DEFINE k == CHOOSE n \in DOMAIN journal :
                        journal[n].type = "INTENT" /\ journal[n].intent = i
               r == ResultRow(journal[k], rec.found)
    <2>1. Intended(i)
      BY <1>0 DEF TodoUnresolved
    <2>2. k \in DOMAIN journal /\ journal[k].intent = i
      BY <2>1 DEF Intended
    <2>3. IntentOf(journal, i) = journal[k]  BY DEF IntentOf
    <2> HIDE DEF k
    <2>4. journal[k] \in Row /\ rec.found \in Snapshot
      BY <1>0, <2>2 DEF ReconcileLocals
    <2>5. rec.found.filled = 0 /\ Judged(rec.found, i, exch)
      BY <1>11 DEF AgreeInv, FoundSound, ResolveStaleIntent
    <2>6. /\ r \in Row /\ r.type = "RESULT" /\ r.intent = i
          /\ r.id = rec.found.id /\ r.state = rec.found.state /\ r.filled = rec.found.filled
      BY <2>2, <2>4, ResultRowType DEF ResultRow, Row
    <2>7. journal' = Append(journal, r)
      BY <1>11, <2>3 DEF ResolveStaleIntent
    <2> HIDE DEF r
    <2>8. RowSound(r, exch)
      BY <2>5, <2>6 DEF RowSound, Sound, Backed, Judged, Unsettled
    <2>9. RowsSound'
      BY <1>0, <1>1, <2>6, <2>7, <2>8, RowAdded
    <2>10. rec'.open = rec.open /\ pc' = "r_next" /\ pc = "r_write"
      BY <1>0, <1>11 DEF ResolveStaleIntent, ReconcileLocals
    <2>11. ListingSound' /\ FoundSound'
      BY <1>1, <2>10 DEF AgreeInv, ListingSound, FoundSound
    <2> QED BY <1>2, <2>9, <2>11 DEF AgreeInv
  <1>12. CASE ComparePositions \/ ReconcileRaises
    <2>1. pc' \notin Working /\ journal' = journal
      BY <1>12 DEF ComparePositions, ReconcileRaises, EndReconcile, Working
    <2> QED BY <1>3, <2>1, IdleAgrees
  <1> QED BY <1>4, <1>6, <1>7, <1>9, <1>10, <1>11, <1>12 DEF ReconcileStep, Reconcile

\* The order enters: its answer is kept, or lost with the exception.
LEMMA PlacementAgrees ==
    ASSUME IndInv, AgreeInv, ManageStep, PlaceRaises \/ PlaceRefused \/ PlaceAccepted
    PROVE  AgreeInv'
  <1>0. /\ journal \in Seq(Row) /\ exch \in Seq(ExchangeOrder) /\ RowsSound /\ pc = "place"
        /\ cur \in Row /\ ~HasResult(journal, cur.intent)
        /\ \A o \in DOMAIN exch : exch[o].intent # cur.intent
        /\ journal' = journal /\ cur' = cur
    BY CurIsOld DEF IndInv, IInv, TypeOK, AgreeInv, Consistent, FirstPlacement, Managing,
                    PlaceRaises, PlaceRefused, PlaceAccepted
  <1>1. Extended
    BY <1>0 DEF Extended
  <1>2. ASSUME exch' = exch
        PROVE  RowsSound'
    BY <1>0, <1>2 DEF RowsSound
  <1>3. ASSUME NEW raw \in PLACED_STATUSES, NEW n \in 0..Shares,
               Accept(cur.intent, cur.leg, raw, n)
        PROVE  /\ RowsSound'
               /\ Owned(Len(exch) + 1, cur.intent, cur.leg, exch')
               /\ Ack(Len(exch) + 1, raw, n).state \in TERMINAL_STATES =>
                      Sound(Ack(Len(exch) + 1, raw, n), cur.intent, cur.leg, exch')
    <2> DEFINE new == [intent |-> cur.intent, leg |-> cur.leg, filled |-> n, status |-> raw]
               z == Len(exch) + 1
    <2>1. /\ new \in ExchangeOrder /\ new.intent = cur.intent /\ new.leg = cur.leg
          /\ new.filled = n /\ new.status = raw
      BY <1>0 DEF ExchangeOrder, Row, PLACED_STATUSES
    <2>2. exch' = Append(exch, new) /\ (raw = "MATCHED") = (n = Shares)
          /\ (raw = "UNMATCHED" => n = 0)
      BY <1>3 DEF Accept
    <2> HIDE DEF new
    <2>3. /\ Moves(exch, exch') /\ DOMAIN exch' = DOMAIN exch \cup {z} /\ exch'[z] = new
          /\ exch' \in Seq(ExchangeOrder)
      BY <1>0, <2>1, <2>2, EntryMoves
    <2> HIDE DEF z
    <2>4. RowsSound'
      BY <1>0, <1>1, <2>1, <2>3, RowsStay
    <2>5. Owned(z, cur.intent, cur.leg, exch')
      BY <2>1, <2>3 DEF Owned
    <2>6. \A q \in DOMAIN exch' : exch'[q].intent = exch'[z].intent => q = z
      BY <1>0, <2>1, <2>3 DEF Moves
    <2>7. Ack(z, raw, n).state \in TERMINAL_STATES =>
              Sound(Ack(z, raw, n), cur.intent, cur.leg, exch')
      BY <2>1, <2>2, <2>3, <2>6, AckIsSound
    <2> QED BY <2>4, <2>5, <2>7 DEF z
  <1>4. ListingSound' /\ FoundSound'
    BY DEF PlaceRaises, PlaceRefused, PlaceAccepted, Finish, ListingSound, FoundSound
  <1>5. CASE PlaceRaises
    <2>1. RowsSound'
      BY <1>2, <1>3, <1>5 DEF PlaceRaises
    <2>2. pc' = "result" /\ result' = Failed(NoId)
      BY <1>5 DEF PlaceRaises, Finish
    <2>3. AckSound' /\ ResultSound'
      BY <2>2, FailedSound DEF AckSound, ResultSound
    <2> QED BY <1>4, <2>1, <2>3 DEF AgreeInv
  <1>6. CASE PlaceRefused
    <2>1. exch' = exch /\ pc' = "ack" /\ ack' = Refusal
      BY <1>6 DEF PlaceRefused, exchVars
    <2>2. Sound(Refusal, cur.intent, cur.leg, exch)
      BY <1>0, RefusalSound
    <2>3. AckSound' /\ ResultSound'
      BY <1>0, <2>1, <2>2 DEF AckSound, ResultSound, Owned, Refusal
    <2> QED BY <1>2, <1>4, <2>1, <2>3 DEF AgreeInv
  <1>7. CASE PlaceAccepted
    <2>1. PICK raw \in PLACED_STATUSES, n \in 0..Shares :
              Accept(cur.intent, cur.leg, raw, n) /\ ack' = Ack(Len(exch) + 1, raw, n)
      BY <1>7 DEF PlaceAccepted
    <2>2. pc' = "ack"
      BY <1>7 DEF PlaceAccepted
    <2>3. ack'.id = Len(exch) + 1
      BY <2>1 DEF Ack
    <2>4. RowsSound' /\ AckSound' /\ ResultSound'
      BY <1>0, <1>3, <2>1, <2>2, <2>3 DEF AckSound, ResultSound
    <2> QED BY <1>4, <2>4 DEF AgreeInv
  <1> QED BY <1>5, <1>6, <1>7

\* An ORDER row tells whose order it is.
LEMMA EmitAgrees ==
    ASSUME IndInv, AgreeInv, pc \in Managing, exch' = exch,
           NEW st \in Snapshot, Owned(st.id, cur.intent, cur.leg, exch), Emit(st)
    PROVE  RowsSound'
  <1>1. cur \in Row
    BY CurIsOld DEF IndInv, IInv
  <1> DEFINE r == OrderRow(cur, st)
  <1>2. /\ r \in Row /\ r.type = "ORDER" /\ r.id = st.id
        /\ r.intent = cur.intent /\ r.leg = cur.leg
    BY <1>1, OrderRowType DEF OrderRow, Row
  <1>3. journal' = Append(journal, r) \/ journal' = journal
    BY DEF Emit
  <1> HIDE DEF r
  <1>4. RowSound(r, exch)
    BY <1>2 DEF RowSound
  <1> QED BY <1>2, <1>3, <1>4, RowAdded DEF AgreeInv

\* The loop once the order is placed.
LEMMA LoopAgrees ==
    ASSUME IndInv, AgreeInv, ManageStep, ~PlaceRaises, ~PlaceRefused, ~PlaceAccepted
    PROVE  AgreeInv'
  <1>0. /\ journal \in Seq(Row) /\ exch \in Seq(ExchangeOrder) /\ RowsSound
        /\ ack \in Snapshot /\ result \in Snapshot
    BY DEF IndInv, IInv, TypeOK, AgreeInv
  <1>1. /\ pc \in {"ack", "poll", "cancel", "final", "result"}
        /\ pc' \in {"poll", "cancel", "final", "result", "rows"}
    BY DEF ManageStep, ManageOrder, JournalAck, PollRaises, PollAnswers, Cancel, FinalRaises,
           FinalAnswers, RecordResult, Finish
  <1>2. ListingSound' /\ FoundSound'
    BY <1>1 DEF ListingSound, FoundSound
  <1>3. pc \in Managing
    BY <1>1 DEF Managing
  <1>4. cur \in Row
    BY <1>3, CurIsOld DEF IndInv, IInv
  <1>5. pc # "result" => /\ Owned(ack.id, cur.intent, cur.leg, exch)
                         /\ ack.state \in TERMINAL_STATES =>
                                Sound(ack, cur.intent, cur.leg, exch)
    BY <1>1 DEF AgreeInv, AckSound
  <1>6. ASSUME exch' = exch, cur' = cur, ack' = ack, RowsSound', pc # "result", pc' # "rows",
               pc' = "result" => Sound(result', cur.intent, cur.leg, exch)
        PROVE  AgreeInv'
    BY <1>2, <1>5, <1>6 DEF AgreeInv, AckSound, ResultSound
  <1>7. ASSUME journal' = journal, exch' = exch
        PROVE  RowsSound'
    BY <1>0, <1>7 DEF RowsSound
  <1>8. CASE JournalAck
    <2>1. RowsSound'
      BY <1>0, <1>3, <1>5, <1>8, EmitAgrees DEF JournalAck, exchVars
    <2> QED BY <1>5, <1>6, <1>8, <2>1 DEF JournalAck, exchVars, Finish
  <1>9. CASE PollRaises \/ FinalRaises
    <2>1. \A id : Sound(Failed(id), cur.intent, cur.leg, exch)
      BY FailedSound
    <2> QED BY <1>5, <1>6, <1>7, <1>9, <2>1 DEF PollRaises, FinalRaises, exchVars, Finish
  <1>10. CASE PollAnswers \/ FinalAnswers
    <2> DEFINE st == order_status(ack.id)
    <2>1. ack.id \in DOMAIN exch /\ Emit(st) /\ exch' = exch /\ cur' = cur /\ ack' = ack
          /\ pc # "result" /\ pc' # "rows"
      BY <1>10 DEF PollAnswers, FinalAnswers, Served, exchVars, Finish
    <2>2. st \in Snapshot /\ st.id = ack.id
      BY <1>0, <2>1, OrderStatusType
    <2>3. ack.id # EmptyId /\ exch[ack.id].intent = cur.intent /\ exch[ack.id].leg = cur.leg
      BY <1>0, <1>5, <2>1 DEF Owned, EmptyId
    <2>4. st.state \in TERMINAL_STATES => Sound(st, cur.intent, cur.leg, exch)
      BY <2>1, <2>3, ReadingSound DEF order_status, Concluded
    <2>5. Sound([st EXCEPT !.state = "CANCELED"], cur.intent, cur.leg, exch)
      <3> DEFINE cd == [st EXCEPT !.state = "CANCELED"]
      <3>1. cd.state = "CANCELED" /\ cd.filled = exch[ack.id].filled
        BY <1>0, <2>1, <2>2, OrderStatusType DEF Snapshot
      <3>2. exch[ack.id].filled \in Nat
        BY <1>0, <2>1, OrderType
      <3> HIDE DEF cd
      <3> QED BY <2>1, <2>3, <3>1, <3>2 DEF Sound, Backed, Judged, Unsettled, cd
    <2>6. pc' = "result" => \/ result' = st /\ st.state \in TERMINAL_STATES
                            \/ result' = [st EXCEPT !.state = "CANCELED"]
      BY <1>10 DEF PollAnswers, FinalAnswers, Finish
    <2> HIDE DEF st
    <2>7. RowsSound'
      BY <1>3, <1>5, <2>1, <2>2, EmitAgrees
    <2> QED BY <1>6, <2>1, <2>4, <2>5, <2>6, <2>7
  <1>11. CASE Cancel
    <2>1. /\ journal' = journal /\ cur' = cur /\ ack' = ack /\ result' = result
          /\ pc = "cancel" /\ pc' = "final"
      BY <1>11 DEF Cancel, orderVars
    <2>2. Moves(exch, exch') /\ DOMAIN exch' = DOMAIN exch
      <3>1. CASE exch' = exch
        BY <1>0, <3>1, SameMoves
      <3>2. CASE Resting(ack.id) /\ CancelOnBook(ack.id)
        <4>1. DOMAIN exch' = DOMAIN exch
              /\ \A o \in DOMAIN exch :
                     \/ exch'[o] = exch[o]
                     \/ RestsIn(exch, o) /\ exch'[o] = [exch[o] EXCEPT !.status = "CANCELED"]
          BY <3>2 DEF CancelOnBook, Resting, RestsIn
        <4> QED BY <1>0, <4>1, CancelMoves
      <3> QED BY <1>11, <3>1, <3>2 DEF Cancel
    <2>3. exch' \in Seq(ExchangeOrder)
      <3>1. [Next]_vars
        BY DEF Next, TickStep
      <3>2. IndInv'
        BY <3>1, NextInv
      <3> QED BY <3>2 DEF IndInv, IInv, TypeOK
    <2>4. RowsSound'
      <3>1. Extended  BY <2>1 DEF Extended
      <3> QED BY <1>0, <2>1, <2>2, <2>3, <3>1, RowsStay
    <2>5. Owned(ack.id, cur.intent, cur.leg, exch')
      BY <1>5, <2>1, <2>2, OwnedStays
    <2>6. ack.state \in TERMINAL_STATES => Sound(ack, cur.intent, cur.leg, exch')
      <3>1. ack.filled \in Nat
        BY <1>0 DEF Snapshot
      <3> QED BY <1>0, <1>5, <2>1, <2>2, <2>3, <3>1, SoundStays
    <2>7. AckSound' /\ ResultSound'
      BY <2>1, <2>5, <2>6 DEF AckSound, ResultSound
    <2> QED BY <1>2, <2>4, <2>7 DEF AgreeInv
  <1>12. CASE RecordResult
    <2> DEFINE r == ResultRow(cur, result)
    <2>1. /\ r \in Row /\ r.type = "RESULT" /\ r.intent = cur.intent /\ r.leg = cur.leg
          /\ r.id = result.id /\ r.state = result.state /\ r.filled = result.filled
      BY <1>0, <1>4, ResultRowType DEF ResultRow, Row
    <2>2. Sound(result, cur.intent, cur.leg, exch)
      BY <1>12 DEF AgreeInv, ResultSound, RecordResult
    <2>3. journal' = Append(journal, r) /\ exch' = exch /\ pc' = "rows"
      BY <1>12 DEF RecordResult, exchVars
    <2> HIDE DEF r
    <2>4. RowSound(r, exch)
      BY <2>1, <2>2 DEF RowSound, Sound, Backed, Judged, Unsettled
    <2>5. RowsSound'
      BY <1>0, <2>1, <2>3, <2>4, RowAdded
    <2> QED BY <2>3, <2>5, IdleAgrees DEF Working
  <1> QED BY <1>8, <1>9, <1>10, <1>11, <1>12 DEF ManageStep, ManageOrder

-----------------------------------------------------------------------------
(* The theorems.                                                           *)

LEMMA AgreeNext ==
    ASSUME IndInv, AgreeInv, [Next]_vars
    PROVE  AgreeInv'
  BY TickAgrees, WorldAgrees, ReconcileAgrees, PlacementAgrees, LoopAgrees DEF Next

LEMMA AgreeImplies ==
    ASSUME TypeOK, AgreeInv
    PROVE  LedgerAgreesWithExchange
  <1>0. journal \in Seq(Row) /\ exch \in Seq(ExchangeOrder)
    BY DEF TypeOK
  <1>1. LedgerNeverOverstates
    BY DEF AgreeInv, RowsSound, RowSound, Sound, Backed, LedgerNeverOverstates
  <1>2. ASSUME NEW o \in DOMAIN exch, NEW k \in DOMAIN journal,
               journal[k].type = "RESULT", journal[k].intent = exch[o].intent,
               journal[k].filled < exch[o].filled \/ Resting(o)
        PROVE  Unsettled(journal[k])
    <2>1. Judged(journal[k], journal[k].intent, exch)
      BY <1>2 DEF AgreeInv, RowsSound, RowSound, Sound
    <2>2. journal[k] \in Row
      BY <1>0
    <2>3. journal[k].filled \in Nat /\ exch[o].filled \in Nat
      BY <1>0, <2>2, OrderType DEF Row
    <2> QED BY <1>2, <2>1, <2>3 DEF Judged, Resting, RestsIn
  <1> QED BY <1>1, <1>2 DEF LedgerAgreesWithExchange, MisjudgedOnlyAsListed

(* Rows, locals and orders agree in every reachable state.                 *)
THEOREM AgreeInvariant == Spec => []AgreeInv
  <1>1. Init => AgreeInv
    BY DEF Init, AgreeInv, RowsSound, AckSound, ResultSound, ListingSound, FoundSound
  <1>2. IndInv /\ AgreeInv /\ [Next]_vars => AgreeInv'
    BY AgreeNext
  <1> QED BY <1>1, <1>2, AlwaysInv, PTL DEF Spec

(* The ledger never claims shares the exchange did not fill, and what it    *)
(* books FILLED or REJECTED is all the order ever gets: lost answers,       *)
(* ignored cancels, fills after the last read and crashes anywhere in       *)
(* between show in a RESULT that leaves the order open (orders.py:37, :89,  *)
(* :126; reconcile.py:50).                                                  *)
THEOREM LedgerAgreesWithExchangeHolds == Spec => []LedgerAgreesWithExchange
  <1>1. IndInv /\ AgreeInv => LedgerAgreesWithExchange
    BY AgreeImplies DEF IndInv, IInv
  <1> QED BY <1>1, AlwaysInv, AgreeInvariant, PTL

-----------------------------------------------------------------------------
(* The journal invariant as a refinement: for every value of the constants,*)
(* each step of the node, of a crash, of the reconciliation, the exchange  *)
(* and the operator is a step of the lifecycle of one intent, a payment of *)
(* several, or leaves all of them as they are.                             *)

(* Intents are numbered from one up to the bound.                          *)

IntentsInRange ==
    /\ nextIntent \in 1..(MaxIntents + 1)
    /\ \A k \in DOMAIN journal :
           journal[k].type = "INTENT" => journal[k].intent \in 1..MaxIntents

LifeInv == IndInv /\ LedgerInv /\ AgreeInv /\ IntentsInRange

LEMMA RangeNext ==
    ASSUME IndInv, LedgerInv, IntentsInRange, [Next]_vars
    PROVE  IntentsInRange'
  <1>0. journal \in Seq(Row) /\ MaxIntents \in Nat
    BY BoundsAssumption DEF IndInv, IInv, TypeOK
  <1>1. ASSUME nextIntent' = nextIntent, Extended,
               \A k \in DOMAIN journal' \ DOMAIN journal : journal'[k].type # "INTENT"
        PROVE  IntentsInRange'
    BY <1>1 DEF IntentsInRange, Extended
  <1>2. ASSUME NEW r \in tick.rows, NEW s \in Stakes, record_intent(r, s)
        PROVE  IntentsInRange'
    <2> DEFINE new == IntentRow(nextIntent, r[1], r[2], s)
    <2>1. /\ r[1] \in Profiles /\ r[2] \in Legs /\ s \in Nat /\ nextIntent \in Nat
      BY StakesAssumption, SharesAssumption DEF IndInv, IInv, TypeOK, TickLocals
    <2>2. new \in Row /\ new.intent = nextIntent
      BY <2>1, IntentRowType DEF IntentRow
    <2>3. /\ journal' = Append(journal, new) /\ nextIntent' = nextIntent + 1
          /\ nextIntent <= MaxIntents
      BY <1>2 DEF record_intent
    <2> HIDE DEF new
    <2>4. /\ Extended /\ journal'[Len(journal) + 1] = new
          /\ DOMAIN journal' = DOMAIN journal \cup {Len(journal) + 1}
      BY <1>0, <2>2, <2>3, Appended
    <2>5. nextIntent' \in 1..(MaxIntents + 1) /\ nextIntent \in 1..MaxIntents
      BY <1>0, <2>3 DEF IntentsInRange
    <2> QED BY <2>2, <2>4, <2>5 DEF IntentsInRange, Extended
  <1>3. CASE ~(\E r \in tick.rows, s \in Stakes : record_intent(r, s))
    <2>1. nextIntent' = nextIntent
      BY <1>3 DEF Next, Start, ReconcileStep, TickStep, BeginTick, SkipSettle,
                  record_settlement, NextUnit, SettleDone, UnitsDone, DueDone, NextProfile,
                  SkipRow, StopTick, RowsDone, AfterTick, ManageStep, TickFails, Crash,
                  Environment, TimePasses, OperatorStop, ExchangeFills, MarketResolves,
                  untouched, Elsewhere, nodeVars, vars
    <2>2. Extended /\ \A k \in DOMAIN journal' \ DOMAIN journal : journal'[k].type # "INTENT"
      <3>1. CASE journal' = journal
        BY <3>1 DEF Extended
      <3>2. ASSUME NEW r \in Row, r.type # "INTENT", journal' = Append(journal, r)
            PROVE  Extended /\ \A k \in DOMAIN journal' \ DOMAIN journal :
                                   journal'[k].type # "INTENT"
        BY <1>0, <3>2, Appended
      <3>3. CASE AddsOrder \/ AddsResult
        BY <3>2, <3>3 DEF AddsOrder, AddsResult, Closes
      <3>4. CASE \E e \in Events : record_settlement(e)
        BY <3>4, SettlementRows
      <3>5. CASE \E p \in Profiles : NextProfile(p)
        BY <3>1, <3>5 DEF NextProfile
      <3> QED BY <1>3, <3>1, <3>3, <3>4, <3>5, Kinds DEF LedgerInv, AddsNothing
    <2> QED BY <1>1, <2>1, <2>2
  <1> QED BY <1>2, <1>3

(* The invariants of the live node's proofs, together.                     *)
THEOREM LifeInvariant == Spec => []LifeInv
  <1>1. Init => IntentsInRange
    BY BoundsAssumption DEF Init, IntentsInRange
  <1>2. IndInv /\ LedgerInv /\ IntentsInRange /\ [Next]_vars => IntentsInRange'
    BY RangeNext
  <1> QED
    BY <1>1, <1>2, AlwaysInv, LedgerInvariant, AgreeInvariant, PTL DEF Spec, LifeInv

-----------------------------------------------------------------------------
(* What a step does to the exchange's orders and to the journal; never both*)
(* at once.                                                                *)

SameOrders ==
    /\ DOMAIN exch' = DOMAIN exch
    /\ \A o \in DOMAIN exch : /\ exch'[o].intent = exch[o].intent
                              /\ exch'[o].filled = exch[o].filled

Places ==
    /\ pc = "place"
    /\ \E raw \in PLACED_STATUSES, n \in 0..Shares : Accept(cur.intent, cur.leg, raw, n)

LEMMA ExchangeKinds ==
    ASSUME IndInv, [Next]_vars
    PROVE  SameOrders \/ Places \/ \E o \in DOMAIN exch : Fill(o)
  <1>0. exch \in Seq(ExchangeOrder)
    BY DEF IndInv, IInv, TypeOK
  <1>1. CASE exch' = exch
    BY <1>1 DEF SameOrders
  <1>2. ASSUME DOMAIN exch' = DOMAIN exch,
               \A o \in DOMAIN exch :
                   exch'[o] = exch[o] \/ exch'[o] = [exch[o] EXCEPT !.status = "CANCELED"]
        PROVE  SameOrders
    <2>1. ASSUME NEW o \in DOMAIN exch
          PROVE  exch'[o].intent = exch[o].intent /\ exch'[o].filled = exch[o].filled
      <3>1. exch[o] \in ExchangeOrder
        BY <1>0, OrderType
      <3> QED BY <1>2, <3>1 DEF ExchangeOrder
    <2> QED BY <1>2, <2>1 DEF SameOrders
  <1>3. CASE ManageStep
    <2>1. CASE PlaceRaises \/ PlaceAccepted
      BY <1>1, <2>1 DEF PlaceRaises, PlaceAccepted, Places
    <2>2. CASE Cancel
      BY <1>1, <1>2, <2>2 DEF Cancel, CancelOnBook
    <2>3. CASE ~PlaceRaises /\ ~PlaceAccepted /\ ~Cancel
      BY <1>1, <1>3, <2>3 DEF ManageStep, ManageOrder, PlaceRefused, JournalAck, PollRaises,
                              PollAnswers, FinalRaises, FinalAnswers, RecordResult, exchVars
    <2> QED BY <2>1, <2>2, <2>3
  <1>4. ASSUME NEW e \in Events, NEW b \in Buckets, MarketResolves(e, b)
        PROVE  SameOrders
    BY <1>2, <1>4 DEF MarketResolves, Resolve
  <1>5. CASE /\ ~ManageStep
             /\ ~(\E e \in Events, b \in Buckets : MarketResolves(e, b))
             /\ ~(\E o \in DOMAIN exch : ExchangeFills(o))
    <2>1. exch' = exch
      BY <1>5 DEF Next, Start, ReconcileStep, Reconcile, ListOpenOrders, ListUnresolved,
                  StillOpen, ManualReview, ReadOutcome, AssumeNeverPlaced, ResolveStaleIntent,
                  ComparePositions, ReconcileRaises, TickStep, BeginTick, SkipSettle,
                  record_settlement, NextUnit, SettleDone, UnitsDone, DueDone, NextProfile,
                  SkipRow, record_intent, StopTick, RowsDone, AfterTick, TickFails, Crash,
                  Environment, TimePasses, OperatorStop, exchVars, vars
    <2> QED BY <1>1, <2>1
  <1> QED BY <1>3, <1>4, <1>5 DEF ExchangeFills

LEMMA OneAtATime ==
    ASSUME [Next]_vars
    PROVE  exch' = exch \/ journal' = journal
  BY DEF Next, Start, ReconcileStep, Reconcile, ListOpenOrders, ListUnresolved, StillOpen,
         ManualReview, ReadOutcome, AssumeNeverPlaced, ResolveStaleIntent, ComparePositions,
         ReconcileRaises, TickStep, BeginTick, SkipSettle, record_settlement, NextUnit,
         SettleDone, UnitsDone, DueDone, NextProfile, SkipRow, record_intent, StopTick,
         RowsDone, AfterTick, TickFails, Crash, Environment, TimePasses, OperatorStop,
         ExchangeFills, MarketResolves, ManageStep, ManageOrder, PlaceRaises, PlaceRefused,
         PlaceAccepted, JournalAck, PollRaises, PollAnswers, Cancel, FinalRaises,
         FinalAnswers, RecordResult, exchVars, untouched, vars

-----------------------------------------------------------------------------
(* The intents as the refinement mapping sees them, of a journal j and of  *)
(* the exchange's orders x.                                                *)

HasRow(j, type, i) == \E k \in DOMAIN j : j[k].type = type /\ j[k].intent = i

StageIn(j, i) ==
    IF HasRow(j, "SETTLE", i) THEN "paid"
    ELSE IF HasRow(j, "RESULT", i) THEN "booked"
    ELSE IF HasRow(j, "INTENT", i) THEN "intended" ELSE "none"

BookedIn(j, i) ==
    IF HasRow(j, "RESULT", i)
    THEN j[CHOOSE k \in DOMAIN j : j[k].type = "RESULT" /\ j[k].intent = i].filled
    ELSE 0

FilledIn(x, i) ==
    IF \E o \in DOMAIN x : x[o].intent = i
    THEN x[CHOOSE o \in DOMAIN x : x[o].intent = i].filled ELSE 0

stages(j) == [i \in 1..MaxIntents |-> StageIn(j, i)]
books(j) == [i \in 1..MaxIntents |-> BookedIn(j, i)]
fills(x) == [i \in 1..MaxIntents |-> FilledIn(x, i)]
sents(x) == {x[o].intent : o \in DOMAIN x}

LEMMA MapIs ==
    /\ [i \in 1..MaxIntents |-> StageOf(i)] = stages(journal)
    /\ [i \in 1..MaxIntents |-> BookedOf(i)] = books(journal)
    /\ [i \in 1..MaxIntents |-> FilledOf(i)] = fills(exch)
    /\ {exch[o].intent : o \in DOMAIN exch} = sents(exch)
    /\ [i \in 1..MaxIntents |-> StageOf(i)]' = stages(journal')
    /\ [i \in 1..MaxIntents |-> BookedOf(i)]' = books(journal')
    /\ [i \in 1..MaxIntents |-> FilledOf(i)]' = fills(exch')
    /\ {exch[o].intent : o \in DOMAIN exch}' = sents(exch')
  <1>1. /\ \A i : StageOf(i) = StageIn(journal, i)
        /\ \A i : BookedOf(i) = BookedIn(journal, i)
        /\ \A i : FilledOf(i) = FilledIn(exch, i)
    BY DEF StageOf, StageIn, BookedOf, BookedIn, FilledOf, FilledIn, Recorded, HasRow, HasResult
  <1>2. /\ \A i : StageOf(i)' = StageIn(journal', i)
        /\ \A i : BookedOf(i)' = BookedIn(journal', i)
        /\ \A i : FilledOf(i)' = FilledIn(exch', i)
    BY DEF StageOf, StageIn, BookedOf, BookedIn, FilledOf, FilledIn, Recorded, HasRow, HasResult
  <1> QED BY <1>1, <1>2 DEF stages, books, fills, sents

\* An order shows its intent's fills, a RESULT its booking: each is the only one.
LEMMA FilledIs ==
    ASSUME NEW x, NEW o \in DOMAIN x, NEW i, x[o].intent = i,
           \A q \in DOMAIN x : x[q].intent = i => q = o
    PROVE  FilledIn(x, i) = x[o].filled
  <1> DEFINE q == CHOOSE n \in DOMAIN x : x[n].intent = i
  <1>1. q \in DOMAIN x /\ x[q].intent = i
    OBVIOUS
  <1>2. FilledIn(x, i) = x[q].filled
    BY DEF FilledIn
  <1> HIDE DEF q
  <1> QED BY <1>1, <1>2

LEMMA BookedIs ==
    ASSUME NEW j, NEW k \in DOMAIN j, NEW i, j[k].type = "RESULT", j[k].intent = i,
           \A n \in DOMAIN j : j[n].type = "RESULT" /\ j[n].intent = i => n = k
    PROVE  BookedIn(j, i) = j[k].filled
  <1> DEFINE n == CHOOSE m \in DOMAIN j : j[m].type = "RESULT" /\ j[m].intent = i
  <1>1. n \in DOMAIN j /\ j[n].type = "RESULT" /\ j[n].intent = i
    OBVIOUS
  <1>2. BookedIn(j, i) = j[n].filled
    BY DEF BookedIn, HasRow
  <1> HIDE DEF n
  <1> QED BY <1>1, <1>2

\* Only a RESULT can be settled, so an intent without one is not.
LEMMA OpenNotPaid ==
    ASSUME LifeInv, NEW i, ~HasRow(journal, "RESULT", i)
    PROVE  ~HasRow(journal, "SETTLE", i)
  <1>1. ASSUME NEW k \in DOMAIN journal, journal[k].type = "SETTLE", journal[k].intent = i
        PROVE  FALSE
    <2>1. PICK n \in 1..(k - 1) : journal[n].type = "RESULT"
                                  /\ journal[n].intent = journal[k].intent
      BY <1>1 DEF LifeInv, LedgerInv, PaidOnceForItsShares
    <2>2. n \in DOMAIN journal
      BY <2>1 DEF LifeInv, IndInv, IInv, TypeOK
    <2> QED BY <1>1, <2>1, <2>2 DEF HasRow
  <1> QED BY <1>1 DEF HasRow

-----------------------------------------------------------------------------
(* Each kind of step of the exchange.                                      *)

LEMMA SameOrdersMap ==
    ASSUME IndInv, IndInv', SameOrders
    PROVE  fills(exch') = fills(exch) /\ sents(exch') = sents(exch)
  <1>0. WriteAhead /\ WriteAhead'
    BY DEF IndInv, IInv, Consistent
  <1>1. ASSUME NEW i
        PROVE  FilledIn(exch', i) = FilledIn(exch, i)
    <2>1. CASE \E o \in DOMAIN exch : exch[o].intent = i
      <3>1. PICK o \in DOMAIN exch : exch[o].intent = i
        BY <2>1
      <3>2. FilledIn(exch, i) = exch[o].filled
        BY <1>0, <3>1, FilledIs DEF WriteAhead
      <3>3. o \in DOMAIN exch' /\ exch'[o].intent = i /\ exch'[o].filled = exch[o].filled
        BY <3>1 DEF SameOrders
      <3>4. FilledIn(exch', i) = exch'[o].filled
        BY <1>0, <3>3, FilledIs DEF WriteAhead
      <3> QED BY <3>2, <3>3, <3>4
    <2>2. CASE ~(\E o \in DOMAIN exch : exch[o].intent = i)
      BY <2>2 DEF FilledIn, SameOrders
    <2> QED BY <2>1, <2>2
  <1> QED BY <1>1 DEF fills, sents, SameOrders

\* The other intents, when order q of the next exchange belongs to intent i.
LEMMA OtherFills ==
    ASSUME IndInv, IndInv', NEW i, NEW z,
           \A o \in DOMAIN exch' \ {z} : o \in DOMAIN exch /\ exch'[o] = exch[o],
           \A o \in DOMAIN exch \ {z} : o \in DOMAIN exch',
           z \in DOMAIN exch' => exch'[z].intent = i,
           z \in DOMAIN exch => exch[z].intent = i,
           NEW j, j # i
    PROVE  FilledIn(exch', j) = FilledIn(exch, j)
  <1>0. WriteAhead /\ WriteAhead'
    BY DEF IndInv, IInv, Consistent
  <1>1. CASE \E o \in DOMAIN exch : exch[o].intent = j
    <2>1. PICK o \in DOMAIN exch : exch[o].intent = j
      BY <1>1
    <2>2. o # z /\ o \in DOMAIN exch' /\ exch'[o] = exch[o]
      BY <2>1
    <2>3. FilledIn(exch, j) = exch[o].filled
      BY <1>0, <2>1, FilledIs DEF WriteAhead
    <2>4. FilledIn(exch', j) = exch'[o].filled
      BY <1>0, <2>1, <2>2, FilledIs DEF WriteAhead
    <2> QED BY <2>2, <2>3, <2>4
  <1>2. CASE ~(\E o \in DOMAIN exch : exch[o].intent = j)
    BY <1>2 DEF FilledIn
  <1> QED BY <1>1, <1>2

\* The intent of an order is one of the journal's.
LEMMA IntentOfOrder ==
    ASSUME LifeInv, NEW o \in DOMAIN exch
    PROVE  exch[o].intent \in 1..MaxIntents
  BY DEF LifeInv, IntentsInRange, IndInv, IInv, Consistent, WriteAhead

LEMMA FillIsFill ==
    ASSUME LifeInv, IndInv', NEW o \in DOMAIN exch, Fill(o), journal' = journal
    PROVE  Lifecycle!Fill(exch[o].intent)
  <1> DEFINE i == exch[o].intent
  <1>0. /\ exch \in Seq(ExchangeOrder) /\ IndInv /\ WriteAhead /\ WriteAhead'
        /\ i \in 1..MaxIntents
    BY IntentOfOrder DEF LifeInv, IndInv, IInv, TypeOK, Consistent
  <1>1. exch[o] \in ExchangeOrder /\ exch[o].filled \in Nat /\ exch[o].filled < Shares
    BY <1>0, OrderType DEF Fill, IndInv, RestingHasRoom
  <1> DEFINE st == IF exch[o].filled + 1 = Shares THEN "MATCHED" ELSE exch[o].status
  <1>2. exch' = [exch EXCEPT ![o].filled = exch[o].filled + 1, ![o].status = st]
    BY DEF Fill
  <1> HIDE DEF st
  <1>3. /\ DOMAIN exch' = DOMAIN exch
        /\ exch'[o] = [exch[o] EXCEPT !.filled = exch[o].filled + 1, !.status = st]
        /\ \A q \in DOMAIN exch : q # o => exch'[q] = exch[q]
    BY <1>2
  <1>4. exch'[o].intent = i /\ exch'[o].filled = exch[o].filled + 1
    BY <1>1, <1>3 DEF ExchangeOrder
  <1>5. FilledIn(exch, i) = exch[o].filled
    BY <1>0, FilledIs DEF WriteAhead
  <1>6. FilledIn(exch', i) = exch'[o].filled
    <2>1. o \in DOMAIN exch' /\ \A q \in DOMAIN exch' : exch'[q].intent = i => q = o
      BY <1>0, <1>3, <1>4 DEF WriteAhead
    <2> HIDE DEF i
    <2> QED BY <1>4, <2>1, FilledIs
  <1> HIDE DEF i
  <1>7. i = exch[o].intent  BY DEF i
  <1>8. \A j : j # i => FilledIn(exch', j) = FilledIn(exch, j)
    BY <1>0, <1>3, <1>4, <1>7, OtherFills
  <1>9. fills(exch') = [fills(exch) EXCEPT ![i] = fills(exch)[i] + 1]
    BY <1>0, <1>4, <1>5, <1>6, <1>8 DEF fills
  <1>10. sents(exch') = sents(exch) /\ i \in sents(exch)
    BY <1>3, <1>4, <1>7 DEF sents
  <1>11. fills(exch)[i] < Shares
    BY <1>0, <1>1, <1>5 DEF fills
  <1> QED BY <1>7, <1>9, <1>10, <1>11, MapIs DEF Lifecycle!Fill

LEMMA PlacementIsSend ==
    ASSUME LifeInv, IndInv', Places, journal' = journal
    PROVE  \E n \in 0..Shares : Lifecycle!Send(cur.intent, n) /\ cur.intent \in 1..MaxIntents
  <1> DEFINE i == cur.intent
  <1>0. /\ exch \in Seq(ExchangeOrder) /\ IndInv /\ WriteAhead' /\ cur \in Row
        /\ HasRow(journal, "INTENT", i) /\ ~HasRow(journal, "RESULT", i)
        /\ \A o \in DOMAIN exch : exch[o].intent # i
    BY DEF LifeInv, IndInv, IInv, TypeOK, Consistent, Places, FirstPlacement, CurUnresolved,
           Managing, HasResult, HasRow
  <1>1. ~HasRow(journal, "SETTLE", i)
    BY <1>0, OpenNotPaid
  <1>2. i \in 1..MaxIntents
    BY <1>0 DEF HasRow, LifeInv, IntentsInRange
  <1>3. stages(journal)[i] = "intended" /\ i \notin sents(exch)
    BY <1>0, <1>1, <1>2 DEF stages, StageIn, sents
  <1>4. PICK raw \in PLACED_STATUSES, n \in 0..Shares : Accept(cur.intent, cur.leg, raw, n)
    BY DEF Places
  <1> DEFINE new == [intent |-> cur.intent, leg |-> cur.leg, filled |-> n, status |-> raw]
             z == Len(exch) + 1
  <1>5. new \in ExchangeOrder /\ new.intent = i /\ new.filled = n /\ exch' = Append(exch, new)
    BY <1>0, <1>4 DEF Accept, ExchangeOrder, Row, PLACED_STATUSES
  <1> HIDE DEF new
  <1>6. /\ DOMAIN exch' = DOMAIN exch \cup {z} /\ exch'[z] = new /\ z \notin DOMAIN exch
        /\ \A o \in DOMAIN exch : exch'[o] = exch[o]
    BY <1>0, <1>5
  <1> HIDE DEF z, i
  <1>7. \A j : j # i => FilledIn(exch', j) = FilledIn(exch, j)
    BY <1>0, <1>5, <1>6, OtherFills
  <1>8. FilledIn(exch', i) = n
    <2>1. \A q \in DOMAIN exch' : exch'[q].intent = i => q = z
      BY <1>0, <1>5, <1>6
    <2>2. z \in DOMAIN exch' /\ exch'[z].intent = i /\ exch'[z].filled = n
      BY <1>5, <1>6
    <2> HIDE DEF i
    <2> QED BY <2>1, <2>2, FilledIs
  <1>9. fills(exch') = [fills(exch) EXCEPT ![i] = n]
    BY <1>2, <1>7, <1>8 DEF fills
  <1>10. sents(exch') = sents(exch) \cup {i}
    BY <1>5, <1>6 DEF sents
  <1>11. Lifecycle!Send(i, n)
    BY <1>3, <1>9, <1>10, MapIs DEF Lifecycle!Send
  <1> QED BY <1>2, <1>11 DEF i

-----------------------------------------------------------------------------
(* Each kind of step of the journal.                                       *)

\* What was booked stays booked.
LEMMA BookingsStay ==
    ASSUME IndInv, IndInv', Extended, NEW i,
           \A k \in DOMAIN journal' \ DOMAIN journal :
               journal'[k].type = "RESULT" => journal'[k].intent # i
    PROVE  /\ BookedIn(journal', i) = BookedIn(journal, i)
           /\ HasRow(journal', "RESULT", i) = HasRow(journal, "RESULT", i)
  <1>0. OneResult /\ OneResult'
    BY DEF IndInv, IInv, Consistent
  <1>1. HasRow(journal', "RESULT", i) = HasRow(journal, "RESULT", i)
    BY DEF HasRow, Extended
  <1>2. CASE HasRow(journal, "RESULT", i)
    <2>1. PICK k \in DOMAIN journal : journal[k].type = "RESULT" /\ journal[k].intent = i
      BY <1>2 DEF HasRow
    <2>2. BookedIn(journal, i) = journal[k].filled
      BY <1>0, <2>1, BookedIs DEF OneResult
    <2>3. k \in DOMAIN journal' /\ journal'[k] = journal[k]
      BY <2>1 DEF Extended
    <2>4. \A n \in DOMAIN journal' : journal'[n].type = "RESULT" /\ journal'[n].intent = i => n = k
      BY <1>0, <2>1, <2>3 DEF OneResult
    <2>5. BookedIn(journal', i) = journal'[k].filled
      BY <2>1, <2>3, <2>4, BookedIs
    <2> QED BY <1>1, <2>2, <2>3, <2>5
  <1>3. CASE ~HasRow(journal, "RESULT", i)
    BY <1>1, <1>3 DEF BookedIn
  <1> QED BY <1>2, <1>3

\* An intent none of the new rows is about.
LEMMA StageStays ==
    ASSUME Extended, NEW i,
           \A k \in DOMAIN journal' \ DOMAIN journal :
               journal'[k].type = "ORDER" \/ journal'[k].intent # i
    PROVE  StageIn(journal', i) = StageIn(journal, i)
  <1>1. \A type \in {"INTENT", "RESULT", "SETTLE"} :
            HasRow(journal', type, i) = HasRow(journal, type, i)
    BY DEF HasRow, Extended
  <1> QED BY <1>1 DEF StageIn

LEMMA OrderRowsMap ==
    ASSUME IndInv, IndInv', Extended,
           \A k \in DOMAIN journal' \ DOMAIN journal : journal'[k].type = "ORDER"
    PROVE  stages(journal') = stages(journal) /\ books(journal') = books(journal)
  <1>1. \A i : StageIn(journal', i) = StageIn(journal, i)
    BY StageStays
  <1>2. \A i : BookedIn(journal', i) = BookedIn(journal, i)
    BY BookingsStay
  <1> QED BY <1>1, <1>2 DEF stages, books

LEMMA IntentIsIntend ==
    ASSUME LifeInv, IndInv', exch' = exch,
           NEW r \in tick.rows, NEW s \in Stakes, record_intent(r, s)
    PROVE  nextIntent \in 1..MaxIntents /\ Lifecycle!Intend(nextIntent)
  <1>0. /\ journal \in Seq(Row) /\ IndInv /\ MaxIntents \in Nat /\ IdsFresh
        /\ r[1] \in Profiles /\ r[2] \in Legs /\ s \in Nat /\ nextIntent \in Nat
    BY StakesAssumption, SharesAssumption, BoundsAssumption
    DEF LifeInv, IndInv, IInv, TypeOK, TickLocals, Consistent
  <1> DEFINE new == IntentRow(nextIntent, r[1], r[2], s)
             z == Len(journal) + 1
  <1>1. new \in Row /\ new.intent = nextIntent /\ new.type = "INTENT"
    BY <1>0, IntentRowType DEF IntentRow
  <1>2. journal' = Append(journal, new) /\ nextIntent <= MaxIntents
    BY DEF record_intent
  <1> HIDE DEF new
  <1>3. /\ Extended /\ DOMAIN journal' = DOMAIN journal \cup {z} /\ journal'[z] = new
    BY <1>0, <1>1, <1>2, Appended
  <1> HIDE DEF z
  <1>4. nextIntent \in 1..MaxIntents
    BY <1>0, <1>2 DEF LifeInv, IntentsInRange
  <1>5. \A type : ~HasRow(journal, type, nextIntent)
    <2>1. \A k \in DOMAIN journal : journal[k] \in Row /\ journal[k].intent < nextIntent
      BY <1>0 DEF IdsFresh
    <2>2. \A k \in DOMAIN journal : journal[k].intent # nextIntent
      BY <1>0, <2>1 DEF Row
    <2> QED BY <2>2 DEF HasRow
  <1>6. /\ HasRow(journal', "INTENT", nextIntent)
        /\ ~HasRow(journal', "RESULT", nextIntent) /\ ~HasRow(journal', "SETTLE", nextIntent)
    BY <1>1, <1>3, <1>5 DEF HasRow, Extended
  <1>7. \A i : i # nextIntent => StageIn(journal', i) = StageIn(journal, i)
    BY <1>1, <1>3, StageStays
  <1>8. \A i : BookedIn(journal', i) = BookedIn(journal, i)
    BY <1>0, <1>1, <1>3, BookingsStay
  <1>9. stages(journal)[nextIntent] = "none"
    BY <1>4, <1>5 DEF stages, StageIn
  <1>10. stages(journal') = [stages(journal) EXCEPT ![nextIntent] = "intended"]
    BY <1>4, <1>6, <1>7 DEF stages, StageIn
  <1>11. books(journal') = books(journal)
    BY <1>8 DEF books
  <1> QED BY <1>4, <1>9, <1>10, <1>11, MapIs DEF Lifecycle!Intend

LEMMA ResultIsBook ==
    ASSUME LifeInv, LifeInv', exch' = exch, AddsResult
    PROVE  \E i \in 1..MaxIntents, n \in 0..Shares : Lifecycle!Book(i, n)
  <1>0. /\ journal \in Seq(Row) /\ exch \in Seq(ExchangeOrder) /\ IndInv /\ IndInv'
        /\ OneResult' /\ WriteAhead /\ RowsSound'
    BY DEF LifeInv, IndInv, IInv, TypeOK, Consistent, AgreeInv
  <1>1. PICK r \in Row, k \in InFlight(journal) :
            Closes(r, journal[k]) /\ journal' = Append(journal, r)
    BY DEF AddsResult
  <1> DEFINE i == r.intent
             z == Len(journal) + 1
  <1>2. /\ Extended /\ DOMAIN journal' = DOMAIN journal \cup {z} /\ journal'[z] = r
    BY <1>0, <1>1, Appended
  <1> HIDE DEF z
  <1>3. /\ k \in DOMAIN journal /\ journal[k].type = "INTENT" /\ journal[k].intent = i
        /\ ~HasRow(journal, "RESULT", i) /\ r.type = "RESULT"
    BY <1>1 DEF InFlight, Closes, HasResult, HasRow
  <1>4. i \in 1..MaxIntents
    BY <1>3 DEF LifeInv, IntentsInRange
  <1>5. HasRow(journal, "INTENT", i) /\ ~HasRow(journal, "SETTLE", i)
    BY <1>3, OpenNotPaid DEF HasRow
  <1>6. /\ HasRow(journal', "INTENT", i) /\ HasRow(journal', "RESULT", i)
        /\ ~HasRow(journal', "SETTLE", i)
    BY <1>2, <1>3, <1>5 DEF HasRow, Extended
  <1>7. \A j : j # i => StageIn(journal', j) = StageIn(journal, j)
    BY <1>2, StageStays
  <1>8. \A j : j # i => BookedIn(journal', j) = BookedIn(journal, j)
    BY <1>0, <1>2, BookingsStay
  <1>9. BookedIn(journal', i) = r.filled
    <2>1. \A n \in DOMAIN journal' : journal'[n].type = "RESULT" /\ journal'[n].intent = i => n = z
      BY <1>0, <1>2, <1>3 DEF OneResult
    <2> QED BY <1>2, <1>3, <2>1, BookedIs
  <1>10. r.filled \in 0..Shares /\ r.filled <= FilledIn(exch, i)
    <2>1. r.filled \in Nat
      BY DEF Row
    <2>2. Backed(r, i, r.leg, exch)
      BY <1>0, <1>2, <1>3 DEF RowsSound, RowSound, Sound
    <2>3. CASE r.filled > 0
      <3>1. PICK o \in DOMAIN exch : exch[o].intent = i /\ r.filled <= exch[o].filled
        BY <2>2, <2>3 DEF Backed
      <3>2. FilledIn(exch, i) = exch[o].filled
        BY <1>0, <3>1, FilledIs DEF WriteAhead
      <3>3. exch[o].filled \in Nat /\ exch[o].filled <= Shares
        BY <1>0, OrderType
      <3> QED BY <2>1, <3>1, <3>2, <3>3, SharesAssumption
    <2>4. CASE r.filled = 0
      <3>1. FilledIn(exch, i) \in Nat
        <4>1. CASE \E o \in DOMAIN exch : exch[o].intent = i
          <5>1. PICK o \in DOMAIN exch : exch[o].intent = i
            BY <4>1
          <5>2. FilledIn(exch, i) = exch[o].filled
            BY <1>0, <5>1, FilledIs DEF WriteAhead
          <5> QED BY <1>0, <5>2, OrderType
        <4>2. CASE ~(\E o \in DOMAIN exch : exch[o].intent = i)
          BY <4>2 DEF FilledIn
        <4> QED BY <4>1, <4>2
      <3> QED BY <2>4, <3>1, SharesAssumption
    <2> QED BY <2>1, <2>3, <2>4
  <1> HIDE DEF i
  <1>11. stages(journal)[i] = "intended" /\ r.filled <= fills(exch)[i]
    BY <1>3, <1>4, <1>5, <1>10 DEF stages, StageIn, fills
  <1>12. stages(journal') = [stages(journal) EXCEPT ![i] = "booked"]
    BY <1>4, <1>6, <1>7 DEF stages, StageIn
  <1>13. books(journal') = [books(journal) EXCEPT ![i] = r.filled]
    BY <1>4, <1>8, <1>9 DEF books
  <1>14. Lifecycle!Book(i, r.filled)
    BY <1>11, <1>12, <1>13, MapIs DEF Lifecycle!Book
  <1> QED BY <1>4, <1>10, <1>14

\* One transaction pays the event's held results, however many there are.
LEMMA SettlementIsPay ==
    ASSUME LifeInv, LifeInv', exch' = exch, NEW e \in Events, record_settlement(e)
    PROVE  \E S \in SUBSET (1..MaxIntents) : Lifecycle!Pay(S)
  <1>0. /\ journal \in Seq(Row) /\ IndInv /\ IndInv' /\ OneResult /\ ResultsFollow
    BY DEF LifeInv, LedgerInv, IndInv, IInv, TypeOK, Consistent
  <1> DEFINE S == {journal'[k].intent : k \in DOMAIN journal' \ DOMAIN journal}
  <1>1. Extended /\ \A k \in DOMAIN journal' \ DOMAIN journal : journal'[k].type = "SETTLE"
    BY <1>0, SettlementRows
  <1>2. ASSUME NEW k \in DOMAIN journal' \ DOMAIN journal
        PROVE  \E h \in Held(journal) : journal[h].intent = journal'[k].intent
    <2>1. PICK n \in 1..(k - 1) : /\ journal'[n].type = "RESULT"
                                  /\ journal'[n].intent = journal'[k].intent
                                  /\ journal'[n].filled > 0
      BY <1>1 DEF LifeInv, LedgerInv, PaidOnceForItsShares
    <2>2. n \in DOMAIN journal'
      <3>1. journal' \in Seq(Row)
        BY <1>0 DEF IndInv, IInv, TypeOK
      <3> QED BY <2>1, <3>1
    <2>3. n \in DOMAIN journal /\ journal'[n] = journal[n]
      BY <1>1, <2>1, <2>2 DEF Extended
    <2>4. ~IsSettled(journal, journal'[k].intent)
      <3>1. ASSUME NEW m \in DOMAIN journal, journal[m].type = "SETTLE",
                   journal[m].intent = journal'[k].intent
            PROVE  FALSE
        <4>1. m \in DOMAIN journal' /\ journal'[m] = journal[m]
          BY <1>1 DEF Extended
        <4>2. m = k
          BY <1>1, <3>1, <4>1 DEF LifeInv, LedgerInv, PaidOnceForItsShares
        <4> QED BY <4>2
      <3> QED BY <3>1 DEF IsSettled
    <2> QED BY <2>1, <2>3, <2>4 DEF Held
  <1>3. ASSUME NEW i \in S
        PROVE  /\ i \in 1..MaxIntents
               /\ HasRow(journal, "RESULT", i) /\ ~HasRow(journal, "SETTLE", i)
               /\ HasRow(journal', "SETTLE", i)
               /\ BookedIn(journal, i) > 0
    <2>1. PICK k \in DOMAIN journal' \ DOMAIN journal : journal'[k].intent = i
      OBVIOUS
    <2>2. PICK h \in Held(journal) : journal[h].intent = i
      BY <1>2, <2>1
    <2>3. /\ h \in DOMAIN journal /\ journal[h].type = "RESULT" /\ journal[h].filled > 0
          /\ ~IsSettled(journal, i)
      BY <2>2 DEF Held
    <2>4. PICK n \in 1..(h - 1) : journal[n].type = "INTENT" /\ Closes(journal[h], journal[n])
      BY <1>0, <2>3 DEF ResultsFollow
    <2>5. n \in DOMAIN journal /\ journal[n].intent = i
      BY <1>0, <2>2, <2>3, <2>4 DEF Closes
    <2>6. i \in 1..MaxIntents
      BY <2>4, <2>5 DEF LifeInv, IntentsInRange
    <2>7. BookedIn(journal, i) = journal[h].filled
      BY <1>0, <2>2, <2>3, BookedIs DEF OneResult
    <2>8. HasRow(journal', "SETTLE", i)
      BY <1>1, <2>1 DEF HasRow
    <2> QED BY <2>2, <2>3, <2>6, <2>7, <2>8 DEF HasRow, IsSettled
  <1>4. \A i : i \notin S => StageIn(journal', i) = StageIn(journal, i)
    <2>1. ASSUME NEW i, i \notin S
          PROVE  StageIn(journal', i) = StageIn(journal, i)
      <3>1. \A k \in DOMAIN journal' \ DOMAIN journal : journal'[k].intent # i
        BY <2>1
      <3> QED BY <1>1, <3>1, StageStays
    <2> QED BY <2>1
  <1>5. \A i : BookedIn(journal', i) = BookedIn(journal, i)
    BY <1>0, <1>1, BookingsStay
  <1> HIDE DEF S
  <1>6. \A i \in S : /\ stages(journal)[i] = "booked" /\ books(journal)[i] > 0
                     /\ StageIn(journal', i) = "paid"
    BY <1>3 DEF stages, books, StageIn
  <1>7. stages(journal') =
            [i \in 1..MaxIntents |-> IF i \in S THEN "paid" ELSE stages(journal)[i]]
    BY <1>4, <1>6 DEF stages
  <1>8. books(journal') = books(journal)
    BY <1>5 DEF books
  <1>9. Lifecycle!Pay(S)
    BY <1>6, <1>7, <1>8, MapIs DEF Lifecycle!Pay
  <1> QED BY <1>3, <1>9

-----------------------------------------------------------------------------
(* The refinement.                                                         *)

LEMMA StutterMaps ==
    ASSUME stages(journal') = stages(journal), books(journal') = books(journal),
           fills(exch') = fills(exch), sents(exch') = sents(exch)
    PROVE  UNCHANGED Lifecycle!vars
  BY MapIs DEF Lifecycle!vars

LEMMA StepMaps ==
    ASSUME LifeInv, LifeInv', [Next]_vars
    PROVE  [Lifecycle!Next]_(Lifecycle!vars)
  <1>0. IndInv /\ IndInv' /\ CurInJournal /\ journal \in Seq(Row)
    BY DEF LifeInv, LedgerInv, IndInv, IInv, TypeOK
  <1>1. CASE journal' = journal
    <2>1. CASE SameOrders
      BY <1>0, <1>1, <2>1, SameOrdersMap, StutterMaps
    <2>2. CASE Places
      BY <1>0, <1>1, <2>2, PlacementIsSend DEF Lifecycle!Next
    <2>3. ASSUME NEW o \in DOMAIN exch, Fill(o)
          PROVE  [Lifecycle!Next]_(Lifecycle!vars)
      BY <1>0, <1>1, <2>3, FillIsFill, IntentOfOrder DEF Lifecycle!Next
    <2> QED BY <1>0, <2>1, <2>2, <2>3, ExchangeKinds
  <1>2. CASE journal' # journal
    <2>0. exch' = exch
      BY <1>2, OneAtATime
    <2>1. CASE AddsOrder
      <3>1. Extended /\ \A k \in DOMAIN journal' \ DOMAIN journal : journal'[k].type = "ORDER"
        BY <1>0, <2>1, Appended DEF AddsOrder
      <3> QED BY <1>0, <2>0, <3>1, OrderRowsMap, StutterMaps
    <2>2. CASE AddsResult
      BY <2>0, <2>2, ResultIsBook DEF Lifecycle!Next
    <2>3. ASSUME NEW r \in tick.rows, NEW s \in Stakes, record_intent(r, s)
          PROVE  [Lifecycle!Next]_(Lifecycle!vars)
      BY <1>0, <2>0, <2>3, IntentIsIntend DEF Lifecycle!Next
    <2>4. ASSUME NEW e \in Events, record_settlement(e)
          PROVE  [Lifecycle!Next]_(Lifecycle!vars)
      BY <2>0, <2>4, SettlementIsPay DEF Lifecycle!Next
    <2>5. ~(\E p \in Profiles : NextProfile(p)) /\ ~AddsNothing
      BY <1>2 DEF NextProfile, AddsNothing
    <2> QED BY <1>0, <2>1, <2>2, <2>3, <2>4, <2>5, Kinds
  <1> QED BY <1>1, <1>2

LEMMA InitMaps ==
    ASSUME Init
    PROVE  Lifecycle!Init
  <1>1. journal = <<>> /\ exch = <<>>
    BY DEF Init, ExchInit
  <1>2. /\ \A i : StageIn(journal, i) = "none" /\ BookedIn(journal, i) = 0
        /\ \A i : FilledIn(exch, i) = 0
        /\ sents(exch) = {}
    BY <1>1 DEF StageIn, BookedIn, FilledIn, HasRow, sents
  <1> QED BY <1>2, MapIs DEF Lifecycle!Init, stages, books, fills

(* The journal invariant of ledger.py as a whole: intended before sent,    *)
(* sent once, booked once and for no more than was filled by then, paid    *)
(* once for what was booked. Every behaviour of the node, with its crashes,*)
(* lost answers, reconciliations and whatever the exchange and the operator*)
(* do, is a behaviour of the abstract lifecycle.                           *)
THEOREM ImplementsLifecycleHolds == Spec => ImplementsLifecycle
  <1>1. Init => Lifecycle!Init
    BY InitMaps
  <1>2. LifeInv /\ LifeInv' /\ [Next]_vars => [Lifecycle!Next]_(Lifecycle!vars)
    BY StepMaps
  <1> QED
    BY <1>1, <1>2, LifeInvariant, PTL DEF Spec, ImplementsLifecycle, Lifecycle!Spec

-----------------------------------------------------------------------------
(* What the node can have at risk. The limits are asked of sums over the   *)
(* whole journal before an order is sent; the proofs follow what each row  *)
(* that is added later does to those sums. First the sums, for a journal j *)
(* and what it grows to.                                                   *)

OpenRows(j, evs) == {k \in Held(j) \cup InFlight(j) : j[k].leg.event \in evs}

StakeOf(j) == [k \in DOMAIN j |-> j[k].stake]

GainOf(j) ==
    [pair \in (DOMAIN j) \X (DOMAIN j) |-> j[pair[1]].payout - j[pair[2]].stake]

Grows(j, i) == DOMAIN j \subseteq DOMAIN i /\ \A k \in DOMAIN j : i[k] = j[k]

LEMMA ExposureIs ==
    ASSUME NEW j \in Seq(Row), NEW evs
    PROVE  /\ IsFiniteSet(DOMAIN j)
           /\ IsFiniteSet(OpenRows(j, evs)) /\ OpenRows(j, evs) \subseteq DOMAIN j
           /\ \A k \in DOMAIN j : StakeOf(j)[k] = j[k].stake /\ j[k].stake \in Nat
           /\ Exposure(j, evs) = SumFunctionOnSet(StakeOf(j), OpenRows(j, evs))
           /\ Exposure(j, evs) \in Nat
  <1>1. DOMAIN j = 1..Len(j) /\ Len(j) \in Nat
    OBVIOUS
  <1>2. IsFiniteSet(DOMAIN j)
    BY <1>1, FS_Interval
  <1>3. OpenRows(j, evs) \subseteq DOMAIN j
    BY DEF OpenRows, Held, InFlight
  <1>4. IsFiniteSet(OpenRows(j, evs))
    BY <1>2, <1>3, FS_Subset
  <1>5. ASSUME NEW k \in DOMAIN j
        PROVE  StakeOf(j)[k] = j[k].stake /\ j[k].stake \in Nat
    <2>1. j[k] \in Row  OBVIOUS
    <2>2. j[k].stake \in Nat  BY <2>1 DEF Row
    <2> QED BY <2>2 DEF StakeOf
  <1>6. Exposure(j, evs) = SumFunctionOnSet(StakeOf(j), OpenRows(j, evs))
    BY DEF Exposure, StakeOf, OpenRows
  <1>7. \A k \in OpenRows(j, evs) : StakeOf(j)[k] \in Nat
    BY <1>3, <1>5
  <1>8. Exposure(j, evs) \in Nat
    BY <1>4, <1>6, <1>7, SumNotNegative
  <1> QED BY <1>2, <1>3, <1>4, <1>5, <1>6, <1>8

LEMMA PnlIs ==
    ASSUME NEW j \in Seq(Row)
    PROVE  /\ IsFiniteSet(Settled(j)) /\ Settled(j) \subseteq (DOMAIN j) \X (DOMAIN j)
           /\ \A pair \in (DOMAIN j) \X (DOMAIN j) :
                 /\ GainOf(j)[pair] = j[pair[1]].payout - j[pair[2]].stake
                 /\ j[pair[1]].payout \in Nat /\ j[pair[2]].stake \in Nat
                 /\ GainOf(j)[pair] \in Int
           /\ realized_pnl(j) = SumFunctionOnSet(GainOf(j), Settled(j))
           /\ realized_pnl(j) \in Int
  <1>1. IsFiniteSet((DOMAIN j) \X (DOMAIN j))
    <2>1. IsFiniteSet(DOMAIN j)
      BY ExposureIs
    <2> QED BY <2>1, FS_Product
  <1>2. Settled(j) \subseteq (DOMAIN j) \X (DOMAIN j)
    BY DEF Settled
  <1>3. IsFiniteSet(Settled(j))
    BY <1>1, <1>2, FS_Subset
  <1>4. ASSUME NEW pair \in (DOMAIN j) \X (DOMAIN j)
        PROVE  /\ GainOf(j)[pair] = j[pair[1]].payout - j[pair[2]].stake
               /\ j[pair[1]].payout \in Nat /\ j[pair[2]].stake \in Nat
               /\ GainOf(j)[pair] \in Int
    <2>1. j[pair[1]] \in Row /\ j[pair[2]] \in Row  OBVIOUS
    <2>2. j[pair[1]].payout \in Nat /\ j[pair[2]].stake \in Nat
      BY <2>1 DEF Row
    <2>3. GainOf(j)[pair] = j[pair[1]].payout - j[pair[2]].stake
      BY DEF GainOf
    <2> QED BY <2>2, <2>3
  <1>5. realized_pnl(j) = SumFunctionOnSet(GainOf(j), Settled(j))
    BY DEF realized_pnl, GainOf
  <1>6. \A pair \in Settled(j) : GainOf(j)[pair] \in Int
    BY <1>2, <1>4
  <1>7. realized_pnl(j) \in Int
    BY <1>3, <1>5, <1>6, SumType
  <1> QED BY <1>2, <1>3, <1>4, <1>5, <1>7

\* Fewer open rows, no more exposure; the same rows, the same exposure.
LEMMA ExposureFalls ==
    ASSUME NEW j \in Seq(Row), NEW i \in Seq(Row), Grows(j, i), NEW evs,
           OpenRows(i, evs) \subseteq OpenRows(j, evs)
    PROVE  Exposure(i, evs) <= Exposure(j, evs)
  <1>1. \A k \in OpenRows(i, evs) : StakeOf(i)[k] = StakeOf(j)[k]
    BY ExposureIs DEF Grows
  <1>2. IsFiniteSet(OpenRows(i, evs)) /\ IsFiniteSet(OpenRows(j, evs))
    BY ExposureIs
  <1>3. SumFunctionOnSet(StakeOf(i), OpenRows(i, evs)) =
            SumFunctionOnSet(StakeOf(j), OpenRows(i, evs))
    BY <1>1, <1>2, SumSame
  <1>4. \A k \in OpenRows(j, evs) : StakeOf(j)[k] \in Nat
    BY ExposureIs
  <1>5. SumFunctionOnSet(StakeOf(j), OpenRows(i, evs)) <=
            SumFunctionOnSet(StakeOf(j), OpenRows(j, evs))
    BY <1>2, <1>4, SumOfSubset
  <1>6. /\ Exposure(i, evs) = SumFunctionOnSet(StakeOf(i), OpenRows(i, evs))
        /\ Exposure(j, evs) = SumFunctionOnSet(StakeOf(j), OpenRows(j, evs))
    BY ExposureIs
  <1> QED BY <1>3, <1>5, <1>6

LEMMA ExposureSame ==
    ASSUME NEW j \in Seq(Row), NEW i \in Seq(Row), Grows(j, i), NEW evs,
           OpenRows(i, evs) = OpenRows(j, evs)
    PROVE  Exposure(i, evs) = Exposure(j, evs)
  <1>1. \A k \in OpenRows(i, evs) : StakeOf(i)[k] = StakeOf(j)[k]
    BY ExposureIs DEF Grows
  <1>2. IsFiniteSet(OpenRows(i, evs))
    BY ExposureIs
  <1>3. SumFunctionOnSet(StakeOf(i), OpenRows(i, evs)) =
            SumFunctionOnSet(StakeOf(j), OpenRows(i, evs))
    BY <1>1, <1>2, SumSame
  <1>4. /\ Exposure(i, evs) = SumFunctionOnSet(StakeOf(i), OpenRows(i, evs))
        /\ Exposure(j, evs) = SumFunctionOnSet(StakeOf(j), OpenRows(j, evs))
    BY ExposureIs
  <1> QED BY <1>3, <1>4

LEMMA PnlSame ==
    ASSUME NEW j \in Seq(Row), NEW i \in Seq(Row), Grows(j, i), Settled(i) = Settled(j)
    PROVE  realized_pnl(i) = realized_pnl(j)
  <1>1. \A pair \in Settled(i) : GainOf(i)[pair] = GainOf(j)[pair]
    <2> SUFFICES ASSUME NEW pair \in Settled(i)
                 PROVE  GainOf(i)[pair] = GainOf(j)[pair]
      OBVIOUS
    <2>1. /\ pair \in (DOMAIN j) \X (DOMAIN j) /\ pair \in (DOMAIN i) \X (DOMAIN i)
      BY PnlIs
    <2>2. /\ GainOf(j)[pair] = j[pair[1]].payout - j[pair[2]].stake
          /\ GainOf(i)[pair] = i[pair[1]].payout - i[pair[2]].stake
      BY <2>1, PnlIs
    <2>3. i[pair[1]] = j[pair[1]] /\ i[pair[2]] = j[pair[2]]
      BY <2>1 DEF Grows
    <2> QED BY <2>2, <2>3
  <1>2. IsFiniteSet(Settled(i))
    BY PnlIs
  <1>3. SumFunctionOnSet(GainOf(i), Settled(i)) = SumFunctionOnSet(GainOf(j), Settled(i))
    BY <1>1, <1>2, SumSame
  <1>4. /\ realized_pnl(i) = SumFunctionOnSet(GainOf(i), Settled(i))
        /\ realized_pnl(j) = SumFunctionOnSet(GainOf(j), Settled(j))
    BY PnlIs
  <1> QED BY <1>3, <1>4

-----------------------------------------------------------------------------
(* One row more.                                                           *)

LEMMA RowMore ==
    ASSUME NEW j \in Seq(Row), NEW r \in Row
    PROVE  /\ Append(j, r) \in Seq(Row) /\ Grows(j, Append(j, r))
           /\ DOMAIN Append(j, r) = DOMAIN j \cup {Len(j) + 1}
           /\ Len(j) + 1 \notin DOMAIN j /\ Append(j, r)[Len(j) + 1] = r
           /\ \A k \in DOMAIN j : Append(j, r)[k] = j[k]
  BY DEF Grows

\* An open row more: its stake more.
LEMMA ExposureRises ==
    ASSUME NEW j \in Seq(Row), NEW i \in Seq(Row), Grows(j, i), NEW evs,
           NEW z \in DOMAIN i \ DOMAIN j, NEW o \in SUBSET OpenRows(j, evs),
           OpenRows(i, evs) = o \cup {z}
    PROVE  Exposure(i, evs) = SumFunctionOnSet(StakeOf(j), o) + i[z].stake
  <1>1. o \subseteq DOMAIN j /\ IsFiniteSet(o) /\ z \notin o
    BY ExposureIs, FS_Subset
  <1>2. \A k \in o \cup {z} : StakeOf(i)[k] \in Int
    <2>1. \A k \in o \cup {z} : k \in DOMAIN i
      BY <1>1 DEF Grows
    <2> QED BY <2>1, ExposureIs
  <1>3. SumFunctionOnSet(StakeOf(i), o \cup {z}) =
            SumFunctionOnSet(StakeOf(i), o) + StakeOf(i)[z]
    BY <1>1, <1>2, SumWith
  <1>4. \A k \in o : StakeOf(i)[k] = StakeOf(j)[k]
    BY <1>1, ExposureIs DEF Grows
  <1>5. SumFunctionOnSet(StakeOf(i), o) = SumFunctionOnSet(StakeOf(j), o)
    BY <1>1, <1>4, SumSame
  <1>6. StakeOf(i)[z] = i[z].stake
    BY ExposureIs
  <1>7. Exposure(i, evs) = SumFunctionOnSet(StakeOf(i), OpenRows(i, evs))
    BY ExposureIs
  <1> QED BY <1>3, <1>5, <1>6, <1>7

\* An ORDER row opens and closes nothing.
LEMMA OrderRowSums ==
    ASSUME NEW j \in Seq(Row), NEW r \in Row, r.type = "ORDER", NEW evs
    PROVE  /\ Exposure(Append(j, r), evs) = Exposure(j, evs)
           /\ realized_pnl(Append(j, r)) = realized_pnl(j)
  <1> DEFINE i == Append(j, r)
             z == Len(j) + 1
  <1>1. /\ i \in Seq(Row) /\ Grows(j, i) /\ DOMAIN i = DOMAIN j \cup {z}
        /\ z \notin DOMAIN j /\ i[z] = r /\ \A k \in DOMAIN j : i[k] = j[k]
    BY RowMore
  <1> HIDE DEF i, z
  <1>2. \A n : /\ HasResult(i, n) <=> HasResult(j, n)
               /\ IsSettled(i, n) <=> IsSettled(j, n)
    BY <1>1 DEF HasResult, IsSettled
  <1>3. Held(i) = Held(j) /\ InFlight(i) = InFlight(j)
    BY <1>1, <1>2 DEF Held, InFlight
  <1>4. OpenRows(i, evs) = OpenRows(j, evs)
    BY <1>1, <1>3 DEF OpenRows, Held, InFlight
  <1>5. Settled(i) = Settled(j)
    BY <1>1 DEF Settled
  <1>6. Exposure(i, evs) = Exposure(j, evs) /\ realized_pnl(i) = realized_pnl(j)
    BY <1>1, <1>4, <1>5, ExposureSame, PnlSame
  <1> QED BY <1>6 DEF i

\* A fresh intent is in flight with its quoted stake.
LEMMA IntentRowSums ==
    ASSUME NEW j \in Seq(Row), NEW r \in Row, r.type = "INTENT",
           \A k \in DOMAIN j : j[k].intent # r.intent, NEW evs
    PROVE  /\ Exposure(Append(j, r), evs) =
                  Exposure(j, evs) + (IF r.leg.event \in evs THEN r.stake ELSE 0)
           /\ realized_pnl(Append(j, r)) = realized_pnl(j)
  <1> DEFINE i == Append(j, r)
             z == Len(j) + 1
  <1>1. /\ i \in Seq(Row) /\ Grows(j, i) /\ DOMAIN i = DOMAIN j \cup {z}
        /\ z \notin DOMAIN j /\ i[z] = r /\ \A k \in DOMAIN j : i[k] = j[k]
    BY RowMore
  <1> HIDE DEF i, z
  <1>2. \A n : /\ HasResult(i, n) <=> HasResult(j, n)
               /\ IsSettled(i, n) <=> IsSettled(j, n)
    BY <1>1 DEF HasResult, IsSettled
  <1>3. ~HasResult(j, r.intent)
    BY DEF HasResult
  <1>4. Held(i) = Held(j) /\ InFlight(i) = InFlight(j) \cup {z}
    BY <1>1, <1>2, <1>3 DEF Held, InFlight
  <1>5. Settled(i) = Settled(j)
    BY <1>1 DEF Settled
  <1>6. realized_pnl(i) = realized_pnl(j)
    BY <1>1, <1>5, PnlSame
  <1>7. \A k \in Held(j) \cup InFlight(j) : k \in DOMAIN j /\ i[k] = j[k]
    BY <1>1 DEF Held, InFlight
  <1>8. Exposure(j, evs) \in Nat /\ Exposure(i, evs) \in Nat
    BY <1>1, ExposureIs
  <1>9. CASE r.leg.event \in evs
    <2>1. OpenRows(i, evs) = OpenRows(j, evs) \cup {z}
      BY <1>1, <1>4, <1>7, <1>9 DEF OpenRows
    <2>2. Exposure(i, evs) = SumFunctionOnSet(StakeOf(j), OpenRows(j, evs)) + r.stake
      BY <1>1, <2>1, ExposureRises
    <2>3. Exposure(i, evs) = Exposure(j, evs) + r.stake
      BY <2>2, ExposureIs
    <2> QED BY <1>6, <1>9, <2>3 DEF i
  <1>10. CASE r.leg.event \notin evs
    <2>1. OpenRows(i, evs) = OpenRows(j, evs)
      BY <1>1, <1>4, <1>7, <1>10 DEF OpenRows
    <2>2. Exposure(i, evs) = Exposure(j, evs)
      BY <1>1, <2>1, ExposureSame
    <2> QED BY <1>6, <1>8, <1>10, <2>2 DEF i
  <1> QED BY <1>9, <1>10

\* A RESULT replaces the quoted stake of its intent by what the fills cost.
LEMMA ResultRowSums ==
    ASSUME NEW j \in Seq(Row), NEW r \in Row, NEW n \in InFlight(j), Closes(r, j[n]),
           \A k \in DOMAIN j : j[k].type = "INTENT" /\ j[k].intent = r.intent => k = n,
           ~IsSettled(j, r.intent), NEW evs
    PROVE  /\ j[n].leg.event \in evs =>
                  Exposure(Append(j, r), evs) + j[n].stake =
                      Exposure(j, evs) + (IF r.filled > 0 THEN r.stake ELSE 0)
           /\ j[n].leg.event \notin evs => Exposure(Append(j, r), evs) = Exposure(j, evs)
           /\ realized_pnl(Append(j, r)) = realized_pnl(j)
  <1> DEFINE i == Append(j, r)
             z == Len(j) + 1
  <1>1. /\ i \in Seq(Row) /\ Grows(j, i) /\ DOMAIN i = DOMAIN j \cup {z}
        /\ z \notin DOMAIN j /\ i[z] = r /\ \A k \in DOMAIN j : i[k] = j[k]
    BY RowMore
  <1> HIDE DEF i, z
  <1>2. /\ r.type = "RESULT" /\ r.intent = j[n].intent /\ r.leg = j[n].leg
        /\ n \in DOMAIN j /\ j[n].type = "INTENT"
    BY DEF Closes, InFlight
  <1>3. \A m : /\ HasResult(i, m) <=> HasResult(j, m) \/ m = r.intent
               /\ IsSettled(i, m) <=> IsSettled(j, m)
    BY <1>1, <1>2 DEF HasResult, IsSettled
  <1>4. InFlight(i) = InFlight(j) \ {n}
    BY <1>1, <1>2, <1>3 DEF InFlight
  <1>5. Held(i) = Held(j) \cup (IF r.filled > 0 THEN {z} ELSE {})
    BY <1>1, <1>2, <1>3 DEF Held
  <1>6. n \notin Held(j)
    BY <1>2 DEF Held
  <1>7. Settled(i) = Settled(j)
    BY <1>1, <1>2 DEF Settled, IsSettled
  <1>8. realized_pnl(i) = realized_pnl(j)
    BY <1>1, <1>7, PnlSame
  <1>9. \A k \in Held(j) \cup InFlight(j) : k \in DOMAIN j /\ i[k] = j[k]
    BY <1>1 DEF Held, InFlight
  <1>10. CASE j[n].leg.event \notin evs
    <2>1. OpenRows(i, evs) = OpenRows(j, evs)
      BY <1>1, <1>2, <1>4, <1>5, <1>9, <1>10 DEF OpenRows
    <2>2. Exposure(i, evs) = Exposure(j, evs)
      BY <1>1, <2>1, ExposureSame
    <2> QED BY <1>8, <1>10, <2>2 DEF i
  <1>11. CASE j[n].leg.event \in evs
    <2> DEFINE o == OpenRows(j, evs) \ {n}
    <2>1. n \in OpenRows(j, evs)
      BY <1>11 DEF OpenRows
    <2>2. \A k \in OpenRows(j, evs) : StakeOf(j)[k] \in Int
      BY ExposureIs
    <2>3. SumFunctionOnSet(StakeOf(j), OpenRows(j, evs)) =
              StakeOf(j)[n] + SumFunctionOnSet(StakeOf(j), o)
      BY <2>1, <2>2, SumSplit, ExposureIs
    <2>4. IsFiniteSet(o) /\ \A k \in o : StakeOf(j)[k] \in Int
      BY <2>2, FS_Subset, ExposureIs
    <2>5. SumFunctionOnSet(StakeOf(j), o) \in Int
      BY <2>4, SumType
    <2>6. Exposure(j, evs) = j[n].stake + SumFunctionOnSet(StakeOf(j), o) /\ j[n].stake \in Nat
      BY <1>2, <2>3, ExposureIs
    <2>7. CASE r.filled > 0
      <3>1. OpenRows(i, evs) = o \cup {z}
        BY <1>1, <1>2, <1>4, <1>5, <1>6, <1>9, <1>11, <2>7 DEF OpenRows
      <3>2. Exposure(i, evs) = SumFunctionOnSet(StakeOf(j), o) + r.stake
        BY <1>1, <3>1, ExposureRises
      <3>3. r.stake \in Nat
        BY DEF Row
      <3>4. Exposure(i, evs) + j[n].stake = Exposure(j, evs) + r.stake
        BY <2>5, <2>6, <3>2, <3>3
      <3> QED BY <1>8, <1>11, <2>7, <3>4 DEF i
    <2>8. CASE ~(r.filled > 0)
      <3>1. OpenRows(i, evs) = o
        BY <1>1, <1>2, <1>4, <1>5, <1>6, <1>9, <1>11, <2>8 DEF OpenRows
      <3>2. \A k \in o : StakeOf(i)[k] = StakeOf(j)[k]
        <4>1. \A k \in o : k \in DOMAIN j /\ k \in DOMAIN i /\ i[k] = j[k]
          BY <1>1, ExposureIs
        <4> QED BY <4>1 DEF StakeOf
      <3>3. SumFunctionOnSet(StakeOf(i), o) = SumFunctionOnSet(StakeOf(j), o)
        BY <2>4, <3>2, SumSame
      <3>4. Exposure(i, evs) = SumFunctionOnSet(StakeOf(i), OpenRows(i, evs))
        BY <1>1, ExposureIs
      <3>5. Exposure(i, evs) = SumFunctionOnSet(StakeOf(j), o)
        BY <3>1, <3>3, <3>4
      <3>6. Exposure(i, evs) + j[n].stake = Exposure(j, evs) + 0
        BY <2>5, <2>6, <3>5
      <3> QED BY <1>8, <1>11, <2>8, <3>6 DEF i
    <2> QED BY <2>7, <2>8
  <1> QED BY <1>10, <1>11

-----------------------------------------------------------------------------
(* A settlement.                                                           *)

\* What LedgerInv and IndInv say of a journal's payments.
PaymentsOf(i) ==
    /\ \A k, n \in DOMAIN i :
           i[k].type = "RESULT" /\ i[n].type = "RESULT" /\ i[k].intent = i[n].intent => k = n
    /\ \A k \in DOMAIN i : i[k].type = "SETTLE" =>
           /\ \E n \in DOMAIN i : /\ i[n].type = "RESULT" /\ i[n].intent = i[k].intent
                                  /\ i[n].filled > 0
           /\ \A n \in DOMAIN i : i[n].type = "SETTLE" /\ i[n].intent = i[k].intent => n = k

\* Rows of a settlement close held results, one each, and open nothing.
LEMMA SettlementCloses ==
    ASSUME NEW j \in Seq(Row), NEW i \in Seq(Row), Grows(j, i), PaymentsOf(i),
           \A k \in DOMAIN i \ DOMAIN j : i[k].type = "SETTLE"
    PROVE  /\ InFlight(i) = InFlight(j)
           /\ Settled(j) \subseteq Settled(i)
           /\ \A pair \in Settled(i) \ Settled(j) :
                  pair[2] \in DOMAIN j /\ pair[2] \in Held(j) /\ pair[2] \notin Held(i)
           /\ Held(i) \subseteq Held(j)
           /\ \A k \in Held(j) \ Held(i) : \E pair \in Settled(i) \ Settled(j) : pair[2] = k
           /\ \A p, q \in Settled(i) : p[2] = q[2] => p = q
  <1>1. \A k \in DOMAIN i : i[k].type # "SETTLE" => k \in DOMAIN j /\ i[k] = j[k]
    BY DEF Grows
  <1>2. \A n : /\ HasResult(i, n) <=> HasResult(j, n)
               /\ IsSettled(j, n) => IsSettled(i, n)
    BY <1>1 DEF HasResult, IsSettled, Grows
  <1>3. InFlight(i) = InFlight(j)
    BY <1>1, <1>2 DEF InFlight, Grows
  <1>4. Held(i) \subseteq Held(j)
    BY <1>1, <1>2 DEF Held
  <1>5. Settled(j) \subseteq Settled(i)
    BY DEF Settled, Grows
  <1>6. ASSUME NEW pair \in Settled(i) \ Settled(j)
        PROVE  pair[2] \in DOMAIN j /\ pair[2] \in Held(j) /\ pair[2] \notin Held(i)
    <2>1. /\ pair = <<pair[1], pair[2]>> /\ pair[1] \in DOMAIN i /\ pair[2] \in DOMAIN i
          /\ i[pair[1]].type = "SETTLE" /\ i[pair[2]].type = "RESULT"
          /\ i[pair[1]].intent = i[pair[2]].intent
      BY DEF Settled
    <2>2. pair[2] \in DOMAIN j /\ j[pair[2]] = i[pair[2]]
      BY <1>1, <2>1
    <2>3. pair[1] \notin DOMAIN j
      <3> SUFFICES ASSUME pair[1] \in DOMAIN j  PROVE FALSE
        OBVIOUS
      <3>1. pair \in (DOMAIN j) \X (DOMAIN j) /\ j[pair[1]] = i[pair[1]]
        BY <2>1, <2>2 DEF Grows
      <3> QED BY <2>1, <2>2, <3>1 DEF Settled
    <2>4. i[pair[2]].filled > 0
      BY <2>1 DEF PaymentsOf
    <2>5. IsSettled(i, i[pair[2]].intent)
      BY <2>1 DEF IsSettled
    <2>6. ~IsSettled(j, j[pair[2]].intent)
      <3> SUFFICES ASSUME NEW k \in DOMAIN j, j[k].type = "SETTLE",
                          j[k].intent = j[pair[2]].intent
                   PROVE  FALSE
        BY DEF IsSettled
      <3>1. k \in DOMAIN i /\ i[k] = j[k]
        BY DEF Grows
      <3>2. k = pair[1]
        BY <2>1, <2>2, <3>1 DEF PaymentsOf
      <3> QED BY <2>3, <3>2
    <2> QED BY <2>1, <2>2, <2>4, <2>5, <2>6 DEF Held
  <1>7. ASSUME NEW k \in Held(j) \ Held(i)
        PROVE  \E pair \in Settled(i) \ Settled(j) : pair[2] = k
    <2>1. /\ k \in DOMAIN j /\ k \in DOMAIN i /\ i[k] = j[k]
          /\ j[k].type = "RESULT" /\ ~IsSettled(j, j[k].intent) /\ IsSettled(i, j[k].intent)
      BY DEF Held, Grows
    <2>2. PICK n \in DOMAIN i : i[n].type = "SETTLE" /\ i[n].intent = i[k].intent
      BY <2>1 DEF IsSettled
    <2>3. <<n, k>> \in Settled(i)
      BY <2>1, <2>2 DEF Settled
    <2>4. <<n, k>> \notin Settled(j)
      BY <2>1 DEF Settled, IsSettled
    <2> QED BY <2>3, <2>4
  <1>8. ASSUME NEW p \in Settled(i), NEW q \in Settled(i), p[2] = q[2]
        PROVE  p = q
    <2>1. /\ p = <<p[1], p[2]>> /\ p[1] \in DOMAIN i /\ i[p[1]].type = "SETTLE"
          /\ i[p[1]].intent = i[p[2]].intent
          /\ q = <<q[1], q[2]>> /\ q[1] \in DOMAIN i /\ i[q[1]].type = "SETTLE"
          /\ i[q[1]].intent = i[q[2]].intent
      BY DEF Settled
    <2>2. p[1] = q[1]
      BY <1>8, <2>1 DEF PaymentsOf
    <2> QED BY <1>8, <2>1, <2>2
  <1> QED BY <1>3, <1>4, <1>5, <1>6, <1>7, <1>8

\* It takes the stakes of what it pays off the exposure, books no more than
\* them as losses, and so never costs more than was at risk.
LEMMA SettlementSums ==
    ASSUME NEW j \in Seq(Row), NEW i \in Seq(Row), Grows(j, i), PaymentsOf(i),
           \A k \in DOMAIN i \ DOMAIN j : i[k].type = "SETTLE"
    PROVE  /\ \A evs : Exposure(i, evs) <= Exposure(j, evs)
           /\ realized_pnl(i) - open_exposure_usd(i) >= realized_pnl(j) - open_exposure_usd(j)
  <1>1. /\ InFlight(i) = InFlight(j) /\ Held(i) \subseteq Held(j)
        /\ Settled(j) \subseteq Settled(i)
    BY SettlementCloses
  <1>2. \A k \in Held(j) \cup InFlight(j) : k \in DOMAIN j /\ i[k] = j[k]
    BY DEF Held, InFlight, Grows
  <1>3. ASSUME NEW evs
        PROVE  OpenRows(i, evs) \subseteq OpenRows(j, evs)
    BY <1>1, <1>2 DEF OpenRows
  <1>4. \A evs : Exposure(i, evs) <= Exposure(j, evs)
    BY <1>3, ExposureFalls
  <1> DEFINE N == Settled(i) \ Settled(j)
             K == OpenRows(j, Events) \ OpenRows(i, Events)
             f == [pair \in N |-> pair[2]]
  <1>5. {f[pair] : pair \in N} = K
    <2>1. \A k \in Held(j) \cup InFlight(j) : j[k].leg.event \in Events
      <3>1. \A k \in DOMAIN j : j[k] \in Row  OBVIOUS
      <3>2. \A k \in DOMAIN j : j[k].leg \in Legs  BY <3>1 DEF Row
      <3> QED BY <1>2, <3>2, LegType
    <2>2. /\ OpenRows(j, Events) = Held(j) \cup InFlight(j)
          /\ OpenRows(i, Events) = Held(i) \cup InFlight(j)
      BY <1>1, <1>2, <2>1 DEF OpenRows
    <2>3. \A k \in Held(j) : k \notin InFlight(j)
      BY DEF Held, InFlight
    <2>4. K = Held(j) \ Held(i)
      BY <2>2, <2>3
    <2>5. \A pair \in N : f[pair] = pair[2] /\ pair[2] \in Held(j) \ Held(i)
      BY SettlementCloses
    <2>6. \A k \in Held(j) \ Held(i) : \E pair \in N : pair[2] = k
      BY SettlementCloses
    <2> QED BY <2>4, <2>5, <2>6
  <1>6. \A p, q \in N : f[p] = f[q] => p = q
    BY SettlementCloses
  <1>7. ASSUME NEW pair \in N
        PROVE  /\ GainOf(i)[pair] \in Int /\ StakeOf(j)[f[pair]] \in Int
               /\ GainOf(i)[pair] + StakeOf(j)[f[pair]] >= 0
    <2>1. pair \in (DOMAIN i) \X (DOMAIN i)
      BY PnlIs
    <2>2. pair[2] \in DOMAIN j /\ f[pair] = pair[2]
      BY SettlementCloses
    <2>3. i[pair[2]] = j[pair[2]]
      BY <2>2 DEF Grows
    <2>4. StakeOf(j)[pair[2]] = i[pair[2]].stake
      BY <2>2, <2>3, ExposureIs
    <2>5. /\ GainOf(i)[pair] = i[pair[1]].payout - i[pair[2]].stake
          /\ i[pair[1]].payout \in Nat /\ i[pair[2]].stake \in Nat
      BY <2>1, PnlIs
    <2> QED BY <2>2, <2>4, <2>5
  <1>8. IsFiniteSet(N) /\ IsFiniteSet(K) /\ IsFiniteSet(Settled(j))
    BY PnlIs, ExposureIs, FS_Subset
  <1> HIDE DEF f
  <1>9. SumFunctionOnSet(GainOf(i), N) + SumFunctionOnSet(StakeOf(j), K) >= 0
    <2> HIDE DEF N, K
    <2>1. SumFunctionOnSet(GainOf(i), N) + SumFunctionOnSet(StakeOf(j), {f[x] : x \in N}) >= 0
      BY <1>6, <1>7, <1>8, SumOfPairs
    <2>2. {f[x] : x \in N} = K
      BY <1>5
    <2> QED BY <2>1, <2>2
  <1>10. realized_pnl(i) = realized_pnl(j) + SumFunctionOnSet(GainOf(i), N)
    <2>1. \A pair \in Settled(j) \cup N : GainOf(i)[pair] \in Int
      <3>1. \A pair \in Settled(i) : GainOf(i)[pair] \in Int
        BY PnlIs
      <3> QED BY <1>1, <3>1
    <2>2. Settled(j) \cap N = {} /\ Settled(j) \cup N = Settled(i)
      BY <1>1
    <2>3. SumFunctionOnSet(GainOf(i), Settled(j) \cup N) =
              SumFunctionOnSet(GainOf(i), Settled(j)) + SumFunctionOnSet(GainOf(i), N)
      BY <1>8, <2>1, <2>2, SumOfDisjoint
    <2>4. \A pair \in Settled(j) : GainOf(i)[pair] = GainOf(j)[pair]
      <3> SUFFICES ASSUME NEW pair \in Settled(j)
                   PROVE  GainOf(i)[pair] = GainOf(j)[pair]
        OBVIOUS
      <3>1. pair \in (DOMAIN j) \X (DOMAIN j) /\ pair \in (DOMAIN i) \X (DOMAIN i)
        BY <1>1, PnlIs
      <3>2. i[pair[1]] = j[pair[1]] /\ i[pair[2]] = j[pair[2]]
        BY <3>1 DEF Grows
      <3> QED BY <3>1, <3>2, PnlIs
    <2>5. SumFunctionOnSet(GainOf(i), Settled(j)) = SumFunctionOnSet(GainOf(j), Settled(j))
      BY <1>8, <2>4, SumSame
    <2>6. /\ realized_pnl(i) = SumFunctionOnSet(GainOf(i), Settled(i))
          /\ realized_pnl(j) = SumFunctionOnSet(GainOf(j), Settled(j))
      BY PnlIs
    <2> QED BY <2>2, <2>3, <2>5, <2>6
  <1>11. Exposure(j, Events) = Exposure(i, Events) + SumFunctionOnSet(StakeOf(j), K)
    <2> DEFINE L == OpenRows(i, Events)
    <2>1. \A k \in L \cup K : StakeOf(j)[k] \in Int
      <3>1. \A k \in OpenRows(j, Events) : StakeOf(j)[k] \in Int
        BY ExposureIs
      <3> QED BY <1>3, <3>1
    <2>2. L \cap K = {} /\ L \cup K = OpenRows(j, Events) /\ IsFiniteSet(L)
      BY <1>3, ExposureIs
    <2>3. SumFunctionOnSet(StakeOf(j), L \cup K) =
              SumFunctionOnSet(StakeOf(j), L) + SumFunctionOnSet(StakeOf(j), K)
      BY <1>8, <2>1, <2>2, SumOfDisjoint
    <2>4. \A k \in L : StakeOf(i)[k] = StakeOf(j)[k]
      <3>1. \A k \in L : k \in DOMAIN j /\ k \in DOMAIN i /\ i[k] = j[k]
        BY <1>3, ExposureIs DEF Grows
      <3> QED BY <3>1, ExposureIs
    <2>5. SumFunctionOnSet(StakeOf(i), L) = SumFunctionOnSet(StakeOf(j), L)
      BY <2>2, <2>4, SumSame
    <2>6. /\ Exposure(i, Events) = SumFunctionOnSet(StakeOf(i), L)
          /\ Exposure(j, Events) = SumFunctionOnSet(StakeOf(j), OpenRows(j, Events))
      BY ExposureIs
    <2> QED BY <2>2, <2>3, <2>5, <2>6
  <1>12. /\ realized_pnl(j) \in Int /\ Exposure(i, Events) \in Int
         /\ SumFunctionOnSet(GainOf(i), N) \in Int /\ SumFunctionOnSet(StakeOf(j), K) \in Int
    <2>1. \A pair \in N : GainOf(i)[pair] \in Int
      BY <1>7
    <2>2. \A k \in K : StakeOf(j)[k] \in Int
      BY ExposureIs
    <2> QED BY <1>8, <2>1, <2>2, SumType, PnlIs, ExposureIs
  <1> HIDE DEF N, K
  <1>13. realized_pnl(i) - Exposure(i, Events) >= realized_pnl(j) - Exposure(j, Events)
    BY <1>9, <1>10, <1>11, <1>12
  <1> QED BY <1>4, <1>13 DEF open_exposure_usd

-----------------------------------------------------------------------------
(* The invariant. Between its risk check and its result, an order counts   *)
(* with its quoted stake, and with it the book is within its limits; only  *)
(* the result can overshoot them, by what the fills cost above the quote.  *)

Slip == Shares - Min(Stakes)

BookWithin(extra) ==
    /\ open_exposure_usd(journal) <= MaxOpenExposure + extra
    /\ realized_pnl(journal) - open_exposure_usd(journal)
           > -(MaxDailyLoss + MaxOpenExposure + extra)

ExposureInv ==
    /\ BookWithin(Slip)
    /\ \A e \in Events : event_exposure_usd(journal, e) <= MaxEventExposure + Slip
    /\ pc \in Managing =>
           /\ cur.stake \in Stakes /\ cur.leg \in Legs
           /\ BookWithin(0)
           /\ event_exposure_usd(journal, cur.leg.event) <= MaxEventExposure

LEMMA MinStake ==
    /\ Min(Stakes) \in Stakes /\ \A s \in Stakes : s \in Nat /\ Min(Stakes) <= s /\ s <= Shares
    /\ Slip \in Nat /\ Shares \in Nat
  <1>1. Stakes \subseteq Nat /\ Stakes # {} /\ Shares \in Nat
        /\ \A s \in Stakes : s \in Nat /\ s <= Shares
    BY StakesAssumption, SharesAssumption
  <1>2. PICK n \in Stakes : \A s \in Stakes : ~(<<s, n>> \in OpToRel(<, Nat))
    BY <1>1, NatLessThanWellFounded, WFMin
  <1>3. \A s \in Stakes : n <= s
    <2>1. \A s \in Stakes : ~(s < n)
      BY <1>1, <1>2 DEF OpToRel
    <2> QED BY <1>1, <2>1
  <1>4. Min(Stakes) \in Stakes /\ \A s \in Stakes : Min(Stakes) <= s
    BY <1>3 DEF Min
  <1>5. Min(Stakes) \in Nat /\ Min(Stakes) <= Shares
    BY <1>1, <1>4
  <1>6. Slip \in Nat
    BY <1>1, <1>5 DEF Slip
  <1> QED BY <1>1, <1>4, <1>6

LEMMA BookType ==
    ASSUME IndInv
    PROVE  /\ journal \in Seq(Row)
           /\ open_exposure_usd(journal) \in Nat /\ realized_pnl(journal) \in Int
           /\ \A e : event_exposure_usd(journal, e) \in Nat
           /\ MaxOpenExposure \in Nat /\ MaxEventExposure \in Nat /\ MaxDailyLoss \in Nat
  <1>1. journal \in Seq(Row)
    BY DEF IndInv, IInv, TypeOK
  <1>2. open_exposure_usd(journal) \in Nat /\ realized_pnl(journal) \in Int
    BY <1>1, ExposureIs, PnlIs DEF open_exposure_usd
  <1>3. \A e : event_exposure_usd(journal, e) \in Nat
    BY <1>1, ExposureIs DEF event_exposure_usd
  <1> QED BY <1>1, <1>2, <1>3, LimitsAssumption

\* The sums stay, and no order is begun.
SameBook ==
    /\ open_exposure_usd(journal') = open_exposure_usd(journal)
    /\ realized_pnl(journal') = realized_pnl(journal)
    /\ \A e : event_exposure_usd(journal', e) = event_exposure_usd(journal, e)

LEMMA SameBookKeeps ==
    ASSUME ExposureInv, SameBook, pc' \in Managing => pc \in Managing /\ cur' = cur
    PROVE  ExposureInv'
  BY DEF ExposureInv, SameBook, BookWithin, Slip

LEMMA QuietRowsKeep ==
    ASSUME IndInv, ExposureInv, InTheLoop, AddsNothing \/ AddsOrder
    PROVE  ExposureInv'
  <1>1. CASE AddsNothing
    <2>1. SameBook
      BY <1>1 DEF AddsNothing, SameBook
    <2> QED BY <2>1, SameBookKeeps DEF InTheLoop
  <1>2. CASE AddsOrder
    <2>1. PICK r \in Row : r.type = "ORDER" /\ journal' = Append(journal, r)
      BY <1>2 DEF AddsOrder
    <2>2. SameBook
      BY <2>1, BookType, OrderRowSums DEF SameBook, open_exposure_usd, event_exposure_usd
    <2> QED BY <2>2, SameBookKeeps DEF InTheLoop
  <1> QED BY <1>1, <1>2

\* The risk check admits the order with its quoted stake.
LEMMA AdmittedWithin ==
    ASSUME IndInv, ExposureInv, NEW r \in tick.rows, NEW s \in Stakes, record_intent(r, s)
    PROVE  ExposureInv'
  <1>0. /\ journal \in Seq(Row) /\ nextIntent \in Nat
        /\ r[1] \in Profiles /\ r[2] \in Legs /\ r[2].event \in Events /\ s \in Nat
        /\ \A k \in DOMAIN journal : journal[k].intent < nextIntent /\ journal[k].intent \in Nat
    <2>1. /\ journal \in Seq(Row) /\ nextIntent \in Nat /\ tick \in TickLocals /\ IdsFresh
      BY DEF IndInv, IInv, TypeOK, Consistent
    <2>2. r[1] \in Profiles /\ r[2] \in Legs /\ s \in Nat
      BY <2>1, MinStake DEF TickLocals
    <2>3. \A k \in DOMAIN journal : journal[k] \in Row
      BY <2>1
    <2> QED BY <2>1, <2>2, <2>3, LegType DEF IdsFresh, Row
  <1> DEFINE new == IntentRow(nextIntent, r[1], r[2], s)
  <1>1. /\ new \in Row /\ new.type = "INTENT" /\ new.intent = nextIntent
        /\ new.leg = r[2] /\ new.stake = s
    BY <1>0, IntentRowType DEF IntentRow
  <1>2. cur' = new /\ journal' = Append(journal, new) /\ ~TickStop /\ WithinLimits(r[2], s)
    BY DEF record_intent
  <1> HIDE DEF new
  <1>3. \A k \in DOMAIN journal : journal[k].intent # new.intent
    BY <1>0, <1>1
  <1>4. /\ realized_pnl(journal') = realized_pnl(journal)
        /\ open_exposure_usd(journal') = open_exposure_usd(journal) + s
        /\ event_exposure_usd(journal', r[2].event) = event_exposure_usd(journal, r[2].event) + s
        /\ \A e \in Events \ {r[2].event} :
               event_exposure_usd(journal', e) = event_exposure_usd(journal, e)
    <2>1. /\ realized_pnl(journal') = realized_pnl(journal)
          /\ \A evs : Exposure(journal', evs) =
                          Exposure(journal, evs) + (IF new.leg.event \in evs THEN new.stake ELSE 0)
      BY <1>0, <1>1, <1>2, <1>3, IntentRowSums
    <2>2. Exposure(journal', Events) = Exposure(journal, Events) + s
      BY <1>0, <1>1, <2>1
    <2>3. Exposure(journal', {r[2].event}) = Exposure(journal, {r[2].event}) + s
      BY <1>0, <1>1, <2>1
    <2>4. ASSUME NEW e \in Events \ {r[2].event}
          PROVE  Exposure(journal', {e}) = Exposure(journal, {e})
      <3>1. Exposure(journal', {e}) = Exposure(journal, {e}) + 0
        BY <1>1, <2>1
      <3>2. Exposure(journal, {e}) \in Nat
        BY <1>0, ExposureIs
      <3> QED BY <3>1, <3>2
    <2> QED BY <2>1, <2>2, <2>3, <2>4 DEF open_exposure_usd, event_exposure_usd
  <1> DEFINE open == open_exposure_usd(journal)
             pnl == realized_pnl(journal)
             spent(e) == event_exposure_usd(journal, e)
  <1>5. /\ pnl \in Int /\ open \in Nat /\ Slip \in Nat /\ \A e : spent(e) \in Nat
        /\ MaxOpenExposure \in Nat /\ MaxEventExposure \in Nat /\ MaxDailyLoss \in Nat
    BY BookType, MinStake
  <1>6. /\ open + s <= MaxOpenExposure /\ spent(r[2].event) + s <= MaxEventExposure
        /\ ~(pnl <= -MaxDailyLoss)
    BY <1>2 DEF WithinLimits, TickStop
  <1>7. \A e \in Events : spent(e) <= MaxEventExposure + Slip
    BY DEF ExposureInv
  <1>8. /\ open + s <= MaxOpenExposure + 0 /\ open + s <= MaxOpenExposure + Slip
        /\ pnl - (open + s) > -(MaxDailyLoss + MaxOpenExposure + 0)
        /\ pnl - (open + s) > -(MaxDailyLoss + MaxOpenExposure + Slip)
    <2> HIDE DEF open, pnl, spent
    <2> QED BY <1>0, <1>5, <1>6
  <1>9. BookWithin(0)' /\ BookWithin(Slip)'
    BY <1>4, <1>8 DEF BookWithin, Slip
  <1>10. \A e \in Events : event_exposure_usd(journal', e) <= MaxEventExposure + Slip
    <2>1. spent(r[2].event) + s <= MaxEventExposure + Slip
      <3> HIDE DEF spent
      <3> QED BY <1>0, <1>5, <1>6
    <2> QED BY <1>4, <1>7, <2>1
  <1>11. cur'.stake \in Stakes /\ cur'.leg = r[2]
    BY <1>1, <1>2
  <1>12. event_exposure_usd(journal', cur'.leg.event) <= MaxEventExposure
    BY <1>4, <1>6, <1>11
  <1> QED BY <1>0, <1>9, <1>10, <1>11, <1>12 DEF ExposureInv, Slip

\* A RESULT: of the order being managed, at most Shares against a quote of at
\* least the smallest; of a stale intent, nothing against its quote.
LEMMA ResultWithin ==
    ASSUME IndInv, LedgerInv, ExposureInv, NEW r \in Row, NEW n \in InFlight(journal),
           Closes(r, journal[n]), journal' = Append(journal, r), pc' \notin Managing,
           r.stake = r.filled,
           \/ r.filled = 0
           \/ pc \in Managing /\ journal[n] = cur /\ r.filled <= Shares
    PROVE  ExposureInv'
  <1> DEFINE quote == journal[n].stake
             cost == IF r.filled > 0 THEN r.stake ELSE 0
             event == journal[n].leg.event
             open == open_exposure_usd(journal)
             pnl == realized_pnl(journal)
             spent(e) == event_exposure_usd(journal, e)
  <1>0. /\ journal \in Seq(Row) /\ n \in DOMAIN journal /\ journal[n] \in Row
        /\ journal[n].type = "INTENT" /\ r.type = "RESULT" /\ r.intent = journal[n].intent
        /\ ~HasResult(journal, r.intent)
    BY DEF IndInv, IInv, TypeOK, InFlight, Closes
  <1>1. /\ quote \in Nat /\ cost \in Nat /\ cost = r.filled /\ event \in Events
    BY <1>0, LegType DEF Row
  <1>2. \A k \in DOMAIN journal :
            journal[k].type = "INTENT" /\ journal[k].intent = r.intent => k = n
    BY <1>0 DEF LedgerInv, IntentsUnique
  <1>3. ~IsSettled(journal, r.intent)
    <2> SUFFICES ASSUME NEW k \in DOMAIN journal, journal[k].type = "SETTLE",
                        journal[k].intent = r.intent
                 PROVE  FALSE
      BY DEF IsSettled
    <2>1. PICK m \in 1..(k - 1) : journal[m].type = "RESULT" /\ journal[m].intent = journal[k].intent
      BY DEF LedgerInv, PaidOnceForItsShares
    <2>2. m \in DOMAIN journal
      BY <1>0, <2>1
    <2> QED BY <1>0, <2>1, <2>2 DEF HasResult
  <1>4. /\ realized_pnl(journal') = pnl
        /\ open_exposure_usd(journal') + quote = open + cost
        /\ event_exposure_usd(journal', event) + quote = spent(event) + cost
        /\ \A e \in Events \ {event} : event_exposure_usd(journal', e) = spent(e)
    <2>1. /\ realized_pnl(journal') = pnl
          /\ \A evs : event \in evs =>
                          Exposure(journal', evs) + quote = Exposure(journal, evs) + cost
          /\ \A evs : event \notin evs => Exposure(journal', evs) = Exposure(journal, evs)
      BY <1>0, <1>2, <1>3, ResultRowSums
    <2> QED BY <1>1, <2>1 DEF open_exposure_usd, event_exposure_usd
  <1>5. /\ pnl \in Int /\ open \in Nat /\ \A e : spent(e) \in Nat
        /\ MaxOpenExposure \in Nat /\ MaxEventExposure \in Nat /\ MaxDailyLoss \in Nat
    BY BookType
  <1>6. /\ journal' \in Seq(Row)
        /\ open_exposure_usd(journal') \in Nat /\ event_exposure_usd(journal', event) \in Nat
    <2>1. journal' \in Seq(Row)
      BY <1>0
    <2> QED BY <2>1, ExposureIs DEF open_exposure_usd, event_exposure_usd
  <1>7. \A e \in Events : spent(e) <= MaxEventExposure + Slip
    BY DEF ExposureInv
  <1> DEFINE open2 == open_exposure_usd(journal')
             spent2 == event_exposure_usd(journal', event)
  <1>8. /\ open2 <= MaxOpenExposure + Slip
        /\ pnl - open2 > -(MaxDailyLoss + MaxOpenExposure + Slip)
        /\ spent2 <= MaxEventExposure + Slip
    <2>1. CASE r.filled = 0
      <3>1. cost = 0
        BY <1>1, <2>1
      <3>2. /\ open <= MaxOpenExposure + Slip /\ spent(event) <= MaxEventExposure + Slip
            /\ pnl - open > -(MaxDailyLoss + MaxOpenExposure + Slip)
        BY <1>1, <1>7 DEF ExposureInv, BookWithin
      <3>3. spent(event) \in Nat /\ Slip \in Nat /\ open2 \in Nat /\ spent2 \in Nat
        BY <1>5, <1>6, MinStake
      <3>4. open2 + quote = open + cost /\ spent2 + quote = spent(event) + cost
        BY <1>4
      <3> HIDE DEF open, pnl, spent, quote, cost, event, open2, spent2
      <3> QED BY <1>1, <1>5, <3>1, <3>2, <3>3, <3>4
    <2>2. CASE pc \in Managing /\ journal[n] = cur /\ r.filled <= Shares
      <3>1. /\ open <= MaxOpenExposure + 0 /\ spent(event) <= MaxEventExposure
            /\ pnl - open > -(MaxDailyLoss + MaxOpenExposure + 0) /\ quote \in Stakes
        BY <2>2 DEF ExposureInv, BookWithin
      <3>2. cost <= Shares /\ Min(Stakes) <= quote /\ Min(Stakes) \in Nat /\ Shares \in Nat
            /\ Slip = Shares - Min(Stakes)
        BY <1>1, <2>2, <3>1, MinStake DEF Slip
      <3>3. spent(event) \in Nat /\ Slip \in Nat /\ open2 \in Nat /\ spent2 \in Nat
        BY <1>5, <1>6, MinStake
      <3>4. open2 + quote = open + cost /\ spent2 + quote = spent(event) + cost
        BY <1>4
      <3> HIDE DEF open, pnl, spent, quote, cost, event, open2, spent2
      <3>5. open2 <= open + Slip /\ spent2 <= spent(event) + Slip
        <4>1. ASSUME NEW a \in Nat, NEW b \in Nat, a + quote = b + cost
              PROVE  a <= b + Slip
          BY <1>1, <3>2, <4>1
        <4> QED BY <1>5, <3>3, <3>4, <4>1
      <3> QED BY <1>5, <3>1, <3>3, <3>5
    <2> QED BY <2>1, <2>2
  <1>9. BookWithin(Slip)'
    BY <1>4, <1>8 DEF BookWithin, Slip
  <1>10. \A e \in Events : event_exposure_usd(journal', e) <= MaxEventExposure + Slip
    BY <1>4, <1>7, <1>8
  <1> QED BY <1>9, <1>10 DEF ExposureInv, Slip

\* What record_result and resolve_stale_intent write.
LEMMA ResultKinds ==
    ASSUME IndInv, LedgerInv, AgreeInv, ExposureInv, RecordResult
    PROVE  ExposureInv'
  <1>0. /\ TypeOK /\ Consistent /\ pc = "result" /\ pc \in Managing /\ pc' \notin Managing
        /\ journal \in Seq(Row) /\ exch \in Seq(ExchangeOrder) /\ result \in Snapshot
    BY DEF IndInv, IInv, TypeOK, RecordResult, Managing
  <1>1. cur \in Row /\ ~HasResult(journal, cur.intent)
    BY <1>0, CurIsOld
  <1>2. PICK n \in DOMAIN journal : journal[n] = cur /\ cur.type = "INTENT"
    BY <1>0 DEF LedgerInv, CurInJournal
  <1>3. n \in InFlight(journal)
    BY <1>1, <1>2 DEF InFlight
  <1> DEFINE r == ResultRow(cur, result)
  <1>4. r \in Row /\ Closes(r, journal[n]) /\ r.stake = r.filled /\ r.filled = result.filled
    BY <1>0, <1>1, <1>2, ResultRowType DEF ResultRow, Closes, Row
  <1>5. result.filled <= Shares
    <2>1. Backed(result, cur.intent, cur.leg, exch)
      BY <1>0 DEF AgreeInv, ResultSound, Sound
    <2>2. CASE result.filled > 0
      <3>1. PICK o \in DOMAIN exch : result.filled <= exch[o].filled
        BY <2>1, <2>2 DEF Backed
      <3>2. exch[o].filled \in Nat /\ exch[o].filled <= Shares
        BY <1>0, OrderType
      <3> QED BY <1>0, <3>1, <3>2, MinStake DEF Snapshot
    <2>3. CASE ~(result.filled > 0)
      BY <1>0, <2>3, MinStake DEF Snapshot
    <2> QED BY <2>2, <2>3
  <1>6. journal' = Append(journal, r)
    BY DEF RecordResult
  <1> HIDE DEF r
  <1> QED BY <1>0, <1>2, <1>3, <1>4, <1>5, <1>6, ResultWithin

LEMMA StaleWithin ==
    ASSUME IndInv, LedgerInv, AgreeInv, ExposureInv,
           NEW i \in rec.todo, ResolveStaleIntent(i)
    PROVE  ExposureInv'
  <1>0. /\ TypeOK /\ Consistent /\ pc = "r_write" /\ pc' \notin Managing
        /\ journal \in Seq(Row) /\ rec \in ReconcileLocals /\ rec.found \in Snapshot
    BY DEF IndInv, IInv, TypeOK, ReconcileLocals, ResolveStaleIntent, Managing
  <1>1. Intended(i) /\ ~HasResult(journal, i)
    BY <1>0 DEF Consistent, TodoUnresolved
  <1> DEFINE n == CHOOSE k \in DOMAIN journal : journal[k].type = "INTENT" /\ journal[k].intent = i
  <1>2. n \in DOMAIN journal /\ journal[n].type = "INTENT" /\ journal[n].intent = i
    BY <1>1 DEF Intended
  <1>3. IntentOf(journal, i) = journal[n]
    BY DEF IntentOf
  <1> HIDE DEF n
  <1>4. n \in InFlight(journal) /\ journal[n] \in Row
    BY <1>0, <1>1, <1>2 DEF InFlight
  <1> DEFINE r == ResultRow(journal[n], rec.found)
  <1>5. r \in Row /\ Closes(r, journal[n]) /\ r.stake = r.filled /\ r.filled = rec.found.filled
    BY <1>0, <1>4, ResultRowType DEF ResultRow, Closes, Row
  <1>6. rec.found.filled = 0
    BY <1>0 DEF AgreeInv, FoundSound
  <1>7. journal' = Append(journal, r)
    BY <1>3 DEF ResolveStaleIntent
  <1> HIDE DEF r
  <1> QED BY <1>0, <1>4, <1>5, <1>6, <1>7, ResultWithin

\* A settlement only lowers the exposure, and never the worst case.
LEMMA SettlementWithin ==
    ASSUME IndInv, IndInv', LedgerInv', ExposureInv, NEW e \in Events, record_settlement(e)
    PROVE  ExposureInv'
  <1>1. Extended /\ \A k \in DOMAIN journal' \ DOMAIN journal : journal'[k].type = "SETTLE"
    BY SettlementRows
  <1>2. journal \in Seq(Row) /\ journal' \in Seq(Row) /\ Grows(journal, journal')
    BY <1>1 DEF IndInv, IInv, TypeOK, Extended, Grows
  <1>3. PaymentsOf(journal')
    <2>1. OneResult' /\ PaidOnceForItsShares'
      BY DEF IndInv, IInv, Consistent, LedgerInv
    <2>2. ASSUME NEW k \in DOMAIN journal', journal'[k].type = "SETTLE"
          PROVE  \E n \in DOMAIN journal' : /\ journal'[n].type = "RESULT"
                                            /\ journal'[n].intent = journal'[k].intent
                                            /\ journal'[n].filled > 0
      <3>1. PICK n \in 1..(k - 1) : /\ journal'[n].type = "RESULT"
                                    /\ journal'[n].intent = journal'[k].intent
                                    /\ journal'[n].filled > 0
        BY <2>1, <2>2 DEF PaidOnceForItsShares
      <3>2. n \in DOMAIN journal'
        BY <1>2, <3>1
      <3> QED BY <3>1, <3>2
    <2> QED BY <2>1, <2>2 DEF OneResult, PaidOnceForItsShares, PaymentsOf
  <1>4. /\ \A evs : Exposure(journal', evs) <= Exposure(journal, evs)
        /\ realized_pnl(journal') - open_exposure_usd(journal') >=
               realized_pnl(journal) - open_exposure_usd(journal)
    BY <1>1, <1>2, <1>3, SettlementSums
  <1>5. /\ realized_pnl(journal) \in Int /\ realized_pnl(journal') \in Int
        /\ \A evs : Exposure(journal, evs) \in Nat /\ Exposure(journal', evs) \in Nat
        /\ MaxOpenExposure \in Nat /\ MaxEventExposure \in Nat /\ MaxDailyLoss \in Nat
        /\ Slip \in Nat
    BY <1>2, PnlIs, ExposureIs, BookType, MinStake
  <1>6. BookWithin(Slip)'
    <2>1. BookWithin(Slip)
      BY DEF ExposureInv
    <2> QED BY <1>4, <1>5, <2>1 DEF BookWithin, open_exposure_usd, Slip
  <1>7. \A f \in Events : event_exposure_usd(journal', f) <= MaxEventExposure + Slip
    <2>1. \A f \in Events : event_exposure_usd(journal, f) <= MaxEventExposure + Slip
      BY DEF ExposureInv
    <2> QED BY <1>4, <1>5, <2>1 DEF event_exposure_usd
  <1>8. pc' \notin Managing
    BY DEF record_settlement, Managing
  <1> QED BY <1>6, <1>7, <1>8 DEF ExposureInv, Slip

-----------------------------------------------------------------------------
(* The theorems.                                                           *)

\* Every step keeps the book within its limits.
LEMMA ExposureNext ==
    ASSUME IndInv, LedgerInv, AgreeInv, ExposureInv, [Next]_vars, IndInv', LedgerInv'
    PROVE  ExposureInv'
  <1>1. CASE RecordResult
    BY <1>1, ResultKinds
  <1>2. ASSUME NEW i \in rec.todo, ResolveStaleIntent(i)
        PROVE  ExposureInv'
    BY <1>2, StaleWithin
  <1>3. ASSUME NEW r \in tick.rows, NEW s \in Stakes, record_intent(r, s)
        PROVE  ExposureInv'
    BY <1>3, AdmittedWithin
  <1>4. ASSUME NEW e \in Events, record_settlement(e)
        PROVE  ExposureInv'
    BY <1>4, SettlementWithin
  <1>5. ASSUME NEW p \in Profiles, NextProfile(p)
        PROVE  ExposureInv'
    <2>1. journal' = journal /\ pc' \notin Managing
      BY <1>5 DEF NextProfile, Managing
    <2>2. SameBook
      BY <2>1 DEF SameBook
    <2> QED BY <2>1, <2>2, SameBookKeeps
  <1>6. CASE InTheLoop /\ (AddsNothing \/ AddsOrder)
    BY <1>6, QuietRowsKeep
  <1>7. CurInJournal
    BY DEF LedgerInv
  <1> QED BY <1>1, <1>2, <1>3, <1>4, <1>5, <1>6, <1>7, Kinds DEF WritesResult

LEMMA ExposureInit ==
    ASSUME Init
    PROVE  ExposureInv
  <1>1. journal = <<>> /\ journal \in Seq(Row) /\ DOMAIN journal = {} /\ pc \notin Managing
    BY DEF Init, Managing
  <1>2. /\ \A evs : OpenRows(journal, evs) = {}
        /\ Settled(journal) = {}
    BY <1>1 DEF OpenRows, Held, InFlight, Settled
  <1>3. (\A evs : Exposure(journal, evs) = 0) /\ realized_pnl(journal) = 0
    BY <1>1, <1>2, ExposureIs, PnlIs, SumEmpty
  <1>4. /\ MaxOpenExposure \in Nat /\ MaxEventExposure \in Nat /\ MaxDailyLoss \in Nat \ {0}
        /\ Slip \in Nat
    BY LimitsAssumption, MinStake
  <1> QED BY <1>1, <1>3, <1>4
          DEF ExposureInv, BookWithin, open_exposure_usd, event_exposure_usd

(* The limits, asked of the ledger before each order, hold of the ledger at *)
(* all times up to the slippage of one order, and exactly while an order is *)
(* in the loop: no interleaving of late fills, lost answers, crashes and    *)
(* reconciliations adds up more than one overshoot.                         *)
THEOREM ExposureInvariant == Spec => []ExposureInv
  <1>1. Init => ExposureInv
    BY ExposureInit
  <1>2. /\ IndInv /\ IndInv' /\ LedgerInv /\ LedgerInv' /\ AgreeInv /\ ExposureInv
        /\ [Next]_vars
        => ExposureInv'
    BY ExposureNext
  <1> QED BY <1>1, <1>2, AlwaysInv, LedgerInvariant, AgreeInvariant, PTL DEF Spec

(* risk.evaluate: the total and the event caps, up to the slippage of one   *)
(* order.                                                                   *)
THEOREM ExposureWithinCapsHolds == Spec => []ExposureWithinCaps
  <1>1. ExposureInv => ExposureWithinCaps
    BY DEF ExposureInv, BookWithin, ExposureWithinCaps, Slip
  <1> QED BY <1>1, ExposureInvariant, PTL

(* What a day can cost at worst: its loss limit and one full book, although *)
(* the limit is asked of paid results only and orders go on until it is     *)
(* reached.                                                                 *)
THEOREM WorstCaseDayLossHolds == Spec => []WorstCaseDayLoss
  <1>1. ASSUME ExposureInv
        PROVE  WorstCaseDayLoss
    <2>1. realized_pnl(journal) - open_exposure_usd(journal)
              > -(MaxDailyLoss + MaxOpenExposure + (Shares - Min(Stakes)))
      BY <1>1 DEF ExposureInv, BookWithin, Slip
    <2>2. /\ MaxDailyLoss \in Int /\ MaxOpenExposure \in Int /\ Shares \in Int
          /\ Min(Stakes) \in Int
      BY LimitsAssumption, MinStake
    <2>3. MaxDailyLoss + MaxOpenExposure + (Shares - Min(Stakes)) =
              MaxDailyLoss + MaxOpenExposure + Shares - Min(Stakes)
      BY <2>2
    <2> QED BY <2>1, <2>3 DEF WorstCaseDayLoss
  <1> QED BY <1>1, ExposureInvariant, PTL

==============================================================================
