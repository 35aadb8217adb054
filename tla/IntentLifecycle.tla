--------------------------- MODULE IntentLifecycle ---------------------------
(***************************************************************************)
(* What the write-ahead journal promises about one trading intent, without *)
(* saying how: live/ledger.py, "the journal invariant".                    *)
(*                                                                         *)
(* An intent is intended before it is sent, sent at most once and only     *)
(* while its outcome is open; its outcome is booked once, for no more      *)
(* shares than the exchange filled by then, and never re-booked when the   *)
(* exchange fills more; booked shares are paid once, event by event.       *)
(***************************************************************************)
EXTENDS Integers

CONSTANTS Intents, MaxFill

VARIABLES
    stage,   \* none, intended, booked, paid
    sent,    \* intents whose order the exchange has
    filled,  \* shares the exchange filled
    booked   \* shares the ledger booked

vars == <<stage, sent, filled, booked>>

Init ==
    /\ stage = [i \in Intents |-> "none"]
    /\ sent = {}
    /\ filled = [i \in Intents |-> 0]
    /\ booked = [i \in Intents |-> 0]

Intend(i) ==
    /\ stage[i] = "none"
    /\ stage' = [stage EXCEPT ![i] = "intended"]
    /\ UNCHANGED <<sent, filled, booked>>

Send(i, n) ==
    /\ stage[i] = "intended"
    /\ i \notin sent
    /\ sent' = sent \cup {i}
    /\ filled' = [filled EXCEPT ![i] = n]
    /\ UNCHANGED <<stage, booked>>

Fill(i) ==
    /\ i \in sent
    /\ filled[i] < MaxFill
    /\ filled' = [filled EXCEPT ![i] = @ + 1]
    /\ UNCHANGED <<stage, sent, booked>>

Book(i, n) ==
    /\ stage[i] = "intended"
    /\ n <= filled[i]
    /\ stage' = [stage EXCEPT ![i] = "booked"]
    /\ booked' = [booked EXCEPT ![i] = n]
    /\ UNCHANGED <<sent, filled>>

Pay(S) ==
    /\ \A i \in S : stage[i] = "booked" /\ booked[i] > 0
    /\ stage' = [i \in Intents |-> IF i \in S THEN "paid" ELSE stage[i]]
    /\ UNCHANGED <<sent, filled, booked>>

\* Polls, cancels, readings of the ledger and the clock, crashes: nothing in
\* the life of an intent. [Next]_vars allows it anyway; it is a disjunct since
\* most steps of the node are like that, and TLC finds it first.
Unseen == UNCHANGED vars

Next ==
    \/ Unseen
    \/ \E i \in Intents : Intend(i) \/ Fill(i)
    \/ \E i \in Intents, n \in 0..MaxFill : Send(i, n) \/ Book(i, n)
    \/ \E S \in SUBSET Intents : Pay(S)

Spec == Init /\ [][Next]_vars
=============================================================================
