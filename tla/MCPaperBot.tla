----------------------------- MODULE MCPaperBot -----------------------------
(* Small instances of the paper bot for TLC.                               *)
EXTENDS PaperBot

CONSTANTS e1, e2, b1, b2, g1, g2, a1

\* Two buckets of one event; the gates of the next day only pass.
TwoLegs == {[event |-> e1, bucket |-> b1, side |-> SIDE_YES],
            [event |-> e1, bucket |-> b2, side |-> SIDE_NO]}

OneLeg == {[event |-> e1, bucket |-> b1, side |-> SIDE_YES]}

\* One gated wallet, at its gate on moment 1 and a day later on moment 3.
OneGate == [w \in {g1} |-> [e \in {e1, e2} |-> IF e = e1 THEN 1 ELSE 3]]

\* Two gated wallets with a gate each.
TwoGates == [w \in {g1, g2} |-> [e \in {e1} |-> IF w = g1 THEN 1 ELSE 2]]
=============================================================================
