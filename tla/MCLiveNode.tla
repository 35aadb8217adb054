----------------------------- MODULE MCLiveNode -----------------------------
(* Small instances of LiveNode for TLC.                                    *)
EXTENDS LiveNode, TLC

CONSTANTS e1, e2, p1, p2, b1, b2

\* One profile that may buy two buckets of its event.
TwoLegs == {[event |-> e1, bucket |-> b1, side |-> SIDE_YES],
            [event |-> e1, bucket |-> b2, side |-> SIDE_NO]}

OneProfile == [p \in {p1} |-> e1]

OneLeg == {[event |-> e1, bucket |-> b1, side |-> SIDE_NO]}

\* Two profiles with an event each, one token per event.
TwoEvents == {[event |-> e1, bucket |-> b1, side |-> SIDE_YES],
              [event |-> e2, bucket |-> b2, side |-> SIDE_NO]}

TwoProfiles == [p \in {p1, p2} |-> IF p = p1 THEN e1 ELSE e2]
=============================================================================
