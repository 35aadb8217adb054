-------------------------------- MODULE Desk --------------------------------
(* The questions that are put to Buckets and Markets: each is answered from *)
(* its inputs alone, whatever was asked before it.                          *)
EXTENDS Markets

VARIABLE question

\* Labels that name an interval, as those of an event that can be traded do.
Understood(labels) ==
    /\ labels \in Seq([form : {"above", "or_below", "or_higher", "range", "single"}, lo : Int, hi : Int])
    /\ \A i \in DOMAIN labels : labels[i].form = "range" => labels[i].lo <= labels[i].hi

\* The same event, read at two times.
SameEvent(now, later) ==
    /\ IsFiniteSet(DOMAIN now) /\ DOMAIN later = DOMAIN now
    /\ \A i \in DOMAIN now : later[i].label = now[i].label

\* What may be asked: a forecast has a mean, and a spread that is not zero; an
\* event is looked for in a city and on a day.
Askable(q) ==
    /\ q.about \in {"bell", "floor"} => Understood(q.labels) /\ q.mu \in Int /\ q.sigma \in Nat \ {0}
    /\ q.about = "spread" => /\ q.values \in Seq(Int) \ {<<>>} /\ q.default \in Nat \ {0}
                             /\ q.lead \in Int \cup {None} /\ q.later \in Int
    /\ q.about = "cap" => /\ Understood(q.labels) /\ q.labels # <<>>
                          /\ q.mean \in Int /\ q.sigma \in Int
                          /\ \A i \in 1..3 : q.asks[i] \in Int \cup {None}
    /\ q.about = "winner" => SameEvent(q.now, q.later)
    /\ q.about = "event" => /\ Len(q.listed) \in Nat /\ DOMAIN q.listed = 1..Len(q.listed)
                            /\ q.limit \in Nat /\ q.city # None /\ q.date # None

(* The probabilities of an event's buckets come from one distribution with  *)
(* the observed floor, its spread stays within its bounds, the event is the *)
(* one that was asked for, and a bucket that was seen to win stays the      *)
(* winner (bucket_math.py, distribution.py, polymarket.py).                 *)
MarketsAreRead ==
    LET q == question IN
    /\ q.about = "bell" => LabelsShareOneBell(q.labels, q.mu, q.sigma)
    /\ q.about = "floor" => ObservationRules(q.labels, q.mu, q.sigma, q.floor)
    /\ q.about = "spread" => SpreadBounds(q.values, q.default, q.lead, q.later)
    /\ q.about = "cap" => CapOnlyTightens(q.mean, q.sigma, q.labels, [i \in DOMAIN q.labels |-> q.asks[(i % 3) + 1]])
    /\ q.about = "winner" => WinnerStands(q.now, q.later, q.books)
    /\ q.about = "event" => EventIsTheMeantOne(q.listed, q.limit, q.city, q.date)
=============================================================================
