----------------------------- MODULE MCCollector -----------------------------
(* Instance of Collector for TLC: a day of 12 ticks, watched across a midnight. *)
EXTENDS Collector

CONSTANTS s1, s2

Every(interval, anchor) == [interval |-> interval, anchor |-> anchor]

\* The file as shipped: the order books polled on a grid of their own.
Base ==
  << [name |-> "wunderground", obs |-> Every(2, 0), fc |-> Every(4, 0), stations |-> <<s1>>],
     [name |-> "polymarket_clob", obs |-> Every(12, 0), fc |-> Every(3, 1), stations |-> <<s1>>] >>

\* After an edit: another station, other intervals, a name no runner has.
Edited ==
  << [name |-> "open_meteo", obs |-> Every(12, 0), fc |-> Every(3, 0), stations |-> <<s2, s1>>],
     [name |-> "polymarket_clob", obs |-> Every(12, 0), fc |-> Every(2, 1), stations |-> <<s1>>],
     [name |-> "metar", obs |-> Every(6, 0), fc |-> Every(4, 2), stations |-> <<s1>>] >>

MCConfigs == {Base, Edited}
=============================================================================
