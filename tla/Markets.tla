------------------------------- MODULE Markets -------------------------------
(* Weather events as Polymarket publishes them, and what the program reads  *)
(* out of them (markets/polymarket.py).  A market of an event is one bucket *)
(* of Buckets; prices are in cents of a dollar.                             *)
EXTENDS Buckets

Cents == 100

\* outcomePrices: one, zero, anything between, or not readable ("none").
_parse_resolution(market) ==
    CASE market.price = "one" -> [resolved |-> TRUE, outcome |-> "YES"]
      [] market.price = "zero" -> [resolved |-> TRUE, outcome |-> "NO"]
      [] OTHER -> [resolved |-> market.closed, outcome |-> "none"]

\* parse_event_payload: the buckets of an event.  The listed spread is taken
\* to be the difference of the listed prices.
Parsed(market) ==
    LET r == _parse_resolution(market)
    IN  [label |-> market.label, bid |-> market.bid, ask |-> market.ask,
         liquidity |-> market.liquidity,
         spread |-> IF market.bid = None \/ market.ask = None THEN None
                    ELSE market.ask - market.bid,
         resolved |-> r.resolved, outcome |-> r.outcome, token |-> market.token]

parse_event_payload(markets) == [i \in DOMAIN markets |-> Parsed(markets[i])]

Winners(buckets) == {i \in DOMAIN buckets : buckets[i].resolved /\ buckets[i].outcome = "YES"}

\* The one winner, or None when there is none or more than one.
winning_label_from_event(buckets) ==
    IF Cardinality(Winners(buckets)) = 1
    THEN buckets[CHOOSE i \in Winners(buckets) : TRUE].label ELSE None

is_event_resolved(buckets) == \E i \in DOMAIN buckets : buckets[i].resolved

\* 0.999 and above: no price a trade can be made at.
is_untradeable_market_price(bucket) == bucket.ask # None /\ bucket.ask >= Cents

strip_untradeable_bucket_prices(buckets) ==
    [i \in DOMAIN buckets |->
        IF buckets[i].resolved \/ is_untradeable_market_price(buckets[i])
        THEN [buckets[i] EXCEPT !.bid = None, !.ask = None, !.spread = None]
        ELSE buckets[i]]

----------------------------------------------------------------------------
\* The live order book

\* A book has sets of bids and asks, each <<price, size>>.
_quote_from_book(book) ==
    LET Price(level) == level[1]
        bid == IF book.bids = {} THEN None ELSE Max({Price(l) : l \in book.bids})
        ask == IF book.asks = {} THEN None ELSE Min({Price(l) : l \in book.asks})
        notional == MapThenSumSet(LAMBDA l : l[1] * l[2], book.bids)
                        + MapThenSumSet(LAMBDA l : l[1] * l[2], book.asks)
    IN  [bid |-> bid, ask |-> ask,
         spread |-> IF bid = None \/ ask = None THEN None ELSE ask - bid,
         liquidity |-> IF notional > 0 THEN notional ELSE None]

\* fetch_clob_book: the answer names the tokens it has a book for.
fetch_clob_book(tokens, books) ==
    [t \in DOMAIN books \cap tokens |-> _quote_from_book(books[t])]

\* A bucket whose token has no book in the answer keeps the listed prices.
hydrate_prices(buckets, books) ==
    LET quotes == fetch_clob_book({buckets[i].token : i \in DOMAIN buckets} \ {None}, books)
    IN  [i \in DOMAIN buckets |->
            IF buckets[i].token \notin DOMAIN quotes THEN buckets[i]
            ELSE LET q == quotes[buckets[i].token]
                 IN  [buckets[i] EXCEPT !.bid = q.bid, !.ask = q.ask,
                                        !.spread = q.spread, !.liquidity = q.liquidity]]

\* What the analysis sees of a market.
to_market_prices(buckets) ==
    [i \in DOMAIN buckets |->
        [label |-> buckets[i].label, bid |-> buckets[i].bid, ask |-> buckets[i].ask,
         liquidity |-> buckets[i].liquidity, spread |-> buckets[i].spread]]

----------------------------------------------------------------------------
\* Which event is meant

\* An event has the cities its title or slug names, a date or None, whether
\* it is about the lowest temperature, and its labels.
Parseable(event) ==
    /\ event.labels # <<>>
    /\ \A i \in DOMAIN event.labels : parse_temperature_bucket(event.labels[i]) # None

\* The first of the events that fits, None if none does.
first_parseable_weather_event(events, city, date) ==
    LET fitting == {i \in DOMAIN events :
                       /\ ~events[i].lowest
                       /\ city # None => city \in events[i].cities
                       /\ date # None => events[i].date = date
                       /\ Parseable(events[i])}
    IN  IF fitting = {} THEN None ELSE events[Min(fitting)]

\* fetch_weather_events: open events of the day and the city, by volume; the
\* search is Gamma's, over titles, and at most limit of them come back, here
\* each at the place it is listed at.
fetch_weather_events(listed, limit, city, date) ==
    LET fitting == {i \in DOMAIN listed :
                       /\ city # None => city \in listed[i].cities
                       /\ date # None => listed[i].date = date}
        returned == {i \in fitting : Cardinality({j \in fitting : j < i}) < limit}
    IN  [i \in returned |-> listed[i]]

\* fetch_market_context: an event that was named is taken as it is.
EventFor(listed, limit, city, date) ==
    first_parseable_weather_event(fetch_weather_events(listed, limit, city, date), city, date)

----------------------------------------------------------------------------
\* What these promise

\* The markets of an event are settled one by one: later knows what now knew.
Later(now, later) ==
    \A i \in DOMAIN now : now[i].price \in {"one", "zero"} => later[i].price = now[i].price

WinnerKept(now, shown, shown_later, winner) ==
    /\ winner # None => /\ winning_label_from_event(shown_later) = winner
                        /\ is_event_resolved(shown)
    /\ \A i \in DOMAIN now :
          /\ now[i].price \in {"one", "zero"} => shown_later[i].ask = None /\ shown_later[i].bid = None
          /\ shown[i].bid # None /\ shown[i].ask # None =>
                shown[i].spread = shown[i].ask - shown[i].bid

WinnerIn(now, shown, shown_later) == WinnerKept(now, shown, shown_later, winning_label_from_event(shown))

(* While the markets of an event are settled one after the other, at most   *)
(* one of them for YES, the event may name its winner late but never names  *)
(* another one afterwards, and nothing in it that has an outcome is offered *)
(* for trading once untradeable prices are stripped, whether the book came  *)
(* before the outcome or after it.                                          *)
WinnerStands(now, later, books) ==
    LET Shown(markets) ==
            strip_untradeable_bucket_prices(hydrate_prices(parse_event_payload(markets), books))
    IN  Later(now, later) /\ Cardinality({i \in DOMAIN later : later[i].price = "one"}) <= 1 =>
            WinnerIn(now, Shown(now), Shown(later))

(* The event that is traded is the most traded one that asks for the        *)
(* highest temperature of that city on that day: an event about the lowest  *)
(* temperature, of another day, or with a bucket that is not understood     *)
(* never stands in for it, but enough of them ahead of it hide it (limit).  *)
EventIsTheMeantOne(listed, limit, city, date) ==
    LET found == EventFor(listed, limit, city, date)
        meant == {i \in DOMAIN listed :
                     /\ ~listed[i].lowest /\ city \in listed[i].cities
                     /\ listed[i].date = date /\ Parseable(listed[i])}
        ahead(i) == {j \in 1..i-1 : city \in listed[j].cities /\ listed[j].date = date}
    IN  IF meant = {} THEN found = None
        ELSE IF Cardinality(ahead(Min(meant))) < limit THEN found = listed[Min(meant)]
        ELSE found = None
=============================================================================
