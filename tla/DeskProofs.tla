----------------------------- MODULE DeskProofs -----------------------------
(***************************************************************************)
(* Proofs about the calculations behind a forecast and behind the bets on  *)
(* it.  The first part is about RunTimes, CalibrationChoice and            *)
(* LiveForecast: which runs are fetched, which maxima and records are      *)
(* stored, which error a forecast is given and what Wunderground adds to   *)
(* it, for any length of the day and of a step, any models, rows, runs and *)
(* answers of the providers.  The second is about Strategies and Tickets:  *)
(* what a strategy buys and what is staked on it, for any event, prices,   *)
(* balance and budget.  The third is about Snapshots, Buckets and Markets: *)
(* what is rebuilt of the past, and what a forecast and an event say about *)
(* the buckets, for any history, labels, prices and order books.           *)
(***************************************************************************)
EXTENDS Snapshots, Tickets, Desk, SumProofs

-----------------------------------------------------------------------------
(* The smallest and the greatest of a few integers.                        *)

\* The least of a few integers is one of them, and no greater than any.
LEMMA MinIs ==
  ASSUME NEW S, IsFiniteSet(S), S # {}, S \subseteq Int
  PROVE  Min(S) \in S /\ \A y \in S : Min(S) <= y
<1>1. \E x \in S : \A y \in S : x <= y
  BY SmallestOf
<1> QED BY <1>1, Zenon DEF Min

\* The values of a function on a finite set are finitely many.
LEMMA ImageIsFinite ==
  ASSUME NEW S, IsFiniteSet(S), NEW f
  PROVE  IsFiniteSet({f[x] : x \in S})
<1> DEFINE F == {s \in SUBSET S : IsFiniteSet({f[x] : x \in s})}
<1>1. {} \in F
  <2>1. {f[x] : x \in {}} = {}
    OBVIOUS
  <2> QED BY <2>1, FS_EmptySet
<1>2. ASSUME NEW s \in SUBSET S, s # {}, \A x \in s : s \ {x} \in F
      PROVE  s \in F
  <2>1. PICK x \in s : TRUE
    BY <1>2
  <2> DEFINE some == {f[y] : y \in s \ {x}}
             all == {f[y] : y \in s}
  <2>2. IsFiniteSet(some)
    BY <1>2, <2>1
  <2>3. all = some \cup {f[x]}
    BY <2>1
  <2>4. IsFiniteSet(all)
    <3> HIDE DEF some, all
    <3> QED BY <2>2, <2>3, FS_AddElement
  <2> QED BY <2>4
<1> HIDE DEF F
<1>3. S \in F
  BY <1>1, <1>2, SetInduction
<1> QED BY <1>3 DEF F

\* The greatest of a few integers is one of them, and no less than any.
LEMMA MaxIs ==
  ASSUME NEW S, IsFiniteSet(S), S # {}, S \subseteq Int
  PROVE  Max(S) \in S /\ \A y \in S : y <= Max(S)
<1> DEFINE minus == [x \in S |-> 0 - x]
           N == {minus[x] : x \in S}
<1>1. IsFiniteSet(N) /\ N # {} /\ N \subseteq Int
  <2>1. IsFiniteSet(N)
    BY ImageIsFinite, Zenon
  <2>2. \A x \in S : minus[x] \in N /\ minus[x] \in Int
    OBVIOUS
  <2>3. N # {}
    BY <2>2
  <2>4. N \subseteq Int
    BY <2>2
  <2> QED BY <2>1, <2>3, <2>4
<1>2. PICK n \in N : \A m \in N : n <= m
  BY <1>1, SmallestOf
<1>3. PICK x \in S : n = 0 - x
  OBVIOUS
<1>4. \A y \in S : x >= y
  <2> TAKE y \in S
  <2>1. 0 - y \in N /\ n <= 0 - y
    BY <1>2
  <2> QED BY <1>3, <2>1
<1>5. Max(S) \in S /\ \A y \in S : Max(S) >= y
  BY <1>3, <1>4, Zenon DEF Max
<1>6. Max(S) \in Int /\ \A y \in S : y \in Int
  BY <1>5
<1> QED BY <1>5, <1>6

\* Highest is None exactly when there is nothing, and else the greatest.
LEMMA HighestIs ==
  ASSUME NEW S, IsFiniteSet(S), S \subseteq Int, None \notin Int
  PROVE  /\ S = {} => Highest(S) = None
         /\ S # {} => Highest(S) \in S /\ \A y \in S : y <= Highest(S)
         /\ (Highest(S) = None) <=> (S = {})
<1>1. CASE S = {}
  BY <1>1 DEF Highest
<1>2. CASE S # {}
  <2>1. Max(S) \in S /\ \A y \in S : y <= Max(S)
    BY <1>2, MaxIs
  <2> QED BY <1>2, <2>1 DEF Highest
<1> QED BY <1>1, <1>2

-----------------------------------------------------------------------------
(* Days and grids.                                                         *)

\* What dividing by a positive number leaves.
LEMMA DivMod ==
  ASSUME NEW a \in Int, NEW b \in Nat \ {0}
  PROVE  /\ a \div b \in Int /\ a % b \in 0 .. b - 1
         /\ a = b * (a \div b) + (a % b)
  BY SMT

\* Quotient and remainder are the only ones there are.
LEMMA ModIs ==
  ASSUME NEW a \in Int, NEW b \in Nat \ {0}, NEW q \in Int, NEW r \in 0 .. b - 1,
         a = b * q + r
  PROVE  a \div b = q /\ a % b = r
<1> DEFINE d == a \div b
           m == a % b
<1>1. d \in Int /\ m \in 0 .. b - 1 /\ a = b * d + m
  BY DivMod
<1> HIDE DEF d, m
<1>2. b * (q - d) = m - r /\ b * (d - q) = r - m
  BY <1>1
<1>3. CASE q >= d + 1
  <2>1. b * (q - d) >= b
    BY <1>1, <1>3
  <2> QED BY <1>1, <1>2, <2>1
<1>4. CASE d >= q + 1
  <2>1. b * (d - q) >= b
    BY <1>1, <1>4
  <2> QED BY <1>1, <1>2, <2>1
<1>5. q = d
  BY <1>1, <1>3, <1>4
<1>6. m = r
  BY <1>1, <1>5
<1> QED BY <1>5, <1>6 DEF d, m

\* Midnight is at most a day ago.
LEMMA MidnightIs ==
  ASSUME NEW t \in Int
  PROVE  /\ UtcMidnight(t) \in Int /\ t - UtcMidnight(t) \in 0 .. Day - 1
         /\ UtcMidnight(t) = Day * (t \div Day) /\ t \div Day \in Int
<1>1. Day \in Nat \ {0}
  BY RunTimesAssumption
<1>2. t \div Day \in Int /\ t % Day \in 0 .. Day - 1 /\ t = Day * (t \div Day) + (t % Day)
  BY <1>1, DivMod
<1> DEFINE d == t \div Day
<1> HIDE DEF d
<1>3. d * Day = Day * d /\ d * Day \in Int
  BY <1>1, <1>2 DEF d
<1> QED BY <1>1, <1>2, <1>3 DEF UtcMidnight, d

\* The midnight of an instant is the only one less than a day before it.
LEMMA MidnightOf ==
  ASSUME NEW d \in Int, NEW r \in 0 .. Day - 1
  PROVE  (Day * d + r) \in Int /\ UtcMidnight(Day * d + r) = Day * d
<1>1. Day \in Nat \ {0}
  BY RunTimesAssumption
<1>2. Day * d \in Int /\ d * Day = Day * d
  BY <1>1
<1>3. (Day * d + r) \div Day = d
  BY <1>1, <1>2, ModIs
<1> QED BY <1>1, <1>2, <1>3 DEF UtcMidnight

-----------------------------------------------------------------------------
(* Ranges of runs.                                                         *)

\* The last grid point not after an instant, counted from a midnight.
LEMMA FloorIs ==
  ASSUME NEW t \in Int, NEW interval \in Nat \ {0}
  PROVE  LET g == floor_run_time_to_init_grid(t, interval)
         IN  /\ g \in Int /\ g <= t /\ t < g + interval
             /\ \E k \in Int : g = UtcMidnight(t) + interval * k
<1> DEFINE m == UtcMidnight(t)
           k == (t - m) \div interval
           g == floor_run_time_to_init_grid(t, interval)
<1>1. m \in Int /\ t - m \in Int
  BY MidnightIs
<1>2. k \in Int /\ (t - m) % interval \in 0 .. interval - 1
      /\ t - m = interval * k + ((t - m) % interval)
  BY <1>1, DivMod
<1>3. g = m + k * interval
  BY DEF floor_run_time_to_init_grid
<1> HIDE DEF m, k, g
<1>4. k * interval = interval * k /\ interval * k \in Int
  BY <1>2
<1>5. g = m + interval * k
  BY <1>3, <1>4
<1>6. g \in Int /\ g <= t /\ t < g + interval
  BY <1>1, <1>2, <1>4, <1>5
<1>7. \E j \in Int : g = m + interval * j
  BY <1>2, <1>5
<1> QED BY <1>6, <1>7 DEF m, g

\* Whole intervals from one grid point lead to all of them, where the interval
\* divides the day.
LEMMA GridIs ==
  ASSUME NEW interval \in Nat \ {0}, Day % interval = 0, NEW t \in Int
  PROVE  /\ OnGrid(t, interval) <=> \E k \in Int : t = interval * k
         /\ \E k \in Int : UtcMidnight(t) = interval * k
<1>1. Day \in Nat \ {0}
  BY RunTimesAssumption
<1> DEFINE n == Day \div interval
           m == UtcMidnight(t)
           d == t \div Day
           r == (t - m) % interval
           q == (t - m) \div interval
<1>2. n \in Int /\ Day = interval * n
  BY <1>1, DivMod
<1>3. m \in Int /\ t - m \in Int /\ m = Day * d /\ d \in Int
  BY MidnightIs
<1>4. q \in Int /\ r \in 0 .. interval - 1 /\ t - m = interval * q + r
  BY <1>3, DivMod
<1> HIDE DEF n, m, d, q
<1>5. m = interval * (n * d) /\ n * d \in Int
  <2>1. n * d \in Int
    BY <1>2, <1>3
  <2>2. interval * (n * d) = (interval * n) * d
    BY <1>2, <1>3
  <2> QED BY <1>2, <1>3, <2>1, <2>2
<1>6. OnGrid(t, interval) => \E k \in Int : t = interval * k
  <2> SUFFICES ASSUME r = 0  PROVE \E k \in Int : t = interval * k
    BY DEF OnGrid, r, m
  <2> HIDE DEF r
  <2>1. t = interval * q + interval * (n * d)
    BY <1>3, <1>4, <1>5
  <2>2. interval * q + interval * (n * d) = interval * (q + n * d) /\ q + n * d \in Int
    BY <1>4, <1>5
  <2> QED BY <2>1, <2>2
<1>7. ASSUME NEW k \in Int, t = interval * k
      PROVE  OnGrid(t, interval)
  <2>1. k - n * d \in Int /\ interval * (k - n * d) = interval * k - interval * (n * d)
    BY <1>5
  <2>2. t - m = interval * (k - n * d) + 0
    BY <1>3, <1>5, <1>7, <2>1
  <2>3. (t - m) % interval = 0
    BY <1>3, <2>1, <2>2, ModIs
  <2> QED BY <2>3 DEF OnGrid, m
<1> QED BY <1>5, <1>6, <1>7 DEF m

(* A range of runs is the whole grid from the last init before its start to *)
(* its end, whatever divides the day.                                       *)
THEOREM RunsAreTheGrid ==
  ASSUME NEW start \in Int, NEW end \in Int, NEW interval \in Nat \ {0}
  PROVE  RangeIsTheGrid(start, end, interval)
<1> SUFFICES ASSUME Day % interval = 0, start <= end
             PROVE  runs_for_range(start, end, interval) =
                        {t \in start - interval + 1 .. end : OnGrid(t, interval)}
  BY DEF RangeIsTheGrid
<1> DEFINE g == floor_run_time_to_init_grid(start, interval)
           n == (end - g) \div interval
<1>1. g \in Int /\ g <= start /\ start < g + interval
      /\ \E k \in Int : g = UtcMidnight(start) + interval * k
  BY FloorIs
<1>2. PICK c \in Int : g = interval * c
  <2>1. PICK k \in Int : g = UtcMidnight(start) + interval * k
    BY <1>1
  <2>2. PICK j \in Int : UtcMidnight(start) = interval * j
    BY GridIs
  <2>3. interval * j + interval * k = interval * (j + k) /\ j + k \in Int
    OBVIOUS
  <2> QED BY <2>1, <2>2, <2>3
<1>3. runs_for_range(start, end, interval) = {g + k * interval : k \in 0 .. n}
  BY <1>1 DEF runs_for_range, generate_run_times_utc
<1>4. n \in Int /\ (end - g) % interval \in 0 .. interval - 1
      /\ end - g = interval * n + ((end - g) % interval)
  <2>1. end - g \in Int
    BY <1>1
  <2> HIDE DEF g
  <2> QED BY <2>1, DivMod
<1> DEFINE rest == (end - g) % interval
<1> HIDE DEF g, n, rest
<1>5. rest \in 0 .. interval - 1 /\ end = g + interval * n + rest /\ interval * n \in Int
  BY <1>1, <1>4 DEF rest
<1>6. ASSUME NEW k \in 0 .. n
      PROVE  /\ g + k * interval \in start - interval + 1 .. end
             /\ OnGrid(g + k * interval, interval)
  <2>1. k * interval = interval * k /\ interval * k \in Int /\ interval * k >= 0
    OBVIOUS
  <2>2. interval * k <= interval * n
    BY <1>4
  <2>3. g + k * interval = interval * (c + k) /\ c + k \in Int
    BY <1>2, <2>1
  <2>4. g + k * interval \in Int
    BY <1>1, <2>1
  <2>5. g + k * interval <= end
    BY <1>1, <1>5, <2>1, <2>2
  <2>6. OnGrid(g + k * interval, interval)
    BY <2>3, <2>4, GridIs
  <2>7. g + k * interval \in start - interval + 1 .. end
    BY <1>1, <2>1, <2>4, <2>5
  <2> QED BY <2>6, <2>7
<1>7. ASSUME NEW t \in start - interval + 1 .. end, OnGrid(t, interval)
      PROVE  \E k \in 0 .. n : t = g + k * interval
  <2>0. t \in Int
    BY <1>1
  <2>1. PICK j \in Int : t = interval * j
    BY <1>7, <2>0, GridIs
  <2> DEFINE k == j - c
  <2>2. k \in Int /\ k * interval = interval * k /\ interval * k = interval * j - interval * c
    OBVIOUS
  <2>3. t = g + interval * k
    BY <1>2, <2>1, <2>2
  <2> HIDE DEF k
  <2>4. CASE k < 0
    <3>1. interval * k <= 0 - interval
      BY <2>2, <2>4
    <3> QED BY <1>1, <2>2, <2>3, <3>1
  <2>5. CASE k > n
    <3>1. k >= n + 1
      BY <1>4, <2>2, <2>5
    <3>2. interval * k >= interval * (n + 1) /\ interval * (n + 1) = interval * n + interval
      BY <1>4, <2>2, <3>1
    <3>3. interval * k \in Int /\ interval * k >= interval * n + interval
      BY <2>2, <3>2, <1>5
    <3> QED BY <1>1, <1>5, <2>3, <3>3
  <2>6. CASE k \in 0 .. n
    <3>1. t = g + k * interval
      BY <2>2, <2>3
    <3> QED BY <2>6, <3>1
  <2>7. k < 0 \/ k > n \/ k \in 0 .. n
    BY <1>4, <2>2
  <2> QED BY <2>4, <2>5, <2>6, <2>7
<1> QED BY <1>3, <1>6, <1>7

-----------------------------------------------------------------------------
(* Planned runs.                                                           *)

\* An instant is an init when its hour of the day is one of RunHours.
IsInit(t) == t \in Int /\ t - UtcMidnight(t) \in RunHours

\* The hours of a day models are run at, from the assumptions.
LEMMA RunHoursAre ==
  /\ RunHours # {} /\ \A h \in RunHours : h \in 0 .. Day - 1 /\ h \in Int
  /\ IsFiniteSet(RunHours) /\ Day \in Nat \ {0}
<1>1. Day \in Nat \ {0} /\ RunHours \subseteq 0 .. Day - 1 /\ RunHours # {}
  BY RunTimesAssumption
<1>2. IsFiniteSet(RunHours)
  <2>1. IsFiniteSet(0 .. Day - 1)
    BY <1>1, FS_Interval
  <2> QED BY <1>1, <2>1, FS_Subset
<1> QED BY <1>1, <1>2

\* Two things are finitely many.
LEMMA PairIsFinite ==
  ASSUME NEW a, NEW b
  PROVE  IsFiniteSet({a, b})
<1>1. IsFiniteSet({a}) /\ {a} \cup {b} = {a, b}
  BY FS_Singleton
<1> QED BY <1>1, FS_AddElement, Zenon

\* The inits of some days around an instant are the inits of those days.
LEMMA InitsAroundAre ==
  ASSUME NEW t \in Int, NEW days \in SUBSET Int, IsFiniteSet(days)
  PROVE  /\ IsFiniteSet(InitsAround(t, days)) /\ InitsAround(t, days) \subseteq Int
         /\ \A c \in InitsAround(t, days) : IsInit(c)
         /\ \A c : IsInit(c) => (c \in InitsAround(t, days) <=>
                                    \E d \in days : UtcMidnight(c) = UtcMidnight(t) + d * Day)
<1> DEFINE m == UtcMidnight(t)
           f == [x \in days \X RunHours |-> m + x[1] * Day + x[2]]
<1>1. m \in Int /\ m = Day * (t \div Day) /\ t \div Day \in Int
  BY MidnightIs
<1>2. InitsAround(t, days) = {f[x] : x \in days \X RunHours}
  <2>1. \A d \in days, h \in RunHours : f[<<d, h>>] = m + d * Day + h
    OBVIOUS
  <2>2. \A x \in days \X RunHours :
            x[1] \in days /\ x[2] \in RunHours /\ f[x] = m + x[1] * Day + x[2]
    OBVIOUS
  <2>3. \A d \in days, h \in RunHours : <<d, h>> \in days \X RunHours
    OBVIOUS
  <2> HIDE DEF f
  <2>4. \A c : c \in InitsAround(t, days) <=> \E d \in days, h \in RunHours : c = m + d * Day + h
    BY DEF InitsAround
  <2>5. \A c : c \in {f[x] : x \in days \X RunHours} <=> \E x \in days \X RunHours : c = f[x]
    OBVIOUS
  <2> HIDE DEF m
  <2>6. ASSUME NEW c \in InitsAround(t, days)
        PROVE  c \in {f[x] : x \in days \X RunHours}
    <3>1. PICK d \in days, h \in RunHours : c = m + d * Day + h
      BY <2>4
    <3>2. c = f[<<d, h>>]
      BY <2>1, <3>1
    <3> QED BY <2>3, <3>2
  <2>7. ASSUME NEW c \in {f[x] : x \in days \X RunHours}
        PROVE  c \in InitsAround(t, days)
    <3>1. PICK x \in days \X RunHours : c = f[x]
      OBVIOUS
    <3>2. c = m + x[1] * Day + x[2] /\ x[1] \in days /\ x[2] \in RunHours
      BY <2>2, <3>1
    <3> QED BY <2>4, <3>2
  <2> QED BY <2>6, <2>7
<1>3. IsFiniteSet(days \X RunHours)
  BY RunHoursAre, FS_Product
<1>4. IsFiniteSet(InitsAround(t, days))
  <2> HIDE DEF f
  <2>1. IsFiniteSet({f[x] : x \in days \X RunHours})
    BY <1>3, ImageIsFinite
  <2> QED BY <1>2, <2>1
<1>5. ASSUME NEW d \in days, NEW h \in RunHours
      PROVE  /\ m + d * Day + h \in Int
             /\ UtcMidnight(m + d * Day + h) = m + d * Day
  <2> DEFINE e == (t \div Day) + d
  <2>1. e \in Int /\ h \in 0 .. Day - 1 /\ h \in Int /\ d \in Int /\ Day \in Nat \ {0}
    BY <1>1, RunHoursAre
  <2>2. Day * e = m + d * Day
    BY <1>1, <2>1
  <2>3. (Day * e + h) \in Int /\ UtcMidnight(Day * e + h) = Day * e
    BY <2>1, MidnightOf
  <2> QED BY <2>2, <2>3
<1>6. \A c \in InitsAround(t, days) : IsInit(c)
  <2> TAKE c \in InitsAround(t, days)
  <2>1. PICK d \in days, h \in RunHours : c = m + d * Day + h
    BY DEF InitsAround
  <2>2. c \in Int /\ UtcMidnight(c) = m + d * Day
    BY <1>5, <2>1
  <2>3. d \in Int /\ d * Day \in Int /\ h \in Int
    BY RunHoursAre
  <2>4. c - UtcMidnight(c) = h
    BY <1>1, <2>1, <2>2, <2>3
  <2> QED BY <2>2, <2>4 DEF IsInit
<1>7. ASSUME NEW c, IsInit(c)
      PROVE  c \in InitsAround(t, days) <=>
                 \E d \in days : UtcMidnight(c) = m + d * Day
  <2>1. ASSUME NEW d \in days, UtcMidnight(c) = m + d * Day
        PROVE  c \in InitsAround(t, days)
    <3> DEFINE h == c - UtcMidnight(c)
    <3>1. h \in RunHours /\ c \in Int /\ UtcMidnight(c) \in Int
      BY <1>7, MidnightIs DEF IsInit
    <3>2. c = m + d * Day + h
      BY <2>1, <3>1
    <3> QED BY <3>1, <3>2 DEF InitsAround
  <2>2. ASSUME c \in InitsAround(t, days)
        PROVE  \E d \in days : UtcMidnight(c) = m + d * Day
    <3>1. PICK d \in days, h \in RunHours : c = m + d * Day + h
      BY <2>2 DEF InitsAround
    <3> QED BY <1>5, <3>1
  <2> QED BY <2>1, <2>2
<1> QED BY <1>4, <1>6, <1>7 DEF IsInit

\* Midnights are whole days apart.
LEMMA DaysApart ==
  ASSUME NEW s \in Int, NEW t \in Int, s <= t
  PROVE  \/ UtcMidnight(t) = UtcMidnight(s)
         \/ UtcMidnight(t) = UtcMidnight(s) + Day
         \/ UtcMidnight(t) >= UtcMidnight(s) + 2 * Day
<1> DEFINE d == s \div Day
           e == t \div Day
           m == UtcMidnight(s)
           n == UtcMidnight(t)
<1>1. Day \in Nat \ {0}
  BY RunTimesAssumption
<1>2. /\ d \in Int /\ e \in Int /\ m \in Int /\ n \in Int
      /\ m = Day * d /\ n = Day * e /\ s - m \in 0 .. Day - 1 /\ t - n \in 0 .. Day - 1
  BY MidnightIs
<1> HIDE DEF d, e, m, n
<1>3. Day * (e - d) = n - m /\ e - d \in Int
  BY <1>1, <1>2
<1>4. CASE e - d <= 0 - 1
  <2>1. Day * (e - d) <= 0 - Day
    BY <1>1, <1>3, <1>4
  <2> QED BY <1>1, <1>2, <1>3, <2>1
<1>5. CASE e - d = 0
  BY <1>2, <1>3, <1>5, <1>1 DEF m, n
<1>6. CASE e - d = 1
  BY <1>2, <1>3, <1>6, <1>1 DEF m, n
<1>7. CASE e - d >= 2
  <2>1. Day * (e - d) >= 2 * Day
    BY <1>1, <1>3, <1>7
  <2> QED BY <1>1, <1>2, <1>3, <2>1 DEF m, n
<1> QED BY <1>3, <1>4, <1>5, <1>6, <1>7

\* The last init not after an instant, and the first one after it.
LEMMA SnapIs ==
  ASSUME NEW t \in Int
  PROVE  LET r == snap_run_time_to_model_init(t)
         IN  IsInit(r) /\ r <= t /\ \A c : IsInit(c) /\ c <= t => c <= r
<1> DEFINE m == UtcMidnight(t)
           around == InitsAround(t, {0, -1})
           past == {c \in around : c <= t}
           r == Max(past)
<1>1. Day \in Nat \ {0} /\ m \in Int /\ t - m \in 0 .. Day - 1
  BY RunHoursAre, MidnightIs
<1>2. /\ IsFiniteSet(around) /\ around \subseteq Int /\ \A c \in around : IsInit(c)
      /\ \A c : IsInit(c) => (c \in around <=> \E d \in {0, -1} : UtcMidnight(c) = m + d * Day)
  <2>1. IsFiniteSet({0, -1}) /\ {0, -1} \in SUBSET Int
    BY PairIsFinite
  <2> QED BY <2>1, InitsAroundAre
<1>3. past # {}
  <2>1. PICK h \in RunHours : h \in 0 .. Day - 1 /\ h \in Int
    BY RunHoursAre
  <2>2. m + (-1) * Day + h \in around
    BY <2>1 DEF InitsAround
  <2>3. m + (-1) * Day + h <= t
    BY <1>1, <2>1
  <2> QED BY <2>2, <2>3
<1>4. IsFiniteSet(past) /\ past \subseteq Int
  BY <1>2, FS_Subset
<1>5. r \in past /\ \A c \in past : c <= r
  <2> HIDE DEF past
  <2> QED BY <1>3, <1>4, MaxIs
<1> HIDE DEF around
<1>6. IsInit(r) /\ r <= t /\ r \in Int /\ r \in around
  BY <1>2, <1>5
<1>7. ASSUME NEW c, IsInit(c), c <= t
      PROVE  c <= r
  <2>1. c \in Int /\ UtcMidnight(c) \in Int /\ c - UtcMidnight(c) \in 0 .. Day - 1
    BY <1>7, MidnightIs DEF IsInit
  <2>2. CASE c \in around
    BY <1>5, <1>7, <2>2
  <2>3. CASE c \notin around
    <3>1. UtcMidnight(c) # m /\ UtcMidnight(c) # m - Day
      <4>1. 0 * Day = 0 /\ (-1) * Day = 0 - Day
        BY <1>1
      <4> QED BY <1>1, <1>2, <1>7, <2>1, <2>3, <4>1
    <3>2. m >= UtcMidnight(c) + 2 * Day
      BY <1>1, <1>7, <2>1, <3>1, DaysApart
    <3>3. PICK d \in {0, -1} : UtcMidnight(r) = m + d * Day
      BY <1>2, <1>6
    <3>4. UtcMidnight(r) \in Int /\ r - UtcMidnight(r) \in 0 .. Day - 1
      BY <1>6, MidnightIs
    <3> HIDE DEF m, r
    <3>5. UtcMidnight(r) >= m - Day
      BY <1>1, <3>3
    <3> QED BY <1>1, <1>6, <2>1, <3>2, <3>4, <3>5
  <2> QED BY <2>2, <2>3
<1>8. snap_run_time_to_model_init(t) = r
  BY DEF snap_run_time_to_model_init, around
<1> HIDE DEF r
<1> QED BY <1>6, <1>7, <1>8

\* The next run is the first one after the instant.
LEMMA NextIs ==
  ASSUME NEW t \in Int
  PROVE  LET r == next_synoptic_run_time(t)
         IN  IsInit(r) /\ r > t /\ \A c : IsInit(c) /\ c > t => c >= r
<1> DEFINE m == UtcMidnight(t)
           around == InitsAround(t, {0, 1})
           ahead == {c \in around : c > t}
           r == Min(ahead)
<1>1. Day \in Nat \ {0} /\ m \in Int /\ t - m \in 0 .. Day - 1
  BY RunHoursAre, MidnightIs
<1>2. /\ IsFiniteSet(around) /\ around \subseteq Int /\ \A c \in around : IsInit(c)
      /\ \A c : IsInit(c) => (c \in around <=> \E d \in {0, 1} : UtcMidnight(c) = m + d * Day)
  <2>1. IsFiniteSet({0, 1}) /\ {0, 1} \in SUBSET Int
    BY PairIsFinite
  <2> QED BY <2>1, InitsAroundAre
<1>3. ahead # {}
  <2>1. PICK h \in RunHours : h \in 0 .. Day - 1 /\ h \in Int
    BY RunHoursAre
  <2>2. m + 1 * Day + h \in around
    BY <2>1 DEF InitsAround
  <2>3. m + 1 * Day + h > t
    BY <1>1, <2>1
  <2> QED BY <2>2, <2>3
<1>4. IsFiniteSet(ahead) /\ ahead \subseteq Int
  BY <1>2, FS_Subset
<1>5. r \in ahead /\ \A c \in ahead : r <= c
  <2> HIDE DEF ahead
  <2> QED BY <1>3, <1>4, MinIs
<1> HIDE DEF around
<1>6. IsInit(r) /\ r > t /\ r \in Int /\ r \in around
  BY <1>2, <1>5
<1>7. ASSUME NEW c, IsInit(c), c > t
      PROVE  c >= r
  <2>1. c \in Int /\ UtcMidnight(c) \in Int /\ c - UtcMidnight(c) \in 0 .. Day - 1
    BY <1>7, MidnightIs DEF IsInit
  <2>2. CASE c \in around
    BY <1>5, <1>6, <1>7, <2>1, <2>2
  <2>3. CASE c \notin around
    <3>1. UtcMidnight(c) # m /\ UtcMidnight(c) # m + Day
      <4>1. 0 * Day = 0 /\ 1 * Day = Day
        BY <1>1
      <4> QED BY <1>1, <1>2, <1>7, <2>1, <2>3, <4>1
    <3>2. UtcMidnight(c) >= m + 2 * Day
      <4>1. t <= c
        BY <1>7, <2>1
      <4> QED BY <1>1, <2>1, <3>1, <4>1, DaysApart
    <3>3. PICK d \in {0, 1} : UtcMidnight(r) = m + d * Day
      BY <1>2, <1>6
    <3>4. UtcMidnight(r) \in Int /\ r - UtcMidnight(r) \in 0 .. Day - 1
      BY <1>6, MidnightIs
    <3> HIDE DEF m, r
    <3>5. UtcMidnight(r) <= m + Day
      BY <1>1, <3>3
    <3> QED BY <1>1, <1>6, <2>1, <3>2, <3>4, <3>5
  <2> QED BY <2>2, <2>3
<1>8. next_synoptic_run_time(t) = r
  BY DEF next_synoptic_run_time, around
<1> HIDE DEF r
<1> QED BY <1>6, <1>7, <1>8

\* What is tried for a job: its run and the init after it, each with the hours
\* that are left to the target day.
LEMMA TriesAre ==
  ASSUME NEW target \in Int, NEW offset \in Int, NEW run \in Int
  PROVE  LET tries == _run_times_to_try_for_job([target |-> target, run |-> run], offset)
             anchor == LocalMidnight(target, offset)
         IN  \A i \in DOMAIN tries :
                 /\ tries[i][1] + tries[i][2] = anchor
                 /\ tries[i][2] > 0 /\ tries[i][2] <= anchor - run
<1> DEFINE anchor == LocalMidnight(target, offset)
           later == next_synoptic_run_time(run)
           Before(r) == IF r < anchor THEN <<<<r, anchor - r>>>> ELSE <<>>
           tries == _run_times_to_try_for_job([target |-> target, run |-> run], offset)
<1>1. anchor \in Int
  BY RunHoursAre DEF LocalMidnight
<1>2. later \in Int /\ later > run
  BY NextIs DEF IsInit
<1>3. tries = Before(run) \o Before(later)
  BY DEF _run_times_to_try_for_job
<1>4. ASSUME NEW i \in DOMAIN tries
      PROVE  \/ tries[i] = <<run, anchor - run>> /\ run < anchor
             \/ tries[i] = <<later, anchor - later>> /\ later < anchor
  <2>1. CASE run < anchor /\ later < anchor
    <3>1. tries = <<<<run, anchor - run>>, <<later, anchor - later>>>>
      BY <1>3, <2>1
    <3> QED BY <2>1, <3>1
  <2>2. CASE run < anchor /\ ~(later < anchor)
    <3>1. tries = <<<<run, anchor - run>>>>
      BY <1>3, <2>2
    <3> QED BY <2>2, <3>1
  <2>3. CASE ~(run < anchor)
    <3>1. ~(later < anchor)
      BY <1>1, <1>2, <2>3
    <3>2. tries = <<>>
      BY <1>3, <2>3, <3>1
    <3> QED BY <3>2
  <2> QED BY <2>1, <2>2, <2>3
<1> HIDE DEF anchor, later, tries
<1>5. \A i \in DOMAIN tries :
          /\ tries[i][1] + tries[i][2] = anchor
          /\ tries[i][2] > 0 /\ tries[i][2] <= anchor - run
  BY <1>1, <1>2, <1>4
<1> QED BY <1>5 DEF tries, anchor

(* A planned run is never younger than the lead it stands for and older by  *)
(* less than the gap between two inits, and a second try is never earlier.  *)
THEOREM PlannedLeadsAreNotUnderstated ==
  ASSUME NEW target \in Int, NEW max_lead \in Int, NEW step \in Nat \ {0}, NEW offset \in Int
  PROVE  LeadsNotUnderstated(target, max_lead, step, offset)
<1> DEFINE anchor == LocalMidnight(target, offset)
           plan == generate_forecast_run_times(target, max_lead, step, offset)
           Snap(l) == snap_run_time_to_model_init(anchor - l)
           runs == {Snap(l) : l \in NominalLeads(max_lead, step)}
<1>1. anchor \in Int
  BY RunHoursAre DEF LocalMidnight
<1>2. plan = {<<r, anchor - r>> : r \in {r \in runs : anchor - r > 0}}
  BY DEF generate_forecast_run_times
<1> HIDE DEF anchor, plan
<1>3. ASSUME NEW l \in NominalLeads(max_lead, step)
      PROVE  /\ l \in Int /\ l > 0 /\ Snap(l) \in Int /\ Snap(l) <= anchor - l
             /\ \A c : IsInit(c) /\ c <= anchor - l => c <= Snap(l)
  <2>1. l \in Int /\ l > 0
    BY DEF NominalLeads
  <2>2. anchor - l \in Int
    BY <1>1, <2>1
  <2> QED BY <2>1, <2>2, SnapIs DEF IsInit
<1> HIDE DEF Snap
<1>4. ASSUME NEW nominal \in NominalLeads(max_lead, step)
      PROVE  \E x \in plan : x[2] >= nominal /\ x[2] < nominal + (next_synoptic_run_time(x[1]) - x[1])
  <2> DEFINE r == Snap(nominal)
             n == next_synoptic_run_time(r)
             x == <<r, anchor - r>>
  <2>1. nominal \in Int /\ nominal > 0 /\ r \in Int /\ r <= anchor - nominal
    BY <1>3
  <2>2. IsInit(n) /\ n \in Int /\ n > r
    BY <2>1, NextIs DEF IsInit
  <2>3. n > anchor - nominal
    <3> SUFFICES ASSUME n <= anchor - nominal  PROVE FALSE
      BY <1>1, <2>1, <2>2
    <3>1. n <= r
      BY <1>3, <2>2
    <3> QED BY <2>1, <2>2, <3>1
  <2>4. x \in plan
    <3>1. r \in runs /\ anchor - r > 0
      BY <1>1, <2>1
    <3> QED BY <1>2, <3>1
  <2> HIDE DEF r, n
  <2>5. x[2] >= nominal /\ x[2] < nominal + (n - r)
    BY <1>1, <2>1, <2>2, <2>3
  <2> QED BY <2>4, <2>5 DEF n
<1>5. ASSUME NEW x \in plan
      PROVE  LET tries == _run_times_to_try_for_job([target |-> target, run |-> x[1]], offset)
             IN  \A i \in DOMAIN tries :
                     /\ tries[i][1] + tries[i][2] = anchor
                     /\ tries[i][2] > 0 /\ tries[i][2] <= x[2]
  <2>1. PICK l \in NominalLeads(max_lead, step) : x = <<Snap(l), anchor - Snap(l)>>
    BY <1>2
  <2>2. x[1] \in Int /\ x[2] = anchor - x[1]
    BY <1>3, <2>1
  <2> QED BY <2>2, TriesAre DEF anchor
<1> QED BY <1>4, <1>5 DEF LeadsNotUnderstated, plan, anchor

-----------------------------------------------------------------------------
(* Daily maxima.                                                           *)

\* An hourly series of n whole days that begins at any hour, as the service
\* gives it: a value may be missing.
HourlyFrom(hours, first, n) ==
    /\ hours \in Seq([day : Int, hour : Int, temp : Int \cup {None}])
    /\ Len(hours) = Day * n
    /\ \A i \in 1 .. Len(hours) :
          hours[i].day = (first + i - 1) \div Day /\ hours[i].hour = (first + i - 1) % Day

\* An instant is in day d when it is less than a day after its midnight.
LEMMA DayIs ==
  ASSUME NEW t \in Int, NEW d \in Int
  PROVE  /\ (t \div Day = d) <=> (Day * d <= t /\ t < Day * d + Day)
         /\ t \div Day \in Int
<1>1. Day \in Nat \ {0}
  BY RunTimesAssumption
<1> DEFINE q == t \div Day
           r == t % Day
<1>2. q \in Int /\ r \in 0 .. Day - 1 /\ t = Day * q + r
  BY <1>1, DivMod
<1>3. Day * d \in Int
  BY <1>1
<1>4. ASSUME Day * d <= t, t < Day * d + Day
      PROVE  q = d
  <2>1. t - Day * d \in 0 .. Day - 1 /\ t = Day * d + (t - Day * d)
    BY <1>1, <1>3, <1>4
  <2> QED BY <1>1, <2>1, ModIs
<1> HIDE DEF q, r
<1>5. q = d => Day * d <= t /\ t < Day * d + Day
  BY <1>1, <1>2
<1> QED BY <1>2, <1>4, <1>5 DEF q

\* A later instant is of no earlier day.
LEMMA DaysInOrder ==
  ASSUME NEW s \in Int, NEW t \in Int, s <= t
  PROVE  s \div Day <= t \div Day
<1>1. Day \in Nat \ {0}
  BY RunTimesAssumption
<1> DEFINE d == s \div Day
           e == t \div Day
<1>2. /\ d \in Int /\ Day * d <= s /\ Day * d \in Int
      /\ e \in Int /\ t < Day * e + Day /\ Day * e \in Int
  BY <1>1, DayIs
<1> HIDE DEF d, e
<1>3. CASE d >= e + 1
  <2>1. Day * d >= Day * (e + 1) /\ Day * (e + 1) = Day * e + Day
    BY <1>1, <1>2, <1>3
  <2> QED BY <1>1, <1>2, <2>1
<1> QED BY <1>2, <1>3 DEF d, e

\* A day of the series that is neither its first nor cut off has all its hours.
LEMMA WholeDays ==
  ASSUME NEW first \in Int, NEW n \in Nat, NEW hours, HourlyFrom(hours, first, n),
         NEW d \in DOMAIN _aggregate_hourly_to_daily_tmax(hours), d # hours[1].day
  PROVE  Cardinality({i \in DOMAIN hours : hours[i].day = d}) = Day
<1> DEFINE N == Day * n
           dates == {hours[i].day : i \in DOMAIN hours}
           of == {i \in DOMAIN hours : hours[i].day = d}
           lo == Day * d - first + 1
           hi == Day * d + Day - first
           partly == hours # <<>> /\ hours[1].hour # 0 /\ Cardinality(dates) > 1
<1>1. Day \in Nat \ {0} /\ N \in Nat
  BY RunTimesAssumption
<1>2. /\ DOMAIN hours = 1 .. N /\ Len(hours) = N
      /\ \A i \in 1 .. N : hours[i].day = (first + i - 1) \div Day
                           /\ hours[i].hour = (first + i - 1) % Day
  BY DEF HourlyFrom
<1>3. d \in dates /\ (partly => d # hours[Len(hours)].day)
  BY DEF _aggregate_hourly_to_daily_tmax
<1> HIDE DEF N
<1>4. PICK k \in 1 .. N : d = (first + k - 1) \div Day
  BY <1>2, <1>3
<1>5. d \in Int /\ Day * d <= first + k - 1 /\ first + k - 1 < Day * d + Day /\ Day * d \in Int
  <2>1. first + k - 1 \in Int
    OBVIOUS
  <2> QED BY <1>1, <1>4, <2>1, DayIs
<1>6. 1 \in 1 .. N /\ N \in 1 .. N /\ N >= 1
  BY <1>1
<1> DEFINE a == first \div Day
           z == (first + N - 1) \div Day
<1>7. /\ hours[1].day = a /\ hours[1].hour = first % Day /\ hours[Len(hours)].day = z
      /\ a \in Int /\ z \in Int /\ a <= d /\ d <= z
      /\ Day * a \in Int /\ Day * z \in Int
      /\ Day * a <= first /\ first < Day * a + Day
      /\ Day * z <= first + N - 1 /\ first + N - 1 < Day * z + Day
  <2>1. first + 1 - 1 = first /\ first + N - 1 \in Int /\ first + k - 1 \in Int
        /\ first <= first + k - 1 /\ first + k - 1 <= first + N - 1
    BY <1>1
  <2>2. hours[1].day = a /\ hours[1].hour = first % Day /\ hours[Len(hours)].day = z
    BY <1>2, <1>6, <2>1
  <2>3. a <= d /\ d <= z
    BY <1>4, <2>1, DaysInOrder
  <2>4. a \in Int /\ Day * a <= first /\ first < Day * a + Day
    BY DayIs
  <2>5. z \in Int /\ Day * z <= first + N - 1 /\ first + N - 1 < Day * z + Day
    BY <2>1, DayIs
  <2>6. Day * a \in Int /\ Day * z \in Int
    BY <1>1, <2>4, <2>5
  <2> QED BY <2>2, <2>3, <2>4, <2>5, <2>6
<1> HIDE DEF a, z
<1>8. lo >= 1
  <2>1. d >= a + 1
    BY <1>5, <1>7
  <2>2. Day * d >= Day * (a + 1) /\ Day * (a + 1) = Day * a + Day
    BY <1>1, <1>5, <1>7, <2>1
  <2> QED BY <1>1, <1>5, <1>7, <2>2
<1>9. hi <= N
  <2>1. CASE partly
    <3>1. d <= z - 1
      BY <1>3, <1>5, <1>7, <2>1
    <3>2. Day * d <= Day * (z - 1) /\ Day * (z - 1) = Day * z - Day
      BY <1>1, <1>5, <1>7, <3>1
    <3> QED BY <1>1, <1>5, <1>7, <3>2
  <2>2. CASE hours[1].hour = 0
    <3> DEFINE w == a + n
    <3>1. first = Day * a
      <4>1. first = Day * (first \div Day) + (first % Day)
        BY <1>1, DivMod
      <4>2. first % Day = 0
        BY <1>7, <2>2
      <4>3. first = Day * a + 0
        BY <4>1, <4>2 DEF a
      <4> QED BY <1>7, <4>3
    <3>2. first + N = Day * w /\ w \in Int /\ Day * w \in Int
      BY <1>1, <1>7, <3>1 DEF N
    <3> HIDE DEF w
    <3>3. d <= w - 1
      <4>1. CASE d >= w
        <5>1. Day * d >= Day * w
          BY <1>1, <1>5, <3>2, <4>1
        <5> QED BY <1>1, <1>5, <3>2, <5>1
      <4> QED BY <1>5, <3>2, <4>1
    <3>4. Day * d <= Day * (w - 1) /\ Day * (w - 1) = Day * w - Day
      BY <1>1, <1>5, <3>2, <3>3
    <3> QED BY <1>1, <1>5, <3>2, <3>4
  <2>3. CASE ~(Cardinality(dates) > 1)
    <3>1. {a, d} \subseteq dates
      BY <1>2, <1>3, <1>6, <1>7
    <3>2. IsFiniteSet(dates)
      <4> DEFINE f == [i \in 1 .. N |-> hours[i].day]
      <4>1. dates = {f[i] : i \in 1 .. N}
        BY <1>2
      <4>2. IsFiniteSet(1 .. N)
        BY <1>1, FS_Interval
      <4> HIDE DEF f, dates
      <4>3. IsFiniteSet({f[i] : i \in 1 .. N})
        BY <4>2, ImageIsFinite
      <4> QED BY <4>1, <4>3
    <3>3. Cardinality({a, d}) = 2
      <4>1. IsFiniteSet({a}) /\ Cardinality({a}) = 1 /\ {a, d} = {a} \cup {d}
        BY FS_Singleton
      <4>2. d \notin {a}
        BY <1>7
      <4>3. Cardinality({a} \cup {d}) = Cardinality({a}) + 1
        BY <4>1, <4>2, FS_AddElement
      <4> QED BY <4>1, <4>3
    <3>4. Cardinality({a, d}) <= Cardinality(dates)
      BY <3>1, <3>2, FS_Subset
    <3>5. Cardinality(dates) \in Nat
      BY <3>2, FS_CardinalityType
    <3> HIDE DEF dates
    <3> QED BY <2>3, <3>3, <3>4, <3>5
  <2>4. hours # <<>>
    BY <1>1, <1>2, <1>6
  <2> QED BY <2>1, <2>2, <2>3, <2>4
<1>10. of = lo .. hi
  <2>1. ASSUME NEW i \in 1 .. N
        PROVE  hours[i].day = d <=> lo <= i /\ i <= hi
    <3>1. first + i - 1 \in Int
      BY <1>1
    <3>2. hours[i].day = d <=> Day * d <= first + i - 1 /\ first + i - 1 < Day * d + Day
      BY <1>2, <1>5, <3>1, DayIs
    <3> QED BY <1>1, <1>5, <3>2
  <2>2. lo \in Int /\ hi \in Int
    BY <1>1, <1>5
  <2> HIDE DEF lo, hi
  <2> QED BY <1>1, <1>2, <1>8, <1>9, <2>1, <2>2
<1>11. Cardinality(lo .. hi) = Day
  <2>1. lo \in Int /\ hi \in Int /\ ~(lo > hi) /\ hi - lo + 1 = Day
    BY <1>1, <1>5
  <2> HIDE DEF lo, hi
  <2> QED BY <2>1, FS_Interval
<1> QED BY <1>10, <1>11

(* The maximum of a day is the highest of all its hours, and none of them   *)
(* is missing, unless the series begins in the middle of that day.          *)
THEOREM MaximaAreOfWholeDays ==
  ASSUME NEW first \in Int, NEW n \in Nat, NEW hours, HourlyFrom(hours, first, n)
  PROVE  MaximaOfWholeDays(hours)
<1> DEFINE days == _aggregate_hourly_to_daily_tmax(hours)
           Of(d) == {i \in DOMAIN hours : hours[i].day = d}
           temps(d) == {hours[i].temp : i \in Of(d)}
<1>1. ASSUME NEW d \in DOMAIN days, days[d] # None
      PROVE  /\ \A i \in Of(d) : hours[i].temp # None /\ hours[i].temp <= days[d]
             /\ \E i \in Of(d) : hours[i].temp = days[d]
  <2>1. /\ \E i \in DOMAIN hours : d = hours[i].day
        /\ days[d] = IF \A i \in DOMAIN hours : hours[i].day = d => hours[i].temp # None
                     THEN Max(temps(d)) ELSE None
    BY DEF _aggregate_hourly_to_daily_tmax
  <2>2. \A i \in Of(d) : hours[i].temp # None
    BY <1>1, <2>1
  <2>3. days[d] = Max(temps(d))
    BY <1>1, <2>1
  <2>4. \A i \in Of(d) : hours[i].temp \in Int
    <3>1. ASSUME NEW i \in DOMAIN hours
          PROVE  hours[i].temp \in Int \cup {None}
      <4> DEFINE H == [day : Int, hour : Int, temp : Int \cup {None}]
      <4>1. hours \in Seq(H)
        BY DEF HourlyFrom
      <4>2. \A h \in H : h.temp \in Int \cup {None}
        OBVIOUS
      <4> HIDE DEF H
      <4>3. hours[i] \in H
        BY <4>1
      <4> QED BY <4>2, <4>3
    <3> QED BY <2>2, <3>1
  <2>5. temps(d) # {} /\ temps(d) \subseteq Int
    BY <2>1, <2>4
  <2>6. IsFiniteSet(temps(d))
    <3> DEFINE f == [i \in Of(d) |-> hours[i].temp]
    <3>1. DOMAIN hours = 1 .. Len(hours) /\ Len(hours) \in Nat
      BY DEF HourlyFrom
    <3>2. IsFiniteSet(Of(d))
      <4>1. IsFiniteSet(1 .. Len(hours))
        BY <3>1, FS_Interval
      <4> QED BY <3>1, <4>1, FS_Subset
    <3>3. temps(d) = {f[i] : i \in Of(d)}
      OBVIOUS
    <3> HIDE DEF f, Of
    <3> QED BY <3>2, <3>3, ImageIsFinite
  <2>7. Max(temps(d)) \in temps(d) /\ \A y \in temps(d) : y <= Max(temps(d))
    <3> HIDE DEF temps
    <3> QED BY <2>5, <2>6, MaxIs
  <2>8. \A i \in Of(d) : hours[i].temp \in temps(d)
    OBVIOUS
  <2> HIDE DEF days
  <2> QED BY <2>2, <2>3, <2>7, <2>8
<1>2. ASSUME NEW d \in DOMAIN days, d # hours[1].day
      PROVE  Cardinality(Of(d)) = Day
  BY <1>2, WholeDays
<1> QED BY <1>1, <1>2 DEF MaximaOfWholeDays

-----------------------------------------------------------------------------
(* The row a forecast is given.                                            *)

\* The rows of a statistics file.
CalibrationRows(rows) ==
    /\ IsFiniteSet(rows)
    /\ \A r \in rows : r.lead \in Int /\ r.std \in Int /\ r.rmse \in Int

\* A few records have one with the shortest lead, or the least error.
LEMMA LeastOf ==
  ASSUME NEW S, IsFiniteSet(S), S # {}, NEW f, \A x \in S : f[x] \in Int
  PROVE  \E x \in S : \A y \in S : f[x] <= f[y]
<1> DEFINE V == {f[x] : x \in S}
<1>1. IsFiniteSet(V)
  BY ImageIsFinite
<1>2. V # {} /\ V \subseteq Int
  OBVIOUS
<1>3. PICK v \in V : \A w \in V : v <= w
  <2> HIDE DEF V
  <2> QED BY <1>1, <1>2, SmallestOf
<1>4. PICK x \in S : v = f[x]
  OBVIOUS
<1> QED BY <1>3, <1>4

\* The row chosen of some rows has the shortest lead among them.
LEMMA ShortestIs ==
  ASSUME NEW rows, CalibrationRows(rows), NEW C \in SUBSET rows, C # {}
  PROVE  ShortestLead(C) \in C /\ \A o \in C : ShortestLead(C).lead <= o.lead
<1> DEFINE f == [x \in C |-> x.lead]
<1>1. IsFiniteSet(C) /\ \A x \in C : f[x] \in Int /\ f[x] = x.lead
  BY FS_Subset DEF CalibrationRows
<1>2. PICK x \in C : \A y \in C : f[x] <= f[y]
  <2> HIDE DEF f
  <2> QED BY <1>1, LeastOf
<1>3. \E r \in C : \A o \in C : r.lead <= o.lead
  <2> HIDE DEF f
  <2> QED BY <1>1, <1>2
<1>4. ShortestLead(C) = CHOOSE r \in C : \A o \in C : r.lead <= o.lead
  BY DEF ShortestLead
<1> QED BY <1>3, <1>4

\* A row was measured at the shortest lead of its kind that covers what is
\* looked up, and there is something to look up.
Covering(row, rows, station, model, wall, inits) ==
    LET anchor == effective_lead_hours_anchor(row)
        lead == lookup_lead_hours_for_calibration(model, anchor, wall, inits)
    IN  /\ row \in rows /\ row.station = station /\ row.model = model
        /\ lead # None /\ row.lead >= lead
        /\ \A r \in rows :
              /\ r.station = station /\ r.model = model
              /\ effective_lead_hours_anchor(r) = anchor /\ r.lead >= lead
              => row.lead <= r.lead

\* A row that is found covers the lead that was looked up.
LEMMA RowIs ==
  ASSUME NEW rows, CalibrationRows(rows), NEW station, NEW model, NEW wall, NEW inits,
         RowOf(rows, station, model, wall, inits) # None
  PROVE  Covering(RowOf(rows, station, model, wall, inits), rows, station, model, wall, inits)
<1> DEFINE anchor == resolve_lead_hours_anchor(rows, station, model)
           lead == lookup_lead_hours_for_calibration(model, anchor, wall, inits)
           C == {r \in rows : /\ r.station = station /\ r.model = model
                              /\ lead # None /\ r.lead >= lead
                              /\ effective_lead_hours_anchor(r) = anchor}
           row == RowOf(rows, station, model, wall, inits)
<1>1. row = ShortestLead(C)
  BY DEF RowOf, RowForAnchor, select_ceiling_row
<1>2. C # {}
  BY <1>1 DEF ShortestLead
<1>3. row \in C /\ \A o \in C : row.lead <= o.lead
  BY <1>1, <1>2, ShortestIs
<1> HIDE DEF row, anchor
<1> QED BY <1>3 DEF Covering, row

\* The first row with the least error, or None when none has one.
LEMMA LeastSigmaIs ==
  ASSUME NEW rows, CalibrationRows(rows), NEW n \in Nat, NEW found, DOMAIN found = 1 .. n,
         \A i \in 1 .. n : found[i] = None \/ found[i] \in rows
  PROVE  LET best == LeastSigma(found)
         IN  IF best = None THEN \A i \in 1 .. n : ~HasSigma(found[i])
             ELSE \E k \in 1 .. n :
                     /\ best = found[k] /\ HasSigma(best)
                     /\ \A i \in 1 .. n : HasSigma(found[i]) =>
                           _sigma_for_calibration(best) <= _sigma_for_calibration(found[i])
<1> DEFINE H == {i \in 1 .. n : HasSigma(found[i])}
           sigma == [i \in H |-> _sigma_for_calibration(found[i])]
           K == {i \in 1 .. n : HasSigma(found[i])
                                /\ \A j \in 1 .. n : NotAbove(found[i], found[j])}
<1>1. CASE H = {}
  <2>1. \A i \in 1 .. n : ~HasSigma(found[i])
    BY <1>1
  <2>2. LeastSigma(found) = None
    BY <2>1 DEF LeastSigma
  <2> QED BY <2>1, <2>2
<1>2. CASE H # {}
  <2>1. \A i \in H : sigma[i] \in Int /\ sigma[i] = _sigma_for_calibration(found[i])
    <3> TAKE i \in H
    <3>1. found[i] \in rows /\ _sigma_for_calibration(found[i]) # None
      BY DEF HasSigma
    <3>2. found[i].std \in Int /\ found[i].rmse \in Int
      BY <3>1 DEF CalibrationRows
    <3> QED BY <3>1, <3>2 DEF _sigma_for_calibration
  <2>2. IsFiniteSet(1 .. n)
    BY FS_Interval
  <2>3. IsFiniteSet(H) /\ IsFiniteSet(K)
    BY <2>2, FS_Subset
  <2>4. PICK x \in H : \A y \in H : sigma[x] <= sigma[y]
    <3> HIDE DEF sigma, H
    <3> QED BY <1>2, <2>1, <2>3, LeastOf
  <2>5. x \in K
    <3> SUFFICES ASSUME NEW j \in 1 .. n, HasSigma(found[j])
                 PROVE  _sigma_for_calibration(found[x]) <= _sigma_for_calibration(found[j])
      BY DEF NotAbove
    <3>1. j \in H
      OBVIOUS
    <3> HIDE DEF sigma, H
    <3> QED BY <2>1, <2>4, <3>1
  <2>6. Min(K) \in K
    <3>1. K # {} /\ K \subseteq Int
      BY <2>5
    <3> HIDE DEF K
    <3> QED BY <2>3, <3>1, MinIs
  <2>7. LeastSigma(found) = found[Min(K)]
    BY <1>2 DEF LeastSigma
  <2>8. HasSigma(found[Min(K)]) /\ found[Min(K)] # None
    BY <2>6 DEF HasSigma
  <2>9. \A i \in 1 .. n : HasSigma(found[i]) =>
            _sigma_for_calibration(found[Min(K)]) <= _sigma_for_calibration(found[i])
    BY <2>6 DEF NotAbove
  <2> QED BY <2>6, <2>7, <2>8, <2>9
<1> QED BY <1>1, <1>2

(* Whatever rows, models and runs there are, the chosen error is of a row   *)
(* that covers the forecast's lead as its own lead was counted, the         *)
(* shortest that does, and the least there is among the models.             *)
THEOREM BestRowIsCovered ==
  ASSUME NEW rows, CalibrationRows(rows), NEW station, NEW Models, NEW models \in Seq(Models),
         NEW wall, NEW inits
  PROVE  BestIsCovered(rows, station, models, wall, inits)
<1> DEFINE n == Len(models)
           found == RowsOf(rows, station, models, wall, inits)
           best == LeastSigma(found)
           rivals == Rivals(rows, station, models, wall, inits)
           needed == IF best = None THEN None ELSE Needed(best, wall, inits)
           Row(i) == RowOf(rows, station, models[i], wall, inits)
<1>1. n \in Nat /\ DOMAIN models = 1 .. n /\ DOMAIN found = 1 .. n
      /\ \A i \in 1 .. n : found[i] = Row(i)
  BY DEF RowsOf
<1>2. ASSUME NEW i \in 1 .. n, found[i] # None
      PROVE  Covering(found[i], rows, station, models[i], wall, inits)
  BY <1>1, <1>2, RowIs
<1>3. \A i \in 1 .. n : found[i] = None \/ found[i] \in rows
  BY <1>2 DEF Covering
<1> HIDE DEF found
<1>4. IF best = None THEN \A i \in 1 .. n : ~HasSigma(found[i])
      ELSE \E k \in 1 .. n :
              /\ best = found[k] /\ HasSigma(best)
              /\ \A i \in 1 .. n : HasSigma(found[i]) =>
                    _sigma_for_calibration(best) <= _sigma_for_calibration(found[i])
  BY <1>1, <1>3, LeastSigmaIs
<1> HIDE DEF best
<1>5. \A r \in rivals : HasSigma(r) /\ \E i \in 1 .. n : r = found[i]
  BY <1>1 DEF Rivals
<1>6. CASE best = None
  <2>1. rivals = {}
    BY <1>4, <1>5, <1>6
  <2> QED BY <1>6, <2>1 DEF BestIsCovered, Best, select_best_model, best, found
<1>7. CASE best # None
  <2>1. PICK k \in 1 .. n :
            /\ best = found[k] /\ HasSigma(best)
            /\ \A i \in 1 .. n : HasSigma(found[i]) =>
                  _sigma_for_calibration(best) <= _sigma_for_calibration(found[i])
    BY <1>4, <1>7
  <2>2. Covering(best, rows, station, models[k], wall, inits)
    BY <1>2, <1>7, <2>1
  <2>3. best \in rivals
    BY <1>1, <2>1, <2>2 DEF Rivals, Covering
  <2>4. needed # None /\ best.lead >= needed
    BY <1>7, <2>2 DEF Covering, Needed
  <2>5. \A r \in rivals : _sigma_for_calibration(best) <= _sigma_for_calibration(r)
    BY <1>5, <2>1
  <2>6. \A r \in rows :
            /\ r.station = best.station /\ r.model = best.model
            /\ effective_lead_hours_anchor(r) = effective_lead_hours_anchor(best)
            /\ r.lead >= needed
            => best.lead <= r.lead
    BY <1>7, <2>2 DEF Covering, Needed
  <2> HIDE DEF rivals, needed
  <2>7. Best(best, rivals, rows, needed)
    BY <1>7, <2>3, <2>4, <2>5, <2>6 DEF Best
  <2> QED BY <2>7 DEF BestIsCovered, select_best_model, best, found, rivals, needed
<1> QED BY <1>6, <1>7

-----------------------------------------------------------------------------
(* What Wunderground adds.                                                 *)

\* What two requests for a day answer: neither None is a temperature or a set.
Answered(answer) ==
    /\ answer = [hourly |-> answer.hourly, history |-> answer.history]
    /\ answer.hourly # None =>
          IsFiniteSet(answer.hourly) /\ \A h \in answer.hourly : h.temp \in Int \cup {None}
    /\ answer.history # None =>
          /\ IsFiniteSet(answer.history) /\ \A o \in answer.history : o.temp \in Int
          /\ \A known \in SUBSET answer.history : known # None

ForecastOf(forecast, Models) ==
    /\ forecast.models \in Seq(Models) /\ forecast.values \in Seq(Int)
    /\ Len(forecast.values) = Len(forecast.models)

\* Finitely many readings have finitely many temperatures.
LEMMA TempsAre ==
  ASSUME NEW S, IsFiniteSet(S), \A x \in S : x.temp \in Int
  PROVE  IsFiniteSet({x.temp : x \in S}) /\ {x.temp : x \in S} \subseteq Int
<1> DEFINE f == [x \in S |-> x.temp]
<1>1. {x.temp : x \in S} = {f[x] : x \in S}
  OBVIOUS
<1>2. IsFiniteSet({f[x] : x \in S})
  BY ImageIsFinite
<1>3. {x.temp : x \in S} \subseteq Int
  OBVIOUS
<1> HIDE DEF f
<1> QED BY <1>1, <1>2, <1>3

\* The observed maximum is a bound of what was observed by then.
LEMMA ObservedIs ==
  ASSUME NEW history, IsFiniteSet(history), \A o \in history : o.temp \in Int,
         NEW target, NEW as_of, None \notin Int
  PROVE  LET floor == observed_running_max_c(history, target, as_of)
         IN  /\ floor # None => floor \in Int
             /\ \A o \in history : o.target = target /\ o.at <= as_of =>
                    floor # None /\ o.temp <= floor
<1> DEFINE S == {o \in history : o.target = target /\ o.at <= as_of}
           T == {o.temp : o \in S}
<1>1. IsFiniteSet(S) /\ \A o \in S : o.temp \in Int
  BY FS_Subset
<1>2. IsFiniteSet(T) /\ T \subseteq Int
  <2> HIDE DEF S
  <2> QED BY <1>1, TempsAre
<1>3. /\ T # {} => Highest(T) \in T /\ \A y \in T : y <= Highest(T)
      /\ (Highest(T) = None) <=> (T = {})
  <2> HIDE DEF T
  <2> QED BY <1>2, HighestIs
<1>4. observed_running_max_c(history, target, as_of) = Highest(T)
  BY DEF observed_running_max_c
<1>5. ASSUME NEW o \in history, o.target = target, o.at <= as_of
      PROVE  o.temp \in T
  BY <1>5
<1> HIDE DEF T
<1> QED BY <1>2, <1>3, <1>4, <1>5

\* The adjusted maximum is none below what was observed by then.
LEMMA AdjustedIs ==
  ASSUME NEW hourly, IsFiniteSet(hourly), \A h \in hourly : h.temp \in Int,
         NEW history, IsFiniteSet(history), \A o \in history : o.temp \in Int,
         NEW target, NEW as_of, None \notin Int
  PROVE  LET adjusted == adjusted_predicted_tmax_c(target, as_of, hourly, history)
             floor == observed_running_max_c(history, target, as_of)
         IN  /\ adjusted # None => adjusted \in Int
             /\ floor # None => floor \in Int /\ adjusted # None /\ floor <= adjusted
<1> DEFINE S == {h \in hourly : h.at > as_of}
           T == {h.temp : h \in S}
           floor == observed_running_max_c(history, target, as_of)
           U == T \cup ({floor} \ {None})
<1>1. floor # None => floor \in Int
  BY ObservedIs
<1> HIDE DEF floor
<1>2. IsFiniteSet(S) /\ \A h \in S : h.temp \in Int
  BY FS_Subset
<1>3. IsFiniteSet(T) /\ T \subseteq Int
  <2> HIDE DEF S
  <2> QED BY <1>2, TempsAre
<1>4. IsFiniteSet(U) /\ U \subseteq Int
  <2> HIDE DEF T
  <2>1. CASE floor = None
    <3>1. U = T
      BY <2>1
    <3> QED BY <1>3, <3>1
  <2>2. CASE floor # None
    <3>1. U = T \cup {floor}
      BY <2>2
    <3>2. IsFiniteSet(T \cup {floor})
      BY <1>3, FS_AddElement
    <3> QED BY <1>1, <1>3, <2>2, <3>1, <3>2
  <2> QED BY <2>1, <2>2
<1>5. /\ U # {} => Highest(U) \in U /\ \A y \in U : y <= Highest(U)
      /\ (Highest(U) = None) <=> (U = {})
  <2> HIDE DEF U
  <2> QED BY <1>4, HighestIs
<1>6. adjusted_predicted_tmax_c(target, as_of, hourly, history) = Highest(U)
  BY DEF adjusted_predicted_tmax_c, floor
<1>7. floor # None => floor \in U
  OBVIOUS
<1> HIDE DEF U
<1> QED BY <1>1, <1>4, <1>5, <1>6, <1>7 DEF floor

\* What is appended when there is something to append.
LEMMA AppendedIs ==
  ASSUME NEW Models, NEW forecast, ForecastOf(forecast, Models), NEW answer, NEW target, NEW as_of,
         append_wunderground_forecast(forecast, answer, target, as_of) # forecast
  PROVE  LET now == append_wunderground_forecast(forecast, answer, target, as_of)
             adjusted == fetch_wu_adjusted_tmax_c(answer, target, as_of)
             wall == lead_hours_to_end_of_target_day(target, as_of)
         IN  /\ adjusted # None
             /\ now = _append_wunderground_predicted(forecast, adjusted, wall)
  BY DEF append_wunderground_forecast

\* A padded list has one item per model, the given ones first.
LEMMA PaddedIs ==
  ASSUME NEW items, NEW n \in Nat, NEW fill
  PROVE  LET padded == _pad_to_model_count(items, n, fill)
         IN  /\ DOMAIN padded = 1 .. n /\ Len(padded) = n
             /\ \E S : padded \in Seq(S)
             /\ \A i \in 1 .. n : padded[i] = IF i <= Len(items) THEN items[i] ELSE fill
<1> DEFINE padded == _pad_to_model_count(items, n, fill)
           Entry(i) == IF i <= Len(items) THEN items[i] ELSE fill
<1>1. padded = [i \in 1 .. n |-> Entry(i)]
  BY DEF _pad_to_model_count
<1> HIDE DEF padded, Entry
<1>2. Len([i \in 1 .. n |-> Entry(i)]) = n
  OBVIOUS
<1>3. \E S : padded \in Seq(S)
  <2> DEFINE S == {Entry(i) : i \in 1 .. n}
  <2>1. \A i \in 1 .. n : Entry(i) \in S
    OBVIOUS
  <2> HIDE DEF S
  <2>2. padded \in Seq(S)
    BY <1>1, <2>1
  <2> QED BY <2>2
<1> QED BY <1>1, <1>2, <1>3 DEF padded, Entry

\* What is appended for Wunderground, in the last place of each list.
LEMMA LastOfAppended ==
  ASSUME NEW Models, NEW forecast, ForecastOf(forecast, Models), NEW adjusted, NEW wall
  PROVE  LET now == _append_wunderground_predicted(forecast, adjusted, wall)
             n == Len(forecast.models)
         IN  /\ n \in Nat /\ DOMAIN now.models = 1 .. n + 1 /\ Len(now.models) = n + 1
             /\ now.models[n + 1] = Wunderground /\ now.values[n + 1] = adjusted.predicted
             /\ Len(now.inits) = n + 1 /\ now.inits[n + 1] = wall
             /\ now.floor = IF adjusted.floor # None THEN adjusted.floor ELSE forecast.floor
<1> DEFINE n == Len(forecast.models)
           inits == IF forecast.inits = None THEN <<>> ELSE forecast.inits
           padded == _pad_to_model_count(inits, n, 0)
<1>1. n \in Nat /\ forecast.models \in Seq(Models) /\ forecast.values \in Seq(Int) /\ Len(forecast.values) = n
  BY DEF ForecastOf
<1>2. (\E S : padded \in Seq(S)) /\ Len(padded) = n
  <2> HIDE DEF inits, n
  <2> QED BY <1>1, PaddedIs
<1>3. Len(Append(padded, wall)) = n + 1 /\ Append(padded, wall)[n + 1] = wall
  <2> HIDE DEF padded
  <2> QED BY <1>1, <1>2
<1>4. /\ Len(Append(forecast.models, Wunderground)) = n + 1
      /\ DOMAIN Append(forecast.models, Wunderground) = 1 .. n + 1
      /\ Append(forecast.models, Wunderground)[n + 1] = Wunderground
      /\ Append(forecast.values, adjusted.predicted)[n + 1] = adjusted.predicted
  BY <1>1
<1> QED BY <1>1, <1>3, <1>4 DEF _append_wunderground_predicted

(* The forecast that Wunderground completes is at least what was observed   *)
(* of its day by then, is the same whatever is observed afterwards, and is  *)
(* left alone when the request fails.                                       *)
THEOREM AdjustmentKnowsThePast ==
  ASSUME None \notin Int, NEW Models, NEW forecast, ForecastOf(forecast, Models),
         NEW answer, Answered(answer), NEW target, NEW as_of
  PROVE  AdjustedKnowsThePast(forecast, answer, target, as_of)
<1> DEFINE known == IF answer.history = None THEN None ELSE {o \in answer.history : o.at <= as_of}
           then == [answer EXCEPT !.history = known]
           adjusted == fetch_wu_adjusted_tmax_c(answer, target, as_of)
           now == append_wunderground_forecast(forecast, answer, target, as_of)
           before == append_wunderground_forecast(forecast, then, target, as_of)
           history == IF answer.history = None THEN {} ELSE answer.history
           rows == parse_hourly_forecast_metric_payload(answer.hourly, target)
           n == Len(now.models)
<1>1. then.hourly = answer.hourly /\ then.history = known
  BY DEF Answered
<1>2. (known = None) <=> (answer.history = None)
  BY DEF Answered
<1>3. adjusted = fetch_wu_adjusted_tmax_c(then, target, as_of)
  <2> DEFINE past == IF known = None THEN {} ELSE known
  <2>1. {o \in history : o.target = target /\ o.at <= as_of} =
            {o \in past : o.target = target /\ o.at <= as_of}
    BY <1>2
  <2>2. observed_running_max_c(history, target, as_of) = observed_running_max_c(past, target, as_of)
    <3> HIDE DEF history, past
    <3> QED BY <2>1 DEF observed_running_max_c
  <2>3. \A hourly : adjusted_predicted_tmax_c(target, as_of, hourly, history) =
                        adjusted_predicted_tmax_c(target, as_of, hourly, past)
    <3> HIDE DEF history, past
    <3> QED BY <2>2 DEF adjusted_predicted_tmax_c
  <2> HIDE DEF then
  <2>4. fetch_wu_adjusted_tmax_c(then, target, as_of) =
            (IF then.hourly = None THEN None
             ELSE IF parse_hourly_forecast_metric_payload(then.hourly, target) = {}
                     \/ adjusted_predicted_tmax_c(target, as_of,
                            parse_hourly_forecast_metric_payload(then.hourly, target), past) = None
             THEN None
             ELSE [predicted |-> adjusted_predicted_tmax_c(target, as_of,
                       parse_hourly_forecast_metric_payload(then.hourly, target), past),
                   floor |-> observed_running_max_c(past, target, as_of)])
    BY <1>1 DEF fetch_wu_adjusted_tmax_c
  <2>5. adjusted =
            (IF answer.hourly = None THEN None
             ELSE IF rows = {} \/ adjusted_predicted_tmax_c(target, as_of, rows, history) = None
             THEN None
             ELSE [predicted |-> adjusted_predicted_tmax_c(target, as_of, rows, history),
                   floor |-> observed_running_max_c(history, target, as_of)])
    BY DEF fetch_wu_adjusted_tmax_c
  <2> HIDE DEF adjusted, history, past, known, rows
  <2> QED BY <1>1, <2>2, <2>3, <2>4, <2>5 DEF rows
<1>4. now = before
  <2> HIDE DEF then
  <2> QED BY <1>3 DEF append_wunderground_forecast
<1> HIDE DEF then, before
<1>5. answer.hourly = None => now = forecast
  BY DEF append_wunderground_forecast, fetch_wu_adjusted_tmax_c
<1>6. ASSUME now # forecast
      PROVE  /\ now.floor # None => forecast.floor = now.floor \/ now.floor <= now.values[n]
             /\ answer.history # None =>
                   \A o \in answer.history :
                       o.at <= as_of /\ o.target = target => o.temp <= now.values[n]
             /\ now.inits[n] = lead_hours_to_end_of_target_day(target, as_of)
  <2> DEFINE floor == observed_running_max_c(history, target, as_of)
             wall == lead_hours_to_end_of_target_day(target, as_of)
  <2>1. adjusted # None /\ now = _append_wunderground_predicted(forecast, adjusted, wall)
    BY <1>6, AppendedIs
  <2>2. /\ answer.hourly # None
        /\ adjusted.predicted = adjusted_predicted_tmax_c(target, as_of, rows, history)
        /\ adjusted.floor = floor /\ adjusted.predicted # None
    BY <2>1 DEF fetch_wu_adjusted_tmax_c
  <2>3. IsFiniteSet(history) /\ \A o \in history : o.temp \in Int
    BY FS_EmptySet DEF Answered
  <2>4. IsFiniteSet(rows) /\ \A h \in rows : h.temp \in Int
    <3>1. IsFiniteSet(answer.hourly) /\ \A h \in answer.hourly : h.temp \in Int \cup {None}
      BY <2>2 DEF Answered
    <3>2. rows \subseteq answer.hourly /\ \A h \in rows : h.temp # None
      BY DEF parse_hourly_forecast_metric_payload
    <3> HIDE DEF rows
    <3> QED BY <3>1, <3>2, FS_Subset
  <2> HIDE DEF history, rows, adjusted
  <2>5. /\ adjusted.predicted \in Int
        /\ floor # None => floor \in Int /\ floor <= adjusted.predicted
    BY <2>2, <2>3, <2>4, AdjustedIs
  <2>6. \A o \in history : o.target = target /\ o.at <= as_of => floor # None /\ o.temp <= floor
    BY <2>3, ObservedIs
  <2> HIDE DEF floor, wall, now
  <2>7. /\ now.values[n] = adjusted.predicted /\ now.inits[n] = wall
        /\ now.floor = IF floor # None THEN floor ELSE forecast.floor
    <3>1. n = Len(forecast.models) + 1
      BY <2>1, LastOfAppended
    <3> HIDE DEF n
    <3> QED BY <2>1, <2>2, <3>1, LastOfAppended
  <2> HIDE DEF n
  <2>8. now.floor # None => forecast.floor = now.floor \/ now.floor <= now.values[n]
    BY <2>5, <2>7
  <2>9. ASSUME answer.history # None, NEW o \in answer.history, o.at <= as_of, o.target = target
        PROVE  o.temp <= now.values[n]
    <3>1. o \in history
      BY <2>9 DEF history
    <3>2. o.temp \in Int /\ floor \in Int /\ o.temp <= floor /\ floor <= adjusted.predicted
      BY <2>3, <2>5, <2>6, <2>9, <3>1
    <3> QED BY <2>5, <2>7, <3>2
  <2> QED BY <2>7, <2>8, <2>9 DEF wall
<1> HIDE DEF now
<1> QED BY <1>4, <1>5, <1>6 DEF AdjustedKnowsThePast, KnowsThePast, now, before, then

-----------------------------------------------------------------------------
(* What the calibration makes of stored scrapes.                           *)

\* Rows of scrapes and observations; None is neither a set of them nor an answer.
Scraped(rows, history) ==
    /\ IsFiniteSet(rows) /\ IsFiniteSet(history)
    /\ \A r \in rows : r.at \in Int /\ r.temp \in Int \cup {None} /\ r.hour \in Int
    /\ \A o \in history : o.temp \in Int
    /\ None \notin Int /\ None \notin SUBSET history
    /\ \A hours \in SUBSET [at : Int, day : {r.target : r \in rows}, temp : Int \cup {None}] : hours # None
    /\ \A answer \in [predicted : Int, floor : Int \cup {None}] : answer # None

(* A record of a stored scrape has the lead and the maximum a decision at   *)
(* that instant was given, for any scrapes and observations.                *)
THEOREM RecordsAreWhatLiveSaw ==
  ASSUME NEW rows, NEW history, Scraped(rows, history), NEW since \in Int, NEW max_hours
  PROVE  RecordsSayWhatLiveSaw(rows, history, since, max_hours)
<1> DEFINE records == ingest_wu_forecasts_from_snapshots(rows, history, since, max_hours)
           used == {r \in {r \in rows : r.hour >= since} :
                       is_oclock_scrape(r) /\ r.at # None /\ r.temp # None}
           Hours(h) == {[at |-> x.at, day |-> x.target, temp |-> x.temp] :
                            x \in {x \in rows : x.hour = h /\ x.minute = 0}}
           Seen(t, h) == {o \in history : o.target = t /\ o.at <= h}
           Of(t, h) == {r \in used : r.hour = h /\ r.target = t}
           Record(t, h) ==
               [run |-> h, target |-> t,
                lead |-> bucket_wall_clock_lead_hours(lead_hours_to_end_of_target_day(t, h), max_hours),
                predicted |-> adjusted_predicted_tmax_c(t, h, Of(t, h), history)]
           Told(t, h) == fetch_wu_adjusted_tmax_c([hourly |-> Hours(h), history |-> Seen(t, h)], t, h)
<1> SUFFICES ASSUME NEW r \in records
             PROVE  /\ r.lead = lead_hours_to_end_of_target_day(r.target, r.run)
                    /\ Told(r.target, r.run) # None
                    /\ Told(r.target, r.run).predicted = r.predicted
  BY DEF RecordsSayWhatLiveSaw
<1>1. PICK x \in used : r = Record(x.target, x.hour)
  <2> DEFINE groups == _group_forecast_snapshots({y \in rows : y.hour >= since})
  <2>1. PICK g \in groups :
            r = [run |-> g.scraped, target |-> g.target,
                 lead |-> bucket_wall_clock_lead_hours(
                              lead_hours_to_end_of_target_day(g.target, g.scraped), max_hours),
                 predicted |-> adjusted_predicted_tmax_c(g.target, g.scraped, g.hourly, history)]
    BY DEF ingest_wu_forecasts_from_snapshots
  <2>2. PICK x \in used : g = [scraped |-> x.hour, target |-> x.target, hourly |-> Of(x.target, x.hour)]
    <3>1. PICK k \in {<<y.hour, y.target>> : y \in used} :
              g = [scraped |-> k[1], target |-> k[2],
                   hourly |-> {y \in used : y.hour = k[1] /\ y.target = k[2]}]
      BY DEF _group_forecast_snapshots
    <3>2. PICK x \in used : k = <<x.hour, x.target>>
      OBVIOUS
    <3> HIDE DEF used
    <3> QED BY <3>1, <3>2
  <2>3. g.scraped = x.hour /\ g.target = x.target /\ g.hourly = Of(x.target, x.hour)
    BY <2>2
  <2> HIDE DEF used, groups, Of
  <2> QED BY <2>1, <2>3
<1>2. r.lead # None /\ r.predicted # None
  BY DEF ingest_wu_forecasts_from_snapshots
<1> DEFINE t == x.target
           h == x.hour
           rest == parse_hourly_forecast_metric_payload(Hours(h), t)
           mine == Of(t, h)
           seen == Seen(t, h)
<1>3. r.target = t /\ r.run = h /\ h \in Int /\ x \in rows /\ h >= since
      /\ r.lead = bucket_wall_clock_lead_hours(lead_hours_to_end_of_target_day(t, h), max_hours)
      /\ r.predicted = adjusted_predicted_tmax_c(t, h, mine, history)
  BY <1>1 DEF Scraped
<1>4. r.lead = lead_hours_to_end_of_target_day(t, h)
  BY <1>2, <1>3 DEF bucket_wall_clock_lead_hours
<1>5. observed_running_max_c(seen, t, h) = observed_running_max_c(history, t, h)
  <2>1. {o \in seen : o.target = t /\ o.at <= h} = {o \in history : o.target = t /\ o.at <= h}
    OBVIOUS
  <2> HIDE DEF seen
  <2> QED BY <2>1 DEF observed_running_max_c
<1>6. {y.temp : y \in {y \in rest : y.at > h}} = {y.temp : y \in {y \in mine : y.at > h}}
  <2>1. ASSUME NEW y \in rest
        PROVE  \E z \in mine : z.at = y.at /\ z.temp = y.temp
    <3>1. y \in Hours(h) /\ y.temp # None /\ y.day = t
      BY DEF parse_hourly_forecast_metric_payload
    <3>2. PICK z \in rows : /\ z.hour = h /\ z.minute = 0
                            /\ y = [at |-> z.at, day |-> z.target, temp |-> z.temp]
      BY <3>1
    <3>3. z.at # None
      BY <3>2 DEF Scraped
    <3>4. z \in mine /\ y.at = z.at /\ y.temp = z.temp
      BY <1>3, <3>1, <3>2, <3>3 DEF is_oclock_scrape
    <3> QED BY <3>4
  <2>2. ASSUME NEW z \in mine
        PROVE  \E y \in rest : y.at = z.at /\ y.temp = z.temp
    <3> DEFINE y == [at |-> z.at, day |-> z.target, temp |-> z.temp]
    <3>1. z \in rows /\ z.hour = h /\ z.minute = 0 /\ z.target = t /\ z.temp # None
      BY DEF is_oclock_scrape
    <3>2. y \in Hours(h) /\ y.temp # None /\ y.day = t
      BY <3>1
    <3>3. y \in rest
      BY <3>2 DEF parse_hourly_forecast_metric_payload
    <3> QED BY <3>3
  <2> HIDE DEF rest, mine
  <2> QED BY <2>1, <2>2
<1>7. adjusted_predicted_tmax_c(t, h, rest, seen) = r.predicted
  <2> HIDE DEF rest, mine, seen, t, h
  <2> QED BY <1>3, <1>5, <1>6 DEF adjusted_predicted_tmax_c
<1>8. rest # {} /\ Hours(h) # None /\ seen # None
  <2>1. [at |-> x.at, day |-> x.target, temp |-> x.temp] \in rest
    BY <1>3 DEF parse_hourly_forecast_metric_payload, is_oclock_scrape
  <2>2. Hours(h) \subseteq [at : Int, day : {y.target : y \in rows}, temp : Int \cup {None}]
    BY DEF Scraped
  <2>3. seen \in SUBSET history
    OBVIOUS
  <2> QED BY <2>1, <2>2, <2>3 DEF Scraped
<1>9. Told(t, h) = [predicted |-> r.predicted, floor |-> observed_running_max_c(seen, t, h)]
  <2> DEFINE answer == [hourly |-> Hours(h), history |-> Seen(t, h)]
  <2>1. answer.hourly = Hours(h) /\ answer.history = seen
    OBVIOUS
  <2> HIDE DEF answer, rest, seen, mine, t, h
  <2>2. fetch_wu_adjusted_tmax_c(answer, t, h) =
            [predicted |-> adjusted_predicted_tmax_c(t, h, rest, seen),
             floor |-> observed_running_max_c(seen, t, h)]
    BY <1>2, <1>7, <1>8, <2>1 DEF fetch_wu_adjusted_tmax_c, rest
  <2> QED BY <1>7, <2>2 DEF answer
<1>10. r.predicted \in Int /\ observed_running_max_c(seen, t, h) \in Int \cup {None}
  <2>1. IsFiniteSet(mine) /\ \A y \in mine : y.temp \in Int
    <3>1. mine \subseteq rows
      OBVIOUS
    <3>2. \A y \in mine : y.temp # None
      OBVIOUS
    <3> HIDE DEF mine
    <3> QED BY <3>1, <3>2, FS_Subset DEF Scraped
  <2> HIDE DEF mine, t, h
  <2>2. r.predicted \in Int
    BY <1>2, <1>3, <2>1, AdjustedIs DEF Scraped
  <2>3. observed_running_max_c(history, t, h) \in Int \cup {None}
    BY ObservedIs DEF Scraped
  <2> QED BY <1>5, <2>2, <2>3
<1> HIDE DEF Told, seen, t, h
<1>11. Told(t, h) # None
  BY <1>9, <1>10 DEF Scraped
<1>12. Told(t, h).predicted = r.predicted
  BY <1>9
<1> QED BY <1>3, <1>4, <1>11, <1>12

-----------------------------------------------------------------------------
(* Observed maxima.                                                        *)

\* Rounding moves a temperature by half a degree at most, and keeps the order.
LEMMA RoundIs ==
  ASSUME NEW s \in Int, NEW t \in Int
  PROVE  /\ RoundHalfEven(t) \in Int /\ 10 * RoundHalfEven(t) - t \in -5 .. 5
         /\ s <= t => RoundHalfEven(s) <= RoundHalfEven(t)
<1> DEFINE Near(x) == /\ RoundHalfEven(x) \in Int
                      /\ RoundHalfEven(x) \in {x \div 10, (x \div 10) + 1}
                      /\ (RoundHalfEven(x) = (x \div 10) + 1) <=>
                             (x % 10 > 5 \/ (x % 10 = 5 /\ (x \div 10) % 2 # 0))
<1>1. ASSUME NEW x \in Int
      PROVE  /\ x \div 10 \in Int /\ x % 10 \in 0 .. 9 /\ x = 10 * (x \div 10) + (x % 10)
             /\ Near(x)
  <2>1. x \div 10 \in Int /\ x % 10 \in 0 .. 9 /\ x = 10 * (x \div 10) + (x % 10)
    BY SMT
  <2> QED BY <2>1 DEF RoundHalfEven
<1>2. /\ s \div 10 \in Int /\ s % 10 \in 0 .. 9 /\ s = 10 * (s \div 10) + (s % 10) /\ Near(s)
      /\ t \div 10 \in Int /\ t % 10 \in 0 .. 9 /\ t = 10 * (t \div 10) + (t % 10) /\ Near(t)
  BY <1>1
<1> DEFINE d == s \div 10
           e == t \div 10
           a == s % 10
           b == t % 10
           odd == d % 2 # 0
<1> HIDE DEF d, e, a, b
<1>3. RoundHalfEven(t) \in Int /\ 10 * RoundHalfEven(t) - t \in -5 .. 5
  BY <1>2 DEF e, b
<1>4. ASSUME s <= t
      PROVE  RoundHalfEven(s) <= RoundHalfEven(t)
  <2>1. d < e \/ (d = e /\ a <= b)
    BY <1>2, <1>4 DEF d, e, a, b
  <2>2. CASE d < e
    BY <1>2, <2>2 DEF d, e
  <2>3. CASE d = e /\ a <= b
    BY <1>2, <2>3 DEF d, e, a, b
  <2> QED BY <2>1, <2>2, <2>3
<1> QED BY <1>3, <1>4

(* The stored maxima are, rounded, those of the day's own hours or of the   *)
(* grid, of exactly the days that have either, in the order of their heat.  *)
THEOREM ObservedMaximaAreOfTheirDay ==
  ASSUME None \notin Int, NEW first \in Int, NEW last \in Int, NEW hourly, NEW grid,
         \A d \in first .. last : IsFiniteSet(hourly[d]) /\ hourly[d] \subseteq Int,
         \A d \in DOMAIN grid : grid[d] \in Int
  PROVE  ObservedIsOfItsDay(hourly, grid, first, last)
<1> DEFINE observed == fetch_wunderground_observations_range(hourly, grid, first, last)
           Single(d) == fetch_wunderground_observed_tmax(hourly[d], grid, d)
           High(d) == IF hourly[d] # {} THEN Max(hourly[d]) ELSE grid[d]
           Seen == {d \in first .. last : hourly[d] # {} \/ d \in DOMAIN grid}
<1>1. ASSUME NEW d \in first .. last
      PROVE  /\ d \in Seen => High(d) \in Int /\ Single(d) = RoundHalfEven(High(d))
             /\ d \notin Seen => Single(d) = None
  <2>1. CASE hourly[d] # {}
    <3>1. Max(hourly[d]) \in hourly[d]
      BY <2>1, MaxIs
    <3>2. Max(hourly[d]) \in Int /\ Max(hourly[d]) # None
      BY <3>1
    <3> QED BY <2>1, <3>2 DEF fetch_wunderground_observed_tmax, _fetch_v1_historical_daily_high_c
  <2>2. CASE hourly[d] = {}
    BY <2>2 DEF fetch_wunderground_observed_tmax, _fetch_v1_historical_daily_high_c
  <2> QED BY <2>1, <2>2
<1> HIDE DEF Single, High
<1>2. \A d \in Seen : d \in first .. last /\ High(d) \in Int /\ Single(d) = RoundHalfEven(High(d))
                      /\ Single(d) \in Int /\ Single(d) # None /\ 10 * Single(d) - High(d) \in -5 .. 5
  BY <1>1, RoundIs
<1>3. observed = [d \in {d \in first .. last : Single(d) # None} |-> Single(d)]
  BY DEF fetch_wunderground_observations_range, Single
<1>4. {d \in first .. last : Single(d) # None} = Seen
  <2> HIDE DEF Seen
  <2>1. \A d \in first .. last : Single(d) # None <=> d \in Seen
    BY <1>1, <1>2
  <2>2. Seen \subseteq first .. last
    BY DEF Seen
  <2> QED BY <2>1, <2>2
<1>5. DOMAIN observed = Seen /\ \A d \in Seen : observed[d] = Single(d)
  <2> HIDE DEF observed, Seen
  <2> QED BY <1>3, <1>4
<1>6. \A d, e \in Seen : High(d) <= High(e) => Single(d) <= Single(e)
  BY <1>2, RoundIs
<1> HIDE DEF observed
<1>7. \A d \in DOMAIN observed :
          /\ 10 * observed[d] - High(d) \in -5 .. 5
          /\ \A e \in DOMAIN observed : High(d) <= High(e) => observed[d] <= observed[e]
  <2> HIDE DEF Seen
  <2> QED BY <1>2, <1>5, <1>6
<1> QED BY <1>5, <1>7 DEF ObservedIsOfItsDay, High, observed

-----------------------------------------------------------------------------
(* The models that have a value.                                           *)

\* Induction up to a number, for a set of them.
LEMMA CountUp ==
  ASSUME NEW n \in Nat, NEW S, 0 \in S, \A k \in 0 .. n - 1 : k \in S => k + 1 \in S
  PROVE  n \in S
<1> SUFFICES ASSUME n \notin S  PROVE FALSE
  OBVIOUS
<1> DEFINE bad == {k \in 0 .. n : k \notin S}
<1>1. bad \subseteq Nat /\ bad # {}
  OBVIOUS
<1>2. PICK k \in bad : \A j \in bad : ~(<<j, k>> \in OpToRel(<, Nat))
  BY <1>1, NatLessThanWellFounded, WFMin
<1>3. \A j \in bad : ~(j < k)
  BY <1>1, <1>2 DEF OpToRel
<1>4. k # 0 /\ k - 1 \in 0 .. n - 1
  OBVIOUS
<1>5. k - 1 \in S
  BY <1>3, <1>4
<1>6. k - 1 + 1 \in S /\ k - 1 + 1 = k
  BY <1>4, <1>5
<1> QED BY <1>6

\* What the list says of the first i models, given what it says of fewer.
GivenBody(models, value, g, i) ==
    IF i = 0 THEN <<>>
    ELSE IF value[models[i]] # None THEN Append(g[i - 1], models[i])
    ELSE g[i - 1]

IsGiven(g, models, value) == g = [i \in 0 .. Len(models) |-> GivenBody(models, value, g, i)]

\* The list of the models with a value, as a choice of its own equation.
LEMMA GivenIs ==
  ASSUME NEW models, NEW value
  PROVE  Given(models, value) = (CHOOSE g : IsGiven(g, models, value))[Len(models)]
<1> DEFINE among == CHOOSE g : g = [i \in 0 .. Len(models) |->
                        IF i = 0 THEN <<>>
                        ELSE IF value[models[i]] # None THEN Append(g[i - 1], models[i])
                        ELSE g[i - 1]]
<1>1. Given(models, value) = among[Len(models)]
  BY Zenon DEF Given
<1>2. among = CHOOSE g : IsGiven(g, models, value)
  BY Zenon DEF IsGiven, GivenBody
<1> QED BY <1>1, <1>2

\* There is such a list, for any models.
LEMMA GivenExists ==
  ASSUME NEW M, NEW models \in Seq(M), NEW value
  PROVE  \E g : IsGiven(g, models, value)
<1> DEFINE n == Len(models)
           Solved == {k \in 0 .. n : \E g : \A i \in 0 .. k : g[i] = GivenBody(models, value, g, i)}
<1>1. 0 \in Solved
  <2> DEFINE g == [i \in 0 .. 0 |-> <<>>]
  <2>1. \A i \in 0 .. 0 : g[i] = GivenBody(models, value, g, i)
    BY DEF GivenBody
  <2> HIDE DEF g
  <2> QED BY <2>1
<1>2. ASSUME NEW k \in 0 .. n - 1, k \in Solved
      PROVE  k + 1 \in Solved
  <2>1. PICK g : \A i \in 0 .. k : g[i] = GivenBody(models, value, g, i)
    BY <1>2
  <2> DEFINE h == [i \in 0 .. k + 1 |-> GivenBody(models, value, g, i)]
  <2>2. \A i \in 0 .. k + 1 : h[i] = GivenBody(models, value, g, i)
    OBVIOUS
  <2> HIDE DEF h
  <2>3. \A i \in 0 .. k : h[i] = g[i]
    BY <2>1, <2>2
  <2>4. \A i \in 0 .. k + 1 : GivenBody(models, value, g, i) = GivenBody(models, value, h, i)
    BY <2>3 DEF GivenBody
  <2>5. \A i \in 0 .. k + 1 : h[i] = GivenBody(models, value, h, i)
    BY <2>2, <2>4
  <2>6. k + 1 \in 0 .. n
    OBVIOUS
  <2> QED BY <2>5, <2>6
<1> HIDE DEF Solved
<1>3. n \in Solved
  BY <1>1, <1>2, CountUp
<1>4. PICK g : \A i \in 0 .. n : g[i] = GivenBody(models, value, g, i)
  BY <1>3 DEF Solved
<1> DEFINE h == [i \in 0 .. n |-> g[i]]
<1>5. \A i \in 0 .. n : h[i] = g[i]
  OBVIOUS
<1>6. \A i \in 0 .. n : GivenBody(models, value, g, i) = GivenBody(models, value, h, i)
  BY <1>5 DEF GivenBody
<1>7. h = [i \in 0 .. n |-> GivenBody(models, value, h, i)]
  BY <1>4, <1>6
<1> HIDE DEF h
<1> QED BY <1>7 DEF IsGiven

\* Only models of the list are given, each with its value.
LEMMA GivenAre ==
  ASSUME NEW M, NEW models \in Seq(M), NEW value
  PROVE  /\ Given(models, value) \in Seq(M)
         /\ \A i \in 1 .. Len(Given(models, value)) : value[Given(models, value)[i]] # None
<1> DEFINE n == Len(models)
           g == CHOOSE g : IsGiven(g, models, value)
           V == {m \in M : value[m] # None}
           Good == {k \in 0 .. n : g[k] \in Seq(V)}
<1>1. IsGiven(g, models, value)
  BY GivenExists, Zenon
<1> HIDE DEF g
<1>2. \A i \in 0 .. n : g[i] = GivenBody(models, value, g, i)
  <2>1. \A i \in 0 .. n : [j \in 0 .. n |-> GivenBody(models, value, g, j)][i] = GivenBody(models, value, g, i)
    OBVIOUS
  <2> QED BY <1>1, <2>1 DEF IsGiven
<1>3. 0 \in Good
  <2>1. 0 \in 0 .. n
    OBVIOUS
  <2>2. g[0] = <<>>
    BY <1>2, <2>1 DEF GivenBody
  <2>3. <<>> \in Seq(V)
    OBVIOUS
  <2> HIDE DEF V, n
  <2> QED BY <2>1, <2>2, <2>3
<1>4. ASSUME NEW k \in 0 .. n - 1, k \in Good
      PROVE  k + 1 \in Good
  <2>1. k + 1 \in 0 .. n /\ k + 1 \in 1 .. n /\ k + 1 - 1 = k /\ k + 1 # 0
    OBVIOUS
  <2>2. g[k + 1] = IF value[models[k + 1]] # None THEN Append(g[k], models[k + 1]) ELSE g[k]
    BY <1>2, <2>1 DEF GivenBody
  <2>3. models[k + 1] \in M /\ g[k] \in Seq(V)
    BY <1>4, <2>1
  <2>4. value[models[k + 1]] # None => models[k + 1] \in V
    BY <2>3
  <2> HIDE DEF V
  <2>5. g[k + 1] \in Seq(V)
    BY <2>2, <2>3, <2>4
  <2> QED BY <2>1, <2>5
<1> HIDE DEF Good
<1>5. n \in Good
  BY <1>3, <1>4, CountUp
<1>6. Given(models, value) \in Seq(V)
  BY <1>5, GivenIs DEF Good, g
<1> DEFINE given == Given(models, value)
<1> HIDE DEF given
<1>7. given \in Seq(V)
  BY <1>6 DEF given
<1>8. given \in Seq(M) /\ \A i \in 1 .. Len(given) : value[given[i]] # None
  <2>1. \A i \in 1 .. Len(given) : given[i] \in V
    BY <1>7
  <2>2. given \in Seq(M)
    BY <1>7, <2>1
  <2> QED BY <2>1, <2>2
<1> QED BY <1>8 DEF given

-----------------------------------------------------------------------------
(* The live forecast and its runs.                                         *)

\* None is no value, no list of them and no table of leads.
NoneIsNoAnswer(Models) ==
    /\ None \notin Int /\ None \notin Seq(Int \cup {None})
    /\ \A some \in SUBSET Models : None \notin [some -> Int]

\* The runs of the models before and after the fetch, and the ones (made) that
\* made the forecast in between.
RunsAround(before, after, made, Models) ==
    /\ DOMAIN before = Models /\ DOMAIN after = Models
    /\ \A m \in Models :
          /\ made[m] \in Int
          /\ before[m].status = "ok" => before[m].run \in Int /\ before[m].run <= made[m]
          /\ after[m].status = "ok" => after[m].run \in Int /\ made[m] <= after[m].run

\* A payload may lack a value of a model it names.
Payloads(attempts, Models) ==
    \A i \in DOMAIN attempts : attempts[i].status = "ok" =>
        /\ attempts[i].payload.models \in Seq(Models)
        /\ \A d \in DOMAIN attempts[i].payload.days :
              attempts[i].payload.days[d] \in [Models -> Int \cup {None}]

\* A forecast whose known runs are the ones after the fetch, with their leads.
KnowsItsRuns(forecast, after, Models, target) ==
    LET n == Len(forecast.models) IN
    /\ n \in Nat \ {0} /\ forecast.models \in Seq(Models \cup {Wunderground})
    /\ DOMAIN forecast.inits = 1 .. n /\ Len(forecast.inits) = n /\ forecast.inits # <<>>
    /\ forecast.runs # None
    /\ \A i \in 1 .. n :
          forecast.runs[i] # None =>
             /\ forecast.models[i] \in Models /\ after[forecast.models[i]].status = "ok"
             /\ forecast.runs[i] = after[forecast.models[i]].run
             /\ forecast.inits[i] = compute_lead_hours(after[forecast.models[i]].run, target)

\* The lead of a run ends where the target day ends.
LEMMA LeadIs ==
  ASSUME NEW run \in Int, NEW target \in Int
  PROVE  /\ compute_lead_hours(run, target) \in Int
         /\ run + compute_lead_hours(run, target) = (target + 1) * Day
<1>1. Day \in Nat \ {0}
  BY RunTimesAssumption
<1>2. (target + 1) * Day \in Int
  BY <1>1
<1> QED BY <1>2 DEF compute_lead_hours

\* A bundle of one day: what is known of the models after the fetch, and the
\* values of the ones that have one.
BundleIs(bundle, before, after, Models, target) ==
    LET meta == [m \in {m \in Models : after[m].status = "ok"} |-> after[m].run]
        daily == bundle.daily[target]
        n == Len(daily.models)
    IN  /\ \A m \in Models : /\ before[m].status \in {"ok", "missing"}
                             /\ after[m].status \in {"ok", "missing"}
        /\ bundle.meta = meta /\ DOMAIN bundle.daily = {target}
        /\ bundle.stale = \E m \in Models : /\ before[m].status = "ok" /\ after[m].status = "ok"
                                            /\ before[m].run # after[m].run
        /\ daily.models \in Seq(Models) /\ daily.models # <<>>
        /\ daily.values \in Seq(Int) /\ Len(daily.values) = n
        /\ \A i \in 1 .. n : daily.models[i] \in DOMAIN meta =>
              /\ <<daily.models[i], target>> \in DOMAIN bundle.leads
              /\ bundle.leads[<<daily.models[i], target>>] =
                     compute_lead_hours(meta[daily.models[i]], target)

\* A payload that is used is one that was answered.
LEMMA PayloadIs ==
  ASSUME NEW Models, NEW attempts, Payloads(attempts, Models), NEW max_retries,
         NEW n \in Nat, DOMAIN attempts = 1 .. n,
         fetch_forecast_payload(attempts, max_retries) # None
  PROVE  LET payload == fetch_forecast_payload(attempts, max_retries)
         IN  /\ payload.models \in Seq(Models)
             /\ \A d \in DOMAIN payload.days : payload.days[d] \in [Models -> Int \cup {None}]
<1> DEFINE final == {i \in DOMAIN attempts : attempts[i].status \notin Retryable}
<1>1. IsFiniteSet(final) /\ final \subseteq Int
  <2>1. IsFiniteSet(1 .. n)
    BY FS_Interval
  <2> QED BY <2>1, FS_Subset
<1>2. final # {} /\ attempts[Min(final)].status = "ok"
      /\ fetch_forecast_payload(attempts, max_retries) = attempts[Min(final)].payload
  BY DEF fetch_forecast_payload
<1>3. Min(final) \in final
  <2> HIDE DEF final
  <2> QED BY <1>1, <1>2, MinIs
<1>4. Min(final) \in DOMAIN attempts
  BY <1>3
<1> HIDE DEF final
<1> QED BY <1>2, <1>4 DEF Payloads

\* A day that is parsed has the models with a value, and believable ones.
LEMMA ParsedIs ==
  ASSUME NEW Models, NEW payload, NEW target,
         payload.models \in Seq(Models),
         \A d \in DOMAIN payload.days : payload.days[d] \in [Models -> Int \cup {None}],
         parse_forecast_payload(payload, target) # None
  PROVE  LET daily == parse_forecast_payload(payload, target)
             n == Len(daily.models)
         IN  /\ daily.models \in Seq(Models) /\ daily.models # <<>>
             /\ daily.values \in Seq(Int) /\ Len(daily.values) = n
             /\ \A i \in 1 .. n :
                   _parse_forecast_value_for_model(payload, daily.models[i], target) = daily.values[i]
                   /\ daily.values[i] # None
<1> DEFINE value == payload.days[target]
           given == Given(payload.models, value)
           daily == parse_forecast_payload(payload, target)
           n == Len(given)
<1>1. /\ target \in DOMAIN payload.days /\ given # <<>>
      /\ \A i \in DOMAIN given : Plausible(value[given[i]])
      /\ daily = [models |-> given, values |-> [i \in DOMAIN given |-> value[given[i]]]]
  BY DEF parse_forecast_payload
<1>2. given \in Seq(Models) /\ \A i \in 1 .. n : value[given[i]] # None
  BY GivenAre
<1>3. value \in [Models -> Int \cup {None}]
  BY <1>1
<1> HIDE DEF given, value, daily
<1>4. n \in Nat /\ DOMAIN given = 1 .. n
  BY <1>2
<1>5. ASSUME NEW i \in 1 .. n
      PROVE  /\ given[i] \in Models /\ value[given[i]] \in Int /\ value[given[i]] # None
             /\ _parse_forecast_value_for_model(payload, given[i], target) = value[given[i]]
  <2>1. given[i] \in Models /\ value[given[i]] # None /\ value[given[i]] \in Int \cup {None}
    BY <1>2, <1>3, <1>4
  <2>2. given[i] \in DOMAIN value /\ Plausible(value[given[i]])
    BY <1>1, <1>3, <1>4, <2>1
  <2>3. _parse_forecast_value_for_model(payload, given[i], target) = value[given[i]]
    BY <1>1, <2>1, <2>2 DEF _parse_forecast_value_for_model, value
  <2> QED BY <2>1, <2>3
<1>6. daily.models = given /\ daily.values = [i \in 1 .. n |-> value[given[i]]]
  BY <1>1, <1>4
<1>7. daily.values \in Seq(Int) /\ Len(daily.values) = n
  BY <1>4, <1>5, <1>6
<1>8. \A i \in 1 .. n : daily.values[i] = value[given[i]]
  BY <1>6
<1> QED BY <1>1, <1>2, <1>5, <1>6, <1>7, <1>8 DEF daily

\* What a fetch returns, if it returns a forecast.
LEMMA FetchedIs ==
  ASSUME NEW Models, NEW before, NEW after, NEW made, RunsAround(before, after, made, Models),
         NEW attempts, Payloads(attempts, Models), NEW n \in Nat, DOMAIN attempts = 1 .. n,
         NEW target \in Int, NEW max_retries,
         fetch_open_meteo_live_bundle(before, attempts, after, {target}, max_retries) # None
  PROVE  BundleIs(fetch_open_meteo_live_bundle(before, attempts, after, {target}, max_retries),
                  before, after, Models, target)
<1> DEFINE bundle == fetch_open_meteo_live_bundle(before, attempts, after, {target}, max_retries)
           payload == fetch_forecast_payload(attempts, max_retries)
           Meta(fetched) == [m \in {m \in Models : fetched[m].status = "ok"} |-> fetched[m].run]
           meta == Meta(after)
           daily == [d \in {target} |-> parse_forecast_payload(payload, d)]
           maps == _build_lead_maps(meta, {target}, payload)
<1>1. /\ fetch_rolling_meta_batch(before) # None /\ payload # None
      /\ fetch_rolling_meta_batch(after) # None
      /\ bundle = Bundle(_build_lead_maps(fetch_rolling_meta_batch(after), {target}, payload),
                         fetch_rolling_meta_batch(before), fetch_rolling_meta_batch(after))
  BY DEF fetch_open_meteo_live_bundle, BundleOf
<1>2. \A fetched : DOMAIN fetched = Models /\ fetch_rolling_meta_batch(fetched) # None =>
          /\ fetch_rolling_meta_batch(fetched) = Meta(fetched)
          /\ \A m \in Models : fetched[m].status \in {"ok", "missing"}
  BY DEF fetch_rolling_meta_batch
<1>3. /\ fetch_rolling_meta_batch(before) = Meta(before) /\ fetch_rolling_meta_batch(after) = meta
      /\ \A m \in Models : before[m].status \in {"ok", "missing"} /\ after[m].status \in {"ok", "missing"}
  BY <1>1, <1>2 DEF RunsAround
<1>4. maps # None /\ bundle = Bundle(maps, Meta(before), meta)
  <2>1. bundle = Bundle(maps, Meta(before), meta)
    BY <1>1, <1>3
  <2> HIDE DEF maps, meta, Meta
  <2> QED BY <2>1 DEF Bundle, bundle
<1>5. /\ bundle.daily = maps.daily /\ bundle.leads = maps.leads /\ bundle.meta = meta
      /\ bundle.stale = \E m \in DOMAIN Meta(before) \cap DOMAIN meta : Meta(before)[m] # meta[m]
  <2> HIDE DEF maps, meta, Meta, bundle
  <2> QED BY <1>4 DEF Bundle
<1>6. /\ daily[target] # None /\ maps.daily = daily
      /\ DOMAIN maps.leads = {x \in (DOMAIN meta) \X {target} :
                                 _parse_forecast_value_for_model(payload, x[1], x[2]) # None}
      /\ \A x \in DOMAIN maps.leads : maps.leads[x] = compute_lead_hours(meta[x[1]], x[2])
  <2>1. maps = LeadMaps(daily, meta, payload)
    BY DEF _build_lead_maps
  <2> HIDE DEF maps, meta, payload
  <2>2. DOMAIN daily = {target} /\ daily[target] = parse_forecast_payload(payload, target)
    OBVIOUS
  <2> HIDE DEF daily
  <2>3. daily[target] # None
    BY <1>4, <2>1, <2>2 DEF LeadMaps
  <2> QED BY <1>4, <2>1, <2>2 DEF LeadMaps
<1>7. /\ payload.models \in Seq(Models)
      /\ \A d \in DOMAIN payload.days : payload.days[d] \in [Models -> Int \cup {None}]
  BY <1>1, PayloadIs
<1> DEFINE day == bundle.daily[target]
           k == Len(day.models)
<1>8. day = parse_forecast_payload(payload, target) /\ DOMAIN bundle.daily = {target}
  <2> HIDE DEF bundle, maps, meta, payload
  <2> QED BY <1>5, <1>6
<1>9. /\ day.models \in Seq(Models) /\ day.models # <<>>
      /\ day.values \in Seq(Int) /\ Len(day.values) = k
      /\ \A i \in 1 .. k :
             _parse_forecast_value_for_model(payload, day.models[i], target) = day.values[i]
             /\ day.values[i] # None
  <2>1. parse_forecast_payload(payload, target) # None
    BY <1>6
  <2> HIDE DEF bundle, maps, meta, payload
  <2> QED BY <1>7, <1>8, <2>1, ParsedIs
<1>10. ASSUME NEW i \in 1 .. k, day.models[i] \in DOMAIN meta
       PROVE  /\ <<day.models[i], target>> \in DOMAIN bundle.leads
              /\ bundle.leads[<<day.models[i], target>>] = compute_lead_hours(meta[day.models[i]], target)
  <2> DEFINE m == day.models[i]
  <2>1. _parse_forecast_value_for_model(payload, m, target) # None
    <3> HIDE DEF payload, bundle
    <3> QED BY <1>9
  <2> HIDE DEF bundle, maps, meta, payload, m
  <2>2. <<m, target>> \in (DOMAIN meta) \X {target}
    BY <1>10 DEF m
  <2>3. <<m, target>> \in DOMAIN maps.leads
    BY <1>6, <2>1, <2>2
  <2>4. maps.leads[<<m, target>>] = compute_lead_hours(meta[m], target)
    BY <1>6, <2>3
  <2> QED BY <1>5, <2>3, <2>4 DEF m
<1>11. bundle.stale = \E m \in Models : /\ before[m].status = "ok" /\ after[m].status = "ok"
                                        /\ before[m].run # after[m].run
  <2>1. /\ DOMAIN Meta(before) = {m \in Models : before[m].status = "ok"}
        /\ \A m \in DOMAIN Meta(before) : Meta(before)[m] = before[m].run
        /\ DOMAIN meta = {m \in Models : after[m].status = "ok"}
        /\ \A m \in DOMAIN meta : meta[m] = after[m].run
    OBVIOUS
  <2> HIDE DEF bundle, meta, Meta
  <2>2. (\E m \in DOMAIN Meta(before) \cap DOMAIN meta : Meta(before)[m] # meta[m])
            = (\E m \in Models : /\ before[m].status = "ok" /\ after[m].status = "ok"
                                 /\ before[m].run # after[m].run)
    BY <2>1
  <2> QED BY <1>5, <2>2
<1> HIDE DEF bundle, maps, payload, daily
<1> QED BY <1>3, <1>5, <1>8, <1>9, <1>10, <1>11 DEF BundleIs, bundle

\* A run after the fetch made the forecast, unless that is excused.
LEMMA MadeByItsRun ==
  ASSUME NEW Models, NEW before, NEW after, NEW made, RunsAround(before, after, made, Models),
         NEW target, NEW bundle, BundleIs(bundle, before, after, Models, target),
         NEW m \in Models, after[m].status = "ok"
  PROVE  after[m].run = made[m] \/ Excused(m, bundle, before)
<1> SUFFICES ASSUME ~bundle.stale, before[m].status # "missing"
             PROVE  after[m].run = made[m]
  BY DEF Excused
<1>1. before[m].status = "ok"
  BY DEF BundleIs
<1>2. before[m].run = after[m].run
  BY <1>1 DEF BundleIs
<1> QED BY <1>1, <1>2 DEF RunsAround

\* What is known of the runs of one day's forecast.
LEMMA DailyIs ==
  ASSUME NEW Models, NoneIsNoAnswer(Models), NEW before, NEW after, NEW made,
         RunsAround(before, after, made, Models), NEW target \in Int,
         NEW bundle, BundleIs(bundle, before, after, Models, target)
  PROVE  LET f == daily_to_forecast_values(bundle, target)
             n == Len(f.models)
         IN  /\ ForecastOf(f, Models) /\ KnowsItsRuns(f, after, Models, target)
             /\ DOMAIN f.models = 1 .. n
             /\ f.runs \in Seq(Int \cup {None}) /\ Len(f.runs) = n /\ f.inits # None
             /\ \A i \in 1 .. n : (f.runs[i] = None) <=> (after[f.models[i]].status = "missing")
<1> DEFINE f == daily_to_forecast_values(bundle, target)
           day == bundle.daily[target]
           n == Len(day.models)
           Named(i) == /\ day.models[i] \in DOMAIN bundle.meta
                       /\ <<day.models[i], target>> \in DOMAIN bundle.leads
           Init(i) == IF Named(i) THEN bundle.leads[<<day.models[i], target>>] ELSE 0
           Run(i) == IF Named(i) THEN bundle.meta[day.models[i]] ELSE None
<1>1. /\ day.models \in Seq(Models) /\ day.models # <<>> /\ DOMAIN day.models = 1 .. n /\ n \in Nat \ {0}
      /\ day.values \in Seq(Int) /\ Len(day.values) = n
  BY DEF BundleIs
<1>2. /\ f.models = day.models /\ f.values = day.values
      /\ f.inits = [i \in DOMAIN day.models |-> Init(i)]
      /\ f.runs = [i \in DOMAIN day.models |-> Run(i)]
  BY DEF daily_to_forecast_values
<1> HIDE DEF f
<1>3. ASSUME NEW i \in 1 .. n
      PROVE  LET m == day.models[i]
             IN  /\ m \in Models /\ after[m].status \in {"ok", "missing"}
                 /\ after[m].status = "ok" =>
                       /\ Run(i) = after[m].run /\ after[m].run \in Int
                       /\ Init(i) = compute_lead_hours(after[m].run, target) /\ Init(i) \in Int
                 /\ after[m].status = "missing" => Run(i) = None /\ Init(i) = 0
  <2> DEFINE m == day.models[i]
             meta == [x \in {x \in Models : after[x].status = "ok"} |-> after[x].run]
  <2>1. m \in Models /\ after[m].status \in {"ok", "missing"} /\ bundle.meta = meta
    BY <1>1 DEF BundleIs
  <2>2. CASE after[m].status = "ok"
    <3>1. m \in DOMAIN meta /\ meta[m] = after[m].run
      BY <2>1, <2>2
    <3>2. /\ <<m, target>> \in DOMAIN bundle.leads
          /\ bundle.leads[<<m, target>>] = compute_lead_hours(meta[m], target)
      BY <3>1 DEF BundleIs
    <3>3. after[m].run \in Int /\ compute_lead_hours(after[m].run, target) \in Int
      BY <2>1, <2>2, LeadIs DEF RunsAround
    <3> HIDE DEF meta, m
    <3>4. Named(i)
      BY <2>1, <3>1, <3>2 DEF m
    <3> QED BY <2>1, <2>2, <3>1, <3>2, <3>3, <3>4 DEF m
  <2>3. CASE after[m].status = "missing"
    <3>1. m \notin DOMAIN meta
      BY <2>3
    <3>2. ~Named(i)
      BY <2>1, <3>1
    <3> HIDE DEF Named
    <3> QED BY <2>1, <2>3, <3>2
  <2> QED BY <2>1, <2>2, <2>3
<1> HIDE DEF Init, Run
<1>4. /\ f.inits = [i \in 1 .. n |-> Init(i)] /\ f.runs = [i \in 1 .. n |-> Run(i)]
      /\ \A i \in 1 .. n : Init(i) \in Int /\ Run(i) \in Int \cup {None}
  <2>1. ASSUME NEW i \in 1 .. n  PROVE Init(i) \in Int /\ Run(i) \in Int \cup {None}
    <3>1. CASE after[day.models[i]].status = "ok"
      BY <1>3, <3>1
    <3>2. CASE after[day.models[i]].status = "missing"
      BY <1>3, <3>2
    <3> QED BY <1>3, <3>1, <3>2
  <2>2. f.inits = [i \in 1 .. n |-> Init(i)] /\ f.runs = [i \in 1 .. n |-> Run(i)]
    <3> HIDE DEF n
    <3> QED BY <1>1, <1>2
  <2> QED BY <2>1, <2>2
<1>5. /\ f.inits \in Seq(Int \cup {None}) /\ Len(f.inits) = n /\ DOMAIN f.inits = 1 .. n
      /\ f.runs \in Seq(Int \cup {None}) /\ Len(f.runs) = n
  <2> HIDE DEF n, day
  <2> QED BY <1>1, <1>4
<1>6. f.inits # None /\ f.runs # None /\ f.inits # <<>>
  <2>1. f.inits # <<>>
    BY <1>1, <1>5
  <2> QED BY <1>5, <2>1 DEF NoneIsNoAnswer
<1>7. \A i \in 1 .. n : f.inits[i] = Init(i) /\ f.runs[i] = Run(i)
  BY <1>4
<1>8. ForecastOf(f, Models)
  BY <1>1, <1>2 DEF ForecastOf
<1>9. \A i \in 1 .. n :
          /\ f.runs[i] # None =>
                /\ f.models[i] \in Models /\ after[f.models[i]].status = "ok"
                /\ f.runs[i] = after[f.models[i]].run
                /\ f.inits[i] = compute_lead_hours(after[f.models[i]].run, target)
          /\ (f.runs[i] = None) <=> (after[f.models[i]].status = "missing")
  <2> TAKE i \in 1 .. n
  <2>1. Run(i) \in Int => Run(i) # None
    BY DEF NoneIsNoAnswer
  <2> HIDE DEF n
  <2> QED BY <1>2, <1>3, <1>7, <2>1
<1>10. f.models \in Seq(Models \cup {Wunderground})
  BY <1>1, <1>2
<1>11. KnowsItsRuns(f, after, Models, target)
  <2>1. Len(f.models) = n
    BY <1>2
  <2> HIDE DEF n, day
  <2> QED BY <1>1, <1>5, <1>6, <1>9, <1>10, <2>1 DEF KnowsItsRuns
<1> QED BY <1>1, <1>2, <1>5, <1>6, <1>8, <1>9, <1>11 DEF f

\* Wunderground is appended with a run of its own that nobody knows.
LEMMA AppendingKeepsRuns ==
  ASSUME NEW Models, NoneIsNoAnswer(Models), NEW after, NEW target, NEW f, ForecastOf(f, Models),
         KnowsItsRuns(f, after, Models, target), f.inits # None,
         f.runs \in Seq(Int \cup {None}), Len(f.runs) = Len(f.models),
         NEW answer, NEW as_of
  PROVE  KnowsItsRuns(append_wunderground_forecast(f, answer, target, as_of), after, Models, target)
<1> DEFINE now == append_wunderground_forecast(f, answer, target, as_of)
           n == Len(f.models)
           adjusted == fetch_wu_adjusted_tmax_c(answer, target, as_of)
           wall == lead_hours_to_end_of_target_day(target, as_of)
           inits == _pad_to_model_count(f.inits, n, 0)
           runs == _pad_to_model_count(f.runs, n, None)
<1> SUFFICES ASSUME now # f  PROVE KnowsItsRuns(now, after, Models, target)
  OBVIOUS
<1>1. now = _append_wunderground_predicted(f, adjusted, wall)
  BY AppendedIs
<1>2. n \in Nat \ {0} /\ f.models \in Seq(Models) /\ DOMAIN f.inits = 1 .. n /\ Len(f.inits) = n
      /\ f.runs # None /\ DOMAIN f.runs = 1 .. n
  BY DEF KnowsItsRuns, ForecastOf
<1>3. /\ now.models = Append(f.models, Wunderground)
      /\ now.inits = Append(inits, wall) /\ now.runs = Append(runs, None)
  BY <1>1, <1>2 DEF _append_wunderground_predicted
<1>4. /\ (\E S : inits \in Seq(S)) /\ Len(inits) = n /\ \A i \in 1 .. n : inits[i] = f.inits[i]
      /\ DOMAIN runs = 1 .. n /\ Len(runs) = n /\ \A i \in 1 .. n : runs[i] = f.runs[i]
  <2>1. /\ (\E S : inits \in Seq(S)) /\ Len(inits) = n
        /\ \A i \in 1 .. n : inits[i] = IF i <= Len(f.inits) THEN f.inits[i] ELSE 0
    BY <1>2, PaddedIs
  <2>2. /\ DOMAIN runs = 1 .. n /\ Len(runs) = n
        /\ \A i \in 1 .. n : runs[i] = IF i <= Len(f.runs) THEN f.runs[i] ELSE None
    BY <1>2, PaddedIs
  <2> HIDE DEF inits, runs
  <2> QED BY <1>2, <2>1, <2>2
<1>5. runs \in Seq(Int \cup {None})
  <2>1. \E S : runs \in Seq(S)
    BY <1>2, PaddedIs
  <2>2. \A i \in 1 .. n : runs[i] \in Int \cup {None}
    BY <1>2, <1>4
  <2> HIDE DEF runs
  <2> QED BY <1>4, <2>1, <2>2
<1> HIDE DEF now, inits, runs
<1>6. /\ Len(now.models) = n + 1 /\ now.models \in Seq(Models \cup {Wunderground})
      /\ \A i \in 1 .. n : now.models[i] = f.models[i]
  BY <1>2, <1>3
<1>7. /\ Len(now.inits) = n + 1 /\ DOMAIN now.inits = 1 .. n + 1
      /\ \A i \in 1 .. n : now.inits[i] = f.inits[i]
  BY <1>2, <1>3, <1>4
<1>8. /\ now.runs \in Seq(Int \cup {None}) /\ now.runs[n + 1] = None
      /\ \A i \in 1 .. n : now.runs[i] = f.runs[i]
  BY <1>2, <1>3, <1>4, <1>5
<1>9. now.runs # None
  BY <1>8 DEF NoneIsNoAnswer
<1>10. now.inits # <<>>
  BY <1>2, <1>7
<1>11. ASSUME NEW i \in 1 .. n + 1, now.runs[i] # None
       PROVE  /\ now.models[i] \in Models /\ after[now.models[i]].status = "ok"
              /\ now.runs[i] = after[now.models[i]].run
              /\ now.inits[i] = compute_lead_hours(after[now.models[i]].run, target)
  <2>1. i \in 1 .. n
    BY <1>2, <1>8, <1>11
  <2> QED BY <1>6, <1>7, <1>8, <1>11, <2>1 DEF KnowsItsRuns
<1>12. n + 1 \in Nat \ {0}
  BY <1>2
<1> HIDE DEF n
<1> QED BY <1>6, <1>7, <1>9, <1>10, <1>11, <1>12 DEF KnowsItsRuns

\* The leads that are looked up are of the runs known after the fetch.
LEMMA KnownLeadIs ==
  ASSUME NEW Models, NoneIsNoAnswer(Models), NEW after, NEW target \in Int, NEW f,
         KnowsItsRuns(f, after, Models, target),
         \A m \in Models : after[m].status = "ok" => after[m].run \in Int
  PROVE  LET leads == verified_init_lead_hours_by_model(f)
         IN  /\ leads # None
             /\ \A m \in DOMAIN leads : /\ m \in Models /\ after[m].status = "ok"
                                        /\ leads[m] = compute_lead_hours(after[m].run, target)
<1> DEFINE n == Len(f.models)
           known == {i \in 1 .. n : f.runs[i] # None}
           named == {f.models[i] : i \in known}
           Of(m) == {i \in known : f.models[i] = m}
           leads == verified_init_lead_hours_by_model(f)
<1>1. n \in Nat /\ DOMAIN f.models = 1 .. n
  BY DEF KnowsItsRuns
<1>2. leads = [m \in named |-> f.inits[Max(Of(m))]]
  <2>1. f.inits # <<>> /\ Len(f.inits) = Len(f.models) /\ f.runs # None
    BY DEF KnowsItsRuns
  <2> QED BY <1>1, <2>1 DEF verified_init_lead_hours_by_model
<1> HIDE DEF leads
<1>3. ASSUME NEW m \in named
      PROVE  /\ m \in Models /\ after[m].status = "ok" /\ leads[m] \in Int
             /\ leads[m] = compute_lead_hours(after[m].run, target)
  <2>1. Of(m) # {} /\ Of(m) \subseteq Int
    BY <1>1
  <2>2. IsFiniteSet(Of(m))
    <3>1. IsFiniteSet(1 .. n)
      BY <1>1, FS_Interval
    <3> QED BY <3>1, FS_Subset
  <2>3. Max(Of(m)) \in Of(m)
    <3> HIDE DEF Of
    <3> QED BY <2>1, <2>2, MaxIs
  <2> DEFINE k == Max(Of(m))
  <2>4. k \in 1 .. n /\ f.runs[k] # None /\ f.models[k] = m
    BY <2>3
  <2>5. leads[m] = f.inits[k]
    BY <1>2
  <2> HIDE DEF k, named
  <2>6. /\ m \in Models /\ after[m].status = "ok"
        /\ f.inits[k] = compute_lead_hours(after[m].run, target)
    BY <2>4 DEF KnowsItsRuns
  <2>7. compute_lead_hours(after[m].run, target) \in Int
    BY <2>6, LeadIs
  <2> QED BY <2>5, <2>6, <2>7
<1>4. DOMAIN leads = named /\ leads \in [named -> Int] /\ named \in SUBSET Models
  <2> HIDE DEF named
  <2> QED BY <1>2, <1>3
<1>5. leads # None
  <2> HIDE DEF named
  <2> QED BY <1>4 DEF NoneIsNoAnswer
<1> HIDE DEF named
<1> QED BY <1>3, <1>4, <1>5 DEF leads

\* The chosen error was measured at no shorter lead than the forecast has.
LEMMA ErrorIs ==
  ASSUME NEW Models, NoneIsNoAnswer(Models), NEW before, NEW after, NEW made,
         RunsAround(before, after, made, Models), NEW target \in Int,
         NEW bundle, BundleIs(bundle, before, after, Models, target),
         NEW f, KnowsItsRuns(f, after, Models, target),
         NEW rows, CalibrationRows(rows), NEW station, NEW wall
  PROVE  ErrorCovers(BestFor(f, wall, rows, station), bundle, before, made, target, wall)
<1> DEFINE leads == verified_init_lead_hours_by_model(f)
           best == select_best_model(rows, station, f.models, wall, leads)
           m == best.model
<1>1. /\ leads # None
      /\ \A x \in DOMAIN leads : /\ x \in Models /\ after[x].status = "ok"
                                 /\ leads[x] = compute_lead_hours(after[x].run, target)
  BY KnownLeadIs DEF RunsAround
<1>2. BestIsCovered(rows, station, f.models, wall, leads)
  <2>1. f.models \in Seq(Models \cup {Wunderground})
    BY DEF KnowsItsRuns
  <2> HIDE DEF leads
  <2> QED BY <2>1, BestRowIsCovered
<1> HIDE DEF leads
<1>3. best # None => Needed(best, wall, leads) # None /\ best.lead >= Needed(best, wall, leads)
  BY <1>2 DEF BestIsCovered, Best
<1> HIDE DEF best
<1>4. ASSUME best # None, effective_lead_hours_anchor(best) = ScrapedAt
      PROVE  best.lead >= wall
  BY <1>3, <1>4 DEF Needed, lookup_lead_hours_for_calibration
<1>5. ASSUME best # None, effective_lead_hours_anchor(best) # ScrapedAt
      PROVE  best.lead >= compute_lead_hours(made[m], target) \/ Excused(m, bundle, before)
  <2>1. m \in DOMAIN leads /\ best.lead >= leads[m]
    BY <1>1, <1>3, <1>5 DEF Needed, lookup_lead_hours_for_calibration
  <2>2. m \in Models /\ after[m].status = "ok" /\ leads[m] = compute_lead_hours(after[m].run, target)
    BY <1>1, <2>1
  <2>3. after[m].run = made[m] \/ Excused(m, bundle, before)
    BY <2>2, MadeByItsRun
  <2> QED BY <2>1, <2>2, <2>3
<1>6. ErrorCovers(best, bundle, before, made, target, wall)
  BY <1>4, <1>5 DEF ErrorCovers
<1> QED BY <1>6 DEF BestFor, best, leads

\* What is stored of a fetch is of the runs that made it.
LEMMA StoredIs ==
  ASSUME NEW Models, NoneIsNoAnswer(Models), NEW before, NEW after, NEW made,
         RunsAround(before, after, made, Models), NEW target \in Int,
         NEW bundle, BundleIs(bundle, before, after, Models, target), NEW as_of
  PROVE  StoredAsMade(persist_open_meteo_fetch(bundle, as_of), bundle, before, after, made, target)
<1> DEFINE f == daily_to_forecast_values(bundle, target)
           n == Len(f.models)
           stored == persist_open_meteo_fetch(bundle, as_of)
<1>1. /\ KnowsItsRuns(f, after, Models, target) /\ DOMAIN f.models = 1 .. n
      /\ \A i \in 1 .. n : (f.runs[i] = None) <=> (after[f.models[i]].status = "missing")
  BY DailyIs
<1> HIDE DEF f
<1>2. stored = StoredRows(f, target, as_of, bundle.stale)
  BY DEF BundleIs, persist_open_meteo_fetch, f
<1> HIDE DEF stored
<1>3. ASSUME NEW r \in stored
      PROVE  /\ (r.run = None) <=> (after[r.model].status = "missing")
             /\ r.run # None => r.run + r.lead = (target + 1) * Day
                                /\ (r.run = made[r.model] \/ Excused(r.model, bundle, before))
  <2>1. PICK i \in 1 .. n :
            /\ r.model = f.models[i] /\ r.run = f.runs[i]
            /\ r.lead = IF f.runs[i] = None THEN None ELSE f.inits[i]
    BY <1>1, <1>2 DEF StoredRows
  <2>2. ASSUME r.run # None
        PROVE  r.run + r.lead = (target + 1) * Day
               /\ (r.run = made[r.model] \/ Excused(r.model, bundle, before))
    <3>1. /\ r.model \in Models /\ after[r.model].status = "ok"
          /\ r.run = after[r.model].run /\ r.lead = compute_lead_hours(after[r.model].run, target)
      BY <1>1, <2>1, <2>2 DEF KnowsItsRuns
    <3>2. r.run \in Int
      BY <3>1 DEF RunsAround
    <3>3. r.run + r.lead = (target + 1) * Day
      BY <3>1, <3>2, LeadIs
    <3>4. after[r.model].run = made[r.model] \/ Excused(r.model, bundle, before)
      BY <3>1, MadeByItsRun
    <3> QED BY <3>1, <3>3, <3>4
  <2>3. (r.run = None) <=> (after[r.model].status = "missing")
    BY <1>1, <2>1
  <2> QED BY <2>2, <2>3
<1>4. StoredAsMade(stored, bundle, before, after, made, target)
  BY <1>3 DEF StoredAsMade
<1> QED BY <1>4 DEF stored

(* Whatever the providers answer, before, during and after the fetch, and   *)
(* whatever rows there are, the error a live forecast is given was measured *)
(* at no shorter lead than the forecast has, and what is stored of it names *)
(* the run that made it, except for what was published during the fetch.    *)
THEOREM ErrorsCoverTheirRuns ==
  ASSUME NEW Models, NoneIsNoAnswer(Models), NEW before, NEW after, NEW made,
         RunsAround(before, after, made, Models),
         NEW attempts, Payloads(attempts, Models), NEW n \in Nat, DOMAIN attempts = 1 .. n,
         NEW target \in Int, NEW answer, NEW as_of,
         NEW rows, CalibrationRows(rows), NEW station
  PROVE  ErrorCoversTheRun(before, attempts, after, made, target, answer, as_of, rows, station)
<1> DEFINE bundle == fetch_open_meteo_live_bundle(before, attempts, after, {target}, 3)
           f == daily_to_forecast_values(bundle, target)
           forecast == append_wunderground_forecast(f, answer, target, as_of)
           wall == lead_hours_to_end_of_target_day(target, as_of)
<1> SUFFICES Covered(bundle, before, after, made, target, answer, as_of, rows, station)
  BY DEF ErrorCoversTheRun
<1>1. ASSUME bundle # None  PROVE BundleIs(bundle, before, after, Models, target)
  BY <1>1, FetchedIs
<1> HIDE DEF bundle
<1>2. ASSUME bundle # None
      PROVE  ErrorCovers(BestFor(forecast, wall, rows, station), bundle, before, made, target, wall)
  <2>1. /\ ForecastOf(f, Models) /\ KnowsItsRuns(f, after, Models, target)
        /\ f.runs \in Seq(Int \cup {None}) /\ Len(f.runs) = Len(f.models) /\ f.inits # None
    BY <1>1, <1>2, DailyIs
  <2> HIDE DEF f, wall
  <2>2. KnowsItsRuns(forecast, after, Models, target)
    BY <2>1, AppendingKeepsRuns
  <2> HIDE DEF forecast
  <2> QED BY <1>1, <1>2, <2>2, ErrorIs
<1>3. ASSUME bundle # None
      PROVE  StoredAsMade(persist_open_meteo_fetch(bundle, as_of), bundle, before, after, made, target)
  BY <1>1, <1>3, StoredIs
<1> QED BY <1>2, <1>3 DEF Covered

-----------------------------------------------------------------------------
(* Folds over finite sets.                                                 *)

\* What a fold says of a set, given what it says of fewer: pick chooses the
\* element that comes last, step adds it.
FoldBody(base, pick, step, g, s) ==
    IF s = {} THEN base ELSE step[pick[s]][g[s \ {pick[s]}]]
IsFold(g, S, A, base, pick, step) ==
    /\ g = [s \in SUBSET S |-> FoldBody(base, pick, step, g, s)]
    /\ \A s \in SUBSET S : g[s] \in A

\* A fold whose steps stay among the values A has them all.
LEMMA FoldExists ==
  ASSUME NEW S, IsFiniteSet(S), NEW pick, \A s \in SUBSET S : s # {} => pick[s] \in s,
         NEW A, NEW base \in A, NEW step, \A x \in S, a \in A : step[x][a] \in A
  PROVE  \E g : IsFold(g, S, A, base, pick, step)
<1> DEFINE Body(g, s) == FoldBody(base, pick, step, g, s)
           Solved == {T \in SUBSET S : \E g : \A s \in SUBSET S :
                         Cardinality(s) <= Cardinality(T) => g[s] = Body(g, s)}
<1>0. \A s \in SUBSET S : IsFiniteSet(s) /\ Cardinality(s) \in Nat
  BY FS_Subset, FS_CardinalityType
<1>1. {} \in Solved
  <2> DEFINE g == [s \in SUBSET S |-> base]
  <2>1. \A s \in SUBSET S : Cardinality(s) <= Cardinality({}) => s = {}
    <3>1. Cardinality({}) = 0  BY FS_EmptySet
    <3>2. \A s \in SUBSET S : Cardinality(s) = 0 => s = {}
      BY <1>0, FS_EmptySet
    <3> QED BY <1>0, <3>1, <3>2
  <2>2. \A s \in SUBSET S : Cardinality(s) <= Cardinality({}) => g[s] = Body(g, s)
    BY <2>1 DEF FoldBody
  <2> HIDE DEF g
  <2> QED BY <2>2
<1>2. ASSUME NEW T \in SUBSET S, T # {}, \A x \in T : T \ {x} \in Solved
      PROVE  T \in Solved
  <2>1. PICK x \in T : TRUE
    BY <1>2
  <2>2. PICK g : \A s \in SUBSET S :
                     Cardinality(s) <= Cardinality(T \ {x}) => g[s] = Body(g, s)
    BY <1>2, <2>1
  <2>3. Cardinality(T \ {x}) = Cardinality(T) - 1 /\ Cardinality(T) \in Nat
    BY <1>0, <2>1, FS_RemoveElement
  <2> DEFINE h == [s \in SUBSET S |-> Body(g, s)]
  <2>4. \A s \in SUBSET S : h[s] = Body(g, s)
    OBVIOUS
  <2> HIDE DEF h
  <2>5. ASSUME NEW s \in SUBSET S, Cardinality(s) <= Cardinality(T)
        PROVE  h[s] = Body(h, s)
    <3>1. CASE s = {}
      BY <2>4, <3>1 DEF FoldBody
    <3>2. CASE s # {}
      <4> DEFINE t == s \ {pick[s]}
      <4>1. pick[s] \in s /\ t \in SUBSET S
        BY <3>2
      <4>2. Cardinality(t) = Cardinality(s) - 1 /\ Cardinality(s) \in Nat
        BY <1>0, <4>1, FS_RemoveElement
      <4>3. Cardinality(t) <= Cardinality(T \ {x})
        BY <2>3, <2>5, <4>2
      <4>4. g[t] = h[t]
        BY <2>2, <2>4, <4>1, <4>3
      <4>5. h[s] = step[pick[s]][g[t]]
        BY <2>4, <3>2 DEF FoldBody
      <4> QED BY <3>2, <4>4, <4>5 DEF FoldBody
    <3> QED BY <3>1, <3>2
  <2> QED BY <2>5
<1> HIDE DEF Solved
<1>3. S \in Solved
  BY <1>1, <1>2, SetInduction
<1>4. PICK g : \A s \in SUBSET S : Cardinality(s) <= Cardinality(S) => g[s] = Body(g, s)
  BY <1>3 DEF Solved
<1>5. \A s \in SUBSET S : Cardinality(s) <= Cardinality(S)
  BY FS_Subset
<1> DEFINE h == [s \in SUBSET S |-> g[s]]
<1>6. \A s \in SUBSET S : h[s] = Body(g, s)
  BY <1>4, <1>5
<1>7. \A s \in SUBSET S : s # {} => s \ {pick[s]} \in SUBSET S
  OBVIOUS
<1>8. \A s \in SUBSET S : Body(g, s) = Body(h, s)
  BY <1>7 DEF FoldBody
<1>9. h = [s \in SUBSET S |-> Body(h, s)] /\ \A s \in SUBSET S : h[s] = Body(h, s)
  BY <1>6, <1>8
<1> HIDE DEF h
<1> DEFINE F == {s \in SUBSET S : \A t \in SUBSET s : h[t] \in A}
<1>10. {} \in F
  BY <1>9 DEF FoldBody
<1>11. ASSUME NEW s \in SUBSET S, s # {}, \A x \in s : s \ {x} \in F
       PROVE  s \in F
  <2>1. h[s] \in A
    <3>1. pick[s] \in s
      BY <1>11
    <3>2. h[s \ {pick[s]}] \in A
      BY <1>11, <3>1
    <3>3. h[s] = step[pick[s]][h[s \ {pick[s]}]] /\ pick[s] \in S
      BY <1>9, <1>11, <3>1 DEF FoldBody
    <3> HIDE DEF F
    <3> QED BY <3>2, <3>3
  <2>2. ASSUME NEW t \in SUBSET s, t # s
        PROVE  h[t] \in A
    <3>1. PICK x \in s : x \notin t
      BY <2>2
    <3>2. t \in SUBSET (s \ {x}) /\ s \ {x} \in F
      BY <1>11, <3>1
    <3> QED BY <3>2
  <2> QED BY <1>11, <2>1, <2>2
<1> HIDE DEF F
<1>12. S \in F
  BY <1>10, <1>11, SetInduction
<1>13. h = [s \in SUBSET S |-> Body(h, s)] /\ \A s \in SUBSET S : h[s] \in A
  BY <1>9, <1>12 DEF F
<1> QED BY <1>13 DEF IsFold

\* A fold stays among the values that each of its steps stays among.
LEMMA FoldStays ==
  ASSUME NEW S, IsFiniteSet(S), NEW A, NEW g, g[{}] \in A, NEW pick,
         \A s \in SUBSET S : s # {} => /\ pick[s] \in s
                                       /\ g[s \ {pick[s]}] \in A => g[s] \in A
  PROVE  g[S] \in A
<1> DEFINE F == {s \in SUBSET S : g[s] \in A}
<1>1. {} \in F
  OBVIOUS
<1>2. ASSUME NEW s \in SUBSET S, s # {}, \A x \in s : s \ {x} \in F
      PROVE  s \in F
  <2>1. pick[s] \in s /\ g[s \ {pick[s]}] \in A
    BY <1>2
  <2> QED BY <1>2, <2>1
<1> HIDE DEF F
<1>3. S \in F
  BY <1>1, <1>2, SetInduction
<1> QED BY <1>3 DEF F

\* Nothing adds up to nothing.
LEMMA SumOfZeros ==
  ASSUME NEW S, IsFiniteSet(S), NEW w, \A x \in S : w[x] = 0
  PROVE  SumFunctionOnSet(w, S) = 0
<1> DEFINE F == {s \in SUBSET S : SumFunctionOnSet(w, s) = 0}
<1>1. {} \in F
  BY SumEmpty
<1>2. ASSUME NEW s \in SUBSET S, s # {}, \A x \in s : s \ {x} \in F
      PROVE  s \in F
  <2>1. First(s) \in s /\ IsFiniteSet(s)
    BY <1>2, FirstIn, FS_Subset
  <2>2. SumFunctionOnSet(w, s) = w[First(s)] + SumFunctionOnSet(w, s \ {First(s)})
    BY <1>2, <2>1, SumStep
  <2>3. w[First(s)] = 0 /\ SumFunctionOnSet(w, s \ {First(s)}) = 0
    BY <1>2, <2>1
  <2> QED BY <2>2, <2>3
<1> HIDE DEF F
<1>3. S \in F
  BY <1>1, <1>2, SetInduction
<1> QED BY <1>3 DEF F

-----------------------------------------------------------------------------
(* Stakes, row by row.                                                     *)

\* A ticket of s cents for row i.
Ticket(acc, i, s) == [left |-> acc.left - s, of |-> [acc.of EXCEPT ![i] = s]]
NoTickets(n, balance) == [left |-> balance, of |-> [i \in 1 .. n |-> 0]]
Purse(n) == [left : Int, of : [1 .. n -> Int]]

\* The last of a few places, and the ones before it.
LEMMA LastPlace ==
  ASSUME NEW n \in Nat
  PROVE  /\ IsFiniteSet(1 .. n)
         /\ \A s \in SUBSET (1 .. n) : s # {} => Max(s) \in s
         /\ \A k \in 1 .. n : Max(1 .. k) = k /\ (1 .. k) \ {k} = 1 .. (k - 1)
<1>1. IsFiniteSet(1 .. n)
  BY FS_Interval
<1>2. ASSUME NEW s \in SUBSET (1 .. n), s # {}
      PROVE  Max(s) \in s /\ \A y \in s : y <= Max(s)
  <2>1. IsFiniteSet(s)
    BY <1>1, FS_Subset
  <2>2. s \subseteq Int
    OBVIOUS
  <2> QED BY <1>2, <2>1, <2>2, MaxIs
<1>3. ASSUME NEW k \in 1 .. n
      PROVE  Max(1 .. k) = k /\ (1 .. k) \ {k} = 1 .. (k - 1)
  <2>1. 1 .. k \in SUBSET (1 .. n) /\ k \in 1 .. k
    OBVIOUS
  <2>2. Max(1 .. k) \in 1 .. k /\ k <= Max(1 .. k)
    BY <1>2, <2>1
  <2> QED BY <2>2
<1> QED BY <1>1, <1>2, <1>3

\* The stakes given out over the first rows, the last of them last.
IsRun(g, n, balance, stake) ==
    /\ g = [s \in SUBSET (1 .. n) |->
              IF s = {} THEN NoTickets(n, balance)
              ELSE Ticket(g[s \ {Max(s)}], Max(s), stake[Max(s)][g[s \ {Max(s)}].left])]
    /\ \A s \in SUBSET (1 .. n) : g[s] \in Purse(n)

\* There is a run of the stakes over the rows: what is left decides each.
LEMMA RunExists ==
  ASSUME NEW n \in Nat, NEW balance \in Int, NEW stake \in [1 .. n -> [Int -> Int]]
  PROVE  \E g : IsRun(g, n, balance, stake)
<1> DEFINE S == 1 .. n
           A == Purse(n)
           base == NoTickets(n, balance)
           pick == [s \in SUBSET S |-> Max(s)]
           step == [x \in S |-> [a \in A |-> Ticket(a, x, stake[x][a.left])]]
<1>1. IsFiniteSet(S) /\ \A s \in SUBSET S : s # {} => pick[s] \in s
  BY LastPlace
<1>2. base \in A
  BY DEF NoTickets, Purse
<1>3. ASSUME NEW x \in S, NEW a \in A  PROVE step[x][a] \in A
  <2>1. a.left \in Int /\ a.of \in [S -> Int]
    BY DEF Purse
  <2>2. stake[x][a.left] \in Int
    BY <2>1
  <2>3. step[x][a] = Ticket(a, x, stake[x][a.left])
    OBVIOUS
  <2> QED BY <2>1, <2>2, <2>3 DEF Ticket, Purse
<1> HIDE DEF S, A, base, pick, step
<1>4. PICK g : IsFold(g, S, A, base, pick, step)
  BY <1>1, <1>2, <1>3, FoldExists
<1>7. /\ g = [s \in SUBSET S |-> FoldBody(base, pick, step, g, s)]
      /\ \A s \in SUBSET S : g[s] \in A
  BY <1>4 DEF IsFold
<1> DEFINE Body(s) == IF s = {} THEN base
                      ELSE Ticket(g[s \ {Max(s)}], Max(s), stake[Max(s)][g[s \ {Max(s)}].left])
<1>5. ASSUME NEW s \in SUBSET S
      PROVE  FoldBody(base, pick, step, g, s) = Body(s)
  <2>1. CASE s = {}
    BY <2>1 DEF FoldBody
  <2>2. CASE s # {}
    <3>1. pick[s] = Max(s) /\ Max(s) \in S
      BY <1>1, <2>2 DEF pick
    <3>2. g[s \ {Max(s)}] \in A
      BY <1>7
    <3>3. step[Max(s)][g[s \ {Max(s)}]]
             = Ticket(g[s \ {Max(s)}], Max(s), stake[Max(s)][g[s \ {Max(s)}].left])
      BY <3>1, <3>2 DEF step
    <3> QED BY <2>2, <3>1, <3>3 DEF FoldBody
  <2> QED BY <2>1, <2>2
<1>6. g = [s \in SUBSET S |-> Body(s)]
  BY <1>7, <1>5
<1> QED BY <1>7, <1>6 DEF base, A, S, IsRun

\* A run whose stakes are allowed, and within what is left, spends no more than
\* there was.
LEMMA RunSpends ==
  ASSUME NEW n \in Nat, NEW balance \in Nat, NEW acc,
         NEW Allowed, \A i \in 1 .. n : Allowed[i] \subseteq Nat /\ 0 \in Allowed[i],
         acc[0] = NoTickets(n, balance),
         \A k \in 0 .. n - 1 : acc[k] \in Purse(n) =>
             \E s \in Int : /\ acc[k + 1] = Ticket(acc[k], k + 1, s)
                            /\ s # 0 => s \in Allowed[k + 1] /\ s <= acc[k].left
  PROVE  /\ acc[n].of \in [1 .. n -> Nat] /\ \A i \in 1 .. n : acc[n].of[i] \in Allowed[i]
         /\ SumFunctionOnSet(acc[n].of, 1 .. n) <= balance
<1> DEFINE Sums(k) == SumFunctionOnSet(acc[k].of, 1 .. n)
           Good == {k \in 0 .. n : /\ acc[k].of \in [1 .. n -> Nat]
                                   /\ \A i \in 1 .. n : acc[k].of[i] \in Allowed[i]
                                   /\ acc[k] \in Purse(n) /\ acc[k].left \in Nat
                                   /\ Sums(k) + acc[k].left = balance
                                   /\ \A i \in 1 .. n : i > k => acc[k].of[i] = 0}
<1>0. ASSUME NEW f \in [1 .. n -> Nat]
      PROVE  f \in [1 .. n -> Int] /\ \A i \in 1 .. n : f[i] \in Int
  OBVIOUS
<1>1. IsFiniteSet(1 .. n)
  BY LastPlace, Zenon
<1>2. 0 \in Good
  <2>2. acc[0].of = [i \in 1 .. n |-> 0] /\ acc[0].left = balance
    BY DEF NoTickets
  <2>3. Sums(0) = 0
    BY <1>1, <2>2, SumOfZeros
  <2>4. acc[0] \in Purse(n)
    BY DEF NoTickets, Purse
  <2> QED BY <2>2, <2>3, <2>4
<1>3. ASSUME NEW k \in 0 .. n - 1, k \in Good
      PROVE  k + 1 \in Good
  <2> DEFINE a == acc[k]
             b == acc[k + 1]
             j == k + 1
  <2>1. PICK s \in Int : /\ b = Ticket(a, j, s)
                         /\ s # 0 => s \in Allowed[j] /\ s <= a.left
    BY <1>3
  <2>2. /\ a.of \in [1 .. n -> Nat] /\ a.left \in Nat /\ Sums(k) + a.left = balance
        /\ \A i \in 1 .. n : a.of[i] \in Allowed[i] /\ (i > k => a.of[i] = 0)
    BY <1>3
  <2>3. j \in 1 .. n /\ k < j /\ \A i \in 1 .. n : i > j => i > k
    OBVIOUS
  <2> HIDE DEF a, b, j
  <2>4. b.left = a.left - s /\ b.of = [a.of EXCEPT ![j] = s] /\ b = [left |-> b.left, of |-> b.of]
    BY <2>1 DEF Ticket
  <2>5. s \in Allowed[j] /\ s \in Nat /\ s <= a.left
    BY <2>1, <2>2, <2>3
  <2>6. /\ b.of \in [1 .. n -> Nat] /\ b.left \in Nat
        /\ \A i \in 1 .. n : b.of[i] \in Allowed[i]
    BY <2>2, <2>3, <2>4, <2>5
  <2>8. b \in Purse(n)
    <3>1. b.of \in [1 .. n -> Int] /\ b.left \in Int
      BY <1>0, <2>6
    <3> QED BY <2>4, <3>1 DEF Purse
  <2>9. \A i \in 1 .. n : a.of[i] \in Int /\ b.of[i] \in Int
    BY <1>0, <2>2, <2>6
  <2>10. Sums(j) = Sums(k) + s /\ Sums(k) \in Int
    <3> DEFINE rest == (1 .. n) \ {j}
    <3>1. IsFiniteSet(rest) /\ \A i \in rest : a.of[i] = b.of[i]
      BY <1>1, <2>2, <2>4, FS_Subset
    <3>2. \A i \in rest : a.of[i] \in Int
      BY <2>9
    <3>3. a.of[j] = 0 /\ b.of[j] = s
      BY <2>2, <2>3, <2>4
    <3> HIDE DEF rest
    <3>4. SumFunctionOnSet(a.of, rest) = SumFunctionOnSet(b.of, rest)
      BY <3>1, SumSame
    <3>5. SumFunctionOnSet(a.of, rest) \in Int
      BY <3>1, <3>2, SumType
    <3>6. /\ SumFunctionOnSet(a.of, 1 .. n) = a.of[j] + SumFunctionOnSet(a.of, rest)
          /\ SumFunctionOnSet(b.of, 1 .. n) = b.of[j] + SumFunctionOnSet(b.of, rest)
      BY <1>1, <2>3, <2>9, SumSplit DEF rest
    <3>7. /\ SumFunctionOnSet(b.of, 1 .. n) = SumFunctionOnSet(a.of, 1 .. n) + s
          /\ SumFunctionOnSet(a.of, 1 .. n) \in Int
      BY <3>3, <3>4, <3>5, <3>6
    <3> QED BY <3>7 DEF a, b, j
  <2> HIDE DEF Sums
  <2>11. Sums(j) + b.left = balance
    BY <2>2, <2>4, <2>5, <2>10
  <2>12. \A i \in 1 .. n : i > j => b.of[i] = 0
    BY <2>2, <2>3, <2>4
  <2> QED BY <2>3, <2>6, <2>8, <2>11, <2>12 DEF b, j
<1> HIDE DEF Good
<1>4. n \in Good
  BY <1>2, <1>3, CountUp
<1>5. acc[n].of \in [1 .. n -> Nat] /\ (\A i \in 1 .. n : acc[n].of[i] \in Allowed[i]) /\ acc[n].left \in Nat /\ Sums(n) + acc[n].left = balance
  BY <1>4 DEF Good
<1>6. \A i \in 1 .. n : acc[n].of[i] \in Int
  BY <1>0, <1>5
<1>7. Sums(n) \in Int
  BY <1>1, <1>6, SumType
<1> HIDE DEF Sums
<1>8. Sums(n) <= balance
  BY <1>5, <1>7
<1> QED BY <1>5, <1>8 DEF Sums

\* A run over the rows, each ticket from what the table says of its row.
LEMMA RunIsWithin ==
  ASSUME NEW n \in Nat, NEW balance \in Nat, NEW run,
         NEW Allowed, \A i \in 1 .. n : Allowed[i] \subseteq Nat /\ 0 \in Allowed[i],
         NEW stake \in [1 .. n -> [Int -> Int]],
         \A i \in 1 .. n, left \in Int :
            stake[i][left] # 0 => stake[i][left] \in Allowed[i] /\ stake[i][left] <= left,
         run[{}] = NoTickets(n, balance),
         \A s \in SUBSET (1 .. n) : s # {} /\ run[s \ {Max(s)}] \in Purse(n) =>
            run[s] = Ticket(run[s \ {Max(s)}], Max(s), stake[Max(s)][run[s \ {Max(s)}].left])
  PROVE  /\ run[1 .. n].of \in [1 .. n -> Nat] /\ \A i \in 1 .. n : run[1 .. n].of[i] \in Allowed[i]
         /\ SumFunctionOnSet(run[1 .. n].of, 1 .. n) <= balance
<1> DEFINE acc == [k \in 0 .. n |-> run[1 .. k]]
<1>1. acc[0] = NoTickets(n, balance)
  <2>1. 1 .. 0 = {} /\ acc[0] = run[1 .. 0]
    OBVIOUS
  <2> QED BY <2>1
<1>2. ASSUME NEW k \in 0 .. n - 1, acc[k] \in Purse(n)
      PROVE  \E s \in Int : /\ acc[k + 1] = Ticket(acc[k], k + 1, s)
                            /\ s # 0 => s \in Allowed[k + 1] /\ s <= acc[k].left
  <2> DEFINE upto == 1 .. (k + 1)
             left == acc[k].left
             s == stake[k + 1][left]
  <2>1. upto \in SUBSET (1 .. n) /\ upto # {} /\ k + 1 \in 1 .. n
    <3>1. k + 1 \in 1 .. n /\ k + 1 \in upto
      OBVIOUS
    <3>2. \A i \in upto : i \in 1 .. n
      OBVIOUS
    <3> HIDE DEF upto
    <3> QED BY <3>1, <3>2
  <2>2. Max(upto) = k + 1 /\ upto \ {Max(upto)} = 1 .. k
    <3>1. (k + 1) - 1 = k
      OBVIOUS
    <3> QED BY <2>1, <3>1, LastPlace
  <2>3. acc[k] = run[1 .. k] /\ acc[k + 1] = run[upto]
    <3>1. k \in 0 .. n /\ k + 1 \in 0 .. n
      OBVIOUS
    <3> QED BY <3>1, Zenon
  <2>4. left \in Int
    BY <1>2 DEF Purse
  <2> HIDE DEF upto, acc
  <2>5. run[upto] = Ticket(run[1 .. k], k + 1, s)
    <3>1. run[upto \ {Max(upto)}] \in Purse(n)
      BY <1>2, <2>2, <2>3
    <3>2. run[upto] = Ticket(run[upto \ {Max(upto)}], Max(upto),
                             stake[Max(upto)][run[upto \ {Max(upto)}].left])
      BY <2>1, <3>1
    <3> QED BY <2>2, <2>3, <3>2
  <2>6. s \in Int /\ (s # 0 => s \in Allowed[k + 1] /\ s <= left)
    BY <2>1, <2>4
  <2> HIDE DEF s, left
  <2> QED BY <2>3, <2>5, <2>6 DEF left
<1>3. acc[n] = run[1 .. n]
  OBVIOUS
<1> HIDE DEF acc
<1> QED BY <1>1, <1>2, <1>3, RunSpends

-----------------------------------------------------------------------------
(* The two sizings are such runs.                                          *)

\* What one row spends in the legacy sizing.
LegacySpend(ds, rows, i, left) ==
    LET implied == implied_stake_usd(ds[i], left)
        stake == Rounded(implied[1], implied[2])
    IN  IF i \notin rows \/ left <= 0 \/ stake <= 0 \/ stake > left THEN 0 ELSE stake

\* One step of the fold behind the legacy sizing.
LegacyStep(f, ds, rows, g, s) ==
    IF s = {} THEN [left |-> f.balance, of |-> [i \in DOMAIN f.rows |-> 0]]
    ELSE LET x == InOrder(f.rows)[Max(s)]
             acc == g[s \ {Max(s)}]
             spent == LegacySpend(ds, rows, x, acc.left)
         IN  [left |-> acc.left - spent, of |-> [acc.of EXCEPT ![x] = spent]]

\* The stakes of the legacy sizing, as the recursion the fold stands for.
LEMMA LegacyRun ==
  ASSUME NEW ds, NEW rows, NEW balance
  PROVE  _allocate_legacy(ds, rows, balance) =
            (CHOOSE g : g = [s \in SUBSET DOMAIN InOrder([rows |-> ds, balance |-> balance].rows) |->
                               LegacyStep([rows |-> ds, balance |-> balance], ds, rows, g, s)])
                [DOMAIN InOrder([rows |-> ds, balance |-> balance].rows)].of
BY Zenon DEF _allocate_legacy, Tickets, FoldLeft, MapThenFoldSet, LegacyStep, LegacySpend

\* What is known of the stake a decision implies.
Ratio == Int \X (Nat \ {0})
Sized(d) == /\ d.stake = None \/ d.stake \in Ratio
            /\ d.fraction = None \/ d.fraction \in Ratio
            /\ d.edge \in Int

\* A sized decision implies a stake, a ratio of two integers.
LEMMA ImpliedIsRatio ==
  ASSUME NEW d, Sized(d), NEW balance \in Int
  PROVE  implied_stake_usd(d, balance) \in Ratio
<1>1. stake_fraction(d.edge) \in Ratio
  BY DEF Sized, stake_fraction, Ratio
<1>2. \A r \in Ratio : /\ <<100 * r[1], r[2]>> \in Ratio
                       /\ <<balance * r[1], r[2]>> \in Ratio
  BY DEF Ratio
<1> QED BY <1>1, <1>2 DEF Sized, implied_stake_usd

\* Rounding a ratio gives an integer, off by a half at most.
LEMMA RoundedIs ==
  ASSUME NEW n \in Int, NEW d \in Nat \ {0}
  PROVE  /\ Rounded(n, d) \in Int
         /\ 2 * d * Rounded(n, d) <= 2 * n + d
         /\ 2 * n - d < 2 * d * Rounded(n, d)
<1> DEFINE a == 2 * n + d
           b == 2 * d
           q == a \div b
           r == a % b
<1>1. a \in Int /\ b \in Nat \ {0}
  OBVIOUS
<1> HIDE DEF a, b
<1>2. q \in Int /\ r \in 0 .. b - 1 /\ a = b * q + r
  BY <1>1
<1> HIDE DEF q, r
<1>3. b * q <= a /\ a - b < b * q
  <2>1. b * q \in Int
    BY <1>1, <1>2
  <2> QED BY <1>1, <1>2, <2>1
<1>4. Rounded(n, d) = q
  BY DEF Rounded, a, b, q
<1> QED BY <1>2, <1>3, <1>4 DEF a, b

\* The legacy sizing gives every row a stake, and no more than the balance.
LEMMA LegacyStakes ==
  ASSUME NEW n \in Nat, NEW ds, DOMAIN ds = 1 .. n, NEW rows, \A i \in rows : Sized(ds[i]),
         NEW balance \in Nat
  PROVE  /\ _allocate_legacy(ds, rows, balance) \in [1 .. n -> Nat]
         /\ SumFunctionOnSet(_allocate_legacy(ds, rows, balance), 1 .. n) <= balance
<1> DEFINE f == [rows |-> ds, balance |-> balance]
           stake == [i \in 1 .. n |-> [left \in Int |-> LegacySpend(ds, rows, i, left)]]
           Right(g) == g = [s \in SUBSET DOMAIN InOrder(f.rows) |-> LegacyStep(f, ds, rows, g, s)]
           run == CHOOSE g : Right(g)
<1>1. f.rows = ds /\ f.balance = balance /\ DOMAIN InOrder(ds) = 1 .. n
      /\ \A i \in 1 .. n : InOrder(ds)[i] = i
  BY DEF InOrder
<1>2. _allocate_legacy(ds, rows, balance) = run[DOMAIN InOrder(f.rows)].of
  BY LegacyRun, Zenon
<1>3. ASSUME NEW i \in 1 .. n, NEW left \in Int
      PROVE  /\ LegacySpend(ds, rows, i, left) \in Int
             /\ LegacySpend(ds, rows, i, left) # 0 =>
                   LegacySpend(ds, rows, i, left) \in Nat /\ LegacySpend(ds, rows, i, left) <= left
  <2> DEFINE implied == implied_stake_usd(ds[i], left)
             cents == Rounded(implied[1], implied[2])
  <2>1. CASE i \notin rows
    BY <2>1 DEF LegacySpend
  <2>2. CASE i \in rows
    <3>1. implied \in Ratio
      BY <2>2, ImpliedIsRatio
    <3> HIDE DEF implied
    <3>2. cents \in Int
      BY <3>1, RoundedIs DEF Ratio
    <3>3. LegacySpend(ds, rows, i, left) = IF left <= 0 \/ cents <= 0 \/ cents > left THEN 0 ELSE cents
      BY <2>2 DEF LegacySpend, implied
    <3> HIDE DEF cents
    <3> QED BY <3>2, <3>3
  <2> QED BY <2>1, <2>2
<1>4. stake \in [1 .. n -> [Int -> Int]]
  BY <1>3
<1>5. ASSUME NEW g, NEW s \in SUBSET (1 .. n), s # {}, g[s \ {Max(s)}] \in Purse(n)
      PROVE  LegacyStep(f, ds, rows, g, s)
                = Ticket(g[s \ {Max(s)}], Max(s), stake[Max(s)][g[s \ {Max(s)}].left])
  <2>1. Max(s) \in 1 .. n
    BY <1>5, LastPlace
  <2>2. g[s \ {Max(s)}].left \in Int
    BY <1>5 DEF Purse
  <2>3. stake[Max(s)][g[s \ {Max(s)}].left] = LegacySpend(ds, rows, Max(s), g[s \ {Max(s)}].left)
    BY <2>1, <2>2
  <2> HIDE DEF f, stake
  <2>4. InOrder(f.rows)[Max(s)] = Max(s)
    BY <1>1, <2>1
  <2> QED BY <1>5, <2>3, <2>4, Zenon DEF LegacyStep, Ticket
<1>6. ASSUME NEW g  PROVE LegacyStep(f, ds, rows, g, {}) = NoTickets(n, balance)
  BY <1>1 DEF LegacyStep, NoTickets
<1> HIDE DEF stake
<1>7. Right(run)
  <2>10. balance \in Int
    OBVIOUS
  <2>0. PICK g : IsRun(g, n, balance, stake)
    BY <1>4, <2>10, RunExists, Zenon
  <2>1. /\ g = [s \in SUBSET (1 .. n) |->
                  IF s = {} THEN NoTickets(n, balance)
                  ELSE Ticket(g[s \ {Max(s)}], Max(s), stake[Max(s)][g[s \ {Max(s)}].left])]
        /\ \A s \in SUBSET (1 .. n) : g[s] \in Purse(n)
    BY <2>0 DEF IsRun
  <2>2. \A s \in SUBSET (1 .. n) : g[s] = LegacyStep(f, ds, rows, g, s)
    <3> TAKE s \in SUBSET (1 .. n)
    <3>1. CASE s = {}
      BY <2>1, <3>1, <1>6
    <3>2. CASE s # {}
      <4>1. g[s \ {Max(s)}] \in Purse(n)
        BY <2>1
      <4>2. g[s] = Ticket(g[s \ {Max(s)}], Max(s), stake[Max(s)][g[s \ {Max(s)}].left])
        BY <2>1, <3>2
      <4> QED BY <1>5, <3>2, <4>1, <4>2
    <3> QED BY <3>1, <3>2
  <2> HIDE DEF f
  <2>3. Right(g)
    <3>1. g = [s \in SUBSET (1 .. n) |-> g[s]]
      BY <2>1
    <3> QED BY <1>1, <2>2, <3>1
  <2> HIDE DEF Right
  <2> QED BY <2>3
<1> HIDE DEF run
<1>8. \A s \in SUBSET (1 .. n) : run[s] = LegacyStep(f, ds, rows, run, s)
  <2> HIDE DEF f
  <2> QED BY <1>1, <1>7
<1>9. run[{}] = NoTickets(n, balance)
  <2>1. {} \in SUBSET (1 .. n)
    OBVIOUS
  <2> QED BY <1>6, <1>8, <2>1
<1>10. ASSUME NEW s \in SUBSET (1 .. n), s # {}, run[s \ {Max(s)}] \in Purse(n)
       PROVE  run[s] = Ticket(run[s \ {Max(s)}], Max(s), stake[Max(s)][run[s \ {Max(s)}].left])
  <2> HIDE DEF f
  <2> QED BY <1>5, <1>8, <1>10
<1>11. \A i \in 1 .. n, left \in Int : stake[i][left] # 0 => stake[i][left] \in Nat /\ stake[i][left] <= left
  BY <1>3 DEF stake
<1>12. /\ run[1 .. n].of \in [1 .. n -> Nat]
       /\ SumFunctionOnSet(run[1 .. n].of, 1 .. n) <= balance
  <2> DEFINE Allowed == [i \in 1 .. n |-> Nat]
  <2>1. \A i \in 1 .. n : Allowed[i] = Nat
    OBVIOUS
  <2> HIDE DEF Allowed
  <2>2. /\ \A i \in 1 .. n : Allowed[i] \subseteq Nat /\ 0 \in Allowed[i]
        /\ \A i \in 1 .. n, left \in Int :
              stake[i][left] # 0 => stake[i][left] \in Allowed[i] /\ stake[i][left] <= left
    BY <1>11, <2>1
  <2> QED BY <1>4, <1>9, <1>10, <2>2, RunIsWithin
<1>13. run[1 .. n].of = _allocate_legacy(ds, rows, balance)
  <2> HIDE DEF f
  <2> QED BY <1>1, <1>2
<1> QED BY <1>12, <1>13

-----------------------------------------------------------------------------
(* The stakes of a budget.                                                 *)

\* The common denominator of the implied stakes, the weight of a row, the rows
\* that have one, and what their weights add up to.
CommonOf(ds, rows, balance) ==
    LET implied == [i \in rows |-> implied_stake_usd(ds[i], balance)]
    IN  FoldSet(CommonMultiple, 1, {implied[i][2] : i \in rows})
WeightOf(ds, rows, balance, i) ==
    LET implied == [j \in rows |-> implied_stake_usd(ds[j], balance)]
    IN  implied[i][1] * (CommonOf(ds, rows, balance) \div implied[i][2])
Weighty(ds, rows, balance) == {i \in rows : WeightOf(ds, rows, balance, i) > 0}
TotalWeight(ds, rows, balance) ==
    MapThenSumSet(LAMBDA i : WeightOf(ds, rows, balance, i), Weighty(ds, rows, balance))

\* What one row spends in the sizing by budget.
BudgetSpend(ds, rows, balance, budget, i, left) ==
    IF i \notin Weighty(ds, rows, balance) THEN 0
    ELSE LET s == _apply_budget_ticket_floors(Rounded(budget * balance, One) * WeightOf(ds, rows, balance, i),
                                              TotalWeight(ds, rows, balance))
         IN  IF s > left THEN 0 ELSE s

\* One step of the fold behind the sizing by budget.
BudgetStep(f, ds, rows, balance, budget, g, s) ==
    IF s = {} THEN [left |-> f.balance, of |-> [i \in DOMAIN f.rows |-> 0]]
    ELSE LET x == InOrder(f.rows)[Max(s)]
             acc == g[s \ {Max(s)}]
             spent == BudgetSpend(ds, rows, balance, budget, x, acc.left)
         IN  [left |-> acc.left - spent, of |-> [acc.of EXCEPT ![x] = spent]]

\* The stakes of the sizing by budget, as the recursion the fold stands for.
LEMMA BudgetRun ==
  ASSUME NEW ds, NEW rows, NEW balance, NEW budget
  PROVE  _allocate_budget(ds, rows, balance, budget) =
            IF balance <= 0 THEN [i \in DOMAIN ds |-> 0]
            ELSE (CHOOSE g : g = [s \in SUBSET DOMAIN InOrder([rows |-> ds, balance |-> balance].rows) |->
                               BudgetStep([rows |-> ds, balance |-> balance], ds, rows, balance, budget, g, s)])
                [DOMAIN InOrder([rows |-> ds, balance |-> balance].rows)].of
BY Zenon DEF _allocate_budget, Tickets, FoldLeft, MapThenFoldSet, MapThenSumSet, FoldSet,
             BudgetStep, BudgetSpend, CommonOf, WeightOf, Weighty, TotalWeight

Positive == Nat \ {0}

\* Two positive integers have a common multiple.
LEMMA CommonMultipleIs ==
  ASSUME NEW a \in Positive, NEW b \in Positive
  PROVE  CommonMultiple(a, b) \in Positive
<1> DEFINE times == [k \in 1 .. b |-> a * k]
           All == {times[k] : k \in 1 .. b}
           M == {m \in {a * k : k \in 1 .. b} : m % b = 0}
<1>1. IsFiniteSet(All)
  <2>1. IsFiniteSet(1 .. b)
    BY FS_Interval DEF Positive
  <2> HIDE DEF times
  <2> QED BY <2>1, ImageIsFinite
<1>2. \A k \in 1 .. b : a * k \in Positive /\ times[k] = a * k
  BY DEF Positive
<1>3. M \subseteq All /\ M \subseteq Positive
  <2> HIDE DEF times
  <2> QED BY <1>2
<1>4. M # {}
  <2>1. (a * b) % b = 0
    <3>1. a * b = b * a + 0 /\ a * b \in Int /\ b \in Int /\ 0 \in 0 .. b - 1
      BY DEF Positive
    <3> QED BY <3>1 DEF Positive
  <2>2. b \in 1 .. b
    BY DEF Positive
  <2> QED BY <2>1, <2>2
<1>5. IsFiniteSet(M)
  BY <1>1, <1>3, FS_Subset
<1>6. \A m \in M : m \in Int
  BY <1>3 DEF Positive
<1> HIDE DEF M
<1>7. Min(M) \in M
  BY <1>4, <1>5, <1>6, MinIs
<1>8. CommonMultiple(a, b) = Min(M)
  BY DEF CommonMultiple, M
<1> QED BY <1>3, <1>7, <1>8

\* What a fold over the denominators says of a set, given what it says of fewer.
CommonBody(g, s) == IF s = {} THEN 1 ELSE CommonMultiple(First(s), g[s \ {First(s)}])

\* The fold, as the recursion it stands for.
LEMMA FoldIsCommon ==
  ASSUME NEW S
  PROVE  FoldSet(CommonMultiple, 1, S) = (CHOOSE g : g = [s \in SUBSET S |-> CommonBody(g, s)])[S]
BY Zenon DEF FoldSet, MapThenFoldSet, CommonBody, First

\* A few positive integers have a common multiple.
LEMMA CommonIs ==
  ASSUME NEW S, IsFiniteSet(S), S \subseteq Positive
  PROVE  FoldSet(CommonMultiple, 1, S) \in Positive
<1> DEFINE A == Positive
           pick == [s \in SUBSET S |-> First(s)]
           step == [x \in Positive |-> [a \in Positive |-> CommonMultiple(x, a)]]
           Right(g) == g = [s \in SUBSET S |-> CommonBody(g, s)]
           run == CHOOSE g : Right(g)
<1>1. FoldSet(CommonMultiple, 1, S) = run[S]
  BY FoldIsCommon, Zenon
<1>2. \A s \in SUBSET S : s # {} => pick[s] \in s /\ pick[s] = First(s) /\ First(s) \in s
  BY FirstIn
<1>3. 1 \in A /\ \A x \in S, a \in A : step[x][a] \in A /\ step[x][a] = CommonMultiple(x, a)
  BY CommonMultipleIs DEF Positive
<1> HIDE DEF pick, step, A
<1>4. PICK g : IsFold(g, S, A, 1, pick, step)
  BY <1>2, <1>3, FoldExists
<1>5. /\ g = [s \in SUBSET S |-> FoldBody(1, pick, step, g, s)]
      /\ \A s \in SUBSET S : g[s] \in A
  BY <1>4 DEF IsFold
<1>6. \A s \in SUBSET S : FoldBody(1, pick, step, g, s) = CommonBody(g, s)
  <2> TAKE s \in SUBSET S
  <2>1. CASE s = {}
    BY <2>1 DEF FoldBody, CommonBody
  <2>2. CASE s # {}
    <3>1. g[s \ {First(s)}] \in A /\ First(s) \in S
      BY <1>2, <1>5, <2>2
    <3> QED BY <1>2, <1>3, <2>2, <3>1 DEF FoldBody, CommonBody
  <2> QED BY <2>1, <2>2
<1>7. g = [s \in SUBSET S |-> CommonBody(g, s)]
  BY <1>5, <1>6
<1>8. Right(run)
  <2> HIDE DEF Right
  <2>1. Right(g)
    BY <1>7 DEF Right
  <2> QED BY <2>1
<1> HIDE DEF run
<1>9. \A s \in SUBSET S : run[s] = CommonBody(run, s)
  BY <1>8
<1>10. run[{}] \in Positive
  <2>1. {} \in SUBSET S
    OBVIOUS
  <2>2. run[{}] = 1
    BY <1>9, <2>1 DEF CommonBody
  <2> QED BY <2>2 DEF Positive
<1>11. ASSUME NEW s \in SUBSET S, s # {}
       PROVE  pick[s] \in s /\ (run[s \ {pick[s]}] \in Positive => run[s] \in Positive)
  <2>1. pick[s] = First(s) /\ First(s) \in s /\ First(s) \in Positive
    BY <1>2, <1>11
  <2>2. run[s] = CommonMultiple(First(s), run[s \ {First(s)}])
    BY <1>9, <1>11 DEF CommonBody
  <2> QED BY <2>1, <2>2, CommonMultipleIs
<1>12. run[S] \in Positive
  BY <1>10, <1>11, FoldStays
<1> QED BY <1>1, <1>12

\* The weights are integers.
LEMMA WeightIs ==
  ASSUME NEW ds, NEW rows, IsFiniteSet(rows), \A i \in rows : Sized(ds[i]), NEW balance \in Int
  PROVE  \A i \in rows : WeightOf(ds, rows, balance, i) \in Int
<1> DEFINE implied == [i \in rows |-> implied_stake_usd(ds[i], balance)]
           of == [i \in rows |-> implied[i][2]]
           common == CommonOf(ds, rows, balance)
<1>1. \A i \in rows : implied[i] \in Ratio
  BY ImpliedIsRatio
<1>2. \A i \in rows : implied[i][1] \in Int /\ implied[i][2] \in Positive
  <2> HIDE DEF implied
  <2> QED BY <1>1 DEF Ratio, Positive
<1>3. common \in Positive
  <2>1. {of[i] : i \in rows} = {implied[i][2] : i \in rows}
    <3> HIDE DEF implied
    <3> QED OBVIOUS
  <2>2. IsFiniteSet({of[i] : i \in rows})
    <3> HIDE DEF of
    <3> QED BY ImageIsFinite
  <2>3. {implied[i][2] : i \in rows} \subseteq Positive
    <3> HIDE DEF implied
    <3> QED BY <1>2
  <2>4. common = FoldSet(CommonMultiple, 1, {implied[i][2] : i \in rows})
    BY Zenon DEF CommonOf
  <2> HIDE DEF of, implied, common
  <2> QED BY <2>1, <2>2, <2>3, <2>4, CommonIs
<1>4. \A i \in rows : WeightOf(ds, rows, balance, i) = implied[i][1] * (common \div implied[i][2])
  BY Zenon DEF WeightOf
<1> HIDE DEF implied, common
<1>5. \A i \in rows : common \div implied[i][2] \in Int
  BY <1>2, <1>3 DEF Positive
<1> QED BY <1>2, <1>4, <1>5

\* What a fold over the weights says of a set, given what it says of fewer.
WeightBody(ds, rows, balance, g, s) ==
    IF s = {} THEN 0 ELSE WeightOf(ds, rows, balance, First(s)) + g[s \ {First(s)}]

\* The fold, as the recursion it stands for.
LEMMA FoldIsTotal ==
  ASSUME NEW ds, NEW rows, NEW balance
  PROVE  TotalWeight(ds, rows, balance) =
            (CHOOSE g : g = [s \in SUBSET Weighty(ds, rows, balance) |->
                                WeightBody(ds, rows, balance, g, s)])[Weighty(ds, rows, balance)]
BY Zenon DEF TotalWeight, MapThenSumSet, MapThenFoldSet, WeightBody, First

\* The total is the sum of the weights.
LEMMA TotalIs ==
  ASSUME NEW ds, NEW rows, IsFiniteSet(rows), NEW balance,
         NEW w, \A i \in Weighty(ds, rows, balance) : w[i] = WeightOf(ds, rows, balance, i)
  PROVE  TotalWeight(ds, rows, balance) = SumFunctionOnSet(w, Weighty(ds, rows, balance))
<1> DEFINE S == Weighty(ds, rows, balance)
           Right(g) == g = [s \in SUBSET S |-> WeightBody(ds, rows, balance, g, s)]
           Sums(g) == IsSum(g, w, S)
<1>1. TotalWeight(ds, rows, balance) = (CHOOSE g : Right(g))[S]
  BY FoldIsTotal, Zenon
<1> HIDE DEF S
<1>2. ASSUME NEW g  PROVE Right(g) <=> Sums(g)
  <2>1. \A s \in SUBSET S : WeightBody(ds, rows, balance, g, s) = SumBody(w, g, s)
    <3> TAKE s \in SUBSET S
    <3>1. CASE s = {}
      BY <3>1 DEF WeightBody, SumBody
    <3>2. CASE s # {}
      <4>1. First(s) \in S
        BY <3>2, FirstIn
      <4> QED BY <3>2, <4>1 DEF WeightBody, SumBody, S
    <3> QED BY <3>1, <3>2
  <2> QED BY <2>1 DEF IsSum
<1>3. SumFunctionOnSet(w, S) = (CHOOSE g : Sums(g))[S]
  BY SumIs
<1> HIDE DEF Right, Sums
<1>4. (CHOOSE g : Right(g)) = (CHOOSE g : Sums(g))
  BY <1>2, Zenon
<1> QED BY <1>1, <1>3, <1>4 DEF S

\* What rounding a stake, and raising it to a dollar, may add to it: half cents.
Rounds(s) == IF s = 100 THEN 101 ELSE 1

\* A stake is nothing, or a dollar or more, and near what was asked for.
LEMMA FloorsAre ==
  ASSUME NEW n \in Nat, NEW d \in Positive, NEW s, s = _apply_budget_ticket_floors(n, d)
  PROVE  /\ s \in Nat /\ (s = 0 \/ s >= 100)
         /\ d * (2 * s) <= 2 * n + d * Rounds(s)
<1>0. d \in Nat \ {0}
  BY DEF Positive
<1>1. CASE n < 50 * d
  <2>1. s = 0
    BY <1>1 DEF _apply_budget_ticket_floors
  <2> QED BY <1>0, <2>1 DEF Rounds
<1>2. CASE ~(n < 50 * d) /\ n < 100 * d
  <2>1. s = 100
    BY <1>2 DEF _apply_budget_ticket_floors
  <2> QED BY <1>0, <1>2, <2>1 DEF Rounds
<1>3. CASE ~(n < 50 * d) /\ ~(n < 100 * d)
  <2>1. s = Rounded(n, d)
    BY <1>3, <1>0 DEF _apply_budget_ticket_floors
  <2>2. s \in Int /\ 2 * d * s <= 2 * n + d /\ 2 * n - d < 2 * d * s
    BY <1>0, <2>1, RoundedIs
  <2>3. s >= 100
    <3>1. SUFFICES ASSUME s <= 99  PROVE FALSE
      BY <2>2
    <3>2. d * s <= d * 99
      BY <1>0, <2>2, <3>1
    <3>3. 2 * d * s = 2 * (d * s) /\ d * s \in Int
      BY <1>0, <2>2
    <3> QED BY <1>0, <1>3, <2>2, <3>2, <3>3
  <2>4. d * (2 * s) <= 2 * n + d
    <3>1. d * (2 * s) = 2 * d * s
      BY <1>0, <2>2
    <3> QED BY <2>2, <3>1
  <2>5. d <= d * Rounds(s) /\ d * Rounds(s) \in Int
    BY <1>0 DEF Rounds
  <2>6. d * (2 * s) \in Int
    BY <1>0, <2>2
  <2> QED BY <1>0, <2>2, <2>3, <2>4, <2>5, <2>6
<1> QED BY <1>1, <1>2, <1>3

\* The weight of a row in the sum of all of them.
WeightsAt(n, ds, rows, balance) ==
    [i \in 1 .. n |-> IF i \in Weighty(ds, rows, balance) THEN WeightOf(ds, rows, balance, i) ELSE 0]

\* Stakes of row i that are what a share of the pool rounds to, or nothing.
ShareOf(i, total, pool, w) ==
    {s \in Nat : /\ total > 0 /\ s >= 100
                 /\ total * (2 * s) <= 2 * (pool * w[i]) + total * Rounds(s)}

\* The weights add up to the total, and there is one if there is a weight.
LEMMA WeightsAdd ==
  ASSUME NEW n \in Nat, NEW ds, NEW rows \in SUBSET (1 .. n), \A i \in rows : Sized(ds[i]),
         NEW balance \in Int
  PROVE  LET w == WeightsAt(n, ds, rows, balance)
             total == TotalWeight(ds, rows, balance)
         IN  /\ w \in [1 .. n -> Nat] /\ total \in Nat
             /\ total = SumFunctionOnSet(w, 1 .. n)
             /\ \A i \in Weighty(ds, rows, balance) : total > 0
<1> DEFINE w == WeightsAt(n, ds, rows, balance)
           total == TotalWeight(ds, rows, balance)
           P == Weighty(ds, rows, balance)
           rest == (1 .. n) \ P
<1>1. IsFiniteSet(1 .. n) /\ IsFiniteSet(rows)
  BY LastPlace, FS_Subset
<1>2. P \in SUBSET (1 .. n) /\ P \in SUBSET rows
  BY DEF Weighty
<1>3. \A i \in P : WeightOf(ds, rows, balance, i) \in Int /\ WeightOf(ds, rows, balance, i) > 0
  BY <1>1, WeightIs DEF Weighty
<1>4. /\ \A i \in P : w[i] = WeightOf(ds, rows, balance, i)
      /\ \A i \in rest : w[i] = 0
      /\ w = [i \in 1 .. n |-> w[i]]
  BY <1>2 DEF WeightsAt
<1>5. w \in [1 .. n -> Nat]
  <2> HIDE DEF w, P
  <2>1. ASSUME NEW i \in 1 .. n  PROVE w[i] \in Nat
    <3>1. CASE i \in P
      <4>1. WeightOf(ds, rows, balance, i) \in Int /\ WeightOf(ds, rows, balance, i) > 0
        BY <1>3, <3>1
      <4>2. w[i] = WeightOf(ds, rows, balance, i)
        BY <1>4, <3>1
      <4> QED BY <4>1, <4>2
    <3>2. CASE i \notin P
      BY <1>4, <3>2
    <3> QED BY <3>1, <3>2
  <2> QED BY <1>4, <2>1
<1>6. IsFiniteSet(P) /\ IsFiniteSet(rest)
  BY <1>1, <1>2, FS_Subset
<1>7. total = SumFunctionOnSet(w, P)
  <2> HIDE DEF w
  <2> QED BY <1>1, <1>4, TotalIs
<1>8. \A i \in 1 .. n : w[i] \in Nat /\ w[i] \in Int
  <2> HIDE DEF w
  <2> QED BY <1>5
<1> HIDE DEF w, P
<1>9. SumFunctionOnSet(w, rest) = 0
  <2> HIDE DEF rest
  <2> QED BY <1>4, <1>6, SumOfZeros
<1>10. total \in Nat
  <2>1. \A i \in P : w[i] \in Nat
    BY <1>2, <1>8
  <2> HIDE DEF total
  <2> QED BY <1>6, <1>7, <2>1, SumNotNegative
<1>11. SumFunctionOnSet(w, 1 .. n) = SumFunctionOnSet(w, P) + SumFunctionOnSet(w, rest)
  <2>1. P \cup rest = 1 .. n /\ P \cap rest = {}
    BY <1>2
  <2>2. \A i \in P \cup rest : w[i] \in Int
    BY <1>8, <2>1
  <2> HIDE DEF rest
  <2> QED BY <1>6, <2>1, <2>2, SumOfDisjoint
<1>12. ASSUME NEW i \in P  PROVE total > 0
  <2>1. IsFiniteSet(P \ {i}) /\ \A x \in P : w[x] \in Int
    BY <1>2, <1>6, <1>8, FS_Subset
  <2>2. SumFunctionOnSet(w, P) = w[i] + SumFunctionOnSet(w, P \ {i})
    BY <1>6, <2>1, SumSplit
  <2>3. SumFunctionOnSet(w, P \ {i}) \in Nat
    <3>1. \A x \in P \ {i} : w[x] \in Nat
      BY <1>2, <1>8
    <3> QED BY <2>1, <3>1, SumNotNegative
  <2>4. w[i] \in Int /\ w[i] > 0
    BY <1>3, <1>4
  <2> HIDE DEF total
  <2> QED BY <1>7, <2>2, <2>3, <2>4
<1>13. total = SumFunctionOnSet(w, 1 .. n)
  <2> HIDE DEF total
  <2> QED BY <1>7, <1>9, <1>10, <1>11
<1> QED BY <1>5, <1>10, <1>12, <1>13 DEF w, P

\* The pool of an event: budget percent of the balance, to the nearest cent.
LEMMA PoolIs ==
  ASSUME NEW budget \in Nat, NEW balance \in Nat
  PROVE  /\ Rounded(budget * balance, One) \in Nat /\ budget * balance \in Nat
         /\ 200 * Rounded(budget * balance, One) <= 2 * (budget * balance) + 100
<1> DEFINE product == budget * balance
           pool == Rounded(product, 100)
<1>1. product \in Nat
  OBVIOUS
<1> HIDE DEF product
<1>2. pool \in Int /\ 2 * 100 * pool <= 2 * product + 100 /\ 2 * product - 100 < 2 * 100 * pool
  <2>1. product \in Int /\ 100 \in Nat \ {0}
    BY <1>1
  <2> QED BY <2>1, RoundedIs
<1> HIDE DEF pool
<1>3. pool >= 0 /\ 200 * pool <= 2 * product + 100
  BY <1>1, <1>2
<1> QED BY <1>1, <1>2, <1>3 DEF product, pool, One

\* What a row spends is its share, and within what is left.
LEMMA BudgetSpendIs ==
  ASSUME NEW n \in Nat, NEW ds, NEW rows \in SUBSET (1 .. n), \A i \in rows : Sized(ds[i]),
         NEW balance \in Nat, NEW budget \in Nat, NEW i \in 1 .. n, NEW left \in Int
  PROVE  LET s == BudgetSpend(ds, rows, balance, budget, i, left)
             total == TotalWeight(ds, rows, balance)
             pool == Rounded(budget * balance, One)
             w == WeightsAt(n, ds, rows, balance)
         IN  /\ pool \in Nat /\ s \in Int
             /\ s # 0 => s \in ShareOf(i, total, pool, w) /\ s <= left
<1> DEFINE s == BudgetSpend(ds, rows, balance, budget, i, left)
           total == TotalWeight(ds, rows, balance)
           pool == Rounded(budget * balance, One)
           w == WeightsAt(n, ds, rows, balance)
           wi == WeightOf(ds, rows, balance, i)
           asked == _apply_budget_ticket_floors(pool * wi, total)
<1>1. pool \in Nat
  BY PoolIs
<1>2. CASE i \notin Weighty(ds, rows, balance)
  <2>1. s = 0
    BY <1>2 DEF BudgetSpend
  <2> QED BY <1>1, <2>1
<1>3. CASE i \in Weighty(ds, rows, balance)
  <2>1. w \in [1 .. n -> Nat] /\ total \in Nat /\ total > 0
    <3>1. balance \in Int
      OBVIOUS
    <3> HIDE DEF w, total
    <3>2. /\ w \in [1 .. n -> Nat] /\ total \in Nat
          /\ \A j \in Weighty(ds, rows, balance) : total > 0
      BY <3>1, WeightsAdd DEF w, total
    <3> QED BY <1>3, <3>2
  <2>2. w[i] = wi
    BY <1>3 DEF WeightsAt
  <2>3. wi \in Nat /\ total \in Positive
    BY <2>1, <2>2 DEF Positive
  <2>4. s = IF asked > left THEN 0 ELSE asked
    BY <1>3 DEF BudgetSpend
  <2> HIDE DEF s, total, pool, w, wi
  <2>5. pool * wi \in Nat
    BY <1>1, <2>3
  <2>6. /\ asked \in Nat /\ (asked = 0 \/ asked >= 100)
        /\ total * (2 * asked) <= 2 * (pool * wi) + total * Rounds(asked)
    BY <2>3, <2>5, FloorsAre
  <2> HIDE DEF asked
  <2>7. asked # 0 => asked \in ShareOf(i, total, pool, w)
    BY <2>1, <2>2, <2>6 DEF ShareOf
  <2>8. s \in Int /\ (s # 0 => s \in ShareOf(i, total, pool, w) /\ s <= left)
    BY <2>4, <2>6, <2>7
  <2> QED BY <1>1, <2>8 DEF s, total, pool, w
<1> QED BY <1>2, <1>3

\* The sizing by budget gives every row nothing or its share, and no more than
\* the balance.
LEMMA BudgetStakes ==
  ASSUME NEW n \in Nat, NEW ds, DOMAIN ds = 1 .. n, NEW rows \in SUBSET (1 .. n),
         \A i \in rows : Sized(ds[i]), NEW balance \in Nat, NEW budget \in Nat,
         NEW of, of = _allocate_budget(ds, rows, balance, budget)
  PROVE  LET total == TotalWeight(ds, rows, balance)
             pool == Rounded(budget * balance, One)
             w == WeightsAt(n, ds, rows, balance)
         IN  /\ of \in [1 .. n -> Nat]
             /\ SumFunctionOnSet(of, 1 .. n) <= balance
             /\ \A i \in 1 .. n : of[i] = 0 \/ of[i] \in ShareOf(i, total, pool, w)
<1> DEFINE f == [rows |-> ds, balance |-> balance]
           total == TotalWeight(ds, rows, balance)
           pool == Rounded(budget * balance, One)
           w == WeightsAt(n, ds, rows, balance)
           spend(i, left) == BudgetSpend(ds, rows, balance, budget, i, left)
           step(g, s) == BudgetStep(f, ds, rows, balance, budget, g, s)
           stake == [i \in 1 .. n |-> [left \in Int |-> spend(i, left)]]
           Right(g) == g = [s \in SUBSET DOMAIN InOrder(f.rows) |-> step(g, s)]
           run == CHOOSE g : Right(g)
<1>1. f.rows = ds /\ f.balance = balance /\ DOMAIN InOrder(ds) = 1 .. n
      /\ \A i \in 1 .. n : InOrder(ds)[i] = i
  BY DEF InOrder
<1>2. of = IF balance <= 0 THEN [i \in DOMAIN ds |-> 0] ELSE run[DOMAIN InOrder(f.rows)].of
  BY BudgetRun, Zenon
<1>3. ASSUME NEW i \in 1 .. n, NEW left \in Int
      PROVE  /\ spend(i, left) \in Int
             /\ spend(i, left) # 0 => spend(i, left) \in ShareOf(i, total, pool, w) /\ spend(i, left) <= left
  BY BudgetSpendIs
<1> HIDE DEF spend
<1>4. stake \in [1 .. n -> [Int -> Int]]
  BY <1>3
<1>5. ASSUME NEW g, NEW s \in SUBSET (1 .. n), s # {}, g[s \ {Max(s)}] \in Purse(n)
      PROVE  step(g, s) = Ticket(g[s \ {Max(s)}], Max(s), stake[Max(s)][g[s \ {Max(s)}].left])
  <2>1. Max(s) \in 1 .. n
    BY <1>5, LastPlace
  <2>2. g[s \ {Max(s)}].left \in Int
    BY <1>5 DEF Purse
  <2>3. stake[Max(s)][g[s \ {Max(s)}].left] = spend(Max(s), g[s \ {Max(s)}].left)
    BY <2>1, <2>2
  <2> HIDE DEF f, stake
  <2>4. InOrder(f.rows)[Max(s)] = Max(s)
    BY <1>1, <2>1
  <2> QED BY <1>5, <2>3, <2>4, Zenon DEF BudgetStep, Ticket, spend
<1>6. ASSUME NEW g  PROVE step(g, {}) = NoTickets(n, balance)
  BY <1>1 DEF BudgetStep, NoTickets
<1> HIDE DEF stake, step
<1>7. Right(run)
  <2>1. balance \in Int
    OBVIOUS
  <2>2. PICK g : IsRun(g, n, balance, stake)
    BY <1>4, <2>1, RunExists, Zenon
  <2>3. /\ g = [s \in SUBSET (1 .. n) |->
                  IF s = {} THEN NoTickets(n, balance)
                  ELSE Ticket(g[s \ {Max(s)}], Max(s), stake[Max(s)][g[s \ {Max(s)}].left])]
        /\ \A s \in SUBSET (1 .. n) : g[s] \in Purse(n)
    BY <2>2 DEF IsRun
  <2>4. \A s \in SUBSET (1 .. n) : g[s] = step(g, s)
    <3> TAKE s \in SUBSET (1 .. n)
    <3>1. CASE s = {}
      BY <2>3, <3>1, <1>6
    <3>2. CASE s # {}
      <4>1. g[s \ {Max(s)}] \in Purse(n)
        BY <2>3
      <4>2. g[s] = Ticket(g[s \ {Max(s)}], Max(s), stake[Max(s)][g[s \ {Max(s)}].left])
        BY <2>3, <3>2
      <4> QED BY <1>5, <3>2, <4>1, <4>2
    <3> QED BY <3>1, <3>2
  <2> HIDE DEF f
  <2>5. Right(g)
    <3>1. g = [s \in SUBSET (1 .. n) |-> g[s]]
      BY <2>3
    <3> QED BY <1>1, <2>4, <3>1
  <2> HIDE DEF Right
  <2> QED BY <2>5
<1> HIDE DEF run
<1>8. \A s \in SUBSET (1 .. n) : run[s] = step(run, s)
  <2> HIDE DEF f
  <2> QED BY <1>1, <1>7
<1>9. run[{}] = NoTickets(n, balance)
  <2>1. {} \in SUBSET (1 .. n)
    OBVIOUS
  <2> QED BY <1>6, <1>8, <2>1
<1>10. ASSUME NEW s \in SUBSET (1 .. n), s # {}, run[s \ {Max(s)}] \in Purse(n)
       PROVE  run[s] = Ticket(run[s \ {Max(s)}], Max(s), stake[Max(s)][run[s \ {Max(s)}].left])
  <2> HIDE DEF f
  <2> QED BY <1>5, <1>8, <1>10
<1> DEFINE Allowed == [i \in 1 .. n |-> {0} \cup ShareOf(i, total, pool, w)]
<1>11. \A i \in 1 .. n : Allowed[i] = {0} \cup ShareOf(i, total, pool, w)
  OBVIOUS
<1> HIDE DEF Allowed, total, pool, w
<1>12. \A i \in 1 .. n : Allowed[i] \subseteq Nat /\ 0 \in Allowed[i]
  <2>1. \A i \in 1 .. n : ShareOf(i, total, pool, w) \subseteq Nat
    BY DEF ShareOf
  <2> QED BY <1>11, <2>1
<1>13. \A i \in 1 .. n, left \in Int : stake[i][left] # 0 => stake[i][left] \in Allowed[i] /\ stake[i][left] <= left
  <2>1. \A i \in 1 .. n, left \in Int : stake[i][left] = spend(i, left)
    BY DEF stake
  <2> QED BY <1>3, <1>11, <2>1
<1>14. /\ run[1 .. n].of \in [1 .. n -> Nat]
       /\ \A i \in 1 .. n : run[1 .. n].of[i] \in Allowed[i]
       /\ SumFunctionOnSet(run[1 .. n].of, 1 .. n) <= balance
  BY <1>4, <1>9, <1>10, <1>12, <1>13, RunIsWithin
<1>15. CASE balance <= 0
  <2>1. of = [i \in 1 .. n |-> 0]
    BY <1>2, <1>15
  <2>2. \A i \in 1 .. n : of[i] = 0
    BY <2>1
  <2>3. SumFunctionOnSet(of, 1 .. n) = 0
    BY <2>2, LastPlace, SumOfZeros
  <2> QED BY <2>1, <2>2, <2>3
<1>16. CASE ~(balance <= 0)
  <2>1. of = run[1 .. n].of
    <3> HIDE DEF f
    <3> QED BY <1>1, <1>2, <1>16
  <2> QED BY <1>11, <1>14, <2>1 DEF total, pool, w
<1> QED BY <1>15, <1>16

\* Two bounds of one shape add up.
LEMMA BoundsAdd ==
  ASSUME NEW T \in Int, NEW P \in Int, NEW a \in Int, NEW b \in Int, NEW c \in Int,
         NEW x \in Int, NEW y \in Int, NEW z \in Int,
         T * a <= P * b + T * c, T * x <= P * y + T * z
  PROVE  T * (a + x) <= P * (b + y) + T * (c + z)
<1>1. T * (a + x) = T * a + T * x /\ P * (b + y) = P * b + P * y /\ T * (c + z) = T * c + T * z
  OBVIOUS
<1>2. /\ T * a \in Int /\ T * x \in Int /\ P * b \in Int /\ P * y \in Int
      /\ T * c \in Int /\ T * z \in Int
  OBVIOUS
<1> QED BY <1>1, <1>2

\* A bound may be divided by what all of it is a multiple of.
LEMMA BoundDivides ==
  ASSUME NEW T \in Nat, T > 0, NEW P \in Int, NEW a \in Int, NEW c \in Int,
         T * a <= P * (2 * T) + T * c
  PROVE  a <= 2 * P + c
<1>1. SUFFICES ASSUME 2 * P + c + 1 <= a  PROVE FALSE
  OBVIOUS
<1> DEFINE d == a - (2 * P + c + 1)
<1>2. d \in Nat /\ a = 2 * P + c + 1 + d
  BY <1>1
<1> HIDE DEF d
<1>3. T * a = P * (2 * T) + T * c + T + T * d
  BY <1>2
<1>4. T * d >= 0 /\ T * d \in Int /\ P * (2 * T) \in Int /\ T * c \in Int
  BY <1>2
<1>5. T * a > P * (2 * T) + T * c
  BY <1>3, <1>4
<1> QED BY <1>4, <1>5

\* Shares of a pool add up to no more than the pool, but for what was raised or
\* rounded.
LEMMA SharesAdd ==
  ASSUME NEW n \in Nat, NEW of \in [1 .. n -> Nat], NEW w \in [1 .. n -> Nat],
         NEW total \in Positive, total = SumFunctionOnSet(w, 1 .. n), NEW pool \in Nat,
         \A i \in 1 .. n : of[i] = 0 \/ of[i] \in ShareOf(i, total, pool, w),
         NEW some, some = {i \in 1 .. n : of[i] = 100}
  PROVE  2 * SumFunctionOnSet(of, 1 .. n) <= 2 * pool + n + 100 * Cardinality(some)
<1> DEFINE raised(S) == {i \in S : of[i] = 100}
           spent(S) == 2 * SumFunctionOnSet(of, S)
           due(S) == 2 * SumFunctionOnSet(w, S)
           rounding(S) == Cardinality(S) + 100 * Cardinality(raised(S))
           Within(S) == total * spent(S) <= pool * due(S) + total * rounding(S)
           F == {S \in SUBSET (1 .. n) : Within(S)}
<1>0. total \in Nat /\ total > 0
  BY DEF Positive
<1>1. \A S \in SUBSET (1 .. n) :
         /\ IsFiniteSet(S) /\ Cardinality(S) \in Nat
         /\ IsFiniteSet(raised(S)) /\ Cardinality(raised(S)) \in Nat
         /\ SumFunctionOnSet(of, S) \in Int /\ SumFunctionOnSet(w, S) \in Int
  <2> TAKE S \in SUBSET (1 .. n)
  <2>1. IsFiniteSet(S) /\ IsFiniteSet(raised(S))
    BY LastPlace, FS_Subset
  <2>2. Cardinality(S) \in Nat /\ Cardinality(raised(S)) \in Nat
    BY <2>1, FS_CardinalityType
  <2>3. \A i \in S : of[i] \in Int /\ w[i] \in Int
    OBVIOUS
  <2> QED BY <2>1, <2>2, <2>3, SumType
<1>2. {} \in F
  <2>1. SumFunctionOnSet(of, {}) = 0 /\ SumFunctionOnSet(w, {}) = 0
    BY SumEmpty
  <2>2. Cardinality({}) = 0 /\ raised({}) = {}
    BY FS_EmptySet
  <2> QED BY <1>0, <2>1, <2>2
<1>3. ASSUME NEW S \in SUBSET (1 .. n), S # {}, \A x \in S : S \ {x} \in F
      PROVE  S \in F
  <2>1. PICK x \in S : TRUE
    BY <1>3
  <2> DEFINE T == S \ {x}
  <2>2. T \in SUBSET (1 .. n) /\ Within(T) /\ x \in 1 .. n /\ of[x] \in Nat /\ w[x] \in Nat
    BY <1>3, <2>1
  <2>3. spent(S) = 2 * of[x] + spent(T) /\ due(S) = 2 * w[x] + due(T)
    <3>1. \A i \in S : of[i] \in Int /\ w[i] \in Int
      OBVIOUS
    <3>2. /\ SumFunctionOnSet(of, S) = of[x] + SumFunctionOnSet(of, S \ {x})
          /\ SumFunctionOnSet(w, S) = w[x] + SumFunctionOnSet(w, S \ {x})
      BY <1>1, <2>1, <3>1, SumSplit
    <3>3. SumFunctionOnSet(of, T) \in Int /\ SumFunctionOnSet(w, T) \in Int
      BY <1>1, <2>2
    <3> QED BY <2>2, <3>2, <3>3
  <2>4. rounding(S) = Rounds(of[x]) + rounding(T)
    <3>0. /\ Cardinality(S) \in Nat /\ Cardinality(T) \in Nat
          /\ Cardinality(raised(S)) \in Nat /\ Cardinality(raised(T)) \in Nat
          /\ IsFiniteSet(S) /\ IsFiniteSet(raised(S))
      BY <1>1, <2>2
    <3>1. Cardinality(T) = Cardinality(S) - 1
      BY <3>0, <2>1, FS_RemoveElement
    <3>2. CASE of[x] = 100
      <4>1. x \in raised(S) /\ raised(S) \ {x} = raised(T)
        BY <2>1, <3>2
      <4>2. Cardinality(raised(T)) = Cardinality(raised(S)) - 1
        <5> HIDE DEF raised, T
        <5> QED BY <3>0, <4>1, FS_RemoveElement
      <4>3. Rounds(of[x]) = 101
        BY <3>2 DEF Rounds
      <4> HIDE DEF raised, T
      <4> QED BY <3>0, <3>1, <4>2, <4>3
    <3>3. CASE of[x] # 100
      <4>1. raised(S) = raised(T)
        BY <3>3
      <4>2. Rounds(of[x]) = 1
        BY <3>3 DEF Rounds
      <4> HIDE DEF raised, T
      <4> QED BY <3>0, <3>1, <4>1, <4>2
    <3> QED BY <3>2, <3>3
  <2>5. total * (2 * of[x]) <= pool * (2 * w[x]) + total * Rounds(of[x])
    <3>1. CASE of[x] = 0
      <4>1. 2 * w[x] \in Nat /\ Rounds(of[x]) \in Nat
        BY <2>2 DEF Rounds
      <4>2. \A a, b \in Nat : a * b \in Nat
        OBVIOUS
      <4>3. pool * (2 * w[x]) \in Nat /\ total * Rounds(of[x]) \in Nat
        BY <1>0, <4>1, <4>2
      <4>4. total * (2 * of[x]) = 0
        BY <1>0, <3>1
      <4> QED BY <4>3, <4>4
    <3>2. CASE of[x] # 0
      <4>1. total * (2 * of[x]) <= 2 * (pool * w[x]) + total * Rounds(of[x])
        BY <2>2, <3>2 DEF ShareOf
      <4>2. pool * (2 * w[x]) = 2 * (pool * w[x])
        BY <2>2
      <4> QED BY <4>1, <4>2
    <3> QED BY <3>1, <3>2
  <2>6. /\ spent(T) \in Int /\ due(T) \in Int /\ rounding(T) \in Int
        /\ 2 * of[x] \in Int /\ 2 * w[x] \in Int /\ Rounds(of[x]) \in Int
    <3>1. /\ SumFunctionOnSet(of, T) \in Int /\ SumFunctionOnSet(w, T) \in Int
          /\ Cardinality(T) \in Nat /\ Cardinality(raised(T)) \in Nat
      BY <1>1, <2>2
    <3>2. spent(T) \in Int /\ due(T) \in Int /\ rounding(T) \in Int
      <4> HIDE DEF T, raised
      <4> QED BY <3>1
    <3>3. 2 * of[x] \in Int /\ 2 * w[x] \in Int /\ Rounds(of[x]) \in Int
      BY <2>2 DEF Rounds
    <3> HIDE DEF T, spent, due, rounding
    <3> QED BY <3>2, <3>3
  <2>7. total * spent(T) <= pool * due(T) + total * rounding(T)
    BY <2>2
  <2> HIDE DEF spent, due, rounding, T
  <2>8. total * (2 * of[x] + spent(T)) <= pool * (2 * w[x] + due(T)) + total * (Rounds(of[x]) + rounding(T))
    <3>1. total \in Int /\ pool \in Int
      BY <1>0
    <3> QED BY <2>5, <2>6, <2>7, <3>1, BoundsAdd, Zenon
  <2> QED BY <2>3, <2>4, <2>8
<1> HIDE DEF F
<1>4. 1 .. n \in F
  <2> HIDE DEF raised, spent, due, rounding
  <2> QED BY <1>1, <1>2, <1>3, SetInduction
<1> DEFINE sum == SumFunctionOnSet(of, 1 .. n)
           r == Cardinality(raised(1 .. n))
<1>5. total * (2 * sum) <= pool * (2 * total) + total * (n + 100 * r)
  <2>1. Cardinality(1 .. n) = n
    BY FS_Interval
  <2> QED BY <1>4, <2>1 DEF F
<1>6. sum \in Int /\ r \in Nat
  BY <1>1
<1> HIDE DEF sum, r
<1>7. 2 * sum <= 2 * pool + (n + 100 * r)
  <2>1. n + 100 * r \in Int /\ 2 * sum \in Int
    BY <1>6
  <2>2. pool \in Int
    OBVIOUS
  <2> QED BY <1>0, <1>5, <2>1, <2>2, BoundDivides, Zenon
<1>8. some = raised(1 .. n)
  OBVIOUS
<1> HIDE DEF raised
<1>9. 2 * sum <= 2 * pool + n + 100 * r
  BY <1>6, <1>7
<1> QED BY <1>8, <1>9 DEF sum, r

\* A function on the first numbers is a sequence of that length.
LEMMA IsASeq ==
  ASSUME NEW n \in Nat, NEW V, NEW f \in [1 .. n -> V]
  PROVE  f \in Seq(V) /\ Len(f) = n
OBVIOUS

\* What the ledger spends on decisions that are sized: no more than the balance
\* by either sizing, and by budget no more than that of the event but for what
\* was raised to a dollar or rounded.
LEMMA SizedSpendsWithin ==
  ASSUME NEW n \in Nat, NEW ds, DOMAIN ds = 1 .. n, NEW rows \in SUBSET (1 .. n),
         \A i \in rows : Sized(ds[i]), NEW balance \in Nat, NEW budget \in Nat
  PROVE  SpendsOn(ds, rows, balance, budget)
<1> DEFINE legacy == _allocate_legacy(ds, rows, balance)
           pooled == _allocate_budget(ds, rows, balance, budget)
           total == TotalWeight(ds, rows, balance)
           pool == Rounded(budget * balance, One)
           w == WeightsAt(n, ds, rows, balance)
           raised == {i \in 1 .. n : pooled[i] = 100}
           Sum1(f) == SumFunctionOnSet(f, 1 .. n)
<1>1. legacy \in [1 .. n -> Nat] /\ Sum1(legacy) <= balance
  BY LegacyStakes
<1>2. /\ pooled \in [1 .. n -> Nat] /\ Sum1(pooled) <= balance
      /\ \A i \in 1 .. n : pooled[i] = 0 \/ pooled[i] \in ShareOf(i, total, pool, w)
  BY BudgetStakes
<1>3. \A i \in 1 .. n : pooled[i] = 0 \/ pooled[i] >= 100
  BY <1>2 DEF ShareOf
<1>4. /\ w \in [1 .. n -> Nat] /\ total \in Nat /\ total = Sum1(w)
      /\ \A i \in Weighty(ds, rows, balance) : total > 0
  <2>1. balance \in Int
    OBVIOUS
  <2> HIDE DEF w, total
  <2> QED BY <2>1, WeightsAdd DEF w, total
<1>5. /\ pool \in Nat /\ 200 * pool <= 2 * (budget * balance) + 100
      /\ budget * balance \in Nat
  BY PoolIs
<1>6. IsFiniteSet(1 .. n) /\ IsFiniteSet(raised) /\ Cardinality(raised) \in Nat
  <2>1. IsFiniteSet(1 .. n)
    BY LastPlace, Zenon
  <2>2. IsFiniteSet(raised)
    BY <2>1, FS_Subset
  <2> QED BY <2>1, <2>2, FS_CardinalityType
<1>7. Sum1(pooled) \in Int
  <2>1. \A i \in 1 .. n : pooled[i] \in Int
    BY <1>2
  <2> HIDE DEF pooled
  <2> QED BY <1>6, <2>1, SumType
<1> HIDE DEF legacy, pooled, total, pool, w
<1>8. 100 * Sum1(pooled) <= budget * balance + 100 * (50 * Cardinality(raised) + n)
  <2>1. CASE total > 0
    <3>1. 2 * Sum1(pooled) <= 2 * pool + n + 100 * Cardinality(raised)
      <4>1. total \in Positive
        BY <1>4, <2>1 DEF Positive
      <4>2. /\ pooled \in [1 .. n -> Nat] /\ w \in [1 .. n -> Nat] /\ pool \in Nat
            /\ total = SumFunctionOnSet(w, 1 .. n)
            /\ \A i \in 1 .. n : pooled[i] = 0 \/ pooled[i] \in ShareOf(i, total, pool, w)
        BY <1>2, <1>4, <1>5
      <4>3. raised = {i \in 1 .. n : pooled[i] = 100}
        OBVIOUS
      <4> HIDE DEF raised
      <4>4. 2 * SumFunctionOnSet(pooled, 1 .. n) <= 2 * pool + n + 100 * Cardinality(raised)
        BY <4>1, <4>2, <4>3, SharesAdd
      <4> QED BY <4>4
    <3>2. CASE n = 0
      <4>1. 1 .. n = {}
        BY <3>2
      <4>2. Sum1(pooled) = 0
        BY <4>1, SumEmpty
      <4> HIDE DEF raised
      <4> QED BY <1>5, <1>6, <4>2
    <3>3. CASE n # 0
      <4> HIDE DEF raised, Sum1
      <4> DEFINE product == budget * balance
      <4> HIDE DEF product
      <4>1. product \in Nat /\ 200 * pool <= 2 * product + 100
        BY <1>5 DEF product
      <4>2. 100 * Sum1(pooled) <= product + 100 * (50 * Cardinality(raised) + n)
        BY <1>5, <1>6, <1>7, <3>1, <3>3, <4>1
      <4> QED BY <4>2 DEF product
    <3> QED BY <3>2, <3>3
  <2>2. CASE ~(total > 0)
    <3>3. \A i \in 1 .. n : pooled[i] = 0
      BY <1>2, <2>2 DEF ShareOf
    <3>4. Sum1(pooled) = 0
      BY <1>6, <3>3, SumOfZeros
    <3> HIDE DEF raised, Sum1
    <3> QED BY <1>5, <1>6, <3>4
  <2> QED BY <2>1, <2>2
<1>9. DOMAIN legacy = 1 .. n /\ DOMAIN pooled = 1 .. n /\ Len(pooled) = n
  <2>1. pooled \in Seq(Nat) /\ Len(pooled) = n
    BY <1>2, IsASeq
  <2> QED BY <1>1, <1>2, <2>1
<1>10. /\ MapThenSumSet(LAMBDA i : legacy[i], DOMAIN legacy) = SumFunctionOnSet(legacy, DOMAIN legacy)
       /\ MapThenSumSet(LAMBDA i : pooled[i], DOMAIN pooled) = SumFunctionOnSet(pooled, DOMAIN pooled)
  BY Zenon DEF MapThenSumSet, SumFunctionOnSet, FoldFunctionOnSet
<1>11. WithinMeans(legacy, pooled, balance, budget)
  <2> HIDE DEF raised
  <2>1. {i \in DOMAIN pooled : pooled[i] = 100} = raised
    BY <1>9 DEF raised
  <2> QED BY <1>1, <1>2, <1>3, <1>8, <1>9, <1>10, <2>1, Zenon DEF WithinMeans
<1> QED BY <1>11, Zenon DEF SpendsOn, legacy, pooled

-----------------------------------------------------------------------------
(* What the strategies decide.                                             *)

\* A bucket as the model and the market know it.
Sound(b) == /\ b.p \in Int
            /\ b.bid = None \/ b.bid \in Int
            /\ b.ask = None \/ b.ask \in Int

\* A decision: its edge is an integer if it has one, its stake and its fraction
\* are ratios if it has them.
Decided(d) == /\ d.stake = None \/ d.stake \in Ratio
              /\ d.fraction = None \/ d.fraction \in Ratio
              /\ d.edge = None \/ d.edge \in Int

AllDecided(edges, ds) ==
    ds = [i \in DOMAIN edges |-> ds[i]] /\ \A i \in DOMAIN edges : Decided(ds[i])

\* Edges are integers.
LEMMA EdgesAre ==
  ASSUME NEW b, Sound(b)
  PROVE  /\ \A side : EdgeOn(b, side) = None \/ EdgeOn(b, side) \in Int
         /\ calculate_yes_edge(b) = None \/ calculate_yes_edge(b) \in Int
         /\ calculate_no_edge(b) = None \/ calculate_no_edge(b) \in Int
         /\ _best_edge(b) = None \/ _best_edge(b) \in Int
<1>1. /\ calculate_yes_edge(b) = None \/ calculate_yes_edge(b) \in Int
      /\ calculate_no_edge(b) = None \/ calculate_no_edge(b) \in Int
  BY DEF Sound, calculate_yes_edge, calculate_no_edge
<1>2. \A side : EdgeOn(b, side) = None \/ EdgeOn(b, side) \in Int
  BY <1>1 DEF EdgeOn
<1>3. _best_edge(b) = None \/ _best_edge(b) \in Int
  BY <1>2 DEF _best_edge
<1> QED BY <1>1, <1>2, <1>3

\* What a decision is made of makes it one.
LEMMA DecisionIs ==
  ASSUME NEW side, NEW edge, edge = None \/ edge \in Int, NEW stake, stake = None \/ stake \in Ratio,
         NEW fraction, fraction = None \/ fraction \in Ratio
  PROVE  Decided(Decision(side, edge, stake, fraction))
BY DEF Decided, Decision

\* A bet on one side of a bucket, or none.
LEMMA BuyIs ==
  ASSUME NEW b, Sound(b)
  PROVE  /\ Decided(Skip)
         /\ \A side : Decided(Buy(b, side)) /\ Decided(decide_bucket(b, side))
<1>1. Decided(Skip)
  BY DecisionIs DEF Skip
<1>2. \A side : Decided(Buy(b, side))
  <2> TAKE side
  <2>1. EdgeOn(b, side) = None \/ EdgeOn(b, side) \in Int
    BY EdgesAre
  <2> QED BY <2>1, DecisionIs DEF Buy
<1> QED BY <1>1, <1>2 DEF decide_bucket, If

\* The strategies that bet on one bucket, or on the best three.
LEMMA OneBetDecides ==
  ASSUME NEW edges, \A i \in DOMAIN edges : Sound(edges[i])
  PROVE  /\ AllDecided(edges, argmax_yes(edges)) /\ AllDecided(edges, argmax_no(edges))
         /\ AllDecided(edges, max_edge(edges)) /\ AllDecided(edges, max_roi(edges))
         /\ \A k, side : AllDecided(edges, TopK(edges, k, side))
<1>1. \A i \in DOMAIN edges : /\ Decided(Skip)
                              /\ \A side : /\ Decided(Buy(edges[i], side))
                                           /\ Decided(decide_bucket(edges[i], side))
  BY BuyIs
<1>2. ASSUME NEW i, NEW d, i \in DOMAIN edges => Decided(d)
      PROVE  AllDecided(edges, Only(edges, i, d))
  BY <1>1, <1>2 DEF AllDecided, Only
<1>3. AllDecided(edges, EachBucket(edges, LAMBDA b : Skip))
  BY <1>1 DEF AllDecided, EachBucket
<1>4. AllDecided(edges, argmax_yes(edges))
  BY <1>1, <1>2 DEF argmax_yes
<1>5. AllDecided(edges, argmax_no(edges))
  BY <1>1, <1>2, <1>3 DEF argmax_no
<1>6. AllDecided(edges, max_edge(edges))
  BY <1>1, <1>2, <1>3 DEF max_edge
<1>7. AllDecided(edges, max_roi(edges))
  BY <1>1, <1>2, <1>3 DEF max_roi, If
<1>8. \A k, side : AllDecided(edges, TopK(edges, k, side))
  BY <1>1 DEF AllDecided, TopK, If
<1> QED BY <1>4, <1>5, <1>6, <1>7, <1>8

\* A fraction of Kelly is a ratio when the side of the best edge is bought.
LEMMA KellyIs ==
  ASSUME NEW b, Sound(b), _best_edge(b) # None
  PROVE  _kelly_fraction(b, _best_side(b)) = None \/ _kelly_fraction(b, _best_side(b)) \in Ratio
<1> DEFINE side == _best_side(b)
           win == IF side = "YES" THEN b.p ELSE One - b.p
           entry == IF side = "YES" THEN b.ask ELSE One - b.bid
<1>1. /\ side = "YES" => b.ask # None
      /\ side # "YES" => b.bid # None
  <2>1. side # "none" /\ EdgeOn(b, side) # None
    BY DEF _best_edge
  <2> HIDE DEF side
  <2> QED BY <2>1 DEF EdgeOn, calculate_yes_edge, calculate_no_edge
<1> HIDE DEF side
<1>2. win \in Int /\ entry \in Int
  BY <1>1 DEF Sound, One
<1>3. _kelly_fraction(b, side) = IF entry >= One THEN None
                                 ELSE IF 20 * (win - entry) >= 4 * (One - entry) THEN <<1, 20>>
                                 ELSE <<win - entry, 4 * (One - entry)>>
  BY Zenon DEF _kelly_fraction
<1> HIDE DEF win, entry
<1>4. _kelly_fraction(b, side) = None \/ _kelly_fraction(b, side) \in Ratio
  <2>1. CASE entry >= One
    BY <1>3, <2>1
  <2>2. CASE ~(entry >= One)
    <3>1. <<1, 20>> \in Ratio
      BY DEF Ratio
    <3>2. <<win - entry, 4 * (One - entry)>> \in Ratio
      BY <1>2, <2>2 DEF Ratio, One
    <3> QED BY <1>3, <2>2, <3>1, <3>2
  <2> QED BY <2>1, <2>2
<1> QED BY <1>4 DEF side

\* The strategies that look at one bucket after the other.
LEMMA EachBetDecides ==
  ASSUME NEW edges, \A i \in DOMAIN edges : Sound(edges[i])
  PROVE  /\ AllDecided(edges, dist_arb(edges)) /\ AllDecided(edges, dist_arb_tight(edges))
         /\ AllDecided(edges, edge_band(edges)) /\ AllDecided(edges, mid_band(edges))
         /\ AllDecided(edges, tail_fade(edges)) /\ AllDecided(edges, dist_arb_kelly(edges))
         /\ AllDecided(edges, mass_side(edges)) /\ AllDecided(edges, coverage_band(edges))
<1>1. \A i \in DOMAIN edges : Decided(Skip) /\ \A side : Decided(Buy(edges[i], side))
  BY BuyIs
<1>2. \A i \in DOMAIN edges :
         /\ calculate_yes_edge(edges[i]) = None \/ calculate_yes_edge(edges[i]) \in Int
         /\ _best_edge(edges[i]) = None \/ _best_edge(edges[i]) \in Int
  BY EdgesAre
<1>3. <<5, 1>> \in Ratio /\ <<1, 1>> \in Ratio
  BY DEF Ratio
<1>4. \A i \in DOMAIN edges :
         /\ Decided(Decision("YES", calculate_yes_edge(edges[i]), <<5, 1>>, None))
         /\ Decided(Decision("YES", calculate_yes_edge(edges[i]), <<1, 1>>, None))
         /\ Decided(Decision("YES", calculate_yes_edge(edges[i]), None, None))
  <2> TAKE i \in DOMAIN edges
  <2>1. calculate_yes_edge(edges[i]) = None \/ calculate_yes_edge(edges[i]) \in Int
    BY <1>2
  <2> QED BY <1>3, <2>1, DecisionIs
<1>5. AllDecided(edges, dist_arb(edges)) /\ AllDecided(edges, dist_arb_tight(edges))
  BY <1>1 DEF AllDecided, dist_arb, dist_arb_tight, EachBucket, If
<1>6. AllDecided(edges, edge_band(edges)) /\ AllDecided(edges, tail_fade(edges))
  BY <1>1 DEF AllDecided, edge_band, tail_fade, EachBucket, If
<1>7. AllDecided(edges, mid_band(edges)) /\ AllDecided(edges, coverage_band(edges))
  BY <1>1, <1>4 DEF AllDecided, mid_band, coverage_band, EachBucket, If
<1>8. AllDecided(edges, mass_side(edges))
  <2> DEFINE yes(b, stake) == If(b.ask # None /\ b.ask <= 90 /\ Passes(b, calculate_yes_edge(b), 0, 25),
                                 Decision("YES", calculate_yes_edge(b), stake, None))
             no(b) == If(b.bid # None /\ One - b.bid <= 85 /\ Passes(b, calculate_no_edge(b), 0, 25),
                         Buy(b, "NO"))
             bet(b) == CASE _assign_role(edges, b) = "core" -> yes(b, None)
                         [] _assign_role(edges, b) = "believe_tail" -> yes(b, <<1, 1>>)
                         [] _assign_role(edges, b) = "fade" -> no(b)
                         [] _assign_role(edges, b) = "ignore" -> Skip
  <2>1. \A i \in DOMAIN edges : Decided(yes(edges[i], None)) /\ Decided(yes(edges[i], <<1, 1>>))
                                /\ Decided(no(edges[i]))
    BY <1>1, <1>4 DEF If
  <2>2. \A i \in DOMAIN edges : _assign_role(edges, edges[i]) \in {"core", "believe_tail", "fade", "ignore"}
    BY DEF _assign_role
  <2>3. mass_side(edges) = [i \in DOMAIN edges |-> bet(edges[i])]
    BY Zenon DEF mass_side, EachBucket
  <2> HIDE DEF yes, no
  <2>4. \A i \in DOMAIN edges : Decided(bet(edges[i]))
    BY <1>1, <2>1, <2>2
  <2> HIDE DEF bet
  <2> QED BY <2>3, <2>4 DEF AllDecided
<1>9. AllDecided(edges, dist_arb_kelly(edges))
  <2> DEFINE side(b) == _best_side(b)
             bet(b) == IF ~Passes(b, _best_edge(b), 0, 25) THEN Skip
                       ELSE If(_kelly_fraction(b, side(b)) # None /\ _kelly_fraction(b, side(b))[1] > 0,
                               Decision(side(b), _best_edge(b), None, _kelly_fraction(b, side(b))))
  <2>1. dist_arb_kelly(edges) = [i \in DOMAIN edges |-> bet(edges[i])]
    BY Zenon DEF dist_arb_kelly, EachBucket
  <2>2. ASSUME NEW i \in DOMAIN edges  PROVE Decided(bet(edges[i]))
    <3> DEFINE b == edges[i]
    <3>1. CASE ~Passes(b, _best_edge(b), 0, 25)
      BY <1>1, <3>1
    <3>2. CASE Passes(b, _best_edge(b), 0, 25)
      <4>1. Sound(b) /\ _best_edge(b) # None
        BY <3>2 DEF Passes
      <4>2. _kelly_fraction(b, side(b)) = None \/ _kelly_fraction(b, side(b)) \in Ratio
        BY <4>1, KellyIs
      <4>3. _best_edge(b) = None \/ _best_edge(b) \in Int
        BY <1>2
      <4>4. Decided(Decision(side(b), _best_edge(b), None, _kelly_fraction(b, side(b))))
        BY <4>2, <4>3, DecisionIs
      <4> QED BY <1>1, <3>2, <4>4 DEF If
    <3> QED BY <3>1, <3>2
  <2> HIDE DEF bet
  <2> QED BY <2>1, <2>2 DEF AllDecided
<1> QED BY <1>5, <1>6, <1>7, <1>8, <1>9

\* What a whole book costs, bucket by bucket.
CostOf(edges, side) == Sum(edges, DOMAIN edges, LAMBDA b : _entry_price(b, side))
CostBody(edges, side, g, s) ==
    IF s = {} THEN 0 ELSE _entry_price(edges[First(s)], side) + g[s \ {First(s)}]

\* The fold, as the recursion it stands for.
LEMMA FoldIsCost ==
  ASSUME NEW edges, NEW side
  PROVE  CostOf(edges, side) =
            (CHOOSE g : g = [s \in SUBSET DOMAIN edges |-> CostBody(edges, side, g, s)])[DOMAIN edges]
BY Zenon DEF CostOf, Sum, MapThenSumSet, MapThenFoldSet, CostBody, First

\* A whole book costs the sum of its prices, an integer if there are all of them.
LEMMA CostIs ==
  ASSUME NEW edges, NEW n \in Nat, DOMAIN edges = 1 .. n, NEW side,
         \A i \in 1 .. n : _entry_price(edges[i], side) \in Int,
         NEW w, w = [i \in 1 .. n |-> _entry_price(edges[i], side)]
  PROVE  CostOf(edges, side) = SumFunctionOnSet(w, 1 .. n) /\ CostOf(edges, side) \in Int
<1> DEFINE S == 1 .. n
           Right(g) == g = [s \in SUBSET S |-> CostBody(edges, side, g, s)]
           Sums(g) == IsSum(g, w, S)
<1>1. CostOf(edges, side) = (CHOOSE g : Right(g))[S]
  BY FoldIsCost
<1>2. IsFiniteSet(S) /\ \A i \in S : w[i] = _entry_price(edges[i], side) /\ w[i] \in Int
  BY LastPlace
<1> HIDE DEF S
<1>3. ASSUME NEW g  PROVE Right(g) <=> Sums(g)
  <2>1. \A s \in SUBSET S : CostBody(edges, side, g, s) = SumBody(w, g, s)
    <3> TAKE s \in SUBSET S
    <3>1. CASE s = {}
      BY <3>1 DEF CostBody, SumBody
    <3>2. CASE s # {}
      <4>1. First(s) \in S
        BY <3>2, FirstIn
      <4> QED BY <1>2, <3>2, <4>1 DEF CostBody, SumBody
    <3> QED BY <3>1, <3>2
  <2> QED BY <2>1 DEF IsSum
<1>4. SumFunctionOnSet(w, S) = (CHOOSE g : Sums(g))[S] /\ SumFunctionOnSet(w, S) \in Int
  BY <1>2, SumIs, SumType
<1> HIDE DEF Right, Sums
<1>5. (CHOOSE g : Right(g)) = (CHOOSE g : Sums(g))
  BY <1>3, Zenon
<1> QED BY <1>1, <1>4, <1>5 DEF S

\* The strategy that buys the whole book of an event.
LEMMA BookDecides ==
  ASSUME NEW edges, NEW n \in Nat, DOMAIN edges = 1 .. n, \A i \in DOMAIN edges : Sound(edges[i])
  PROVE  AllDecided(edges, book_arb(edges))
<1> DEFINE yes == _yes_book_profit_pp(edges)
           no == _no_book_profit_pp(edges)
           side == IF no = None \/ (yes # None /\ yes >= no) THEN "YES" ELSE "NO"
           profit == IF side = "YES" THEN yes ELSE no
           cost == CostOf(edges, side)
           liquid == \A i \in DOMAIN edges : edges[i].liquidity # None /\ edges[i].liquidity >= 25
           stake(b) == <<20 * _entry_price(b, side), cost>>
           skips == [i \in DOMAIN edges |-> Skip]
           buys == [i \in DOMAIN edges |-> Decision(side, EdgeOn(edges[i], side), stake(edges[i]), None)]
<1>1. book_arb(edges) = IF Len(edges) < 2 \/ profit = None THEN skips
                        ELSE IF profit <= 2 \/ ~liquid \/ cost <= 0 THEN skips ELSE buys
  BY Zenon DEF book_arb, EachBucket, CostOf
<1>2. AllDecided(edges, skips)
  <2>1. \A i \in DOMAIN edges : Decided(Skip)
    BY BuyIs
  <2> QED BY <2>1 DEF AllDecided
<1>3. ASSUME profit # None, ~(cost <= 0)
      PROVE  AllDecided(edges, buys)
  <2>1. \A i \in DOMAIN edges : IF side = "YES" THEN edges[i].ask # None ELSE edges[i].bid # None
    <3>1. CASE side = "YES"
      BY <1>3, <3>1 DEF _yes_book_profit_pp
    <3>2. CASE side # "YES"
      BY <1>3, <3>2 DEF _no_book_profit_pp
    <3> QED BY <3>1, <3>2
  <2> HIDE DEF side
  <2>2. \A i \in DOMAIN edges : _entry_price(edges[i], side) \in Int
    BY <2>1 DEF Sound, _entry_price, One
  <2>3. cost \in Int
    BY <2>2, CostIs
  <2> HIDE DEF cost
  <2>4. \A i \in DOMAIN edges : stake(edges[i]) \in Ratio
    <3>1. cost \in Nat \ {0}
      BY <1>3, <2>3
    <3> QED BY <2>2, <3>1 DEF Ratio
  <2> HIDE DEF stake
  <2>5. \A i \in DOMAIN edges : Decided(Decision(side, EdgeOn(edges[i], side), stake(edges[i]), None))
    <3> TAKE i \in DOMAIN edges
    <3>1. EdgeOn(edges[i], side) = None \/ EdgeOn(edges[i], side) \in Int
      BY EdgesAre
    <3> QED BY <2>4, <3>1, DecisionIs
  <2> QED BY <2>5 DEF AllDecided
<1> HIDE DEF skips, buys, profit, cost, liquid
<1> QED BY <1>1, <1>2, <1>3

\* What a strategy decides is decided for every bucket.
LEMMA StrategiesDecide ==
  ASSUME NEW edges, NEW n \in Nat, DOMAIN edges = 1 .. n, \A i \in DOMAIN edges : Sound(edges[i]),
         NEW strategy \in StrategyNames
  PROVE  AllDecided(edges, Decide(strategy, edges))
<1>1. /\ AllDecided(edges, argmax_yes(edges)) /\ AllDecided(edges, argmax_no(edges))
      /\ AllDecided(edges, max_edge(edges)) /\ AllDecided(edges, max_roi(edges))
      /\ AllDecided(edges, TopK(edges, 3, "YES")) /\ AllDecided(edges, TopK(edges, 3, "NO"))
  BY OneBetDecides
<1>2. /\ AllDecided(edges, dist_arb(edges)) /\ AllDecided(edges, dist_arb_tight(edges))
      /\ AllDecided(edges, edge_band(edges)) /\ AllDecided(edges, mid_band(edges))
      /\ AllDecided(edges, tail_fade(edges)) /\ AllDecided(edges, dist_arb_kelly(edges))
      /\ AllDecided(edges, mass_side(edges)) /\ AllDecided(edges, coverage_band(edges))
  BY EachBetDecides
<1>3. AllDecided(edges, book_arb(edges))
  BY BookDecides
<1> QED BY <1>1, <1>2, <1>3 DEF StrategyNames, Decide

(* Whatever a strategy decides about an event, on whatever prices, the      *)
(* stakes of the paper ledger add up to no more than the balance, by either *)
(* sizing, and by budget to no more than the budget of the event but for    *)
(* tickets that were raised to a dollar or rounded: every number of         *)
(* buckets, balance, budget and strategy.                                   *)
THEOREM StakesAreWithinMeans ==
  ASSUME NEW edges, NEW n \in Nat, DOMAIN edges = 1 .. n, \A i \in DOMAIN edges : Sound(edges[i]),
         NEW strategy \in StrategyNames, NEW balance \in Nat, NEW budget \in Nat
  PROVE  SpendsWithinMeans(edges, strategy, balance, budget)
<1> DEFINE ds == Decide(strategy, edges)
           rows == Eligible(edges, ds, {})
<1>1. DOMAIN ds = 1 .. n /\ \A i \in 1 .. n : Decided(ds[i])
  BY StrategiesDecide DEF AllDecided
<1> HIDE DEF ds
<1>2. rows \in SUBSET (1 .. n) /\ \A i \in rows : ds[i].edge # None
  BY DEF Eligible
<1>3. \A i \in rows : Sized(ds[i])
  BY <1>1, <1>2 DEF Decided, Sized
<1> HIDE DEF rows
<1>4. SpendsOn(ds, rows, balance, budget)
  BY <1>1, <1>2, <1>3, SizedSpendsWithin
<1> QED BY <1>4 DEF SpendsWithinMeans, SpendsFor, ds, rows

-----------------------------------------------------------------------------
(* What the strategies favour.                                             *)

Liquid(b) == b.liquidity = None \/ b.liquidity \in Int

\* A bet on a side that the model thinks is worth more than it costs, on a bucket
\* that can be traded, with the edge of that side.
GoodBet(b, d) ==
    /\ (d.buy = "YES" /\ b.ask # None) \/ (d.buy = "NO" /\ b.bid # None)
    /\ EdgeOn(b, d.buy) > 0 /\ d.edge = EdgeOn(b, d.buy)
    /\ b.liquidity # None /\ b.liquidity >= 25
SkipOrGood(b, d) == d.buy = "none" \/ GoodBet(b, d)
AllGood(edges, ds) ==
    DOMAIN ds = DOMAIN edges /\ \A i \in DOMAIN edges : SkipOrGood(edges[i], ds[i])

\* What passes the gate is a good bet.
LEMMA GoodBetIs ==
  ASSUME NEW b, Sound(b), Liquid(b), NEW side \in {"YES", "NO"}, NEW stake, NEW fraction,
         NEW min_edge \in Nat, NEW min_liquidity \in Nat, min_liquidity >= 25,
         Passes(b, EdgeOn(b, side), min_edge, min_liquidity)
  PROVE  GoodBet(b, Decision(side, EdgeOn(b, side), stake, fraction))
<1>1. EdgeOn(b, side) # None /\ EdgeOn(b, side) \in Int
  BY EdgesAre DEF Passes
<1>2. EdgeOn(b, side) > 0 /\ b.liquidity # None /\ b.liquidity >= 25
  BY <1>1 DEF Passes, Liquid
<1>3. (side = "YES" /\ b.ask # None) \/ (side = "NO" /\ b.bid # None)
  BY <1>1 DEF EdgeOn, calculate_yes_edge, calculate_no_edge
<1> QED BY <1>2, <1>3 DEF GoodBet, Decision

\* The side with the best edge has that edge, and is the best of the two.
LEMMA BestIs ==
  ASSUME NEW b, Sound(b), _best_edge(b) # None
  PROVE  /\ _best_side(b) \in {"YES", "NO"} /\ _best_edge(b) = EdgeOn(b, _best_side(b))
         /\ \A side \in {"YES", "NO"} : EdgeOn(b, side) # None => EdgeOn(b, side) <= _best_edge(b)
<1> DEFINE yes == calculate_yes_edge(b)
           no == calculate_no_edge(b)
<1>1. _best_side(b) # "none" /\ _best_edge(b) = EdgeOn(b, _best_side(b))
  BY DEF _best_edge
<1>2. _best_side(b) \in {"none", "YES", "NO"}
  BY DEF _best_side
<1>3. (yes = None \/ yes \in Int) /\ (no = None \/ no \in Int)
  BY EdgesAre
<1>4. EdgeOn(b, "YES") = yes /\ EdgeOn(b, "NO") = no
  BY DEF EdgeOn
<1>5. _best_side(b) = CASE yes = None /\ no = None -> "none"
                        [] yes # None /\ (no = None \/ yes >= no) -> "YES"
                        [] OTHER -> "NO"
  BY Zenon DEF _best_side
<1> HIDE DEF yes, no
<1>6. CASE _best_side(b) = "YES"
  <2>1. yes # None /\ (no = None \/ yes >= no)
    BY <1>5, <1>6
  <2> QED BY <1>1, <1>3, <1>4, <1>6, <2>1
<1>7. CASE _best_side(b) = "NO"
  <2>1. ~(yes # None /\ (no = None \/ yes >= no)) /\ ~(yes = None /\ no = None)
    BY <1>5, <1>7
  <2> QED BY <1>1, <1>3, <1>4, <1>7, <2>1
<1> QED BY <1>1, <1>2, <1>6, <1>7

\* A bet that DecisionConfig allows.
LEMMA DecideIsGood ==
  ASSUME NEW b, Sound(b), Liquid(b), NEW side \in {"YES", "NO"}
  PROVE  SkipOrGood(b, decide_bucket(b, side)) /\ SkipOrGood(b, Skip)
<1>1. Skip.buy = "none"
  BY DEF Skip, Decision
<1>2. CASE Passes(b, EdgeOn(b, side), 0, 100)
  <2>1. GoodBet(b, Decision(side, EdgeOn(b, side), None, None))
    BY <1>2, GoodBetIs
  <2> QED BY <1>1, <1>2, <2>1 DEF SkipOrGood, decide_bucket, If, Buy
<1>3. CASE ~Passes(b, EdgeOn(b, side), 0, 100)
  BY <1>1, <1>3 DEF SkipOrGood, decide_bucket, If
<1> QED BY <1>2, <1>3

\* The same for whatever side is asked for; "none" is no bet.
LEMMA AnySideIsGood ==
  ASSUME NEW b, Sound(b), Liquid(b), NEW side \in {"YES", "NO", "none"}
  PROVE  SkipOrGood(b, decide_bucket(b, side)) /\ SkipOrGood(b, Skip)
<1>1. CASE side = "none"
  <2>1. decide_bucket(b, side).buy = "none" /\ Skip.buy = "none"
    BY <1>1 DEF decide_bucket, If, Buy, Skip, Decision
  <2> QED BY <2>1 DEF SkipOrGood
<1>2. CASE side # "none"
  BY <1>2, DecideIsGood
<1> QED BY <1>1, <1>2

\* One bucket is looked at: no more than one is bought.
LEMMA OnlyIsGood ==
  ASSUME NEW edges, \A i \in DOMAIN edges : Sound(edges[i]) /\ Liquid(edges[i]),
         NEW i, NEW d, i \in DOMAIN edges => SkipOrGood(edges[i], d)
  PROVE  AllGood(edges, Only(edges, i, d)) /\ Bought(Only(edges, i, d)) \subseteq {i}
<1>1. Skip.buy = "none"
  BY DEF Skip, Decision
<1> QED BY <1>1 DEF AllGood, SkipOrGood, Only, Bought

\* Nothing is bought where every bucket is skipped.
LEMMA NoneIsGood ==
  ASSUME NEW edges
  PROVE  /\ AllGood(edges, EachBucket(edges, LAMBDA b : Skip))
         /\ Bought(EachBucket(edges, LAMBDA b : Skip)) = {}
<1>1. Skip.buy = "none"
  BY DEF Skip, Decision
<1> QED BY <1>1 DEF AllGood, SkipOrGood, EachBucket, Bought

\* The bet with the highest return is a good one.
LEMMA RoiIsGood ==
  ASSUME NEW b, Sound(b), Liquid(b), NEW roi,
         roi = IF _best_roi_side(b) = "YES" THEN RoiYes(b) ELSE RoiNo(b)
  PROVE  SkipOrGood(b, If(/\ AboveRatio(roi, <<5, One>>)
                          /\ b.liquidity # None /\ b.liquidity >= 25, Buy(b, _best_roi_side(b))))
<1> DEFINE side == _best_roi_side(b)
           bets == AboveRatio(roi, <<5, One>>) /\ b.liquidity # None /\ b.liquidity >= 25
<1>1. Skip.buy = "none" /\ Buy(b, side) = Decision(side, EdgeOn(b, side), None, None)
  BY DEF Skip, Decision, Buy
<1>2. side \in {"none", "YES", "NO"}
  BY DEF _best_roi_side
<1>3. CASE side = "none"
  BY <1>1, <1>3 DEF SkipOrGood, If, Decision
<1>4. CASE bets /\ side = "YES"
  <2>1. RoiYes(b) # None
    BY <1>4 DEF _best_roi_side
  <2>2. RoiYes(b) = <<b.p - b.ask, b.ask>> /\ b.ask # None /\ b.ask > 0
    BY <2>1 DEF RoiYes
  <2>3. b.ask \in Int /\ b.p \in Int
    BY <2>2 DEF Sound
  <2>4. (b.p - b.ask) * 100 > 5 * b.ask
    BY <1>4, <2>2 DEF AboveRatio, One
  <2>5. EdgeOn(b, side) = b.p - b.ask
    BY <1>4, <2>2 DEF EdgeOn, calculate_yes_edge
  <2>6. b.p - b.ask > 0
    BY <2>2, <2>3, <2>4
  <2> HIDE DEF side
  <2>7. GoodBet(b, Decision(side, EdgeOn(b, side), None, None))
    BY <1>4, <2>2, <2>5, <2>6 DEF GoodBet, Decision
  <2> QED BY <1>1, <1>4, <2>7 DEF SkipOrGood, If, side
<1>5. CASE bets /\ side = "NO"
  <2>1. RoiNo(b) # None
    BY <1>5 DEF _best_roi_side
  <2>2. RoiNo(b) = <<b.bid - b.p, One - b.bid>> /\ b.bid # None /\ b.bid < One
    BY <2>1 DEF RoiNo
  <2>3. b.bid \in Int /\ b.p \in Int
    BY <2>2 DEF Sound
  <2>4. (b.bid - b.p) * 100 > 5 * (100 - b.bid) /\ b.bid < 100
    BY <1>5, <2>2 DEF AboveRatio, One
  <2>5. EdgeOn(b, side) = b.bid - b.p
    BY <1>5, <2>2 DEF EdgeOn, calculate_no_edge
  <2>6. b.bid - b.p > 0
    BY <2>3, <2>4
  <2> HIDE DEF side
  <2>7. GoodBet(b, Decision(side, EdgeOn(b, side), None, None))
    BY <1>5, <2>2, <2>5, <2>6 DEF GoodBet, Decision
  <2> QED BY <1>1, <1>5, <2>7 DEF SkipOrGood, If, side
<1>6. CASE ~bets
  BY <1>1, <1>6 DEF SkipOrGood, If
<1> QED BY <1>2, <1>3, <1>4, <1>5, <1>6

\* Of a few places the one with the least value, and the last of those.
LEMMA LastOfLeast ==
  ASSUME NEW n \in Nat, NEW B \in SUBSET (1 .. n), B # {}, NEW e, \A j \in B : e[j] \in Int
  PROVE  \E m \in B : \A j \in B : j # m => e[j] > e[m] \/ (e[j] = e[m] /\ j < m)
<1> DEFINE V == {e[j] : j \in B}
           C == {j \in B : e[j] = Min(V)}
<1>1. IsFiniteSet(B)
  BY LastPlace, FS_Subset
<1>2. Min(V) \in V /\ \A y \in V : Min(V) <= y
  <2>1. IsFiniteSet(V)
    BY <1>1, ImageIsFinite
  <2>2. V # {} /\ \A y \in V : y \in Int
    OBVIOUS
  <2> HIDE DEF V
  <2> QED BY <2>1, <2>2, MinIs
<1>3. \A j \in B : e[j] \in V
  OBVIOUS
<1>4. C # {} /\ C \in SUBSET B
  BY <1>2
<1>5. IsFiniteSet(C) /\ \A j \in C : j \in Int
  <2>1. \A j \in C : j \in Int
    OBVIOUS
  <2> HIDE DEF C
  <2> QED BY <1>1, <1>4, <2>1, FS_Subset
<1>6. Max(C) \in C /\ \A j \in C : j <= Max(C)
  <2> HIDE DEF C
  <2> QED BY <1>4, <1>5, MaxIs
<1> DEFINE m == Max(C)
<1>7. m \in B /\ e[m] = Min(V) /\ m \in Int
  BY <1>5, <1>6
<1>8. ASSUME NEW j \in B, j # m  PROVE e[j] > e[m] \/ (e[j] = e[m] /\ j < m)
  <2>1. CASE j \in C
    <3>1. j <= m /\ j \in Int /\ e[j] = Min(V)
      BY <1>5, <1>6, <2>1
    <3> HIDE DEF m
    <3> QED BY <1>7, <1>8, <3>1
  <2>2. CASE j \notin C
    <3>1. e[j] # Min(V) /\ Min(V) <= e[j]
      BY <1>2, <1>3, <2>2
    <3>2. e[j] \in Int /\ e[m] \in Int
      BY <1>7
    <3> HIDE DEF m, V
    <3> QED BY <1>7, <3>1, <3>2
  <2> QED BY <2>1, <2>2
<1> HIDE DEF m
<1> QED BY <1>7, <1>8

\* Of a few places there is one with the greatest value.
LEMMA SomeGreatest ==
  ASSUME NEW n \in Nat, NEW I \in SUBSET (1 .. n), I # {}, NEW v, \A j \in I : v[j] \in Int
  PROVE  \E i \in I : \A j \in I : v[j] <= v[i]
<1> DEFINE V == {v[j] : j \in I}
<1>1. IsFiniteSet(V)
  <2>1. IsFiniteSet(I)
    BY LastPlace, FS_Subset
  <2> QED BY <2>1, ImageIsFinite
<1>2. V # {} /\ \A y \in V : y \in Int
  OBVIOUS
<1>3. Max(V) \in V /\ \A y \in V : y <= Max(V)
  <2> HIDE DEF V
  <2> QED BY <1>1, <1>2, MaxIs
<1> QED BY <1>3

\* The k best of one side are good bets, and no more than k.
LEMMA TopKIsGood ==
  ASSUME NEW edges, NEW n \in Nat, DOMAIN edges = 1 .. n,
         \A i \in DOMAIN edges : Sound(edges[i]) /\ Liquid(edges[i]),
         NEW k \in Nat, NEW side \in {"YES", "NO"}
  PROVE  /\ AllGood(edges, TopK(edges, k, side))
         /\ Cardinality(Bought(TopK(edges, k, side))) <= k
<1> DEFINE e == [i \in 1 .. n |-> EdgeOn(edges[i], side)]
           I == {i \in DOMAIN edges : EdgeOn(edges[i], side) # None}
           ahead(i) == {j \in I : EdgeOn(edges[j], side) > EdgeOn(edges[i], side)
                                  \/ (EdgeOn(edges[j], side) = EdgeOn(edges[i], side) /\ j < i)}
           best(i) == i \in I /\ Cardinality(ahead(i)) < k
           ds == TopK(edges, k, side)
           B == {i \in I : best(i)}
<1>1. ds = [i \in DOMAIN edges |-> If(best(i), decide_bucket(edges[i], side))]
  BY Zenon DEF TopK
<1>2. \A i \in DOMAIN edges : SkipOrGood(edges[i], decide_bucket(edges[i], side))
                              /\ SkipOrGood(edges[i], Skip) /\ Skip.buy = "none"
  <2>1. Skip.buy = "none"
    BY DEF Skip, Decision
  <2> QED BY <2>1, DecideIsGood
<1>3. \A i \in I : i \in 1 .. n /\ e[i] = EdgeOn(edges[i], side) /\ e[i] \in Int
  BY EdgesAre
<1>4. B \in SUBSET (1 .. n) /\ B \in SUBSET I
  BY <1>3
<1> HIDE DEF ds, e
<1>5. AllGood(edges, ds)
  <2> HIDE DEF best
  <2> QED BY <1>1, <1>2 DEF AllGood, If
<1>6. Bought(ds) \in SUBSET B
  <2>1. \A i \in Bought(ds) : i \in DOMAIN edges /\ best(i)
    <3> HIDE DEF best
    <3> QED BY <1>1, <1>2 DEF Bought, If
  <2> QED BY <2>1
<1>7. IsFiniteSet(B) /\ Cardinality(B) \in Nat
  <2> HIDE DEF B
  <2> QED BY <1>4, LastPlace, FS_Subset, FS_CardinalityType
<1>8. Cardinality(B) <= k
  <2>1. CASE B = {}
    <3> HIDE DEF B
    <3> QED BY <2>1, FS_EmptySet
  <2>2. CASE B # {}
    <3>1. \A j \in B : e[j] \in Int
      BY <1>3, <1>4
    <3>2. PICK m \in B : \A j \in B : j # m => e[j] > e[m] \/ (e[j] = e[m] /\ j < m)
      <4> HIDE DEF B
      <4> QED BY <1>4, <2>2, <3>1, LastOfLeast
    <3>3. B \ {m} \in SUBSET ahead(m)
      BY <1>3, <1>4, <3>2
    <3>4. ahead(m) \in SUBSET (1 .. n) /\ Cardinality(ahead(m)) < k
      BY <1>3, <3>2
    <3> HIDE DEF B, ahead
    <3>5. IsFiniteSet(ahead(m)) /\ Cardinality(ahead(m)) \in Nat
      BY <3>4, LastPlace, FS_Subset, FS_CardinalityType
    <3>6. Cardinality(B \ {m}) <= Cardinality(ahead(m))
      BY <3>3, <3>5, FS_Subset
    <3>7. Cardinality(B \ {m}) = Cardinality(B) - 1
      BY <1>7, <3>2, FS_RemoveElement
    <3> QED BY <1>7, <3>4, <3>5, <3>6, <3>7
  <2> QED BY <2>1, <2>2
<1>9. Cardinality(Bought(ds)) <= k
  <2> HIDE DEF B
  <2>1. Cardinality(Bought(ds)) <= Cardinality(B) /\ Cardinality(Bought(ds)) \in Nat
    BY <1>6, <1>7, FS_Subset, FS_CardinalityType
  <2> QED BY <1>7, <1>8, <2>1
<1> QED BY <1>5, <1>9 DEF ds

\* The strategies that bet once, or three times: good bets, and no more of them.
LEMMA OneBetFavours ==
  ASSUME NEW edges, NEW n \in Nat, DOMAIN edges = 1 .. n,
         \A i \in DOMAIN edges : Sound(edges[i]) /\ Liquid(edges[i]),
         NEW strategy \in {"argmax_yes", "argmax_no", "max_edge", "max_roi", "topk_yes", "topk_no"}
  PROVE  LET ds == Decide(strategy, edges)
         IN  /\ AllGood(edges, ds)
             /\ strategy \in {"argmax_yes", "argmax_no", "max_edge", "max_roi"} =>
                   \E i : Bought(ds) \subseteq {i}
             /\ strategy \in {"topk_yes", "topk_no"} => Cardinality(Bought(ds)) <= 3
<1> DEFINE ds == Decide(strategy, edges)
           One1(d) == AllGood(edges, d) /\ \E i : Bought(d) \subseteq {i}
<1>1. \A i \in DOMAIN edges, side \in {"YES", "NO", "none"} : SkipOrGood(edges[i], decide_bucket(edges[i], side))
  BY AnySideIsGood
<1>2. One1(EachBucket(edges, LAMBDA b : Skip))
  BY NoneIsGood
<1>3. ASSUME NEW i, NEW d, i \in DOMAIN edges => SkipOrGood(edges[i], d)
      PROVE  One1(Only(edges, i, d))
  BY <1>3, OnlyIsGood
<1>4. One1(argmax_yes(edges))
  <2> HIDE DEF One1
  <2> QED BY <1>1, <1>3 DEF argmax_yes
<1>5. One1(argmax_no(edges))
  <2> HIDE DEF One1
  <2> QED BY <1>1, <1>2, <1>3 DEF argmax_no
<1>6. One1(max_edge(edges))
  <2>1. \A i : _best_side(edges[i]) \in {"YES", "NO", "none"}
    BY DEF _best_side
  <2> HIDE DEF One1
  <2> QED BY <1>1, <1>2, <1>3, <2>1 DEF max_edge
<1>7. One1(max_roi(edges))
  <2> DEFINE b(i) == edges[i]
             roi(i) == IF _best_roi_side(edges[i]) = "YES" THEN RoiYes(edges[i]) ELSE RoiNo(edges[i])
             bet(i) == If(/\ AboveRatio(roi(i), <<5, One>>)
                          /\ b(i).liquidity # None /\ b(i).liquidity >= 25,
                          Buy(b(i), _best_roi_side(b(i))))
  <2>1. \A i \in DOMAIN edges : SkipOrGood(edges[i], bet(i))
    BY RoiIsGood
  <2>2. \/ max_roi(edges) = EachBucket(edges, LAMBDA x : Skip)
        \/ \E i : max_roi(edges) = Only(edges, i, bet(i))
    BY Zenon DEF max_roi
  <2> HIDE DEF One1, bet
  <2> QED BY <1>2, <1>3, <2>1, <2>2
<1>8. ASSUME NEW side \in {"YES", "NO"}
      PROVE  AllGood(edges, TopK(edges, 3, side)) /\ Cardinality(Bought(TopK(edges, 3, side))) <= 3
  BY TopKIsGood
<1> HIDE DEF ds
<1>9. CASE strategy \in {"argmax_yes", "argmax_no", "max_edge", "max_roi"}
  <2>1. One1(ds)
    <3> HIDE DEF One1
    <3> QED BY <1>4, <1>5, <1>6, <1>7, <1>9 DEF ds, Decide
  <2> QED BY <1>9, <2>1 DEF ds
<1>10. CASE strategy \in {"topk_yes", "topk_no"}
  <2>1. ds = TopK(edges, 3, "YES") \/ ds = TopK(edges, 3, "NO")
    BY <1>10 DEF ds, Decide
  <2>2. AllGood(edges, ds) /\ Cardinality(Bought(ds)) <= 3
    BY <1>8, <2>1
  <2> QED BY <1>10, <2>2 DEF ds
<1> QED BY <1>9, <1>10

\* The one bet of max_edge has the greatest edge there is.
LEMMA MaxEdgeIsBest ==
  ASSUME NEW edges, NEW n \in Nat, DOMAIN edges = 1 .. n,
         \A i \in DOMAIN edges : Sound(edges[i]) /\ Liquid(edges[i])
  PROVE  LET ds == max_edge(edges)
         IN  \A i \in Bought(ds), j \in DOMAIN edges, side \in {"YES", "NO"} :
                EdgeOn(edges[j], side) # None => EdgeOn(edges[j], side) <= ds[i].edge
<1> DEFINE ds == max_edge(edges)
           I == {i \in DOMAIN edges : _best_side(edges[i]) # "none"}
           best == [i \in 1 .. n |-> _best_edge(edges[i])]
           firsts == {i \in I : \A j \in I : ~(_best_edge(edges[j]) > _best_edge(edges[i]))}
           f == Min(firsts)
           bet == decide_bucket(edges[f], _best_side(edges[f]))
<1>1. ds = IF I = {} THEN EachBucket(edges, LAMBDA b : Skip) ELSE Only(edges, f, bet)
  BY Zenon DEF max_edge, FirstBest, Above
<1>2. \A i \in I : /\ i \in 1 .. n /\ best[i] = _best_edge(edges[i]) /\ best[i] \in Int
                   /\ _best_edge(edges[i]) # None
  <2> TAKE i \in I
  <2>1. i \in 1 .. n /\ best[i] = _best_edge(edges[i]) /\ Sound(edges[i])
    OBVIOUS
  <2>2. _best_edge(edges[i]) # None
    BY DEF _best_edge, _best_side, EdgeOn
  <2>3. _best_edge(edges[i]) \in Int
    BY <2>1, <2>2, EdgesAre
  <2> HIDE DEF best
  <2> QED BY <2>1, <2>2, <2>3
<1>3. \A j \in DOMAIN edges, side \in {"YES", "NO"} : EdgeOn(edges[j], side) # None =>
         j \in I /\ EdgeOn(edges[j], side) <= best[j]
  <2> TAKE j \in DOMAIN edges, side \in {"YES", "NO"}
  <2> HAVE EdgeOn(edges[j], side) # None
  <2>1. j \in I
    BY DEF _best_side, EdgeOn
  <2>2. _best_edge(edges[j]) # None /\ best[j] = _best_edge(edges[j]) /\ Sound(edges[j])
    BY <1>2, <2>1
  <2> HIDE DEF I, best
  <2> QED BY <2>1, <2>2, BestIs
<1>4. CASE I = {}
  <2>1. Bought(ds) = {}
    BY <1>1, <1>4, NoneIsGood
  <2> QED BY <2>1
<1>5. CASE I # {}
  <2>1. f \in I /\ \A j \in I : best[j] <= best[f]
    <3>1. I \in SUBSET (1 .. n) /\ IsFiniteSet(firsts) /\ firsts \in SUBSET I
      BY LastPlace, FS_Subset
    <3>2. \E i \in I : \A j \in I : best[j] <= best[i]
      <4> HIDE DEF I, best
      <4> QED BY <1>2, <1>5, <3>1, SomeGreatest
    <3>3. firsts # {} /\ \A i \in firsts : i \in Int
      <4>1. \A i, j \in I : best[j] <= best[i] => ~(_best_edge(edges[j]) > _best_edge(edges[i]))
        BY <1>2
      <4> QED BY <3>1, <3>2, <4>1
    <3>4. f \in firsts
      <4> HIDE DEF firsts
      <4> QED BY <3>1, <3>3, MinIs
    <3>5. \A j \in I : ~(best[j] > best[f])
      BY <1>2, <3>4
    <3> HIDE DEF f, best
    <3> QED BY <1>2, <3>1, <3>4, <3>5
  <2> HIDE DEF I, f, best
  <2>2. ds[f] = bet /\ Bought(ds) \subseteq {f}
    <3>1. Sound(edges[f]) /\ Liquid(edges[f])
      BY <1>2, <2>1
    <3>2. _best_side(edges[f]) \in {"YES", "NO", "none"}
      BY DEF _best_side
    <3>3. SkipOrGood(edges[f], bet)
      BY <3>1, <3>2, AnySideIsGood
    <3>4. ds = Only(edges, f, bet)
      BY <1>1, <1>5
    <3> HIDE DEF bet, ds
    <3>5. Bought(ds) \subseteq {f}
      BY <3>3, <3>4, OnlyIsGood
    <3>6. ds[f] = bet
      BY <1>2, <2>1, <3>4 DEF Only
    <3> QED BY <3>5, <3>6
  <2>3. f \in Bought(ds) => ds[f].edge = best[f]
    <3>1. _best_edge(edges[f]) = EdgeOn(edges[f], _best_side(edges[f])) /\ best[f] = _best_edge(edges[f])
      BY <1>2, <2>1, BestIs
    <3> HIDE DEF ds
    <3>2. f \in Bought(ds) => bet.buy # "none"
      BY <2>2 DEF Bought
    <3>3. bet.buy # "none" => bet.edge = EdgeOn(edges[f], _best_side(edges[f]))
      BY DEF decide_bucket, If, Buy, Skip, Decision
    <3> HIDE DEF bet
    <3> QED BY <2>2, <3>1, <3>2, <3>3
  <2> HIDE DEF ds, bet
  <2>4. ASSUME NEW i \in Bought(ds), NEW j \in DOMAIN edges, NEW side \in {"YES", "NO"},
               EdgeOn(edges[j], side) # None
        PROVE  EdgeOn(edges[j], side) <= ds[i].edge
    <3>1. i = f /\ ds[i].edge = best[f]
      BY <2>2, <2>3
    <3>2. j \in I /\ EdgeOn(edges[j], side) <= best[j] /\ best[j] <= best[f]
      BY <1>3, <2>1, <2>4
    <3>3. EdgeOn(edges[j], side) \in Int /\ best[j] \in Int /\ best[f] \in Int
      BY <1>2, <2>1, <2>4, <3>2, EdgesAre
    <3> QED BY <3>1, <3>2, <3>3
  <2> QED BY <2>4 DEF ds
<1> QED BY <1>4, <1>5

\* A bet on the better side of a bucket that passes a gate, whatever its size.
LEMMA BestIsGood ==
  ASSUME NEW b, Sound(b), Liquid(b), NEW min_edge \in Nat, NEW min_liquidity \in Nat, min_liquidity >= 25,
         Passes(b, _best_edge(b), min_edge, min_liquidity), NEW stake, NEW fraction
  PROVE  /\ GoodBet(b, Buy(b, _best_side(b)))
         /\ GoodBet(b, Decision(_best_side(b), _best_edge(b), stake, fraction))
<1>1. _best_edge(b) # None
  BY DEF Passes
<1>2. _best_side(b) \in {"YES", "NO"} /\ _best_edge(b) = EdgeOn(b, _best_side(b))
  BY <1>1, BestIs
<1>3. \A s, f : GoodBet(b, Decision(_best_side(b), EdgeOn(b, _best_side(b)), s, f))
  BY <1>2, GoodBetIs
<1> QED BY <1>2, <1>3 DEF Buy

\* The strategies that look at one bucket after the other make good bets.
LEMMA EachBetFavours ==
  ASSUME NEW edges, \A i \in DOMAIN edges : Sound(edges[i]) /\ Liquid(edges[i])
  PROVE  /\ AllGood(edges, dist_arb(edges)) /\ AllGood(edges, dist_arb_tight(edges))
         /\ AllGood(edges, edge_band(edges)) /\ AllGood(edges, mid_band(edges))
         /\ AllGood(edges, tail_fade(edges)) /\ AllGood(edges, dist_arb_kelly(edges))
         /\ AllGood(edges, mass_side(edges))
<1>1. Skip.buy = "none"
  BY DEF Skip, Decision
<1>2. \A b : SkipOrGood(b, Skip)
  BY <1>1 DEF SkipOrGood
<1>3. \A b, d : GoodBet(b, d) => SkipOrGood(b, d)
  BY DEF SkipOrGood
<1>4. \A i \in DOMAIN edges : /\ EdgeOn(edges[i], "YES") = calculate_yes_edge(edges[i])
                              /\ EdgeOn(edges[i], "NO") = calculate_no_edge(edges[i])
  BY DEF EdgeOn
<1>5. AllGood(edges, dist_arb(edges))
  <2>1. \A i \in DOMAIN edges : Passes(edges[i], _best_edge(edges[i]), 0, 25) =>
                                   GoodBet(edges[i], Buy(edges[i], _best_side(edges[i])))
    BY BestIsGood
  <2> QED BY <1>2, <1>3, <2>1 DEF AllGood, dist_arb, EachBucket, If
<1>6. AllGood(edges, dist_arb_tight(edges))
  <2>1. \A i \in DOMAIN edges : Passes(edges[i], _best_edge(edges[i]), 0, 100) =>
                                   GoodBet(edges[i], Buy(edges[i], _best_side(edges[i])))
    BY BestIsGood
  <2> QED BY <1>2, <1>3, <2>1 DEF AllGood, dist_arb_tight, EachBucket, If
<1>7. AllGood(edges, edge_band(edges))
  <2>1. \A i \in DOMAIN edges : Passes(edges[i], _best_edge(edges[i]), 5, 25) =>
                                   GoodBet(edges[i], Buy(edges[i], _best_side(edges[i])))
    BY BestIsGood
  <2> QED BY <1>2, <1>3, <2>1 DEF AllGood, edge_band, EachBucket, If
<1>8. AllGood(edges, mid_band(edges))
  <2>1. \A i \in DOMAIN edges : Passes(edges[i], calculate_yes_edge(edges[i]), 0, 50) =>
           GoodBet(edges[i], Decision("YES", calculate_yes_edge(edges[i]), <<5, 1>>, None))
    <3> TAKE i \in DOMAIN edges
    <3> HAVE Passes(edges[i], calculate_yes_edge(edges[i]), 0, 50)
    <3>1. Passes(edges[i], EdgeOn(edges[i], "YES"), 0, 50)
      BY <1>4
    <3>2. GoodBet(edges[i], Decision("YES", EdgeOn(edges[i], "YES"), <<5, 1>>, None))
      BY <3>1, GoodBetIs
    <3> QED BY <1>4, <3>2
  <2> QED BY <1>2, <1>3, <2>1 DEF AllGood, mid_band, EachBucket, If
<1>9. ASSUME NEW i \in DOMAIN edges, Passes(edges[i], calculate_no_edge(edges[i]), 0, 25)
      PROVE  GoodBet(edges[i], Buy(edges[i], "NO"))
  <2>1. Passes(edges[i], EdgeOn(edges[i], "NO"), 0, 25)
    BY <1>4, <1>9
  <2>2. GoodBet(edges[i], Decision("NO", EdgeOn(edges[i], "NO"), None, None))
    BY <2>1, GoodBetIs
  <2> QED BY <2>2 DEF Buy
<1>10. AllGood(edges, tail_fade(edges))
  BY <1>2, <1>3, <1>9 DEF AllGood, tail_fade, EachBucket, If
<1>11. AllGood(edges, dist_arb_kelly(edges))
  <2>1. \A i \in DOMAIN edges : \A f : Passes(edges[i], _best_edge(edges[i]), 0, 25) =>
           GoodBet(edges[i], Decision(_best_side(edges[i]), _best_edge(edges[i]), None, f))
    BY BestIsGood
  <2> QED BY <1>2, <1>3, <2>1 DEF AllGood, dist_arb_kelly, EachBucket, If
<1>12. AllGood(edges, mass_side(edges))
  <2> DEFINE yes(b, stake) == If(b.ask # None /\ b.ask <= 90 /\ Passes(b, calculate_yes_edge(b), 0, 25),
                                 Decision("YES", calculate_yes_edge(b), stake, None))
             no(b) == If(b.bid # None /\ One - b.bid <= 85 /\ Passes(b, calculate_no_edge(b), 0, 25),
                         Buy(b, "NO"))
             bet(b) == CASE _assign_role(edges, b) = "core" -> yes(b, None)
                         [] _assign_role(edges, b) = "believe_tail" -> yes(b, <<1, 1>>)
                         [] _assign_role(edges, b) = "fade" -> no(b)
                         [] _assign_role(edges, b) = "ignore" -> Skip
  <2>1. \A i \in DOMAIN edges : \A stake : SkipOrGood(edges[i], yes(edges[i], stake))
    <3> TAKE i \in DOMAIN edges
    <3> TAKE stake
    <3>1. ASSUME Passes(edges[i], calculate_yes_edge(edges[i]), 0, 25)
          PROVE  GoodBet(edges[i], Decision("YES", calculate_yes_edge(edges[i]), stake, None))
      <4>1. Passes(edges[i], EdgeOn(edges[i], "YES"), 0, 25)
        BY <1>4, <3>1
      <4>2. GoodBet(edges[i], Decision("YES", EdgeOn(edges[i], "YES"), stake, None))
        BY <4>1, GoodBetIs
      <4> QED BY <1>4, <4>2
    <3> QED BY <1>2, <1>3, <3>1 DEF If
  <2>2. \A i \in DOMAIN edges : SkipOrGood(edges[i], no(edges[i]))
    BY <1>2, <1>3, <1>9 DEF If
  <2>3. \A i \in DOMAIN edges : _assign_role(edges, edges[i]) \in {"core", "believe_tail", "fade", "ignore"}
    BY DEF _assign_role
  <2>4. mass_side(edges) = [i \in DOMAIN edges |-> bet(edges[i])]
    BY Zenon DEF mass_side, EachBucket
  <2> HIDE DEF yes, no
  <2>5. \A i \in DOMAIN edges : SkipOrGood(edges[i], bet(edges[i]))
    BY <1>2, <2>1, <2>2, <2>3
  <2> HIDE DEF bet
  <2> QED BY <2>4, <2>5 DEF AllGood
<1> QED BY <1>5, <1>6, <1>7, <1>8, <1>10, <1>11, <1>12

-----------------------------------------------------------------------------
(* Baskets.                                                                *)

\* The window of the basket grows around the peak.
GrowsTo(edges, w) ==
    LET n == Len(edges)
        Left(v) == IF v[1] > 1 THEN edges[v[1] - 1].p ELSE None
        Right(v) == IF v[2] < n THEN edges[v[2] + 1].p ELSE None
    IN  IF MassOf(edges, w[1]..w[2]) >= 80 \/ w = <<1, n>> THEN w
        ELSE IF Right(w) = None \/ (Left(w) # None /\ Left(w) >= Right(w))
        THEN <<w[1] - 1, w[2]>> ELSE <<w[1], w[2] + 1>>
Peak(edges) == FirstBest(DOMAIN edges, LAMBDA i : edges[i].p, Above)
WindowBody(edges, g, s) ==
    IF s = {} THEN <<Peak(edges), Peak(edges)>> ELSE GrowsTo(edges, g[s \ {Max(s)}])
WindowRun(edges, places) ==
    (CHOOSE g : g = [s \in SUBSET places |-> WindowBody(edges, g, s)])[places]

\* The loop that grows it, as the recursion it stands for.
LEMMA FoldIsWindow ==
  ASSUME NEW edges
  PROVE  _coverage_window(edges) =
            WindowRun(edges, DOMAIN [i \in 1 .. Len(edges) |-> i])[1] ..
            WindowRun(edges, DOMAIN [i \in 1 .. Len(edges) |-> i])[2]
BY Zenon DEF _coverage_window, FoldLeft, MapThenFoldSet, WindowRun, WindowBody, GrowsTo, Peak, FirstBest

\* The peak is the first bucket with the most mass.
LEMMA PeakIs ==
  ASSUME NEW edges, NEW n \in Nat, DOMAIN edges = 1 .. n, n # 0, \A i \in DOMAIN edges : Sound(edges[i])
  PROVE  /\ Peak(edges) \in 1 .. n
         /\ \A j \in 1 .. n : edges[j].p <= edges[Peak(edges)].p
<1> DEFINE I == 1 .. n
           p == [i \in I |-> edges[i].p]
           firsts == {i \in I : \A j \in I : ~(edges[j].p > edges[i].p)}
<1>1. Peak(edges) = Min(firsts)
  BY Zenon DEF Peak, FirstBest, Above
<1>2. \A i \in I : p[i] = edges[i].p /\ p[i] \in Int
  BY DEF Sound
<1>3. I # {} /\ I \in SUBSET (1 .. n)
  <2>1. 1 \in I
    OBVIOUS
  <2> QED BY <2>1
<1>4. \E i \in I : \A j \in I : p[j] <= p[i]
  <2> HIDE DEF I, p
  <2> QED BY <1>2, <1>3, SomeGreatest
<1>5. firsts # {} /\ firsts \in SUBSET I
  <2> HIDE DEF I, p
  <2> QED BY <1>2, <1>4
<1>6. IsFiniteSet(firsts) /\ \A i \in firsts : i \in Int
  <2>1. \A i \in firsts : i \in Int
    OBVIOUS
  <2>2. IsFiniteSet(I)
    BY LastPlace
  <2> HIDE DEF firsts, I
  <2> QED BY <1>5, <2>1, <2>2, FS_Subset
<1>7. Min(firsts) \in firsts
  <2> HIDE DEF firsts
  <2> QED BY <1>5, <1>6, MinIs
<1> DEFINE f == Min(firsts)
<1>8. f \in I /\ \A j \in I : ~(edges[j].p > edges[f].p)
  BY <1>7
<1> HIDE DEF f, firsts
<1>9. \A j \in I : edges[j].p <= edges[f].p
  <2> HIDE DEF I, p
  <2> QED BY <1>2, <1>8
<1> QED BY <1>1, <1>8, <1>9 DEF f

\* Runs of buckets of an event of n.
Spans(n) == {w \in (1 .. n) \X (1 .. n) : w[1] <= w[2]}

\* A step of the loop keeps the window inside the event.
LEMMA GrowStays ==
  ASSUME NEW edges, NEW n \in Nat, DOMAIN edges = 1 .. n, Len(edges) = n,
         \A i \in DOMAIN edges : Sound(edges[i]), None \notin Int, NEW w \in Spans(n)
  PROVE  GrowsTo(edges, w) \in Spans(n)
<1> DEFINE left == IF w[1] > 1 THEN edges[w[1] - 1].p ELSE None
           right == IF w[2] < n THEN edges[w[2] + 1].p ELSE None
           a == w[1]
           b == w[2]
<1>1. a \in 1 .. n /\ b \in 1 .. n /\ a <= b /\ w = <<a, b>>
  BY DEF Spans
<1>2. GrowsTo(edges, w) = IF MassOf(edges, w[1]..w[2]) >= 80 \/ w = <<1, n>> THEN w
                          ELSE IF right = None \/ (left # None /\ left >= right)
                          THEN <<a - 1, b>> ELSE <<a, b + 1>>
  BY Zenon DEF GrowsTo
<1>3. right = None => b = n
  <2>1. b < n => edges[b + 1].p \in Int
    BY <1>1 DEF Sound
  <2> QED BY <1>1, <2>1
<1>4. left # None => a > 1
  OBVIOUS
<1>5. right # None => b < n
  OBVIOUS
<1> HIDE DEF left, right, a, b
<1>6. CASE MassOf(edges, w[1]..w[2]) >= 80 \/ w = <<1, n>>
  BY <1>2, <1>6
<1>7. CASE ~(MassOf(edges, w[1]..w[2]) >= 80 \/ w = <<1, n>>) /\ (right = None \/ (left # None /\ left >= right))
  <2>1. GrowsTo(edges, w) = <<a - 1, b>>
    BY <1>2, <1>7
  <2>2. a > 1
    BY <1>1, <1>3, <1>4, <1>7
  <2>3. <<a - 1, b>> \in Spans(n)
    BY <1>1, <2>2 DEF Spans
  <2> QED BY <2>1, <2>3
<1>8. CASE ~(MassOf(edges, w[1]..w[2]) >= 80 \/ w = <<1, n>>) /\ ~(right = None \/ (left # None /\ left >= right))
  <2>1. GrowsTo(edges, w) = <<a, b + 1>> /\ b < n
    BY <1>2, <1>5, <1>8
  <2>2. <<a, b + 1>> \in Spans(n)
    BY <1>1, <2>1 DEF Spans
  <2> QED BY <2>1, <2>2
<1> QED BY <1>6, <1>7, <1>8

\* The window is what the loop keeps among, if it begins there.
LEMMA WindowIn ==
  ASSUME NEW edges, NEW n \in Nat, Len(edges) = n, NEW A,
         <<Peak(edges), Peak(edges)>> \in A, \A w \in A : GrowsTo(edges, w) \in A
  PROVE  \E w \in A : _coverage_window(edges) = w[1] .. w[2]
<1> DEFINE S == 1 .. n
           base == <<Peak(edges), Peak(edges)>>
           pick == [s \in SUBSET S |-> Max(s)]
           step == [x \in S |-> [w \in A |-> GrowsTo(edges, w)]]
           Right(g) == g = [s \in SUBSET S |-> WindowBody(edges, g, s)]
           run == CHOOSE g : Right(g)
<1>1. DOMAIN [i \in 1 .. Len(edges) |-> i] = S
  OBVIOUS
<1>2. _coverage_window(edges) = run[S][1] .. run[S][2]
  <2>1. WindowRun(edges, S) = run[S]
    BY Zenon DEF WindowRun
  <2> HIDE DEF S, run
  <2> QED BY <1>1, <2>1, FoldIsWindow
<1>3. IsFiniteSet(S) /\ \A s \in SUBSET S : s # {} => pick[s] \in s /\ pick[s] = Max(s)
  BY LastPlace
<1>4. base \in A
  OBVIOUS
<1>5. \A x \in S, w \in A : step[x][w] \in A /\ step[x][w] = GrowsTo(edges, w)
  <2> HIDE DEF S
  <2> QED OBVIOUS
<1> HIDE DEF S, base, pick, step
<1>6. PICK g : IsFold(g, S, A, base, pick, step)
  BY <1>3, <1>4, <1>5, FoldExists
<1>7. /\ g = [s \in SUBSET S |-> FoldBody(base, pick, step, g, s)]
      /\ \A s \in SUBSET S : g[s] \in A
  BY <1>6 DEF IsFold
<1>8. \A s \in SUBSET S : FoldBody(base, pick, step, g, s) = WindowBody(edges, g, s)
  <2> TAKE s \in SUBSET S
  <2>1. CASE s = {}
    BY <2>1 DEF FoldBody, WindowBody, base
  <2>2. CASE s # {}
    <3>1. g[s \ {pick[s]}] \in A /\ pick[s] \in S
      BY <1>3, <1>7, <2>2
    <3> QED BY <1>3, <1>5, <2>2, <3>1 DEF FoldBody, WindowBody
  <2> QED BY <2>1, <2>2
<1>9. Right(run)
  <2>1. Right(g)
    BY <1>7, <1>8
  <2> HIDE DEF Right
  <2> QED BY <2>1
<1> HIDE DEF run
<1>10. \A s \in SUBSET S : run[s] = WindowBody(edges, run, s)
  BY <1>9
<1>11. run[{}] \in A
  <2>1. {} \in SUBSET S
    OBVIOUS
  <2> QED BY <1>4, <1>10, <2>1 DEF WindowBody, base
<1>12. ASSUME NEW s \in SUBSET S, s # {}
       PROVE  pick[s] \in s /\ (run[s \ {pick[s]}] \in A => run[s] \in A)
  <2>1. run[s] = GrowsTo(edges, run[s \ {pick[s]}]) /\ pick[s] \in s /\ pick[s] \in S
    BY <1>3, <1>10, <1>12 DEF WindowBody
  <2> QED BY <1>5, <2>1
<1>13. run[S] \in A
  BY <1>3, <1>11, <1>12, FoldStays
<1> QED BY <1>2, <1>13

\* The window of the basket is a run of buckets of the event.
LEMMA WindowIs ==
  ASSUME NEW edges, NEW n \in Nat, DOMAIN edges = 1 .. n, Len(edges) = n, n # 0,
         \A i \in DOMAIN edges : Sound(edges[i]), None \notin Int
  PROVE  \E w \in Spans(n) : _coverage_window(edges) = w[1] .. w[2]
<1>1. <<Peak(edges), Peak(edges)>> \in Spans(n)
  BY PeakIs DEF Spans
<1>2. \A w \in Spans(n) : GrowsTo(edges, w) \in Spans(n)
  BY GrowStays
<1> QED BY <1>1, <1>2, WindowIn

\* What a bet is worth and what it costs, and the sums of both.
WorthOf(edges, ds, i) == IF ds[i].buy = "YES" THEN edges[i].p ELSE One - edges[i].p
PaysOf(edges, ds, i) == _entry_price(edges[i], ds[i].buy)
WorthSum(edges, ds, S) == MapThenSumSet(LAMBDA i : WorthOf(edges, ds, i), S)
PaysSum(edges, ds, S) == MapThenSumSet(LAMBDA i : PaysOf(edges, ds, i), S)
AskSum(edges, S) == Sum(edges, S, LAMBDA b : b.ask)
BidSum(edges, S) == Sum(edges, S, LAMBDA b : b.bid)

\* The mass of some buckets is the sum of their probabilities.
LEMMA MassIs ==
  ASSUME NEW edges, NEW S, NEW w, \A i \in S : w[i] = edges[i].p
  PROVE  MassOf(edges, S) = SumFunctionOnSet(w, S)
<1> DEFINE body(g, s) == IF s = {} THEN 0 ELSE edges[First(s)].p + g[s \ {First(s)}]
           Right(g) == g = [s \in SUBSET S |-> body(g, s)]
           Sums(g) == IsSum(g, w, S)
<1>1. MassOf(edges, S) = (CHOOSE g : Right(g))[S]
  BY Zenon DEF MassOf, Sum, MapThenSumSet, MapThenFoldSet, First
<1>2. ASSUME NEW g  PROVE Right(g) <=> Sums(g)
  <2>1. \A s \in SUBSET S : body(g, s) = SumBody(w, g, s)
    BY FirstIn DEF SumBody
  <2> HIDE DEF body
  <2> QED BY <2>1 DEF IsSum
<1>3. SumFunctionOnSet(w, S) = (CHOOSE g : Sums(g))[S]
  BY SumIs
<1> HIDE DEF Right, Sums
<1>4. (CHOOSE g : Right(g)) = (CHOOSE g : Sums(g))
  BY <1>2, Zenon
<1> QED BY <1>1, <1>3, <1>4

\* The asks of some buckets add up.
LEMMA AsksAre ==
  ASSUME NEW edges, NEW S, NEW w, \A i \in S : w[i] = edges[i].ask
  PROVE  AskSum(edges, S) = SumFunctionOnSet(w, S)
<1> DEFINE body(g, s) == IF s = {} THEN 0 ELSE edges[First(s)].ask + g[s \ {First(s)}]
           Right(g) == g = [s \in SUBSET S |-> body(g, s)]
           Sums(g) == IsSum(g, w, S)
<1>1. AskSum(edges, S) = (CHOOSE g : Right(g))[S]
  BY Zenon DEF AskSum, Sum, MapThenSumSet, MapThenFoldSet, First
<1>2. ASSUME NEW g  PROVE Right(g) <=> Sums(g)
  <2>1. \A s \in SUBSET S : body(g, s) = SumBody(w, g, s)
    BY FirstIn DEF SumBody
  <2> HIDE DEF body
  <2> QED BY <2>1 DEF IsSum
<1>3. SumFunctionOnSet(w, S) = (CHOOSE g : Sums(g))[S]
  BY SumIs
<1> HIDE DEF Right, Sums
<1>4. (CHOOSE g : Right(g)) = (CHOOSE g : Sums(g))
  BY <1>2, Zenon
<1> QED BY <1>1, <1>3, <1>4

\* The bids of some buckets add up.
LEMMA BidsAre ==
  ASSUME NEW edges, NEW S, NEW w, \A i \in S : w[i] = edges[i].bid
  PROVE  BidSum(edges, S) = SumFunctionOnSet(w, S)
<1> DEFINE body(g, s) == IF s = {} THEN 0 ELSE edges[First(s)].bid + g[s \ {First(s)}]
           Right(g) == g = [s \in SUBSET S |-> body(g, s)]
           Sums(g) == IsSum(g, w, S)
<1>1. BidSum(edges, S) = (CHOOSE g : Right(g))[S]
  BY Zenon DEF BidSum, Sum, MapThenSumSet, MapThenFoldSet, First
<1>2. ASSUME NEW g  PROVE Right(g) <=> Sums(g)
  <2>1. \A s \in SUBSET S : body(g, s) = SumBody(w, g, s)
    BY FirstIn DEF SumBody
  <2> HIDE DEF body
  <2> QED BY <2>1 DEF IsSum
<1>3. SumFunctionOnSet(w, S) = (CHOOSE g : Sums(g))[S]
  BY SumIs
<1> HIDE DEF Right, Sums
<1>4. (CHOOSE g : Right(g)) = (CHOOSE g : Sums(g))
  BY <1>2, Zenon
<1> QED BY <1>1, <1>3, <1>4

\* What some bets are worth adds up.
LEMMA WorthsAre ==
  ASSUME NEW edges, NEW ds, NEW S, NEW w, \A i \in S : w[i] = WorthOf(edges, ds, i)
  PROVE  WorthSum(edges, ds, S) = SumFunctionOnSet(w, S)
<1> DEFINE body(g, s) == IF s = {} THEN 0 ELSE WorthOf(edges, ds, First(s)) + g[s \ {First(s)}]
           Right(g) == g = [s \in SUBSET S |-> body(g, s)]
           Sums(g) == IsSum(g, w, S)
<1>1. WorthSum(edges, ds, S) = (CHOOSE g : Right(g))[S]
  BY Zenon DEF WorthSum, MapThenSumSet, MapThenFoldSet, First
<1>2. ASSUME NEW g  PROVE Right(g) <=> Sums(g)
  <2>1. \A s \in SUBSET S : body(g, s) = SumBody(w, g, s)
    BY FirstIn DEF SumBody
  <2> HIDE DEF body
  <2> QED BY <2>1 DEF IsSum
<1>3. SumFunctionOnSet(w, S) = (CHOOSE g : Sums(g))[S]
  BY SumIs
<1> HIDE DEF Right, Sums
<1>4. (CHOOSE g : Right(g)) = (CHOOSE g : Sums(g))
  BY <1>2, Zenon
<1> QED BY <1>1, <1>3, <1>4

\* What some bets cost adds up.
LEMMA PaysAre ==
  ASSUME NEW edges, NEW ds, NEW S, NEW w, \A i \in S : w[i] = PaysOf(edges, ds, i)
  PROVE  PaysSum(edges, ds, S) = SumFunctionOnSet(w, S)
<1> DEFINE body(g, s) == IF s = {} THEN 0 ELSE PaysOf(edges, ds, First(s)) + g[s \ {First(s)}]
           Right(g) == g = [s \in SUBSET S |-> body(g, s)]
           Sums(g) == IsSum(g, w, S)
<1>1. PaysSum(edges, ds, S) = (CHOOSE g : Right(g))[S]
  BY Zenon DEF PaysSum, MapThenSumSet, MapThenFoldSet, First
<1>2. ASSUME NEW g  PROVE Right(g) <=> Sums(g)
  <2>1. \A s \in SUBSET S : body(g, s) = SumBody(w, g, s)
    BY FirstIn DEF SumBody
  <2> HIDE DEF body
  <2> QED BY <2>1 DEF IsSum
<1>3. SumFunctionOnSet(w, S) = (CHOOSE g : Sums(g))[S]
  BY SumIs
<1> HIDE DEF Right, Sums
<1>4. (CHOOSE g : Right(g)) = (CHOOSE g : Sums(g))
  BY <1>2, Zenon
<1> QED BY <1>1, <1>3, <1>4

\* OnlyFavourable in these terms.
LEMMA FavourableIs ==
  ASSUME NEW strategy, NEW edges, NEW ds, NEW bought,
         Len(ds) = Len(edges),
         \A i \in bought : edges[i].liquidity # None /\ edges[i].liquidity >= 25,
         strategy \notin {"coverage_band", "book_arb"} =>
            \A i \in bought : WorthOf(edges, ds, i) > PaysOf(edges, ds, i),
         strategy = "coverage_band" => WorthSum(edges, ds, bought) >= PaysSum(edges, ds, bought),
         strategy = "book_arb" /\ bought # {} =>
            WholeBook(edges, ds, bought, PaysSum(edges, ds, bought)),
         strategy \in {"argmax_yes", "argmax_no", "max_edge", "max_roi"} => Cardinality(bought) <= 1,
         strategy \in {"topk_yes", "topk_no"} => Cardinality(bought) <= 3,
         strategy = "max_edge" =>
            \A i \in bought, j \in DOMAIN edges, side \in {"YES", "NO"} :
               EdgeOn(edges[j], side) # None => EdgeOn(edges[j], side) <= ds[i].edge
  PROVE  Favourable(strategy, edges, ds, bought)
BY Zenon DEF Favourable, WorthOf, PaysOf, WorthSum, PaysSum, MapThenSumSet, MapThenFoldSet

\* What adds up to a hundred each adds up to a hundred times as many.
LEMMA HundredEach ==
  ASSUME NEW S, IsFiniteSet(S), NEW u, NEW v,
         \A x \in S : u[x] \in Int /\ v[x] \in Int /\ u[x] + v[x] = 100
  PROVE  SumFunctionOnSet(u, S) + SumFunctionOnSet(v, S) = 100 * Cardinality(S)
<1> DEFINE F == {s \in SUBSET S : SumFunctionOnSet(u, s) + SumFunctionOnSet(v, s) = 100 * Cardinality(s)}
<1>1. {} \in F
  BY SumEmpty, FS_EmptySet
<1>2. ASSUME NEW s \in SUBSET S, s # {}, \A x \in s : s \ {x} \in F
      PROVE  s \in F
  <2>1. PICK y \in s : TRUE
    BY <1>2
  <2>2. IsFiniteSet(s) /\ IsFiniteSet(s \ {y}) /\ Cardinality(s) \in Nat
        /\ Cardinality(s \ {y}) = Cardinality(s) - 1
    BY <2>1, FS_Subset, FS_CardinalityType, FS_RemoveElement
  <2>3. /\ SumFunctionOnSet(u, s) = u[y] + SumFunctionOnSet(u, s \ {y})
        /\ SumFunctionOnSet(v, s) = v[y] + SumFunctionOnSet(v, s \ {y})
    BY <2>1, <2>2, SumSplit
  <2>4. SumFunctionOnSet(u, s \ {y}) \in Int /\ SumFunctionOnSet(v, s \ {y}) \in Int
    BY <2>2, SumType
  <2>5. SumFunctionOnSet(u, s \ {y}) + SumFunctionOnSet(v, s \ {y}) = 100 * Cardinality(s \ {y})
    BY <1>2, <2>1
  <2>6. u[y] \in Int /\ v[y] \in Int /\ u[y] + v[y] = 100
    BY <2>1
  <2> QED BY <2>2, <2>3, <2>4, <2>5, <2>6
<1> HIDE DEF F
<1>3. S \in F
  BY <1>1, <1>2, SetInduction
<1> QED BY <1>3 DEF F

\* The basket around the peak is worth more than its asks.
LEMMA BandIsFavourable ==
  ASSUME NEW edges, NEW n \in Nat, DOMAIN edges = 1 .. n, Len(edges) = n,
         \A i \in DOMAIN edges : Sound(edges[i]), None \notin Int
  PROVE  LET ds == coverage_band(edges)
             bought == Bought(ds)
         IN  /\ \A i \in bought : edges[i].liquidity # None /\ edges[i].liquidity >= 25
             /\ WorthSum(edges, ds, bought) >= PaysSum(edges, ds, bought)
<1> DEFINE ds == coverage_band(edges)
           bought == Bought(ds)
           window == _coverage_window(edges)
           trades == /\ \A i \in window : edges[i].ask # None
                     /\ BasketEdge(edges, window) > 5
                     /\ \A i \in window : edges[i].liquidity # None /\ edges[i].liquidity >= 25
           bet(i) == Decision("YES", calculate_yes_edge(edges[i]), <<5, 1>>, None)
           worth == [i \in bought |-> WorthOf(edges, ds, i)]
           pays == [i \in bought |-> PaysOf(edges, ds, i)]
<1>1. ds = [i \in DOMAIN edges |-> If(trades /\ i \in window, bet(i))]
  BY Zenon DEF coverage_band
<1>2. Skip.buy = "none" /\ \A i : bet(i).buy = "YES"
  BY DEF Skip, Decision
<1>3. /\ WorthSum(edges, ds, bought) = SumFunctionOnSet(worth, bought)
      /\ PaysSum(edges, ds, bought) = SumFunctionOnSet(pays, bought)
  BY WorthsAre, PaysAre
<1> HIDE DEF ds, window, bet
<1>4. CASE bought = {}
  <2>1. WorthSum(edges, ds, bought) = 0 /\ PaysSum(edges, ds, bought) = 0
    <3> HIDE DEF bought
    <3> QED BY <1>3, <1>4, SumEmpty
  <2>2. WorthSum(edges, ds, bought) >= PaysSum(edges, ds, bought)
    BY <2>1
  <2> QED BY <1>4, <2>2 DEF ds
<1>5. CASE bought # {}
  <2>1. trades /\ bought = DOMAIN edges \cap window /\ \A i \in bought : ds[i].buy = "YES"
    <3> HIDE DEF trades
    <3> QED BY <1>1, <1>2, <1>5 DEF Bought, If
  <2>2. n # 0
    BY <1>5, <2>1
  <2>3. window \in SUBSET (1 .. n)
    <3>1. PICK w \in Spans(n) : window = w[1] .. w[2]
      BY <2>2, WindowIs DEF window
    <3> QED BY <3>1 DEF Spans
  <2>4. bought = window
    BY <2>1, <2>3
  <2>5. IsFiniteSet(bought)
    BY <2>3, <2>4, LastPlace, FS_Subset
  <2>6. \A i \in bought : /\ worth[i] = edges[i].p /\ worth[i] \in Int
                          /\ pays[i] = edges[i].ask /\ pays[i] \in Int
    BY <2>1 DEF Sound, WorthOf, PaysOf, _entry_price
  <2> HIDE DEF worth, pays, bought
  <2>7. MassOf(edges, bought) = SumFunctionOnSet(worth, bought)
    BY <2>6, MassIs
  <2>8. AskSum(edges, bought) = SumFunctionOnSet(pays, bought)
    BY <2>6, AsksAre
  <2>9. SumFunctionOnSet(worth, bought) \in Int /\ SumFunctionOnSet(pays, bought) \in Int
    BY <2>5, <2>6, SumType
  <2>10. BasketEdge(edges, bought) = MassOf(edges, bought) - AskSum(edges, bought)
    BY Zenon DEF BasketEdge, AskSum
  <2>11. BasketEdge(edges, bought) > 5
    BY <2>1, <2>4
  <2>12. WorthSum(edges, ds, bought) >= PaysSum(edges, ds, bought)
    BY <1>3, <2>7, <2>8, <2>9, <2>10, <2>11
  <2>13. \A i \in bought : edges[i].liquidity # None /\ edges[i].liquidity >= 25
    BY <2>1, <2>4
  <2> QED BY <2>12, <2>13 DEF bought, ds
<1> QED BY <1>4, <1>5 DEF ds

\* A book is bought whole, on one side, for less than that side must pay.
LEMMA BookIsFavourable ==
  ASSUME NEW edges, NEW n \in Nat, DOMAIN edges = 1 .. n, Len(edges) = n,
         \A i \in DOMAIN edges : Sound(edges[i]), None \notin Int
  PROVE  LET ds == book_arb(edges)
             bought == Bought(ds)
         IN  /\ \A i \in bought : edges[i].liquidity # None /\ edges[i].liquidity >= 25
             /\ bought # {} => WholeBook(edges, ds, bought, PaysSum(edges, ds, bought))
<1> DEFINE S == 1 .. n
           ds == book_arb(edges)
           bought == Bought(ds)
           yes == _yes_book_profit_pp(edges)
           no == _no_book_profit_pp(edges)
           side == IF no = None \/ (yes # None /\ yes >= no) THEN "YES" ELSE "NO"
           profit == IF side = "YES" THEN yes ELSE no
           cost == CostOf(edges, side)
           liquid == \A i \in DOMAIN edges : edges[i].liquidity # None /\ edges[i].liquidity >= 25
           stake(b) == <<20 * _entry_price(b, side), cost>>
           skips == [i \in DOMAIN edges |-> Skip]
           buys == [i \in DOMAIN edges |-> Decision(side, EdgeOn(edges[i], side), stake(edges[i]), None)]
           pays == [i \in S |-> PaysOf(edges, ds, i)]
           bids == [i \in S |-> edges[i].bid]
<1>1. ds = IF Len(edges) < 2 \/ profit = None THEN skips
           ELSE IF profit <= 2 \/ ~liquid \/ cost <= 0 THEN skips ELSE buys
  BY Zenon DEF book_arb, EachBucket, CostOf
<1>2. CASE ds = skips
  <2>1. bought = {}
    BY <1>2 DEF Bought, Skip, Decision
  <2> QED BY <2>1
<1>3. CASE ds # skips
  <2>1. ds = buys /\ profit # None /\ ~(profit <= 2) /\ liquid /\ n >= 2
    <3> HIDE DEF ds, skips, buys, profit, liquid, cost
    <3> QED BY <1>1, <1>3
  <2>2. side \in {"YES", "NO"}
    OBVIOUS
  <2> HIDE DEF ds
  <2>3. \A i \in S : ds[i].buy = side
    BY <2>1 DEF Decision
  <2>4. bought = S
    <3>1. DOMAIN ds = S
      BY <2>1
    <3> HIDE DEF side, S
    <3> QED BY <2>2, <2>3, <3>1 DEF Bought
  <2>5. \A i \in S : pays[i] = _entry_price(edges[i], side)
    <3> HIDE DEF side
    <3> QED BY <2>3 DEF PaysOf
  <2>6. PaysSum(edges, ds, S) = SumFunctionOnSet(pays, S)
    BY PaysAre
  <2>7. IsFiniteSet(S) /\ Cardinality(S) = n
    BY LastPlace, FS_Interval
  <2>8. CASE side = "YES"
    <3>1. /\ \A i \in S : edges[i].ask # None
          /\ yes = One - AskSum(edges, DOMAIN edges)
      <4>1. yes = IF \E i \in DOMAIN edges : edges[i].ask = None THEN None
                  ELSE One - AskSum(edges, DOMAIN edges)
        BY Zenon DEF _yes_book_profit_pp, AskSum
      <4> QED BY <2>1, <2>8, <4>1
    <3>2. \A i \in S : pays[i] = edges[i].ask /\ pays[i] \in Int
      BY <2>5, <2>8, <3>1 DEF _entry_price, Sound
    <3> HIDE DEF pays
    <3>3. AskSum(edges, S) = SumFunctionOnSet(pays, S)
      BY <3>2, AsksAre
    <3>4. SumFunctionOnSet(pays, S) \in Int
      BY <2>7, <3>2, SumType
    <3>5. PaysSum(edges, ds, S) < One
      <4>1. profit = One - SumFunctionOnSet(pays, S)
        BY <2>8, <3>1, <3>3
      <4>2. ~(profit <= 2)
        BY <2>1
      <4> HIDE DEF profit
      <4>3. SumFunctionOnSet(pays, S) < One
        BY <3>4, <4>1, <4>2 DEF One
      <4> QED BY <2>6, <4>3, Zenon
    <3>6. WholeBook(edges, ds, bought, PaysSum(edges, ds, bought))
      <4>1. \A i \in bought : ds[i].buy = "YES"
        BY <2>3, <2>4, <2>8
      <4> HIDE DEF bought
      <4> QED BY <2>4, <3>5, <4>1 DEF WholeBook
    <3> QED BY <2>1, <2>4, <3>6 DEF ds
  <2>9. CASE side = "NO"
    <3>1. /\ \A i \in S : edges[i].bid # None
          /\ no = BidSum(edges, DOMAIN edges) - One
      <4>1. no = IF \E i \in DOMAIN edges : edges[i].bid = None THEN None
                 ELSE BidSum(edges, DOMAIN edges) - One
        BY Zenon DEF _no_book_profit_pp, BidSum
      <4> QED BY <2>1, <2>9, <4>1
    <3>2. \A i \in S : /\ bids[i] = edges[i].bid /\ bids[i] \in Int
                       /\ pays[i] = 100 - edges[i].bid /\ pays[i] \in Int
      BY <2>5, <2>9, <3>1 DEF _entry_price, Sound, One
    <3> HIDE DEF pays, bids
    <3>3. BidSum(edges, S) = SumFunctionOnSet(bids, S)
      BY <3>2, BidsAre
    <3>4. SumFunctionOnSet(pays, S) \in Int /\ SumFunctionOnSet(bids, S) \in Int
      BY <2>7, <3>2, SumType
    <3>5. SumFunctionOnSet(pays, S) + SumFunctionOnSet(bids, S) = 100 * n
      <4>1. \A i \in S : pays[i] \in Int /\ bids[i] \in Int /\ pays[i] + bids[i] = 100
        BY <3>2
      <4> HIDE DEF S
      <4> QED BY <2>7, <4>1, HundredEach
    <3>6. PaysSum(edges, ds, S) < (Len(edges) - 1) * One
      <4>1. profit = SumFunctionOnSet(bids, S) - One
        BY <2>9, <3>1, <3>3
      <4>2. ~(profit <= 2)
        BY <2>1
      <4> HIDE DEF profit
      <4>3. SumFunctionOnSet(pays, S) < (n - 1) * One
        BY <3>4, <3>5, <4>1, <4>2 DEF One
      <4> QED BY <2>6, <4>3, Zenon
    <3>7. WholeBook(edges, ds, bought, PaysSum(edges, ds, bought))
      <4>1. \A i \in bought : ds[i].buy = "NO"
        BY <2>3, <2>4, <2>9
      <4>2. 1 \in bought
        <5>1. n >= 2
          <6> HIDE DEF profit, liquid, buys
          <6> QED BY <2>1
        <5>2. 1 \in S
          BY <5>1
        <5> HIDE DEF S, bought
        <5> QED BY <2>4, <5>2
      <4> HIDE DEF bought
      <4> QED BY <2>4, <3>6, <4>1, <4>2 DEF WholeBook
    <3> QED BY <2>1, <2>4, <3>7 DEF ds
  <2> HIDE DEF side
  <2> QED BY <2>2, <2>8, <2>9
<1> QED BY <1>2, <1>3

\* A good bet is worth more than it costs.
LEMMA GoodBetPays ==
  ASSUME NEW edges, NEW ds, NEW i, Sound(edges[i]), GoodBet(edges[i], ds[i])
  PROVE  WorthOf(edges, ds, i) > PaysOf(edges, ds, i)
<1>1. CASE ds[i].buy = "YES" /\ edges[i].ask # None
  BY <1>1 DEF GoodBet, Sound, WorthOf, PaysOf, EdgeOn, calculate_yes_edge, _entry_price
<1>2. CASE ds[i].buy = "NO" /\ edges[i].bid # None
  BY <1>2 DEF GoodBet, Sound, WorthOf, PaysOf, EdgeOn, calculate_no_edge, _entry_price, One
<1> QED BY <1>1, <1>2 DEF GoodBet

(* Whatever the model thinks and the market asks, a strategy only buys what *)
(* the model thinks is worth more than it costs, leg by leg or for a basket *)
(* over the basket, and a book without a model only whole and for less than *)
(* it must pay; a strategy for one bet makes one, and max_edge the best one *)
(* there is: for every event of any number of buckets.                      *)
THEOREM OnlyFavourableIsBought ==
  ASSUME NEW edges, NEW n \in Nat, DOMAIN edges = 1 .. n, Len(edges) = n,
         \A i \in DOMAIN edges : Sound(edges[i]) /\ Liquid(edges[i]), None \notin Int,
         NEW strategy \in StrategyNames
  PROVE  OnlyFavourable(strategy, edges)
<1> DEFINE ds == Decide(strategy, edges)
           bought == Bought(ds)
           baskets == {"coverage_band", "book_arb"}
           singles == {"argmax_yes", "argmax_no", "max_edge", "max_roi"}
           threes == {"topk_yes", "topk_no"}
<1>1. ds = [i \in 1 .. n |-> ds[i]]
  BY StrategiesDecide, Zenon DEF AllDecided
<1> HIDE DEF ds
<1>2. Len(ds) = Len(edges)
  <2>1. ds \in [1 .. n -> {ds[i] : i \in 1 .. n}]
    BY <1>1
  <2> QED BY <2>1, IsASeq
<1>3. DOMAIN ds = 1 .. n /\ bought \in SUBSET (1 .. n)
  BY <1>1 DEF Bought
<1>4. strategy \notin baskets => AllGood(edges, ds)
  <2>1. strategy \in singles \cup threes => AllGood(edges, ds)
    BY OneBetFavours DEF ds
  <2>2. strategy \notin singles \cup threes \cup baskets => AllGood(edges, ds)
    BY EachBetFavours DEF ds, Decide, StrategyNames
  <2> QED BY <2>1, <2>2
<1>5. strategy \notin baskets => \A i \in bought : GoodBet(edges[i], ds[i])
  BY <1>4 DEF AllGood, SkipOrGood, Bought
<1>6. strategy \notin baskets => \A i \in bought : WorthOf(edges, ds, i) > PaysOf(edges, ds, i)
  BY <1>3, <1>5, GoodBetPays
<1>7. strategy = "coverage_band" => ds = coverage_band(edges)
  BY DEF ds, Decide
<1>8. strategy = "book_arb" => ds = book_arb(edges)
  BY DEF ds, Decide
<1>9. strategy = "max_edge" => ds = max_edge(edges)
  BY DEF ds, Decide
<1>10. \A i \in bought : edges[i].liquidity # None /\ edges[i].liquidity >= 25
  <2>1. CASE strategy \notin baskets
    BY <1>5, <2>1 DEF GoodBet
  <2>2. CASE strategy = "coverage_band"
    BY <1>7, <2>2, BandIsFavourable
  <2>3. CASE strategy = "book_arb"
    BY <1>8, <2>3, BookIsFavourable
  <2> QED BY <2>1, <2>2, <2>3
<1>11. strategy = "coverage_band" => WorthSum(edges, ds, bought) >= PaysSum(edges, ds, bought)
  BY <1>7, BandIsFavourable
<1>12. strategy = "book_arb" /\ bought # {} => WholeBook(edges, ds, bought, PaysSum(edges, ds, bought))
  BY <1>8, BookIsFavourable
<1>13. strategy \in singles => Cardinality(bought) <= 1
  <2>1. ASSUME strategy \in singles  PROVE \E i : bought \subseteq {i}
    BY <2>1, OneBetFavours DEF ds
  <2>2. \A i : IsFiniteSet({i}) /\ Cardinality({i}) = 1
    BY FS_Singleton
  <2>3. ASSUME strategy \in singles  PROVE Cardinality(bought) <= 1
    <3>1. PICK i : bought \subseteq {i}
      BY <2>1, <2>3
    <3> HIDE DEF bought
    <3>2. Cardinality(bought) <= Cardinality({i})
      BY <2>2, <3>1, FS_Subset
    <3> QED BY <2>2, <3>2
  <2> QED BY <2>3
<1>14. strategy \in threes => Cardinality(bought) <= 3
  BY OneBetFavours DEF ds
<1>15. strategy = "max_edge" =>
          \A i \in bought, j \in DOMAIN edges, side \in {"YES", "NO"} :
             EdgeOn(edges[j], side) # None => EdgeOn(edges[j], side) <= ds[i].edge
  BY <1>9, MaxEdgeIsBest
<1> HIDE DEF bought
<1>16. Favourable(strategy, edges, ds, bought)
  BY <1>2, <1>6, <1>10, <1>11, <1>12, <1>13, <1>14, <1>15, FavourableIs
<1> QED BY <1>16 DEF OnlyFavourable, OnlyFavourableIn, bought, ds

-----------------------------------------------------------------------------
(* A live order.                                                           *)

\* Levels of a book: a price and a size, no cheaper than the best and within a cap.
Levels(best, cap) == {l \in Positive \X Nat : best <= l[1] /\ l[1] <= cap}

\* The asks up to a cap, as the recursion the fold stands for.
KeepBody(asks, cap, g, s) ==
    IF s = {} THEN <<>>
    ELSE LET l == asks[Max(s)]
             w == g[s \ {Max(s)}]
         IN  IF l[1] <= cap THEN Append(w, l) ELSE w
KeepRun(asks, cap) ==
    (CHOOSE g : g = [s \in SUBSET DOMAIN asks |-> KeepBody(asks, cap, g, s)])[DOMAIN asks]
CapOf(best, slippage, max_price) ==
    IF best + slippage < max_price THEN best + slippage ELSE max_price

\* An order is sized in the asks up to the cap.
LEMMA SizeIs ==
  ASSUME NEW asks, asks # <<>>, NEW stake, NEW slippage, NEW min_depth, NEW max_price
  PROVE  size_buy(asks, stake, slippage, min_depth, max_price) =
            BuyIn(KeepRun(asks, CapOf(asks[1][1], slippage, max_price)), stake, min_depth)
BY Zenon DEF size_buy, FoldLeft, MapThenFoldSet, KeepRun, KeepBody, CapOf

\* The asks up to a cap are levels within it.
LEMMA KeepIs ==
  ASSUME NEW best \in Int, NEW cap \in Int, NEW asks \in Seq(Positive \X Nat),
         \A i \in DOMAIN asks : best <= asks[i][1]
  PROVE  KeepRun(asks, cap) \in Seq(Levels(best, cap))
<1> DEFINE S == 1 .. Len(asks)
           A == Seq(Levels(best, cap))
           base == <<>>
           pick == [s \in SUBSET S |-> Max(s)]
           step == [x \in S |-> [w \in A |-> IF asks[x][1] <= cap THEN Append(w, asks[x]) ELSE w]]
           Right(g) == g = [s \in SUBSET S |-> KeepBody(asks, cap, g, s)]
           run == CHOOSE g : Right(g)
<1>1. DOMAIN asks = S /\ Len(asks) \in Nat
  OBVIOUS
<1>2. KeepRun(asks, cap) = run[S]
  <2> HIDE DEF S
  <2> QED BY <1>1, Zenon DEF KeepRun
<1>3. IsFiniteSet(S) /\ \A s \in SUBSET S : s # {} => pick[s] \in s /\ pick[s] = Max(s)
  BY <1>1, LastPlace
<1>4. base \in A
  OBVIOUS
<1>5. \A x \in S, w \in A :
         /\ step[x][w] = IF asks[x][1] <= cap THEN Append(w, asks[x]) ELSE w
         /\ step[x][w] \in A
  <2> TAKE x \in S, w \in A
  <2>1. asks[x] \in Positive \X Nat /\ best <= asks[x][1]
    OBVIOUS
  <2>2. asks[x][1] <= cap => asks[x] \in Levels(best, cap)
    BY <2>1 DEF Levels
  <2>3. asks[x][1] <= cap => Append(w, asks[x]) \in A
    <3> HIDE DEF S
    <3> QED BY <2>2
  <2>4. step[x][w] = IF asks[x][1] <= cap THEN Append(w, asks[x]) ELSE w
    <3> HIDE DEF S, A
    <3> QED OBVIOUS
  <2> QED BY <2>3, <2>4
<1> HIDE DEF S, A, base, pick, step
<1>6. PICK g : IsFold(g, S, A, base, pick, step)
  BY <1>3, <1>4, <1>5, FoldExists
<1>7. /\ g = [s \in SUBSET S |-> FoldBody(base, pick, step, g, s)]
      /\ \A s \in SUBSET S : g[s] \in A
  BY <1>6 DEF IsFold
<1>8. \A s \in SUBSET S : FoldBody(base, pick, step, g, s) = KeepBody(asks, cap, g, s)
  <2> TAKE s \in SUBSET S
  <2>1. CASE s = {}
    BY <2>1 DEF FoldBody, KeepBody, base
  <2>2. CASE s # {}
    <3>1. g[s \ {pick[s]}] \in A /\ pick[s] \in S
      BY <1>3, <1>7, <2>2
    <3> QED BY <1>3, <1>5, <2>2, <3>1 DEF FoldBody, KeepBody
  <2> QED BY <2>1, <2>2
<1>9. Right(run)
  <2>1. Right(g)
    BY <1>7, <1>8
  <2> HIDE DEF Right
  <2> QED BY <2>1
<1> HIDE DEF run
<1>10. \A s \in SUBSET S : run[s] = KeepBody(asks, cap, run, s)
  BY <1>9
<1>11. run[{}] \in A
  <2>1. {} \in SUBSET S
    OBVIOUS
  <2> QED BY <1>4, <1>10, <2>1 DEF KeepBody, base
<1>12. ASSUME NEW s \in SUBSET S, s # {}
       PROVE  pick[s] \in s /\ (run[s \ {pick[s]}] \in A => run[s] \in A)
  <2>1. /\ run[s] = IF asks[pick[s]][1] <= cap THEN Append(run[s \ {pick[s]}], asks[pick[s]])
                    ELSE run[s \ {pick[s]}]
        /\ pick[s] \in s /\ pick[s] \in S
    BY <1>3, <1>10, <1>12 DEF KeepBody
  <2>2. ASSUME run[s \ {pick[s]}] \in A  PROVE run[s] \in A
    <3>1. step[pick[s]][run[s \ {pick[s]}]] = run[s]
      BY <1>5, <2>1, <2>2
    <3> QED BY <1>5, <2>1, <2>2, <3>1
  <2> QED BY <2>1, <2>2
<1>13. run[S] \in A
  BY <1>3, <1>11, <1>12, FoldStays
<1> QED BY <1>2, <1>13 DEF A

\* What a walk through a book adds up.
TakingType == [shares : Nat, cost : Nat, limit : Int, levels : Nat, done : BOOLEAN]

\* What may have been taken of a book so far.
Takings(stake, best, cap) ==
    {t \in TakingType :
        /\ t.cost <= stake
        /\ t.shares * best <= 100 * t.cost
        /\ t.shares > 0 => t.limit <= cap}

\* Products keep an order.
LEMMA ProductsKeepOrder ==
  ASSUME NEW a \in Int, NEW b \in Int, NEW c \in Nat, a <= b
  PROVE  c * a <= c * b /\ c * a \in Int /\ c * b \in Int
<1> DEFINE d == b - a
<1>1. d \in Nat /\ b = a + d
  OBVIOUS
<1> HIDE DEF d
<1>2. c * b = c * a + c * d /\ c * d \in Nat /\ c * a \in Int
  BY <1>1
<1> QED BY <1>2

\* What is left of a stake buys no more shares than it pays for.
LEMMA QuotientIs ==
  ASSUME NEW left \in Nat, NEW price \in Positive
  PROVE  LET q == (100 * left) \div price IN q \in Nat /\ q * price <= 100 * left
<1> DEFINE q == (100 * left) \div price
           m == 100 * left
<1>0. m \in Nat
  OBVIOUS
<1> HIDE DEF m
<1>1. m \div price \in Int /\ m % price \in 0 .. (price - 1) /\ m = price * (m \div price) + (m % price)
  BY <1>0 DEF Positive
<1>2. m \div price >= 0
  BY <1>0 DEF Positive
<1>3. (m \div price) * price = price * (m \div price)
  BY <1>1 DEF Positive
<1> QED BY <1>1, <1>2, <1>3 DEF m, Positive

\* A level more stays within the stake.
LEMMA TakeStays ==
  ASSUME NEW best \in Nat, NEW cap \in Int, NEW stake \in Nat, NEW t \in Takings(stake, best, cap),
         NEW l \in Levels(best, cap)
  PROVE  Take(t, l, stake) \in Takings(stake, best, cap)
<1> DEFINE left == stake - t.cost
           price == l[1]
           size == l[2]
           q == (100 * left) \div price
           all == t.shares + 100 * size
           paid == t.cost + price * size
           some == t.shares + q
           next == t.levels + 1
           full == [t EXCEPT !.shares = all, !.cost = paid, !.limit = price, !.levels = next]
           part == [t EXCEPT !.shares = some, !.cost = stake, !.limit = price, !.levels = next, !.done = TRUE]
           over == [t EXCEPT !.done = TRUE]
<1>1. /\ t \in TakingType
      /\ t.shares \in Nat /\ t.cost \in Nat /\ t.cost <= stake /\ t.shares * best <= 100 * t.cost
      /\ t.levels \in Nat /\ t.done \in BOOLEAN
      /\ t.shares > 0 => t.limit <= cap
  BY DEF Takings, TakingType
<1>2. price \in Positive /\ price \in Int /\ price \in Nat /\ price > 0 /\ size \in Nat /\ best <= price /\ price <= cap
  BY DEF Levels, Positive
<1>3. left \in Nat
  BY <1>1
<1>4. Take(t, l, stake) = IF left <= 0 \/ t.done THEN over
                          ELSE IF price * size <= left THEN full ELSE part
  BY Zenon DEF Take
<1> HIDE DEF price, size
<1>5. over \in Takings(stake, best, cap)
  BY <1>1 DEF Takings, TakingType
<1>6. ASSUME price * size <= left  PROVE full \in Takings(stake, best, cap)
  <2>1. size * best <= size * price /\ size * price = price * size /\ price * size \in Nat
    BY <1>2, ProductsKeepOrder
  <2>2. (t.shares + 100 * size) * best = t.shares * best + 100 * (size * best)
        /\ t.shares * best \in Nat /\ size * best \in Nat
    BY <1>1, <1>2
  <2>3. (t.shares + 100 * size) * best <= 100 * (t.cost + price * size)
    BY <1>1, <2>1, <2>2
  <2>4. t.cost + price * size <= stake /\ t.cost + price * size \in Nat
    BY <1>1, <1>6, <2>1
  <2>5. paid \in Nat /\ paid <= stake /\ all \in Nat /\ all * best <= 100 * paid /\ next \in Nat
    BY <1>1, <1>2, <2>3, <2>4
  <2> HIDE DEF paid, all, next
  <2>6. /\ full.shares = all /\ full.cost = paid /\ full.limit = price
        /\ full \in TakingType
    <3>1. t \in TakingType /\ price \in Int /\ all \in Nat /\ paid \in Nat /\ next \in Nat
      BY <1>1, <1>2, <2>5
    <3> HIDE DEF left, q, some, over, part
    <3>2. full.shares = all
      BY <3>1 DEF TakingType
    <3>3. full.cost = paid
      BY <3>1 DEF TakingType
    <3>4. full.limit = price
      BY <3>1 DEF TakingType
    <3>5. full \in TakingType
      BY <3>1 DEF TakingType
    <3> QED BY <3>2, <3>3, <3>4, <3>5
  <2> HIDE DEF full
  <2> QED BY <1>2, <2>5, <2>6 DEF Takings
<1>7. part \in Takings(stake, best, cap)
  <2>1. q \in Nat /\ q * price <= 100 * left
    BY <1>2, <1>3, QuotientIs
  <2> HIDE DEF q
  <2>2. q * best <= q * price /\ q * best \in Int /\ q * price \in Int
    BY <1>2, <2>1, ProductsKeepOrder
  <2>3. (t.shares + q) * best = t.shares * best + q * best /\ t.shares * best \in Int
    BY <1>1, <2>1
  <2>4. (t.shares + q) * best <= 100 * stake
    BY <1>1, <2>1, <2>2, <2>3
  <2>5. some \in Nat /\ some * best <= 100 * stake /\ next \in Nat
    BY <1>1, <2>1, <2>4
  <2> HIDE DEF some, next
  <2>6. /\ part.shares = some /\ part.cost = stake /\ part.limit = price
        /\ part \in TakingType
    <3>1. t \in TakingType /\ price \in Int /\ some \in Nat /\ stake \in Nat /\ next \in Nat
      BY <1>1, <1>2, <2>5
    <3> HIDE DEF left, all, paid, over, full
    <3>2. part.shares = some
      BY <3>1 DEF TakingType
    <3>3. part.cost = stake
      BY <3>1 DEF TakingType
    <3>4. part.limit = price
      BY <3>1 DEF TakingType
    <3>5. part \in TakingType
      BY <3>1 DEF TakingType
    <3> QED BY <3>2, <3>3, <3>4, <3>5
  <2> HIDE DEF part
  <2> QED BY <1>2, <2>5, <2>6 DEF Takings
<1> HIDE DEF over, full, part
<1> QED BY <1>4, <1>5, <1>6, <1>7

\* The walk through the asks, as the recursion the fold stands for.
NothingTaken == [shares |-> 0, cost |-> 0, limit |-> 0, levels |-> 0, done |-> FALSE]
WalkBody(window, stake, g, s) ==
    IF s = {} THEN NothingTaken ELSE Take(g[s \ {Max(s)}], window[Max(s)], stake)

\* The fold, as that recursion.
LEMMA FoldIsWalk ==
  ASSUME NEW window, NEW stake
  PROVE  Walk(window, stake) =
            (CHOOSE g : g = [s \in SUBSET DOMAIN window |-> WalkBody(window, stake, g, s)])[DOMAIN window]
BY Zenon DEF Walk, FoldLeft, MapThenFoldSet, WalkBody, NothingTaken

\* The walk stays within the stake.
LEMMA WalkIs ==
  ASSUME NEW best \in Nat, NEW cap \in Int, NEW stake \in Nat, NEW window \in Seq(Levels(best, cap))
  PROVE  Walk(window, stake) \in Takings(stake, best, cap)
<1> DEFINE S == 1 .. Len(window)
           A == Takings(stake, best, cap)
           base == NothingTaken
           pick == [s \in SUBSET S |-> Max(s)]
           step == [x \in S |-> [t \in A |-> Take(t, window[x], stake)]]
           Right(g) == g = [s \in SUBSET S |-> WalkBody(window, stake, g, s)]
           run == CHOOSE g : Right(g)
<1>1. DOMAIN window = S /\ Len(window) \in Nat
  OBVIOUS
<1>2. Walk(window, stake) = run[S]
  <2> HIDE DEF S
  <2> QED BY <1>1, FoldIsWalk, Zenon
<1>3. IsFiniteSet(S) /\ \A s \in SUBSET S : s # {} => pick[s] \in s /\ pick[s] = Max(s)
  BY <1>1, LastPlace
<1>4. base \in A
  BY DEF Takings, TakingType, NothingTaken
<1>5. \A x \in S, t \in A : step[x][t] = Take(t, window[x], stake) /\ step[x][t] \in A
  <2>1. \A x \in S : window[x] \in Levels(best, cap)
    <3> HIDE DEF A
    <3> QED OBVIOUS
  <2>2. \A x \in S, t \in A : Take(t, window[x], stake) \in A
    <3> HIDE DEF S
    <3> QED BY <2>1, TakeStays
  <2> HIDE DEF S, A
  <2> QED BY <2>2
<1> HIDE DEF S, A, base, pick, step
<1>6. PICK g : IsFold(g, S, A, base, pick, step)
  BY <1>3, <1>4, <1>5, FoldExists
<1>7. /\ g = [s \in SUBSET S |-> FoldBody(base, pick, step, g, s)]
      /\ \A s \in SUBSET S : g[s] \in A
  BY <1>6 DEF IsFold
<1>8. \A s \in SUBSET S : FoldBody(base, pick, step, g, s) = WalkBody(window, stake, g, s)
  <2> TAKE s \in SUBSET S
  <2>1. CASE s = {}
    BY <2>1 DEF FoldBody, WalkBody, base
  <2>2. CASE s # {}
    <3>1. g[s \ {pick[s]}] \in A /\ pick[s] \in S
      BY <1>3, <1>7, <2>2
    <3> QED BY <1>3, <1>5, <2>2, <3>1 DEF FoldBody, WalkBody
  <2> QED BY <2>1, <2>2
<1>9. Right(run)
  <2>1. Right(g)
    BY <1>7, <1>8
  <2> HIDE DEF Right
  <2> QED BY <2>1
<1> HIDE DEF run
<1>10. \A s \in SUBSET S : run[s] = WalkBody(window, stake, run, s)
  BY <1>9
<1>11. run[{}] \in A
  <2>1. {} \in SUBSET S
    OBVIOUS
  <2> QED BY <1>4, <1>10, <2>1 DEF WalkBody, base
<1>12. ASSUME NEW s \in SUBSET S, s # {}
       PROVE  pick[s] \in s /\ (run[s \ {pick[s]}] \in A => run[s] \in A)
  <2>1. /\ run[s] = Take(run[s \ {pick[s]}], window[pick[s]], stake)
        /\ pick[s] \in s /\ pick[s] \in S
    BY <1>3, <1>10, <1>12 DEF WalkBody
  <2> QED BY <1>5, <2>1
<1>13. run[S] \in A
  BY <1>3, <1>11, <1>12, FoldStays
<1> QED BY <1>2, <1>13 DEF A

\* How far an order may walk: no further than the slippage, nor than the edge if
\* only a part of it may be spent.
LEMMA CapIsWithin ==
  ASSUME NEW slippage \in Nat, NEW edge, edge = None \/ edge \in Int,
         NEW fraction, fraction = None \/ fraction \in Nat
  PROVE  LET walk == walk_cap(slippage, edge, fraction)
         IN  /\ walk \in Int /\ walk <= slippage
             /\ edge # None /\ edge > 0 /\ fraction # None /\ fraction <= One => walk <= edge
<1> DEFINE gain == IF edge = None \/ edge < 0 THEN 0 ELSE edge
           allowed == (fraction * gain) \div One
           walk == walk_cap(slippage, edge, fraction)
<1>1. walk = IF fraction = None THEN slippage
             ELSE IF allowed < slippage THEN allowed ELSE slippage
  BY Zenon DEF walk_cap
<1>2. gain \in Nat
  OBVIOUS
<1>3. CASE fraction = None
  BY <1>1, <1>3
<1>4. CASE fraction # None
  <2>1. fraction \in Nat /\ fraction * gain \in Nat
    BY <1>2, <1>4
  <2>2. allowed \in Int
    BY <2>1 DEF One
  <2>3. edge # None /\ edge > 0 /\ fraction <= One => allowed <= edge
    <3> SUFFICES ASSUME edge # None, edge > 0, fraction <= One  PROVE allowed <= edge
      OBVIOUS
    <3>1. gain = edge /\ edge \in Nat
      OBVIOUS
    <3> HIDE DEF gain
    <3>2. edge * fraction <= edge * 100 /\ fraction * gain = edge * fraction
      BY <2>1, <3>1, ProductsKeepOrder DEF One
    <3>3. fraction * gain <= 100 * edge
      BY <3>1, <3>2
    <3> QED BY <2>1, <3>1, <3>3 DEF One
  <2> HIDE DEF allowed, walk
  <2> QED BY <1>1, <1>4, <2>2, <2>3 DEF walk
<1> QED BY <1>3, <1>4

(* Whatever a book asks, a live order costs no more than its stake at the   *)
(* prices it was sized against, has a limit within the highest price, the   *)
(* slippage and the edge, and costs at its limit no more than the walk      *)
(* above the best ask would add: for any number of levels, prices, sizes,   *)
(* stakes, caps and edges.                                                  *)
THEOREM LiveOrdersAreWithinStake ==
  ASSUME NEW asks \in Seq(Positive \X Nat), \A i \in DOMAIN asks : asks[1][1] <= asks[i][1],
         NEW stake \in Nat, NEW slippage \in Nat, NEW edge, edge = None \/ edge \in Int,
         NEW fraction, fraction = None \/ fraction \in Nat, NEW min_depth, NEW max_price \in Int
  PROVE  OrderWithinStake(asks, stake, slippage, edge, fraction, min_depth, max_price)
<1> DEFINE walk == walk_cap(slippage, edge, fraction)
           best == asks[1][1]
           cap == CapOf(best, walk, max_price)
           window == KeepRun(asks, cap)
           walked == Walk(window, stake)
           order == size_buy(asks, stake, walk, min_depth, max_price)
           sized == [limit |-> walked.limit, shares |-> walked.shares, stake |-> walked.cost,
                     levels |-> walked.levels]
<1> SUFFICES ASSUME asks # <<>>, order # None
             PROVE  Affordable(order, best, walk, stake, slippage, edge, fraction, max_price)
  BY DEF OrderWithinStake, Affordable
<1>1. /\ walk \in Int /\ walk <= slippage
      /\ edge # None /\ edge > 0 /\ fraction # None /\ fraction <= One => walk <= edge
  BY CapIsWithin
<1>2. best \in Nat /\ \A i \in DOMAIN asks : best <= asks[i][1]
  <2>1. 1 \in DOMAIN asks
    OBVIOUS
  <2> QED BY <2>1 DEF Positive
<1> HIDE DEF walk, best
<1>3. cap \in Int /\ cap <= best + walk /\ cap <= max_price
  BY <1>1, <1>2 DEF CapOf
<1> HIDE DEF cap
<1>4. walked \in Takings(stake, best, cap)
  <2>1. window \in Seq(Levels(best, cap))
    BY <1>2, <1>3, KeepIs
  <2> HIDE DEF window
  <2> QED BY <1>2, <1>3, <2>1, WalkIs
<1>5. order = BuyIn(window, stake, min_depth)
  BY SizeIs, Zenon DEF cap, best
<1>6. order = sized /\ walked.shares > 0
  <2> DEFINE depth == FoldLeft(LAMBDA a, l : a + l[1] * l[2], 0, window)
             nothing == window = <<>> \/ depth < min_depth \/ walked.shares <= 0
  <2>1. BuyIn(window, stake, min_depth) = IF nothing THEN None ELSE sized
    <3> HIDE DEF window
    <3> QED BY Zenon DEF BuyIn
  <2>2. ~nothing
    <3> HIDE DEF nothing, sized, order
    <3> QED BY <1>5, <2>1
  <2>3. walked.shares \in Nat /\ ~(walked.shares <= 0)
    <3>1. walked.shares \in Nat
      <4> HIDE DEF walked
      <4> QED BY <1>4 DEF Takings, TakingType
    <3> HIDE DEF walked, depth
    <3> QED BY <2>2, <3>1
  <2>4. order = sized
    <3> HIDE DEF nothing, sized, order
    <3> QED BY <1>5, <2>1, <2>2
  <2>5. walked.shares > 0
    <3> HIDE DEF walked
    <3> QED BY <2>3
  <2> QED BY <2>4, <2>5
<1> HIDE DEF walked, order
<1>7. /\ order.stake = walked.cost /\ order.limit = walked.limit /\ order.shares = walked.shares
  BY <1>6
<1> DEFINE shares == order.shares
           limit == order.limit
           cost == order.stake
<1>8. /\ shares \in Nat /\ shares > 0 /\ limit \in Int /\ cost \in Nat /\ cost <= stake
      /\ shares * best <= 100 * cost /\ limit <= cap
  BY <1>4, <1>6, <1>7 DEF Takings, TakingType
<1> HIDE DEF shares, limit, cost
<1>9. limit <= best + walk /\ limit <= max_price
  BY <1>1, <1>2, <1>3, <1>8
<1>10. shares * limit <= 100 * cost + shares * walk
  <2>1. shares * limit <= shares * (best + walk)
    BY <1>1, <1>2, <1>8, <1>9, ProductsKeepOrder
  <2>2. shares * (best + walk) = shares * best + shares * walk
    BY <1>1, <1>2, <1>8
  <2>3. shares * limit \in Int /\ shares * best \in Int /\ shares * walk \in Int
    BY <1>1, <1>2, <1>8
  <2> QED BY <1>8, <2>1, <2>2, <2>3
<1>11. edge # None /\ edge > 0 /\ fraction # None /\ fraction <= One => limit <= best + edge
  BY <1>1, <1>2, <1>8, <1>9
<1> QED BY <1>1, <1>8, <1>9, <1>10, <1>11 DEF Affordable, shares, limit, cost

-----------------------------------------------------------------------------
(* The credible interval.                                                  *)

\* What is at least so much each is at least so much times as many, and likewise
\* for at most.
LEMMA SumBounds ==
  ASSUME NEW S, IsFiniteSet(S), NEW w, \A x \in S : w[x] \in Int, NEW m \in Int
  PROVE  /\ (\A x \in S : m <= w[x]) => m * Cardinality(S) <= SumFunctionOnSet(w, S)
         /\ (\A x \in S : w[x] <= m) => SumFunctionOnSet(w, S) <= m * Cardinality(S)
<1> DEFINE Total(s) == SumFunctionOnSet(w, s)
           F == {s \in SUBSET S :
                   /\ (\A x \in s : m <= w[x]) => m * Cardinality(s) <= Total(s)
                   /\ (\A x \in s : w[x] <= m) => Total(s) <= m * Cardinality(s)}
<1>1. {} \in F
  BY SumEmpty, FS_EmptySet
<1>2. ASSUME NEW s \in SUBSET S, s # {}, \A x \in s : s \ {x} \in F
      PROVE  s \in F
  <2>1. PICK y \in s : TRUE
    BY <1>2
  <2>2. IsFiniteSet(s) /\ IsFiniteSet(s \ {y}) /\ Cardinality(s) \in Nat
        /\ Cardinality(s \ {y}) = Cardinality(s) - 1
    BY <2>1, FS_Subset, FS_CardinalityType, FS_RemoveElement
  <2>3. Total(s) = w[y] + Total(s \ {y}) /\ w[y] \in Int
    BY <2>1, <2>2, SumSplit
  <2>4. Total(s \ {y}) \in Int
    BY <2>2, SumType
  <2>5. /\ (\A x \in s : m <= w[x]) => m * Cardinality(s \ {y}) <= Total(s \ {y})
        /\ (\A x \in s : w[x] <= m) => Total(s \ {y}) <= m * Cardinality(s \ {y})
    BY <1>2, <2>1
  <2>6. m * Cardinality(s) = m * Cardinality(s \ {y}) + m
        /\ m * Cardinality(s \ {y}) \in Int
    <3> DEFINE c == Cardinality(s \ {y})
    <3>1. c \in Nat /\ Cardinality(s) = c + 1
      BY <2>2, FS_CardinalityType
    <3> HIDE DEF c
    <3>2. m * Cardinality(s) = m * c + m /\ m * c \in Int
      BY <3>1
    <3> QED BY <3>2 DEF c
  <2> HIDE DEF Total
  <2>7. /\ (\A x \in s : m <= w[x]) => m * Cardinality(s) <= Total(s)
        /\ (\A x \in s : w[x] <= m) => Total(s) <= m * Cardinality(s)
    BY <2>1, <2>3, <2>4, <2>5, <2>6
  <2> QED BY <2>7
<1> HIDE DEF F
<1>3. S \in F
  BY <1>1, <1>2, SetInduction
<1> QED BY <1>3 DEF F

\* As many as there are of the greatest add up to no less.
LEMMA TopIsMost ==
  ASSUME NEW S, IsFiniteSet(S), NEW T, IsFiniteSet(T), Cardinality(S) = Cardinality(T),
         NEW w, \A x \in S \cup T : w[x] \in Int, \A x \in T, y \in S \ T : w[y] <= w[x]
  PROVE  SumFunctionOnSet(w, S) <= SumFunctionOnSet(w, T)
<1> DEFINE both == S \cap T
           A == S \ T
           B == T \ S
<1>1. /\ S = both \cup A /\ T = both \cup B /\ both \cap A = {} /\ both \cap B = {}
      /\ IsFiniteSet(both) /\ IsFiniteSet(A) /\ IsFiniteSet(B)
  BY FS_Subset
<1> HIDE DEF both, A, B
<1>2. /\ SumFunctionOnSet(w, S) = SumFunctionOnSet(w, both) + SumFunctionOnSet(w, A)
      /\ SumFunctionOnSet(w, T) = SumFunctionOnSet(w, both) + SumFunctionOnSet(w, B)
  <2>1. \A x \in both \cup A : w[x] \in Int
    BY <1>1
  <2>2. \A x \in both \cup B : w[x] \in Int
    BY <1>1
  <2> QED BY <1>1, <2>1, <2>2, SumOfDisjoint
<1>3. /\ SumFunctionOnSet(w, both) \in Int /\ SumFunctionOnSet(w, A) \in Int
      /\ SumFunctionOnSet(w, B) \in Int
  BY <1>1, SumType
<1>4. Cardinality(A) = Cardinality(B) /\ Cardinality(A) \in Nat
  <2>1. /\ Cardinality(S) = Cardinality(both) + Cardinality(A) - Cardinality(both \cap A)
        /\ Cardinality(T) = Cardinality(both) + Cardinality(B) - Cardinality(both \cap B)
    BY <1>1, FS_Union, Zenon
  <2>2. Cardinality(both) \in Nat /\ Cardinality(A) \in Nat /\ Cardinality(B) \in Nat
    BY <1>1, FS_CardinalityType
  <2>3. Cardinality(both \cap A) = 0 /\ Cardinality(both \cap B) = 0
    BY <1>1, FS_EmptySet
  <2> DEFINE c == Cardinality(both)
             ca == Cardinality(A)
             cb == Cardinality(B)
  <2>4. c + ca - 0 = c + cb - 0
    BY <2>1, <2>3, Zenon
  <2>5. c \in Nat /\ ca \in Nat /\ cb \in Nat
    BY <2>2
  <2> HIDE DEF c, ca, cb
  <2>6. ca = cb
    BY <2>4, <2>5
  <2> QED BY <2>5, <2>6 DEF ca, cb
<1>5. CASE A = {}
  <2>1. B = {}
    BY <1>1, <1>4, <1>5, FS_EmptySet
  <2> QED BY <1>2, <1>3, <1>5, <2>1
<1>6. CASE A # {}
  <2>1. B # {}
    BY <1>1, <1>4, <1>6, FS_EmptySet
  <2>2. PICK z \in B : \A x \in B : w[z] <= w[x]
    <3> DEFINE V == {w[x] : x \in B}
    <3>1. IsFiniteSet(V) /\ V # {} /\ V \subseteq Int
      BY <1>1, <2>1, ImageIsFinite
    <3>2. \E v \in V : \A u \in V : v <= u
      <4> HIDE DEF V
      <4> QED BY <3>1, SmallestOf
    <3> QED BY <3>2
  <2>3. w[z] \in Int /\ z \in T /\ z \notin S
    BY <1>1 DEF B
  <2>4. \A y \in A : w[y] <= w[z]
    BY <2>3 DEF A
  <2>5. \A x \in A : w[x] \in Int
    BY <1>1
  <2>6. \A x \in B : w[x] \in Int
    BY <1>1
  <2>7. SumFunctionOnSet(w, A) <= w[z] * Cardinality(A)
    BY <1>1, <2>3, <2>4, <2>5, SumBounds
  <2>8. w[z] * Cardinality(B) <= SumFunctionOnSet(w, B)
    BY <1>1, <2>2, <2>3, <2>6, SumBounds
  <2>9. w[z] * Cardinality(A) \in Int /\ w[z] * Cardinality(A) = w[z] * Cardinality(B)
    BY <1>4, <2>3
  <2> QED BY <1>2, <1>3, <2>7, <2>8, <2>9
<1> QED BY <1>5, <1>6

\* A window that holds the most probable buckets around the peak, when no shorter
\* run holds the mass asked for.
Narrow(edges, n, w) ==
    /\ w \in Spans(n) /\ w[1] <= Peak(edges) /\ Peak(edges) <= w[2]
    /\ \A i \in w[1] .. w[2], j \in (1 .. n) \ (w[1] .. w[2]) : edges[j].p <= edges[i].p
    /\ \A a, b \in 1 .. n : a <= b /\ b - a < w[2] - w[1] => MassOf(edges, a .. b) < 80

\* The mass of a run is an integer, and that of the most probable buckets is the
\* greatest of as many.
LEMMA MassOfRuns ==
  ASSUME NEW edges, NEW n \in Nat, DOMAIN edges = 1 .. n, \A i \in DOMAIN edges : Sound(edges[i]),
         NEW a \in 1 .. n, NEW b \in 1 .. n, NEW c \in 1 .. n, NEW d \in 1 .. n,
         a <= b, c <= d, b - a = d - c,
         \A i \in c .. d, j \in (1 .. n) \ (c .. d) : edges[j].p <= edges[i].p
  PROVE  /\ MassOf(edges, a .. b) \in Int /\ MassOf(edges, c .. d) \in Int
         /\ MassOf(edges, a .. b) <= MassOf(edges, c .. d)
<1> DEFINE p == [i \in 1 .. n |-> edges[i].p]
           S == a .. b
           T == c .. d
<1>1. S \in SUBSET (1 .. n) /\ T \in SUBSET (1 .. n)
  OBVIOUS
<1>2. \A i \in 1 .. n : p[i] = edges[i].p /\ p[i] \in Int
  BY DEF Sound
<1>3. IsFiniteSet(S) /\ IsFiniteSet(T) /\ Cardinality(S) = Cardinality(T)
  <2>1. /\ IsFiniteSet(S) /\ Cardinality(S) = IF a > b THEN 0 ELSE b - a + 1
        /\ IsFiniteSet(T) /\ Cardinality(T) = IF c > d THEN 0 ELSE d - c + 1
    BY FS_Interval
  <2> HIDE DEF S, T
  <2> QED BY <2>1
<1>4. \A x \in T, y \in S \ T : p[y] <= p[x]
  <2>1. \A y \in S \ T : y \in (1 .. n) \ (c .. d)
    BY <1>1
  <2> HIDE DEF p
  <2> QED BY <1>1, <1>2, <2>1
<1> HIDE DEF S, T, p
<1>5. MassOf(edges, S) = SumFunctionOnSet(p, S) /\ MassOf(edges, T) = SumFunctionOnSet(p, T)
  <2>1. (\A i \in S : p[i] = edges[i].p) /\ (\A i \in T : p[i] = edges[i].p)
    BY <1>1, <1>2
  <2> QED BY <2>1, MassIs
<1>6. SumFunctionOnSet(p, S) \in Int /\ SumFunctionOnSet(p, T) \in Int
  BY <1>1, <1>2, <1>3, SumType
<1>7. SumFunctionOnSet(p, S) <= SumFunctionOnSet(p, T)
  <2>1. \A x \in S \cup T : p[x] \in Int
    BY <1>1, <1>2
  <2> QED BY <1>3, <1>4, <2>1, TopIsMost
<1> QED BY <1>5, <1>6, <1>7 DEF S, T

\* On either side of the peak the mass falls.
LEMMA FallsFromPeak ==
  ASSUME NEW edges, NEW n \in Nat, DOMAIN edges = 1 .. n, n # 0,
         \A i \in DOMAIN edges : Sound(edges[i]), Unimodal(edges)
  PROVE  LET f == Peak(edges)
         IN  /\ \A i, j \in 1 .. n : j <= i /\ i <= f => edges[j].p <= edges[i].p
             /\ \A i, j \in 1 .. n : f <= i /\ i <= j => edges[j].p <= edges[i].p
<1> DEFINE f == Peak(edges)
           p == [i \in 1 .. n |-> edges[i].p]
<1>1. f \in 1 .. n /\ \A j \in 1 .. n : edges[j].p <= edges[f].p
  BY PeakIs
<1>2. \A i \in 1 .. n : p[i] = edges[i].p /\ p[i] \in Int
  BY DEF Sound
<1>3. PICK k \in 1 .. n : \A i, j \in 1 .. n :
         (i < j /\ j <= k => edges[i].p <= edges[j].p) /\ (k <= i /\ i < j => edges[j].p <= edges[i].p)
  BY DEF Unimodal
<1> HIDE DEF f, p
<1>4. \A j \in 1 .. n : p[j] <= p[f]
  BY <1>1, <1>2
<1>5. \A i, j \in 1 .. n : /\ i < j /\ j <= k => p[i] <= p[j]
                           /\ k <= i /\ i < j => p[j] <= p[i]
  BY <1>2, <1>3
<1>6. ASSUME NEW i \in 1 .. n, NEW j \in 1 .. n, j <= i, i <= f  PROVE p[j] <= p[i]
  <2>1. CASE i <= k
    BY <1>2, <1>5, <1>6, <2>1
  <2>2. CASE ~(i <= k)
    <3>1. i = f \/ p[f] <= p[i]
      BY <1>1, <1>5, <1>6, <2>2
    <3> QED BY <1>1, <1>2, <1>4, <3>1
  <2> QED BY <2>1, <2>2
<1>7. ASSUME NEW i \in 1 .. n, NEW j \in 1 .. n, f <= i, i <= j  PROVE p[j] <= p[i]
  <2>1. CASE k <= i
    BY <1>2, <1>5, <1>7, <2>1
  <2>2. CASE ~(k <= i)
    <3>1. i = f \/ p[f] <= p[i]
      BY <1>1, <1>5, <1>7, <2>2
    <3> QED BY <1>1, <1>2, <1>4, <3>1
  <2> QED BY <2>1, <2>2
<1> QED BY <1>2, <1>6, <1>7 DEF f

\* A step of the loop keeps the window narrow.
LEMMA GrowStaysNarrow ==
  ASSUME NEW edges, NEW n \in Nat, DOMAIN edges = 1 .. n, Len(edges) = n, n # 0,
         \A i \in DOMAIN edges : Sound(edges[i]), None \notin Int, Unimodal(edges),
         NEW w, Narrow(edges, n, w)
  PROVE  Narrow(edges, n, GrowsTo(edges, w))
<1> DEFINE left == IF w[1] > 1 THEN edges[w[1] - 1].p ELSE None
           right == IF w[2] < n THEN edges[w[2] + 1].p ELSE None
           l == w[1]
           r == w[2]
           f == Peak(edges)
           p == [i \in 1 .. n |-> edges[i].p]
<1>1. l \in 1 .. n /\ r \in 1 .. n /\ l <= r /\ w = <<l, r>> /\ l <= f /\ f <= r /\ f \in 1 .. n
  BY PeakIs DEF Narrow, Spans
<1>2. GrowsTo(edges, w) = IF MassOf(edges, w[1]..w[2]) >= 80 \/ w = <<1, n>> THEN w
                          ELSE IF right = None \/ (left # None /\ left >= right)
                          THEN <<l - 1, r>> ELSE <<l, r + 1>>
  BY Zenon DEF GrowsTo
<1>3. \A i \in 1 .. n : p[i] = edges[i].p /\ p[i] \in Int
  BY DEF Sound
<1>4. /\ l > 1 => left = p[l - 1] /\ left # None /\ left \in Int
      /\ ~(l > 1) => left = None
      /\ r < n => right = p[r + 1] /\ right # None /\ right \in Int
      /\ ~(r < n) => right = None
  <2>1. l > 1 => l - 1 \in 1 .. n
    BY <1>1
  <2>2. r < n => r + 1 \in 1 .. n
    BY <1>1
  <2> HIDE DEF p, l, r
  <2>3. left = IF l > 1 THEN edges[l - 1].p ELSE None
    BY DEF l
  <2>4. right = IF r < n THEN edges[r + 1].p ELSE None
    BY DEF r
  <2> HIDE DEF left, right
  <2> QED BY <1>3, <2>1, <2>2, <2>3, <2>4
<1>5. /\ \A i, j \in 1 .. n : j <= i /\ i <= f => p[j] <= p[i]
      /\ \A i, j \in 1 .. n : f <= i /\ i <= j => p[j] <= p[i]
  <2> HIDE DEF p, f
  <2> QED BY <1>3, FallsFromPeak DEF f
<1>6. \A i \in l .. r, j \in (1 .. n) \ (l .. r) : p[j] <= p[i]
  <2>1. \A i \in l .. r : i \in 1 .. n
    BY <1>1
  <2>2. \A i \in l .. r, j \in (1 .. n) \ (l .. r) : edges[j].p <= edges[i].p
    BY DEF Narrow
  <2> HIDE DEF p, l, r
  <2> QED BY <1>3, <2>1, <2>2
<1>7. \A a, b \in 1 .. n : a <= b /\ b - a < r - l => MassOf(edges, a .. b) < 80
  BY DEF Narrow
<1> HIDE DEF left, right, l, r, f, p
<1>8. CASE MassOf(edges, w[1]..w[2]) >= 80 \/ w = <<1, n>>
  BY <1>2, <1>8
<1>9. CASE ~(MassOf(edges, w[1]..w[2]) >= 80 \/ w = <<1, n>>)
  <2>1. \A a, b \in 1 .. n : a <= b /\ b - a < r - l + 1 => MassOf(edges, a .. b) < 80
    <3> SUFFICES ASSUME NEW a \in 1 .. n, NEW b \in 1 .. n, a <= b, b - a < r - l + 1
                 PROVE  MassOf(edges, a .. b) < 80
      OBVIOUS
    <3>1. CASE b - a < r - l
      BY <1>7, <3>1
    <3>2. CASE b - a = r - l
      <4>1. \A i \in l .. r, j \in (1 .. n) \ (l .. r) : edges[j].p <= edges[i].p
        BY DEF Narrow, l, r
      <4>2. /\ MassOf(edges, a .. b) \in Int /\ MassOf(edges, l .. r) \in Int
            /\ MassOf(edges, a .. b) <= MassOf(edges, l .. r)
        BY <1>1, <3>2, <4>1, MassOfRuns
      <4>3. ~(MassOf(edges, l .. r) >= 80)
        BY <1>9 DEF l, r
      <4> QED BY <4>2, <4>3
    <3> QED BY <1>1, <3>1, <3>2
  <2>2. ~(l = 1 /\ r = n)
    BY <1>1, <1>9
  <2>3. ASSUME NEW x \in 1 .. n, NEW y \in 1 .. n, x <= y, x <= l, r <= y, y - x = r - l + 1,
               \A i \in (x .. y) \ (l .. r), j \in (1 .. n) \ (x .. y) : p[j] <= p[i]
        PROVE  Narrow(edges, n, <<x, y>>)
    <3>1. <<x, y>> \in Spans(n)
      BY <2>3 DEF Spans
    <3>2. \A i \in x .. y, j \in (1 .. n) \ (x .. y) : edges[j].p <= edges[i].p
      <4> TAKE i \in x .. y, j \in (1 .. n) \ (x .. y)
      <4>1. i \in 1 .. n /\ j \in (1 .. n) \ (l .. r)
        BY <1>1, <2>3
      <4>2. p[j] <= p[i]
        BY <1>6, <2>3, <4>1
      <4> QED BY <1>3, <4>1, <4>2
    <3>3. x <= f /\ f <= y
      BY <1>1, <2>3
    <3> QED BY <2>1, <2>3, <3>1, <3>2, <3>3 DEF Narrow, f
  <2>4. CASE right = None \/ (left # None /\ left >= right)
    <3>1. l > 1 /\ (r < n => p[r + 1] <= p[l - 1])
      BY <1>1, <1>4, <2>2, <2>4
    <3>2. \A i \in (l - 1 .. r) \ (l .. r) : i = l - 1
      BY <1>1
    <3>3. \A j \in (1 .. n) \ (l - 1 .. r) : p[j] <= p[l - 1]
      <4> TAKE j \in (1 .. n) \ (l - 1 .. r)
      <4>1. l - 1 \in 1 .. n /\ (j < l - 1 \/ j > r)
        BY <1>1, <3>1
      <4>2. CASE j < l - 1
        BY <1>1, <1>5, <4>1, <4>2
      <4>3. CASE j > r
        <5>1. r + 1 \in 1 .. n /\ r < n /\ p[j] <= p[r + 1]
          BY <1>1, <1>5, <4>3
        <5> QED BY <1>3, <3>1, <4>1, <5>1
      <4> QED BY <4>1, <4>2, <4>3
    <3>4. l - 1 \in 1 .. n /\ l - 1 <= r
      BY <1>1, <3>1
    <3>5. Narrow(edges, n, <<l - 1, r>>)
      BY <1>1, <2>3, <3>2, <3>3, <3>4
    <3> QED BY <1>2, <1>9, <2>4, <3>5
  <2>5. CASE ~(right = None \/ (left # None /\ left >= right))
    <3>1. r < n /\ (l > 1 => p[l - 1] <= p[r + 1])
      BY <1>1, <1>4, <2>5
    <3>2. \A i \in (l .. r + 1) \ (l .. r) : i = r + 1
      BY <1>1
    <3>3. \A j \in (1 .. n) \ (l .. r + 1) : p[j] <= p[r + 1]
      <4> TAKE j \in (1 .. n) \ (l .. r + 1)
      <4>1. r + 1 \in 1 .. n /\ (j < l \/ j > r + 1)
        BY <1>1, <3>1
      <4>2. CASE j > r + 1
        BY <1>1, <1>5, <4>1, <4>2
      <4>3. CASE j < l
        <5>1. l - 1 \in 1 .. n /\ l > 1 /\ p[j] <= p[l - 1]
          BY <1>1, <1>5, <4>3
        <5> QED BY <1>3, <3>1, <4>1, <5>1
      <4> QED BY <4>1, <4>2, <4>3
    <3>4. r + 1 \in 1 .. n /\ l <= r + 1
      BY <1>1, <3>1
    <3>5. Narrow(edges, n, <<l, r + 1>>)
      BY <1>1, <2>3, <3>2, <3>3, <3>4
    <3> QED BY <1>2, <1>9, <2>5, <3>5
  <2> QED BY <2>4, <2>5
<1> QED BY <1>8, <1>9

(* The credible interval is as narrow as it can be: on a forecast with one  *)
(* peak no shorter run of buckets holds the mass that was asked for, if the *)
(* window of coverage_band holds it: for any number of buckets and any      *)
(* masses.                                                                  *)
THEOREM NoShorterWindow ==
  ASSUME NEW edges, NEW n \in Nat, DOMAIN edges = 1 .. n, Len(edges) = n,
         \A i \in DOMAIN edges : Sound(edges[i]), None \notin Int
  PROVE  WindowIsSmallest(edges)
<1> DEFINE window == _coverage_window(edges)
<1> SUFFICES ASSUME Unimodal(edges), MassOf(edges, window) >= 80,
                    NEW a \in DOMAIN edges, NEW b \in DOMAIN edges,
                    a <= b, b - a + 1 < Cardinality(window)
             PROVE  MassOf(edges, a .. b) < 80
  BY DEF WindowIsSmallest
<1> DEFINE A == {w \in Spans(n) : Narrow(edges, n, w)}
           base == <<Peak(edges), Peak(edges)>>
<1>1. n # 0
  OBVIOUS
<1>2. base \in A
  <2>1. Peak(edges) \in 1 .. n /\ \A j \in 1 .. n : edges[j].p <= edges[Peak(edges)].p
    BY <1>1, PeakIs
  <2> DEFINE f == Peak(edges)
  <2>2. base = <<f, f>>
    OBVIOUS
  <2>3. base[1] = f /\ base[2] = f /\ base \in Spans(n)
    BY <2>1 DEF Spans
  <2>4. \A i \in f .. f : i = f
    BY <2>1
  <2>5. Narrow(edges, n, base)
    <3> HIDE DEF base, f
    <3>1. \A i \in f .. f, j \in (1 .. n) \ (f .. f) : edges[j].p <= edges[i].p
      BY <2>1, <2>4 DEF f
    <3>2. \A c, d \in 1 .. n : ~(c <= d /\ d - c < f - f)
      BY <2>1 DEF f
    <3> QED BY <2>1, <2>3, <3>1, <3>2 DEF Narrow, f
  <2> QED BY <2>3, <2>5
<1>3. \A w \in A : GrowsTo(edges, w) \in A
  <2> TAKE w \in A
  <2>1. Narrow(edges, n, GrowsTo(edges, w))
    BY <1>1, GrowStaysNarrow
  <2> QED BY <2>1 DEF Narrow
<1> HIDE DEF A, window
<1>4. PICK w \in A : window = w[1] .. w[2]
  BY <1>2, <1>3, WindowIn DEF window
<1>5. /\ w[1] \in Int /\ w[2] \in Int /\ w[1] <= w[2]
      /\ \A c, d \in 1 .. n : c <= d /\ d - c < w[2] - w[1] => MassOf(edges, c .. d) < 80
  BY DEF A, Spans, Narrow
<1>6. Cardinality(window) = w[2] - w[1] + 1
  <2>1. Cardinality(w[1] .. w[2]) = IF w[1] > w[2] THEN 0 ELSE w[2] - w[1] + 1
    BY <1>5, FS_Interval
  <2>2. ~(w[1] > w[2])
    BY <1>5
  <2> QED BY <1>4, <2>1, <2>2
<1> QED BY <1>5, <1>6

-----------------------------------------------------------------------------
(* What a decision of the past is rebuilt from.                            *)

\* A history as it can be stored: its times are integers, no two slots of
\* prices are for the same time, and the calibration's versions are in order.
History(h) ==
    /\ \A c \in h.om : c.at \in Int
    /\ \A r \in h.wu : r.hour \in Int /\ r.minute \in Int /\ r.second \in Int
    /\ IsFiniteSet(h.wu)
    /\ IsFiniteSet(h.clob)
    /\ \A s \in h.clob : s.slot \in Int /\ s.fetched \in Int
    /\ \A s, o \in h.clob : s.slot = o.slot => s = o
    /\ \E V : h.versions \in Seq(V)
    /\ \A k \in DOMAIN h.versions : h.versions[k].from \in Int
    /\ \A k, l \in DOMAIN h.versions : k <= l => h.versions[k].from <= h.versions[l].from

\* A forecast of then is the nearest one whatever was fetched afterwards.
LEMMA NearestIsKnown ==
  ASSUME NEW cycles, \A c \in cycles : c.at \in Int, NEW at \in Int,
         {c \in cycles : c.at <= at} # {}
  PROVE  _pick_nearest_iso_timestamp(cycles, at)
             = _pick_nearest_iso_timestamp({c \in cycles : c.at <= at}, at)
<1> DEFINE known == {c \in cycles : c.at <= at}
           distance(c) == IF c.at <= at THEN <<0, at - c.at>> ELSE <<1, c.at - at>>
<1>1. PICK k \in known : TRUE
  OBVIOUS
<1>2. ASSUME NEW c \in cycles, \A o \in cycles : Earlier(distance(c), distance(o))
      PROVE  c \in known /\ \A o \in known : Earlier(distance(c), distance(o))
  BY <1>1, <1>2 DEF Earlier
<1>3. ASSUME NEW c \in known, \A o \in known : Earlier(distance(c), distance(o))
      PROVE  c \in cycles /\ \A o \in cycles : Earlier(distance(c), distance(o))
  BY <1>3 DEF Earlier
<1> DEFINE nearest == {c \in cycles : \A o \in cycles : Earlier(distance(c), distance(o))}
           nearest_known == {c \in known : \A o \in known : Earlier(distance(c), distance(o))}
<1>4. nearest = nearest_known
  <2> HIDE DEF distance, known
  <2>1. \A c : c \in nearest => c \in nearest_known
    BY <1>2
  <2>2. \A c : c \in nearest_known => c \in nearest
    BY <1>3
  <2> QED BY <2>1, <2>2
<1>5. cycles # {} /\ known # {}
  BY <1>1
<1>6. _pick_nearest_iso_timestamp(cycles, at) = CHOOSE c \in nearest : TRUE
  BY <1>5, Zenon DEF _pick_nearest_iso_timestamp
<1>7. _pick_nearest_iso_timestamp(known, at) = CHOOSE c \in nearest_known : TRUE
  <2> HIDE DEF known
  <2> QED BY <1>5, Zenon DEF _pick_nearest_iso_timestamp
<1> HIDE DEF nearest, nearest_known
<1> QED BY <1>4, <1>6, <1>7, Zenon

\* The last one at or before an instant, of any age.
LEMMA LastBefore ==
  ASSUME NEW times, IsFiniteSet(times), times \subseteq Int, NEW at \in Int
  PROVE  LET last == _pick_nearest_at_or_before(times, at, None)
         IN  IF \E t \in times : t <= at THEN last \in times /\ last <= at ELSE last = None
<1> DEFINE usable == {t \in times : t <= at}
           last == _pick_nearest_at_or_before(times, at, None)
<1>1. {t \in times : t <= at /\ (None # None => at - t <= None)} = usable
  OBVIOUS
<1>2. usable = {} => last = None
  <2> HIDE DEF usable
  <2> QED BY <1>1, Zenon DEF _pick_nearest_at_or_before
<1>3. usable # {} => last = Max(usable)
  <2> HIDE DEF usable
  <2> QED BY <1>1, Zenon DEF _pick_nearest_at_or_before
<1>4. usable # {} => Max(usable) \in usable
  <2>1. IsFiniteSet(usable) /\ usable \subseteq Int
    BY FS_Subset
  <2> HIDE DEF usable
  <2> QED BY <2>1, MaxIs
<1> HIDE DEF last
<1> QED BY <1>2, <1>3, <1>4 DEF last

\* What comes after an instant does not change the last one before it.
LEMMA LastIsKnown ==
  ASSUME NEW times, NEW others, NEW at, {t \in times : t <= at} = {t \in others : t <= at}
  PROVE  _pick_nearest_at_or_before(times, at, None) = _pick_nearest_at_or_before(others, at, None)
<1>1. {t \in times : t <= at /\ (None # None => at - t <= None)}
          = {t \in others : t <= at /\ (None # None => at - t <= None)}
  OBVIOUS
<1> QED BY <1>1, Zenon DEF _pick_nearest_at_or_before

\* A scrape of then is the last one whatever was scraped afterwards.
LEMMA ScrapeIsKnown ==
  ASSUME NEW h, History(h), NEW at \in Int, NEW target, None \notin Int,
         \A o \in h.observations : o.at <= at => o.published <= at
  PROVE  fetch_nearest_wunderground_adjusted_tmax(Known(h, at), target, at)
             = fetch_nearest_wunderground_adjusted_tmax(h, target, at)
<1> DEFINE then == Known(h, at)
           scrapes == {r \in h.wu : r.target = target /\ is_oclock_scrape(r)}
           known == {r \in then.wu : r.target = target /\ is_oclock_scrape(r)}
           picked == _pick_nearest_at_or_before({Stamp(r) : r \in scrapes}, 3600 * at, None)
           times == {Stamp(r) : r \in scrapes}
           known_times == {Stamp(r) : r \in known}
<1>1. then.wu = {r \in h.wu : Stamp(r) <= 3600 * at} /\ then.observations = {o \in h.observations : o.published <= at}
  BY Zenon DEF Known
<1>2. known = {r \in scrapes : Stamp(r) <= 3600 * at}
  BY <1>1
<1>3. {t \in known_times : t <= 3600 * at} = {t \in times : t <= 3600 * at}
  BY <1>2
<1>4. _pick_nearest_at_or_before(known_times, 3600 * at, None) = picked
  <2>1. picked = _pick_nearest_at_or_before(times, 3600 * at, None)
    OBVIOUS
  <2> HIDE DEF times, known_times, picked
  <2> QED BY <1>3, <2>1, LastIsKnown
<1>5. \A r \in h.wu : Stamp(r) \in Int
  BY DEF History, Stamp
<1>6. IsFiniteSet(times) /\ times \subseteq Int
  <2>1. IsFiniteSet(scrapes)
    BY FS_Subset DEF History
  <2>2. IsFiniteSet(times)
    <3> DEFINE stamp == [r \in scrapes |-> Stamp(r)]
    <3> HIDE DEF scrapes
    <3>1. times = {stamp[r] : r \in scrapes}
      OBVIOUS
    <3> HIDE DEF stamp, times
    <3> QED BY <2>1, <3>1, ImageIsFinite, Zenon
  <2> QED BY <1>5, <2>2
<1>7. IF \E t \in times : t <= 3600 * at THEN picked \in times /\ picked <= 3600 * at ELSE picked = None
  <2> DEFINE bound == 3600 * at
  <2>1. picked = _pick_nearest_at_or_before(times, bound, None) /\ bound \in Int
    OBVIOUS
  <2> HIDE DEF times, picked, bound
  <2>2. IF \E t \in times : t <= bound THEN picked \in times /\ picked <= bound ELSE picked = None
    BY <1>6, <2>1, LastBefore
  <2> QED BY <2>2 DEF bound
<1>8. HourlyOf(known, picked) = HourlyOf(scrapes, picked)
  <2>1. \A r \in scrapes : Stamp(r) = picked => r \in known
    <3> SUFFICES ASSUME NEW r \in scrapes, Stamp(r) = picked
                 PROVE  Stamp(r) <= 3600 * at
      BY <1>2
    <3>1. Stamp(r) \in Int
      BY <1>5
    <3> HIDE DEF picked
    <3> QED BY <1>7, <3>1
  <2>2. {r \in known : Stamp(r) = picked /\ r.at # None /\ r.temp # None}
            = {r \in scrapes : Stamp(r) = picked /\ r.at # None /\ r.temp # None}
    BY <1>2, <2>1
  <2> QED BY <2>2, Zenon DEF HourlyOf
<1>9. {o \in {o \in then.observations : o.target = target /\ o.at <= at} : TRUE}
         = {o \in {o \in h.observations : o.target = target /\ o.at <= at} : TRUE}
  BY <1>1
<1>10. {o \in then.observations : o.target = target /\ o.at <= at}
         = {o \in h.observations : o.target = target /\ o.at <= at}
  BY <1>9
<1>11. observed_running_max_c(then.observations, target, at) = observed_running_max_c(h.observations, target, at)
  BY <1>10, Zenon DEF observed_running_max_c
<1>12. \A hourly : AdjustedBy(hourly, then.observations, target, at) = AdjustedBy(hourly, h.observations, target, at)
  BY <1>11, Zenon DEF AdjustedBy, adjusted_predicted_tmax_c
<1>13. fetch_nearest_wunderground_adjusted_tmax(then, target, at)
           = AdjustedBy(HourlyOf(known, _pick_nearest_at_or_before(known_times, 3600 * at, None)),
                        then.observations, target, at)
  <2> HIDE DEF then
  <2> QED BY Zenon DEF fetch_nearest_wunderground_adjusted_tmax
<1>14. fetch_nearest_wunderground_adjusted_tmax(h, target, at)
           = AdjustedBy(HourlyOf(scrapes, picked), h.observations, target, at)
  BY Zenon DEF fetch_nearest_wunderground_adjusted_tmax
<1> HIDE DEF scrapes, known, picked, known_times, times
<1>15. fetch_nearest_wunderground_adjusted_tmax(then, target, at)
           = AdjustedBy(HourlyOf(scrapes, picked), then.observations, target, at)
  BY <1>4, <1>8, <1>13
<1> HIDE DEF then
<1>16. fetch_nearest_wunderground_adjusted_tmax(then, target, at) = fetch_nearest_wunderground_adjusted_tmax(h, target, at)
  BY <1>12, <1>14, <1>15, Zenon
<1> QED BY <1>16 DEF then

\* The models' forecast of then, if one was fetched by then.
LEMMA ForecastIsKnown ==
  ASSUME NEW h, History(h), NEW at \in Int, NEW target
  PROVE  /\ Known(h, at).om # {} =>
                fetch_nearest_open_meteo_forecast(Known(h, at), target, at)
                    = fetch_nearest_open_meteo_forecast(h, target, at)
         /\ Known(h, at).om = {} => fetch_nearest_open_meteo_forecast(Known(h, at), target, at) = None
<1> DEFINE then == Known(h, at)
<1>1. then.om = {c \in h.om : c.at <= at}
  BY Zenon DEF Known
<1>2. ASSUME then.om # {}
      PROVE  fetch_nearest_open_meteo_forecast(then, target, at) = fetch_nearest_open_meteo_forecast(h, target, at)
  <2>1. _pick_nearest_iso_timestamp(then.om, at) = _pick_nearest_iso_timestamp(h.om, at)
    <3>1. \A c \in h.om : c.at \in Int
      BY Zenon DEF History
    <3> HIDE DEF then
    <3> QED BY <1>1, <1>2, <3>1, NearestIsKnown
  <2> HIDE DEF then
  <2> QED BY <2>1, Zenon DEF fetch_nearest_open_meteo_forecast
<1>3. ASSUME then.om = {}
      PROVE  fetch_nearest_open_meteo_forecast(then, target, at) = None
  <2>1. _pick_nearest_iso_timestamp(then.om, at) = None
    BY <1>3, Zenon DEF _pick_nearest_iso_timestamp
  <2> HIDE DEF then
  <2>2. RowsOfCycle(_pick_nearest_iso_timestamp(then.om, at), target) = {}
    BY <2>1, Zenon DEF RowsOfCycle
  <2> QED BY <2>2, Zenon DEF fetch_nearest_open_meteo_forecast
<1> QED BY <1>2, <1>3

\* The prices of then are of the last half hour, and are known once polled.
LEMMA SlotIsKnown ==
  ASSUME NEW h, History(h), NEW at \in Int, None \notin Int,
         fetch_nearest_clob_snapshot(h, 60 * at) # None
  PROVE  LET slot == fetch_nearest_clob_snapshot(h, 60 * at)
         IN  /\ slot \in h.clob /\ 60 * at - slot.slot \in 0 .. DEFAULT_CLOB_MAX_AGE
             /\ slot.fetched <= 60 * at => fetch_nearest_clob_snapshot(Known(h, at), 60 * at) = slot
<1> DEFINE minute == 60 * at
           slot == fetch_nearest_clob_snapshot(h, minute)
           then == Known(h, at)
           Usable(clob) == {t \in {s.slot : s \in clob} :
                               t <= minute /\ (DEFAULT_CLOB_MAX_AGE # None => minute - t <= DEFAULT_CLOB_MAX_AGE)}
           Latest(clob) == _pick_nearest_at_or_before({s.slot : s \in clob}, minute, DEFAULT_CLOB_MAX_AGE)
<1>1. then.clob = {s \in h.clob : s.fetched <= minute} /\ minute \in Int /\ DEFAULT_CLOB_MAX_AGE = 30
  BY DEF Known, DEFAULT_CLOB_MAX_AGE
<1>2. \A clob : Latest(clob) = IF Usable(clob) = {} THEN None ELSE Max(Usable(clob))
  BY Zenon DEF _pick_nearest_at_or_before
<1>3. ASSUME NEW clob \in SUBSET h.clob, Usable(clob) # {}
      PROVE  Latest(clob) \in Usable(clob) /\ \A t \in Usable(clob) : t <= Latest(clob)
  <2>1. IsFiniteSet(clob)
    BY FS_Subset DEF History
  <2>2. IsFiniteSet({s.slot : s \in clob})
    <3> DEFINE at_slot == [s \in clob |-> s.slot]
    <3>1. {s.slot : s \in clob} = {at_slot[s] : s \in clob}
      OBVIOUS
    <3> HIDE DEF at_slot
    <3>2. IsFiniteSet({at_slot[s] : s \in clob})
      BY <2>1, ImageIsFinite, Zenon
    <3> QED BY <3>1, <3>2
  <2>3. IsFiniteSet(Usable(clob))
    BY <2>2, FS_Subset
  <2>4. Usable(clob) \subseteq Int
    BY DEF History
  <2>5. Latest(clob) = Max(Usable(clob))
    BY <1>2, <1>3
  <2> HIDE DEF Usable, Latest
  <2> QED BY <1>3, <2>3, <2>4, <2>5, MaxIs
<1>4. slot = CHOOSE s \in h.clob : s.slot = Latest(h.clob)
  BY Zenon DEF fetch_nearest_clob_snapshot
<1>5. Latest(h.clob) # None
  BY Zenon DEF fetch_nearest_clob_snapshot
<1>6. Usable(h.clob) # {}
  BY <1>2, <1>5
<1>7. Latest(h.clob) \in Usable(h.clob) /\ \A t \in Usable(h.clob) : t <= Latest(h.clob)
  BY <1>3, <1>6
<1>8. slot \in h.clob /\ slot.slot = Latest(h.clob)
  <2>1. \E s \in h.clob : s.slot = Latest(h.clob)
    BY <1>7
  <2> HIDE DEF Latest, slot
  <2> QED BY <1>4, <2>1, Zenon
<1>9. minute - slot.slot \in 0 .. DEFAULT_CLOB_MAX_AGE
  <2>1. slot.slot \in Int
    BY <1>8 DEF History
  <2>2. slot.slot <= minute /\ minute - slot.slot <= DEFAULT_CLOB_MAX_AGE
    <3>1. DEFAULT_CLOB_MAX_AGE # None
      BY <1>1
    <3> HIDE DEF slot, Latest, minute
    <3> QED BY <1>7, <1>8, <3>1
  <2> HIDE DEF slot, minute
  <2> QED BY <1>1, <2>1, <2>2
<1>10. ASSUME slot.fetched <= minute
       PROVE  fetch_nearest_clob_snapshot(then, minute) = slot
  <2> HIDE DEF slot, then, minute
  <2>1. slot \in then.clob /\ then.clob \subseteq h.clob
    BY <1>1, <1>8, <1>10
  <2>2. slot.slot \in Usable(then.clob) /\ Usable(then.clob) \subseteq Usable(h.clob)
    BY <1>7, <1>8, <2>1
  <2>3. Latest(then.clob) \in Usable(then.clob) /\ slot.slot <= Latest(then.clob)
    <3> HIDE DEF Usable, Latest
    <3> QED BY <1>3, <2>1, <2>2
  <2>4. Latest(then.clob) <= slot.slot
    <3> HIDE DEF Usable, Latest
    <3> QED BY <1>7, <1>8, <2>2, <2>3
  <2>5. Latest(then.clob) = slot.slot /\ slot.slot \in Int
    <3>1. Latest(then.clob) \in Int /\ slot.slot \in Int
      BY <1>8, <2>1, <2>3 DEF History
    <3> HIDE DEF Latest
    <3> QED BY <2>3, <2>4, <3>1
  <2>6. \A s \in then.clob : s.slot = slot.slot => s = slot
    BY <1>8, <2>1 DEF History
  <2>7. (CHOOSE s \in then.clob : s.slot = slot.slot) = slot
    BY <2>1, <2>6
  <2>8. slot.slot # None
    BY <2>5
  <2> HIDE DEF Latest
  <2>9. fetch_nearest_clob_snapshot(then, minute) = CHOOSE s \in then.clob : s.slot = slot.slot
    BY <2>5, <2>8, Zenon DEF fetch_nearest_clob_snapshot, Latest
  <2> QED BY <2>7, <2>9
<1> QED BY <1>8, <1>9, <1>10

\* The calibration of then is a version that was there then, if there was one.
LEMMA VersionIsKnown ==
  ASSUME NEW h, History(h), NEW at \in Int, Known(h, at).versions # <<>>
  PROVE  calibration_path_as_of(Known(h, at).versions, at) = calibration_path_as_of(h.versions, at)
<1> DEFINE v == h.versions
           n == Len(v)
           K == {k \in DOMAIN v : v[k].from <= at}
           known == Known(h, at).versions
<1>1. known = [k \in K |-> v[k]]
  BY Zenon DEF Known
<1>2. n \in Nat /\ DOMAIN v = 1 .. n
  BY DEF History
<1>3. K # {}
  <2>1. K = {} => known = <<>>
    BY <1>1
  <2> QED BY <2>1
<1>4. PICK m \in K : \A k \in K : k <= m
  <2>1. IsFiniteSet(K) /\ K \subseteq Int
    <3>1. IsFiniteSet(1 .. n)
      <4> HIDE DEF n
      <4> QED BY <1>2, FS_Interval
    <3>2. K \in SUBSET (1 .. n) /\ K \subseteq Int
      BY <1>2
    <3> HIDE DEF K, n
    <3> QED BY <3>1, <3>2, FS_Subset
  <2> HIDE DEF K
  <2> QED BY <1>3, <2>1, MaxIs
<1>5. m \in 1 .. n
  BY <1>2
<1>6. K = 1 .. m
  <2>1. \A k \in 1 .. m : v[k].from <= at
    <3> SUFFICES ASSUME NEW k \in 1 .. m PROVE v[k].from <= at
      OBVIOUS
    <3>1. k \in DOMAIN v /\ m \in DOMAIN v /\ k <= m
      BY <1>2, <1>5
    <3>2. v[k].from <= v[m].from /\ v[k].from \in Int /\ v[m].from \in Int
      BY <3>1 DEF History
    <3> QED BY <1>4, <3>2
  <2> QED BY <1>2, <1>4, <1>5, <2>1
<1>7. known = [k \in 1 .. m |-> v[k]] /\ Len(known) = m /\ m \in Nat
  <2> HIDE DEF K, known, v
  <2>1. known = [k \in 1 .. m |-> v[k]]
    BY <1>1, <1>6
  <2>2. Len([k \in 1 .. m |-> v[k]]) = m
    BY <1>5
  <2> QED BY <1>5, <2>1, <2>2
<1>8. calibration_path_as_of(known, at) = v[m].content
  <2>1. {k \in 2 .. m : known[k].from > at} = {}
    <3> SUFFICES ASSUME NEW k \in 2 .. m PROVE ~(known[k].from > at)
      OBVIOUS
    <3>1. k \in K /\ known[k] = v[k] /\ v[k].from \in Int
      <4>1. k \in 1 .. m /\ k \in DOMAIN v
        BY <1>2, <1>5
      <4> HIDE DEF known
      <4> QED BY <1>6, <1>7, <4>1 DEF History
    <3> HIDE DEF known
    <3> QED BY <3>1
  <2>2. known[m] = v[m]
    <3> HIDE DEF known
    <3> QED BY <1>5, <1>7
  <2> HIDE DEF known, v
  <2> QED BY <1>7, <2>1, <2>2, Zenon DEF calibration_path_as_of
<1>9. calibration_path_as_of(v, at) = v[m].content
  <2> DEFINE later == {k \in 2 .. n : v[k].from > at}
  <2>1. later = m + 1 .. n
    <3>1. \A k \in 1 .. n : v[k].from \in Int
      BY <1>2 DEF History
    <3>2. \A k \in 1 .. n : k \in K <=> v[k].from <= at
      BY <1>2
    <3> HIDE DEF K, v, n
    <3>3. \A k \in 1 .. n : (v[k].from > at) <=> k \notin 1 .. m
      BY <1>6, <3>1, <3>2
    <3> QED BY <1>5, <3>3
  <2>2. CASE m = n
    <3>1. later = {}
      BY <1>2, <2>1, <2>2
    <3> HIDE DEF later
    <3>2. calibration_path_as_of(v, at) = v[n].content
      BY <3>1, Zenon DEF calibration_path_as_of, later
    <3> QED BY <2>2, <3>2
  <2>3. CASE m # n
    <3>1. IsFiniteSet(later) /\ later # {} /\ later \subseteq Int /\ m + 1 \in later
      <4>1. IsFiniteSet(m + 1 .. n) /\ m + 1 \in m + 1 .. n /\ m + 1 .. n \subseteq Int
        <5> HIDE DEF n
        <5>1. m \in Int /\ n \in Int /\ m + 1 \in Int /\ m + 1 <= n
          BY <1>2, <1>5, <2>3
        <5>2. IsFiniteSet(m + 1 .. n)
          BY <5>1, FS_Interval
        <5> QED BY <5>1, <5>2
      <4> HIDE DEF later
      <4> QED BY <2>1, <4>1
    <3>2. Min(later) = m + 1
      <4>1. Min(later) \in later /\ \A y \in later : Min(later) <= y
        <5> HIDE DEF later
        <5> QED BY <3>1, MinIs
      <4>2. Min(later) <= m + 1 /\ Min(later) \in m + 1 .. n
        <5> HIDE DEF later
        <5> QED BY <2>1, <3>1, <4>1
      <4> HIDE DEF later
      <4> QED BY <1>5, <4>2
    <3>3. calibration_path_as_of(v, at) = v[Min(later) - 1].content
      <4> HIDE DEF v
      <4> QED BY <3>1, Zenon DEF calibration_path_as_of
    <3> HIDE DEF later, v
    <3> QED BY <1>5, <3>2, <3>3
  <2> QED BY <2>2, <2>3
<1> HIDE DEF known, v
<1>10. calibration_path_as_of(known, at) = calibration_path_as_of(v, at)
  BY <1>8, <1>9
<1> QED BY <1>10 DEF known, v

\* A bucket as it is read out of a market.
Listed(b) ==
    {"label", "bid", "ask", "liquidity", "spread", "resolved", "outcome"} \subseteq DOMAIN b

\* The view of an event has the prices of the slot, and no outcome.
LEMMA ViewIsOfThen ==
  ASSUME NEW event, \A i \in DOMAIN event : Listed(event[i]), NEW slot
  PROVE  PricesOf(_open_view_event(event, slot.quotes), slot, event)
<1> DEFINE Priced(b) == \E q \in slot.quotes : q.label = b.label /\ ~is_untradeable_market_price(q)
           stripped == strip_untradeable_bucket_prices(event)
           open == [i \in DOMAIN event |-> [stripped[i] EXCEPT !.resolved = FALSE, !.outcome = "none"]]
           view == _open_view_event(event, slot.quotes)
           Quote(b) == CHOOSE q \in slot.quotes : q.label = b.label
           Quoted(b) == [b EXCEPT !.bid = Quote(b).bid, !.ask = Quote(b).ask, !.spread = Quote(b).spread,
                                  !.liquidity = Quote(b).liquidity]
<1>1. view = [i \in DOMAIN event |-> IF Priced(open[i]) THEN Quoted(open[i]) ELSE open[i]]
  <2>1. view = hydrate_event_from_clob_snapshot(open, slot.quotes)
    BY Zenon DEF _open_view_event
  <2>2. DOMAIN open = DOMAIN event
    OBVIOUS
  <2> HIDE DEF open, view
  <2> QED BY <2>1, <2>2, Zenon DEF hydrate_event_from_clob_snapshot
<1>2. ASSUME NEW i \in DOMAIN event
      PROVE  /\ Listed(stripped[i]) /\ stripped[i].label = event[i].label
             /\ event[i].resolved => stripped[i].ask = None
  <2> DEFINE b == event[i]
             bare == [b EXCEPT !.bid = None, !.ask = None, !.spread = None]
  <2>1. Listed(b)
    OBVIOUS
  <2>2. stripped[i] = IF b.resolved \/ is_untradeable_market_price(b) THEN bare ELSE b
    BY DEF strip_untradeable_bucket_prices
  <2>3. bare.label = b.label /\ bare.ask = None /\ DOMAIN bare = DOMAIN b
    <3> HIDE DEF b
    <3> QED BY <2>1 DEF Listed
  <2> HIDE DEF b, bare, stripped
  <2> QED BY <2>1, <2>2, <2>3 DEF b, Listed
<1>3. ASSUME NEW i \in DOMAIN event
      PROVE  /\ Listed(open[i]) /\ open[i].label = event[i].label
             /\ open[i].resolved = FALSE /\ open[i].ask = stripped[i].ask
  <2> DEFINE b == stripped[i]
             unknown == [b EXCEPT !.resolved = FALSE, !.outcome = "none"]
  <2>1. Listed(b) /\ b.label = event[i].label
    BY <1>2
  <2>2. open[i] = unknown
    BY Zenon
  <2>3. /\ unknown.label = b.label /\ unknown.resolved = FALSE /\ unknown.ask = b.ask
        /\ DOMAIN unknown = DOMAIN b
    <3> HIDE DEF b
    <3> QED BY <2>1 DEF Listed
  <2> HIDE DEF b, unknown, open
  <2> QED BY <2>1, <2>2, <2>3 DEF b, Listed
<1>4. ASSUME NEW b, Listed(b)
      PROVE  Quoted(b).resolved = b.resolved /\ Quoted(b).ask = Quote(b).ask
  <2> HIDE DEF Quote
  <2> QED BY <1>4 DEF Listed
<1>5. \A i \in DOMAIN event : view[i].resolved = FALSE
  <2> HIDE DEF open, Quoted, view, Priced
  <2> QED BY <1>1, <1>3, <1>4
<1>6. ~is_event_resolved(view)
  <2>1. DOMAIN view = DOMAIN event
    <3> HIDE DEF view
    <3> QED BY <1>1
  <2> HIDE DEF view
  <2> QED BY <1>5, <2>1, Zenon DEF is_event_resolved
<1>7. ASSUME NEW i \in DOMAIN event, Priced(event[i])
      PROVE  \E q \in slot.quotes : q.label = event[i].label /\ view[i].ask = q.ask
  <2>1. Priced(open[i])
    <3> HIDE DEF open
    <3> QED BY <1>3, <1>7
  <2>2. view[i].ask = Quote(open[i]).ask
    <3> HIDE DEF open, Quoted, view, Priced, Quote
    <3> QED BY <1>1, <1>3, <1>4, <2>1
  <2>3. Quote(open[i]) \in slot.quotes /\ Quote(open[i]).label = open[i].label
    <3> HIDE DEF open
    <3> QED BY <2>1
  <2> HIDE DEF open, view, Quote
  <2> QED BY <1>3, <2>2, <2>3
<1>8. ASSUME NEW i \in DOMAIN event, ~Priced(event[i]), event[i].resolved
      PROVE  view[i].ask = None
  <2>1. ~Priced(open[i])
    <3> HIDE DEF open
    <3> QED BY <1>3, <1>8
  <2> HIDE DEF open, Quoted, view, Priced, stripped
  <2> QED BY <1>1, <1>2, <1>3, <1>8, <2>1
<1>9. \A i \in DOMAIN event : IF Priced(event[i])
                              THEN \E q \in slot.quotes : q.label = event[i].label /\ view[i].ask = q.ask
                              ELSE event[i].resolved => view[i].ask = None
  <2> HIDE DEF view
  <2> QED BY <1>7, <1>8, Zenon
<1> HIDE DEF view
<1>10. PricesOf(view, slot, event)
  BY <1>6, <1>9, Zenon DEF PricesOf
<1> QED BY <1>10 DEF view

(* A decision of the past is rebuilt from what was known then, with the     *)
(* exceptions NoHindsight lists, whatever was stored before and after, and  *)
(* whatever became of the event.                                            *)
THEOREM PastIsRebuiltWithoutHindsight ==
  ASSUME None \notin Int, NEW h, History(h), NEW event, \A i \in DOMAIN event : Listed(event[i]),
         NEW target, NEW at \in Int
  PROVE  NoHindsight(h, event, target, at)
<1> DEFINE then == Known(h, at)
           F(k) == fetch_nearest_open_meteo_forecast(k, target, at)
           C(k) == fetch_nearest_clob_snapshot(k, 60 * at)
           W(k) == fetch_nearest_wunderground_adjusted_tmax(k, target, at)
           V(k) == calibration_path_as_of(k.versions, at)
           wall == lead_hours_to_end_of_target_day(target, at)
           Inputs(k) == build_gate_inputs(k, event, target, at, TRUE, TRUE)
           now == Inputs(h)
           before == Inputs(then)
           slot == C(h)
           published == OnlyPublished(h, at)
<1> SUFFICES ASSUME now.reason = ""
             PROVE  /\ Foreseen(now, before, then, slot, at, published)
                    /\ 60 * at - slot.slot \in 0 .. DEFAULT_CLOB_MAX_AGE
                    /\ PricesOf(now.event, slot, event)
  BY Zenon DEF NoHindsight, WithoutHindsight
<1> HIDE DEF wall, F, C, W, V
<1>1. \A k : Inputs(k) = GateInputs(F(k), C(k), W(k), event, wall, V(k))
  BY Zenon DEF build_gate_inputs, resolve_calibration_path, F, C, W, V, wall
<1> HIDE DEF Inputs
<1>2. F(h) # None /\ C(h) # None
  BY <1>1 DEF GateInputs
<1>3. ASSUME NEW k, F(k) # None, C(k) # None
      PROVE  /\ Inputs(k).reason = ""
             /\ Inputs(k).event = _open_view_event(event, C(k).quotes)
             /\ Inputs(k).calibration = V(k)
             /\ Inputs(k).forecast = IF W(k) = None THEN F(k)
                                     ELSE _append_wunderground_predicted(F(k), W(k), wall)
  BY <1>1, <1>3 DEF GateInputs
<1>4. slot \in h.clob /\ 60 * at - slot.slot \in 0 .. DEFAULT_CLOB_MAX_AGE
  BY <1>2, SlotIsKnown, Zenon DEF C
<1>5. PricesOf(now.event, slot, event)
  BY <1>2, <1>3, ViewIsOfThen
<1>6. ASSUME then.om # {}, slot.fetched <= 60 * at, then.versions # <<>>
      PROVE  /\ before.reason = "" /\ now.event = before.event
             /\ now.calibration = before.calibration
             /\ published => now.forecast = before.forecast
  <2>1. F(then) = F(h)
    BY <1>6, ForecastIsKnown, Zenon DEF F
  <2>2. C(then) = C(h)
    BY <1>2, <1>6, SlotIsKnown, Zenon DEF C
  <2>3. V(then) = V(h)
    BY <1>6, VersionIsKnown, Zenon DEF V
  <2>4. published => W(then) = W(h)
    BY ScrapeIsKnown, Zenon DEF W, OnlyPublished
  <2>5. F(then) # None /\ C(then) # None
    BY <1>2, <2>1, <2>2
  <2> HIDE DEF then, published
  <2>6. /\ now.event = _open_view_event(event, C(h).quotes) /\ now.calibration = V(h)
        /\ now.forecast = IF W(h) = None THEN F(h) ELSE _append_wunderground_predicted(F(h), W(h), wall)
    BY <1>2, <1>3
  <2>7. /\ before.reason = "" /\ before.event = _open_view_event(event, C(then).quotes)
        /\ before.calibration = V(then)
        /\ before.forecast = IF W(then) = None THEN F(then)
                             ELSE _append_wunderground_predicted(F(then), W(then), wall)
    BY <1>3, <2>5
  <2> HIDE DEF now, before
  <2> QED BY <2>1, <2>2, <2>3, <2>4, <2>6, <2>7
<1>7. ASSUME then.om = {}
      PROVE  before.reason = "no_open_meteo_snapshot"
  <2>1. F(then) = None
    BY <1>7, ForecastIsKnown, Zenon DEF F
  <2> HIDE DEF then
  <2> QED BY <1>1, <2>1 DEF GateInputs
<1> HIDE DEF now, before, then, published, slot
<1>8. Foreseen(now, before, then, slot, at, published)
  BY <1>6, <1>7 DEF Foreseen
<1> QED BY <1>4, <1>5, <1>8

(* Rebuilt at the instant of a scrape of the full hour, Wunderground's      *)
(* value is the one the calibration recorded of it.                         *)
THEOREM PastIsRebuiltAsRecorded ==
  ASSUME None \notin Int, \A predicted, floor : [predicted |-> predicted, floor |-> floor] # None,
         NEW h, History(h), NEW target, \A r \in h.wu : r.second \in 0 .. 59
  PROVE  RebuiltAsRecorded(h, target)
<1> DEFINE rows == {r \in h.wu : r.hour >= 0}
           used == {r \in rows : is_oclock_scrape(r) /\ r.at # None /\ r.temp # None}
           Group(k) == [scraped |-> k[1], target |-> k[2],
                        hourly |-> {x \in used : x.hour = k[1] /\ x.target = k[2]}]
           Record(g) ==
               [run |-> g.scraped, target |-> g.target,
                lead |-> bucket_wall_clock_lead_hours(
                             lead_hours_to_end_of_target_day(g.target, g.scraped), 1000),
                predicted |-> adjusted_predicted_tmax_c(g.target, g.scraped, g.hourly, h.observations)]
           records == ingest_wu_forecasts_from_snapshots(h.wu, h.observations, 0, 1000)
           keys == {<<x.hour, x.target>> : x \in used}
           groups == _group_forecast_snapshots(rows)
<1>1. groups = {Group(k) : k \in keys}
  BY Zenon DEF _group_forecast_snapshots
<1>2. records = {r \in {Record(g) : g \in groups} : r.lead # None /\ r.predicted # None}
  BY Zenon DEF ingest_wu_forecasts_from_snapshots
<1> SUFFICES ASSUME NEW r \in records, r.target = target, \A x \in h.wu : x.hour = r.run => x.second = 0
             PROVE  LET snapshot == fetch_nearest_wunderground_adjusted_tmax(h, target, r.run)
                    IN  snapshot # None /\ snapshot.predicted = r.predicted
  BY Zenon DEF RebuiltAsRecorded
<1> DEFINE at == r.run
           hourly == {x \in used : x.hour = at /\ x.target = target}
<1>3. /\ r.predicted = adjusted_predicted_tmax_c(target, at, hourly, h.observations)
      /\ r.predicted # None
      /\ \E x \in used : x.hour = at /\ x.target = target
  <2>1. r \in {Record(g) : g \in groups} /\ r.predicted # None
    <3> HIDE DEF records, Record
    <3> QED BY <1>2
  <2>2. PICK k \in keys : r = Record(Group(k))
    <3> HIDE DEF groups, Group, keys, records, Record
    <3> QED BY <1>1, <2>1
  <2>3. PICK x \in used : k = <<x.hour, x.target>>
    OBVIOUS
  <2>4. r.run = k[1] /\ r.target = k[2]
    <3> HIDE DEF keys, used
    <3> QED BY <2>2
  <2>5. r.predicted = adjusted_predicted_tmax_c(k[2], k[1], {y \in used : y.hour = k[1] /\ y.target = k[2]}, h.observations)
    <3> HIDE DEF keys, used
    <3> QED BY <2>2
  <2>6. k[1] = at /\ k[2] = target
    BY <2>4
  <2>7. x.hour = at /\ x.target = target
    <3> HIDE DEF used, records
    <3> QED BY <2>3, <2>6
  <2>8. r.predicted = adjusted_predicted_tmax_c(target, at, hourly, h.observations)
    <3> HIDE DEF used, records
    <3> QED BY <2>5, <2>6, Zenon
  <2> HIDE DEF used, records, hourly
  <2> QED BY <2>1, <2>3, <2>7, <2>8
<1>4. at \in Int /\ \A x \in h.wu : x.hour \in Int /\ x.minute \in Int /\ x.second \in 0 .. 59
  <2> HIDE DEF records
  <2> QED BY <1>3 DEF History
<1> DEFINE scrapes == {x \in h.wu : x.target = target /\ is_oclock_scrape(x)}
           times == {Stamp(x) : x \in scrapes}
           bound == 3600 * at
<1> HIDE DEF records, at
<1>5. \A x \in scrapes : Stamp(x) = 3600 * x.hour + x.second /\ Stamp(x) \in Int
  <2> SUFFICES ASSUME NEW x \in scrapes
               PROVE  Stamp(x) = 3600 * x.hour + x.second /\ Stamp(x) \in Int
    OBVIOUS
  <2>1. x.hour \in Int /\ x.minute = 0 /\ x.second \in Int
    BY <1>4 DEF is_oclock_scrape
  <2> QED BY <2>1 DEF Stamp
<1>6. IsFiniteSet(times) /\ times \subseteq Int
  <2>1. IsFiniteSet(scrapes)
    BY FS_Subset DEF History
  <2>2. IsFiniteSet(times)
    <3> DEFINE stamp == [x \in scrapes |-> Stamp(x)]
    <3> HIDE DEF scrapes
    <3>1. times = {stamp[x] : x \in scrapes}
      OBVIOUS
    <3> HIDE DEF stamp, times
    <3> QED BY <2>1, <3>1, ImageIsFinite, Zenon
  <2> QED BY <1>5, <2>2
<1>7. \A x \in scrapes : Stamp(x) = bound => x.hour = at
  <2> HIDE DEF scrapes
  <2>1. \A x \in scrapes : x.hour \in Int /\ x.second \in 0 .. 59
    BY <1>4 DEF scrapes
  <2> QED BY <1>4, <1>5, <2>1
<1>8. \A x \in scrapes : x.hour = at => Stamp(x) = bound
  <2>1. \A x \in scrapes : x.hour = at => x.second = 0
    BY DEF at
  <2> HIDE DEF scrapes
  <2> QED BY <1>4, <1>5, <2>1
<1>9. _pick_nearest_at_or_before(times, bound, None) = bound
  <2> DEFINE picked == _pick_nearest_at_or_before(times, bound, None)
  <2>1. bound \in times
    <3>1. PICK x \in scrapes : x.hour = at
      BY <1>3
    <3> HIDE DEF scrapes
    <3> QED BY <1>8, <3>1
  <2>2. bound \in Int
    BY <1>4
  <2> HIDE DEF times, bound
  <2>3. {t \in times : t <= bound /\ (None # None => bound - t <= None)} = {t \in times : t <= bound}
    OBVIOUS
  <2>4. picked = Max({t \in times : t <= bound})
    BY <2>1, <2>2, <2>3 DEF _pick_nearest_at_or_before
  <2>5. IsFiniteSet({t \in times : t <= bound})
    BY <1>6, FS_Subset
  <2> DEFINE usable == {t \in times : t <= bound}
  <2>6. IsFiniteSet(usable) /\ bound \in usable /\ usable \subseteq Int /\ \A t \in usable : t <= bound
    <3>1. bound <= bound
      BY <2>2
    <3> QED BY <1>6, <2>1, <2>5, <3>1
  <2>7. picked = Max(usable)
    BY <2>4
  <2> HIDE DEF usable, picked
  <2>8. picked \in usable /\ bound <= picked
    BY <2>6, <2>7, MaxIs
  <2>9. picked = bound
    BY <2>2, <2>6, <2>8
  <2> QED BY <2>9 DEF picked
<1>10. fetch_nearest_wunderground_adjusted_tmax(h, target, at)
           = AdjustedBy(HourlyOf(scrapes, bound), h.observations, target, at)
  <2>1. fetch_nearest_wunderground_adjusted_tmax(h, target, at)
           = AdjustedBy(HourlyOf(scrapes, _pick_nearest_at_or_before(times, bound, None)), h.observations, target, at)
    BY Zenon DEF fetch_nearest_wunderground_adjusted_tmax
  <2> HIDE DEF scrapes, times, bound
  <2> QED BY <1>9, <2>1
<1>11. {x \in scrapes : Stamp(x) = bound /\ x.at # None /\ x.temp # None} = hourly
  <2>1. at >= 0
    BY <1>3
  <2> HIDE DEF bound
  <2> QED BY <1>7, <1>8, <2>1
<1>12. HourlyOf(scrapes, bound) = {[at |-> x.at, temp |-> x.temp] : x \in hourly}
  <2> HIDE DEF scrapes, bound, hourly
  <2> QED BY <1>11, Zenon DEF HourlyOf
<1> DEFINE told == {[at |-> x.at, temp |-> x.temp] : x \in hourly}
<1>13. {y.temp : y \in {y \in told : y.at > at}} = {y.temp : y \in {y \in hourly : y.at > at}}
  <2> HIDE DEF hourly
  <2>1. \A x \in hourly : [at |-> x.at, temp |-> x.temp] \in told
    OBVIOUS
  <2>2. \A y \in told : \E x \in hourly : y.at = x.at /\ y.temp = x.temp
    OBVIOUS
  <2> HIDE DEF told
  <2>3. \A x \in hourly : \E y \in told : y.at = x.at /\ y.temp = x.temp
    BY <2>1
  <2> QED BY <2>2, <2>3
<1>14. adjusted_predicted_tmax_c(target, at, told, h.observations) = r.predicted
  <2> HIDE DEF told, hourly
  <2> QED BY <1>3, <1>13, Zenon DEF adjusted_predicted_tmax_c
<1>15. told # {}
  BY <1>3
<1>16. LET snapshot == AdjustedBy(told, h.observations, target, at)
       IN  snapshot # None /\ snapshot.predicted = r.predicted
  <2> HIDE DEF told
  <2> DEFINE known == [predicted |-> r.predicted, floor |-> observed_running_max_c(h.observations, target, at)]
  <2>1. AdjustedBy(told, h.observations, target, at) = known /\ known # None
    BY <1>3, <1>14, <1>15, Zenon DEF AdjustedBy
  <2>2. known.predicted = r.predicted
    OBVIOUS
  <2> HIDE DEF known
  <2> QED BY <2>1, <2>2
<1> HIDE DEF told, hourly, scrapes, bound
<1>17. LET snapshot == fetch_nearest_wunderground_adjusted_tmax(h, target, at)
       IN  snapshot # None /\ snapshot.predicted = r.predicted
  BY <1>10, <1>12, <1>16 DEF told
<1> QED BY <1>17 DEF at

-----------------------------------------------------------------------------
(* What is read out of an event.                                           *)

\* The bucket of a market as it is shown: with the outcome of the market, with
\* no price once it has one, and with the difference of its prices as spread.
LEMMA ShownIs ==
  ASSUME NEW markets, NEW books, NEW i \in DOMAIN markets
  PROVE  LET shown == strip_untradeable_bucket_prices(hydrate_prices(parse_event_payload(markets), books))
         IN  /\ DOMAIN shown = DOMAIN markets
             /\ shown[i].label = markets[i].label
             /\ (shown[i].resolved /\ shown[i].outcome = "YES") <=> markets[i].price = "one"
             /\ markets[i].price \in {"one", "zero"} => shown[i].ask = None /\ shown[i].bid = None
             /\ shown[i].bid # None /\ shown[i].ask # None => shown[i].spread = shown[i].ask - shown[i].bid
<1> DEFINE parsed == parse_event_payload(markets)
           priced == hydrate_prices(parsed, books)
           shown == strip_untradeable_bucket_prices(priced)
           quotes == fetch_clob_book({parsed[j].token : j \in DOMAIN parsed} \ {None}, books)
           r == _parse_resolution(markets[i])
           p == Parsed(markets[i])
           Spread(b) == b.bid # None /\ b.ask # None => b.spread = b.ask - b.bid
<1>1. DOMAIN parsed = DOMAIN markets /\ parsed[i] = p
  BY DEF parse_event_payload
<1>2. /\ (r.resolved /\ r.outcome = "YES") <=> markets[i].price = "one"
      /\ markets[i].price \in {"one", "zero"} => r.resolved = TRUE
  BY DEF _parse_resolution
<1>3. /\ p.label = markets[i].label /\ p.resolved = r.resolved /\ p.outcome = r.outcome
      /\ DOMAIN p = {"label", "bid", "ask", "liquidity", "spread", "resolved", "outcome", "token"}
      /\ Spread(p)
  <2> HIDE DEF r
  <2> QED BY DEF Parsed, r
<1>4. /\ DOMAIN priced = DOMAIN markets
      /\ priced[i] = IF p.token \notin DOMAIN quotes THEN p
                     ELSE [p EXCEPT !.bid = quotes[p.token].bid, !.ask = quotes[p.token].ask,
                                    !.spread = quotes[p.token].spread,
                                    !.liquidity = quotes[p.token].liquidity]
  <2> HIDE DEF parsed, quotes, p
  <2>1. priced = [j \in DOMAIN parsed |->
                     IF parsed[j].token \notin DOMAIN quotes THEN parsed[j]
                     ELSE [parsed[j] EXCEPT !.bid = quotes[parsed[j].token].bid,
                                            !.ask = quotes[parsed[j].token].ask,
                                            !.spread = quotes[parsed[j].token].spread,
                                            !.liquidity = quotes[parsed[j].token].liquidity]]
    BY Zenon DEF hydrate_prices, quotes
  <2> HIDE DEF priced
  <2> QED BY <1>1, <2>1
<1>5. ASSUME p.token \in DOMAIN quotes
      PROVE  Spread(quotes[p.token])
  <2> HIDE DEF p
  <2>1. \A tokens : \A t \in DOMAIN fetch_clob_book(tokens, books) :
            fetch_clob_book(tokens, books)[t] = _quote_from_book(books[t])
    BY DEF fetch_clob_book
  <2>2. quotes[p.token] = _quote_from_book(books[p.token])
    BY <1>5, <2>1
  <2>3. \A book : Spread(_quote_from_book(book))
    BY DEF _quote_from_book
  <2> HIDE DEF quotes, Spread
  <2> QED BY <2>2, <2>3
<1> DEFINE b == priced[i]
<1>6. /\ b.label = p.label /\ b.resolved = p.resolved /\ b.outcome = p.outcome
      /\ DOMAIN b = DOMAIN p /\ Spread(b)
  <2> HIDE DEF p, quotes, priced
  <2>1. CASE p.token \notin DOMAIN quotes
    BY <1>3, <1>4, <2>1
  <2>2. CASE p.token \in DOMAIN quotes
    <3> DEFINE q == quotes[p.token]
               quoted == [p EXCEPT !.bid = q.bid, !.ask = q.ask, !.spread = q.spread, !.liquidity = q.liquidity]
    <3>1. b = quoted
      BY <1>4, <2>2
    <3>2. Spread(q)
      BY <1>5, <2>2
    <3> HIDE DEF q, b
    <3>3. quoted.label = p.label /\ quoted.resolved = p.resolved /\ quoted.outcome = p.outcome /\ DOMAIN quoted = DOMAIN p
      BY <1>3
    <3>4. quoted.bid = q.bid /\ quoted.ask = q.ask /\ quoted.spread = q.spread
      BY <1>3
    <3> HIDE DEF quoted
    <3> QED BY <3>1, <3>2, <3>3, <3>4
  <2> QED BY <2>1, <2>2
<1>7. /\ DOMAIN shown = DOMAIN markets
      /\ shown[i] = IF b.resolved \/ is_untradeable_market_price(b)
                    THEN [b EXCEPT !.bid = None, !.ask = None, !.spread = None] ELSE b
  <2> HIDE DEF priced
  <2> QED BY <1>4 DEF strip_untradeable_bucket_prices
<1>8. /\ shown[i].label = b.label /\ shown[i].resolved = b.resolved /\ shown[i].outcome = b.outcome
      /\ Spread(shown[i])
      /\ b.resolved => shown[i].ask = None /\ shown[i].bid = None
  <2> HIDE DEF shown, b, p
  <2> DEFINE bare == [b EXCEPT !.bid = None, !.ask = None, !.spread = None]
  <2>1. /\ bare.label = b.label /\ bare.resolved = b.resolved /\ bare.outcome = b.outcome
        /\ bare.ask = None /\ bare.bid = None
    BY <1>3, <1>6
  <2>2. shown[i] = bare \/ (shown[i] = b /\ ~b.resolved)
    BY <1>7
  <2> HIDE DEF bare
  <2> QED BY <1>6, <2>1, <2>2
<1> HIDE DEF shown, b, p, r
<1>9. /\ shown[i].label = markets[i].label
      /\ (shown[i].resolved /\ shown[i].outcome = "YES") <=> markets[i].price = "one"
      /\ markets[i].price \in {"one", "zero"} => shown[i].ask = None /\ shown[i].bid = None
      /\ shown[i].bid # None /\ shown[i].ask # None => shown[i].spread = shown[i].ask - shown[i].bid
  BY <1>2, <1>3, <1>6, <1>8
<1> QED BY <1>7, <1>9 DEF shown

(* An event whose markets are settled one by one names its winner late, but *)
(* never another one afterwards, and shows no price of a market that has    *)
(* its outcome, whatever its markets, their prices and the order books are. *)
THEOREM TheWinnerStands ==
  ASSUME NEW now, NEW later, SameEvent(now, later), NEW books
  PROVE  WinnerStands(now, later, books)
<1> DEFINE Shown(markets) ==
               strip_untradeable_bucket_prices(hydrate_prices(parse_event_payload(markets), books))
           Yes(markets) == {i \in DOMAIN markets : markets[i].price = "one"}
           before == Shown(now)
           after == Shown(later)
           winner == winning_label_from_event(before)
<1> SUFFICES ASSUME Later(now, later), Cardinality(Yes(later)) <= 1
             PROVE  WinnerKept(now, before, after, winner)
  BY Zenon DEF WinnerStands, WinnerIn
<1> HIDE DEF Shown
<1>1. ASSUME NEW markets, DOMAIN markets = DOMAIN now
      PROVE  /\ DOMAIN Shown(markets) = DOMAIN now
             /\ Winners(Shown(markets)) = Yes(markets)
             /\ \A i \in DOMAIN now : Shown(markets)[i].label = markets[i].label
             /\ \A i \in DOMAIN now : markets[i].price \in {"one", "zero"} =>
                    Shown(markets)[i].ask = None /\ Shown(markets)[i].bid = None
             /\ \A i \in DOMAIN now :
                    Shown(markets)[i].bid # None /\ Shown(markets)[i].ask # None =>
                        Shown(markets)[i].spread = Shown(markets)[i].ask - Shown(markets)[i].bid
  <2>1. \A i \in DOMAIN now :
            /\ DOMAIN Shown(markets) = DOMAIN now
            /\ Shown(markets)[i].label = markets[i].label
            /\ (Shown(markets)[i].resolved /\ Shown(markets)[i].outcome = "YES") <=> markets[i].price = "one"
            /\ markets[i].price \in {"one", "zero"} =>
                    Shown(markets)[i].ask = None /\ Shown(markets)[i].bid = None
            /\ Shown(markets)[i].bid # None /\ Shown(markets)[i].ask # None =>
                    Shown(markets)[i].spread = Shown(markets)[i].ask - Shown(markets)[i].bid
    <3> TAKE i \in DOMAIN now
    <3>1. i \in DOMAIN markets
      BY <1>1
    <3>2. /\ DOMAIN Shown(markets) = DOMAIN markets
          /\ Shown(markets)[i].label = markets[i].label
          /\ (Shown(markets)[i].resolved /\ Shown(markets)[i].outcome = "YES") <=> markets[i].price = "one"
          /\ markets[i].price \in {"one", "zero"} =>
                  Shown(markets)[i].ask = None /\ Shown(markets)[i].bid = None
          /\ Shown(markets)[i].bid # None /\ Shown(markets)[i].ask # None =>
                  Shown(markets)[i].spread = Shown(markets)[i].ask - Shown(markets)[i].bid
      BY <3>1, ShownIs DEF Shown
    <3> QED BY <1>1, <3>2
  <2>2. DOMAIN Shown(markets) = DOMAIN markets
    BY DEF Shown, strip_untradeable_bucket_prices, hydrate_prices, parse_event_payload
  <2>3. Winners(Shown(markets)) = Yes(markets)
    BY <1>1, <2>1, <2>2 DEF Winners
  <2> QED BY <1>1, <2>1, <2>2, <2>3
<1>2. ASSUME winner # None
      PROVE  winning_label_from_event(after) = winner /\ is_event_resolved(before)
  <2>1. Winners(before) = Yes(now) /\ Winners(after) = Yes(later)
    BY <1>1 DEF SameEvent
  <2>2. Cardinality(Yes(now)) = 1 /\ winner = before[CHOOSE i \in Yes(now) : TRUE].label
    <3> HIDE DEF One, before
    <3> QED BY <1>2, <2>1, Zenon DEF winning_label_from_event
  <2>3. IsFiniteSet(Yes(now)) /\ IsFiniteSet(Yes(later))
    BY FS_Subset DEF SameEvent
  <2>4. PICK i : Yes(now) = {i}
    <3> HIDE DEF One
    <3> QED BY <2>2, <2>3, FS_Singleton
  <2>5. i \in DOMAIN now /\ i \in Yes(later)
    BY <2>4 DEF Later, SameEvent
  <2>6. Yes(later) = {i}
    <3> HIDE DEF One
    <3>1. {i} \in SUBSET Yes(later) /\ Cardinality({i}) = 1 /\ Cardinality(Yes(later)) \in Nat
      BY <2>3, <2>5, FS_Singleton, FS_CardinalityType
    <3>2. Cardinality({i}) <= Cardinality(Yes(later)) /\ (Cardinality(Yes(later)) = Cardinality({i}) => Yes(later) = {i})
      BY <2>3, <3>1, FS_Subset
    <3> QED BY <3>1, <3>2
  <2>7. (CHOOSE j \in {i} : TRUE) = i /\ Cardinality({i}) = 1
    BY FS_Singleton
  <2>8. winner = before[i].label
    <3> HIDE DEF before, One
    <3> QED BY <2>2, <2>4, <2>7
  <2>9. winning_label_from_event(after) = after[i].label
    <3> HIDE DEF after, One
    <3> QED BY <2>1, <2>6, <2>7 DEF winning_label_from_event
  <2>10. before[i].label = after[i].label
    <3>1. before[i].label = now[i].label /\ after[i].label = later[i].label
      BY <1>1, <2>5 DEF SameEvent
    <3> QED BY <2>5, <3>1 DEF SameEvent
  <2>11. is_event_resolved(before)
    <3>1. i \in Winners(before)
      BY <2>1, <2>4
    <3> HIDE DEF before
    <3> QED BY <3>1 DEF Winners, is_event_resolved
  <2> QED BY <2>8, <2>9, <2>10, <2>11
<1>3. ASSUME NEW i \in DOMAIN now
      PROVE  /\ now[i].price \in {"one", "zero"} => after[i].ask = None /\ after[i].bid = None
             /\ before[i].bid # None /\ before[i].ask # None => before[i].spread = before[i].ask - before[i].bid
  <2>1. DOMAIN later = DOMAIN now /\ (now[i].price \in {"one", "zero"} => later[i].price \in {"one", "zero"})
    BY DEF SameEvent, Later
  <2> QED BY <1>1, <2>1
<1> HIDE DEF before, after, winner
<1> QED BY <1>2, <1>3 DEF WinnerKept

-----------------------------------------------------------------------------
\* A product of non-negative integers grows with both of them.
LEMMA SquaresKeepOrder ==
  ASSUME NEW a \in Nat, NEW b \in Nat, a <= b
  PROVE  a * a <= b * b /\ a * a \in Nat
<1>1. a * a <= a * b /\ a * b <= b * b
  BY Z3
<1> QED BY <1>1, Z3

-----------------------------------------------------------------------------
(* Mean and spread.                                                        *)

\* The spread of some values is not negative.
LEMMA SquaresAre ==
  ASSUME NEW s \in Seq(Int), NEW shift \in Int, NEW scale \in Int
  PROVE  Squares(s, shift, scale) \in Nat
<1> DEFINE away == [i \in DOMAIN s |-> (scale * s[i] - shift) * (scale * s[i] - shift)]
<1>1. \A i \in DOMAIN s : away[i] \in Nat
  <2> TAKE i \in DOMAIN s
  <2> DEFINE x == scale * s[i] - shift
  <2>1. x \in Int
    OBVIOUS
  <2> HIDE DEF x
  <2>2. x * x \in Nat
    <3>1. CASE x >= 0
      BY <2>1, <3>1
    <3>2. CASE x < 0
      <4>1. x * x = (0 - x) * (0 - x) /\ 0 - x \in Nat
        BY <2>1, <3>2
      <4> QED BY <4>1
    <3> QED BY <2>1, <3>1, <3>2
  <2> QED BY <2>2 DEF x
<1>2. DOMAIN away = 1 .. Len(s) /\ IsFiniteSet(DOMAIN away)
  BY FS_Interval
<1>3. Squares(s, shift, scale) = SumFunctionOnSet(away, DOMAIN away)
  BY Zenon DEF Squares, SumUp, SumFunction
<1> HIDE DEF away
<1>4. SumFunctionOnSet(away, DOMAIN away) \in Nat
  <2>1. \A i \in DOMAIN away : away[i] \in Nat
    BY <1>1, <1>2
  <2> QED BY <1>2, <2>1, SumNotNegative
<1> QED BY <1>3, <1>4

\* The floor of a lead, in tenths of a degree.
LEMMA FloorsGrow ==
  ASSUME NEW lead \in Int
  PROVE  /\ lead_time_sigma_floor(lead) \in Nat /\ lead_time_sigma_floor(lead) > 0
         /\ \A later \in Int : later >= lead => lead_time_sigma_floor(lead) <= lead_time_sigma_floor(later)
  BY DEF lead_time_sigma_floor

(* A forecast with a lead is at least as wide as the floor of its lead, is  *)
(* not narrower at a later one, and no forecast is without spread, whatever *)
(* the values are.                                                          *)
THEOREM SpreadIsBounded ==
  ASSUME None \notin Int, NEW values \in Seq(Int), values # <<>>, NEW default \in Nat, default > 0,
         NEW lead \in Int \cup {None}, NEW later \in Int
  PROVE  SpreadBounds(values, default, lead, later)
<1> DEFINE n == Len(values)
           total == SumUp(values)
           squares == Squares(values, total, n)
           weight == n * n * (n - 1)
           base(x) == IF x = None THEN default ELSE lead_time_sigma_floor(x)
           var(x) == build_distribution(values, default, x).var
<1>1. n \in Nat /\ n >= 1
  OBVIOUS
<1>2. total \in Int
  <2>1. IsFiniteSet(DOMAIN values) /\ \A i \in DOMAIN values : values[i] \in Int
    BY FS_Interval
  <2>2. total = SumFunctionOnSet(values, DOMAIN values)
    BY Zenon DEF SumUp, SumFunction
  <2> QED BY <2>1, <2>2, SumType
<1>3. squares \in Nat
  <2> HIDE DEF total
  <2> QED BY <1>1, <1>2, SquaresAre
<1>4. weight \in Nat /\ (n > 1 => weight > 0)
  <2>1. n > 1 => n * n > 0 /\ n - 1 > 0
    BY <1>1, Z3
  <2>2. n * n \in Nat /\ n - 1 \in Nat
    BY <1>1, Z3
  <2> DEFINE a == n * n
             b == n - 1
  <2> HIDE DEF a, b, n
  <2>3. \A x, y \in Nat : x * y \in Nat /\ (x > 0 /\ y > 0 => x * y > 0)
    BY Z3
  <2> QED BY <2>1, <2>2, <2>3 DEF a, b
<1>5. \A x : var(x) = CASE n = 1 -> <<base(x) * base(x), 1>>
                        [] n > 1 /\ x # None -> <<base(x) * base(x) * weight + squares, weight>>
                        [] OTHER -> IF squares = 0 THEN <<base(x) * base(x), 1>> ELSE <<squares, weight>>
  <2> HIDE DEF squares, base
  <2> QED BY DEF build_distribution, squares, base
<1>6. base(lead) \in Nat /\ base(lead) > 0 /\ (later >= lead /\ lead # None => base(lead) <= base(later) /\ base(later) \in Nat)
  BY FloorsGrow
<1> DEFINE f == base(lead) * base(lead)
           g == base(later) * base(later)
<1>7. f \in Nat /\ f > 0 /\ (later >= lead /\ lead # None => f <= g /\ g \in Nat)
  <2> DEFINE x == base(lead)
             y == base(later)
  <2> HIDE DEF x, y, base
  <2>1. x \in Nat /\ x > 0 => x * x \in Nat /\ x * x > 0
    BY Z3
  <2>2. x \in Nat /\ y \in Nat /\ x <= y => x * x <= y * y /\ y * y \in Nat
    BY SquaresKeepOrder
  <2> QED BY <1>6, <2>1, <2>2 DEF x, y
<1> HIDE DEF base, squares, weight, n, total, f, g
<1>8. lead # None => later # None
  OBVIOUS
<1>9. ASSUME lead # None
      PROVE  /\ LessEq(<<f, 1>>, var(lead))
             /\ later >= lead => LessEq(var(lead), var(later))
             /\ var(lead)[1] > 0
  <2>1. CASE n = 1
    <3>1. var(lead) = <<f, 1>> /\ var(later) = <<g, 1>>
      BY <1>5, <2>1 DEF f, g
    <3> HIDE DEF var
    <3> QED BY <1>7, <1>9, <3>1 DEF LessEq
  <2>2. CASE n > 1
    <3>1. var(lead) = <<f * weight + squares, weight>> /\ var(later) = <<g * weight + squares, weight>>
      <4> HIDE DEF var
      <4>1. \A x : n > 1 /\ x # None => var(x) = <<base(x) * base(x) * weight + squares, weight>>
        <5> SUFFICES ASSUME NEW x, x # None
                     PROVE  var(x) = <<base(x) * base(x) * weight + squares, weight>>
          BY <2>2
        <5>1. n # 1
          BY <1>1, <2>2
        <5> QED BY <1>5, <2>2, <5>1
      <4> QED BY <1>8, <1>9, <2>2, <4>1 DEF f, g
    <3> HIDE DEF var
    <3>2. f * weight \in Nat /\ f * weight > 0
      <4>1. \A x, y \in Nat : x > 0 /\ y > 0 => x * y > 0 /\ x * y \in Nat
        BY Z3
      <4> QED BY <1>4, <1>7, <2>2, <4>1
    <3>3. LessEq(<<f, 1>>, var(lead)) /\ var(lead)[1] > 0
      <4> DEFINE a == f * weight + squares
      <4>1. a \in Nat /\ a > 0 /\ f * weight <= a
        BY <1>3, <3>2
      <4>2. var(lead) = <<a, weight>>
        BY <3>1
      <4> HIDE DEF a
      <4> QED BY <4>1, <4>2 DEF LessEq
    <3>4. ASSUME later >= lead
          PROVE  LessEq(var(lead), var(later))
      <4>1. f * weight <= g * weight /\ g * weight \in Nat
        <5>1. \A x, y, z \in Nat : x <= y => x * z <= y * z /\ y * z \in Nat
          BY Z3
        <5> QED BY <1>4, <1>7, <1>9, <3>4, <5>1
      <4> DEFINE a == f * weight + squares
                 b == g * weight + squares
      <4>2. a \in Nat /\ b \in Nat /\ a <= b
        BY <1>3, <3>2, <4>1
      <4> HIDE DEF a, b
      <4>3. a * weight <= b * weight
        <5>1. \A x, y, z \in Nat : x <= y => x * z <= y * z
          BY Z3
        <5> QED BY <1>4, <4>2, <5>1
      <4> QED BY <3>1, <4>3 DEF LessEq, a, b
    <3> QED BY <3>3, <3>4
  <2> QED BY <1>1, <2>1, <2>2
<1>10. ASSUME lead = None
       PROVE  var(lead)[1] > 0
  <2>1. \/ var(lead) = <<f, 1>>
        \/ squares # 0 /\ var(lead) = <<squares, weight>>
    BY <1>1, <1>5, <1>10 DEF f
  <2> HIDE DEF var
  <2> QED BY <1>3, <1>7, <2>1
<1>11. lead # None => f = lead_time_sigma_floor(lead) * lead_time_sigma_floor(lead)
  BY DEF f, base
<1> HIDE DEF var
<1> QED BY <1>9, <1>10, <1>11 DEF SpreadBounds, var

-----------------------------------------------------------------------------
(* What the market believes.                                               *)

\* A ladder of buckets: its ends are integers, where they are not open.
Ladders(buckets) ==
    /\ \E n \in Nat : DOMAIN buckets = 1 .. n
    /\ \A i \in DOMAIN buckets :
          /\ buckets[i].lower = None \/ buckets[i].lower \in Int
          /\ buckets[i].upper = None \/ buckets[i].upper \in Int
          /\ buckets[i].lower # None \/ buckets[i].upper # None
          /\ buckets[i].lower # None /\ buckets[i].upper # None => buckets[i].lower <= buckets[i].upper

\* What is read out of a label that is understood.
LEMMA LaddersAreRead ==
  ASSUME None \notin Int, NEW labels, NEW n \in Nat, DOMAIN labels = 1 .. n,
         \A i \in DOMAIN labels :
             /\ labels[i].form \in {"above", "or_below", "or_higher", "range", "single"}
             /\ labels[i].lo \in Int /\ labels[i].hi \in Int
             /\ labels[i].form = "range" => labels[i].lo <= labels[i].hi
  PROVE  Ladders([i \in DOMAIN labels |-> parse_temperature_bucket(labels[i])])
<1> DEFINE buckets == [i \in DOMAIN labels |-> parse_temperature_bucket(labels[i])]
<1>1. ASSUME NEW i \in DOMAIN labels
      PROVE  LET b == parse_temperature_bucket(labels[i])
             IN  /\ b.lower = None \/ b.lower \in Int
                 /\ b.upper = None \/ b.upper \in Int
                 /\ b.lower # None \/ b.upper # None
                 /\ b.lower # None /\ b.upper # None => b.lower <= b.upper
  <2> DEFINE l == labels[i]
             b == parse_temperature_bucket(l)
  <2>1. l.lo \in Int /\ l.hi \in Int /\ (l.form = "range" => l.lo <= l.hi)
    OBVIOUS
  <2>2. l.form \in {"above", "or_below", "or_higher", "range", "single"}
    OBVIOUS
  <2> HIDE DEF l
  <2>3. CASE l.form = "above"
    <3>1. b.lower = l.lo * 10 + 5 /\ b.upper = None
      BY <2>3 DEF parse_temperature_bucket, Degree, Half
    <3> QED BY <2>1, <3>1 DEF l
  <2>4. CASE l.form = "or_below"
    <3>1. b.lower = None /\ b.upper = l.lo * 10 + 5
      BY <2>4 DEF parse_temperature_bucket, Degree, Half
    <3> QED BY <2>1, <3>1 DEF l
  <2>5. CASE l.form = "or_higher"
    <3>1. b.lower = l.lo * 10 - 5 /\ b.upper = None
      BY <2>5 DEF parse_temperature_bucket, Degree, Half
    <3> QED BY <2>1, <3>1 DEF l
  <2>6. CASE l.form = "range"
    <3>1. b.lower = l.lo * 10 - 5 /\ b.upper = l.hi * 10 + 5
      BY <2>1, <2>6 DEF parse_temperature_bucket, Degree, Half
    <3> QED BY <2>1, <2>6, <3>1 DEF l
  <2>7. CASE l.form = "single"
    <3>1. b.lower = l.lo * 10 - 5 /\ b.upper = l.lo * 10 + 5
      BY <2>7 DEF parse_temperature_bucket, Degree, Half
    <3> QED BY <2>1, <3>1 DEF l
  <2> QED BY <2>2, <2>3, <2>4, <2>5, <2>6, <2>7
<1>2. DOMAIN buckets = 1 .. n /\ \A i \in DOMAIN labels : buckets[i] = parse_temperature_bucket(labels[i])
  OBVIOUS
<1> HIDE DEF buckets
<1> QED BY <1>1, <1>2 DEF Ladders, buckets

(* Taking the market's spread makes a forecast no wider, but for the        *)
(* smallest sigma there is, and it is taken only near the market's mean,    *)
(* for any buckets and prices.                                              *)
THEOREM TheCapTightens ==
  ASSUME None \notin Int, NEW mean \in Int, NEW sigma \in Int,
         NEW labels, NEW n \in Nat, n >= 1, DOMAIN labels = 1 .. n,
         \A i \in DOMAIN labels :
             /\ labels[i].form \in {"above", "or_below", "or_higher", "range", "single"}
             /\ labels[i].lo \in Int /\ labels[i].hi \in Int
             /\ labels[i].form = "range" => labels[i].lo <= labels[i].hi,
         NEW asks, \A i \in DOMAIN labels : asks[i] \in Int \cup {None}
  PROVE  CapOnlyTightens(mean, sigma, labels, asks)
<1> DEFINE buckets == [i \in DOMAIN labels |-> parse_temperature_bucket(labels[i])]
           market == compute_market_implied_summary(buckets, asks)
           cap == cap_sigma_to_market(mean, sigma, buckets, asks)
           weight(i) == IF asks[i] = None THEN 0 ELSE asks[i]
           origin == bucket_center_c(buckets[1])
           away(i) == bucket_center_c(buckets[i]) - origin
           total == SumUp([i \in DOMAIN buckets |-> weight(i)])
           first == SumUp([i \in DOMAIN buckets |-> weight(i) * away(i)])
           second == SumUp([i \in DOMAIN buckets |-> weight(i) * away(i) * away(i)])
<1>1. Ladders(buckets) /\ DOMAIN buckets = 1 .. n
  BY LaddersAreRead
<1> HIDE DEF buckets
<1>2. \A i \in 1 .. n : bucket_center_c(buckets[i]) \in Int
  <2> TAKE i \in 1 .. n
  <2>1. \A x, y \in Int : (x + y) \div 2 \in Int
    OBVIOUS
  <2> QED BY <1>1, <2>1 DEF bucket_center_c, Ladders, Half
<1>3. origin \in Int /\ \A i \in 1 .. n : weight(i) \in Int /\ away(i) \in Int
  BY <1>2
<1>4. market = Moments(origin, total, first, second)
  BY Zenon DEF compute_market_implied_summary
<1> HIDE DEF weight, away, origin
<1>5. ASSUME NEW w, DOMAIN w = 1 .. n, \A i \in 1 .. n : w[i] \in Int
      PROVE  SumUp(w) \in Int
  <2>1. SumUp(w) = SumFunctionOnSet(w, DOMAIN w)
    BY Zenon DEF SumUp, SumFunction
  <2>2. IsFiniteSet(1 .. n)
    BY FS_Interval
  <2> QED BY <1>5, <2>1, <2>2, SumType
<1>6. total \in Int /\ first \in Int /\ second \in Int
  <2>1. \A i \in 1 .. n : weight(i) \in Int /\ weight(i) * away(i) \in Int /\ weight(i) * away(i) * away(i) \in Int
    BY <1>3
  <2>2. total \in Int
    BY <1>1, <1>5, <2>1
  <2>3. first \in Int
    BY <1>1, <1>5, <2>1
  <2>4. second \in Int
    BY <1>1, <1>5, <2>1
  <2> QED BY <2>2, <2>3, <2>4
<1> HIDE DEF total, first, second, market
<1>7. ASSUME market # None
      PROVE  /\ market.var[1] \in Int /\ market.var[2] \in Int
             /\ market.mean[1] \in Int /\ market.mean[2] \in Int
  <2>1. market = [mean |-> <<total * origin + first, total>>,
                  var |-> <<total * second - first * first, total * total>>]
    BY <1>4, <1>7 DEF Moments
  <2> QED BY <1>3, <1>6, <2>1
<1>8. cap = CapTo(market, mean, sigma)
  BY Zenon DEF cap_sigma_to_market, market
<1> HIDE DEF cap
<1> DEFINE far == AbsDiff(mean * market.mean[2], market.mean[1]) > Degree * market.mean[2]
           wide == market.var[1] >= sigma * sigma * market.var[2]
<1>9. CASE market = None \/ far \/ wide
  <2>1. cap = [applied |-> FALSE, var |-> <<sigma * sigma, 1>>]
    BY <1>8, <1>9 DEF CapTo
  <2>2. LessEq(cap.var, <<sigma * sigma, 1>>)
    BY <2>1 DEF LessEq
  <2> QED BY <2>1, <2>2 DEF Tightens, CapOnlyTightens, market, cap, buckets
<1>10. CASE market # None /\ ~far /\ ~wide
  <2> DEFINE v1 == market.var[1]
             v2 == market.var[2]
  <2>1. cap = [applied |-> TRUE, var |-> IF v1 >= v2 THEN market.var ELSE MinCappedVariance]
    BY <1>8, <1>10 DEF CapTo
  <2>2. AbsDiff(mean * market.mean[2], market.mean[1]) <= Degree * market.mean[2]
    <3>1. mean * market.mean[2] \in Int /\ Degree * market.mean[2] \in Int
      BY <1>7, <1>10 DEF Degree
    <3> QED BY <1>7, <1>10, <3>1 DEF AbsDiff
  <2>3. v1 \in Int /\ v2 \in Int /\ v1 < sigma * sigma * v2
    <3>1. sigma * sigma * v2 \in Int
      BY <1>7, <1>10
    <3> QED BY <1>7, <1>10, <3>1
  <2>4. CASE v1 >= v2
    <3>1. cap.applied = TRUE /\ cap.var = market.var
      BY <2>1, <2>4
    <3>2. LessEq(cap.var, <<sigma * sigma, 1>>)
      <4>1. sigma * sigma * v2 = (sigma * sigma) * v2
        OBVIOUS
      <4> QED BY <2>3, <3>1, <4>1 DEF LessEq
    <3>3. LessEq(market.var, cap.var)
      BY <2>3, <3>1 DEF LessEq
    <3> QED BY <1>10, <2>2, <3>1, <3>2, <3>3 DEF Tightens, CapOnlyTightens, market, cap, buckets
  <2>5. CASE ~(v1 >= v2)
    <3>1. cap.applied = TRUE /\ cap.var = MinCappedVariance
      BY <2>1, <2>5
    <3>2. LessEq(market.var, cap.var)
      BY <2>3, <2>5, <3>1 DEF LessEq, MinCappedVariance
    <3> QED BY <1>10, <2>2, <3>1, <3>2 DEF Tightens, CapOnlyTightens, market, cap, buckets
  <2> QED BY <2>4, <2>5
<1> QED BY <1>9, <1>10

-----------------------------------------------------------------------------
(* Masses.                                                                 *)

\* The bell has a part of its mass below every value, more below a greater one.
LEMMA BellGrows ==
  ASSUME NEW mu \in Int, NEW sigma \in Nat, NEW x \in Int, NEW y \in Int, x <= y
  PROVE  /\ _normal_cdf(x, mu, sigma) \in Nat
         /\ _normal_cdf(x, mu, sigma) <= _normal_cdf(y, mu, sigma)
         /\ _normal_cdf(y, mu, sigma) <= BellMass(sigma)
         /\ BellMass(sigma) \in Nat
<1> DEFINE r == 2 * sigma
           all == BellMass(sigma)
           Part(u) == CASE u <= 0 -> 0
                        [] 0 < u /\ u <= r -> u * u
                        [] r < u /\ u < 2 * r -> all - (2 * r - u) * (2 * r - u)
                        [] OTHER -> all
           Mass(z) == _normal_cdf(z, mu, sigma)
<1>1. \A z : Mass(z) = Part(z - mu + r)
  BY DEF _normal_cdf
<1>2. r \in Nat /\ all = 2 * (r * r) /\ r * r \in Nat /\ all \in Nat
  BY DEF BellMass
<1> HIDE DEF r, all, Mass
<1>3. \A u \in Int : u <= 0 => Part(u) = 0
  BY <1>2
<1>4. \A u \in Int : 0 < u /\ u <= r => Part(u) = u * u
  BY <1>2
<1>5. \A u \in Int : r < u /\ u < 2 * r => Part(u) = all - (2 * r - u) * (2 * r - u)
  BY <1>2
<1>6. \A u \in Int : u > r /\ u >= 2 * r => Part(u) = all
  BY <1>2
<1> HIDE DEF Part
<1>7. ASSUME NEW u \in Int
      PROVE  \/ u <= 0 /\ Part(u) = 0
             \/ 0 < u /\ u <= r /\ Part(u) = u * u /\ u * u \in Nat /\ u * u <= r * r
             \/ r < u /\ u < 2 * r /\ Part(u) \in Nat /\ r * r <= Part(u) /\ Part(u) <= all
             \/ u > 0 /\ u >= 2 * r /\ Part(u) = all
  <2>1. CASE u <= 0
    BY <1>3, <2>1
  <2>2. CASE 0 < u /\ u <= r
    <3>1. u \in Nat /\ u * u <= r * r /\ u * u \in Nat
      BY <1>2, <2>2, SquaresKeepOrder
    <3> QED BY <1>4, <2>2, <3>1
  <2>3. CASE r < u /\ u < 2 * r
    <3> DEFINE d == 2 * r - u
    <3>1. d \in Nat /\ d <= r
      BY <1>2, <2>3
    <3>2. Part(u) = all - d * d
      BY <1>5, <2>3
    <3> HIDE DEF d
    <3>3. d * d <= r * r /\ d * d \in Nat
      BY <1>2, <3>1, SquaresKeepOrder
    <3> QED BY <1>2, <2>3, <3>2, <3>3
  <2>4. CASE u > 0 /\ u > r /\ u >= 2 * r
    BY <1>6, <2>4
  <2> QED BY <1>2, <2>1, <2>2, <2>3, <2>4
<1>8. ASSUME NEW u \in Int, NEW v \in Int, u <= v
      PROVE  Part(u) \in Nat /\ Part(u) <= Part(v) /\ Part(v) <= all
  <2>1. Part(u) \in Nat /\ Part(v) \in Nat /\ Part(v) <= all
    BY <1>2, <1>7
  <2>2. CASE 0 < u /\ v <= r
    <3>1. u \in Nat /\ v \in Nat /\ u * u <= v * v
      BY <1>2, <1>8, <2>2, SquaresKeepOrder
    <3>2. Part(u) = u * u /\ Part(v) = v * v
      BY <1>2, <1>4, <1>8, <2>2
    <3> QED BY <2>1, <3>1, <3>2
  <2>3. CASE r < u /\ v < 2 * r
    <3> DEFINE d == 2 * r - u
               e == 2 * r - v
    <3>1. d \in Nat /\ e \in Nat /\ e <= d
      BY <1>2, <1>8, <2>3
    <3>2. Part(u) = all - d * d /\ Part(v) = all - e * e
      BY <1>2, <1>5, <1>8, <2>3
    <3> HIDE DEF d, e
    <3>3. e * e <= d * d /\ e * e \in Nat /\ d * d \in Nat
      BY <3>1, SquaresKeepOrder
    <3> QED BY <1>2, <2>1, <3>2, <3>3
  <2>4. CASE ~(0 < u /\ v <= r) /\ ~(r < u /\ v < 2 * r)
    <3>1. CASE u <= 0
      BY <1>3, <2>1, <3>1
    <3>2. CASE u > 0 /\ v >= 2 * r /\ v > r
      BY <1>2, <1>6, <1>7, <3>2
    <3>3. CASE u > 0 /\ u <= r /\ r < v /\ v < 2 * r
      <4>1. Part(u) <= r * r
        BY <1>2, <1>7, <3>3
      <4>2. r * r <= Part(v)
        BY <1>2, <1>7, <3>3
      <4> QED BY <1>2, <2>1, <4>1, <4>2
    <3> QED BY <1>2, <1>8, <2>4, <3>1, <3>2, <3>3
  <2> QED BY <2>2, <2>3, <2>4
<1>9. x - mu + r \in Int /\ y - mu + r \in Int /\ x - mu + r <= y - mu + r
  BY <1>2
<1>10. Mass(x) \in Nat /\ Mass(x) <= Mass(y) /\ Mass(y) <= all
  BY <1>1, <1>8, <1>9
<1> QED BY <1>2, <1>10 DEF Mass, all

\* No bucket is given a mass below nothing, or above everything.
LEMMA MassesAre ==
  ASSUME None \notin Int, NEW mu \in Int, NEW sigma \in Nat, NEW buckets, Ladders(buckets),
         NEW i \in DOMAIN buckets
  PROVE  probability_for_bucket(mu, sigma, buckets[i]) \in Nat
<1> DEFINE lower == buckets[i].lower
           upper == buckets[i].upper
           over == IF upper = None THEN BellMass(sigma) ELSE _normal_cdf(upper, mu, sigma)
           under == IF lower = None THEN 0 ELSE _normal_cdf(lower, mu, sigma)
<1>1. probability_for_bucket(mu, sigma, buckets[i]) = over - under
  BY DEF probability_for_bucket
<1>2. /\ lower = None \/ lower \in Int
      /\ upper = None \/ upper \in Int
      /\ lower # None /\ upper # None => lower <= upper
  BY DEF Ladders
<1> HIDE DEF lower, upper
<1>3. BellMass(sigma) \in Nat /\ over \in Nat /\ under \in Nat
  <2>1. BellMass(sigma) \in Nat
    BY DEF BellMass
  <2>2. \A x \in Int : _normal_cdf(x, mu, sigma) \in Nat /\ _normal_cdf(x, mu, sigma) <= BellMass(sigma)
    BY BellGrows
  <2> QED BY <1>2, <2>1, <2>2
<1>4. under <= over
  <2>1. CASE lower = None
    BY <1>3, <2>1
  <2>2. CASE lower # None /\ upper = None
    <3>1. _normal_cdf(lower, mu, sigma) <= BellMass(sigma)
      <4>1. lower \in Int /\ lower <= lower
        BY <1>2, <2>2
      <4> QED BY <4>1, BellGrows
    <3> QED BY <2>2, <3>1
  <2>3. CASE lower # None /\ upper # None
    <3>1. _normal_cdf(lower, mu, sigma) <= _normal_cdf(upper, mu, sigma)
      BY <1>2, <2>3, BellGrows
    <3> QED BY <2>3, <3>1
  <2> QED BY <2>1, <2>2, <2>3
<1> HIDE DEF over, under
<1> QED BY <1>1, <1>3, <1>4

\* Masses with a total, or none at all.
LEMMA OfTotalIs ==
  ASSUME NEW mass, NEW n \in Nat, DOMAIN mass = 1 .. n, \A i \in 1 .. n : mass[i] \in Nat
  PROVE  /\ SumUp(mass) = SumFunctionOnSet(mass, 1 .. n) /\ SumUp(mass) \in Nat
         /\ \A i \in 1 .. n : mass[i] <= SumUp(mass)
         /\ OfTotal(mass) # None =>
                SumUp(mass) # 0 /\ OfTotal(mass).mass = mass /\ OfTotal(mass).total = SumUp(mass)
<1>1. SumUp(mass) = SumFunctionOnSet(mass, 1 .. n)
  BY Zenon DEF SumUp, SumFunction
<1>2. IsFiniteSet(1 .. n)
  BY FS_Interval
<1>3. SumFunctionOnSet(mass, 1 .. n) \in Nat
  BY <1>2, SumNotNegative
<1>4. ASSUME NEW i \in 1 .. n
      PROVE  mass[i] <= SumFunctionOnSet(mass, 1 .. n)
  <2>1. SumFunctionOnSet(mass, 1 .. n) = mass[i] + SumFunctionOnSet(mass, (1 .. n) \ {i})
    <3>1. \A j \in 1 .. n : mass[j] \in Int
      OBVIOUS
    <3> QED BY <1>2, <3>1, SumSplit
  <2>2. SumFunctionOnSet(mass, (1 .. n) \ {i}) \in Nat
    <3>1. IsFiniteSet((1 .. n) \ {i}) /\ \A j \in (1 .. n) \ {i} : mass[j] \in Nat
      BY <1>2, FS_Subset
    <3> QED BY <3>1, SumNotNegative
  <2> QED BY <2>1, <2>2
<1>5. OfTotal(mass) # None =>
          SumUp(mass) # 0 /\ OfTotal(mass).mass = mass /\ OfTotal(mass).total = SumUp(mass)
  BY DEF OfTotal
<1> QED BY <1>1, <1>3, <1>4, <1>5

(* After an observation nothing keeps mass that it has beaten, unless it    *)
(* has beaten everything that had any; what is left keeps its odds and      *)
(* shares everything, for any buckets and any forecast.                     *)
THEOREM ObservationsRule ==
  ASSUME None \notin Int, \A mass, total : [mass |-> mass, total |-> total] # None,
         NEW mu \in Int, NEW sigma \in Nat, NEW floor,
         NEW labels, NEW n \in Nat, DOMAIN labels = 1 .. n,
         \A i \in DOMAIN labels :
             /\ labels[i].form \in {"above", "or_below", "or_higher", "range", "single"}
             /\ labels[i].lo \in Int /\ labels[i].hi \in Int
             /\ labels[i].form = "range" => labels[i].lo <= labels[i].hi
  PROVE  ObservationRules(labels, mu, sigma, floor)
<1> DEFINE buckets == [i \in DOMAIN labels |-> parse_temperature_bucket(labels[i])]
           mass == [i \in DOMAIN buckets |-> probability_for_bucket(mu, sigma, buckets[i])]
           before == OfTotal(mass)
           beaten == Beaten(buckets, floor)
           alive == DOMAIN buckets \ beaten
           after == condition_probabilities_on_observed_floor(before, buckets, floor)
<1>1. Ladders(buckets) /\ DOMAIN buckets = 1 .. n
  BY LaddersAreRead
<1>2. probabilities_for_buckets(mu, sigma, buckets) = before
  BY Zenon DEF probabilities_for_buckets
<1> SUFFICES ASSUME before # None
             PROVE  /\ SumUp(after.mass) = after.total
                    /\ (\E i \in alive : before.mass[i] > 0) =>
                          \A i \in DOMAIN after.mass \ alive : after.mass[i] = 0
                    /\ \A i, j \in alive : after.mass[i] * before.mass[j] = after.mass[j] * before.mass[i]
                    /\ \A i \in alive : before.mass[i] * after.total <= after.mass[i] * before.total
  <2> HIDE DEF before, after, alive, buckets
  <2>1. Conditioned(before, after, alive)
    BY DEF Conditioned
  <2> QED BY <1>2, <2>1, Zenon DEF ObservationRules, FloorRules, ConditionedOn, buckets, after, alive
<1> HIDE DEF buckets
<1>3. DOMAIN mass = 1 .. n /\ \A i \in 1 .. n : mass[i] \in Nat
  BY <1>1, MassesAre
<1> HIDE DEF mass
<1>4. before.mass = mass /\ before.total = SumUp(mass)
  BY <1>3, OfTotalIs
<1> DEFINE kept == [i \in DOMAIN buckets |-> IF i \in beaten THEN 0 ELSE before.mass[i]]
           left == OfTotal(kept)
<1>5. after = IF beaten = {} \/ left = None THEN before ELSE left
  <2> HIDE DEF before
  <2> QED BY Zenon DEF condition_probabilities_on_observed_floor
<1>6. beaten \subseteq DOMAIN buckets
  BY DEF Beaten
<1> HIDE DEF before, beaten
<1>7. /\ DOMAIN kept = 1 .. n
      /\ \A i \in 1 .. n : kept[i] = (IF i \in beaten THEN 0 ELSE mass[i]) /\ kept[i] \in Nat
  BY <1>1, <1>3, <1>4
<1> HIDE DEF kept
<1>8. SumUp(mass) \in Nat /\ \A i \in 1 .. n : mass[i] <= SumUp(mass)
  BY <1>3, OfTotalIs
<1>9. /\ SumUp(kept) \in Nat /\ \A i \in 1 .. n : kept[i] <= SumUp(kept)
      /\ left # None => left.mass = kept /\ left.total = SumUp(kept)
  <2>1. \A i \in 1 .. n : kept[i] \in Nat
    BY <1>7
  <2> QED BY <1>7, <2>1, OfTotalIs
<1>10. SumUp(kept) <= SumUp(mass)
  <2> DEFINE rest == (1 .. n) \ beaten
             S == 1 .. n
  <2>1. IsFiniteSet(S) /\ rest \subseteq S
    BY FS_Interval
  <2>2. SumUp(kept) = SumFunctionOnSet(kept, S) /\ SumUp(mass) = SumFunctionOnSet(mass, S)
    <3>1. \A i \in 1 .. n : kept[i] \in Nat
      BY <1>7
    <3>2. SumUp(kept) = SumFunctionOnSet(kept, S)
      BY <1>7, <3>1, OfTotalIs
    <3>3. SumUp(mass) = SumFunctionOnSet(mass, S)
      BY <1>3, OfTotalIs
    <3> QED BY <3>2, <3>3
  <2>3. IsFiniteSet(rest) /\ IsFiniteSet(S \ rest)
    BY <2>1, FS_Subset
  <2>4. \A i \in S \ rest : kept[i] = 0
    BY <1>7
  <2>5. \A i \in rest : kept[i] = mass[i]
    BY <1>7
  <2>6. (\A i \in S : kept[i] \in Int) /\ (\A i \in S : mass[i] \in Nat)
    BY <1>3, <1>7
  <2>7. rest \cup (S \ rest) = S /\ rest \cap (S \ rest) = {}
    BY <2>1
  <2> HIDE DEF rest, S
  <2>8. SumFunctionOnSet(kept, S \ rest) = 0
    BY <2>3, <2>4, SumOfZeros
  <2>9. SumFunctionOnSet(kept, rest) = SumFunctionOnSet(mass, rest)
    BY <2>3, <2>5, SumSame
  <2>10. SumFunctionOnSet(mass, rest) <= SumFunctionOnSet(mass, S)
    BY <2>1, <2>6, SumOfSubset
  <2>11. SumFunctionOnSet(kept, S) = SumFunctionOnSet(kept, rest) + SumFunctionOnSet(kept, S \ rest)
    <3>1. \A i \in rest \cup (S \ rest) : kept[i] \in Int
      BY <2>6, <2>7
    <3>2. SumFunctionOnSet(kept, rest \cup (S \ rest)) = SumFunctionOnSet(kept, rest) + SumFunctionOnSet(kept, S \ rest)
      BY <2>3, <2>7, <3>1, SumOfDisjoint
    <3> QED BY <2>7, <3>2
  <2>12. SumFunctionOnSet(kept, rest) \in Int
    <3>1. \A i \in rest : kept[i] \in Int
      BY <2>1, <2>6
    <3> QED BY <2>3, <3>1, SumType
  <2> QED BY <2>2, <2>8, <2>9, <2>10, <2>11, <2>12
<1>11. alive \subseteq 1 .. n /\ \A i \in alive : kept[i] = mass[i] /\ mass[i] \in Nat
  BY <1>1, <1>3, <1>7
<1>12. CASE beaten = {} \/ left = None
  <2>1. after = before
    BY <1>5, <1>12
  <2>2. ASSUME NEW k \in alive, before.mass[k] > 0
        PROVE  beaten = {}
    <3>1. kept[k] > 0 /\ SumUp(kept) # 0
      <4>1. kept[k] = mass[k] /\ mass[k] > 0 /\ k \in 1 .. n
        BY <1>4, <1>11, <2>2
      <4>2. kept[k] <= SumUp(kept)
        BY <1>9, <4>1
      <4> QED BY <1>9, <1>11, <4>1, <4>2
    <3>2. left # None
      BY <3>1 DEF OfTotal
    <3> QED BY <1>12, <3>2
  <2>3. DOMAIN after.mass \ alive = beaten
    BY <1>1, <1>3, <1>4, <1>6, <2>1
  <2>4. \A i \in alive : mass[i] * SumUp(mass) <= mass[i] * SumUp(mass)
    <3>1. \A i \in alive : mass[i] * SumUp(mass) \in Int
      BY <1>8, <1>11
    <3> QED BY <3>1
  <2> HIDE DEF alive, after, left
  <2>5. \A i, j \in alive : mass[i] * mass[j] = mass[j] * mass[i]
    BY <1>11
  <2> QED BY <1>4, <2>1, <2>2, <2>3, <2>4, <2>5
<1>13. CASE ~(beaten = {} \/ left = None)
  <2>1. after.mass = kept /\ after.total = SumUp(kept)
    BY <1>5, <1>9, <1>13
  <2>2. \A i \in DOMAIN after.mass \ alive : after.mass[i] = 0
    BY <1>1, <1>7, <2>1
  <2> HIDE DEF alive, after, left
  <2>3. \A i, j \in alive : kept[i] * mass[j] = kept[j] * mass[i]
    <3> TAKE i, j \in alive
    <3>1. kept[i] = mass[i] /\ kept[j] = mass[j] /\ mass[i] \in Nat /\ mass[j] \in Nat
      BY <1>11
    <3> QED BY <3>1
  <2>4. ASSUME NEW i \in alive
        PROVE  mass[i] * SumUp(kept) <= kept[i] * SumUp(mass)
    <3> DEFINE a == mass[i]
               x == SumUp(kept)
               y == SumUp(mass)
    <3>1. a \in Nat /\ x \in Nat /\ y \in Nat /\ x <= y /\ kept[i] = a
      BY <1>8, <1>9, <1>10, <1>11
    <3> HIDE DEF a, x, y
    <3>2. a * x <= a * y
      BY <3>1, Z3
    <3> QED BY <3>1, <3>2 DEF a, x, y
  <2> QED BY <1>4, <2>1, <2>2, <2>3, <2>4
<1> QED BY <1>12, <1>13

\* The cells of an interval together have what lies between its ends.
LEMMA CellsTelescope ==
  ASSUME NEW f, \A x \in Int : f[x] \in Int,
         NEW lo \in Int, NEW hi \in Int, lo <= hi,
         NEW cells, \A x : x \in cells <=> x \in Int /\ lo <= x /\ x < hi,
         NEW w, \A x \in cells : w[x] = f[x + 1] - f[x]
  PROVE  SumFunctionOnSet(w, cells) = f[hi] - f[lo]
<1> DEFINE n == hi - lo
           F == {k \in 0 .. n : SumFunctionOnSet(w, lo .. lo + k - 1) = f[lo + k] - f[lo]}
<1>1. n \in Nat
  OBVIOUS
<1>2. 0 \in F
  <2>1. lo .. lo + 0 - 1 = {} /\ f[lo] \in Int /\ lo + 0 = lo
    OBVIOUS
  <2>2. SumFunctionOnSet(w, lo .. lo + 0 - 1) = f[lo + 0] - f[lo]
    BY <2>1, SumEmpty
  <2> QED BY <1>1, <2>2
<1>3. ASSUME NEW k \in 0 .. n - 1, k \in F
      PROVE  k + 1 \in F
  <2> DEFINE S == lo .. lo + k - 1
             y == lo + k
  <2>1. IsFiniteSet(S) /\ y \notin S /\ S \cup {y} = lo .. lo + (k + 1) - 1
    <3>1. IsFiniteSet(S)
      BY FS_Interval
    <3>2. lo \in Int /\ k \in Nat
      BY <1>1
    <3>3. y \notin S /\ S \cup {y} = lo .. lo + (k + 1) - 1
      BY ONLY <3>2
    <3> QED BY <3>1, <3>3
  <2>2. \A x \in S \cup {y} : w[x] \in Int
    <3>1. S \cup {y} \subseteq cells /\ \A x \in cells : x \in Int /\ x + 1 \in Int
      BY <1>1
    <3> QED BY <3>1
  <2>3. w[y] = f[y + 1] - f[y] /\ f[y] \in Int /\ f[y + 1] \in Int /\ f[lo] \in Int
    OBVIOUS
  <2>4. SumFunctionOnSet(w, S) = f[y] - f[lo]
    BY <1>3
  <2>5. y + 1 = lo + (k + 1) /\ k + 1 \in 0 .. n
    BY <1>1
  <2> HIDE DEF S, y
  <2>6. SumFunctionOnSet(w, S \cup {y}) = SumFunctionOnSet(w, S) + w[y]
    <3>1. IsFiniteSet(S) /\ y \notin S
      BY <2>1
    <3> QED BY ONLY <3>1, <2>2, SumWith
  <2>7. SumFunctionOnSet(w, lo .. lo + (k + 1) - 1) = f[lo + (k + 1)] - f[lo]
    <3>1. SumFunctionOnSet(w, lo .. lo + (k + 1) - 1) = (f[y] - f[lo]) + w[y]
      BY <2>1, <2>4, <2>6, Zenon
    <3>2. (f[y] - f[lo]) + w[y] = f[y + 1] - f[lo]
      BY <2>3
    <3> QED BY <2>5, <3>1, <3>2, Zenon
  <2> QED BY <2>5, <2>7
<1> HIDE DEF F
<1>4. n \in F
  <2> HIDE DEF n
  <2> QED BY <1>1, <1>2, <1>3, CountUp
<1>5. SumFunctionOnSet(w, lo .. lo + n - 1) = f[lo + n] - f[lo]
  BY <1>4 DEF F
<1>6. lo + n = hi
  OBVIOUS
<1>7. lo .. lo + n - 1 = cells
  <2>1. lo + n - 1 = hi - 1
    OBVIOUS
  <2>2. \A x : x \in cells <=> x \in lo .. hi - 1
    <3>1. \A x : x \in lo .. hi - 1 <=> x \in Int /\ lo <= x /\ x < hi
      OBVIOUS
    <3> QED BY <3>1, Zenon
  <2>3. cells = lo .. hi - 1
    BY <2>2, Zenon
  <2> QED BY <2>1, <2>3, Zenon
<1> HIDE DEF n
<1> QED BY <1>5, <1>6, <1>7, Zenon

\* All the mass of the bell lies within two sigma of its mean.
LEMMA BellEnds ==
  ASSUME NEW mu \in Int, NEW sigma \in Nat, sigma > 0, NEW x \in Int
  PROVE  /\ x <= mu - 2 * sigma => _normal_cdf(x, mu, sigma) = 0
         /\ x >= mu + 2 * sigma => _normal_cdf(x, mu, sigma) = BellMass(sigma)
<1> DEFINE r == 2 * sigma
           u == x - mu + r
           all == BellMass(sigma)
<1>1. _normal_cdf(x, mu, sigma) =
          CASE u <= 0 -> 0
            [] 0 < u /\ u <= r -> u * u
            [] r < u /\ u < 2 * r -> all - (2 * r - u) * (2 * r - u)
            [] OTHER -> all
  BY DEF _normal_cdf
<1>2. r \in Nat /\ r > 0 /\ u \in Int
  OBVIOUS
<1>3. (x <= mu - 2 * sigma => u <= 0) /\ (x >= mu + 2 * sigma => u >= 2 * r)
  OBVIOUS
<1> HIDE DEF r, u, all
<1>4. u <= 0 => _normal_cdf(x, mu, sigma) = 0
  BY <1>1, <1>2
<1>5. u >= 2 * r => _normal_cdf(x, mu, sigma) = all
  BY <1>1, <1>2
<1> QED BY <1>3, <1>4, <1>5 DEF all

(* Where the buckets of an event cover the line, what they are given is     *)
(* everything there is, and each is given the mass of the values that are   *)
(* settled on it, for any labels and any forecast.                          *)
THEOREM OneBellForAllLabels ==
  ASSUME None \notin Int, NEW mu \in Int, NEW sigma \in Nat, sigma > 0,
         \A mass, total : [mass |-> mass, total |-> total] # None,
         NEW labels, NEW n \in Nat, DOMAIN labels = 1 .. n,
         \A i \in DOMAIN labels :
             /\ labels[i].form \in {"above", "or_below", "or_higher", "range", "single"}
             /\ labels[i].lo \in Int /\ labels[i].hi \in Int
             /\ labels[i].form = "range" => labels[i].lo <= labels[i].hi
  PROVE  LabelsShareOneBell(labels, mu, sigma)
<1> DEFINE buckets == [i \in DOMAIN labels |-> parse_temperature_bucket(labels[i])]
           a == mu - 2 * sigma - 1
           b == mu + 2 * sigma + 1
           line == a .. b
           mass == [i \in DOMAIN buckets |-> probability_for_bucket(mu, sigma, buckets[i])]
           probs == OfTotal(mass)
           settled(i) == {v \in line : bucket_label_for_value(v, buckets) = labels[i]}
           cells(i) == [v \in settled(i) |-> _normal_cdf(v + 1, mu, sigma) - _normal_cdf(v, mu, sigma)]
           all == BellMass(sigma)
<1>1. Ladders(buckets) /\ DOMAIN buckets = 1 .. n
  BY LaddersAreRead
<1>2. \A i \in 1 .. n : buckets[i].label = labels[i]
  <2> TAKE i \in 1 .. n
  <2>1. buckets[i] = parse_temperature_bucket(labels[i])
    OBVIOUS
  <2> QED BY <2>1 DEF parse_temperature_bucket
<1>3. \A i, j \in 1 .. n : labels[i] = labels[j] => buckets[i] = buckets[j]
  OBVIOUS
<1> SUFFICES ASSUME Covers(buckets, line)
             PROVE  /\ probs # None /\ probs.total = all
                    /\ \A i \in DOMAIN labels : probs.mass[i] = SumUp(cells(i))
  <2>1. probabilities_for_buckets(mu, sigma, buckets) = probs
    BY Zenon DEF probabilities_for_buckets
  <2> HIDE DEF probs, all
  <2> QED BY <2>1, Zenon DEF LabelsShareOneBell, all
<1> HIDE DEF buckets
<1>4. DOMAIN mass = 1 .. n /\ \A i \in 1 .. n : mass[i] \in Nat /\ mass[i] = probability_for_bucket(mu, sigma, buckets[i])
  BY <1>1, MassesAre
<1> HIDE DEF mass
<1> DEFINE f == [x \in Int |-> _normal_cdf(x, mu, sigma)]
           w == [v \in line |-> f[v + 1] - f[v]]
           held == [i \in 1 .. n |-> {v \in line : Holds(buckets[i], v)}]
<1>5. /\ \A x \in Int : f[x] \in Nat /\ (x <= a => f[x] = 0) /\ (x >= b => f[x] = all) /\ f[x] = _normal_cdf(x, mu, sigma)
      /\ a \in Int /\ b \in Int /\ a < b /\ all \in Nat /\ all > 0
  <2>1. \A x \in Int : f[x] = _normal_cdf(x, mu, sigma) /\ f[x] \in Nat
    <3> TAKE x \in Int
    <3>1. x <= x
      OBVIOUS
    <3> QED BY <3>1, BellGrows
  <2>2. \A x \in Int : (x <= mu - 2 * sigma => f[x] = 0) /\ (x >= mu + 2 * sigma => f[x] = all)
    BY <2>1, BellEnds
  <2>3. all = 8 * (sigma * sigma) /\ sigma * sigma \in Nat /\ sigma * sigma > 0
    BY Z3 DEF BellMass
  <2> HIDE DEF all, f
  <2> QED BY <2>1, <2>2, <2>3
<1>6. \A v \in line : w[v] = f[v + 1] - f[v] /\ w[v] = _normal_cdf(v + 1, mu, sigma) - _normal_cdf(v, mu, sigma) /\ w[v] \in Int
  <2> SUFFICES ASSUME NEW v \in line
               PROVE  w[v] = f[v + 1] - f[v] /\ w[v] = _normal_cdf(v + 1, mu, sigma) - _normal_cdf(v, mu, sigma) /\ w[v] \in Int
    OBVIOUS
  <2>1. v \in Int /\ v + 1 \in Int
    BY <1>5
  <2> HIDE DEF f, a, b
  <2> QED BY <1>5, <2>1
<1> HIDE DEF f, w, a, b, all
<1>7. ASSUME NEW i \in 1 .. n
      PROVE  mass[i] = SumFunctionOnSet(w, held[i])
  <2> DEFINE lower == buckets[i].lower
             upper == buckets[i].upper
             lo == IF lower = None \/ lower < a THEN a ELSE IF lower > b + 1 THEN b + 1 ELSE lower
             hi == IF upper = None \/ upper > b + 1 THEN b + 1 ELSE IF upper < a THEN a ELSE upper
             over == IF upper = None THEN BellMass(sigma) ELSE _normal_cdf(upper, mu, sigma)
             under == IF lower = None THEN 0 ELSE _normal_cdf(lower, mu, sigma)
  <2>1. mass[i] = over - under
    BY <1>4 DEF probability_for_bucket
  <2>2. /\ lower = None \/ lower \in Int
        /\ upper = None \/ upper \in Int
        /\ lower # None /\ upper # None => lower <= upper
    BY <1>1 DEF Ladders
  <2>3. held[i] = {v \in line : (lower # None => v >= lower) /\ (upper # None => v < upper)}
    BY DEF Holds
  <2> HIDE DEF lower, upper
  <2>4. lo \in Int /\ hi \in Int /\ a <= lo /\ lo <= hi /\ hi <= b + 1
    <3>1. a \in Int /\ b \in Int /\ a < b
      BY <1>5
    <3>2. CASE lower = None /\ upper = None
      BY <3>1, <3>2
    <3>3. CASE lower = None /\ upper # None
      <4>1. upper \in Int
        BY <2>2, <3>3
      <4> QED BY <3>1, <3>3, <4>1
    <3>4. CASE lower # None /\ upper = None
      <4>1. lower \in Int
        BY <2>2, <3>4
      <4> QED BY <3>1, <3>4, <4>1
    <3>5. CASE lower # None /\ upper # None
      <4>1. lower \in Int /\ upper \in Int /\ lower <= upper
        BY <2>2, <3>5
      <4> QED BY <3>1, <3>5, <4>1
    <3> QED BY <3>2, <3>3, <3>4, <3>5
  <2>5. held[i] = lo .. hi - 1
    BY <1>5, <2>2, <2>3
  <2>6. over = f[hi]
    <3>1. CASE upper = None
      BY <1>5, <3>1 DEF all
    <3>2. CASE upper # None
      <4>1. over = f[upper] /\ upper \in Int
        BY <1>5, <2>2, <3>2
      <4> HIDE DEF over
      <4> QED BY <1>5, <3>2, <4>1
    <3> QED BY <3>1, <3>2
  <2>7. under = f[lo]
    <3>1. CASE lower = None
      BY <1>5, <3>1
    <3>2. CASE lower # None
      <4>1. under = f[lower] /\ lower \in Int
        BY <1>5, <2>2, <3>2
      <4> HIDE DEF under
      <4> QED BY <1>5, <3>2, <4>1
    <3> QED BY <3>1, <3>2
  <2> HIDE DEF lo, hi, over, under, held
  <2>8. SumFunctionOnSet(w, held[i]) = f[hi] - f[lo]
    <3> DEFINE row == held[i]
    <3>1. \A x \in Int : f[x] \in Int
      BY <1>5
    <3>2. \A x \in row : w[x] = f[x + 1] - f[x]
      <4>1. row \subseteq line
        BY <2>3
      <4> QED BY <1>6, <4>1
    <3>3. \A x : x \in row <=> x \in Int /\ lo <= x /\ x < hi
      BY <2>4, <2>5
    <3> HIDE DEF row
    <3>4. SumFunctionOnSet(w, row) = f[hi] - f[lo]
      BY ONLY <2>4, <3>1, <3>2, <3>3, CellsTelescope
    <3> QED BY <3>4 DEF row
  <2> QED BY <2>1, <2>6, <2>7, <2>8
<1>8. \A v \in line : \E i \in 1 .. n : /\ {j \in 1 .. n : Holds(buckets[j], v)} = {i}
                                        /\ bucket_label_for_value(v, buckets) = labels[i]
  <2> TAKE v \in line
  <2> DEFINE H == {j \in DOMAIN buckets : Holds(buckets[j], v)}
  <2>1. Cardinality(H) = 1 /\ IsFiniteSet(H)
    <3>1. Cardinality(H) = 1
      BY DEF Covers
    <3>2. IsFiniteSet(1 .. n) /\ H \subseteq 1 .. n
      BY <1>1, FS_Interval
    <3> HIDE DEF H
    <3> QED BY <3>1, <3>2, FS_Subset
  <2>2. PICK i : H = {i}
    <3> HIDE DEF H
    <3> QED BY <2>1, FS_Singleton
  <2>3. i \in 1 .. n
    BY <1>1, <2>2
  <2>4. Min(H) = i
    <3>1. Min(H) \in H
      <4>1. H # {} /\ H \subseteq Int
        BY <1>1, <2>2
      <4> HIDE DEF H
      <4> QED BY <2>1, <4>1, MinIs
    <3> HIDE DEF H
    <3> QED BY <2>2, <3>1
  <2>5. bucket_label_for_value(v, buckets) = buckets[i].label
    <3>1. H # {}
      BY <2>2
    <3> QED BY <2>4, <3>1, Zenon DEF bucket_label_for_value
  <2> QED BY <1>1, <1>2, <2>2, <2>3, <2>5
<1>9. ASSUME NEW i \in 1 .. n
      PROVE  settled(i) = held[i]
  <2>1. ASSUME NEW v \in line, Holds(buckets[i], v)
        PROVE  bucket_label_for_value(v, buckets) = labels[i]
    BY <1>8, <2>1
  <2>2. ASSUME NEW v \in line, bucket_label_for_value(v, buckets) = labels[i]
        PROVE  Holds(buckets[i], v)
    <3>1. PICK j \in 1 .. n : Holds(buckets[j], v) /\ bucket_label_for_value(v, buckets) = labels[j]
      BY <1>8
    <3>2. buckets[i] = buckets[j]
      BY <1>3, <2>2, <3>1
    <3> QED BY <3>1, <3>2
  <2> HIDE DEF line
  <2> QED BY <2>1, <2>2
<1>10. ASSUME NEW i \in 1 .. n
       PROVE  mass[i] = SumUp(cells(i))
  <2> DEFINE c == cells(i)
  <2>1. SumUp(c) = SumFunctionOnSet(c, DOMAIN c)
    BY Zenon DEF SumUp, SumFunction
  <2>2. DOMAIN c = held[i]
    BY <1>9
  <2>3. IsFiniteSet(held[i])
    <3>1. IsFiniteSet(line)
      BY <1>5, FS_Interval
    <3>2. held[i] \subseteq line
      OBVIOUS
    <3> HIDE DEF held, line
    <3> QED BY <3>1, <3>2, FS_Subset
  <2>4. \A v \in held[i] : c[v] = w[v]
    <3>1. \A v \in held[i] : v \in line /\ c[v] = _normal_cdf(v + 1, mu, sigma) - _normal_cdf(v, mu, sigma)
      BY <1>9
    <3> HIDE DEF held, line, c
    <3> QED BY <1>6, <3>1
  <2> HIDE DEF c, held
  <2>5. SumFunctionOnSet(c, held[i]) = SumFunctionOnSet(w, held[i])
    BY <2>3, <2>4, SumSame
  <2> QED BY <1>7, <2>1, <2>2, <2>5 DEF c
<1> DEFINE key == [v \in line |-> CHOOSE i \in 1 .. n : Holds(buckets[i], v)]
<1>11. SumFunctionOnSet(mass, 1 .. n) = SumFunctionOnSet(w, line)
  <2>1. IsFiniteSet(line) /\ IsFiniteSet(1 .. n)
    <3>1. a \in Int /\ b \in Int
      BY <1>5
    <3>2. IsFiniteSet(line)
      BY <3>1, FS_Interval
    <3>3. IsFiniteSet(1 .. n)
      BY FS_Interval
    <3> QED BY <3>2, <3>3
  <2>2. \A v \in line : w[v] \in Int
    BY <1>6
  <2>3. \A v \in line : key[v] \in 1 .. n /\ Holds(buckets[key[v]], v)
    <3> TAKE v \in line
    <3>1. \E i \in 1 .. n : Holds(buckets[i], v)
      BY <1>8
    <3> HIDE DEF line
    <3> QED BY <3>1
  <2>4. \A i \in 1 .. n : \A v : v \in held[i] <=> v \in line /\ key[v] = i
    <3> SUFFICES ASSUME NEW i \in 1 .. n, NEW v
                 PROVE  v \in held[i] <=> v \in line /\ key[v] = i
      OBVIOUS
    <3>1. v \in held[i] <=> v \in line /\ Holds(buckets[i], v)
      OBVIOUS
    <3> HIDE DEF held, key, line
    <3>2. v \in line => (Holds(buckets[i], v) <=> key[v] = i)
      BY <1>8, <2>3
    <3> QED BY <3>1, <3>2
  <2> HIDE DEF line, key, held
  <2>5. \A i \in 1 .. n : mass[i] = SumFunctionOnSet(w, held[i])
    BY <1>7
  <2>6. \A v \in line : key[v] \in 1 .. n
    BY <2>3
  <2> DEFINE T == 1 .. n
  <2>7. /\ IsFiniteSet(T) /\ \A x \in line : key[x] \in T
        /\ \A t \in T : \A x : x \in held[t] <=> x \in line /\ key[x] = t
        /\ \A t \in T : mass[t] = SumFunctionOnSet(w, held[t])
    BY <2>1, <2>4, <2>5, <2>6
  <2> HIDE DEF T
  <2>8. SumFunctionOnSet(mass, T) = SumFunctionOnSet(w, line)
    BY ONLY <2>1, <2>2, <2>7, SumByKey
  <2> QED BY <2>8 DEF T
<1>12. SumFunctionOnSet(w, line) = all
  <2> DEFINE hi == b + 1
  <2>1. \A x \in Int : f[x] \in Int
    BY <1>5
  <2>2. \A x \in line : w[x] = f[x + 1] - f[x]
    BY <1>6
  <2>3. /\ a \in Int /\ hi \in Int /\ a <= hi
        /\ \A x : x \in line <=> x \in Int /\ a <= x /\ x < hi
    BY <1>5
  <2>4. f[hi] = all /\ f[a] = 0 /\ all \in Nat
    BY <1>5
  <2> HIDE DEF line, hi
  <2>5. SumFunctionOnSet(w, line) = f[hi] - f[a]
    BY ONLY <2>1, <2>2, <2>3, CellsTelescope
  <2> QED BY <2>4, <2>5
<1>13. SumUp(mass) = all
  <2>1. SumUp(mass) = SumFunctionOnSet(mass, 1 .. n)
    BY <1>4, OfTotalIs
  <2> QED BY <1>11, <1>12, <2>1
<1>14. probs # None /\ probs.total = all /\ probs.mass = mass
  <2>1. probs = [mass |-> mass, total |-> all]
    BY <1>5, <1>13 DEF OfTotal
  <2> HIDE DEF probs
  <2>2. probs # None
    BY <2>1
  <2> QED BY <2>1, <2>2
<1> HIDE DEF probs, cells
<1> QED BY <1>10, <1>14

-----------------------------------------------------------------------------
(* Which event is meant.                                                   *)

(* The most traded event about the highest temperature of the city and the  *)
(* day is found, unless as many as are asked for are listed ahead of it,    *)
(* whatever else is listed.                                                 *)
THEOREM TheMeantEventIsFound ==
  ASSUME NEW n \in Nat, NEW listed, DOMAIN listed = 1 .. n, NEW limit \in Nat,
         NEW city, city # None, NEW date, date # None
  PROVE  EventIsTheMeantOne(listed, limit, city, date)
<1> DEFINE of == {i \in 1 .. n : city \in listed[i].cities /\ listed[i].date = date}
           meant == {i \in 1 .. n : /\ ~listed[i].lowest /\ city \in listed[i].cities
                                    /\ listed[i].date = date /\ Parseable(listed[i])}
           ahead(i) == {j \in 1 .. i - 1 : city \in listed[j].cities /\ listed[j].date = date}
           before(i) == {j \in of : j < i}
           returned == {i \in of : Cardinality(before(i)) < limit}
           answer == [i \in returned |-> listed[i]]
           fitting == {i \in returned : i \in meant}
           found == IF fitting = {} THEN None ELSE listed[Min(fitting)]
<1>1. EventFor(listed, limit, city, date) = found
  <2>1. fetch_weather_events(listed, limit, city, date) = answer
    <3>1. {i \in DOMAIN listed : /\ city # None => city \in listed[i].cities
                                 /\ date # None => listed[i].date = date} = of
      OBVIOUS
    <3> HIDE DEF of
    <3> QED BY <3>1, Zenon DEF fetch_weather_events
  <2>2. first_parseable_weather_event(answer, city, date) = found
    <3> DEFINE fits == {i \in DOMAIN answer : /\ ~answer[i].lowest
                                              /\ city # None => city \in answer[i].cities
                                              /\ date # None => answer[i].date = date
                                              /\ Parseable(answer[i])}
    <3>1. fits = fitting
      <4>1. DOMAIN answer = returned /\ \A i \in returned : answer[i] = listed[i] /\ i \in 1 .. n
        OBVIOUS
      <4>2. \A i \in returned : i \in meant <=> /\ ~listed[i].lowest /\ city \in listed[i].cities
                                                /\ listed[i].date = date /\ Parseable(listed[i])
        BY <4>1
      <4> HIDE DEF answer, returned, meant
      <4> QED BY <4>1, <4>2
    <3>2. first_parseable_weather_event(answer, city, date) =
              IF fits = {} THEN None ELSE answer[Min(fits)]
      <4> HIDE DEF answer
      <4> QED BY Zenon DEF first_parseable_weather_event
    <3>3. fitting # {} => Min(fitting) \in returned
      <4>1. IsFiniteSet(fitting) /\ fitting \subseteq Int /\ fitting \subseteq returned
        <5>1. IsFiniteSet(1 .. n) /\ fitting \subseteq 1 .. n /\ fitting \subseteq returned
          BY FS_Interval
        <5> HIDE DEF fitting, returned
        <5>2. IsFiniteSet(fitting)
          BY <5>1, FS_Subset
        <5>3. fitting \subseteq Int
          BY <5>1
        <5> QED BY <5>1, <5>2, <5>3
      <4> HIDE DEF fitting, returned
      <4> QED BY <4>1, MinIs
    <3>4. \A i \in returned : answer[i] = listed[i]
      OBVIOUS
    <3> HIDE DEF fits, fitting, answer, returned
    <3> QED BY <3>1, <3>2, <3>3, <3>4
  <2> HIDE DEF answer, found
  <2> QED BY <2>1, <2>2, Zenon DEF EventFor
<1> SUFFICES IF meant = {} THEN found = None
             ELSE IF Cardinality(ahead(Min(meant))) < limit THEN found = listed[Min(meant)]
             ELSE found = None
  <2> HIDE DEF found
  <2> QED BY <1>1, Zenon DEF EventIsTheMeantOne
<1>2. IsFiniteSet(1 .. n) /\ meant \subseteq 1 .. n /\ of \subseteq 1 .. n /\ meant \subseteq of
  BY FS_Interval
<1>3. \A i \in 1 .. n : ahead(i) = before(i)
  <2> SUFFICES ASSUME NEW i \in 1 .. n
               PROVE  ahead(i) = before(i)
    OBVIOUS
  <2>1. \A j : j \in 1 .. i - 1 <=> j \in 1 .. n /\ j < i
    OBVIOUS
  <2> QED BY <2>1
<1>4. \A i, j \in 1 .. n : i <= j => Cardinality(before(i)) <= Cardinality(before(j))
                                     /\ Cardinality(before(j)) \in Nat
  <2> SUFFICES ASSUME NEW i \in 1 .. n, NEW j \in 1 .. n, i <= j
               PROVE  Cardinality(before(i)) <= Cardinality(before(j)) /\ Cardinality(before(j)) \in Nat
    OBVIOUS
  <2> DEFINE s == before(i)
             t == before(j)
  <2>1. s \subseteq t /\ t \subseteq 1 .. n
    OBVIOUS
  <2> HIDE DEF s, t
  <2>2. IsFiniteSet(t) /\ Cardinality(s) <= Cardinality(t) /\ Cardinality(t) \in Nat
    BY <1>2, <2>1, FS_Subset, FS_CardinalityType
  <2> QED BY <2>2 DEF s, t
<1>5. fitting = {i \in meant : Cardinality(before(i)) < limit}
  <2> HIDE DEF meant
  <2> QED BY <1>2
<1>6. CASE meant = {}
  BY <1>5, <1>6
<1>7. CASE meant # {}
  <2> DEFINE m == Min(meant)
  <2>1. m \in meant /\ \A i \in meant : m <= i
    <3>1. IsFiniteSet(meant) /\ meant \subseteq Int
      <4>1. IsFiniteSet(meant)
        <5> HIDE DEF meant
        <5> QED BY <1>2, FS_Subset
      <4> QED BY <4>1
    <3> HIDE DEF meant
    <3> QED BY <1>7, <3>1, MinIs
  <2>2. m \in 1 .. n /\ ahead(m) = before(m)
    <3> HIDE DEF m, meant, ahead, before
    <3> QED BY <1>2, <1>3, <2>1
  <2> HIDE DEF m, meant, ahead, before, fitting
  <2>3. CASE Cardinality(before(m)) < limit
    <3>1. m \in fitting /\ \A i \in fitting : i \in meant /\ m <= i
      BY <1>5, <2>1, <2>3
    <3>2. IsFiniteSet(fitting) /\ fitting \subseteq Int
      <4>1. fitting \subseteq 1 .. n
        BY <1>2, <1>5
      <4>2. IsFiniteSet(fitting)
        BY <1>2, <4>1, FS_Subset
      <4>3. fitting \subseteq Int
        BY <4>1
      <4> QED BY <4>2, <4>3
    <3>3. Min(fitting) \in fitting /\ Min(fitting) <= m
      BY <3>1, <3>2, MinIs
    <3>4. Min(fitting) = m
      <4>1. m <= Min(fitting) /\ Min(fitting) \in Int /\ m \in Int
        BY <2>2, <3>1, <3>2, <3>3
      <4> QED BY <3>3, <4>1
    <3> QED BY <1>7, <2>2, <2>3, <3>1, <3>4 DEF m
  <2>4. CASE ~(Cardinality(before(m)) < limit)
    <3>1. fitting = {}
      <4> SUFFICES ASSUME NEW i \in fitting
                   PROVE  FALSE
        OBVIOUS
      <4>1. i \in 1 .. n /\ m <= i /\ Cardinality(before(i)) < limit
        BY <1>2, <1>5, <2>1
      <4>2. Cardinality(before(m)) <= Cardinality(before(i)) /\ Cardinality(before(i)) \in Nat
            /\ Cardinality(before(m)) \in Nat
        BY <1>4, <2>2, <4>1
      <4> QED BY <2>4, <4>1, <4>2
    <3> QED BY <1>7, <2>2, <2>4, <3>1 DEF m
  <2> QED BY <2>3, <2>4
<1> QED BY <1>6, <1>7

-----------------------------------------------------------------------------
(* All questions about buckets and markets.                                *)

\* What is understood is a ladder for LaddersAreRead.
LEMMA UnderstoodLabels ==
  ASSUME NEW labels, Understood(labels)
  PROVE  /\ Len(labels) \in Nat /\ DOMAIN labels = 1 .. Len(labels)
         /\ labels # <<>> => Len(labels) >= 1
         /\ \A i \in DOMAIN labels :
               /\ labels[i].form \in {"above", "or_below", "or_higher", "range", "single"}
               /\ labels[i].lo \in Int /\ labels[i].hi \in Int
               /\ labels[i].form = "range" => labels[i].lo <= labels[i].hi
<1> DEFINE L == [form : {"above", "or_below", "or_higher", "range", "single"}, lo : Int, hi : Int]
<1>1. labels \in Seq(L) /\ \A i \in DOMAIN labels : labels[i].form = "range" => labels[i].lo <= labels[i].hi
  BY Zenon DEF Understood
<1>2. \A l \in L : l.form \in {"above", "or_below", "or_higher", "range", "single"} /\ l.lo \in Int /\ l.hi \in Int
  OBVIOUS
<1> HIDE DEF L
<1>3. Len(labels) \in Nat /\ DOMAIN labels = 1 .. Len(labels) /\ \A i \in DOMAIN labels : labels[i] \in L
  BY <1>1
<1>4. labels # <<>> => Len(labels) >= 1
  BY <1>1
<1> QED BY <1>1, <1>2, <1>3, <1>4

(* Whatever is asked about the buckets and the markets of an event, with    *)
(* any labels, forecast, prices, books and listing, the answer is the one   *)
(* MarketsAreRead calls right.                                              *)
THEOREM MarketsAreAlwaysRead ==
  ASSUME None \notin Int, \A mass, total : [mass |-> mass, total |-> total] # None
  PROVE  []Askable(question) => []MarketsAreRead
<1>1. Askable(question) => MarketsAreRead
  <2> DEFINE q == question
  <2> SUFFICES ASSUME Askable(q)
               PROVE  MarketsAreRead
    OBVIOUS
  <2> DEFINE asks == [i \in DOMAIN q.labels |-> q.asks[(i % 3) + 1]]
  <2>1. ASSUME q.about = "bell"
        PROVE  LabelsShareOneBell(q.labels, q.mu, q.sigma)
    <3> DEFINE labels == q.labels
               sigma == q.sigma
               mu == q.mu
               n == Len(labels)
    <3>1. Understood(labels) /\ mu \in Int /\ sigma \in Nat /\ sigma > 0
      BY <2>1 DEF Askable
    <3> HIDE DEF labels, sigma, mu
    <3>2. /\ n \in Nat /\ DOMAIN labels = 1 .. n
          /\ \A i \in DOMAIN labels :
                /\ labels[i].form \in {"above", "or_below", "or_higher", "range", "single"}
                /\ labels[i].lo \in Int /\ labels[i].hi \in Int
                /\ labels[i].form = "range" => labels[i].lo <= labels[i].hi
      BY <3>1, UnderstoodLabels
    <3> HIDE DEF n
    <3>3. LabelsShareOneBell(labels, mu, sigma)
      BY <3>1, <3>2, OneBellForAllLabels
    <3> QED BY <3>3 DEF labels, mu, sigma
  <2>2. ASSUME q.about = "floor"
        PROVE  ObservationRules(q.labels, q.mu, q.sigma, q.floor)
    <3> DEFINE labels == q.labels
               sigma == q.sigma
               mu == q.mu
               floor == q.floor
               n == Len(labels)
    <3>1. Understood(labels) /\ mu \in Int /\ sigma \in Nat
      BY <2>2 DEF Askable
    <3> HIDE DEF labels, sigma, mu, floor
    <3>2. /\ n \in Nat /\ DOMAIN labels = 1 .. n
          /\ \A i \in DOMAIN labels :
                /\ labels[i].form \in {"above", "or_below", "or_higher", "range", "single"}
                /\ labels[i].lo \in Int /\ labels[i].hi \in Int
                /\ labels[i].form = "range" => labels[i].lo <= labels[i].hi
      BY <3>1, UnderstoodLabels
    <3> HIDE DEF n
    <3>3. ObservationRules(labels, mu, sigma, floor)
      BY <3>1, <3>2, ObservationsRule
    <3> QED BY <3>3 DEF labels, mu, sigma, floor
  <2>3. ASSUME q.about = "spread"
        PROVE  SpreadBounds(q.values, q.default, q.lead, q.later)
    <3> DEFINE values == q.values
               default == q.default
               lead == q.lead
               later == q.later
    <3>1. values \in Seq(Int) /\ values # <<>> /\ default \in Nat /\ default > 0
          /\ lead \in Int \cup {None} /\ later \in Int
      BY <2>3 DEF Askable
    <3> HIDE DEF values, default, lead, later
    <3>2. SpreadBounds(values, default, lead, later)
      BY <3>1, SpreadIsBounded
    <3> QED BY <3>2 DEF values, default, lead, later
  <2>4. ASSUME q.about = "cap"
        PROVE  CapOnlyTightens(q.mean, q.sigma, q.labels, asks)
    <3> DEFINE labels == q.labels
               sigma == q.sigma
               mean == q.mean
               n == Len(labels)
    <3>1. /\ Understood(labels) /\ mean \in Int /\ sigma \in Int /\ labels # <<>>
          /\ \A i \in 1 .. 3 : q.asks[i] \in Int \cup {None}
      BY <2>4 DEF Askable
    <3>2. /\ n \in Nat /\ DOMAIN labels = 1 .. n /\ n >= 1
          /\ \A i \in DOMAIN labels :
                /\ labels[i].form \in {"above", "or_below", "or_higher", "range", "single"}
                /\ labels[i].lo \in Int /\ labels[i].hi \in Int
                /\ labels[i].form = "range" => labels[i].lo <= labels[i].hi
      <4> HIDE DEF labels
      <4> QED BY <3>1, UnderstoodLabels
    <3>3. \A i \in DOMAIN labels : asks[i] \in Int \cup {None}
      <4> TAKE i \in DOMAIN labels
      <4>1. i \in Nat
        <5> HIDE DEF labels, n
        <5> QED BY <3>2
      <4>2. (i % 3) + 1 \in 1 .. 3
        BY ONLY <4>1
      <4>3. asks[i] = q.asks[(i % 3) + 1]
        OBVIOUS
      <4> HIDE DEF asks, labels
      <4> QED BY <3>1, <4>2, <4>3
    <3> HIDE DEF labels, sigma, mean, n, asks
    <3>4. CapOnlyTightens(mean, sigma, labels, asks)
      BY <3>1, <3>2, <3>3, TheCapTightens
    <3> QED BY <3>4 DEF labels, mean, sigma
  <2>5. ASSUME q.about = "winner"
        PROVE  WinnerStands(q.now, q.later, q.books)
    <3>1. SameEvent(q.now, q.later)
      BY <2>5 DEF Askable
    <3> QED BY <3>1, TheWinnerStands
  <2>6. ASSUME q.about = "event"
        PROVE  EventIsTheMeantOne(q.listed, q.limit, q.city, q.date)
    <3> DEFINE listed == q.listed
               n == Len(listed)
    <3>1. n \in Nat /\ DOMAIN listed = 1 .. n /\ q.limit \in Nat /\ q.city # None /\ q.date # None
      BY <2>6 DEF Askable
    <3> HIDE DEF listed, n
    <3>2. EventIsTheMeantOne(listed, q.limit, q.city, q.date)
      BY <3>1, TheMeantEventIsFound
    <3> QED BY <3>2 DEF listed
  <2> HIDE DEF asks
  <2>7. MarketsAreRead = /\ q.about = "bell" => LabelsShareOneBell(q.labels, q.mu, q.sigma)
                         /\ q.about = "floor" => ObservationRules(q.labels, q.mu, q.sigma, q.floor)
                         /\ q.about = "spread" => SpreadBounds(q.values, q.default, q.lead, q.later)
                         /\ q.about = "cap" => CapOnlyTightens(q.mean, q.sigma, q.labels, asks)
                         /\ q.about = "winner" => WinnerStands(q.now, q.later, q.books)
                         /\ q.about = "event" => EventIsTheMeantOne(q.listed, q.limit, q.city, q.date)
    BY Zenon DEF MarketsAreRead, asks
  <2> QED BY <2>1, <2>2, <2>3, <2>4, <2>5, <2>6, <2>7, Zenon
<1> QED BY <1>1, PTL
=============================================================================
