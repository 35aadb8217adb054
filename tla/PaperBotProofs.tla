---------------------------- MODULE PaperBotProofs ----------------------------
(***************************************************************************)
(* Proofs about the paper bot (module PaperBot): what a wallet owns,       *)
(* computed by replaying the append-only ledger, stays right whatever      *)
(* tick, failed tick or crash appends to it.                               *)
(***************************************************************************)
EXTENDS PaperBot, SumProofs, SequenceTheorems

-----------------------------------------------------------------------------
(* The replay of read_state, unfolded row by row.                          *)

Fresh == [balance |-> StartingBalance, open |-> {}, realized |-> 0]

\* What a row does to the state of a wallet.
After(r, w, st) == IF r.wallet = w THEN Apply(r, st) ELSE st

ReplayBody(l, w, g, s) == IF s = {} THEN Fresh ELSE After(l[Max(s)], w, g[s \ {Max(s)}])

IsReplay(g, l, w) == g = [s \in SUBSET DOMAIN l |-> ReplayBody(l, w, g, s)]

LEMMA ReplayIs ==
    ASSUME NEW l, NEW w
    PROVE  read_state(l, w) = (CHOOSE g : IsReplay(g, l, w))[DOMAIN l]
  <1> DEFINE iter == CHOOSE g : g = [s \in SUBSET DOMAIN l |->
                         IF s = {} THEN [balance |-> StartingBalance, open |-> {}, realized |-> 0]
                         ELSE IF l[Max(s)].wallet = w THEN Apply(l[Max(s)], g[s \ {Max(s)}])
                              ELSE g[s \ {Max(s)}]]
  <1>1. read_state(l, w) = iter[DOMAIN l]
    BY Zenon DEF read_state, FoldLeft, MapThenFoldSet
  <1>2. iter = CHOOSE g : IsReplay(g, l, w)
    BY Zenon DEF IsReplay, ReplayBody, Fresh, After
  <1> QED BY <1>1, <1>2

\* A nonempty set of numbers up to some n has a largest one.
LEMMA LastOf ==
    ASSUME NEW n \in Nat, NEW s \in SUBSET (0..n), s # {}
    PROVE  Max(s) \in s /\ \A k \in s : k <= Max(s)
  <1> DEFINE above == {n - k : k \in s}
  <1>1. above \subseteq Nat /\ above # {}
    <2>1. \A k \in 0..n : n - k \in Nat
      OBVIOUS
    <2> QED BY <2>1
  <1>2. PICK x \in above : \A y \in above : ~(<<y, x>> \in OpToRel(<, Nat))
    BY <1>1, NatLessThanWellFounded, WFMin
  <1>3. \A y \in above : y \in Nat /\ x \in Nat /\ ~(y < x)
    BY <1>1, <1>2 DEF OpToRel
  <1>4. PICK m \in s : x = n - m
    OBVIOUS
  <1>5. \A k \in s : n - k \in above
    OBVIOUS
  <1> HIDE DEF above
  <1>6. \A k \in s : m >= k
    BY <1>3, <1>4, <1>5
  <1>7. Max(s) \in s /\ \A k \in s : Max(s) >= k
    BY <1>6 DEF Max
  <1> QED BY <1>7

\* The recursion has a solution, built up by the last row it may look at.
LEMMA ReplayExists ==
    ASSUME NEW l \in Seq(Row), NEW w
    PROVE  \E g : IsReplay(g, l, w)
  <1> DEFINE S == DOMAIN l
             Solves(g, m) == \A s \in SUBSET S : s \subseteq 1..m => g[s] = ReplayBody(l, w, g, s)
             Unsolved == {m \in 0..Len(l) : ~ \E g : Solves(g, m)}
  <1>0. Len(l) \in Nat /\ S = 1..Len(l)
    OBVIOUS
  <1>1. 0 \notin Unsolved
    <2> DEFINE g == [s \in SUBSET S |-> Fresh]
    <2>1. \A s \in SUBSET S : s \subseteq 1..0 => s = {} /\ g[s] = Fresh
      OBVIOUS
    <2>2. Solves(g, 0)
      BY <2>1 DEF ReplayBody
    <2> QED BY <2>2
  <1>2. ASSUME NEW m \in Unsolved
        PROVE  \E n \in Unsolved : n < m
    <2>1. m \in 1..Len(l) /\ m - 1 \in 0..Len(l) /\ m - 1 < m
      <3>1. m \in 0..Len(l)
        OBVIOUS
      <3>2. m # 0
        BY <1>1, <1>2
      <3> QED BY ONLY <1>0, <3>1, <3>2
    <2> SUFFICES ASSUME m - 1 \notin Unsolved  PROVE FALSE
      BY <2>1
    <2>2. PICK g : Solves(g, m - 1)
      BY <2>1
    <2> DEFINE h == [s \in SUBSET S |->
                        IF s \subseteq 1..(m - 1) THEN g[s] ELSE ReplayBody(l, w, g, s)]
    <2>3. ASSUME NEW s \in SUBSET S, s \subseteq 1..m, s # {}
          PROVE  Max(s) \in s /\ s \ {Max(s)} \subseteq 1..(m - 1) /\ s \ {Max(s)} \in SUBSET S
      <3>1. m \in Nat /\ s \in SUBSET (1..m) /\ s \in SUBSET (0..m)
        BY <1>0, <2>1, <2>3
      <3>2. Max(s) \in s /\ \A k \in s : k <= Max(s)
        BY ONLY <2>3, <3>1, LastOf
      <3>3. s \ {Max(s)} \subseteq 1..(m - 1)
        BY ONLY <3>1, <3>2
      <3> QED BY <3>2, <3>3
    <2>4. \A s \in SUBSET S : s \subseteq 1..(m - 1) => h[s] = g[s] /\ g[s] = ReplayBody(l, w, g, s)
      BY <2>2
    <2>5. \A s \in SUBSET S : ~(s \subseteq 1..(m - 1)) => h[s] = ReplayBody(l, w, g, s)
      OBVIOUS
    <2> HIDE DEF h
    <2>6. \A s \in SUBSET S : s \subseteq 1..m => h[s] = ReplayBody(l, w, g, s)
      BY <2>4, <2>5
    <2>7. \A s \in SUBSET S : s \subseteq 1..m => ReplayBody(l, w, g, s) = ReplayBody(l, w, h, s)
      BY <2>3, <2>4 DEF ReplayBody
    <2>8. Solves(h, m)
      BY <2>6, <2>7
    <2> QED BY <2>8
  <1>3. Unsolved = {}
    <2> SUFFICES ASSUME Unsolved # {}  PROVE FALSE
      OBVIOUS
    <2>1. Unsolved \subseteq Nat
      BY <1>0
    <2> HIDE DEF Unsolved
    <2>2. PICK m \in Unsolved : \A n \in Unsolved : ~(<<n, m>> \in OpToRel(<, Nat))
      BY <2>1, NatLessThanWellFounded, WFMin
    <2>3. \A n \in Unsolved : ~(n < m)
      BY <2>1, <2>2 DEF OpToRel
    <2> QED BY <1>2, <2>3
  <1>4. PICK g : Solves(g, Len(l))
    BY <1>0, <1>3
  <1>5. \A s \in SUBSET S : g[s] = ReplayBody(l, w, g, s)
    BY <1>0, <1>4
  <1> DEFINE h == [s \in SUBSET S |-> g[s]]
  <1>6. \A s \in SUBSET S : h[s] = g[s]
    OBVIOUS
  <1>7. \A s \in SUBSET S : s # {} => s \ {Max(s)} \in SUBSET S
    OBVIOUS
  <1>8. \A s \in SUBSET S : h[s] = ReplayBody(l, w, h, s)
    BY <1>5, <1>6, <1>7 DEF ReplayBody
  <1>9. h = [s \in SUBSET S |-> ReplayBody(l, w, h, s)]
    BY <1>8
  <1> HIDE DEF h
  <1> QED BY <1>9 DEF IsReplay

\* The rows up to one of them decide what the replay finds there.
LEMMA ReplayAgrees ==
    ASSUME NEW l \in Seq(Row), NEW m \in Seq(Row), NEW w, NEW g, NEW h,
           IsReplay(g, l, w), IsReplay(h, m, w), Len(l) <= Len(m),
           \A k \in 1..Len(l) : m[k] = l[k]
    PROVE  \A n \in 0..Len(l) :
               /\ g[1..n] = h[1..n]
               /\ g[1..n] = IF n = 0 THEN Fresh ELSE After(l[n], w, g[1..(n - 1)])
  <1>0. Len(l) \in Nat /\ Len(m) \in Nat /\ DOMAIN l = 1..Len(l) /\ DOMAIN m = 1..Len(m)
    OBVIOUS
  <1>1. /\ \A s \in SUBSET DOMAIN l : g[s] = ReplayBody(l, w, g, s)
        /\ \A s \in SUBSET DOMAIN m : h[s] = ReplayBody(m, w, h, s)
    <2>1. \A s \in SUBSET DOMAIN l :
             [t \in SUBSET DOMAIN l |-> ReplayBody(l, w, g, t)][s] = ReplayBody(l, w, g, s)
      OBVIOUS
    <2>2. \A s \in SUBSET DOMAIN m :
             [t \in SUBSET DOMAIN m |-> ReplayBody(m, w, h, t)][s] = ReplayBody(m, w, h, s)
      OBVIOUS
    <2> QED BY <2>1, <2>2 DEF IsReplay
  <1>2. \A n \in 0..Len(l) : 1..n \subseteq DOMAIN l /\ 1..n \subseteq DOMAIN m
    BY <1>0
  <1>3. \A n \in 1..Len(l) : 1..n # {} /\ Max(1..n) = n /\ (1..n) \ {n} = 1..(n - 1)
    <2> SUFFICES ASSUME NEW n \in 1..Len(l)
                 PROVE  1..n # {} /\ Max(1..n) = n /\ (1..n) \ {n} = 1..(n - 1)
      OBVIOUS
    <2>0. n \in Nat /\ n >= 1
      BY ONLY <1>0, n \in 1..Len(l)
    <2>1. n \in Nat /\ 1..n # {} /\ n \in 1..n /\ (1..n) \ {n} = 1..(n - 1)
      <3>1. \A k : k \in (1..n) \ {n} <=> k \in 1..(n - 1)
        BY ONLY <2>0
      <3>2. n \in 1..n
        BY ONLY <2>0
      <3>3. (1..n) \ {n} = 1..(n - 1)
        BY ONLY <3>1, Zenon
      <3> QED BY ONLY <2>0, <3>2, <3>3, Zenon
    <2>2. Max(1..n) \in 1..n /\ \A k \in 1..n : k <= Max(1..n)
      <3>1. 1..n \in SUBSET (0..n)
        BY <2>1
      <3> QED BY ONLY <2>1, <3>1, LastOf
    <2>3. Max(1..n) = n
      BY ONLY <2>1, <2>2
    <2> QED BY <2>1, <2>3
  <1>4. 1..0 = {}
    OBVIOUS
  <1>5. /\ g[1..0] = Fresh /\ h[1..0] = Fresh
        /\ \A n \in 1..Len(l) : /\ g[1..n] = After(l[n], w, g[1..(n - 1)])
                                /\ h[1..n] = After(l[n], w, h[1..(n - 1)])
    <2>1. g[1..0] = Fresh /\ h[1..0] = Fresh
      BY <1>0, <1>1, <1>4 DEF ReplayBody
    <2>2. ASSUME NEW n \in 1..Len(l)
          PROVE  /\ g[1..n] = After(l[n], w, g[1..(n - 1)])
                 /\ h[1..n] = After(l[n], w, h[1..(n - 1)])
      <3>1. g[1..n] = ReplayBody(l, w, g, 1..n) /\ h[1..n] = ReplayBody(m, w, h, 1..n)
        BY <1>0, <1>1, <1>2
      <3>2. ReplayBody(l, w, g, 1..n) = After(l[n], w, g[1..(n - 1)])
        BY <1>3 DEF ReplayBody
      <3>3. ReplayBody(m, w, h, 1..n) = After(m[n], w, h[1..(n - 1)])
        BY <1>3 DEF ReplayBody
      <3> QED BY <3>1, <3>2, <3>3
    <2> QED BY <2>1, <2>2
  <1> DEFINE differ == {n \in 0..Len(l) : g[1..n] # h[1..n]}
  <1>6. differ = {}
    <2> SUFFICES ASSUME differ # {}  PROVE FALSE
      OBVIOUS
    <2>1. differ \subseteq Nat /\ 0 \notin differ
      BY <1>0, <1>5
    <2>2. PICK n \in differ : \A k \in differ : ~(<<k, n>> \in OpToRel(<, Nat))
      BY <2>1, NatLessThanWellFounded, WFMin
    <2>3. n \in 1..Len(l) /\ n - 1 \in 0..Len(l) /\ n - 1 < n
      <3>1. n \in 0..Len(l) /\ n # 0
        BY <2>1
      <3> QED BY ONLY <1>0, <3>1
    <2>4. n - 1 \notin differ
      BY <2>1, <2>2, <2>3 DEF OpToRel
    <2>5. g[1..(n - 1)] = h[1..(n - 1)]
      BY <2>3, <2>4
    <2> QED BY <1>5, <2>3, <2>5
  <1>7. \A n \in 0..Len(l) : g[1..n] = h[1..n]
    BY <1>6
  <1> QED BY <1>0, <1>5, <1>7

LEMMA ReplayEmpty ==
    ASSUME NEW w
    PROVE  read_state(<<>>, w) = Fresh
  <1> DEFINE g == CHOOSE f : IsReplay(f, <<>>, w)
  <1>1. <<>> \in Seq(Row) /\ Len(<<>>) = 0 /\ DOMAIN <<>> = 1..0
    OBVIOUS
  <1>2. IsReplay(g, <<>>, w)
    BY <1>1, ReplayExists
  <1>3. read_state(<<>>, w) = g[DOMAIN <<>>]
    BY ReplayIs
  <1> HIDE DEF g
  <1>4. \A n \in 0..Len(<<>>) : g[1..n] = IF n = 0 THEN Fresh ELSE After(<<>>[n], w, g[1..(n - 1)])
    <2> DEFINE l == <<>>
    <2>1. l \in Seq(Row) /\ Len(l) <= Len(l) /\ \A k \in 1..Len(l) : l[k] = l[k]
      BY <1>1
    <2>2. IsReplay(g, l, w)
      BY <1>2
    <2> HIDE DEF l
    <2>3. \A n \in 0..Len(l) : g[1..n] = IF n = 0 THEN Fresh ELSE After(l[n], w, g[1..(n - 1)])
      BY ONLY <2>1, <2>2, ReplayAgrees
    <2> QED BY <2>3 DEF l
  <1> QED BY <1>1, <1>3, <1>4

\* The replay of one row more is what the row does to the replay before it.
LEMMA ReplayAppend ==
    ASSUME NEW l \in Seq(Row), NEW r \in Row, NEW w
    PROVE  read_state(Append(l, r), w) = After(r, w, read_state(l, w))
  <1> DEFINE m == Append(l, r)
             g == CHOOSE f : IsReplay(f, l, w)
             h == CHOOSE f : IsReplay(f, m, w)
  <1>1. /\ m \in Seq(Row) /\ Len(m) = Len(l) + 1 /\ Len(l) \in Nat
        /\ \A k \in 1..Len(l) : m[k] = l[k]
        /\ m[Len(m)] = r
        /\ DOMAIN l = 1..Len(l) /\ DOMAIN m = 1..Len(m)
    OBVIOUS
  <1>2. IsReplay(g, l, w) /\ IsReplay(h, m, w)
    BY <1>1, ReplayExists
  <1>3. read_state(l, w) = g[1..Len(l)] /\ read_state(m, w) = h[1..Len(m)]
    BY <1>1, ReplayIs
  <1> HIDE DEF g, h, m
  <1>4. g[1..Len(l)] = h[1..Len(l)]
    BY <1>1, <1>2, ReplayAgrees
  <1>5. h[1..Len(m)] = After(m[Len(m)], w, h[1..(Len(m) - 1)])
    <2>1. \A n \in 0..Len(m) :
             h[1..n] = IF n = 0 THEN Fresh ELSE After(m[n], w, h[1..(n - 1)])
      BY <1>1, <1>2, ReplayAgrees
    <2>2. Len(m) \in 0..Len(m) /\ Len(m) # 0
      BY <1>1
    <2> QED BY <2>1, <2>2
  <1>6. Len(m) - 1 = Len(l)
    BY <1>1
  <1>7. read_state(m, w) = After(r, w, read_state(l, w))
    BY <1>1, <1>3, <1>4, <1>5, <1>6
  <1> QED BY <1>7 DEF m

-----------------------------------------------------------------------------
(* Induction over the rows of a log.                                       *)

LEMMA CountUp ==
    ASSUME NEW N \in Nat, NEW F, 0 \in F, \A n \in 0..N : n < N /\ n \in F => n + 1 \in F
    PROVE  \A n \in 0..N : n \in F
  <1> SUFFICES ASSUME {n \in 0..N : n \notin F} # {}  PROVE FALSE
    OBVIOUS
  <1> DEFINE rest == {n \in 0..N : n \notin F}
  <1>1. rest \subseteq Nat /\ rest # {}
    OBVIOUS
  <1>2. PICK n \in rest : \A k \in rest : ~(<<k, n>> \in OpToRel(<, Nat))
    BY <1>1, NatLessThanWellFounded, WFMin
  <1>3. n \in 0..N /\ n # 0
    OBVIOUS
  <1>4. n - 1 \in 0..N /\ n - 1 < n /\ n - 1 < N /\ (n - 1) + 1 = n
    BY ONLY N \in Nat, <1>3
  <1>5. n - 1 \in Nat /\ n \in Nat
    BY <1>3, <1>4
  <1>6. n - 1 \notin rest
    BY <1>2, <1>4, <1>5 DEF OpToRel
  <1>7. n - 1 \in F
    BY <1>4, <1>6
  <1>8. n \in F
    BY ONLY <1>4, <1>7, \A k \in 0..N : k < N /\ k \in F => k + 1 \in F
  <1> QED BY <1>8

\* The first rows of a log, and one row more.
LEMMA RowsSoFar ==
    ASSUME NEW l \in Seq(Row)
    PROVE  /\ SubSeq(l, 1, 0) = <<>> /\ SubSeq(l, 1, Len(l)) = l
           /\ \A n \in 0..Len(l) :
                /\ SubSeq(l, 1, n) \in Seq(Row) /\ Len(SubSeq(l, 1, n)) = n
                /\ DOMAIN SubSeq(l, 1, n) = 1..n
                /\ \A k \in 1..n : SubSeq(l, 1, n)[k] = l[k]
           /\ \A n \in 0..Len(l) :
                n < Len(l) => /\ n + 1 \in 1..Len(l) /\ l[n + 1] \in Row
                              /\ SubSeq(l, 1, n + 1) = Append(SubSeq(l, 1, n), l[n + 1])
  OBVIOUS

State == [balance : Int, open : SUBSET Row, realized : Int]

LEMMA RowFields ==
    ASSUME NEW r \in Row
    PROVE  /\ r.kind \in {"OPEN", "SETTLE", "CLOSE"} /\ r.wallet \in Wallets /\ r.leg \in Legs
           /\ r.trade \in Nat /\ r.stake \in Nat /\ r.payout \in Nat /\ r.at \in Nat
           /\ Ends(r) <=> r.kind # "OPEN"
  BY DEF Row, Ends

LEMMA AfterType ==
    ASSUME NEW r \in Row, NEW w, NEW st \in State
    PROVE  After(r, w, st) \in State
  <1>1. CASE r.wallet = w /\ r.kind = "OPEN"
    <2>1. /\ After(r, w, st) = [st EXCEPT !.balance = st.balance - r.stake,
                                         !.open = st.open \cup {r}]
      BY <1>1 DEF After, Apply
    <2>2. st.balance - r.stake \in Int /\ st.open \cup {r} \in SUBSET Row
      BY RowFields DEF State
    <2> HIDE DEF Row
    <2> QED BY <2>1, <2>2 DEF State
  <1>2. CASE r.wallet = w /\ r.kind # "OPEN"
    <2> DEFINE mine == {o \in st.open : o.trade = r.trade}
               gain == IF mine = {} THEN 0 ELSE r.payout - r.stake
    <2>1. After(r, w, st) = [balance |-> st.balance + r.payout, open |-> st.open \ mine,
                             realized |-> st.realized + gain]
      BY <1>2 DEF After, Apply
    <2>2. gain \in Int
      BY RowFields
    <2>3. st.open \ mine \in SUBSET Row
      BY DEF State
    <2> HIDE DEF mine, gain
    <2> QED BY <2>1, <2>2, <2>3, RowFields DEF State
  <1>3. CASE r.wallet # w
    BY <1>3 DEF After
  <1> QED BY <1>1, <1>2, <1>3

\* The replay of the first rows, one by one.
LEMMA ReplayRows ==
    ASSUME NEW l \in Seq(Row), NEW w
    PROVE  /\ Len(l) \in Nat /\ read_state(SubSeq(l, 1, 0), w) = Fresh
           /\ read_state(SubSeq(l, 1, Len(l)), w) = read_state(l, w)
           /\ \A n \in 0..Len(l) : n < Len(l) =>
                /\ n + 1 \in 0..Len(l) /\ l[n + 1] \in Row
                /\ read_state(SubSeq(l, 1, n + 1), w)
                     = After(l[n + 1], w, read_state(SubSeq(l, 1, n), w))
  <1>1. Len(l) \in Nat
    OBVIOUS
  <1>2. read_state(SubSeq(l, 1, 0), w) = Fresh
    BY RowsSoFar, ReplayEmpty
  <1>3. ASSUME NEW n \in 0..Len(l), n < Len(l)
        PROVE  /\ n + 1 \in 0..Len(l) /\ l[n + 1] \in Row
               /\ read_state(SubSeq(l, 1, n + 1), w)
                    = After(l[n + 1], w, read_state(SubSeq(l, 1, n), w))
    <2>1. /\ SubSeq(l, 1, n) \in Seq(Row) /\ n + 1 \in 1..Len(l) /\ l[n + 1] \in Row
          /\ SubSeq(l, 1, n + 1) = Append(SubSeq(l, 1, n), l[n + 1])
      BY <1>3, RowsSoFar
    <2>2. read_state(Append(SubSeq(l, 1, n), l[n + 1]), w)
             = After(l[n + 1], w, read_state(SubSeq(l, 1, n), w))
      BY <2>1, ReplayAppend
    <2>3. read_state(SubSeq(l, 1, n + 1), w)
             = After(l[n + 1], w, read_state(SubSeq(l, 1, n), w))
      BY ONLY <2>1, <2>2, Zenon
    <2>4. n + 1 \in 0..Len(l)
      BY <2>1
    <2> QED BY <2>1, <2>3, <2>4
  <1> QED BY <1>1, <1>2, <1>3, RowsSoFar

LEMMA StateType ==
    ASSUME NEW l \in Seq(Row), NEW w
    PROVE  read_state(l, w) \in State
  <1> DEFINE F == {n \in 0..Len(l) : read_state(SubSeq(l, 1, n), w) \in State}
  <1>1. 0 \in F
    <2>1. Fresh \in State
      BY MoneyAssumption DEF Fresh, State
    <2> QED BY <2>1, ReplayRows
  <1>2. ASSUME NEW n \in 0..Len(l), n < Len(l), n \in F
        PROVE  n + 1 \in F
    <2>1. /\ n + 1 \in 0..Len(l) /\ l[n + 1] \in Row
          /\ read_state(SubSeq(l, 1, n + 1), w)
                = After(l[n + 1], w, read_state(SubSeq(l, 1, n), w))
      BY <1>2, ReplayRows
    <2>2. read_state(SubSeq(l, 1, n), w) \in State
      BY <1>2
    <2>3. After(l[n + 1], w, read_state(SubSeq(l, 1, n), w)) \in State
      BY ONLY <2>1, <2>2, AfterType
    <2> QED BY <2>1, <2>3
  <1>3. Len(l) \in Nat
    OBVIOUS
  <1> HIDE DEF F
  <1>4. Len(l) \in F
    <2>1. \A n \in 0..Len(l) : n < Len(l) /\ n \in F => n + 1 \in F
      BY <1>2
    <2>2. \A n \in 0..Len(l) : n \in F
      BY ONLY <1>1, <1>3, <2>1, CountUp
    <2> QED BY <1>3, <2>2
  <1>5. read_state(SubSeq(l, 1, Len(l)), w) \in State
    BY <1>4 DEF F
  <1> QED BY <1>5, RowsSoFar

-----------------------------------------------------------------------------
(* Logs the bot may write, and what their replay has open.                 *)

\* The row ends a trade that the log opens, and repeats its columns.
EndsTrade(r, l) ==
    /\ Ends(r) /\ r.trade \in DOMAIN l /\ l[r.trade].kind = "OPEN"
    /\ r.wallet = l[r.trade].wallet /\ r.leg = l[r.trade].leg /\ r.stake = l[r.trade].stake

\* A row of either kind that may come next.
MayFollow(r, l) ==
    \/ r.kind = "OPEN" /\ r.trade = Len(l) + 1
    \/ EndsTrade(r, l)

WellFormed(l) ==
    \A k \in DOMAIN l : MayFollow(l[k], SubSeq(l, 1, k - 1))

OpenOf(l, w) == {r \in paper_open_positions(l) : r.wallet = w}

LEMMA WellFormedRows ==
    ASSUME NEW l \in Seq(Row), WellFormed(l), NEW k \in DOMAIN l
    PROVE  /\ l[k].kind = "OPEN" => l[k].trade = k
           /\ Ends(l[k]) => l[k].trade < k /\ EndsTrade(l[k], l)
  <1>1. k \in 1..Len(l) /\ k - 1 \in 0..Len(l) /\ Len(l) \in Nat /\ l[k] \in Row
    OBVIOUS
  <1>2. MayFollow(l[k], SubSeq(l, 1, k - 1))
    BY DEF WellFormed
  <1>3. /\ Len(SubSeq(l, 1, k - 1)) = k - 1 /\ DOMAIN SubSeq(l, 1, k - 1) = 1..(k - 1)
        /\ \A n \in 1..(k - 1) : SubSeq(l, 1, k - 1)[n] = l[n]
    BY <1>1, RowsSoFar
  <1>4. l[k].kind = "OPEN" <=> ~Ends(l[k])
    BY <1>1, RowFields
  <1>5. 1..(k - 1) \subseteq DOMAIN l /\ \A n \in 1..(k - 1) : n < k
    BY <1>1
  <1>6. CASE l[k].kind = "OPEN" /\ l[k].trade = Len(SubSeq(l, 1, k - 1)) + 1
    BY <1>1, <1>3, <1>4, <1>6
  <1>7. CASE EndsTrade(l[k], SubSeq(l, 1, k - 1))
    BY <1>3, <1>4, <1>5, <1>7 DEF EndsTrade
  <1> QED BY <1>2, <1>6, <1>7 DEF MayFollow

LEMMA WellFormedAppend ==
    ASSUME NEW l \in Seq(Row), NEW r \in Row, WellFormed(l), MayFollow(r, l)
    PROVE  WellFormed(Append(l, r))
  <1> DEFINE m == Append(l, r)
  <1>1. /\ Len(l) \in Nat /\ DOMAIN l = 1..Len(l) /\ DOMAIN m = 1..(Len(l) + 1)
        /\ m[Len(l) + 1] = r /\ \A k \in 1..Len(l) : m[k] = l[k]
    OBVIOUS
  <1>2. \A k \in 0..Len(l) : SubSeq(m, 1, k) = SubSeq(l, 1, k)
    OBVIOUS
  <1>3. SubSeq(m, 1, Len(l)) = l
    BY <1>1, <1>2, RowsSoFar
  <1>4. ASSUME NEW k \in DOMAIN m
        PROVE  MayFollow(m[k], SubSeq(m, 1, k - 1))
    <2>1. CASE k \in 1..Len(l)
      <3>1. k - 1 \in 0..Len(l)
        BY <1>1, <2>1
      <3> QED BY <1>1, <1>2, <2>1, <3>1 DEF WellFormed
    <2>2. CASE k = Len(l) + 1
      <3>1. k - 1 = Len(l)
        BY <1>1, <2>2
      <3> QED BY <1>1, <1>3, <2>2, <3>1
    <2> QED BY <1>1, <2>1, <2>2
  <1> QED BY <1>4 DEF WellFormed

\* An OPEN row opens its trade.
LEMMA OpensOne ==
    ASSUME NEW l \in Seq(Row), NEW r \in Row, WellFormed(l),
           r.kind = "OPEN", r.trade = Len(l) + 1
    PROVE  /\ paper_open_positions(Append(l, r)) = paper_open_positions(l) \cup {r}
           /\ r \notin paper_open_positions(l)
  <1> DEFINE m == Append(l, r)
  <1>1. /\ Len(l) \in Nat /\ DOMAIN l = 1..Len(l) /\ DOMAIN m = 1..(Len(l) + 1)
        /\ m[Len(l) + 1] = r /\ \A k \in 1..Len(l) : m[k] = l[k]
        /\ DOMAIN m = DOMAIN l \cup {Len(l) + 1} /\ Len(l) + 1 \notin DOMAIN l
    OBVIOUS
  <1>2. ~Ends(r)
    BY DEF Ends
  <1>3. \A t : Ended(m, t) <=> Ended(l, t)
    BY <1>1, <1>2 DEF Ended
  <1>4. ~Ended(m, r.trade)
    <2> SUFFICES ASSUME NEW k \in DOMAIN l, Ends(l[k]), l[k].trade = Len(l) + 1
                 PROVE  FALSE
      BY <1>3 DEF Ended
    <2>1. l[k].trade < k
      BY WellFormedRows
    <2> QED BY <1>1, <2>1
  <1>5. \A k \in DOMAIN l : l[k].kind = "OPEN" => l[k].trade = k
    BY WellFormedRows
  <1> HIDE DEF m
  <1>6. paper_open_positions(m) = paper_open_positions(l) \cup {r}
    BY <1>1, <1>3, <1>4 DEF paper_open_positions
  <1>7. r \notin paper_open_positions(l)
    BY <1>1, <1>5 DEF paper_open_positions
  <1> QED BY <1>6, <1>7 DEF m

\* A row that ends a trade closes it.
LEMMA EndsOne ==
    ASSUME NEW l \in Seq(Row), NEW r \in Row, WellFormed(l), EndsTrade(r, l)
    PROVE  paper_open_positions(Append(l, r)) = {o \in paper_open_positions(l) : o.trade # r.trade}
  <1> DEFINE m == Append(l, r)
  <1>1. /\ Len(l) \in Nat /\ DOMAIN l = 1..Len(l) /\ DOMAIN m = 1..(Len(l) + 1)
        /\ m[Len(l) + 1] = r /\ \A k \in 1..Len(l) : m[k] = l[k]
        /\ DOMAIN m = DOMAIN l \cup {Len(l) + 1} /\ Len(l) + 1 \notin DOMAIN l
    OBVIOUS
  <1>2. Ends(r) /\ r.kind # "OPEN"
    BY DEF Ends, EndsTrade
  <1>3. \A t : Ended(m, t) <=> Ended(l, t) \/ t = r.trade
    BY <1>1, <1>2 DEF Ended
  <1> HIDE DEF m
  <1>4. paper_open_positions(m) = {o \in paper_open_positions(l) : o.trade # r.trade}
    BY <1>1, <1>2, <1>3 DEF paper_open_positions
  <1> QED BY <1>4 DEF m

LEMMA WellFormedPrefix ==
    ASSUME NEW l \in Seq(Row), WellFormed(l), NEW n \in 0..Len(l)
    PROVE  WellFormed(SubSeq(l, 1, n))
  <1>1. /\ DOMAIN SubSeq(l, 1, n) = 1..n /\ 1..n \subseteq DOMAIN l
        /\ \A k \in 1..n : SubSeq(l, 1, n)[k] = l[k]
    BY RowsSoFar
  <1>2. \A k \in 1..n : SubSeq(SubSeq(l, 1, n), 1, k - 1) = SubSeq(l, 1, k - 1)
    OBVIOUS
  <1> QED BY <1>1, <1>2 DEF WellFormed

\* An open position is the OPEN row with the number of its trade.
LEMMA OpenRows ==
    ASSUME NEW l \in Seq(Row), WellFormed(l), NEW o \in paper_open_positions(l)
    PROVE  /\ o.trade \in DOMAIN l /\ l[o.trade] = o /\ o.kind = "OPEN" /\ o \in Row
           /\ ~Ended(l, o.trade)
  <1>1. PICK k \in DOMAIN l : o = l[k] /\ l[k].kind = "OPEN" /\ ~Ended(l, l[k].trade)
    BY DEF paper_open_positions
  <1>2. l[k] \in Row /\ l[k].trade = k
    BY <1>1, WellFormedRows
  <1> QED BY <1>1, <1>2

LEMMA IsOpenRow ==
    ASSUME NEW l \in Seq(Row), WellFormed(l), NEW t \in DOMAIN l, l[t].kind = "OPEN", ~Ended(l, t)
    PROVE  l[t] \in paper_open_positions(l)
  <1>1. l[t].trade = t
    BY WellFormedRows
  <1> QED BY <1>1 DEF paper_open_positions

LEMMA ReplayOpens ==
    ASSUME NEW l \in Seq(Row), NEW r \in Row, NEW w, WellFormed(l), MayFollow(r, l),
           read_state(l, w).open = OpenOf(l, w)
    PROVE  read_state(Append(l, r), w).open = OpenOf(Append(l, r), w)
  <1> DEFINE st == read_state(l, w)
  <1>0. st \in State /\ read_state(Append(l, r), w) = After(r, w, st)
    BY StateType, ReplayAppend
  <1>1. CASE r.kind = "OPEN" /\ r.trade = Len(l) + 1
    <2>1. OpenOf(Append(l, r), w) = OpenOf(l, w) \cup {o \in {r} : o.wallet = w}
      BY <1>1, OpensOne DEF OpenOf
    <2>2. After(r, w, st).open = IF r.wallet = w THEN st.open \cup {r} ELSE st.open
      BY <1>0, <1>1 DEF After, Apply, State
    <2> QED BY <1>0, <2>1, <2>2
  <1>2. CASE EndsTrade(r, l)
    <2>1. OpenOf(Append(l, r), w) = {o \in OpenOf(l, w) : o.trade # r.trade}
      BY <1>2, EndsOne DEF OpenOf
    <2>2. r.kind # "OPEN"
      BY <1>2 DEF EndsTrade, Ends
    <2>3. CASE r.wallet = w
      <3>1. After(r, w, st).open = st.open \ {o \in st.open : o.trade = r.trade}
        BY <2>2, <2>3 DEF After, Apply
      <3> QED BY <1>0, <2>1, <3>1
    <2>4. CASE r.wallet # w
      <3>1. After(r, w, st) = st
        BY <2>4 DEF After
      <3>2. \A o \in OpenOf(l, w) : o.trade # r.trade
        <4> SUFFICES ASSUME NEW o \in OpenOf(l, w), o.trade = r.trade  PROVE FALSE
          OBVIOUS
        <4>1. o \in paper_open_positions(l) /\ o.wallet = w
          BY DEF OpenOf
        <4>2. l[r.trade] = o
          BY <4>1, OpenRows
        <4> QED BY <1>2, <2>4, <4>1, <4>2 DEF EndsTrade
      <3> QED BY <1>0, <2>1, <3>1, <3>2
    <2> QED BY <2>3, <2>4
  <1> QED BY <1>1, <1>2 DEF MayFollow

\* What a row adds to the balance of a wallet.
Change(r, w) ==
    IF r.wallet # w THEN 0 ELSE IF r.kind = "OPEN" THEN 0 - r.stake ELSE r.payout

LEMMA ChangeType ==
    ASSUME NEW r \in Row, NEW w
    PROVE  /\ Change(r, w) \in Int
           /\ r.kind # "OPEN" => Change(r, w) \in Nat
           /\ r.kind = "OPEN" => Change(r, w) = IF r.wallet = w THEN 0 - r.stake ELSE 0
  BY RowFields DEF Change

LEMMA ReplayBalance ==
    ASSUME NEW l \in Seq(Row), NEW r \in Row, NEW w
    PROVE  /\ read_state(l, w).balance \in Int
           /\ read_state(Append(l, r), w).balance = read_state(l, w).balance + Change(r, w)
  <1> DEFINE st == read_state(l, w)
  <1>0. st \in State /\ read_state(Append(l, r), w) = After(r, w, st)
    BY StateType, ReplayAppend
  <1>1. st.balance \in Int /\ r.stake \in Nat /\ r.payout \in Nat
    BY <1>0, RowFields DEF State
  <1>2. After(r, w, st).balance = st.balance + Change(r, w)
    <2>1. CASE r.wallet = w /\ r.kind = "OPEN"
      <3>1. After(r, w, st).balance = st.balance - r.stake
        BY <1>0, <2>1 DEF After, Apply, State
      <3> QED BY <1>1, <2>1, <3>1 DEF Change
    <2>2. CASE r.wallet = w /\ r.kind # "OPEN"
      <3>1. After(r, w, st).balance = st.balance + r.payout
        BY <1>0, <2>2 DEF After, Apply, State
      <3> QED BY <1>1, <2>2, <3>1 DEF Change
    <2>3. CASE r.wallet # w
      <3>1. After(r, w, st).balance = st.balance
        BY <2>3 DEF After
      <3> QED BY <1>1, <2>3, <3>1 DEF Change
    <2> QED BY <2>1, <2>2, <2>3
  <1> HIDE DEF st
  <1>3. read_state(Append(l, r), w).balance = read_state(l, w).balance + Change(r, w)
    BY <1>0, <1>2 DEF st
  <1> QED BY <1>1, <1>3 DEF st

RowsOf(l, w, kinds) == {k \in DOMAIN l : l[k].wallet = w /\ l[k].kind \in kinds}

\* The same of the view, whose columns are summed over one row more or not.
LEMMA ViewBalance ==
    ASSUME NEW l \in Seq(Row), NEW r \in Row, NEW w
    PROVE  /\ paper_profile_balance(l, w) \in Int
           /\ paper_profile_balance(Append(l, r), w) = paper_profile_balance(l, w) + Change(r, w)
  <1> DEFINE m == Append(l, r)
             n == Len(l) + 1
             stake(x) == [k \in DOMAIN x |-> x[k].stake]
             payout(x) == [k \in DOMAIN x |-> x[k].payout]
             O(x) == RowsOf(x, w, {"OPEN"})
             E(x) == RowsOf(x, w, {"SETTLE", "CLOSE"})
             so(x) == SumFunctionOnSet(stake(x), O(x))
             se(x) == SumFunctionOnSet(payout(x), E(x))
  <1>1. /\ DOMAIN l = 1..Len(l) /\ Len(l) \in Nat /\ DOMAIN m = DOMAIN l \cup {n}
        /\ n \notin DOMAIN l /\ m[n] = r /\ \A k \in DOMAIN l : m[k] = l[k] /\ l[k] \in Row
    OBVIOUS
  <1>2. IsFiniteSet(DOMAIN l)
    BY <1>1, FS_Interval
  <1>3. /\ IsFiniteSet(O(l)) /\ IsFiniteSet(E(l)) /\ O(l) \subseteq DOMAIN l /\ E(l) \subseteq DOMAIN l
    BY <1>2, FS_Subset DEF RowsOf
  <1>4. /\ O(m) = O(l) \cup (IF r.wallet = w /\ r.kind = "OPEN" THEN {n} ELSE {})
        /\ E(m) = E(l) \cup (IF r.wallet = w /\ r.kind # "OPEN" THEN {n} ELSE {})
    BY <1>1, RowFields DEF RowsOf
  <1>5. /\ \A k \in DOMAIN l : /\ stake(l)[k] \in Nat /\ stake(m)[k] = stake(l)[k]
                               /\ payout(l)[k] \in Nat /\ payout(m)[k] = payout(l)[k]
        /\ stake(m)[n] = r.stake /\ payout(m)[n] = r.payout
        /\ r.stake \in Nat /\ r.payout \in Nat
    BY <1>1, RowFields
  <1>6. \A x : paper_profile_balance(x, w) = StartingBalance - so(x) + se(x)
    BY DEF paper_profile_balance, RowsOf
  <1> HIDE DEF m, n, stake, payout, O, E
  <1>7. /\ so(l) \in Int
        /\ SumFunctionOnSet(stake(m), O(l)) = so(l)
        /\ SumFunctionOnSet(stake(m), O(l) \cup {n}) = so(l) + r.stake
    <2> DEFINE D == O(l)
               f == stake(l)
               g == stake(m)
    <2>1. /\ IsFiniteSet(D) /\ n \notin D /\ g[n] \in Nat
          /\ \A k \in D : f[k] \in Nat /\ g[k] = f[k]
      BY <1>1, <1>3, <1>5
    <2> HIDE DEF D, f, g
    <2>2. /\ SumFunctionOnSet(f, D) \in Int
          /\ SumFunctionOnSet(g, D) = SumFunctionOnSet(f, D)
          /\ SumFunctionOnSet(g, D \cup {n}) = SumFunctionOnSet(f, D) + g[n]
      <3>1. \A k \in D : f[k] \in Int /\ f[k] = g[k]
        BY ONLY <2>1
      <3>2. \A k \in D \cup {n} : g[k] \in Int
        BY ONLY <2>1
      <3>3. SumFunctionOnSet(f, D) \in Int
        BY ONLY <2>1, <3>1, SumType
      <3>4. SumFunctionOnSet(f, D) = SumFunctionOnSet(g, D)
        BY ONLY <2>1, <3>1, SumSame
      <3>5. SumFunctionOnSet(g, D \cup {n}) = SumFunctionOnSet(g, D) + g[n]
        BY ONLY <2>1, <3>2, SumWith
      <3> QED BY <3>3, <3>4, <3>5
    <2> USE DEF D, f, g
    <2> QED BY <1>5, <2>2
  <1>8. /\ se(l) \in Int
        /\ SumFunctionOnSet(payout(m), E(l)) = se(l)
        /\ SumFunctionOnSet(payout(m), E(l) \cup {n}) = se(l) + r.payout
    <2> DEFINE D == E(l)
               f == payout(l)
               g == payout(m)
    <2>1. /\ IsFiniteSet(D) /\ n \notin D /\ g[n] \in Nat
          /\ \A k \in D : f[k] \in Nat /\ g[k] = f[k]
      BY <1>1, <1>3, <1>5
    <2> HIDE DEF D, f, g
    <2>2. /\ SumFunctionOnSet(f, D) \in Int
          /\ SumFunctionOnSet(g, D) = SumFunctionOnSet(f, D)
          /\ SumFunctionOnSet(g, D \cup {n}) = SumFunctionOnSet(f, D) + g[n]
      <3>1. \A k \in D : f[k] \in Int /\ f[k] = g[k]
        BY ONLY <2>1
      <3>2. \A k \in D \cup {n} : g[k] \in Int
        BY ONLY <2>1
      <3>3. SumFunctionOnSet(f, D) \in Int
        BY ONLY <2>1, <3>1, SumType
      <3>4. SumFunctionOnSet(f, D) = SumFunctionOnSet(g, D)
        BY ONLY <2>1, <3>1, SumSame
      <3>5. SumFunctionOnSet(g, D \cup {n}) = SumFunctionOnSet(g, D) + g[n]
        BY ONLY <2>1, <3>2, SumWith
      <3> QED BY <3>3, <3>4, <3>5
    <2> USE DEF D, f, g
    <2> QED BY <1>5, <2>2
  <1>9. /\ so(m) = IF r.wallet = w /\ r.kind = "OPEN" THEN so(l) + r.stake ELSE so(l)
        /\ se(m) = IF r.wallet = w /\ r.kind # "OPEN" THEN se(l) + r.payout ELSE se(l)
    BY <1>4, <1>7, <1>8
  <1> HIDE DEF so, se
  <1>10. paper_profile_balance(l, w) \in Int
    BY <1>6, <1>7, <1>8, MoneyAssumption
  <1>11. paper_profile_balance(m, w) = paper_profile_balance(l, w) + Change(r, w)
    BY <1>5, <1>6, <1>7, <1>8, <1>9, MoneyAssumption DEF Change
  <1> QED BY <1>10, <1>11 DEF m

LEMMA ViewOfNothing ==
    ASSUME NEW w
    PROVE  OpenOf(<<>>, w) = {} /\ paper_profile_balance(<<>>, w) = StartingBalance
  <1>1. DOMAIN <<>> = {}
    OBVIOUS
  <1>2. OpenOf(<<>>, w) = {}
    BY <1>1 DEF OpenOf, paper_open_positions
  <1>3. \A kinds : {k \in DOMAIN <<>> : <<>>[k].wallet = w /\ <<>>[k].kind \in kinds} = {}
    BY <1>1
  <1>4. paper_profile_balance(<<>>, w) = StartingBalance - 0 + 0
    BY <1>3, SumEmpty DEF paper_profile_balance
  <1> QED BY <1>2, <1>4, MoneyAssumption

\* The replay of read_state and the views find the same.
LEMMA ReplayIsView ==
    ASSUME NEW l \in Seq(Row), WellFormed(l), NEW w
    PROVE  /\ read_state(l, w).open = OpenOf(l, w)
           /\ read_state(l, w).balance = paper_profile_balance(l, w)
  <1> DEFINE Same(x) == /\ read_state(x, w).open = OpenOf(x, w)
                        /\ read_state(x, w).balance = paper_profile_balance(x, w)
             F == {n \in 0..Len(l) : Same(SubSeq(l, 1, n))}
  <1>1. 0 \in F
    <2>1. Same(<<>>)
      <3>1. read_state(<<>>, w) = Fresh /\ Fresh.open = {} /\ Fresh.balance = StartingBalance
        BY ReplayEmpty DEF Fresh
      <3> QED BY ONLY <3>1, ViewOfNothing, Zenon
    <2>2. SubSeq(l, 1, 0) = <<>> /\ 0 \in 0..Len(l)
      BY RowsSoFar
    <2> HIDE DEF Same
    <2> QED BY <2>1, <2>2
  <1>2. ASSUME NEW n \in 0..Len(l), n < Len(l), n \in F
        PROVE  n + 1 \in F
    <2> DEFINE x == SubSeq(l, 1, n)
               r == l[n + 1]
    <2>1. /\ x \in Seq(Row) /\ r \in Row /\ n + 1 \in 0..Len(l) /\ n + 1 \in DOMAIN l
          /\ SubSeq(l, 1, n + 1) = Append(x, r) /\ (n + 1) - 1 = n
      BY <1>2, RowsSoFar
    <2>2. WellFormed(x) /\ MayFollow(r, x)
      <3>1. WellFormed(x)
        BY <1>2, WellFormedPrefix
      <3>2. MayFollow(r, SubSeq(l, 1, (n + 1) - 1))
        BY <2>1 DEF WellFormed
      <3> QED BY <2>1, <3>1, <3>2
    <2>3. Same(x)
      BY <1>2
    <2> HIDE DEF x, r
    <2>4. Same(Append(x, r))
      BY <2>1, <2>2, <2>3, ReplayOpens, ReplayBalance, ViewBalance
    <2> QED BY <2>1, <2>4
  <1>3. Len(l) \in Nat
    OBVIOUS
  <1>4. Same(SubSeq(l, 1, Len(l)))
    <2> HIDE DEF F
    <2>1. \A n \in 0..Len(l) : n < Len(l) /\ n \in F => n + 1 \in F
      BY <1>2
    <2>2. \A n \in 0..Len(l) : n \in F
      BY ONLY <1>1, <1>3, <2>1, CountUp
    <2>3. Len(l) \in F
      BY <1>3, <2>2
    <2> QED BY <2>3 DEF F
  <1> QED BY <1>4, RowsSoFar

-----------------------------------------------------------------------------
(* The rows of several trades, in the order of their numbers.              *)

Sorted(s) == \A m, n \in DOMAIN s : m < n => s[m].trade < s[n].trade

LEMMA InOrderIs ==
    ASSUME NEW S \in SUBSET Row, IsFiniteSet(S), \A q, r \in S : q.trade = r.trade => q = r
    PROVE  /\ InOrder(S) \in Seq(S) /\ Len(InOrder(S)) = Cardinality(S)
           /\ Cardinality(S) \in Nat /\ Sorted(InOrder(S))
  <1> DEFINE F == {T \in SUBSET S : \E s \in [1..Cardinality(T) -> T] : Sorted(s)}
  <1>1. {} \in F
    <2>1. Cardinality({}) = 0
      BY FS_EmptySet
    <2>2. <<>> \in [1..0 -> {}] /\ Sorted(<<>>)
      BY DEF Sorted
    <2> QED BY <2>1, <2>2
  <1>2. ASSUME NEW T \in SUBSET S, T # {}, \A x \in T : T \ {x} \in F
        PROVE  T \in F
    <2> DEFINE trades == {x.trade : x \in T}
    <2>1. trades \subseteq Nat /\ trades # {}
      BY <1>2, RowFields
    <2>2. PICK t \in trades : \A u \in trades : ~(<<u, t>> \in OpToRel(<, Nat))
      BY <2>1, NatLessThanWellFounded, WFMin
    <2>3. PICK x \in T : x.trade = t
      OBVIOUS
    <2>4. ASSUME NEW y \in T, y # x
          PROVE  x.trade < y.trade
      <3>1. x.trade \in Nat /\ y.trade \in Nat /\ x.trade # y.trade
        BY <2>4, RowFields
      <3>2. ~(y.trade < x.trade)
        BY <2>1, <2>2, <2>3 DEF OpToRel
      <3> QED BY <3>1, <3>2
    <2>5. IsFiniteSet(T) /\ IsFiniteSet(T \ {x})
      BY FS_Subset
    <2>6. Cardinality(T) \in Nat /\ Cardinality(T \ {x}) = Cardinality(T) - 1 /\ Cardinality(T \ {x}) \in Nat
      BY <2>5, FS_RemoveElement, FS_CardinalityType
    <2>7. PICK s \in [1..Cardinality(T \ {x}) -> T \ {x}] : Sorted(s)
      BY <1>2
    <2> DEFINE c == Cardinality(T)
               g == [n \in 1..c |-> IF n = 1 THEN x ELSE s[n - 1]]
    <2>8. s \in [1..(c - 1) -> T \ {x}] /\ c \in Nat /\ c - 1 \in Nat
      BY <2>6, <2>7
    <2> HIDE DEF c
    <2>9. \A n \in 1..c : n # 1 => n - 1 \in 1..(c - 1) /\ s[n - 1] \in T /\ s[n - 1] # x
      <3>1. \A n \in 1..c : n # 1 => n - 1 \in 1..(c - 1)
        BY ONLY <2>8
      <3>2. \A m \in 1..(c - 1) : s[m] \in T /\ s[m] # x
        BY ONLY <2>8
      <3> QED BY ONLY <3>1, <3>2
    <2>10. g \in [1..c -> T]
      BY <2>9
    <2>11. ASSUME NEW m \in 1..c, NEW n \in 1..c, m < n
           PROVE  g[m].trade < g[n].trade
      <3>1. n # 1 /\ g[n] = s[n - 1] /\ n \in Nat /\ m \in Nat
        BY <2>8, <2>11
      <3>2. CASE m = 1
        <4>1. g[m] = x
          BY <3>2
        <4> QED BY <2>4, <2>9, <3>1, <4>1
      <3>3. CASE m # 1
        <4>1. g[m] = s[m - 1] /\ m - 1 < n - 1
          BY <2>11, <3>1, <3>3
        <4>2. m - 1 \in DOMAIN s /\ n - 1 \in DOMAIN s
          BY <2>8, <2>9, <3>1, <3>3
        <4> QED BY <2>7, <3>1, <4>1, <4>2 DEF Sorted
      <3> QED BY <3>2, <3>3
    <2>12. DOMAIN g = 1..c
      OBVIOUS
    <2> HIDE DEF g
    <2>13. Sorted(g)
      BY <2>11, <2>12 DEF Sorted
    <2> QED BY <2>10, <2>13 DEF c
  <1> HIDE DEF F
  <1>3. S \in F
    BY <1>1, <1>2, SetInduction
  <1>4. PICK s \in [1..Cardinality(S) -> S] : Sorted(s)
    BY <1>3 DEF F
  <1>5. InOrder(S) \in [1..Cardinality(S) -> S] /\ Sorted(InOrder(S))
    BY <1>4 DEF InOrder, Sorted
  <1>6. Cardinality(S) \in Nat
    BY FS_CardinalityType
  <1> QED BY <1>5, <1>6

\* The rows that end a set of open trades: all of them once.
Closes(q, l) ==
    /\ \A k \in DOMAIN q : EndsTrade(q[k], l) /\ ~Ended(l, q[k].trade)
    /\ \A k, n \in DOMAIN q : q[k].trade = q[n].trade => k = n

LEMMA OpenIsFinite ==
    ASSUME NEW l \in Seq(Row), WellFormed(l)
    PROVE  IsFiniteSet(paper_open_positions(l))
  <1> DEFINE S == paper_open_positions(l)
             f == [o \in S |-> o.trade]
  <1>1. IsFiniteSet(DOMAIN l)
    <2>1. DOMAIN l = 1..Len(l) /\ Len(l) \in Nat
      OBVIOUS
    <2> QED BY <2>1, FS_Interval
  <1>2. \A o \in S : o.trade \in DOMAIN l /\ l[o.trade] = o
    BY OpenRows
  <1> HIDE DEF S
  <1>3. f \in Injection(S, DOMAIN l)
    BY <1>2 DEF Injection, IsInjective
  <1>4. IsFiniteSet(S)
    BY <1>1, <1>3, FS_Injection
  <1> QED BY <1>4 DEF S

\* The open trades of a wallet on an event, and the rows that settle them.
OnEvent(w, e) == {o \in read_state(log, w).open : o.leg.event = e}

SettleRows(w, e, b) == {SettleRow(r, b) : r \in OnEvent(w, e)}

LEMMA SettleRowType ==
    ASSUME NEW o \in Row, NEW b
    PROVE  LET r == SettleRow(o, b)
           IN  /\ r \in Row /\ r.kind = "SETTLE" /\ r.trade = o.trade /\ r.wallet = o.wallet
               /\ r.leg = o.leg /\ r.stake = o.stake
               /\ r.payout = IF Won(o.leg, b) THEN o.stake * PayoutUnit ELSE 0
  <1>1. (IF Won(o.leg, b) THEN o.stake * PayoutUnit ELSE 0) \in Nat
    BY MoneyAssumption, RowFields
  <1> QED BY <1>1 DEF SettleRow, Row

LEMMA OnEventFacts ==
    ASSUME log \in Seq(Row), WellFormed(log), NEW w, NEW e
    PROVE  /\ IsFiniteSet(OnEvent(w, e))
           /\ \A o \in OnEvent(w, e) :
                 /\ o \in paper_open_positions(log) /\ o \in Row /\ o.trade \in DOMAIN log
                 /\ log[o.trade] = o /\ o.kind = "OPEN" /\ ~Ended(log, o.trade)
                 /\ o.wallet = w /\ o.leg.event = e
  <1>1. \A o \in OnEvent(w, e) : o \in paper_open_positions(log) /\ o.wallet = w /\ o.leg.event = e
    BY ReplayIsView DEF OpenOf, OnEvent
  <1>2. \A o \in OnEvent(w, e) : /\ o \in Row /\ o.trade \in DOMAIN log
                                /\ log[o.trade] = o /\ o.kind = "OPEN" /\ ~Ended(log, o.trade)
    BY <1>1, OpenRows
  <1>3. IsFiniteSet(OnEvent(w, e))
    BY <1>1, OpenIsFinite, FS_Subset
  <1> QED BY <1>1, <1>2, <1>3

LEMMA SettleRowsFacts ==
    ASSUME log \in Seq(Row), WellFormed(log), NEW w, NEW e, NEW b
    PROVE  /\ IsFiniteSet(SettleRows(w, e, b)) /\ SettleRows(w, e, b) \in SUBSET Row
           /\ \A r \in SettleRows(w, e, b) : EndsTrade(r, log) /\ ~Ended(log, r.trade)
           /\ \A q, r \in SettleRows(w, e, b) : q.trade = r.trade => q = r
  <1> DEFINE O == OnEvent(w, e)
             S == SettleRows(w, e, b)
  <1>1. /\ IsFiniteSet(O)
        /\ \A o \in O : /\ o \in Row /\ o.trade \in DOMAIN log
                        /\ log[o.trade] = o /\ o.kind = "OPEN" /\ ~Ended(log, o.trade)
    BY OnEventFacts
  <1>2. \A r \in S : \E o \in O : r = SettleRow(o, b)
    BY DEF SettleRows
  <1> HIDE DEF O, S
  <1>3. ASSUME NEW o \in O
        PROVE  LET r == SettleRow(o, b)
               IN  /\ r \in Row /\ r.kind = "SETTLE" /\ r.trade = o.trade /\ r.wallet = o.wallet
                   /\ r.leg = o.leg /\ r.stake = o.stake
    <2>1. o \in Row
      BY <1>1
    <2> QED BY <2>1, SettleRowType
  <1>4. \A r \in S : /\ r \in Row /\ EndsTrade(r, log) /\ ~Ended(log, r.trade)
    BY <1>1, <1>2, <1>3 DEF EndsTrade, Ends
  <1>5. \A q, r \in S : q.trade = r.trade => q = r
    BY <1>1, <1>2, <1>3
  <1>6. IsFiniteSet(S)
    <2> DEFINE f == [r \in S |-> log[r.trade]]
    <2>1. f \in Injection(S, O)
      BY <1>1, <1>2, <1>3 DEF Injection, IsInjective
    <2> QED BY <1>1, <2>1, FS_Injection
  <1> QED BY <1>4, <1>5, <1>6 DEF S

\* A settlement ends trades that are open, each of them once.
LEMMA SettlementCloses ==
    ASSUME log \in Seq(Row), WellFormed(log), NEW w, NEW e, NEW b
    PROVE  Settlement(w, e, b) \in Seq(Row) /\ Closes(Settlement(w, e, b), log)
  <1> DEFINE S == SettleRows(w, e, b)
  <1>4. \A r \in S : /\ r \in Row /\ EndsTrade(r, log) /\ ~Ended(log, r.trade)
    BY SettleRowsFacts
  <1>5. \A q, r \in S : q.trade = r.trade => q = r
    BY SettleRowsFacts
  <1>6. IsFiniteSet(S)
    BY SettleRowsFacts
  <1>7. Settlement(w, e, b) = InOrder(S)
    BY Zenon DEF Settlement, SettleRows, OnEvent
  <1> HIDE DEF S
  <1>8. InOrder(S) \in Seq(S) /\ Sorted(InOrder(S)) /\ S \in SUBSET Row
    BY <1>4, <1>5, <1>6, InOrderIs
  <1> DEFINE q == InOrder(S)
  <1>9. q \in Seq(S) /\ Sorted(q) /\ q \in Seq(Row)
    BY <1>8
  <1> HIDE DEF q
  <1>10. \A k \in DOMAIN q : q[k] \in S
    BY <1>9
  <1>11. \A k, n \in DOMAIN q : q[k].trade = q[n].trade => k = n
    <2>1. \A k \in DOMAIN q : k \in Nat /\ q[k].trade \in Nat
      BY <1>9, <1>10, <1>4, RowFields
    <2> QED BY <1>9, <2>1 DEF Sorted
  <1>12. Closes(q, log)
    BY <1>4, <1>10, <1>11 DEF Closes
  <1> QED BY <1>7, <1>9, <1>12 DEF q

LEMMA ClosingCloses ==
    ASSUME log \in Seq(Row), WellFormed(log), NEW r, NEW mark \in Nat
    PROVE  Closing(r, mark) \in Seq(Row) /\ Closes(Closing(r, mark), log)
  <1>1. CASE r \in read_state(log, r.wallet).open
    <2>1. /\ r \in Row /\ r.trade \in DOMAIN log /\ log[r.trade] = r /\ r.kind = "OPEN"
          /\ ~Ended(log, r.trade)
      <3>1. r \in paper_open_positions(log)
        BY <1>1, ReplayIsView DEF OpenOf
      <3> QED BY <3>1, OpenRows
    <2> DEFINE c == CloseRow(r, mark)
    <2>2. /\ c \in Row /\ c.kind = "CLOSE" /\ c.trade = r.trade /\ c.wallet = r.wallet
          /\ c.leg = r.leg /\ c.stake = r.stake
      <3>1. r.stake * mark \in Nat
        BY <2>1, RowFields
      <3> QED BY <2>1, <3>1 DEF CloseRow, Row
    <2>3. Closing(r, mark) = <<c>>
      BY <1>1 DEF Closing
    <2> HIDE DEF c
    <2>4. EndsTrade(c, log) /\ ~Ended(log, c.trade)
      BY <2>1, <2>2 DEF EndsTrade, Ends
    <2>5. DOMAIN <<c>> = {1} /\ <<c>>[1] = c /\ <<c>> \in Seq(Row)
      BY <2>2
    <2> QED BY <2>3, <2>4, <2>5 DEF Closes
  <1>2. CASE r \notin read_state(log, r.wallet).open
    <2>1. Closing(r, mark) = <<>> /\ <<>> \in Seq(Row) /\ DOMAIN <<>> = {}
      BY <1>2 DEF Closing
    <2> QED BY <2>1 DEF Closes
  <1> QED BY <1>1, <1>2

-----------------------------------------------------------------------------
(* What the bot's transactions append.                                     *)

LEMMA ConcatRows ==
    ASSUME NEW l \in Seq(Row), NEW q \in Seq(Row)
    PROVE  LET m == l \o q
           IN  /\ m \in Seq(Row) /\ Len(m) = Len(l) + Len(q) /\ Len(l) \in Nat /\ Len(q) \in Nat
               /\ DOMAIN l = 1..Len(l) /\ DOMAIN q = 1..Len(q) /\ DOMAIN m = 1..(Len(l) + Len(q))
               /\ \A k \in DOMAIN l : k \in DOMAIN m /\ m[k] = l[k] /\ l[k] \in Row
               /\ \A k \in DOMAIN q : /\ Len(l) + k \in DOMAIN m /\ m[Len(l) + k] = q[k]
                                      /\ q[k] \in Row
               /\ \A k \in DOMAIN m : k \in DOMAIN l \/ \E n \in DOMAIN q : k = Len(l) + n
               /\ \A n \in 0..Len(l) : SubSeq(m, 1, n) = SubSeq(l, 1, n)
               /\ SubSeq(m, 1, Len(l)) = l
  <1> DEFINE m == l \o q
  <1>1. /\ m \in Seq(Row) /\ Len(m) = Len(l) + Len(q) /\ Len(l) \in Nat /\ Len(q) \in Nat
        /\ DOMAIN l = 1..Len(l) /\ DOMAIN q = 1..Len(q) /\ DOMAIN m = 1..(Len(l) + Len(q))
    OBVIOUS
  <1>2. \A k \in DOMAIN l : k \in DOMAIN m /\ m[k] = l[k] /\ l[k] \in Row
    OBVIOUS
  <1>3. \A k \in DOMAIN q : Len(l) + k \in DOMAIN m /\ m[Len(l) + k] = q[k] /\ q[k] \in Row
    OBVIOUS
  <1>4. ASSUME NEW k \in DOMAIN m
        PROVE  k \in DOMAIN l \/ \E n \in DOMAIN q : k = Len(l) + n
    <2>1. CASE k <= Len(l)
      BY <1>1, <2>1
    <2>2. CASE ~(k <= Len(l))
      <3>1. k - Len(l) \in DOMAIN q /\ k = Len(l) + (k - Len(l))
        BY <1>1, <2>2
      <3> QED BY <3>1
    <2> QED BY <2>1, <2>2
  <1>5. \A n \in 0..Len(l) : SubSeq(m, 1, n) = SubSeq(l, 1, n)
    OBVIOUS
  <1>6. SubSeq(m, 1, Len(l)) = l
    BY <1>1, <1>5, RowsSoFar
  <1> QED BY <1>1, <1>2, <1>3, <1>4, <1>5, <1>6

\* EndsOnce of a log.
OnceEnded(l) ==
    \A k, n \in DOMAIN l : Ends(l[k]) /\ Ends(l[n]) /\ l[k].trade = l[n].trade => k = n

\* Rows that end a trade stay rows that may follow when the log has grown.
LEMMA ConcatWellFormed ==
    ASSUME NEW l \in Seq(Row), NEW q \in Seq(Row), WellFormed(l),
           \A k \in DOMAIN q : \/ EndsTrade(q[k], l)
                               \/ q[k].kind = "OPEN" /\ q[k].trade = Len(l) + k
    PROVE  WellFormed(l \o q)
  <1> DEFINE m == l \o q
  <1>1. ASSUME NEW k \in DOMAIN l
        PROVE  MayFollow(m[k], SubSeq(m, 1, k - 1))
    <2>1. k - 1 \in 0..Len(l) /\ m[k] = l[k]
      OBVIOUS
    <2>2. SubSeq(m, 1, k - 1) = SubSeq(l, 1, k - 1)
      BY <2>1, ConcatRows
    <2> HIDE DEF m
    <2> QED BY <2>1, <2>2 DEF WellFormed
  <1>2. ASSUME NEW n \in DOMAIN q
        PROVE  MayFollow(m[Len(l) + n], SubSeq(m, 1, (Len(l) + n) - 1))
    <2>1. /\ m \in Seq(Row) /\ m[Len(l) + n] = q[n] /\ (Len(l) + n) - 1 \in 0..Len(m)
          /\ (Len(l) + n) - 1 >= Len(l) /\ DOMAIN l = 1..Len(l) /\ Len(l) \in Nat
          /\ (Len(l) + n) - 1 + 1 = Len(l) + n /\ n \in Nat
          /\ \A k \in DOMAIN l : m[k] = l[k]
      OBVIOUS
    <2> DEFINE j == (Len(l) + n) - 1
               x == SubSeq(m, 1, j)
    <2> HIDE DEF m
    <2>2. Len(x) = j /\ DOMAIN x = 1..j /\ \A k \in 1..j : x[k] = m[k]
      BY <2>1, RowsSoFar
    <2>3. DOMAIN l \subseteq DOMAIN x /\ \A k \in DOMAIN l : x[k] = l[k]
      BY <2>1, <2>2
    <2>4. CASE EndsTrade(q[n], l)
      BY <2>1, <2>3, <2>4 DEF MayFollow, EndsTrade
    <2>5. CASE q[n].kind = "OPEN" /\ q[n].trade = Len(l) + n
      BY <2>1, <2>2, <2>5 DEF MayFollow
    <2> QED BY <2>4, <2>5
  <1>3. \A k \in DOMAIN m : k \in DOMAIN l \/ \E n \in DOMAIN q : k = Len(l) + n
    BY ConcatRows
  <1> HIDE DEF m
  <1>4. \A k \in DOMAIN m : MayFollow(m[k], SubSeq(m, 1, k - 1))
    BY <1>1, <1>2, <1>3
  <1> QED BY <1>4 DEF WellFormed, m

\* The commit of rows that end open trades, read before or just now.
LEMMA CommitCloses ==
    ASSUME NEW l \in Seq(Row), NEW q \in Seq(Row), WellFormed(l), Closes(q, l)
    PROVE  /\ l \o q \in Seq(Row) /\ WellFormed(l \o q)
           /\ paper_open_positions(l \o q) \subseteq paper_open_positions(l)
           /\ OnceEnded(l) => OnceEnded(l \o q)
  <1> DEFINE m == l \o q
  <1>1. /\ m \in Seq(Row) /\ DOMAIN l = 1..Len(l) /\ Len(l) \in Nat /\ DOMAIN q = 1..Len(q)
        /\ \A k \in DOMAIN l : k \in DOMAIN m /\ m[k] = l[k] /\ l[k] \in Row
        /\ \A k \in DOMAIN q : Len(l) + k \in DOMAIN m /\ m[Len(l) + k] = q[k] /\ q[k] \in Row
        /\ \A k \in DOMAIN m : k \in DOMAIN l \/ \E n \in DOMAIN q : k = Len(l) + n
    BY ConcatRows
  <1>2. WellFormed(m)
    BY ConcatWellFormed DEF Closes
  <1>3. \A n \in DOMAIN q : /\ q[n].kind # "OPEN" /\ Ends(q[n]) /\ ~Ended(l, q[n].trade)
    BY DEF Closes, EndsTrade, Ends
  <1> HIDE DEF m
  <1>4. \A t : Ended(l, t) => Ended(m, t)
    BY <1>1 DEF Ended
  <1>5. paper_open_positions(m) \subseteq paper_open_positions(l)
    <2> SUFFICES ASSUME NEW k \in DOMAIN m, m[k].kind = "OPEN", ~Ended(m, m[k].trade)
                 PROVE  m[k] \in paper_open_positions(l)
      BY DEF paper_open_positions
    <2>1. k \in DOMAIN l
      BY <1>1, <1>3
    <2> QED BY <1>1, <1>4, <2>1 DEF paper_open_positions
  <1>6. ASSUME OnceEnded(l)
        PROVE  OnceEnded(m)
    <2> SUFFICES ASSUME NEW k \in DOMAIN m, NEW n \in DOMAIN m,
                        Ends(m[k]), Ends(m[n]), m[k].trade = m[n].trade
                 PROVE  k = n
      BY DEF OnceEnded
    <2>1. CASE k \in DOMAIN l /\ n \in DOMAIN l
      BY <1>1, <1>6, <2>1 DEF OnceEnded
    <2>2. CASE k \in DOMAIN l /\ n \notin DOMAIN l
      <3>1. PICK j \in DOMAIN q : n = Len(l) + j
        BY <1>1, <2>2
      <3>2. Ended(l, q[j].trade)
        BY <1>1, <2>2, <3>1 DEF Ended
      <3> QED BY <1>3, <3>2
    <2>3. CASE k \notin DOMAIN l /\ n \in DOMAIN l
      <3>1. PICK j \in DOMAIN q : k = Len(l) + j
        BY <1>1, <2>3
      <3>2. Ended(l, q[j].trade)
        BY <1>1, <2>3, <3>1 DEF Ended
      <3> QED BY <1>3, <3>2
    <2>4. CASE k \notin DOMAIN l /\ n \notin DOMAIN l
      <3>1. PICK i \in DOMAIN q, j \in DOMAIN q : k = Len(l) + i /\ n = Len(l) + j
        BY <1>1, <2>4
      <3>2. i = j
        BY <1>1, <3>1 DEF Closes
      <3> QED BY <3>1, <3>2
    <2> QED BY <2>1, <2>2, <2>3, <2>4
  <1> QED BY <1>1, <1>2, <1>5, <1>6 DEF m

\* It never lowers a balance.
LEMMA CommitPays ==
    ASSUME NEW l \in Seq(Row), NEW q \in Seq(Row), Closes(q, l), NEW w
    PROVE  read_state(l \o q, w).balance >= read_state(l, w).balance
  <1> DEFINE m == l \o q
             b(n) == read_state(SubSeq(m, 1, n), w).balance
             F == {n \in 0..Len(q) : b(Len(l) + n) >= b(Len(l))}
  <1>1. /\ m \in Seq(Row) /\ Len(m) = Len(l) + Len(q) /\ Len(l) \in Nat /\ Len(q) \in Nat
        /\ DOMAIN q = 1..Len(q) /\ SubSeq(m, 1, Len(l)) = l
        /\ \A k \in DOMAIN q : m[Len(l) + k] = q[k] /\ q[k] \in Row
    BY ConcatRows
  <1>2. \A k \in DOMAIN q : q[k].kind # "OPEN"
    BY DEF Closes, EndsTrade, Ends
  <1> HIDE DEF m
  <1>3. \A n \in 0..Len(m) : b(n) \in Int
    BY <1>1, RowsSoFar, StateType DEF State
  <1>4. 0 \in F
    <2>1. Len(l) \in 0..Len(m) /\ Len(l) + 0 = Len(l) /\ 0 \in 0..Len(q)
      BY <1>1
    <2>2. b(Len(l)) \in Int
      BY <1>3, <2>1
    <2> QED BY <2>1, <2>2
  <1>5. ASSUME NEW n \in 0..Len(q), n < Len(q), n \in F
        PROVE  n + 1 \in F
    <2> DEFINE j == Len(l) + n
               r == m[j + 1]
    <2>1. /\ j \in 0..Len(m) /\ j < Len(m) /\ j + 1 = Len(l) + (n + 1) /\ n + 1 \in DOMAIN q
          /\ n + 1 \in 0..Len(q) /\ Len(l) \in 0..Len(m)
      BY <1>1, <1>5
    <2>2. r = q[n + 1] /\ r \in Row /\ r.kind # "OPEN"
      BY <1>1, <1>2, <2>1
    <2> HIDE DEF j, r
    <2>3. /\ SubSeq(m, 1, j) \in Seq(Row) /\ SubSeq(m, 1, j + 1) = Append(SubSeq(m, 1, j), r)
      BY <1>1, <2>1, RowsSoFar DEF r
    <2>4. b(j + 1) = b(j) + Change(r, w)
      <3>1. read_state(Append(SubSeq(m, 1, j), r), w).balance
               = read_state(SubSeq(m, 1, j), w).balance + Change(r, w)
        BY ONLY <2>2, <2>3, ReplayBalance
      <3> QED BY <2>3, <3>1, Zenon
    <2>5. Change(r, w) \in Nat
      BY <2>2, ChangeType
    <2>6. b(j) >= b(Len(l))
      BY <1>5 DEF j
    <2>7. b(j) \in Int /\ b(Len(l)) \in Int
      BY <1>3, <2>1
    <2> HIDE DEF b
    <2>8. b(j + 1) >= b(Len(l))
      BY <2>4, <2>5, <2>6, <2>7
    <2> QED BY <2>1, <2>8 DEF b
  <1> HIDE DEF F
  <1>6. Len(q) \in F
    <2>1. \A n \in 0..Len(q) : n < Len(q) /\ n \in F => n + 1 \in F
      BY <1>5
    <2>2. \A n \in 0..Len(q) : n \in F
      BY ONLY <1>1, <1>4, <2>1, CountUp
    <2> QED BY <1>1, <2>2
  <1>7. b(Len(m)) >= b(Len(l))
    BY <1>1, <1>6 DEF F
  <1>8. SubSeq(m, 1, Len(m)) = m
    BY <1>1, RowsSoFar
  <1> QED BY <1>1, <1>7, <1>8 DEF m

\* The rows of one decision open their trades and end none.
LEMMA TradesOpen ==
    ASSUME NEW l \in Seq(Row), NEW q \in Seq(Row), WellFormed(l),
           \A k \in DOMAIN q : q[k].kind = "OPEN" /\ q[k].trade = Len(l) + k
    PROVE  /\ l \o q \in Seq(Row) /\ WellFormed(l \o q)
           /\ paper_open_positions(l \o q) = paper_open_positions(l) \cup {q[k] : k \in DOMAIN q}
           /\ OnceEnded(l) => OnceEnded(l \o q)
  <1> DEFINE m == l \o q
  <1>1. /\ m \in Seq(Row) /\ DOMAIN l = 1..Len(l) /\ Len(l) \in Nat /\ DOMAIN q = 1..Len(q)
        /\ \A k \in DOMAIN l : k \in DOMAIN m /\ m[k] = l[k] /\ l[k] \in Row
        /\ \A k \in DOMAIN q : Len(l) + k \in DOMAIN m /\ m[Len(l) + k] = q[k] /\ q[k] \in Row
        /\ \A k \in DOMAIN m : k \in DOMAIN l \/ \E n \in DOMAIN q : k = Len(l) + n
    BY ConcatRows
  <1>2. WellFormed(m)
    BY ConcatWellFormed
  <1>3. \A n \in DOMAIN q : ~Ends(q[n])
    BY DEF Ends
  <1> HIDE DEF m
  <1>4. \A t : Ended(l, t) <=> Ended(m, t)
    BY <1>1, <1>3 DEF Ended
  <1>5. ASSUME NEW n \in DOMAIN q
        PROVE  ~Ended(m, q[n].trade)
    <2> SUFFICES ASSUME NEW k \in DOMAIN l, Ends(l[k]), l[k].trade = Len(l) + n
                 PROVE  FALSE
      BY <1>4 DEF Ended
    <2>1. l[k].trade < k /\ k \in Nat /\ k <= Len(l) /\ n \in Nat
      BY <1>1, WellFormedRows
    <2> QED BY <1>1, <2>1
  <1>6. paper_open_positions(m) = paper_open_positions(l) \cup {q[k] : k \in DOMAIN q}
    <2>1. ASSUME NEW o \in paper_open_positions(m)
          PROVE  o \in paper_open_positions(l) \cup {q[k] : k \in DOMAIN q}
      <3>1. PICK k \in DOMAIN m : o = m[k] /\ m[k].kind = "OPEN" /\ ~Ended(m, m[k].trade)
        BY DEF paper_open_positions
      <3>2. CASE k \in DOMAIN l
        BY <1>1, <1>4, <3>1, <3>2 DEF paper_open_positions
      <3>3. CASE k \notin DOMAIN l
        BY <1>1, <3>1, <3>3
      <3> QED BY <3>2, <3>3
    <2>2. paper_open_positions(l) \subseteq paper_open_positions(m)
      BY <1>1, <1>4 DEF paper_open_positions
    <2>3. ASSUME NEW k \in DOMAIN q
          PROVE  q[k] \in paper_open_positions(m)
      BY <1>1, <1>5, <2>3 DEF paper_open_positions
    <2> QED BY <2>1, <2>2, <2>3
  <1>7. ASSUME OnceEnded(l)
        PROVE  OnceEnded(m)
    BY <1>1, <1>3, <1>7 DEF OnceEnded
  <1> QED BY <1>1, <1>2, <1>6, <1>7 DEF m

Paid(f, legs, q) == SumFunctionOnSet(f, {legs[k] : k \in DOMAIN q})

\* They cost their wallet their stakes and no other wallet anything.
LEMMA TradesCost ==
    ASSUME NEW l \in Seq(Row), NEW q \in Seq(Row), NEW w, NEW f, NEW legs,
           \A k \in DOMAIN q : /\ q[k].kind = "OPEN" /\ q[k].wallet = w
                               /\ q[k].stake = f[legs[k]],
           \A k, n \in DOMAIN q : legs[k] = legs[n] => k = n
    PROVE  /\ read_state(l \o q, w).balance
                = read_state(l, w).balance - Paid(f, legs, q)
           /\ \A v : v # w => read_state(l \o q, v).balance = read_state(l, v).balance
  <1> DEFINE m == l \o q
             b(v, n) == read_state(SubSeq(m, 1, n), v).balance
             paid(n) == {legs[k] : k \in 1..n}
             s(n) == SumFunctionOnSet(f, paid(n))
             F == {n \in 0..Len(q) :
                      /\ IsFiniteSet(paid(n)) /\ s(n) \in Int
                      /\ b(w, Len(l) + n) = b(w, Len(l)) - s(n)}
  <1>1. /\ m \in Seq(Row) /\ Len(m) = Len(l) + Len(q) /\ Len(l) \in Nat /\ Len(q) \in Nat
        /\ DOMAIN q = 1..Len(q) /\ SubSeq(m, 1, Len(l)) = l
        /\ \A k \in DOMAIN q : m[Len(l) + k] = q[k] /\ q[k] \in Row
    BY ConcatRows
  <1> HIDE DEF m
  <1>2. \A n \in 0..Len(m) : \A v : b(v, n) \in Int
    BY <1>1, RowsSoFar, StateType DEF State
  <1>3. ASSUME NEW n \in 0..Len(q), n < Len(q), NEW v
        PROVE  /\ n + 1 \in DOMAIN q
               /\ b(v, Len(l) + (n + 1)) = b(v, Len(l) + n) - (IF v = w THEN q[n + 1].stake ELSE 0)
               /\ b(v, Len(l) + n) \in Int /\ b(v, Len(l)) \in Int /\ q[n + 1].stake \in Nat
    <2> DEFINE j == Len(l) + n
               r == m[j + 1]
    <2>1. /\ j \in 0..Len(m) /\ j < Len(m) /\ j + 1 = Len(l) + (n + 1) /\ n + 1 \in DOMAIN q
          /\ Len(l) \in 0..Len(m)
      BY <1>1, <1>3
    <2>2. r = q[n + 1] /\ r \in Row /\ r.kind = "OPEN" /\ r.wallet = w
      <3>1. m[Len(l) + (n + 1)] = q[n + 1] /\ q[n + 1] \in Row
        BY <1>1, <2>1
      <3>2. q[n + 1].kind = "OPEN" /\ q[n + 1].wallet = w
        BY <2>1
      <3> HIDE DEF j
      <3> QED BY <2>1, <3>1, <3>2
    <2> HIDE DEF j, r
    <2>3. /\ SubSeq(m, 1, j) \in Seq(Row) /\ SubSeq(m, 1, j + 1) = Append(SubSeq(m, 1, j), r)
      BY <1>1, <2>1, RowsSoFar DEF r
    <2>4. b(v, j + 1) = b(v, j) + Change(r, v)
      <3>1. read_state(Append(SubSeq(m, 1, j), r), v).balance
               = read_state(SubSeq(m, 1, j), v).balance + Change(r, v)
        BY ONLY <2>2, <2>3, ReplayBalance
      <3> QED BY <2>3, <3>1, Zenon
    <2>5. Change(r, v) = IF v = w THEN 0 - r.stake ELSE 0
      BY <2>2, ChangeType
    <2>6. b(v, j) \in Int /\ b(v, Len(l)) \in Int /\ r.stake \in Nat
      BY <1>2, <2>1, <2>2, RowFields
    <2> HIDE DEF b
    <2>7. b(v, j + 1) = b(v, j) - (IF v = w THEN r.stake ELSE 0)
      BY <2>4, <2>5, <2>6
    <2> QED BY <2>1, <2>2, <2>6, <2>7 DEF j
  <1> HIDE DEF b
  <1>a. ASSUME NEW k \in DOMAIN q
         PROVE  q[k].stake = f[legs[k]] /\ f[legs[k]] \in Nat
    <2>1. q[k] \in Row /\ q[k].stake = f[legs[k]]
      BY <1>1
    <2>2. q[k].stake \in Nat
      BY <2>1, RowFields
    <2> QED BY <2>1, <2>2
  <1>4. 0 \in F
    <2>1. Len(l) \in 0..Len(m) /\ Len(l) + 0 = Len(l) /\ 0 \in 0..Len(q)
      BY <1>1
    <2>2. b(w, Len(l)) \in Int
      BY <1>2, <2>1
    <2>3. paid(0) = {}
      OBVIOUS
    <2>4. IsFiniteSet(paid(0)) /\ s(0) = 0
      BY <2>3, SumEmpty, FS_EmptySet
    <2> HIDE DEF b, s, paid
    <2> QED BY <2>1, <2>2, <2>4
  <1>5. ASSUME NEW n \in 0..Len(q), n < Len(q), n \in F
        PROVE  n + 1 \in F
    <2> DEFINE y == legs[n + 1]
    <2>1. /\ n + 1 \in DOMAIN q /\ n + 1 \in 0..Len(q) /\ n \in Nat
          /\ q[n + 1].stake = f[y] /\ f[y] \in Nat
      <3>1. n + 1 \in DOMAIN q
        BY <1>3, <1>5
      <3> QED BY <1>1, <1>a, <3>1
    <2>2. 1..(n + 1) = (1..n) \cup {n + 1} /\ n + 1 \notin 1..n /\ 1..n \subseteq DOMAIN q
      BY <1>1, <2>1
    <2>3. paid(n + 1) = paid(n) \cup {y} /\ y \notin paid(n)
      BY <2>1, <2>2
    <2>4. \A x \in paid(n) \cup {y} : f[x] \in Int
      <3>1. \A x \in paid(n) : f[x] \in Nat
        BY <1>a, <2>2
      <3> QED BY <2>1, <3>1
    <2>5. IsFiniteSet(paid(n)) /\ s(n) \in Int /\ b(w, Len(l) + n) = b(w, Len(l)) - s(n)
      BY <1>5
    <2> HIDE DEF F, paid, y
    <2>6. SumFunctionOnSet(f, paid(n) \cup {y}) = SumFunctionOnSet(f, paid(n)) + f[y]
      <3> DEFINE P == paid(n)
      <3>1. IsFiniteSet(P) /\ y \notin P /\ \A x \in P \cup {y} : f[x] \in Int
        BY ONLY <2>3, <2>4, <2>5
      <3> HIDE DEF P
      <3>2. SumFunctionOnSet(f, P \cup {y}) = SumFunctionOnSet(f, P) + f[y]
        BY ONLY <3>1, SumWith
      <3> QED BY <3>2 DEF P
    <2>7. s(n + 1) = s(n) + f[y] /\ IsFiniteSet(paid(n + 1))
      BY <2>3, <2>5, <2>6, FS_AddElement
    <2>8. b(w, Len(l) + (n + 1)) = b(w, Len(l) + n) - f[y]
      BY <1>3, <1>5, <2>1
    <2>9. b(w, Len(l)) \in Int
      BY <1>3, <1>5
    <2> HIDE DEF b, s
    <2>10. b(w, Len(l) + (n + 1)) = b(w, Len(l)) - s(n + 1)
      BY <2>1, <2>5, <2>7, <2>8, <2>9
    <2>11. s(n + 1) \in Int
      BY <2>1, <2>5, <2>7
    <2> QED BY <2>1, <2>7, <2>10, <2>11 DEF F
  <1>6. Len(q) \in F
    <2> HIDE DEF F
    <2>1. \A n \in 0..Len(q) : n < Len(q) /\ n \in F => n + 1 \in F
      BY <1>5
    <2>2. \A n \in 0..Len(q) : n \in F
      BY ONLY <1>1, <1>4, <2>1, CountUp
    <2> QED BY <1>1, <2>2
  <1>7. SubSeq(m, 1, Len(m)) = m
    BY <1>1, RowsSoFar
  <1>8. read_state(m, w).balance = read_state(l, w).balance - SumFunctionOnSet(f, {legs[k] : k \in DOMAIN q})
    BY <1>1, <1>6, <1>7 DEF b
  <1>9. ASSUME NEW v, v # w
        PROVE  read_state(m, v).balance = read_state(l, v).balance
    <2> DEFINE G == {n \in 0..Len(q) : b(v, Len(l) + n) = b(v, Len(l))}
    <2>1. 0 \in G
      BY <1>1
    <2>2. ASSUME NEW n \in 0..Len(q), n < Len(q), n \in G
          PROVE  n + 1 \in G
      <3>1. n + 1 \in 0..Len(q) /\ b(v, Len(l) + (n + 1)) = b(v, Len(l) + n) - 0
            /\ b(v, Len(l) + n) \in Int
        BY <1>1, <1>3, <1>9, <2>2
      <3>2. b(v, Len(l) + n) = b(v, Len(l))
        BY <2>2
      <3> HIDE DEF b
      <3> QED BY <3>1, <3>2
    <2> HIDE DEF G
    <2>3. Len(q) \in G
      <3>1. \A n \in 0..Len(q) : n < Len(q) /\ n \in G => n + 1 \in G
        BY <2>2
      <3>2. \A n \in 0..Len(q) : n \in G
        BY ONLY <1>1, <2>1, <3>1, CountUp
      <3> QED BY <1>1, <3>2
    <2> QED BY <1>1, <1>7, <2>3 DEF G, b
  <1> QED BY <1>8, <1>9 DEF m, Paid

-----------------------------------------------------------------------------
(* What a wallet holds on a leg.                                           *)

Held(l, w, leg) == {o \in OpenOf(l, w) : o.leg = leg}

Stakes(S) == SumFunctionOnSet([r \in S |-> r.stake], S)

LEMMA ExposureIs ==
    ASSUME log \in Seq(Row), WellFormed(log), NEW w, NEW leg
    PROVE  /\ LegExposure(w, leg) = Stakes(Held(log, w, leg))
           /\ IsFiniteSet(Held(log, w, leg)) /\ Held(log, w, leg) \subseteq Row
  <1>1. read_state(log, w).open = OpenOf(log, w)
    BY ReplayIsView
  <1>2. LegExposure(w, leg) = Stakes(Held(log, w, leg))
    BY <1>1 DEF LegExposure, Stakes, Held
  <1>3. Held(log, w, leg) \subseteq paper_open_positions(log)
    BY DEF Held, OpenOf
  <1> QED BY <1>2, <1>3, OpenIsFinite, OpenRows, FS_Subset

LEMMA StakesFacts ==
    ASSUME NEW S \in SUBSET Row, IsFiniteSet(S)
    PROVE  /\ Stakes(S) \in Nat
           /\ \A T \in SUBSET S : Stakes(T) \in Nat /\ Stakes(T) <= Stakes(S)
           /\ \A r \in Row : r \notin S => Stakes(S \cup {r}) = Stakes(S) + r.stake
  <1> DEFINE u == [r \in S |-> r.stake]
  <1>1. \A r \in S : u[r] = r.stake /\ u[r] \in Nat
    BY RowFields
  <1>2. Stakes(S) \in Nat
    <2>1. SumFunctionOnSet(u, S) \in Nat
      <3> HIDE DEF u
      <3> QED BY <1>1, SumNotNegative
    <2> QED BY <2>1 DEF Stakes
  <1>3. ASSUME NEW T \in SUBSET S
        PROVE  Stakes(T) \in Nat /\ Stakes(T) <= Stakes(S)
    <2> DEFINE v == [r \in T |-> r.stake]
    <2>1. IsFiniteSet(T) /\ \A r \in T : v[r] = u[r] /\ v[r] \in Nat
      BY <1>1, FS_Subset
    <2> HIDE DEF u, v
    <2>2. SumFunctionOnSet(v, T) = SumFunctionOnSet(u, T)
      BY <2>1, SumSame
    <2>3. SumFunctionOnSet(u, T) <= SumFunctionOnSet(u, S)
      BY <1>1, SumOfSubset
    <2>4. SumFunctionOnSet(v, T) \in Nat
      BY <2>1, SumNotNegative
    <2> QED BY <2>2, <2>3, <2>4 DEF Stakes, u, v
  <1>4. ASSUME NEW r \in Row, r \notin S
        PROVE  Stakes(S \cup {r}) = Stakes(S) + r.stake
    <2> DEFINE T == S \cup {r}
               v == [q \in T |-> q.stake]
    <2>1. /\ \A q \in S : u[q] = v[q]
          /\ \A q \in S \cup {r} : v[q] \in Int
          /\ v[r] = r.stake
      BY <1>1, RowFields
    <2> HIDE DEF u, v
    <2>2. SumFunctionOnSet(u, S) = SumFunctionOnSet(v, S)
      BY <2>1, SumSame
    <2>3. SumFunctionOnSet(v, S \cup {r}) = SumFunctionOnSet(v, S) + v[r]
      BY ONLY <1>4, <2>1, IsFiniteSet(S), SumWith
    <2>4. SumFunctionOnSet(v, S \cup {r}) = SumFunctionOnSet(u, S) + r.stake
      BY <2>1, <2>2, <2>3
    <2> QED BY <2>4 DEF Stakes, u, v
  <1> QED BY <1>2, <1>3, <1>4

-----------------------------------------------------------------------------
(* The invariant: the log is well-formed, the rows that wait for their     *)
(* commit end open trades, and what the sweep read of the wallet it manages*)
(* still bounds what it may add.                                           *)

\* What the sweep knows of wallet w.
Reading(w) ==
    /\ tick.sweep.balance <= read_state(log, w).balance
    /\ \E n \in 0..Len(log) : tick.sweep.bankroll = read_state(SubSeq(log, 1, n), w).balance
    /\ \A l \in tick.sweep.todo : LegExposure(w, l) <= tick.sweep.held[l]

SweepInv ==
    /\ tick.sweep.wallet # {} => pc = "manage"
    /\ \A w \in tick.sweep.wallet : w \in Active /\ tick.sweep.wallet = {w} /\ Reading(w)

PaperInv ==
    /\ TypeOK
    /\ WellFormed(log) /\ OnceEnded(log) /\ Closes(pend, log)
    /\ WithinMeans
    /\ SweepInv

\* A step that appends nothing.
LEMMA QuietLog ==
    ASSUME PaperInv, UNCHANGED log, TypeOK', Closes(pend, log)', SweepInv'
    PROVE  PaperInv'
  BY DEF PaperInv, WithinMeans, Solvent, LegWithinCap, LegExposure

\* The sweep goes on with what it read, or with fewer legs.
LEMMA QuietSweep ==
    ASSUME SweepInv, TypeOK, UNCHANGED log, pc' = pc,
           tick'.sweep.wallet = tick.sweep.wallet, tick'.sweep.balance = tick.sweep.balance,
           tick'.sweep.bankroll = tick.sweep.bankroll, tick'.sweep.held = tick.sweep.held,
           tick'.sweep.todo \subseteq tick.sweep.todo
    PROVE  SweepInv'
  BY DEF SweepInv, Reading, LegExposure

LEMMA IdleSweep ==
    ASSUME tick'.sweep.wallet = {}
    PROVE  SweepInv'
  BY DEF SweepInv

LEMMA NoClosing == Closes(<<>>, log)
  BY DEF Closes

LEMMA InstantType ==
    ASSUME NEW P, NEW n \in Nat
    PROVE  LatestDue(P, n) \in Nat /\ LatestDue(P, n) <= n
  <1> DEFINE S == {0} \cup {g \in {GateAt[w][e] : w \in P \cap Gated, e \in Events} : g <= n}
  <1>1. S \subseteq 0..n /\ S # {}
    BY ProfilesAssumption
  <1> HIDE DEF S
  <1>2. Max(S) \in S
    BY <1>1, LastOf
  <1>3. LatestDue(P, n) = Max(S)
    BY DEF LatestDue, S
  <1>4. Max(S) \in Nat /\ Max(S) <= n
    <2>1. Max(S) \in 0..n
      BY <1>1, <1>2, Zenon
    <2>2. \A k \in 0..n : k \in Nat /\ k <= n
      OBVIOUS
    <2> QED BY <2>1, <2>2, Zenon
  <1> QED BY <1>3, <1>4, Zenon

SweepLocals ==
    [wallet : SUBSET Wallets, bankroll : Nat, balance : Nat, held : [Legs -> Nat],
     todo : SUBSET Legs, closing : SUBSET Row, mark : Nat]

LEMMA Nothing == NoSweep \in SweepLocals /\ NoTick \in TickLocals
  <1>1. NoSweep \in SweepLocals
    BY DEF NoSweep, SweepLocals
  <1>2. TickLocals =
            [now : Nat, profiles : SUBSET Wallets, events : SUBSET Events,
             pairs : SUBSET Pairs, quoted : SUBSET Events, wallets : SUBSET Wallets,
             trades : SUBSET Row, sweep : SweepLocals]
    BY DEF TickLocals, SweepLocals
  <1> HIDE DEF SweepLocals
  <1> QED BY <1>1, <1>2 DEF NoTick

LEMMA ListedEvents == Listed \subseteq Events /\ Unresolved \subseteq Events
  BY LegsAssumption DEF Listed, Unresolved

LEMMA OpenEvents ==
    ASSUME log \in Seq(Row), WellFormed(log)
    PROVE  /\ fetch_open_event_ids(log) \subseteq Events
           /\ \A w : read_state(log, w).open \subseteq Row
  <1>1. \A r \in paper_open_positions(log) : r \in Row
    BY OpenRows
  <1>2. \A r \in Row : r.leg.event \in Events
    BY RowFields, LegsAssumption
  <1> QED BY <1>1, <1>2, StateType DEF fetch_open_event_ids, State

LEMMA CapType ==
    ASSUME NEW b \in Int
    PROVE  Cap(b) \in Int /\ (b >= 0 => Cap(b) >= 0)
  <1>1. b * CapNum \in Int /\ CapDen \in Nat \ {0}
    BY SizingAssumption
  <1>2. b >= 0 => b * CapNum \in Nat
    BY SizingAssumption
  <1>3. ASSUME NEW a \in Int, NEW d \in Nat \ {0}
        PROVE  a \div d \in Int /\ (a \in Nat => a \div d >= 0)
    OBVIOUS
  <1> QED BY <1>1, <1>2, <1>3 DEF Cap

LEMMA InitPaperInv == Init => PaperInv
  <1> SUFFICES ASSUME Init  PROVE PaperInv
    OBVIOUS
  <1>1. log = <<>> /\ pend = <<>> /\ tick = NoTick /\ DOMAIN log = {} /\ log \in Seq(Row)
    BY DEF Init
  <1>2. TypeOK
    BY <1>1, Nothing DEF Init, TypeOK
  <1>3. WellFormed(log) /\ OnceEnded(log) /\ Closes(pend, log)
    BY <1>1, NoClosing DEF WellFormed, OnceEnded
  <1>4. \A w : read_state(log, w).balance = StartingBalance
    BY <1>1, ReplayEmpty DEF Fresh
  <1>5. Solvent
    BY <1>4, MoneyAssumption DEF Solvent
  <1>6. LegWithinCap
    <2> SUFFICES ASSUME NEW w \in Active, NEW l \in Legs
                 PROVE  \E n \in 0..Len(log) :
                          LegExposure(w, l) <= Cap(read_state(SubSeq(log, 1, n), w).balance)
      BY DEF LegWithinCap
    <2>1. Held(log, w, l) = {}
      BY <1>1 DEF Held, OpenOf, paper_open_positions
    <2>2. LegExposure(w, l) = 0
      BY <1>1, <1>3, <2>1, ExposureIs, SumEmpty DEF Stakes
    <2>3. SubSeq(log, 1, 0) = log /\ 0 \in 0..Len(log)
      BY <1>1
    <2>4. Cap(StartingBalance) >= 0
      BY MoneyAssumption, CapType
    <2> QED BY <1>4, <2>2, <2>3, <2>4
  <1>7. SweepInv
    BY <1>1 DEF SweepInv, NoTick, NoSweep
  <1> QED BY <1>2, <1>3, <1>5, <1>6, <1>7 DEF PaperInv, WithinMeans

\* What every step but the ones on money leaves alone.
LEMMA Quiet ==
    ASSUME PaperInv, UNCHANGED <<log, stored, env, faults>>,
           tick' \in TickLocals, pend' \in Seq(Row), Closes(pend', log), SweepInv',
           pc' \in {"idle", "settle", "exits", "sweep", "manage", "mark", "units"}
    PROVE  PaperInv'
  <1>1. TypeOK'
    BY DEF PaperInv, TypeOK, env
  <1> QED BY <1>1, QuietLog

LEMMA QuietPend ==
    ASSUME PaperInv, UNCHANGED pend
    PROVE  pend' \in Seq(Row) /\ Closes(pend', log)
  BY DEF PaperInv, TypeOK

LEMMA SettleInv ==
    ASSUME PaperInv, BeginTick \/ Settle
    PROVE  PaperInv'
  <1>0. /\ TypeOK /\ tick \in TickLocals /\ log \in Seq(Row) /\ WellFormed(log) /\ SweepInv
        /\ clock \in Nat /\ enabled \subseteq Wallets
    BY DEF PaperInv, TypeOK
  <1>1. CASE BeginTick
    <2>1. tick' \in TickLocals /\ tick'.sweep.wallet = {}
      BY <1>0, <1>1, Nothing, OpenEvents DEF BeginTick, TickLocals, NoTick, NoSweep
    <2> QED BY <1>1, <2>1, IdleSweep, QuietPend, Quiet DEF BeginTick
  <1>2. ASSUME NEW e \in Events, SkipEvent(e) \/ ResolvedEvent(e)
        PROVE  PaperInv'
    <2>1. tick' \in TickLocals
      <3>1. tick.profiles \X {e} \in SUBSET Pairs
        BY <1>0 DEF TickLocals, Pairs
      <3>2. tick.events \ {e} \in SUBSET Events
        BY <1>0 DEF TickLocals
      <3> QED BY <1>0, <1>2, <3>1, <3>2 DEF SkipEvent, ResolvedEvent, TickLocals
    <2>2. tick'.sweep = tick.sweep /\ pc' = pc /\ UNCHANGED <<log, stored, env, faults, pend>>
      BY <1>0, <1>2 DEF SkipEvent, ResolvedEvent, TickLocals
    <2>3. pc' = "settle"
      BY <1>2 DEF SkipEvent, ResolvedEvent
    <2> QED BY <1>0, <2>1, <2>2, <2>3, QuietSweep, QuietPend, Quiet
  <1>3. ASSUME NEW w \in Wallets, NEW e \in Events, SettleProfile(w, e)
        PROVE  PaperInv'
    <2>1. tick' \in TickLocals /\ tick'.sweep = tick.sweep
      BY <1>0, <1>3 DEF SettleProfile, TickLocals
    <2>2. pc' = pc /\ pc' = "settle" /\ UNCHANGED <<log, stored, env, faults>>
      BY <1>3 DEF SettleProfile
    <2>3. pend' = Settlement(w, e, winner[e])
      BY <1>3 DEF SettleProfile
    <2>4. pend' \in Seq(Row) /\ Closes(pend', log)
      BY <1>0, <2>3, SettlementCloses
    <2> QED BY <1>0, <2>1, <2>2, <2>4, QuietSweep, Quiet
  <1>4. CASE SettleDone
    <2>1. tick' \in TickLocals /\ tick'.sweep = tick.sweep
      BY <1>0, <1>4, ListedEvents DEF SettleDone, TickLocals
    <2>2. tick.sweep.wallet = {}
      BY <1>0, <1>4 DEF SettleDone, SweepInv
    <2> QED BY <1>4, <2>1, <2>2, IdleSweep, QuietPend, Quiet DEF SettleDone
  <1> QED BY <1>1, <1>2, <1>3, <1>4 DEF Settle

LEMMA ExitsInv ==
    ASSUME PaperInv, Exits
    PROVE  PaperInv'
  <1>0. /\ TypeOK /\ tick \in TickLocals /\ log \in Seq(Row) /\ WellFormed(log) /\ SweepInv
    BY DEF PaperInv, TypeOK
  <1>1. ASSUME NEW w \in Wallets, ExitsOf(w)
        PROVE  PaperInv'
    <2>1. tick' \in TickLocals /\ tick'.sweep = tick.sweep
      BY <1>0, <1>1, OpenEvents DEF ExitsOf, TickLocals
    <2>2. pc' = pc /\ pc' = "exits" /\ UNCHANGED <<log, stored, env, faults, pend>>
      BY <1>1 DEF ExitsOf
    <2> QED BY <1>0, <2>1, <2>2, QuietSweep, QuietPend, Quiet
  <1>2. ASSUME NEW r \in tick.trades, HoldTrade(r)
        PROVE  PaperInv'
    <2>1. tick' \in TickLocals /\ tick'.sweep = tick.sweep
      BY <1>0, <1>2 DEF HoldTrade, TickLocals
    <2>2. pc' = pc /\ pc' = "exits" /\ UNCHANGED <<log, stored, env, faults, pend>>
      BY <1>2 DEF HoldTrade
    <2> QED BY <1>0, <2>1, <2>2, QuietSweep, QuietPend, Quiet
  <1>3. ASSUME NEW r \in tick.trades, NEW m \in Marks, CloseTrade(r, m)
        PROVE  PaperInv'
    <2>1. tick' \in TickLocals /\ tick'.sweep = tick.sweep
      BY <1>0, <1>3 DEF CloseTrade, TickLocals
    <2>2. pc' = pc /\ pc' = "exits" /\ UNCHANGED <<log, stored, env, faults>>
      BY <1>3 DEF CloseTrade
    <2>3. pend' = Closing(r, m) /\ m \in Nat
      BY <1>3, SizingAssumption, MoneyAssumption DEF CloseTrade
    <2>4. pend' \in Seq(Row) /\ Closes(pend', log)
      BY <1>0, <2>3, ClosingCloses
    <2> QED BY <1>0, <2>1, <2>2, <2>4, QuietSweep, Quiet
  <1>4. CASE ExitsDone
    <2>1. tick' = tick /\ tick.sweep.wallet = {}
      BY <1>0, <1>4 DEF ExitsDone, SweepInv
    <2> QED BY <1>0, <1>4, <2>1, IdleSweep, QuietPend, Quiet DEF ExitsDone
  <1> QED BY <1>1, <1>2, <1>3, <1>4 DEF Exits

LEMMA UnitsType ==
    ASSUME tick \in TickLocals, ToUnits
    PROVE  tick' \in TickLocals /\ tick'.sweep.wallet = {} /\ pc' = "units"
  <1>1. {p \in Pairs : p[1] \in tick.profiles \cap Gated /\ AtGate(p[1], p[2], tick.now)} \in SUBSET Pairs
    OBVIOUS
  <1>2. Unresolved \in SUBSET Events /\ NoSweep \in SweepLocals /\ NoSweep.wallet = {}
    BY ListedEvents, Nothing DEF NoSweep
  <1> QED BY <1>1, <1>2 DEF ToUnits, TickLocals, SweepLocals

\* The steps of the sweep that end no trade and open none.
LEMMA SweepQuiet ==
    ASSUME PaperInv,
           \/ SkipSweep \/ BeginSweep \/ WalletDone \/ SweepDone \/ MarkInstant
    PROVE  PaperInv'
  <1>0. /\ TypeOK /\ tick \in TickLocals /\ log \in Seq(Row) /\ WellFormed(log) /\ SweepInv
    BY DEF PaperInv, TypeOK
  <1>1. CASE SkipSweep
    <2>1. tick' \in TickLocals /\ tick'.sweep.wallet = {} /\ pc' = "units"
      BY <1>0, <1>1, UnitsType DEF SkipSweep
    <2> QED BY <1>1, <2>1, IdleSweep, QuietPend, Quiet DEF SkipSweep
  <1>2. CASE BeginSweep
    <2>1. PICK contexts \in SUBSET Unresolved :
             tick' = [tick EXCEPT !.quoted = contexts,
                                  !.wallets = IF contexts = {} THEN {} ELSE ActiveInUse]
      BY <1>2 DEF BeginSweep
    <2>2. ActiveInUse \in SUBSET Wallets /\ contexts \in SUBSET Events
      BY <1>0, ListedEvents DEF ActiveInUse, TickLocals
    <2>3. tick' \in TickLocals /\ tick'.sweep = tick.sweep
      BY <1>0, <2>1, <2>2 DEF TickLocals
    <2>4. tick.sweep.wallet = {}
      BY <1>0, <1>2 DEF BeginSweep, SweepInv
    <2> QED BY <1>2, <2>3, <2>4, IdleSweep, QuietPend, Quiet DEF BeginSweep
  <1>3. CASE WalletDone
    <2>1. tick' \in TickLocals /\ tick'.sweep.wallet = {}
      <3>1. NoSweep \in SweepLocals /\ NoSweep.wallet = {}
        BY Nothing DEF NoSweep
      <3> QED BY <1>0, <1>3, <3>1 DEF WalletDone, TickLocals, SweepLocals
    <2>2. pc' = "manage" /\ UNCHANGED <<log, stored, env, faults, pend>>
      BY <1>3 DEF WalletDone
    <2> QED BY <2>1, <2>2, IdleSweep, QuietPend, Quiet
  <1>4. CASE SweepDone
    <2>1. tick' \in TickLocals /\ tick'.sweep.wallet = {}
      BY <1>0, <1>4 DEF SweepDone
    <2> QED BY <1>4, <2>1, IdleSweep, QuietPend, Quiet DEF SweepDone
  <1>5. CASE MarkInstant
    <2>1. tick' \in TickLocals /\ tick'.sweep.wallet = {} /\ pc' = "units"
      BY <1>0, <1>5, UnitsType DEF MarkInstant
    <2>2. stored' \in Nat
      <3>1. tick.now \in Nat
        BY <1>0 DEF TickLocals
      <3> QED BY <1>5, <3>1, InstantType DEF MarkInstant, Instant
    <2>3. TypeOK'
      BY <1>0, <1>5, <2>1, <2>2 DEF MarkInstant, TypeOK, env
    <2>4. SweepInv' /\ Closes(pend, log)'
      BY <1>5, <2>1, IdleSweep DEF MarkInstant, PaperInv
    <2> QED BY <1>5, <2>3, <2>4, QuietLog DEF MarkInstant
  <1> QED BY <1>1, <1>2, <1>3, <1>4, <1>5

\* manage_active_wallet reads the wallet: nothing it reads has changed yet.
LEMMA ManageInv ==
    ASSUME PaperInv, NEW w \in Active, ManageWallet(w)
    PROVE  PaperInv'
  <1>0. /\ TypeOK /\ tick \in TickLocals /\ log \in Seq(Row) /\ WellFormed(log) /\ w \in Wallets
    BY ProfilesAssumption DEF PaperInv, TypeOK
  <1> DEFINE b == read_state(log, w).balance
             sweep == [NoSweep EXCEPT
                  !.wallet = {w}, !.bankroll = b, !.balance = b,
                  !.held = [l \in Legs |-> LegExposure(w, l)],
                  !.todo = {l \in Legs : l.event \in tick.quoted}]
  <1>1. tick' = [tick EXCEPT !.wallets = @ \ {w}, !.sweep = sweep]
    BY DEF ManageWallet
  <1>2. b \in Nat
    <2>1. b \in Int
      BY <1>0, StateType DEF State
    <2> QED BY <1>0, <2>1 DEF PaperInv, WithinMeans, Solvent
  <1>3. \A l \in Legs : LegExposure(w, l) \in Nat
    BY <1>0, ExposureIs, StakesFacts
  <1> HIDE DEF b
  <1>4. sweep \in SweepLocals
    <2>1. NoSweep \in SweepLocals
      BY Nothing
    <2> QED BY <1>0, <1>2, <1>3, <2>1 DEF SweepLocals
  <1>5. /\ sweep.wallet = {w} /\ sweep.balance = b /\ sweep.bankroll = b
        /\ sweep.todo \subseteq Legs /\ \A l \in Legs : sweep.held[l] = LegExposure(w, l)
    BY DEF NoSweep
  <1> HIDE DEF sweep
  <1>6. tick' \in TickLocals /\ tick'.sweep = sweep
    BY <1>0, <1>1, <1>4 DEF TickLocals, SweepLocals
  <1>7. pc' = "manage" /\ UNCHANGED <<log, stored, env, faults, pend>>
    BY DEF ManageWallet
  <1>8. SweepInv'
    <2>1. /\ b <= read_state(log, w).balance
          /\ \E n \in 0..Len(log) : b = read_state(SubSeq(log, 1, n), w).balance
      <3>1. SubSeq(log, 1, Len(log)) = log /\ Len(log) \in 0..Len(log)
        BY <1>0, RowsSoFar
      <3>2. b = read_state(SubSeq(log, 1, Len(log)), w).balance
        BY <3>1 DEF b
      <3>3. b = read_state(log, w).balance
        BY DEF b
      <3>4. b <= b
        BY <1>2
      <3> QED BY <3>1, <3>2, <3>3, <3>4, Zenon
    <2>2. \A l \in sweep.todo : LegExposure(w, l) <= sweep.held[l]
      BY <1>3, <1>5
    <2>3. \A v \in Active, l \in Legs : LegExposure(v, l)' = LegExposure(v, l)
      BY <1>7 DEF LegExposure
    <2>4. Reading(w)'
      BY <1>5, <1>6, <1>7, <2>1, <2>2, <2>3 DEF Reading
    <2> QED BY <1>5, <1>6, <1>7, <2>4 DEF SweepInv
  <1> QED BY <1>6, <1>7, <1>8, QuietPend, Quiet

\* A leg is held or flattened, a ticket closed.
LEMMA LegInv ==
    ASSUME PaperInv, NEW w \in Active, NEW l \in Legs,
           HoldLeg(w, l) \/ \E m \in Marks : FlattenLeg(w, l, m)
    PROVE  PaperInv'
  <1>0. /\ TypeOK /\ tick \in TickLocals /\ log \in Seq(Row) /\ WellFormed(log) /\ SweepInv
    BY DEF PaperInv, TypeOK
  <1>1. CASE HoldLeg(w, l)
    <2>1. /\ tick' \in TickLocals /\ tick'.sweep = [tick.sweep EXCEPT !.todo = @ \ {l}]
      BY <1>0, <1>1 DEF HoldLeg, TickLocals
    <2>2. pc' = pc /\ pc' = "manage" /\ UNCHANGED <<log, stored, env, faults, pend>>
      BY <1>1 DEF HoldLeg, AtLeg
    <2>3. SweepInv'
      BY <1>0, <2>1, <2>2, QuietSweep DEF TickLocals
    <2> QED BY <2>1, <2>2, <2>3, QuietPend, Quiet
  <1>2. ASSUME NEW m \in Marks, FlattenLeg(w, l, m)
        PROVE  PaperInv'
    <2> DEFINE c == {r \in read_state(log, w).open : r.leg = l}
    <2>1. c \in SUBSET Row /\ m \in Nat
      BY <1>0, OpenEvents, SizingAssumption, MoneyAssumption
    <2>2. tick' = [tick EXCEPT !.sweep.todo = @ \ {l}, !.sweep.mark = m, !.sweep.closing = c]
      BY <1>2 DEF FlattenLeg
    <2> HIDE DEF c
    <2>3. tick' \in TickLocals
      BY <1>0, <2>1, <2>2 DEF TickLocals
    <2>4. /\ tick'.sweep = [tick.sweep EXCEPT !.todo = @ \ {l}, !.mark = m, !.closing = c]
      BY <1>0, <2>2 DEF TickLocals
    <2>5. pc' = pc /\ pc' = "manage" /\ UNCHANGED <<log, stored, env, faults, pend>>
      BY <1>2 DEF FlattenLeg, AtLeg
    <2>6. SweepInv'
      BY <1>0, <2>4, <2>5, QuietSweep DEF TickLocals
    <2> QED BY <2>3, <2>5, <2>6, QuietPend, Quiet
  <1> QED BY <1>1, <1>2

LEMMA TicketInv ==
    ASSUME PaperInv, NEW r \in tick.sweep.closing, CloseTicket(r)
    PROVE  PaperInv'
  <1>0. /\ TypeOK /\ tick \in TickLocals /\ log \in Seq(Row) /\ WellFormed(log) /\ SweepInv
    BY DEF PaperInv, TypeOK
  <1>1. /\ tick' \in TickLocals /\ tick'.sweep = [tick.sweep EXCEPT !.closing = @ \ {r}]
        /\ tick.sweep.mark \in Nat
    BY <1>0 DEF CloseTicket, TickLocals
  <1>2. pc' = pc /\ pc' = "manage" /\ UNCHANGED <<log, stored, env, faults>>
    BY DEF CloseTicket
  <1>3. pend' = Closing(r, tick.sweep.mark)
    BY DEF CloseTicket
  <1>4. pend' \in Seq(Row) /\ Closes(pend', log)
    BY <1>0, <1>1, <1>3, ClosingCloses
  <1>5. SweepInv'
    BY <1>0, <1>1, <1>2, QuietSweep DEF TickLocals
  <1> QED BY <1>1, <1>2, <1>4, <1>5, Quiet

-----------------------------------------------------------------------------
(* The steps that append to the log.                                       *)

\* A cap once reached stays reached, and what a leg holds stays under it as
\* long as it does not grow.
LEMMA CapKept ==
    ASSUME PaperInv, NEW q \in Seq(Row), log' = log \o q, NEW w \in Active, NEW l \in Legs,
           LegExposure(w, l)' <= LegExposure(w, l),
           LegExposure(w, l)' \in Int, LegExposure(w, l) \in Int
    PROVE  (\E n \in 0..Len(log) :
               LegExposure(w, l) <= Cap(read_state(SubSeq(log, 1, n), w).balance))'
  <1>1. log \in Seq(Row)
    BY DEF PaperInv, TypeOK
  <1>2. PICK n \in 0..Len(log) :
           LegExposure(w, l) <= Cap(read_state(SubSeq(log, 1, n), w).balance)
    BY DEF PaperInv, WithinMeans, LegWithinCap
  <1>3. n \in 0..Len(log') /\ SubSeq(log', 1, n) = SubSeq(log, 1, n)
    <2>1. Len(log') = Len(log) + Len(q) /\ Len(log) \in Nat /\ Len(q) \in Nat
      BY <1>1, ConcatRows
    <2> QED BY <1>1, <2>1, ConcatRows
  <1>4. Cap(read_state(SubSeq(log, 1, n), w).balance) \in Int
    <2>1. SubSeq(log, 1, n) \in Seq(Row)
      BY <1>1, RowsSoFar
    <2>2. read_state(SubSeq(log, 1, n), w).balance \in Int
      BY <2>1, StateType DEF State
    <2> QED BY <2>2, CapType
  <1>5. LegExposure(w, l)' <= Cap(read_state(SubSeq(log', 1, n), w).balance)
    <2> DEFINE x == LegExposure(w, l)'
               y == LegExposure(w, l)
               c == Cap(read_state(SubSeq(log, 1, n), w).balance)
    <2>1. x \in Int /\ y \in Int /\ c \in Int /\ x <= y /\ y <= c
      BY <1>2, <1>4
    <2> HIDE DEF x, y, c
    <2>2. x <= c
      BY <2>1
    <2> USE DEF x, y, c
    <2> QED BY ONLY <1>3, <2>2, Zenon
  <1> QED BY <1>3, <1>5, Zenon

LEMMA CommitInv ==
    ASSUME PaperInv, Commit
    PROVE  PaperInv'
  <1>0. /\ TypeOK /\ log \in Seq(Row) /\ pend \in Seq(Row) /\ WellFormed(log) /\ SweepInv
        /\ Closes(pend, log) /\ OnceEnded(log) /\ Solvent
    BY DEF PaperInv, TypeOK, WithinMeans
  <1>1. /\ log' = log \o pend /\ pend' = <<>>
        /\ UNCHANGED <<stored, env, faults, pc, tick>>
    BY DEF Commit
  <1>2. /\ log' \in Seq(Row) /\ WellFormed(log') /\ OnceEnded(log')
        /\ paper_open_positions(log') \subseteq paper_open_positions(log)
    BY <1>0, <1>1, CommitCloses
  <1>3. TypeOK'
    BY <1>0, <1>1, <1>2 DEF TypeOK, env
  <1>4. Closes(pend', log')
    BY <1>1 DEF Closes
  <1>5. \A w : /\ read_state(log', w).balance >= read_state(log, w).balance
               /\ read_state(log', w).balance \in Int /\ read_state(log, w).balance \in Int
    BY <1>0, <1>1, <1>2, CommitPays, StateType DEF State
  <1>6. Solvent'
    <2> SUFFICES ASSUME NEW w \in Wallets  PROVE read_state(log', w).balance >= 0
      BY DEF Solvent
    <2>1. read_state(log, w).balance >= 0
      BY <1>0 DEF Solvent
    <2> QED BY <1>5, <2>1
  <1>7. ASSUME NEW w, NEW l
        PROVE  /\ LegExposure(w, l)' <= LegExposure(w, l)
               /\ LegExposure(w, l)' \in Int /\ LegExposure(w, l) \in Int
    <2>1. LegExposure(w, l) = Stakes(Held(log, w, l)) /\ IsFiniteSet(Held(log, w, l))
             /\ Held(log, w, l) \subseteq Row
      BY <1>0, ExposureIs
    <2>2. LegExposure(w, l)' = Stakes(Held(log', w, l))
      BY <1>2, ReplayIsView DEF LegExposure, Stakes, Held
    <2>3. Held(log', w, l) \subseteq Held(log, w, l)
      BY <1>2 DEF Held, OpenOf
    <2> QED BY <2>1, <2>2, <2>3, StakesFacts
  <1>8. LegWithinCap'
    <2> SUFFICES ASSUME NEW w \in Active, NEW l \in Legs
                 PROVE  (\E n \in 0..Len(log) :
                           LegExposure(w, l) <= Cap(read_state(SubSeq(log, 1, n), w).balance))'
      BY DEF LegWithinCap
    <2> QED BY <1>0, <1>1, <1>7, CapKept
  <1>9. SweepInv'
    <2> SUFFICES ASSUME NEW w \in tick.sweep.wallet
                 PROVE  Reading(w)'
      BY <1>0, <1>1 DEF SweepInv
    <2>1. Reading(w) /\ tick \in TickLocals
      BY <1>0 DEF SweepInv, TypeOK
    <2>2. tick.sweep.balance \in Int /\ \A l \in tick.sweep.todo : tick.sweep.held[l] \in Int
      BY <2>1 DEF TickLocals
    <2>3. tick.sweep.balance <= read_state(log', w).balance
      <3>1. tick.sweep.balance <= read_state(log, w).balance
        BY <2>1 DEF Reading
      <3> QED BY <1>5, <2>2, <3>1
    <2>4. \E n \in 0..Len(log') : tick.sweep.bankroll = read_state(SubSeq(log', 1, n), w).balance
      <3>1. PICK n \in 0..Len(log) : tick.sweep.bankroll = read_state(SubSeq(log, 1, n), w).balance
        BY <2>1 DEF Reading
      <3>2. n \in 0..Len(log') /\ SubSeq(log', 1, n) = SubSeq(log, 1, n)
        <4>1. Len(log') = Len(log) + Len(pend) /\ Len(log) \in Nat /\ Len(pend) \in Nat
          BY <1>0, <1>1, ConcatRows
        <4> QED BY <1>0, <1>1, <4>1, ConcatRows
      <3> QED BY <3>1, <3>2, Zenon
    <2>5. ASSUME NEW l \in tick.sweep.todo
          PROVE  LegExposure(w, l)' <= tick.sweep.held[l]
      <3>1. LegExposure(w, l) <= tick.sweep.held[l]
        BY <2>1 DEF Reading
      <3> QED BY <1>7, <2>2, <3>1
    <2> QED BY <1>1, <2>3, <2>4, <2>5 DEF Reading
  <1> QED BY <1>2, <1>3, <1>4, <1>6, <1>8, <1>9 DEF PaperInv, WithinMeans

\* One ticket more is paid from the balance the sweep read, less what it spent.
LEMMA BuyInv ==
    ASSUME PaperInv, NEW w \in Active, NEW l \in Legs, NEW s \in Tickets, BuyLeg(w, l, s)
    PROVE  PaperInv'
  <1> DEFINE r == OpenRow(Len(log) + 1, w, l, s, Instant)
  <1>0. /\ TypeOK /\ log \in Seq(Row) /\ tick \in TickLocals /\ WellFormed(log) /\ SweepInv
        /\ OnceEnded(log) /\ Solvent /\ w \in Wallets /\ s \in Nat /\ Len(log) \in Nat
    BY ProfilesAssumption, SizingAssumption DEF PaperInv, TypeOK, WithinMeans
  <1>1. /\ log' = Append(log, r) /\ pc' = pc /\ pc = "manage" /\ pend = <<>> /\ pend' = pend
        /\ UNCHANGED <<stored, env, faults>>
        /\ tick.sweep.wallet = {w} /\ l \in tick.sweep.todo
        /\ tick' = [tick EXCEPT !.sweep.todo = @ \ {l}, !.sweep.balance = @ - s]
    BY DEF BuyLeg, AtLeg
  <1>2. /\ s <= Cap(tick.sweep.bankroll) - tick.sweep.held[l] /\ s <= tick.sweep.balance
    BY DEF BuyLeg, AddStake
  <1>3. /\ r \in Row /\ r.kind = "OPEN" /\ r.trade = Len(log) + 1 /\ r.wallet = w
        /\ r.leg = l /\ r.stake = s
    <2>1. Instant \in Nat
      <3>1. tick.now \in Nat
        BY <1>0 DEF TickLocals
      <3> QED BY <3>1, InstantType DEF Instant
    <2> QED BY <1>0, <2>1 DEF OpenRow, Row
  <1> HIDE DEF r
  <1>4. Reading(w)
    BY <1>0, <1>1 DEF SweepInv
  <1>5. /\ tick.sweep.bankroll \in Nat /\ tick.sweep.balance \in Nat
        /\ \A k \in Legs : tick.sweep.held[k] \in Nat
        /\ tick.sweep.todo \subseteq Legs
    BY <1>0 DEF TickLocals
  <1>6. /\ tick' \in TickLocals
        /\ tick'.sweep = [tick.sweep EXCEPT !.todo = @ \ {l}, !.balance = @ - s]
    <2>1. tick.sweep.balance - s \in Nat
      BY <1>0, <1>2, <1>5
    <2> QED BY <1>0, <1>1, <2>1 DEF TickLocals
  <1>7. /\ log' \in Seq(Row) /\ WellFormed(log')
        /\ paper_open_positions(log') = paper_open_positions(log) \cup {r}
        /\ r \notin paper_open_positions(log)
    <2>1. MayFollow(r, log)
      BY <1>3 DEF MayFollow
    <2> QED BY <1>0, <1>1, <1>3, <2>1, OpensOne, WellFormedAppend
  <1>8. /\ DOMAIN log' = DOMAIN log \cup {Len(log) + 1} /\ \A k \in DOMAIN log : log'[k] = log[k]
        /\ log'[Len(log) + 1] = r
    BY <1>0, <1>1, <1>3
  <1>9. OnceEnded(log')
    <2>1. ~Ends(r)
      BY <1>3 DEF Ends
    <2> QED BY <1>0, <1>8, <2>1 DEF OnceEnded
  <1>10. TypeOK'
    BY <1>0, <1>1, <1>6, <1>7 DEF TypeOK, env
  <1>11. \A v : /\ read_state(log, v).balance \in Int
                /\ read_state(log', v).balance = read_state(log, v).balance - (IF v = w THEN s ELSE 0)
    <2> TAKE v
    <2>1. /\ read_state(log, v).balance \in Int
          /\ read_state(log', v).balance = read_state(log, v).balance + Change(r, v)
      BY <1>0, <1>1, <1>3, ReplayBalance
    <2>2. Change(r, v) = IF v = w THEN 0 - s ELSE 0
      BY <1>3, ChangeType
    <2> QED BY <1>0, <2>1, <2>2
  <1>12. Solvent'
    <2> SUFFICES ASSUME NEW v \in Wallets  PROVE read_state(log', v).balance >= 0
      BY DEF Solvent
    <2>1. read_state(log, v).balance >= 0
      BY <1>0 DEF Solvent
    <2>2. tick.sweep.balance <= read_state(log, w).balance
      BY <1>4 DEF Reading
    <2> QED BY <1>0, <1>2, <1>5, <1>11, <2>1, <2>2
  <1>13. ASSUME NEW v, NEW k
         PROVE  /\ LegExposure(v, k) \in Nat /\ LegExposure(v, k)' \in Nat
                /\ LegExposure(v, k)' = LegExposure(v, k) + (IF v = w /\ k = l THEN s ELSE 0)
    <2>1. /\ LegExposure(v, k) = Stakes(Held(log, v, k)) /\ IsFiniteSet(Held(log, v, k))
          /\ Held(log, v, k) \subseteq Row
      BY <1>0, ExposureIs
    <2>2. LegExposure(v, k)' = Stakes(Held(log', v, k))
      BY <1>7, ReplayIsView DEF LegExposure, Stakes, Held
    <2>3. Stakes(Held(log, v, k)) \in Nat
      BY <2>1, StakesFacts
    <2>4. CASE v = w /\ k = l
      <3>1. Held(log', v, k) = Held(log, v, k) \cup {r} /\ r \notin Held(log, v, k)
        BY <1>3, <1>7, <2>4 DEF Held, OpenOf
      <3>2. Stakes(Held(log, v, k) \cup {r}) = Stakes(Held(log, v, k)) + r.stake
        BY <1>3, <2>1, <3>1, StakesFacts
      <3> QED BY <1>0, <1>3, <2>1, <2>2, <2>3, <2>4, <3>1, <3>2
    <2>5. CASE ~(v = w /\ k = l)
      <3>1. Held(log', v, k) = Held(log, v, k)
        BY <1>3, <1>7, <2>5 DEF Held, OpenOf
      <3> QED BY <2>1, <2>2, <2>3, <2>5, <3>1
    <2> QED BY <2>4, <2>5
  <1>14. \A n \in 0..Len(log) : n \in 0..Len(log') /\ SubSeq(log', 1, n) = SubSeq(log, 1, n)
    BY <1>0, <1>1, <1>3
  <1>15. PICK n \in 0..Len(log) : tick.sweep.bankroll = read_state(SubSeq(log, 1, n), w).balance
    BY <1>4 DEF Reading
  <1>16. LegWithinCap'
    <2> SUFFICES ASSUME NEW v \in Active, NEW k \in Legs
                 PROVE  (\E j \in 0..Len(log) :
                           LegExposure(v, k) <= Cap(read_state(SubSeq(log, 1, j), v).balance))'
      BY DEF LegWithinCap
    <2>1. CASE v = w /\ k = l
      <3>1. LegExposure(w, l) <= tick.sweep.held[l]
        BY <1>1, <1>4 DEF Reading
      <3>2. Cap(tick.sweep.bankroll) \in Int
        <4>1. tick.sweep.bankroll \in Int
          BY <1>5
        <4> QED BY ONLY <4>1, CapType
      <3>3. LegExposure(w, l)' <= Cap(tick.sweep.bankroll)
        BY <1>0, <1>2, <1>5, <1>13, <3>1, <3>2
      <3>4. LegExposure(w, l)' <= Cap(read_state(SubSeq(log', 1, n), w).balance)
        BY <1>14, <1>15, <3>3, Zenon
      <3> QED BY <1>14, <2>1, <3>4, Zenon
    <2>2. CASE ~(v = w /\ k = l)
      <3>1. PICK j \in 0..Len(log) :
               LegExposure(v, k) <= Cap(read_state(SubSeq(log, 1, j), v).balance)
        BY DEF PaperInv, WithinMeans, LegWithinCap
      <3>2. LegExposure(v, k)' = LegExposure(v, k)
        BY <1>13, <2>2
      <3>3. LegExposure(v, k)' <= Cap(read_state(SubSeq(log', 1, j), v).balance)
        BY <1>14, <3>1, <3>2, Zenon
      <3> QED BY <1>14, <3>3, Zenon
    <2> QED BY <2>1, <2>2
  <1>17. SweepInv'
    <2>1. /\ tick'.sweep.wallet = {w} /\ tick'.sweep.todo = tick.sweep.todo \ {l}
          /\ tick'.sweep.balance = tick.sweep.balance - s
          /\ tick'.sweep.bankroll = tick.sweep.bankroll /\ tick'.sweep.held = tick.sweep.held
      BY <1>0, <1>1, <1>6 DEF TickLocals
    <2>2. tick'.sweep.balance <= read_state(log', w).balance
      <3>1. tick.sweep.balance <= read_state(log, w).balance
        BY <1>4 DEF Reading
      <3> QED BY <1>0, <1>5, <1>11, <2>1, <3>1
    <2>3. \E j \in 0..Len(log') : tick'.sweep.bankroll = read_state(SubSeq(log', 1, j), w).balance
      BY <1>14, <1>15, <2>1, Zenon
    <2>4. ASSUME NEW k \in tick'.sweep.todo
          PROVE  LegExposure(w, k)' <= tick'.sweep.held[k]
      <3>1. k \in tick.sweep.todo /\ k # l
        BY <2>1
      <3>2. LegExposure(w, k) <= tick.sweep.held[k]
        BY <1>4, <3>1 DEF Reading
      <3>3. LegExposure(w, k)' = LegExposure(w, k)
        BY <1>13, <3>1
      <3> QED BY <2>1, <3>2, <3>3
    <2>5. Reading(w)'
      BY <2>2, <2>3, <2>4 DEF Reading
    <2> QED BY <1>1, <2>1, <2>5 DEF SweepInv
  <1>18. Closes(pend', log')
    BY <1>1 DEF Closes
  <1> QED BY <1>7, <1>9, <1>10, <1>12, <1>16, <1>17, <1>18 DEF PaperInv, WithinMeans

\* open_trades_from_analysis: what it appends for a wallet and an event, where f are
\* the stakes by leg and legs the legs of the rows.
Buys(q, w, e, f, legs) ==
    /\ \A k \in DOMAIN q : /\ q[k].kind = "OPEN" /\ q[k].trade = Len(log) + k
                           /\ q[k].wallet = w /\ q[k].leg.event = e
                           /\ q[k].stake = f[legs[k]] /\ q[k].at = tick.now
    /\ \A k, n \in DOMAIN q : legs[k] = legs[n] => k = n
    /\ Paid(f, legs, q) <= read_state(log, w).balance /\ Paid(f, legs, q) \in Nat

LEMMA TradesRows ==
    ASSUME PaperInv, NEW w \in Gated, NEW e \in Events, OpenTrades(w, e)
    PROVE  \E q \in Seq(Row) : /\ log' = log \o q
                               /\ \E f, legs : Buys(q, w, e, f, legs)
  <1>0. /\ log \in Seq(Row) /\ tick \in TickLocals /\ w \in Wallets /\ Len(log) \in Nat
        /\ read_state(log, w).balance \in Int
    <2>1. log \in Seq(Row) /\ tick \in TickLocals
      BY DEF PaperInv, TypeOK
    <2> QED BY <2>1, StateType DEF Gated, State
  <1>1. PICK f \in Allocations(e, read_state(log, w).balance) :
           log' = LET legs == SetToSeq({l \in DOMAIN f :
                                  \A o \in read_state(log, w).open : o.leg # l})
                  IN  log \o [n \in DOMAIN legs |->
                            OpenRow(Len(log) + n, w, legs[n], f[legs[n]], tick.now)]
    BY DEF OpenTrades
  <1> DEFINE D == DOMAIN f
             S == {l \in D : \A o \in read_state(log, w).open : o.leg # l}
             legs == SetToSeq(S)
             q == [n \in DOMAIN legs |-> OpenRow(Len(log) + n, w, legs[n], f[legs[n]], tick.now)]
  <1>2. /\ D \subseteq {l \in Legs : l.event = e} /\ \A l \in D : f[l] \in Tickets
        /\ SumFunctionOnSet(f, D) <= read_state(log, w).balance
    BY <1>1 DEF Allocations
  <1>3. IsFiniteSet(D) /\ \A l \in D : f[l] \in Nat /\ l \in Legs /\ l.event = e
    BY <1>2, LegsAssumption, SizingAssumption, FS_Subset
  <1>4. S \subseteq D /\ IsFiniteSet(S)
    BY <1>3, FS_Subset
  <1>5. log' = log \o q
    BY <1>1
  <1> HIDE DEF S
  <1>6. legs \in [1..Cardinality(S) -> S] /\ IsInjective(legs) /\ Cardinality(S) \in Nat
    <2>1. PICK n \in Nat : ExistsBijection(1..n, S)
      BY <1>4, FS_NatBijection
    <2>2. PICK g \in Bijection(1..n, S) : TRUE
      BY <2>1 DEF ExistsBijection
    <2>3. Cardinality(S) = n
      BY <1>4, <2>1, FS_CountingElements
    <2>4. g \in [1..Cardinality(S) -> S] /\ IsInjective(g)
      BY <2>2, <2>3 DEF Bijection, Injection
    <2>5. SetToSeq(S) \in [1..Cardinality(S) -> S] /\ IsInjective(SetToSeq(S))
      BY <2>4, Zenon DEF SetToSeq
    <2> QED BY <2>3, <2>5
  <1> HIDE DEF legs
  <1>7. DOMAIN legs = 1..Cardinality(S) /\ \A k \in DOMAIN legs : legs[k] \in S
    BY <1>6
  <1>8. \A k \in DOMAIN legs :
           /\ OpenRow(Len(log) + k, w, legs[k], f[legs[k]], tick.now) \in Row
           /\ legs[k].event = e
    <2> SUFFICES ASSUME NEW k \in DOMAIN legs
                 PROVE  /\ OpenRow(Len(log) + k, w, legs[k], f[legs[k]], tick.now) \in Row
                        /\ legs[k].event = e
      OBVIOUS
    <2>1. /\ legs[k] \in Legs /\ f[legs[k]] \in Nat /\ Len(log) + k \in Nat /\ tick.now \in Nat
          /\ legs[k].event = e
      BY <1>0, <1>3, <1>4, <1>6, <1>7 DEF TickLocals
    <2> QED BY <1>0, <2>1 DEF OpenRow, Row
  <1>9. q \in Seq(Row) /\ DOMAIN q = 1..Cardinality(S)
    <2>1. q \in [1..Cardinality(S) -> Row]
      BY <1>7, <1>8
    <2> QED BY <1>6, <2>1
  <1>10. \A k \in DOMAIN q : /\ q[k].kind = "OPEN" /\ q[k].trade = Len(log) + k
                             /\ q[k].wallet = w /\ q[k].leg.event = e
                             /\ q[k].stake = f[legs[k]] /\ q[k].at = tick.now
    BY <1>7, <1>8 DEF OpenRow
  <1>11. \A k, n \in DOMAIN q : legs[k] = legs[n] => k = n
    BY <1>6, <1>7 DEF IsInjective
  <1> DEFINE paid == {legs[k] : k \in DOMAIN q}
  <1>12. paid \in SUBSET D
    BY <1>4, <1>7, <1>9
  <1> HIDE DEF q, D
  <1>13. /\ SumFunctionOnSet(f, paid) <= read_state(log, w).balance
         /\ SumFunctionOnSet(f, paid) \in Nat
    <2> HIDE DEF paid
    <2>1. SumFunctionOnSet(f, paid) <= SumFunctionOnSet(f, D)
      BY <1>3, <1>12, SumOfSubset
    <2>2. IsFiniteSet(paid) /\ \A l \in paid : f[l] \in Nat
      BY <1>3, <1>12, FS_Subset
    <2>3. SumFunctionOnSet(f, paid) \in Nat /\ SumFunctionOnSet(f, D) \in Nat
      BY <1>3, <2>2, SumNotNegative
    <2> QED BY <1>0, <1>2, <2>1, <2>3
  <1>14. Buys(q, w, e, f, legs)
    BY <1>10, <1>11, <1>13, Zenon DEF Buys, paid, Paid
  <1> QED BY <1>5, <1>9, <1>14, Zenon

\* A transaction of open_trades_from_analysis keeps the invariant: it pays out of
\* the balance it read, and only what a gated wallet holds grows.
LEMMA TradesInv ==
    ASSUME PaperInv, NEW w \in Gated, NEW e \in Events, OpenTrades(w, e)
    PROVE  PaperInv'
  <1>0. /\ log \in Seq(Row) /\ tick \in TickLocals /\ WellFormed(log) /\ OnceEnded(log) /\ Solvent
        /\ LegWithinCap /\ w \in Wallets /\ w \notin Active
    BY DEF PaperInv, TypeOK, WithinMeans, Gated
  <1>1. /\ pc = "units" /\ pend = <<>> /\ tick' = [tick EXCEPT !.pairs = @ \ {<<w, e>>}]
        /\ UNCHANGED <<stored, clock, winner, enabled, faults, pc, pend>>
    BY DEF OpenTrades, AtProfile, env
  <1>2. PICK q \in Seq(Row) : log' = log \o q /\ \E f, legs : Buys(q, w, e, f, legs)
    BY TradesRows
  <1>3. PICK f, legs : Buys(q, w, e, f, legs)
    BY <1>2
  <1>4. /\ log' \in Seq(Row) /\ WellFormed(log') /\ OnceEnded(log')
        /\ paper_open_positions(log')
              = paper_open_positions(log) \cup {q[k] : k \in DOMAIN q}
    BY <1>0, <1>2, <1>3, TradesOpen DEF Buys
  <1>5. tick' \in TickLocals /\ tick'.sweep = tick.sweep
    BY <1>0, <1>1 DEF TickLocals
  <1>6. TypeOK'
    BY <1>1, <1>4, <1>5 DEF PaperInv, TypeOK
  <1>7. SweepInv'
    <2>1. tick.sweep.wallet = {}
      BY <1>1 DEF PaperInv, SweepInv
    <2> QED BY <1>5, <2>1, IdleSweep
  <1>8. Solvent'
    <2> SUFFICES ASSUME NEW v \in Wallets
                 PROVE  read_state(log', v).balance >= 0
      BY DEF Solvent
    <2> DEFINE paid == Paid(f, legs, q)
    <2>1. paid <= read_state(log, w).balance /\ paid \in Nat
      BY <1>3 DEF Buys
    <2>2. /\ read_state(log \o q, w).balance = read_state(log, w).balance - paid
          /\ v # w => read_state(log \o q, v).balance = read_state(log, v).balance
      <3>1. /\ \A k \in DOMAIN q : /\ q[k].kind = "OPEN" /\ q[k].wallet = w
                                   /\ q[k].stake = f[legs[k]]
            /\ \A k, n \in DOMAIN q : legs[k] = legs[n] => k = n
        BY <1>3 DEF Buys
      <3>2. log \in Seq(Row) /\ q \in Seq(Row)
        BY <1>0
      <3>3. /\ read_state(log \o q, w).balance
                  = read_state(log, w).balance - Paid(f, legs, q)
            /\ \A x : x # w => read_state(log \o q, x).balance = read_state(log, x).balance
        <4> DEFINE lg == log
        <4>1. lg \in Seq(Row)
          BY <3>2
        <4> HIDE DEF lg
        <4>2. /\ read_state(lg \o q, w).balance = read_state(lg, w).balance - Paid(f, legs, q)
              /\ \A x : x # w => read_state(lg \o q, x).balance = read_state(lg, x).balance
          BY ONLY <3>1, <3>2, <4>1, TradesCost
        <4> QED BY <4>2 DEF lg
      <3> QED BY ONLY <3>3 DEF paid
    <2>3. read_state(log, v).balance >= 0 /\ read_state(log, w).balance \in Int
      BY <1>0, ReplayBalance, StateType DEF Solvent, State
    <2> HIDE DEF paid
    <2> QED BY <1>2, <2>1, <2>2, <2>3
  <1>9. LegWithinCap'
    <2> SUFFICES ASSUME NEW v \in Active, NEW l \in Legs
                 PROVE  (\E n \in 0..Len(log) :
                            LegExposure(v, l) <= Cap(read_state(SubSeq(log, 1, n), v).balance))'
      BY DEF LegWithinCap
    <2>1. Held(log', v, l) = Held(log, v, l)
      <3>1. \A k \in DOMAIN q : q[k].wallet = w
        BY <1>3 DEF Buys
      <3> QED BY <1>0, <1>4, <3>1 DEF Held, OpenOf
    <2>2. LegExposure(v, l) = Stakes(Held(log, v, l)) /\ IsFiniteSet(Held(log, v, l))
          /\ Held(log, v, l) \subseteq Row
      BY <1>0, ExposureIs
    <2>3. LegExposure(v, l)' = Stakes(Held(log', v, l))
      BY <1>4, ReplayIsView DEF LegExposure, Stakes, Held
    <2>4. Stakes(Held(log, v, l)) \in Nat
      BY <2>2, StakesFacts
    <2>5. LegExposure(v, l)' = LegExposure(v, l) /\ LegExposure(v, l) \in Int
      BY <2>1, <2>2, <2>3, <2>4
    <2> QED BY <1>2, <2>5, CapKept
  <1>10. Closes(pend', log')
    BY <1>1 DEF Closes
  <1> QED BY <1>4, <1>6, <1>7, <1>8, <1>9, <1>10 DEF PaperInv, WithinMeans

\* A gated wallet is left for this tick, or a resolved event is settled.
LEMMA UnitsInv ==
    ASSUME PaperInv,
           \/ \E e \in Events : UnitFails(e)
           \/ \E w \in Gated, e \in Events : SettleAtGate(w, e) \/ SkipProfile(w, e)
           \/ TickDone
    PROVE  PaperInv'
  <1>0. /\ log \in Seq(Row) /\ tick \in TickLocals /\ WellFormed(log) /\ pc \in {"idle", "settle",
              "exits", "sweep", "manage", "mark", "units"} /\ SweepInv /\ TypeOK
    BY DEF PaperInv, TypeOK
  <1>1. CASE \/ \E e \in Events : UnitFails(e)
             \/ \E w \in Gated, e \in Events : SkipProfile(w, e)
    <2>1. PICK S \in SUBSET Pairs : tick' = [tick EXCEPT !.pairs = S]
      <3>1. CASE \E e \in Events : UnitFails(e)
        <4>1. PICK e : tick' = [tick EXCEPT !.pairs = {p \in @ : p[2] # e}]
          BY <3>1 DEF UnitFails
        <4> QED BY <1>0, <4>1 DEF TickLocals
      <3>2. CASE \E w \in Gated, e \in Events : SkipProfile(w, e)
        <4>1. PICK w, e : tick' = [tick EXCEPT !.pairs = @ \ {<<w, e>>}]
          BY <3>2 DEF SkipProfile
        <4> QED BY <1>0, <4>1 DEF TickLocals
      <3> QED BY <1>1, <3>1, <3>2
    <2>2. UNCHANGED <<log, stored, env, faults, pc, pend>>
      BY <1>1 DEF UnitFails, SkipProfile
    <2>3. tick' \in TickLocals /\ tick'.sweep = tick.sweep
      BY <1>0, <2>1 DEF TickLocals
    <2>4. SweepInv'
      BY <1>0, <2>2, <2>3, QuietSweep
    <2> QED BY <1>0, <2>2, <2>3, <2>4, Quiet, QuietPend
  <1>2. CASE \E w \in Gated, e \in Events : SettleAtGate(w, e)
    <2>1. PICK w, e : SettleAtGate(w, e)
      BY <1>2
    <2>2. /\ tick' = [tick EXCEPT !.pairs = @ \ {<<w, e>>}]
          /\ pend' = Settlement(w, e, winner[e])
          /\ UNCHANGED <<log, stored, env, faults, pc>>
      BY <2>1 DEF SettleAtGate
    <2>3. tick' \in TickLocals /\ tick'.sweep = tick.sweep
      BY <1>0, <2>2 DEF TickLocals
    <2>4. pend' \in Seq(Row) /\ Closes(pend', log)
      BY <1>0, <2>2, SettlementCloses
    <2>5. SweepInv'
      BY <1>0, <2>2, <2>3, QuietSweep
    <2> QED BY <1>0, <2>2, <2>3, <2>4, <2>5, Quiet
  <1>3. CASE TickDone
    <2>1. /\ pc' = "idle" /\ tick' = NoTick /\ UNCHANGED <<log, stored, env, faults, pend>>
      BY <1>3 DEF TickDone
    <2>2. tick' \in TickLocals /\ SweepInv'
      BY <2>1, Nothing, IdleSweep DEF NoTick, NoSweep
    <2> QED BY <2>1, <2>2, Quiet, QuietPend
  <1> QED BY <1>1, <1>2, <1>3

\* A failed sweep, a failed tick or a crash forgets what was not committed.
LEMMA FailureInv ==
    ASSUME PaperInv, SweepFails \/ TickFails
    PROVE  PaperInv'
  <1>0. TypeOK /\ tick \in TickLocals
    BY DEF PaperInv, TypeOK
  <1>1. UNCHANGED <<log, stored, env>> /\ pend' = <<>> /\ faults' = faults + 1
    BY DEF SweepFails, TickFails
  <1>2. tick' \in TickLocals /\ tick'.sweep.wallet = {} /\ pc' \in {"idle", "units"}
    <2>1. CASE SweepFails
      BY <1>0, <2>1, UnitsType DEF SweepFails
    <2>2. CASE TickFails
      BY <2>2, Nothing DEF TickFails, NoTick, NoSweep
    <2> QED BY <2>1, <2>2
  <1>3. TypeOK'
    BY <1>0, <1>1, <1>2 DEF TypeOK, env
  <1>4. SweepInv'
    BY <1>2, IdleSweep
  <1>5. Closes(pend, log)'
    BY <1>1 DEF Closes
  <1> QED BY <1>1, <1>3, <1>4, <1>5, QuietLog

\* The world goes on, or nothing happens.
LEMMA WorldInv ==
    ASSUME PaperInv,
           \/ TimePasses \/ UNCHANGED vars
           \/ \E e \in Events, b \in Buckets : MarketResolves(e, b)
    PROVE  PaperInv'
  <1>0. TypeOK /\ SweepInv /\ Closes(pend, log)
    BY DEF PaperInv
  <1>1. UNCHANGED <<log, pc, pend, tick>>
    BY DEF TimePasses, MarketResolves, vars
  <1>2. TypeOK'
    <2>1. CASE TimePasses
      BY <1>0, <2>1 DEF TypeOK, TimePasses
    <2>2. CASE UNCHANGED vars
      BY <1>0, <2>2 DEF TypeOK, vars
    <2>3. CASE \E e \in Events, b \in Buckets : MarketResolves(e, b)
      <3>1. PICK e \in Events, b \in Buckets : MarketResolves(e, b)
        BY <2>3
      <3>2. winner' \in [Events -> Buckets \cup {NoWinner}]
        BY <1>0, <3>1 DEF TypeOK, MarketResolves
      <3> QED BY <1>0, <3>1, <3>2 DEF TypeOK, MarketResolves
    <2> QED BY <2>1, <2>2, <2>3
  <1>3. SweepInv'
    BY <1>0, <1>1, QuietSweep
  <1>4. Closes(pend, log)'
    BY <1>0, <1>1
  <1> QED BY <1>1, <1>2, <1>3, <1>4, QuietLog

LEMMA NextPaperInv ==
    ASSUME PaperInv, [Next]_vars
    PROVE  PaperInv'
  <1>1. CASE BeginTick \/ Settle
    BY <1>1, SettleInv
  <1>2. CASE Exits
    BY <1>2, ExitsInv
  <1>3. CASE Sweep
    <2>1. CASE SkipSweep \/ BeginSweep \/ WalletDone \/ SweepDone \/ MarkInstant
      BY <2>1, SweepQuiet
    <2>2. CASE \E w \in Active : ManageWallet(w)
      BY <2>2, ManageInv
    <2>3. CASE \E w \in Active, l \in Legs : HoldLeg(w, l) \/ \E m \in Marks : FlattenLeg(w, l, m)
      BY <2>3, LegInv
    <2>4. CASE \E w \in Active, l \in Legs : \E s \in Tickets : BuyLeg(w, l, s)
      BY <2>4, BuyInv
    <2>5. CASE \E r \in tick.sweep.closing : CloseTicket(r)
      BY <2>5, TicketInv
    <2> QED BY <1>3, <2>1, <2>2, <2>3, <2>4, <2>5, Zenon DEF Sweep
  <1>4. CASE Units
    <2>1. CASE \E w \in Gated, e \in Events : OpenTrades(w, e)
      BY <2>1, TradesInv
    <2>2. CASE \/ \E e \in Events : UnitFails(e)
               \/ \E w \in Gated, e \in Events : SettleAtGate(w, e) \/ SkipProfile(w, e)
               \/ TickDone
      BY <2>2, UnitsInv
    <2> QED BY <1>4, <2>1, <2>2, Zenon DEF Units
  <1>5. CASE Commit
    BY <1>5, CommitInv
  <1>6. CASE SweepFails \/ TickFails
    BY <1>6, FailureInv
  <1>7. CASE \/ TimePasses \/ UNCHANGED vars
             \/ \E e \in Events, b \in Buckets : MarketResolves(e, b)
    BY <1>7, WorldInv
  <1> QED BY <1>1, <1>2, <1>3, <1>4, <1>5, <1>6, <1>7, Zenon DEF Next, BotStep

(* The invariant of the paper bot holds at every step of its thread, with any  *)
(* profiles, events, prices and stakes, failed ticks and sweeps, crashes and   *)
(* markets that resolve meanwhile.                                             *)
THEOREM PaperInvariant == Spec => []PaperInv
  <1>1. Init => PaperInv
    BY InitPaperInv
  <1>2. PaperInv /\ [Next]_vars => PaperInv'
    BY NextPaperInv
  <1> QED BY <1>1, <1>2, PTL DEF Spec

(* Type correctness: the ledger and the locals of a tick keep their types; no  *)
(* sweep ever sizes on a negative balance.                                     *)
THEOREM TypeOKHolds == Spec => []TypeOK
  <1>1. PaperInv => TypeOK
    BY DEF PaperInv
  <1> QED BY <1>1, PaperInvariant, PTL

(* A trade is never paid twice: rows that settle_event and close_position have *)
(* read before their transaction end trades that are still open at its commit, *)
(* whichever of exits, sweep, settlement or the gate's settlement wrote last,  *)
(* and what an interrupted tick had not committed is not written later.        *)
THEOREM EndsOnceHolds == Spec => []EndsOnce
  <1>1. PaperInv => EndsOnce
    BY DEF PaperInv, EndsOnce, OnceEnded
  <1> QED BY <1>1, PaperInvariant, PTL

(* No wallet is overdrawn and no active wallet holds more on a leg than the cap*)
(* of a bankroll it had: what manage_active_wallets reads once, before the     *)
(* first leg, still bounds the last ticket it buys, and a commit in between    *)
(* only raises balances and lowers exposures.                                  *)
THEOREM WithinMeansHolds == Spec => []WithinMeans
  <1>1. PaperInv => WithinMeans
    BY DEF PaperInv
  <1> QED BY <1>1, PaperInvariant, PTL

(* read_state and the SQL views agree on the balance and the open trades of    *)
(* every wallet after every step, though the one replays the rows in order and *)
(* the others select over the whole table.                                     *)
THEOREM ViewsAgreeHolds == Spec => []ViewsAgree
  <1>1. PaperInv => ViewsAgree
    <2> SUFFICES ASSUME PaperInv, NEW w \in Wallets
                 PROVE  /\ read_state(log, w).balance = paper_profile_balance(log, w)
                        /\ read_state(log, w).open
                              = {r \in paper_open_positions(log) : r.wallet = w}
      BY DEF ViewsAgree
    <2> QED BY ReplayIsView DEF PaperInv, TypeOK, OpenOf
  <1> QED BY <1>1, PaperInvariant, PTL

-----------------------------------------------------------------------------
(* Dedupe of the gates: what a gated wallet decides, it decides while it   *)
(* has nothing open on the event.                                          *)

\* The steps that append to the log.
LEMMA LogSteps ==
    ASSUME [Next]_vars
    PROVE  \/ UNCHANGED log
           \/ Commit
           \/ \E w \in Active, l \in Legs, s \in Tickets : BuyLeg(w, l, s)
           \/ \E w \in Gated, e \in Events : OpenTrades(w, e)
  <1>1. CASE BeginTick \/ Settle
    BY <1>1 DEF BeginTick, Settle, SkipEvent, ResolvedEvent, SettleProfile, SettleDone
  <1>2. CASE Exits
    BY <1>2 DEF Exits, ExitsOf, HoldTrade, CloseTrade, ExitsDone
  <1>3. CASE Sweep
    BY <1>3 DEF Sweep, SkipSweep, BeginSweep, ManageWallet, HoldLeg, FlattenLeg, CloseTicket,
                WalletDone, SweepDone, MarkInstant
  <1>4. CASE Units
    BY <1>4 DEF Units, UnitFails, SettleAtGate, SkipProfile, TickDone
  <1>5. CASE \/ SweepFails \/ TickFails \/ TimePasses \/ UNCHANGED vars
             \/ \E e \in Events, b \in Buckets : MarketResolves(e, b)
    BY <1>5 DEF SweepFails, TickFails, TimePasses, MarketResolves, vars
  <1> QED BY <1>1, <1>2, <1>3, <1>4, <1>5, Zenon DEF Next, BotStep

LEMMA NextOneDecision ==
    ASSUME PaperInv, OneDecisionPerEvent, [Next]_vars
    PROVE  OneDecisionPerEvent'
  <1>0. log \in Seq(Row) /\ pend \in Seq(Row) /\ WellFormed(log) /\ Closes(pend, log)
    BY DEF PaperInv, TypeOK
  <1>1. CASE paper_open_positions(log') \subseteq paper_open_positions(log)
    BY <1>1 DEF OneDecisionPerEvent
  <1>2. CASE \E w \in Active, l \in Legs, s \in Tickets : BuyLeg(w, l, s)
    <2>1. PICK w \in Active, l \in Legs, s \in Tickets : BuyLeg(w, l, s)
      BY <1>2
    <2> DEFINE r == OpenRow(Len(log) + 1, w, l, s, Instant)
    <2>2. r \in Row /\ r.kind = "OPEN" /\ r.trade = Len(log) + 1 /\ r.wallet \notin Gated
      <3>1. Instant \in Nat /\ Len(log) \in Nat /\ s \in Nat /\ w \in Wallets
        <4>1. tick.now \in Nat
          BY DEF PaperInv, TypeOK, TickLocals
        <4> QED BY <1>0, <4>1, InstantType, ProfilesAssumption, SizingAssumption DEF Instant
      <3> QED BY <3>1 DEF OpenRow, Row, Gated
    <2>3. log' = Append(log, r)
      BY <2>1 DEF BuyLeg
    <2> HIDE DEF r
    <2>4. paper_open_positions(log') = paper_open_positions(log) \cup {r}
      BY <1>0, <2>2, <2>3, OpensOne
    <2> QED BY <2>2, <2>4 DEF OneDecisionPerEvent
  <1>3. CASE \E w \in Gated, e \in Events : OpenTrades(w, e)
    <2>1. PICK w \in Gated, e \in Events : OpenTrades(w, e)
      BY <1>3
    <2>2. PICK q \in Seq(Row) : log' = log \o q /\ \E f, legs : Buys(q, w, e, f, legs)
      BY <2>1, TradesRows
    <2>3. \A k \in DOMAIN q : /\ q[k].kind = "OPEN" /\ q[k].trade = Len(log) + k
                              /\ q[k].wallet = w /\ q[k].leg.event = e /\ q[k].at = tick.now
      BY <2>2 DEF Buys
    <2>4. paper_open_positions(log')
             = paper_open_positions(log) \cup {q[k] : k \in DOMAIN q}
      BY <1>0, <2>2, <2>3, TradesOpen
    <2>5. \A r \in paper_open_positions(log) : ~(r.wallet = w /\ r.leg.event = e)
      BY <2>1 DEF OpenTrades, NeedsDecision, profile_has_open_on_event
    <2> QED BY <2>3, <2>4, <2>5 DEF OneDecisionPerEvent
  <1>4. CASE UNCHANGED log \/ Commit
    BY <1>0, <1>1, <1>4, CommitCloses DEF Commit
  <1> QED BY <1>2, <1>3, <1>4, LogSteps

(* What a gated wallet holds on an event was bought by one decision, though    *)
(* its gate is open for several ticks: open_trades_from_analysis only runs     *)
(* while nothing is open on the event, and its rows share one moment.          *)
THEOREM OneDecisionPerEventHolds == Spec => []OneDecisionPerEvent
  <1>1. Init => OneDecisionPerEvent
    BY DEF Init, OneDecisionPerEvent, paper_open_positions
  <1>2. PaperInv /\ OneDecisionPerEvent /\ [Next]_vars => OneDecisionPerEvent'
    BY NextOneDecision
  <1> QED BY <1>1, <1>2, PaperInvariant, PTL DEF Spec

-----------------------------------------------------------------------------
(* The sweep of an instant: its tickets are counted leg by leg. An instant *)
(* later than the one stored has a ticket on a leg only if a sweep failed, *)
(* or the sweep that runs has worked that leg already.                     *)

TicketRows(lg, w, l, m) ==
    {k \in DOMAIN lg : lg[k].kind = "OPEN" /\ lg[k].wallet = w /\ lg[k].leg = l /\ lg[k].at = m}

\* The sweep that runs is done with leg l of wallet w.
Worked(w, l) ==
    /\ pc \in {"manage", "mark"}
    /\ w \notin tick.wallets
    /\ w \in tick.sweep.wallet => l \notin tick.sweep.todo

ClockInv ==
    /\ enabled = Wallets
    /\ pc # "idle" => tick.profiles = Wallets /\ tick.now <= clock /\ stored <= Instant
    /\ stored <= LatestDue(Wallets, clock)
    /\ pc \in {"manage", "mark"} => stored < Instant
    /\ pc = "manage" => tick.sweep.wallet \cap tick.wallets = {}

CountInv ==
    \A w \in Active, l \in Legs, m \in Nat :
        /\ Cardinality(TicketRows(log, w, l, m)) <= 1 + faults
        /\ m > stored /\ ~(Worked(w, l) /\ m = Instant)
           => Cardinality(TicketRows(log, w, l, m)) <= faults

LEMMA InstantGrows ==
    ASSUME NEW P, NEW n \in Nat, NEW m \in Nat, n <= m
    PROVE  LatestDue(P, n) <= LatestDue(P, m)
  <1> DEFINE G == {GateAt[w][e] : w \in P \cap Gated, e \in Events}
             S(k) == {0} \cup {g \in G : g <= k}
  <1>1. S(n) \subseteq 0..n /\ S(n) # {} /\ S(m) \subseteq 0..m /\ S(m) # {} /\ S(n) \subseteq S(m)
    BY ProfilesAssumption
  <1>2. LatestDue(P, n) = Max(S(n)) /\ LatestDue(P, m) = Max(S(m))
    BY DEF LatestDue
  <1> HIDE DEF S
  <1>3. Max(S(n)) \in S(n) /\ \A k \in S(m) : k <= Max(S(m))
    BY <1>1, LastOf
  <1> QED BY <1>1, <1>2, <1>3, Zenon

LEMMA TicketRowsFinite ==
    ASSUME NEW lg \in Seq(Row), NEW w, NEW l, NEW m
    PROVE  IsFiniteSet(TicketRows(lg, w, l, m)) /\ Cardinality(TicketRows(lg, w, l, m)) \in Nat
  <1>1. TicketRows(lg, w, l, m) \subseteq 1..Len(lg) /\ Len(lg) \in Nat
    BY DEF TicketRows
  <1>2. IsFiniteSet(TicketRows(lg, w, l, m))
    <2>1. IsFiniteSet(1..Len(lg))
      BY <1>1, FS_Interval
    <2> QED BY <1>1, <2>1, FS_Subset
  <1> QED BY <1>2, FS_CardinalityType

\* Rows that are no tickets of active wallets do not count.
LEMMA SameTickets ==
    ASSUME NEW lg \in Seq(Row), NEW q \in Seq(Row), NEW w, NEW l, NEW m,
           \A k \in DOMAIN q : q[k].kind = "OPEN" => q[k].wallet # w
    PROVE  TicketRows(lg \o q, w, l, m) = TicketRows(lg, w, l, m)
  <1> DEFINE n == lg \o q
  <1>1. /\ \A k \in DOMAIN lg : k \in DOMAIN n /\ n[k] = lg[k]
        /\ \A k \in DOMAIN q : n[Len(lg) + k] = q[k]
        /\ \A k \in DOMAIN n : k \in DOMAIN lg \/ \E j \in DOMAIN q : k = Len(lg) + j
    BY ConcatRows
  <1> HIDE DEF n
  <1>2. TicketRows(n, w, l, m) = TicketRows(lg, w, l, m)
    BY <1>1 DEF TicketRows
  <1> QED BY <1>2 DEF n

\* Only BuyLeg writes tickets of active wallets.
LEMMA OnlySweepBuys ==
    ASSUME PaperInv, [Next]_vars,
           ~\E w \in Active, l \in Legs, s \in Tickets : BuyLeg(w, l, s),
           NEW v \in Active, NEW k, NEW m
    PROVE  TicketRows(log', v, k, m) = TicketRows(log, v, k, m)
  <1>0. log \in Seq(Row) /\ pend \in Seq(Row) /\ Closes(pend, log)
    BY DEF PaperInv, TypeOK
  <1>1. CASE UNCHANGED log
    BY <1>1
  <1>2. CASE Commit
    <2>1. log' = log \o pend /\ \A n \in DOMAIN pend : pend[n].kind # "OPEN"
      BY <1>0, <1>2 DEF Commit, Closes, EndsTrade, Ends
    <2> QED BY <1>0, <2>1, SameTickets
  <1>3. CASE \E w \in Gated, e \in Events : OpenTrades(w, e)
    <2>1. PICK w \in Gated, e \in Events : OpenTrades(w, e)
      BY <1>3
    <2>2. PICK q \in Seq(Row) : log' = log \o q /\ \E f, legs : Buys(q, w, e, f, legs)
      BY <2>1, TradesRows
    <2>3. \A n \in DOMAIN q : q[n].wallet # v
      BY <2>2 DEF Buys, Gated
    <2> QED BY <1>0, <2>2, <2>3, SameTickets
  <1> QED BY <1>1, <1>2, <1>3, LogSteps

\* A step that leaves the tick's clock alone, and what is managed disjoint from
\* what is left to manage.
LEMMA Steady ==
    ASSUME PaperInv, ClockInv, UNCHANGED <<stored, clock, enabled>>, pc # "idle",
           tick'.profiles = tick.profiles, tick'.now = tick.now,
           pc' \in {"manage", "mark"} => pc \in {"manage", "mark"} \/ Instant # stored,
           pc' = "manage" => tick'.sweep.wallet \cap tick'.wallets = {}
    PROVE  ClockInv'
  <1>1. Instant' = Instant
    BY DEF Instant
  <1>2. Instant \in Nat /\ stored \in Nat
    BY InstantType DEF Instant, PaperInv, TypeOK, TickLocals
  <1> QED BY <1>1, <1>2 DEF ClockInv

LEMMA UnitsLocals ==
    ASSUME PaperInv, ToUnits
    PROVE  tick'.profiles = tick.profiles /\ tick'.now = tick.now /\ pc' = "units"
  BY DEF ToUnits, PaperInv, TypeOK, TickLocals

LEMMA BeginClock ==
    ASSUME PaperInv, ClockInv, BeginTick
    PROVE  ClockInv'
  <1>1. /\ tick' = [NoTick EXCEPT !.now = clock, !.profiles = enabled,
                                  !.events = fetch_open_event_ids(log)]
        /\ pc' = "settle" /\ UNCHANGED <<stored, clock, enabled>>
    BY DEF BeginTick, env
  <1>2. tick'.now = clock /\ tick'.profiles = Wallets
    BY <1>1 DEF NoTick, ClockInv
  <1>3. Instant' = LatestDue(Wallets, clock) /\ clock \in Nat
    BY <1>2 DEF Instant, PaperInv, TypeOK
  <1> QED BY <1>1, <1>2, <1>3 DEF ClockInv

LEMMA TickClock ==
    ASSUME PaperInv, ClockInv, Settle \/ Exits \/ Units \/ Commit
    PROVE  ClockInv'
  <1>0. tick \in TickLocals
    BY DEF PaperInv, TypeOK
  <1>1. CASE Settle
    <2>1. /\ UNCHANGED <<stored, clock, enabled>> /\ pc = "settle" /\ pc' \in {"settle", "exits"}
          /\ tick'.profiles = tick.profiles /\ tick'.now = tick.now
      BY <1>0, <1>1 DEF Settle, SkipEvent, ResolvedEvent, SettleProfile, SettleDone, env, TickLocals
    <2> QED BY <2>1, Steady
  <1>2. CASE Exits
    <2>1. /\ UNCHANGED <<stored, clock, enabled>> /\ pc = "exits" /\ pc' \in {"exits", "sweep"}
          /\ tick'.profiles = tick.profiles /\ tick'.now = tick.now
      BY <1>0, <1>2 DEF Exits, ExitsOf, HoldTrade, CloseTrade, ExitsDone, env, TickLocals
    <2> QED BY <2>1, Steady
  <1>3. CASE Units
    <2>1. CASE TickDone
      BY <2>1 DEF TickDone, env, ClockInv
    <2>2. CASE ~TickDone
      <3>1. /\ UNCHANGED <<stored, clock, enabled>> /\ pc = "units" /\ pc' = pc
            /\ tick'.profiles = tick.profiles /\ tick'.now = tick.now
        BY <1>0, <1>3, <2>2
           DEF Units, UnitFails, SettleAtGate, SkipProfile, OpenTrades, AtProfile, env, TickLocals
      <3> QED BY <3>1, Steady
    <2> QED BY <2>1, <2>2
  <1>4. CASE Commit
    <2>1. UNCHANGED <<stored, clock, enabled, tick, pc>>
      BY <1>4 DEF Commit, env
    <2> QED BY <2>1 DEF ClockInv, Instant
  <1> QED BY <1>1, <1>2, <1>3, <1>4

\* What the steps on a leg that buy nothing do to the tick.
LEMMA LegLocals ==
    ASSUME tick \in TickLocals, NEW w, NEW l,
           HoldLeg(w, l) \/ \E m \in Marks : FlattenLeg(w, l, m)
    PROVE  /\ tick'.profiles = tick.profiles /\ tick'.now = tick.now /\ pc' = pc
           /\ tick'.sweep.wallet = tick.sweep.wallet /\ tick'.wallets = tick.wallets
           /\ tick'.sweep.todo \subseteq tick.sweep.todo
  <1>1. CASE HoldLeg(w, l)
    <2>1. tick' = [tick EXCEPT !.sweep.todo = @ \ {l}] /\ pc' = pc
      BY <1>1 DEF HoldLeg
    <2> QED BY <2>1 DEF TickLocals
  <1>2. CASE \E m \in Marks : FlattenLeg(w, l, m)
    <2>1. PICK m : /\ pc' = pc
                   /\ tick' = [tick EXCEPT
                        !.sweep.todo = @ \ {l}, !.sweep.mark = m,
                        !.sweep.closing = {r \in read_state(log, w).open : r.leg = l}]
      BY <1>2 DEF FlattenLeg
    <2> QED BY <2>1 DEF TickLocals
  <1> QED BY <1>1, <1>2

LEMMA SweepClock ==
    ASSUME PaperInv, ClockInv, Sweep
    PROVE  ClockInv'
  <1>0. tick \in TickLocals /\ SweepInv /\ stored \in Nat /\ clock \in Nat /\ tick.now \in Nat
    BY DEF PaperInv, TypeOK, TickLocals
  <1>1. CASE SkipSweep
    <2>1. UNCHANGED <<stored, clock, enabled>> /\ pc = "sweep"
      BY <1>1 DEF SkipSweep, env
    <2> QED BY <1>1, <2>1, UnitsLocals, Steady DEF SkipSweep
  <1>2. CASE BeginSweep
    <2>1. UNCHANGED <<stored, clock, enabled>> /\ pc = "sweep" /\ pc' = "manage" /\ Instant # stored
      BY <1>2 DEF BeginSweep, SweepIsDue, env
    <2>2. /\ tick'.profiles = tick.profiles /\ tick'.now = tick.now
          /\ tick'.sweep = tick.sweep
      BY <1>0, <1>2 DEF BeginSweep, TickLocals
    <2>3. tick.sweep.wallet = {}
      BY <1>0, <2>1 DEF SweepInv
    <2> QED BY <2>1, <2>2, <2>3, Steady
  <1>3. CASE \E w \in Active : ManageWallet(w)
    <2>1. PICK w \in Active : ManageWallet(w)
      BY <1>3
    <2>2. UNCHANGED <<stored, clock, enabled>> /\ pc = "manage" /\ pc' = pc
      BY <2>1 DEF ManageWallet, env
    <2>3. /\ tick'.profiles = tick.profiles /\ tick'.now = tick.now
          /\ tick'.sweep.wallet = {w} /\ tick'.wallets = tick.wallets \ {w}
      BY <1>0, <2>1 DEF ManageWallet, TickLocals, NoSweep
    <2> QED BY <2>2, <2>3, Steady
  <1>4. CASE \/ \E w \in Active, l \in Legs :
                   \/ HoldLeg(w, l)
                   \/ \E m \in Marks : FlattenLeg(w, l, m)
                   \/ \E s \in Tickets : BuyLeg(w, l, s)
             \/ \E r \in tick.sweep.closing : CloseTicket(r)
             \/ WalletDone
    <2>1. UNCHANGED <<stored, clock, enabled>> /\ pc = "manage" /\ pc' = pc
      BY <1>4 DEF HoldLeg, FlattenLeg, BuyLeg, AtLeg, CloseTicket, WalletDone, env
    <2>2. /\ tick'.profiles = tick.profiles /\ tick'.now = tick.now
          /\ tick'.sweep.wallet \subseteq tick.sweep.wallet /\ tick'.wallets = tick.wallets
      <3>1. CASE \E w \in Active, l \in Legs : HoldLeg(w, l) \/ \E m \in Marks : FlattenLeg(w, l, m)
        BY <1>0, <3>1, LegLocals
      <3>2. CASE \E w \in Active, l \in Legs, s \in Tickets : BuyLeg(w, l, s)
        BY <1>0, <3>2 DEF BuyLeg, TickLocals
      <3>3. CASE \E r \in tick.sweep.closing : CloseTicket(r)
        BY <1>0, <3>3 DEF CloseTicket, TickLocals
      <3>4. CASE WalletDone
        BY <1>0, <3>4 DEF WalletDone, NoSweep, TickLocals
      <3> QED BY <1>4, <3>1, <3>2, <3>3, <3>4
    <2>3. tick.sweep.wallet \cap tick.wallets = {}
      BY <2>1 DEF ClockInv
    <2> QED BY <2>1, <2>2, <2>3, Steady
  <1>5. CASE SweepDone
    <2>1. UNCHANGED <<stored, clock, enabled, tick>> /\ pc = "manage" /\ pc' = "mark"
      BY <1>5 DEF SweepDone, env
    <2> QED BY <2>1, Steady
  <1>6. CASE MarkInstant
    <2>1. /\ pc = "mark" /\ stored' = Instant /\ ToUnits /\ UNCHANGED <<clock, enabled>>
      BY <1>6 DEF MarkInstant, env
    <2>2. tick'.profiles = tick.profiles /\ tick'.now = tick.now /\ pc' = "units"
      BY <2>1, UnitsLocals
    <2>3. tick.profiles = Wallets /\ tick.now <= clock
      BY <2>1 DEF ClockInv
    <2>4. Instant' = Instant /\ Instant <= LatestDue(Wallets, clock) /\ Instant \in Nat
      BY <1>0, <2>2, <2>3, InstantGrows, InstantType DEF Instant
    <2> QED BY <2>1, <2>2, <2>3, <2>4 DEF ClockInv
  <1> QED BY <1>1, <1>2, <1>3, <1>4, <1>5, <1>6, Zenon DEF Sweep

LEMMA OtherClock ==
    ASSUME PaperInv, ClockInv,
           \/ SweepFails \/ TickFails \/ TimePasses \/ UNCHANGED vars
           \/ \E e \in Events, b \in Buckets : MarketResolves(e, b)
    PROVE  ClockInv'
  <1>1. CASE SweepFails
    <2>1. UNCHANGED <<stored, clock, enabled>> /\ pc = "manage"
      BY <1>1 DEF SweepFails, env
    <2> QED BY <1>1, <2>1, UnitsLocals, Steady DEF SweepFails
  <1>2. CASE TickFails
    BY <1>2 DEF TickFails, env, ClockInv
  <1>3. CASE TimePasses
    <2>1. UNCHANGED <<stored, enabled, pc, tick>> /\ clock' = clock + 1
      BY <1>3 DEF TimePasses
    <2>2. clock \in Nat /\ stored \in Nat /\ tick.now \in Nat
      BY DEF PaperInv, TypeOK, TickLocals
    <2>3. /\ LatestDue(Wallets, clock) \in Nat /\ LatestDue(Wallets, clock') \in Nat
          /\ LatestDue(Wallets, clock) <= LatestDue(Wallets, clock')
      BY <2>1, <2>2, InstantType, InstantGrows
    <2>4. Instant' = Instant
      BY <2>1 DEF Instant
    <2> QED BY <2>1, <2>2, <2>3, <2>4 DEF ClockInv
  <1>4. CASE UNCHANGED vars \/ \E e \in Events, b \in Buckets : MarketResolves(e, b)
    <2>1. UNCHANGED <<stored, enabled, pc, tick, clock>>
      BY <1>4 DEF vars, MarketResolves
    <2> QED BY <2>1 DEF ClockInv, Instant
  <1> QED BY <1>1, <1>2, <1>3, <1>4

LEMMA NextClock ==
    ASSUME PaperInv, ClockInv, [Next]_vars
    PROVE  ClockInv'
  <1>1. CASE BeginTick
    BY <1>1, BeginClock
  <1>2. CASE Settle \/ Exits \/ Units \/ Commit
    BY <1>2, TickClock
  <1>3. CASE Sweep
    BY <1>3, SweepClock
  <1>4. CASE \/ SweepFails \/ TickFails \/ TimePasses \/ UNCHANGED vars
             \/ \E e \in Events, b \in Buckets : MarketResolves(e, b)
    BY <1>4, OtherClock
  <1> QED BY <1>1, <1>2, <1>3, <1>4, Zenon DEF Next, BotStep

\* A step that writes no ticket and undoes no work of the sweep.
LEMMA SameCount ==
    ASSUME CountInv, UNCHANGED <<stored, faults>>,
           \A w \in Active, l \in Legs, m \in Nat :
               TicketRows(log', w, l, m) = TicketRows(log, w, l, m),
           \A w \in Active, l \in Legs : Worked(w, l) => Worked(w, l)' /\ Instant' = Instant
    PROVE  CountInv'
  <1> SUFFICES ASSUME NEW w \in Active, NEW l \in Legs, NEW m \in Nat
               PROVE  /\ Cardinality(TicketRows(log', w, l, m)) <= 1 + faults'
                      /\ m > stored' /\ ~(Worked(w, l)' /\ m = Instant')
                         => Cardinality(TicketRows(log', w, l, m)) <= faults'
    BY DEF CountInv
  <1>1. /\ Cardinality(TicketRows(log, w, l, m)) <= 1 + faults
        /\ m > stored /\ ~(Worked(w, l) /\ m = Instant)
           => Cardinality(TicketRows(log, w, l, m)) <= faults
    BY DEF CountInv
  <1>2. Worked(w, l) => Worked(w, l)' /\ Instant' = Instant
    OBVIOUS
  <1> HIDE DEF Worked, Instant
  <1> QED BY <1>1, <1>2

\* The steps of a sweep, up to its end, that buy nothing.
LEMMA WorkGoesOn ==
    ASSUME PaperInv, ClockInv, pc = "manage",
           \/ \E w \in Active : ManageWallet(w)
           \/ \E w \in Active, l \in Legs : HoldLeg(w, l) \/ \E m \in Marks : FlattenLeg(w, l, m)
           \/ \E r \in tick.sweep.closing : CloseTicket(r)
           \/ WalletDone \/ SweepDone,
           NEW v \in Active, NEW k \in Legs, Worked(v, k)
    PROVE  Worked(v, k)' /\ Instant' = Instant
  <1>0. tick \in TickLocals
    BY DEF PaperInv, TypeOK
  <1>1. CASE \E w \in Active : ManageWallet(w)
    <2>1. PICK w \in Active : ManageWallet(w)
      BY <1>1
    <2>2. /\ tick'.profiles = tick.profiles /\ tick'.now = tick.now /\ w \in tick.wallets
          /\ tick'.sweep.wallet = {w} /\ tick'.wallets = tick.wallets \ {w} /\ pc' = pc
      BY <1>0, <2>1 DEF ManageWallet, TickLocals, NoSweep
    <2> QED BY <2>2 DEF Worked, Instant
  <1>2. CASE \E w \in Active, l \in Legs : HoldLeg(w, l) \/ \E m \in Marks : FlattenLeg(w, l, m)
    <2>1. /\ tick'.profiles = tick.profiles /\ tick'.now = tick.now /\ pc' = pc
          /\ tick'.sweep.wallet = tick.sweep.wallet /\ tick'.wallets = tick.wallets
          /\ tick'.sweep.todo \subseteq tick.sweep.todo
      BY <1>0, <1>2, LegLocals
    <2> QED BY <2>1 DEF Worked, Instant
  <1>3. CASE \E r \in tick.sweep.closing : CloseTicket(r)
    <2>1. /\ tick'.profiles = tick.profiles /\ tick'.now = tick.now /\ pc' = pc
          /\ tick'.sweep.wallet = tick.sweep.wallet /\ tick'.wallets = tick.wallets
          /\ tick'.sweep.todo = tick.sweep.todo
      BY <1>0, <1>3 DEF CloseTicket, TickLocals
    <2> QED BY <2>1 DEF Worked, Instant
  <1>4. CASE WalletDone
    <2>1. /\ tick'.profiles = tick.profiles /\ tick'.now = tick.now /\ pc' = pc
          /\ tick'.sweep.wallet = {} /\ tick'.wallets = tick.wallets
      BY <1>0, <1>4 DEF WalletDone, NoSweep, TickLocals
    <2> QED BY <2>1 DEF Worked, Instant
  <1>5. CASE SweepDone
    BY <1>5 DEF SweepDone, Worked, Instant
  <1> QED BY <1>1, <1>2, <1>3, <1>4, <1>5

\* The one ticket a sweep buys on a leg: the sweep has not worked the leg yet.
LEMMA BuyCount ==
    ASSUME PaperInv, ClockInv, CountInv,
           NEW w \in Active, NEW l \in Legs, NEW s \in Tickets, BuyLeg(w, l, s)
    PROVE  CountInv'
  <1> DEFINE r == OpenRow(Len(log) + 1, w, l, s, Instant)
             N(v, k, m) == Cardinality(TicketRows(log, v, k, m))
             here(v, k, m) == v = w /\ k = l /\ m = Instant
  <1>0. log \in Seq(Row) /\ tick \in TickLocals /\ faults \in Nat /\ Instant \in Nat
    BY InstantType DEF PaperInv, TypeOK, Instant, TickLocals
  <1>1. /\ log' = Append(log, r) /\ pc' = pc /\ pc = "manage" /\ UNCHANGED <<stored, faults>>
        /\ tick.sweep.wallet = {w} /\ l \in tick.sweep.todo
        /\ tick' = [tick EXCEPT !.sweep.todo = @ \ {l}, !.sweep.balance = @ - s]
    BY DEF BuyLeg, AtLeg
  <1>2. r.kind = "OPEN" /\ r.wallet = w /\ r.leg = l /\ r.at = Instant
    BY DEF OpenRow
  <1>3. /\ tick'.profiles = tick.profiles /\ tick'.now = tick.now /\ tick'.wallets = tick.wallets
        /\ tick'.sweep.wallet = {w} /\ tick'.sweep.todo = tick.sweep.todo \ {l}
    BY <1>0, <1>1 DEF TickLocals
  <1>4. Instant' = Instant /\ stored < Instant /\ w \notin tick.wallets
    BY <1>1, <1>3 DEF Instant, ClockInv
  <1>5. /\ \A v, k : Worked(v, k) => Worked(v, k)'
        /\ ~Worked(w, l) /\ Worked(w, l)'
    BY <1>1, <1>3, <1>4 DEF Worked
  <1> HIDE DEF r
  <1>6. ASSUME NEW v \in Active, NEW k \in Legs, NEW m \in Nat
        PROVE  Cardinality(TicketRows(log', v, k, m)) = N(v, k, m) + (IF here(v, k, m) THEN 1 ELSE 0)
    <2> DEFINE n == Len(log) + 1
    <2>1. Len(log) \in Nat /\ DOMAIN log = 1..Len(log) /\ n \notin DOMAIN log
      BY <1>0
    <2>2. DOMAIN log' = DOMAIN log \cup {n} /\ log'[n] = r /\ \A j \in DOMAIN log : log'[j] = log[j]
      BY <1>0, <1>1, <2>1
    <2> HIDE DEF n
    <2>3. TicketRows(log', v, k, m)
             = IF here(v, k, m) THEN TicketRows(log, v, k, m) \cup {n} ELSE TicketRows(log, v, k, m)
      BY <1>2, <2>2 DEF TicketRows
    <2>4. n \notin TicketRows(log, v, k, m)
      BY <2>1 DEF TicketRows
    <2>5. IsFiniteSet(TicketRows(log, v, k, m)) /\ N(v, k, m) \in Nat
      BY <1>0, TicketRowsFinite
    <2>6. Cardinality(TicketRows(log, v, k, m) \cup {n}) = N(v, k, m) + 1
      BY <2>4, <2>5, FS_AddElement
    <2> HIDE DEF here
    <2> QED BY <2>3, <2>5, <2>6
  <1> SUFFICES ASSUME NEW v \in Active, NEW k \in Legs, NEW m \in Nat
               PROVE  /\ Cardinality(TicketRows(log', v, k, m)) <= 1 + faults'
                      /\ m > stored' /\ ~(Worked(v, k)' /\ m = Instant')
                         => Cardinality(TicketRows(log', v, k, m)) <= faults'
    BY DEF CountInv
  <1>7. /\ N(v, k, m) <= 1 + faults
        /\ m > stored /\ ~(Worked(v, k) /\ m = Instant) => N(v, k, m) <= faults
    BY DEF CountInv
  <1>8. N(v, k, m) \in Nat
    BY <1>0, TicketRowsFinite
  <1>9. CASE here(v, k, m)
    <2>1. N(v, k, m) <= faults
      BY <1>4, <1>5, <1>7, <1>9
    <2>2. Cardinality(TicketRows(log', v, k, m)) = N(v, k, m) + 1
      BY <1>6, <1>9
    <2>3. Worked(v, k)' /\ m = Instant'
      BY <1>4, <1>5, <1>9
    <2> HIDE DEF N
    <2> QED BY <1>0, <1>1, <1>8, <2>1, <2>2, <2>3
  <1>10. CASE ~here(v, k, m)
    <2>1. Cardinality(TicketRows(log', v, k, m)) = N(v, k, m)
      BY <1>6, <1>8, <1>10
    <2>2. Worked(v, k) => Worked(v, k)'
      BY <1>5
    <2> HIDE DEF N
    <2> QED BY <1>1, <1>4, <1>7, <2>1, <2>2
  <1> QED BY <1>9, <1>10

\* Only a failure or the end of a sweep touches what the counts are compared with,
\* and only a step of the sweep the sweep's work.
LEMMA OtherSteps ==
    ASSUME PaperInv, ClockInv, [Next]_vars, ~(SweepFails \/ TickFails \/ MarkInstant),
           ~\E w \in Active, l \in Legs, s \in Tickets : BuyLeg(w, l, s),
           NEW v \in Active, NEW k \in Legs
    PROVE  /\ UNCHANGED <<stored, faults>>
           /\ Worked(v, k) => Worked(v, k)' /\ Instant' = Instant
  <1>1. CASE BeginTick \/ Settle \/ Exits \/ Units \/ SkipSweep \/ BeginSweep
    <2>1. UNCHANGED <<stored, faults>> /\ pc \notin {"manage", "mark"}
      <3>1. CASE BeginTick \/ Settle
        BY <3>1 DEF BeginTick, Settle, SkipEvent, ResolvedEvent, SettleProfile, SettleDone
      <3>2. CASE Exits
        BY <3>2 DEF Exits, ExitsOf, HoldTrade, CloseTrade, ExitsDone
      <3>3. CASE Units
        BY <3>3 DEF Units, UnitFails, SettleAtGate, SkipProfile, OpenTrades, AtProfile, TickDone
      <3>4. CASE SkipSweep \/ BeginSweep
        BY <3>4 DEF SkipSweep, BeginSweep
      <3> QED BY <1>1, <3>1, <3>2, <3>3, <3>4
    <2> QED BY <2>1 DEF Worked
  <1>2. CASE \/ \E w \in Active : ManageWallet(w)
             \/ \E w \in Active, l \in Legs : HoldLeg(w, l) \/ \E m \in Marks : FlattenLeg(w, l, m)
             \/ \E r \in tick.sweep.closing : CloseTicket(r)
             \/ WalletDone \/ SweepDone
    <2>1. UNCHANGED <<stored, faults>> /\ pc = "manage"
      BY <1>2 DEF ManageWallet, HoldLeg, FlattenLeg, AtLeg, CloseTicket, WalletDone, SweepDone
    <2> QED BY <1>2, <2>1, WorkGoesOn
  <1>3. CASE \/ Commit \/ TimePasses \/ UNCHANGED vars
             \/ \E e \in Events, b \in Buckets : MarketResolves(e, b)
    <2>1. UNCHANGED <<stored, faults, pc, tick>>
      BY <1>3 DEF Commit, TimePasses, vars, MarketResolves
    <2> QED BY <2>1 DEF Worked, Instant
  <1>4. CASE Sweep
    BY <1>1, <1>2, <1>4, Zenon DEF Sweep
  <1> QED BY <1>1, <1>2, <1>3, <1>4, Zenon DEF Next, BotStep

LEMMA NextCount ==
    ASSUME PaperInv, ClockInv, CountInv, [Next]_vars
    PROVE  CountInv'
  <1>0. log \in Seq(Row) /\ faults \in Nat /\ stored \in Nat
    BY DEF PaperInv, TypeOK
  <1>1. CASE \E w \in Active, l \in Legs, s \in Tickets : BuyLeg(w, l, s)
    BY <1>1, BuyCount
  <1>2. CASE ~\E w \in Active, l \in Legs, s \in Tickets : BuyLeg(w, l, s)
    <2>1. \A w \in Active, l \in Legs, m \in Nat :
             TicketRows(log', w, l, m) = TicketRows(log, w, l, m)
      BY <1>2, OnlySweepBuys
    <2>2. \A w \in Active, l \in Legs, m \in Nat :
             /\ Cardinality(TicketRows(log, w, l, m)) \in Nat
             /\ Cardinality(TicketRows(log, w, l, m)) <= 1 + faults
             /\ m > stored /\ ~(Worked(w, l) /\ m = Instant)
                => Cardinality(TicketRows(log, w, l, m)) <= faults
      BY <1>0, TicketRowsFinite DEF CountInv
    <2>3. CASE SweepFails \/ TickFails
      <3>1. faults' = faults + 1 /\ stored' = stored
        BY <2>3 DEF SweepFails, TickFails
      <3> QED BY <1>0, <2>1, <2>2, <3>1 DEF CountInv
    <2>4. CASE MarkInstant
      <3>1. faults' = faults /\ stored' = Instant /\ stored < Instant /\ Instant \in Nat
        <4>1. Instant \in Nat
          BY InstantType DEF PaperInv, TypeOK, Instant, TickLocals
        <4> QED BY <2>4, <4>1 DEF MarkInstant, ClockInv
      <3>2. ASSUME NEW w \in Active, NEW l \in Legs, NEW m \in Nat, m > stored'
            PROVE  Cardinality(TicketRows(log', w, l, m)) <= faults'
        BY <1>0, <2>1, <2>2, <3>1, <3>2
      <3> QED BY <2>1, <2>2, <3>1, <3>2 DEF CountInv
    <2>5. CASE ~(SweepFails \/ TickFails \/ MarkInstant)
      <3>1. CASE Active # {} /\ Legs # {}
        <4>1. /\ UNCHANGED <<stored, faults>>
              /\ \A w \in Active, l \in Legs : Worked(w, l) => Worked(w, l)' /\ Instant' = Instant
          BY <1>2, <2>5, <3>1, OtherSteps
        <4> QED BY <2>1, <4>1, SameCount
      <3>2. CASE ~(Active # {} /\ Legs # {})
        BY <3>2 DEF CountInv
      <3> QED BY <3>1, <3>2
    <2> QED BY <2>3, <2>4, <2>5
  <1> QED BY <1>1, <1>2

LEMMA InitCount == Init => ClockInv /\ CountInv
  <1> SUFFICES ASSUME Init PROVE ClockInv /\ CountInv
    OBVIOUS
  <1>1. LatestDue(Wallets, 0) \in Nat
    BY InstantType
  <1>2. ClockInv
    BY <1>1 DEF Init, ClockInv
  <1>3. \A w, l, m : TicketRows(<<>>, w, l, m) = {}
    BY DEF TicketRows
  <1>4. Cardinality({}) = 0
    BY FS_EmptySet
  <1>5. log = <<>> /\ faults = 0
    BY DEF Init
  <1>6. \A w, l, m : Cardinality(TicketRows(log, w, l, m)) = 0
    BY <1>3, <1>4, <1>5, Zenon
  <1>7. CountInv
    BY <1>5, <1>6 DEF CountInv
  <1> QED BY <1>2, <1>7

(* The instant that is stored is never later than the one a tick computes, and *)
(* only a failed sweep or tick leaves tickets of an instant that is not stored.*)
THEOREM CountInvariant == Spec => [](PaperInv /\ ClockInv /\ CountInv)
  <1>1. Init => PaperInv /\ ClockInv /\ CountInv
    BY InitPaperInv, InitCount
  <1>2. (PaperInv /\ ClockInv /\ CountInv) /\ [Next]_vars => (PaperInv /\ ClockInv /\ CountInv)'
    BY NextPaperInv, NextClock, NextCount
  <1> QED BY <1>1, <1>2, PTL DEF Spec

(* A leg of an active wallet gets one ticket per gate instant, and at most one *)
(* more for every sweep or tick that failed, for any number of each.           *)
THEOREM OneTicketPerInstantHolds == Spec => []OneTicketPerInstant
  <1>1. PaperInv /\ ClockInv /\ CountInv => OneTicketPerInstant
    <2> SUFFICES ASSUME CountInv, NEW w \in Active, NEW l \in Legs, NEW m \in 1..MaxClock
                 PROVE  Cardinality({k \in Opened : /\ log[k].wallet = w /\ log[k].leg = l
                                                    /\ log[k].at = m}) <= 1 + faults
      BY DEF OneTicketPerInstant
    <2>1. {k \in Opened : /\ log[k].wallet = w /\ log[k].leg = l /\ log[k].at = m}
             = TicketRows(log, w, l, m)
      BY DEF Opened, TicketRows
    <2>2. m \in Nat
      OBVIOUS
    <2> QED BY <2>1, <2>2, Zenon DEF CountInv
  <1> QED BY <1>1, CountInvariant, PTL

-----------------------------------------------------------------------------
(* The readers of the paper ledger (module PaperReports): the report of     *)
(* performance, the viewer's trades and the table of scenarios find in      *)
(* every log the bot may have written what read_state finds there.          *)

-----------------------------------------------------------------------------
(* The replay of the report, unfolded row by row.                          *)

Index(l) == [k \in DOMAIN l |-> k]

\* What row k does to the replay of wallet w.
Book(l, w, window, day, k, p) ==
    IF l[k].wallet = w THEN Booked(p, l[k], day[k], window) ELSE p

BookBody(l, w, window, day, g, s) ==
    IF s = {} THEN NoPerf ELSE Book(l, w, window, day, Index(l)[Max(s)], g[s \ {Max(s)}])

IsBooking(g, l, w, window, day) ==
    g = [s \in SUBSET DOMAIN Index(l) |-> BookBody(l, w, window, day, g, s)]

\* What _replay_profile returns of its locals.
Perf(p) ==
    [balance |-> p.balance,
     daily   |-> [d \in DOMAIN p.daily |->
                     [sod |-> p.sod[d], pnl |-> p.daily[d].pnl, n_trades |-> p.daily[d].n_trades]]]

LEMMA ReplayedIs ==
    ASSUME NEW l, NEW w, NEW window, NEW day
    PROVE  Replayed(l, w, window, day)
             = Perf((CHOOSE g : IsBooking(g, l, w, window, day))[DOMAIN Index(l)])
  <1> DEFINE iter == CHOOSE g : g = [s \in SUBSET DOMAIN [i \in DOMAIN l |-> i] |->
                         IF s = {} THEN NoPerf
                         ELSE IF l[[i \in DOMAIN l |-> i][Max(s)]].wallet = w
                              THEN Booked(g[s \ {Max(s)}], l[[i \in DOMAIN l |-> i][Max(s)]],
                                          day[[i \in DOMAIN l |-> i][Max(s)]], window)
                              ELSE g[s \ {Max(s)}]]
  <1>1. Replayed(l, w, window, day) = Perf(iter[DOMAIN [i \in DOMAIN l |-> i]])
    BY Zenon DEF Replayed, FoldLeftDomain, FoldLeft, MapThenFoldSet, Perf
  <1>2. iter = CHOOSE g : IsBooking(g, l, w, window, day)
    BY Zenon DEF IsBooking, BookBody, Book, Index
  <1>3. DOMAIN [i \in DOMAIN l |-> i] = DOMAIN Index(l)
    BY DEF Index
  <1> HIDE DEF iter
  <1> QED BY ONLY <1>1, <1>2, <1>3

\* The recursion has a solution, built up by the last row it may look at.
LEMMA BookingExists ==
    ASSUME NEW l \in Seq(Row), NEW w, NEW window, NEW day
    PROVE  \E g : IsBooking(g, l, w, window, day)
  <1> DEFINE S == DOMAIN l
             Body(g, s) == BookBody(l, w, window, day, g, s)
             Solves(g, m) == \A s \in SUBSET S : s \subseteq 1..m => g[s] = Body(g, s)
             F == {m \in 0..Len(l) : \E g : Solves(g, m)}
  <1>0. Len(l) \in Nat /\ S = 1..Len(l) /\ DOMAIN Index(l) = S
    BY DEF Index
  <1>1. 0 \in F
    <2> DEFINE g == [s \in SUBSET S |-> NoPerf]
    <2>1. \A s \in SUBSET S : s \subseteq 1..0 => s = {} /\ g[s] = NoPerf
      OBVIOUS
    <2>2. Solves(g, 0)
      BY <2>1 DEF BookBody
    <2> QED BY <1>0, <2>2
  <1>2. ASSUME NEW n \in 0..Len(l), n < Len(l), n \in F
        PROVE  n + 1 \in F
    <2>1. PICK g : Solves(g, n)
      BY <1>2
    <2> DEFINE h == [s \in SUBSET S |-> IF s \subseteq 1..n THEN g[s] ELSE Body(g, s)]
    <2>2. ASSUME NEW s \in SUBSET S, s \subseteq 1..(n + 1), s # {}
          PROVE  Max(s) \in s /\ s \ {Max(s)} \subseteq 1..n /\ s \ {Max(s)} \in SUBSET S
      <3>1. n + 1 \in Nat /\ s \in SUBSET (1..(n + 1)) /\ s \in SUBSET (0..(n + 1)) /\ n \in Nat
        BY <1>0, <2>2
      <3>2. Max(s) \in s /\ \A k \in s : k <= Max(s)
        BY ONLY <2>2, <3>1, LastOf
      <3>3. s \ {Max(s)} \subseteq 1..n
        BY ONLY <3>1, <3>2
      <3> QED BY <3>2, <3>3
    <2>3. \A s \in SUBSET S : s \subseteq 1..n => h[s] = g[s] /\ g[s] = Body(g, s)
      BY <2>1
    <2>4. \A s \in SUBSET S : ~(s \subseteq 1..n) => h[s] = Body(g, s)
      OBVIOUS
    <2> HIDE DEF h
    <2>5. \A s \in SUBSET S : h[s] = Body(g, s)
      BY <2>3, <2>4
    <2>6. \A s \in SUBSET S : s \subseteq 1..(n + 1) => Body(g, s) = Body(h, s)
      BY <2>2, <2>3 DEF BookBody
    <2>7. Solves(h, n + 1)
      BY <2>5, <2>6
    <2>8. n + 1 \in 0..Len(l)
      BY <1>0, <1>2
    <2> QED BY <2>7, <2>8
  <1> HIDE DEF F
  <1>3. Len(l) \in F
    <2>1. \A n \in 0..Len(l) : n < Len(l) /\ n \in F => n + 1 \in F
      BY <1>2
    <2>2. \A n \in 0..Len(l) : n \in F
      BY ONLY <1>0, <1>1, <2>1, CountUp
    <2> QED BY <1>0, <2>2
  <1>4. PICK g : Solves(g, Len(l))
    BY <1>3 DEF F
  <1>5. \A s \in SUBSET S : g[s] = Body(g, s)
    BY <1>0, <1>4
  <1> DEFINE h == [s \in SUBSET S |-> g[s]]
  <1>6. \A s \in SUBSET S : h[s] = g[s]
    OBVIOUS
  <1>7. \A s \in SUBSET S : s # {} => s \ {Max(s)} \in SUBSET S
    OBVIOUS
  <1>8. \A s \in SUBSET S : h[s] = Body(h, s)
    BY <1>5, <1>6, <1>7 DEF BookBody
  <1>9. h = [s \in SUBSET S |-> Body(h, s)]
    BY <1>8
  <1> HIDE DEF h
  <1> QED BY <1>0, <1>9 DEF IsBooking

\* The replay is a run of Book over the rows, from NoPerf; p[n] is what it has
\* after the first n rows.
Books(p, l, w, window, day) ==
    /\ p[0] = NoPerf
    /\ \A n \in 1..Len(l) : p[n] = Book(l, w, window, day, n, p[n - 1])

LEMMA ReplayedRows ==
    ASSUME NEW l \in Seq(Row), NEW w, NEW window, NEW day
    PROVE  \E p : Books(p, l, w, window, day) /\ Replayed(l, w, window, day) = Perf(p[Len(l)])
  <1> DEFINE g == CHOOSE f : IsBooking(f, l, w, window, day)
             S == DOMAIN l
             Body(s) == BookBody(l, w, window, day, g, s)
             p == [n \in 0..Len(l) |-> g[1..n]]
  <1>0. Len(l) \in Nat /\ S = 1..Len(l) /\ DOMAIN Index(l) = S /\ \A k \in S : Index(l)[k] = k
    BY DEF Index
  <1>1. IsBooking(g, l, w, window, day)
    BY BookingExists
  <1>2. Replayed(l, w, window, day) = Perf(g[S])
    BY <1>0, ReplayedIs
  <1> HIDE DEF g
  <1>3. \A s \in SUBSET S : g[s] = Body(s)
    <2>1. \A s \in SUBSET S : [t \in SUBSET S |-> Body(t)][s] = Body(s)
      OBVIOUS
    <2> QED BY <1>0, <1>1, <2>1 DEF IsBooking
  <1>4. g[1..0] = NoPerf
    <2>1. 1..0 = {} /\ 1..0 \in SUBSET S
      OBVIOUS
    <2> QED BY <1>3, <2>1 DEF BookBody
  <1>5. ASSUME NEW n \in 1..Len(l)
        PROVE  g[1..n] = Book(l, w, window, day, n, g[1..(n - 1)])
    <2>0. n \in Nat /\ n >= 1 /\ n \in 1..n /\ 1..n \in SUBSET (0..n) /\ 1..n \in SUBSET S /\ n \in S
      BY <1>0
    <2>1. (1..n) \ {n} = 1..(n - 1)
      <3>1. \A k : k \in (1..n) \ {n} <=> k \in 1..(n - 1)
        BY ONLY <2>0
      <3> QED BY ONLY <3>1, Zenon
    <2>2. Max(1..n) \in 1..n /\ \A k \in 1..n : k <= Max(1..n)
      BY ONLY <2>0, LastOf
    <2>3. Max(1..n) = n
      BY ONLY <2>0, <2>2
    <2>4. g[1..n] = Body(1..n) /\ 1..n # {}
      BY <1>3, <2>0
    <2>5. Body(1..n) = Book(l, w, window, day, Index(l)[n], g[1..(n - 1)])
      BY <2>1, <2>3, <2>4 DEF BookBody
    <2> QED BY <1>0, <2>0, <2>4, <2>5
  <1>6. \A n \in 0..Len(l) : p[n] = g[1..n]
    OBVIOUS
  <1> HIDE DEF p
  <1>7. \A n \in 1..Len(l) : n \in 0..Len(l) /\ n - 1 \in 0..Len(l)
    BY <1>0
  <1>8. Books(p, l, w, window, day)
    <2>1. p[0] = NoPerf
      BY <1>0, <1>4, <1>6
    <2>2. \A n \in 1..Len(l) : p[n] = Book(l, w, window, day, n, p[n - 1])
      BY <1>5, <1>6, <1>7
    <2> QED BY <2>1, <2>2 DEF Books
  <1>9. p[Len(l)] = g[S]
    BY <1>0, <1>6
  <1> QED BY <1>2, <1>8, <1>9

-----------------------------------------------------------------------------
(* What the replays have after the first rows of a log.                    *)

\* A log the bot may have written (PaperInv).
Written(l) == l \in Seq(Row) /\ WellFormed(l) /\ OnceEnded(l)

LEMMA RowFacts ==
    ASSUME NEW l, Written(l), NEW k \in 1..Len(l)
    PROVE  /\ k \in DOMAIN l /\ l[k] \in Row /\ k \in Nat /\ Len(l) \in Nat
           /\ Ends(l[k]) <=> l[k].kind # "OPEN"
           /\ l[k].wallet \in Wallets /\ l[k].stake \in Nat /\ l[k].payout \in Nat
           /\ l[k].kind = "OPEN" => l[k].trade = k
           /\ Ends(l[k]) => /\ l[k].trade \in 1..Len(l) /\ l[k].trade < k
                            /\ l[l[k].trade].kind = "OPEN"
                            /\ l[l[k].trade].wallet = l[k].wallet
                            /\ l[l[k].trade].leg = l[k].leg
                            /\ l[l[k].trade].stake = l[k].stake
  <1>1. k \in DOMAIN l /\ DOMAIN l = 1..Len(l) /\ l[k] \in Row /\ Len(l) \in Nat
    BY DEF Written
  <1>2. /\ l[k].kind = "OPEN" => l[k].trade = k
        /\ Ends(l[k]) => l[k].trade < k /\ EndsTrade(l[k], l)
    BY <1>1, WellFormedRows DEF Written
  <1> QED BY <1>1, <1>2, RowFields DEF EndsTrade

\* The rows of wallet w that end a trade, among the first n.
EndRows(l, w, n) == {k \in 1..n : Ends(l[k]) /\ l[k].wallet = w}

Gain(l) == [k \in 1..Len(l) |-> l[k].payout - l[k].stake]

LEMMA EndRowsFacts ==
    ASSUME NEW l, Written(l), NEW w
    PROVE  /\ EndRows(l, w, 0) = {}
           /\ \A n \in 0..Len(l) : /\ IsFiniteSet(EndRows(l, w, n))
                                   /\ EndRows(l, w, n) \subseteq 1..Len(l)
           /\ \A k \in 1..Len(l) : Gain(l)[k] \in Int /\ Gain(l)[k] = l[k].payout - l[k].stake
  <1>0. Len(l) \in Nat
    BY DEF Written
  <1>1. EndRows(l, w, 0) = {}
    BY DEF EndRows
  <1>2. ASSUME NEW n \in 0..Len(l)
        PROVE  IsFiniteSet(EndRows(l, w, n)) /\ EndRows(l, w, n) \subseteq 1..Len(l)
    <2>1. IsFiniteSet(1..n) /\ 1..n \subseteq 1..Len(l)
      BY <1>0, FS_Interval
    <2>2. EndRows(l, w, n) \subseteq 1..n
      BY DEF EndRows
    <2> QED BY <2>1, <2>2, FS_Subset
  <1>3. \A k \in 1..Len(l) : Gain(l)[k] \in Int /\ Gain(l)[k] = l[k].payout - l[k].stake
    BY RowFacts DEF Gain
  <1> QED BY <1>1, <1>2, <1>3

LEMMA EndRowsStep ==
    ASSUME NEW l, Written(l), NEW w, NEW n \in 0..Len(l), n < Len(l)
    PROVE  /\ n + 1 \in 1..Len(l) /\ n + 1 \in 0..Len(l) /\ n + 1 \notin EndRows(l, w, n)
           /\ Ends(l[n + 1]) /\ l[n + 1].wallet = w
                => EndRows(l, w, n + 1) = EndRows(l, w, n) \cup {n + 1}
           /\ ~(Ends(l[n + 1]) /\ l[n + 1].wallet = w)
                => EndRows(l, w, n + 1) = EndRows(l, w, n)
  <1>0. Len(l) \in Nat
    BY DEF Written
  <1>1. 1..(n + 1) = (1..n) \cup {n + 1} /\ n + 1 \notin 1..n
    BY <1>0
  <1> QED BY <1>0, <1>1 DEF EndRows

\* What a row adds to what the wallet has realized.
LEMMA AfterRealized ==
    ASSUME NEW r \in Row, NEW w, NEW st \in State
    PROVE  /\ Ends(r) /\ r.wallet = w /\ (\E o \in st.open : o.trade = r.trade)
                => After(r, w, st).realized = st.realized + (r.payout - r.stake)
           /\ ~(Ends(r) /\ r.wallet = w) => After(r, w, st).realized = st.realized
  <1>1. CASE r.wallet # w
    BY <1>1 DEF After
  <1>2. CASE r.wallet = w /\ r.kind = "OPEN"
    <2>1. After(r, w, st) = [st EXCEPT !.balance = st.balance - r.stake, !.open = st.open \cup {r}]
      BY <1>2 DEF After, Apply
    <2>2. ~Ends(r)
      BY <1>2 DEF Ends
    <2> HIDE DEF Row
    <2> QED BY <2>1, <2>2 DEF State
  <1>3. CASE r.wallet = w /\ r.kind # "OPEN"
    <2> DEFINE mine == {o \in st.open : o.trade = r.trade}
    <2>1. After(r, w, st) = [balance |-> st.balance + r.payout, open |-> st.open \ mine,
                             realized |-> st.realized + (IF mine = {} THEN 0 ELSE r.payout - r.stake)]
      BY <1>3 DEF After, Apply
    <2>2. Ends(r)
      BY <1>3, RowFields
    <2>3. (\E o \in st.open : o.trade = r.trade) => mine # {}
      OBVIOUS
    <2> HIDE DEF mine
    <2> QED BY <1>3, <2>1, <2>2, <2>3
  <1> QED BY <1>1, <1>2, <1>3

\* read_state of the first n rows.
StateAt(l, w, n) == read_state(SubSeq(l, 1, n), w)

LEMMA PrefixState ==
    ASSUME NEW l, Written(l), NEW w
    PROVE  /\ StateAt(l, w, 0).balance = StartingBalance /\ StateAt(l, w, 0).realized = 0
           /\ StateAt(l, w, Len(l)) = read_state(l, w)
           /\ \A n \in 0..Len(l) : /\ StateAt(l, w, n) \in State
                                   /\ StateAt(l, w, n).balance \in Int
                                   /\ StateAt(l, w, n).realized \in Int
           /\ \A n \in 0..Len(l) : n < Len(l) =>
                  StateAt(l, w, n + 1) = After(l[n + 1], w, StateAt(l, w, n))
  <1>0. l \in Seq(Row)
    BY DEF Written
  <1>1. StateAt(l, w, 0) = Fresh /\ StateAt(l, w, Len(l)) = read_state(l, w)
    BY <1>0, ReplayRows DEF StateAt
  <1>2. Fresh.balance = StartingBalance /\ Fresh.realized = 0
    BY DEF Fresh
  <1>3. \A n \in 0..Len(l) : StateAt(l, w, n) \in State
    BY <1>0, RowsSoFar, StateType DEF StateAt
  <1>4. \A n \in 0..Len(l) : n < Len(l) =>
            StateAt(l, w, n + 1) = After(l[n + 1], w, StateAt(l, w, n))
    BY <1>0, ReplayRows DEF StateAt
  <1>5. \A n \in 0..Len(l) : StateAt(l, w, n).balance \in Int /\ StateAt(l, w, n).realized \in Int
    BY <1>3 DEF State
  <1> QED BY <1>1, <1>2, <1>3, <1>4, <1>5

\* Row n + 1 adds to the balance of the first n rows and, if it ends a trade of
\* the wallet, its gain to what they realized: the trade is open until then.
LEMMA PrefixStep ==
    ASSUME NEW l, Written(l), NEW w, NEW n \in 0..Len(l), n < Len(l)
    PROVE  /\ StateAt(l, w, n + 1).balance = StateAt(l, w, n).balance + Change(l[n + 1], w)
           /\ StateAt(l, w, n + 1).realized = StateAt(l, w, n).realized
                + IF Ends(l[n + 1]) /\ l[n + 1].wallet = w THEN Gain(l)[n + 1] ELSE 0
  <1> DEFINE m == SubSeq(l, 1, n)
             r == l[n + 1]
  <1>0. l \in Seq(Row) /\ WellFormed(l) /\ OnceEnded(l) /\ Len(l) \in Nat /\ DOMAIN l = 1..Len(l)
    BY DEF Written
  <1>1. /\ m \in Seq(Row) /\ Len(m) = n /\ DOMAIN m = 1..n /\ n + 1 \in 1..Len(l) /\ r \in Row
        /\ \A k \in 1..n : m[k] = l[k] /\ k \in 1..Len(l)
        /\ SubSeq(l, 1, n + 1) = Append(m, r)
    BY <1>0, RowsSoFar
  <1>2. WellFormed(m)
    BY <1>0, WellFormedPrefix
  <1>3. /\ StateAt(l, w, n + 1) = After(r, w, StateAt(l, w, n)) /\ StateAt(l, w, n) \in State
        /\ StateAt(l, w, n).realized \in Int
    BY PrefixState
  <1>4. StateAt(l, w, n + 1).balance = StateAt(l, w, n).balance + Change(r, w)
    <2>1. read_state(Append(m, r), w).balance = read_state(m, w).balance + Change(r, w)
      BY <1>1, ReplayBalance
    <2> QED BY ONLY <1>1, <2>1, Zenon DEF StateAt
  <1>5. ASSUME Ends(r), r.wallet = w
        PROVE  \E o \in StateAt(l, w, n).open : o.trade = r.trade
    <2> DEFINE t == r.trade
    <2>1. t \in 1..Len(l) /\ t < n + 1 /\ l[t].kind = "OPEN" /\ l[t].wallet = w /\ l[t].trade = t
      BY <1>1, <1>5, RowFacts
    <2>2. t \in 1..n /\ m[t] = l[t]
      BY <1>0, <1>1, <2>1
    <2>3. ~Ended(m, t)
      <3> SUFFICES ASSUME NEW k \in 1..n, Ends(m[k]), m[k].trade = t  PROVE FALSE
        BY <1>1 DEF Ended
      <3>1. l[k] = m[k] /\ k \in DOMAIN l /\ n + 1 \in DOMAIN l
        BY <1>0, <1>1
      <3>2. k = n + 1
        BY <1>0, <1>5, <3>1 DEF OnceEnded
      <3> QED BY <1>0, <3>2
    <2>4. m[t] \in paper_open_positions(m)
      BY <1>1, <1>2, <2>1, <2>2, <2>3, IsOpenRow
    <2>5. read_state(m, w).open = OpenOf(m, w)
      BY <1>1, <1>2, ReplayIsView
    <2>6. m[t] \in read_state(m, w).open
      <3> HIDE DEF m, t
      <3> QED BY <2>1, <2>2, <2>4, <2>5 DEF OpenOf
    <2>7. m[t] \in StateAt(l, w, n).open
      BY ONLY <2>6, Zenon DEF StateAt
    <2> HIDE DEF m
    <2> QED BY <2>1, <2>2, <2>7
  <1>6. Gain(l)[n + 1] = r.payout - r.stake
    BY <1>1, EndRowsFacts
  <1>7. StateAt(l, w, n + 1).realized = StateAt(l, w, n).realized
            + IF Ends(r) /\ r.wallet = w THEN Gain(l)[n + 1] ELSE 0
    <2>1. r \in Row
      BY <1>1
    <2> HIDE DEF r
    <2> QED BY <1>3, <1>5, <1>6, <2>1, AfterRealized
  <1> QED BY <1>4, <1>7

\* What a wallet has realized is the gain of its rows that end a trade.
LEMMA RealizedIs ==
    ASSUME NEW l, Written(l), NEW w
    PROVE  read_state(l, w).realized = SumFunctionOnSet(Gain(l), EndRows(l, w, Len(l)))
  <1> DEFINE GainTo(n) == SumFunctionOnSet(Gain(l), EndRows(l, w, n))
             F == {n \in 0..Len(l) : StateAt(l, w, n).realized = GainTo(n)}
  <1>0. Len(l) \in Nat
    BY DEF Written
  <1>1. 0 \in F
    <2>1. GainTo(0) = 0
      BY EndRowsFacts, SumEmpty
    <2> QED BY <1>0, <2>1, PrefixState
  <1>2. ASSUME NEW n \in 0..Len(l), n < Len(l), n \in F
        PROVE  n + 1 \in F
    <2>1. n + 1 \in 0..Len(l) /\ n + 1 \in 1..Len(l)
      BY <1>0, <1>2
    <2>2. StateAt(l, w, n).realized \in Int /\ StateAt(l, w, n).realized = GainTo(n)
      BY <1>2, PrefixState
    <2>3. StateAt(l, w, n + 1).realized = StateAt(l, w, n).realized
             + IF Ends(l[n + 1]) /\ l[n + 1].wallet = w THEN Gain(l)[n + 1] ELSE 0
      BY <1>2, PrefixStep
    <2>4. CASE Ends(l[n + 1]) /\ l[n + 1].wallet = w
      <3> DEFINE E == EndRows(l, w, n)
                 y == n + 1
                 g == Gain(l)
      <3>1. /\ IsFiniteSet(E) /\ y \notin E /\ EndRows(l, w, n + 1) = E \cup {y}
            /\ \A k \in E \cup {y} : g[k] \in Int
        BY <1>2, <2>1, <2>4, EndRowsFacts, EndRowsStep
      <3> HIDE DEF E, y, g
      <3>2. SumFunctionOnSet(g, E \cup {y}) = SumFunctionOnSet(g, E) + g[y]
        BY ONLY <3>1, SumWith
      <3>3. GainTo(n + 1) = GainTo(n) + Gain(l)[n + 1]
        BY <3>1, <3>2 DEF E, y, g
      <3> HIDE DEF GainTo
      <3>4. StateAt(l, w, n + 1).realized = GainTo(n + 1)
        BY <2>2, <2>3, <2>4, <3>3
      <3> QED BY <2>1, <3>4
    <2>5. CASE ~(Ends(l[n + 1]) /\ l[n + 1].wallet = w)
      <3>2. EndRows(l, w, n + 1) = EndRows(l, w, n)
        BY <1>2, <2>5, EndRowsStep
      <3>3. StateAt(l, w, n + 1).realized = StateAt(l, w, n).realized
        BY <2>2, <2>3, <2>5
      <3> QED BY <2>1, <2>2, <3>2, <3>3
    <2> QED BY <2>4, <2>5
  <1> HIDE DEF F
  <1>3. Len(l) \in F
    <2>1. \A n \in 0..Len(l) : n < Len(l) /\ n \in F => n + 1 \in F
      BY <1>2
    <2>2. \A n \in 0..Len(l) : n \in F
      BY ONLY <1>0, <1>1, <2>1, CountUp
    <2> QED BY <1>0, <2>2
  <1>4. StateAt(l, w, Len(l)) = read_state(l, w)
    BY PrefixState
  <1> QED BY <1>3, <1>4 DEF F

-----------------------------------------------------------------------------
(* The locals of _replay_profile after the first n rows: the balance of     *)
(* read_state, the stakes of the trades that are open, and for each day the *)
(* gain and the number of the rows reported under it.                       *)

HeldAt(l, w, n) ==
    {t \in 1..n : /\ l[t].kind = "OPEN" /\ l[t].wallet = w
                  /\ \A m \in 1..n : Ends(l[m]) => l[m].trade # t}

OnDay(l, w, day, n, d) == {k \in EndRows(l, w, n) : day[k] = d}

DaysOf(l, w, day, n) == {day[k] : k \in EndRows(l, w, n)}

DayCell(l, w, day, n, d) ==
    [pnl      |-> SumFunctionOnSet(Gain(l), OnDay(l, w, day, n, d)),
     n_trades |-> Cardinality(OnDay(l, w, day, n, d))]

Daily(l, w, window, day, n) ==
    [d \in DaysOf(l, w, day, n) \cap window |-> DayCell(l, w, day, n, d)]

PerfIs(p, l, w, window, day, n) ==
    /\ p = [balance |-> p.balance, stakes |-> p.stakes, sod |-> p.sod, daily |-> p.daily]
    /\ p.balance = StateAt(l, w, n).balance
    /\ p.stakes = [t \in HeldAt(l, w, n) |-> l[t].stake]
    /\ p.daily = Daily(l, w, window, day, n)

HeldMoves(l, w, n, r) ==
    /\ r.wallet # w => HeldAt(l, w, n + 1) = HeldAt(l, w, n)
    /\ r.wallet = w /\ r.kind = "OPEN"
          => r.trade = n + 1 /\ HeldAt(l, w, n + 1) = HeldAt(l, w, n) \cup {n + 1}
    /\ r.wallet = w /\ r.kind # "OPEN"
          => /\ r.trade \in HeldAt(l, w, n) /\ l[r.trade].stake = r.stake
             /\ HeldAt(l, w, n + 1) = HeldAt(l, w, n) \ {r.trade}

LEMMA HeldStep ==
    ASSUME NEW l, Written(l), NEW w, NEW n \in 0..Len(l), n < Len(l)
    PROVE  HeldMoves(l, w, n, l[n + 1])
  <1> DEFINE r == l[n + 1]
  <1>0. /\ Len(l) \in Nat /\ DOMAIN l = 1..Len(l) /\ n + 1 \in 1..Len(l) /\ n \in Nat
        /\ 1..(n + 1) = (1..n) \cup {n + 1} /\ n + 1 \notin 1..n /\ 1..n \subseteq 1..Len(l)
    BY DEF Written
  <1>1. /\ r.kind = "OPEN" => r.trade = n + 1 /\ ~Ends(r)
        /\ r.kind # "OPEN" => /\ Ends(r) /\ r.trade \in 1..n /\ l[r.trade].kind = "OPEN"
                              /\ l[r.trade].wallet = r.wallet /\ l[r.trade].stake = r.stake
    BY <1>0, RowFacts
  <1>2. \A m \in 1..n : Ends(l[m]) => l[m].trade \in 1..n /\ l[m].trade # n + 1
    <2> SUFFICES ASSUME NEW m \in 1..n, Ends(l[m])  PROVE l[m].trade \in 1..n /\ l[m].trade # n + 1
      OBVIOUS
    <2>1. l[m].trade \in 1..Len(l) /\ l[m].trade < m
      BY <1>0, RowFacts
    <2> QED BY <1>0, <2>1
  <1>3. r.kind # "OPEN" => \A m \in 1..n : Ends(l[m]) => l[m].trade # r.trade
    BY <1>0, <1>1 DEF Written, OnceEnded
  <1>4. r.wallet # w => HeldAt(l, w, n + 1) = HeldAt(l, w, n)
    BY <1>0, <1>1 DEF HeldAt
  <1>5. r.wallet = w /\ r.kind = "OPEN" => HeldAt(l, w, n + 1) = HeldAt(l, w, n) \cup {n + 1}
    BY <1>0, <1>1, <1>2 DEF HeldAt
  <1>6. r.wallet = w /\ r.kind # "OPEN"
            => /\ r.trade \in HeldAt(l, w, n)
               /\ HeldAt(l, w, n + 1) = HeldAt(l, w, n) \ {r.trade}
    BY <1>0, <1>1, <1>3 DEF HeldAt
  <1> HIDE DEF r
  <1>7. HeldMoves(l, w, n, r)
    BY <1>1, <1>4, <1>5, <1>6 DEF HeldMoves
  <1> QED BY <1>7 DEF r

\* A row that ends a trade adds its gain to its day.
LEMMA DailyStep ==
    ASSUME NEW l, Written(l), NEW w, NEW window, NEW day, NEW n \in 0..Len(l), n < Len(l)
    PROVE  LET r == l[n + 1]
               d == day[n + 1]
               old == Daily(l, w, window, day, n)
           IN  /\ ~(Ends(r) /\ r.wallet = w) => Daily(l, w, window, day, n + 1) = old
               /\ Ends(r) /\ r.wallet = w
                    => Daily(l, w, window, day, n + 1)
                         = IF d \in window THEN AddTrade(old, d, r.payout - r.stake) ELSE old
  <1> DEFINE r == l[n + 1]
             d == day[n + 1]
             old == Daily(l, w, window, day, n)
             new == Daily(l, w, window, day, n + 1)
             E == EndRows(l, w, n)
             D == DaysOf(l, w, day, n) \cap window
  <1>1. ASSUME ~(Ends(r) /\ r.wallet = w)
        PROVE  new = old
    <2>1. EndRows(l, w, n + 1) = EndRows(l, w, n)
      BY <1>1, EndRowsStep
    <2>2. \A x : OnDay(l, w, day, n + 1, x) = OnDay(l, w, day, n, x)
      BY <2>1 DEF OnDay
    <2>3. DaysOf(l, w, day, n + 1) = DaysOf(l, w, day, n)
      BY <2>1 DEF DaysOf
    <2>4. \A x : DayCell(l, w, day, n + 1, x) = DayCell(l, w, day, n, x)
      BY <2>2 DEF DayCell
    <2> QED BY <2>3, <2>4 DEF Daily
  <1>2. ASSUME Ends(r), r.wallet = w
        PROVE  new = IF d \in window THEN AddTrade(old, d, r.payout - r.stake) ELSE old
    <2>1. /\ EndRows(l, w, n + 1) = E \cup {n + 1} /\ n + 1 \notin E /\ n + 1 \in 1..Len(l)
          /\ IsFiniteSet(E) /\ E \subseteq 1..Len(l)
      <3>1. EndRows(l, w, n + 1) = E \cup {n + 1} /\ n + 1 \notin E /\ n + 1 \in 1..Len(l)
        BY <1>2, EndRowsStep
      <3>2. IsFiniteSet(E) /\ E \subseteq 1..Len(l)
        BY EndRowsFacts
      <3> QED BY <3>1, <3>2
    <2>2. /\ DaysOf(l, w, day, n + 1) = DaysOf(l, w, day, n) \cup {d}
          /\ \A x : x # d => OnDay(l, w, day, n + 1, x) = OnDay(l, w, day, n, x)
          /\ OnDay(l, w, day, n + 1, d) = OnDay(l, w, day, n, d) \cup {n + 1}
          /\ n + 1 \notin OnDay(l, w, day, n, d)
          /\ d \notin DaysOf(l, w, day, n) => OnDay(l, w, day, n, d) = {}
      BY <2>1 DEF DaysOf, OnDay
    <2>3. \A x : x # d => DayCell(l, w, day, n + 1, x) = DayCell(l, w, day, n, x)
      BY <2>2 DEF DayCell
    <2>4. /\ IsFiniteSet(OnDay(l, w, day, n, d))
          /\ \A k \in OnDay(l, w, day, n, d) \cup {n + 1} : Gain(l)[k] \in Int
      <3>1. OnDay(l, w, day, n, d) \subseteq E
        BY DEF OnDay
      <3> QED BY <2>1, <3>1, FS_Subset, EndRowsFacts
    <2>5. /\ SumFunctionOnSet(Gain(l), OnDay(l, w, day, n + 1, d))
               = SumFunctionOnSet(Gain(l), OnDay(l, w, day, n, d)) + (r.payout - r.stake)
          /\ Cardinality(OnDay(l, w, day, n + 1, d)) = Cardinality(OnDay(l, w, day, n, d)) + 1
      <3> DEFINE O == OnDay(l, w, day, n, d)
                 y == n + 1
                 g == Gain(l)
      <3>1. IsFiniteSet(O) /\ y \notin O /\ \A k \in O \cup {y} : g[k] \in Int
        BY <2>2, <2>4
      <3>2. g[y] = r.payout - r.stake
        BY <2>1, EndRowsFacts
      <3> HIDE DEF O, y, g
      <3>3. SumFunctionOnSet(g, O \cup {y}) = SumFunctionOnSet(g, O) + g[y]
        BY ONLY <3>1, SumWith
      <3>4. Cardinality(O \cup {y}) = Cardinality(O) + 1
        BY ONLY <3>1, FS_AddElement
      <3> QED BY <2>2, <3>2, <3>3, <3>4 DEF O, y, g
    <2>6. \A x \in D : old[x] = DayCell(l, w, day, n, x)
      BY DEF Daily
    <2>7. DOMAIN old = D
      BY DEF Daily
    <2>8. new = [x \in (DaysOf(l, w, day, n) \cup {d}) \cap window |-> DayCell(l, w, day, n + 1, x)]
      BY <2>2 DEF Daily
    <2> DEFINE cell == DayCell(l, w, day, n + 1, d)
               was == IF d \in DOMAIN old THEN old[d] ELSE [pnl |-> 0, n_trades |-> 0]
    <2>9. CASE d \notin window
      <3>1. (DaysOf(l, w, day, n) \cup {d}) \cap window = D /\ \A x \in D : x # d
        BY <2>9
      <3>2. old = [x \in D |-> DayCell(l, w, day, n, x)]
        BY DEF Daily
      <3> HIDE DEF D, d, new, old
      <3>3. new = old
        BY <2>3, <2>8, <3>1, <3>2
      <3> QED BY <2>9, <3>3
    <2>10. CASE d \in window
      <3>1. (DaysOf(l, w, day, n) \cup {d}) \cap window = D \cup {d}
        BY <2>10
      <3>2. was.pnl = SumFunctionOnSet(Gain(l), OnDay(l, w, day, n, d))
            /\ was.n_trades = Cardinality(OnDay(l, w, day, n, d))
        <4>1. CASE d \in D
          BY <2>6, <2>7, <4>1 DEF DayCell
        <4>2. CASE d \notin D
          <5>1. OnDay(l, w, day, n, d) = {}
            BY <2>2, <2>10, <4>2
          <5>2. was = [pnl |-> 0, n_trades |-> 0]
            BY <2>7, <4>2
          <5> HIDE DEF was
          <5> QED BY <5>1, <5>2, SumEmpty, FS_EmptySet
        <4> QED BY <4>1, <4>2
      <3>3. AddTrade(old, d, r.payout - r.stake)
              = Assigned(old, d, [pnl |-> was.pnl + (r.payout - r.stake), n_trades |-> was.n_trades + 1])
        BY DEF AddTrade
      <3>4. cell = [pnl |-> was.pnl + (r.payout - r.stake), n_trades |-> was.n_trades + 1]
        <4> HIDE DEF was, r, d
        <4> QED BY <2>5, <3>2 DEF DayCell
      <3> HIDE DEF cell, was, D, d, r, old, new
      <3>5. new = [x \in D \cup {d} |-> IF x = d THEN cell ELSE old[x]]
        BY <2>3, <2>6, <2>8, <3>1 DEF cell
      <3>6. Assigned(old, d, cell) = new
        BY <2>7, <3>5 DEF Assigned
      <3> QED BY <2>10, <3>3, <3>4, <3>6
    <2> QED BY <2>9, <2>10
  <1> QED BY <1>1, <1>2

LEMMA PerfStep ==
    ASSUME NEW l, Written(l), NEW w, NEW window, NEW day, NEW n \in 0..Len(l), n < Len(l),
           NEW p, PerfIs(p, l, w, window, day, n)
    PROVE  PerfIs(Book(l, w, window, day, n + 1, p), l, w, window, day, n + 1)
  <1> DEFINE r == l[n + 1]
             d == day[n + 1]
             q == Book(l, w, window, day, n + 1, p)
             H == HeldAt(l, w, n)
  <1>0. n + 1 \in 1..Len(l) /\ r \in Row /\ (Ends(r) <=> r.kind # "OPEN") /\ Len(l) \in Nat
    <2>1. n + 1 \in 1..Len(l)
      BY EndRowsStep
    <2> QED BY <2>1, RowFacts
  <1>1. StateAt(l, w, n + 1).balance = StateAt(l, w, n).balance + Change(r, w)
    BY PrefixStep
  <1>2. /\ r.wallet # w => HeldAt(l, w, n + 1) = H
        /\ r.wallet = w /\ r.kind = "OPEN" => r.trade = n + 1 /\ HeldAt(l, w, n + 1) = H \cup {n + 1}
        /\ r.wallet = w /\ r.kind # "OPEN"
              => r.trade \in H /\ l[r.trade].stake = r.stake /\ HeldAt(l, w, n + 1) = H \ {r.trade}
    <2>1. HeldMoves(l, w, n, r)
      BY HeldStep
    <2> HIDE DEF r
    <2> QED BY <2>1 DEF H, HeldMoves
  <1>3. /\ ~(Ends(r) /\ r.wallet = w) => Daily(l, w, window, day, n + 1) = Daily(l, w, window, day, n)
        /\ Ends(r) /\ r.wallet = w
              => Daily(l, w, window, day, n + 1)
                   = IF d \in window THEN AddTrade(Daily(l, w, window, day, n), d, r.payout - r.stake)
                     ELSE Daily(l, w, window, day, n)
    BY DailyStep
  <1>4. /\ p = [balance |-> p.balance, stakes |-> p.stakes, sod |-> p.sod, daily |-> p.daily]
        /\ p.balance = StateAt(l, w, n).balance /\ p.balance \in Int
        /\ p.stakes = [t \in H |-> l[t].stake] /\ p.daily = Daily(l, w, window, day, n)
    BY PrefixState DEF PerfIs
  <1>5. r.stake \in Nat /\ r.payout \in Nat /\ l[n + 1] = r
    BY <1>0, RowFields
  <1> HIDE DEF r, d, H
  <1>6. CASE r.wallet # w
    <2>1. q = p
      BY <1>5, <1>6 DEF Book
    <2>2. Change(r, w) = 0
      BY <1>6 DEF Change
    <2>3. ~(Ends(r) /\ r.wallet = w)
      BY <1>6
    <2>4. p.stakes = [t \in HeldAt(l, w, n + 1) |-> l[t].stake]
      BY <1>2, <1>4, <1>6 DEF H
    <2>5. StateAt(l, w, n + 1).balance = p.balance
      BY <1>1, <1>4, <2>2
    <2>6. PerfIs(p, l, w, window, day, n + 1)
      BY <1>3, <1>4, <2>3, <2>4, <2>5 DEF PerfIs
    <2> QED BY <2>1, <2>6
  <1>7. CASE r.wallet = w /\ r.kind = "OPEN"
    <2>1. q = [p EXCEPT !.balance = @ - r.stake, !.stakes = Assigned(@, r.trade, r.stake)]
      BY <1>5, <1>7 DEF Book, Booked
    <2>2. q = [balance |-> p.balance - r.stake, stakes |-> Assigned(p.stakes, r.trade, r.stake),
               sod |-> p.sod, daily |-> p.daily]
      <3> HIDE DEF q
      <3> QED BY ONLY <1>4, <2>1
    <2>3. Change(r, w) = 0 - r.stake
      BY <1>7 DEF Change
    <2>4. Assigned(p.stakes, r.trade, r.stake) = [t \in HeldAt(l, w, n + 1) |-> l[t].stake]
      <3>1. HeldAt(l, w, n + 1) = H \cup {r.trade} /\ r.trade = n + 1
        BY <1>2, <1>7
      <3>2. DOMAIN p.stakes = H /\ \A t \in H : p.stakes[t] = l[t].stake
        BY <1>4
      <3>3. l[r.trade].stake = r.stake
        BY <1>5, <3>1
      <3> QED BY ONLY <3>1, <3>2, <3>3 DEF Assigned
    <2>5. ~(Ends(r) /\ r.wallet = w)
      BY <1>0, <1>7
    <2>6. StateAt(l, w, n + 1).balance = p.balance - r.stake
      BY <1>1, <1>4, <1>5, <2>3
    <2> HIDE DEF q
    <2>7. PerfIs(q, l, w, window, day, n + 1)
      BY <1>3, <1>4, <2>2, <2>4, <2>5, <2>6 DEF PerfIs
    <2> QED BY <2>7 DEF q
  <1>8. CASE r.wallet = w /\ r.kind # "OPEN"
    <2> DEFINE sod == IF d \in DOMAIN p.sod THEN p.sod ELSE Assigned(p.sod, d, p.balance)
               stake == IF r.trade \in DOMAIN p.stakes THEN p.stakes[r.trade] ELSE 0
               daily == IF d \in window THEN AddTrade(p.daily, d, r.payout - stake) ELSE p.daily
               stakes == Restrict(p.stakes, DOMAIN p.stakes \ {r.trade})
    <2>1. q = [balance |-> p.balance + r.payout, stakes |-> stakes, sod |-> sod, daily |-> daily]
      BY <1>5, <1>8 DEF Book, Booked, d
    <2>2. DOMAIN p.stakes = H /\ r.trade \in H /\ p.stakes[r.trade] = r.stake
          /\ \A t \in H : p.stakes[t] = l[t].stake
      BY <1>2, <1>4, <1>8
    <2>3. stake = r.stake
      BY <2>2
    <2>4. stakes = [t \in HeldAt(l, w, n + 1) |-> l[t].stake]
      BY <1>2, <1>8, <2>2 DEF Restrict
    <2>5. daily = Daily(l, w, window, day, n + 1)
      BY <1>0, <1>3, <1>4, <1>8, <2>3
    <2>6. StateAt(l, w, n + 1).balance = p.balance + r.payout
      BY <1>1, <1>4, <1>8 DEF Change
    <2> HIDE DEF q, sod, stake, daily, stakes
    <2>7. PerfIs(q, l, w, window, day, n + 1)
      BY <2>1, <2>4, <2>5, <2>6 DEF PerfIs
    <2> QED BY <2>7 DEF q
  <1> QED BY <1>6, <1>7, <1>8

LEMMA PerfStart ==
    ASSUME NEW l, Written(l), NEW w, NEW window, NEW day
    PROVE  PerfIs(NoPerf, l, w, window, day, 0)
  <1>1. /\ NoPerf.balance = StartingBalance /\ NoPerf.stakes = <<>> /\ NoPerf.sod = <<>>
        /\ NoPerf.daily = <<>>
        /\ NoPerf = [balance |-> NoPerf.balance, stakes |-> NoPerf.stakes,
                     sod |-> NoPerf.sod, daily |-> NoPerf.daily]
    BY DEF NoPerf
  <1>2. HeldAt(l, w, 0) = {} /\ EndRows(l, w, 0) = {}
    BY DEF HeldAt, EndRows
  <1>3. [t \in HeldAt(l, w, 0) |-> l[t].stake] = <<>>
    BY <1>2
  <1>4. Daily(l, w, window, day, 0) = <<>>
    <2>1. DaysOf(l, w, day, 0) \cap window = {}
      BY <1>2 DEF DaysOf
    <2> QED BY <2>1 DEF Daily
  <1>5. StateAt(l, w, 0).balance = StartingBalance
    BY PrefixState
  <1> QED BY <1>1, <1>3, <1>4, <1>5 DEF PerfIs

\* Every replay of a wallet's rows finds its days like this, and two replays
\* with different windows agree on the first balance of a day.
LEMMA RunIs ==
    ASSUME NEW l, Written(l), NEW w, NEW window, NEW day, NEW p, Books(p, l, w, window, day)
    PROVE  \A n \in 0..Len(l) : PerfIs(p[n], l, w, window, day, n)
  <1> DEFINE F == {n \in 0..Len(l) : PerfIs(p[n], l, w, window, day, n)}
  <1>0. Len(l) \in Nat
    BY DEF Written
  <1>1. 0 \in F
    BY <1>0, PerfStart DEF Books
  <1>2. ASSUME NEW n \in 0..Len(l), n < Len(l), n \in F
        PROVE  n + 1 \in F
    <2>1. n + 1 \in 1..Len(l) /\ n + 1 \in 0..Len(l) /\ (n + 1) - 1 = n
      BY <1>0, <1>2
    <2>2. p[n + 1] = Book(l, w, window, day, n + 1, p[n])
      BY <2>1 DEF Books
    <2>3. PerfIs(p[n], l, w, window, day, n)
      BY <1>2
    <2>4. PerfIs(Book(l, w, window, day, n + 1, p[n]), l, w, window, day, n + 1)
      BY <1>2, <2>3, PerfStep
    <2> QED BY <2>1, <2>2, <2>4
  <1> HIDE DEF F
  <1>3. \A n \in 0..Len(l) : n < Len(l) /\ n \in F => n + 1 \in F
    BY <1>2
  <1>4. \A n \in 0..Len(l) : n \in F
    BY ONLY <1>0, <1>1, <1>3, CountUp
  <1> QED BY <1>4 DEF F

LEMMA SameSod ==
    ASSUME NEW l, Written(l), NEW w, NEW day, NEW window, NEW other, NEW p, NEW q,
           Books(p, l, w, window, day), Books(q, l, w, other, day)
    PROVE  \A n \in 0..Len(l) : p[n].sod = q[n].sod
  <1> DEFINE F == {n \in 0..Len(l) : p[n].sod = q[n].sod}
  <1>0. Len(l) \in Nat
    BY DEF Written
  <1>1. 0 \in F
    BY <1>0 DEF Books
  <1>2. ASSUME NEW n \in 0..Len(l), n < Len(l), n \in F
        PROVE  n + 1 \in F
    <2> DEFINE r == l[n + 1]
    <2>1. n + 1 \in 1..Len(l) /\ n + 1 \in 0..Len(l) /\ (n + 1) - 1 = n
      BY <1>0, <1>2
    <2>2. p[n + 1] = Book(l, w, window, day, n + 1, p[n]) /\ q[n + 1] = Book(l, w, other, day, n + 1, q[n])
      BY <2>1 DEF Books
    <2>3. /\ p[n].sod = q[n].sod /\ p[n].balance = q[n].balance
          /\ p[n] = [balance |-> p[n].balance, stakes |-> p[n].stakes, sod |-> p[n].sod, daily |-> p[n].daily]
          /\ q[n] = [balance |-> q[n].balance, stakes |-> q[n].stakes, sod |-> q[n].sod, daily |-> q[n].daily]
      <3>1. p[n].sod = q[n].sod
        BY <1>2
      <3>2. PerfIs(p[n], l, w, window, day, n)
        BY RunIs
      <3>3. PerfIs(q[n], l, w, other, day, n)
        BY RunIs
      <3> QED BY <3>1, <3>2, <3>3 DEF PerfIs
    <2>4. ASSUME NEW x, NEW v, x = [balance |-> x.balance, stakes |-> x.stakes, sod |-> x.sod, daily |-> x.daily]
          PROVE  Book(l, w, v, day, n + 1, x).sod
                   = IF r.wallet = w /\ r.kind # "OPEN" /\ day[n + 1] \notin DOMAIN x.sod
                     THEN Assigned(x.sod, day[n + 1], x.balance) ELSE x.sod
      <3>1. CASE r.wallet # w
        BY <3>1 DEF Book
      <3>2. CASE r.wallet = w /\ r.kind = "OPEN"
        <4>1. Book(l, w, v, day, n + 1, x)
                = [x EXCEPT !.balance = @ - r.stake, !.stakes = Assigned(@, r.trade, r.stake)]
          BY <3>2 DEF Book, Booked
        <4> QED BY <2>4, <3>2, <4>1
      <3>3. CASE r.wallet = w /\ r.kind # "OPEN"
        BY <3>3 DEF Book, Booked
      <3> QED BY <3>1, <3>2, <3>3
    <2>5. p[n + 1].sod = q[n + 1].sod
      BY <2>2, <2>3, <2>4
    <2> QED BY <2>1, <2>5
  <1> HIDE DEF F
  <1>3. \A n \in 0..Len(l) : n < Len(l) /\ n \in F => n + 1 \in F
    BY <1>2
  <1>4. \A n \in 0..Len(l) : n \in F
    BY ONLY <1>0, <1>1, <1>3, CountUp
  <1> QED BY <1>4 DEF F

\* What the report has of a wallet.
Reported(l, w, window, day, sod) ==
    [balance |-> read_state(l, w).balance,
     daily   |-> [d \in DaysOf(l, w, day, Len(l)) \cap window |->
                     [sod      |-> sod[d],
                      pnl      |-> SumFunctionOnSet(Gain(l), OnDay(l, w, day, Len(l), d)),
                      n_trades |-> Cardinality(OnDay(l, w, day, Len(l), d))]]]

LEMMA ReplayedIsReported ==
    ASSUME NEW l, Written(l), NEW w, NEW day
    PROVE  \E sod : \A window : Replayed(l, w, window, day) = Reported(l, w, window, day, sod)
  <1>0. l \in Seq(Row) /\ Len(l) \in Nat /\ Len(l) \in 0..Len(l)
    BY DEF Written
  <1>1. PICK q : Books(q, l, w, {}, day)
    BY <1>0, ReplayedRows
  <1> DEFINE sod == q[Len(l)].sod
  <1>2. ASSUME NEW window
        PROVE  Replayed(l, w, window, day) = Reported(l, w, window, day, sod)
    <2>1. PICK p : Books(p, l, w, window, day) /\ Replayed(l, w, window, day) = Perf(p[Len(l)])
      BY <1>0, ReplayedRows
    <2> DEFINE x == p[Len(l)]
    <2>2. PerfIs(x, l, w, window, day, Len(l)) /\ x.sod = sod
      BY <1>0, <1>1, <2>1, RunIs, SameSod
    <2>3. x.balance = read_state(l, w).balance /\ x.daily = Daily(l, w, window, day, Len(l))
      BY <2>2, PrefixState DEF PerfIs
    <2> DEFINE D == DaysOf(l, w, day, Len(l)) \cap window
    <2>4. /\ DOMAIN x.daily = D
          /\ \A d \in D : /\ x.daily[d].pnl = SumFunctionOnSet(Gain(l), OnDay(l, w, day, Len(l), d))
                          /\ x.daily[d].n_trades = Cardinality(OnDay(l, w, day, Len(l), d))
      BY <2>3 DEF Daily, DayCell
    <2>5. Replayed(l, w, window, day) = Perf(x)
      BY <2>1
    <2> HIDE DEF x, sod
    <2> QED BY <2>2, <2>3, <2>4, <2>5 DEF Perf, Reported
  <1> QED BY <1>2

-----------------------------------------------------------------------------
(* The report against the other readers.                                   *)

\* The day each row is reported under.
DayOf(l, known) == [k \in DOMAIN l |-> realization_day(l, k, known)]

LEMMA ReportIs ==
    ASSUME NEW l, Written(l), NEW w, NEW known
    PROVE  \E sod : \A window : _replay_profile(l, w, window, known)
                                    = Reported(l, w, window, DayOf(l, known), sod)
  <1>1. \A window : _replay_profile(l, w, window, known) = Replayed(l, w, window, DayOf(l, known))
    BY Zenon DEF _replay_profile, DayOf
  <1>2. PICK sod : \A window : Replayed(l, w, window, DayOf(l, known))
                                   = Reported(l, w, window, DayOf(l, known), sod)
    BY ReplayedIsReported
  <1> QED BY <1>1, <1>2

\* The viewer's trade of a row.
Trade(l) == [k \in 1..Len(l) |-> [row |-> k, pnl |-> Gain(l)[k]]]

\* The viewer joins a row that ends a trade with the one row that opened it.
LEMMA TradesAre ==
    ASSUME NEW l, Written(l), NEW w, NEW d, NEW known
    PROVE  realized_trades_from_rows(l, w, d, known)
             = {Trade(l)[k] : k \in OnDay(l, w, DayOf(l, known), Len(l), d)}
  <1> DEFINE S == OnDay(l, w, DayOf(l, known), Len(l), d)
             opens(k) == {n \in DOMAIN l : /\ l[n].kind = "OPEN" /\ l[n].wallet = w
                                           /\ l[n].trade = l[k].trade}
             Shown == {n \in DOMAIN l : /\ Ends(l[n]) /\ l[n].wallet = w /\ opens(n) # {}
                                        /\ realization_day(l, n, known) = d}
             Of(k) == [row |-> k, pnl |-> l[k].payout - l[CHOOSE n \in opens(k) : TRUE].stake]
  <1>0. DOMAIN l = 1..Len(l) /\ \A k \in 1..Len(l) : DayOf(l, known)[k] = realization_day(l, k, known)
    BY DEF Written, DayOf
  <1>1. ASSUME NEW k \in DOMAIN l, Ends(l[k]), l[k].wallet = w
        PROVE  opens(k) = {l[k].trade} /\ l[l[k].trade].stake = l[k].stake
    <2>1. /\ l[k].trade \in DOMAIN l /\ l[l[k].trade].kind = "OPEN" /\ l[l[k].trade].wallet = w
          /\ l[l[k].trade].stake = l[k].stake
      BY <1>0, <1>1, RowFacts
    <2>2. \A n \in DOMAIN l : l[n].kind = "OPEN" => l[n].trade = n
      BY <1>0, RowFacts
    <2> QED BY <2>1, <2>2
  <1>2. Shown = S
    <2>1. \A k \in DOMAIN l : Ends(l[k]) /\ l[k].wallet = w => opens(k) # {}
      BY <1>1
    <2> HIDE DEF opens
    <2> QED BY <1>0, <2>1 DEF OnDay, EndRows
  <1>3. \A k \in Shown : Of(k) = Trade(l)[k]
    <2> SUFFICES ASSUME NEW k \in Shown  PROVE Of(k) = Trade(l)[k]
      OBVIOUS
    <2>1. k \in DOMAIN l /\ opens(k) = {l[k].trade} /\ l[l[k].trade].stake = l[k].stake
      BY <1>1
    <2>2. Gain(l)[k] = l[k].payout - l[k].stake
      BY <1>0, <2>1, EndRowsFacts
    <2>3. (CHOOSE n \in opens(k) : TRUE) = l[k].trade
      BY <2>1
    <2> HIDE DEF opens
    <2> QED BY <1>0, <2>1, <2>2, <2>3 DEF Trade
  <1>4. realized_trades_from_rows(l, w, d, known) = {Of(k) : k \in Shown}
    BY Zenon DEF realized_trades_from_rows
  <1> HIDE DEF Of, Shown, S
  <1>5. {Of(k) : k \in Shown} = {Trade(l)[k] : k \in Shown}
    BY <1>3
  <1>6. realized_trades_from_rows(l, w, d, known) = {Trade(l)[k] : k \in S}
    BY <1>2, <1>4, <1>5
  <1> QED BY <1>6 DEF S

\* A set of rows as the viewer shows them has their number and their gain.
LEMMA ShownOf ==
    ASSUME NEW S, IsFiniteSet(S), NEW g, \A k \in S : g[k] \in Int,
           NEW f, \A k \in S : f[k].row = k /\ f[k].pnl = g[k],
           NEW T, T = {f[k] : k \in S}
    PROVE  /\ Cardinality(T) = Cardinality(S)
           /\ SumFunction([t \in T |-> t.pnl]) = SumFunctionOnSet(g, S)
  <1> DEFINE v == [t \in T |-> t.pnl]
  <1>1. \A x, y \in S : f[x] = f[y] => x = y
    OBVIOUS
  <1>2. \A x \in S : g[x] \in Int /\ v[f[x]] = g[x]
    OBVIOUS
  <1>3. SumFunction(v) = SumFunctionOnSet(v, T)
    BY DEF SumFunction
  <1> HIDE DEF v
  <1>4. Cardinality(T) = Cardinality(S) /\ SumFunctionOnSet(v, T) = SumFunctionOnSet(g, S)
    <2>1. \A y : y \in T <=> \E k \in S : y = f[k]
      OBVIOUS
    <2> QED BY ONLY <1>1, <1>2, <2>1, SumOfImage, IsFiniteSet(S)
  <1> QED BY <1>3, <1>4 DEF v

LEMMA TradesAgree ==
    ASSUME NEW l, Written(l), NEW w, NEW d, NEW known, NEW trades,
           trades = realized_trades_from_rows(l, w, d, known),
           NEW S, S = OnDay(l, w, DayOf(l, known), Len(l), d)
    PROVE  /\ Cardinality(trades) = Cardinality(S)
           /\ SumFunction([t \in trades |-> t.pnl]) = SumFunctionOnSet(Gain(l), S)
           /\ S = {} => trades = {}
  <1>0. trades = {Trade(l)[k] : k \in S}
    BY TradesAre
  <1>1. S \subseteq EndRows(l, w, Len(l)) /\ Len(l) \in Nat /\ Len(l) \in 0..Len(l)
    BY DEF OnDay, Written
  <1>2. IsFiniteSet(S) /\ S \subseteq 1..Len(l)
    BY <1>1, FS_Subset, EndRowsFacts
  <1>3. \A k \in S : Trade(l)[k].row = k /\ Trade(l)[k].pnl = Gain(l)[k]
    BY <1>2 DEF Trade
  <1>4. \A k \in S : Gain(l)[k] \in Int
    BY <1>2, EndRowsFacts
  <1>5. S = {} => trades = {}
    BY <1>0
  <1> QED BY <1>0, <1>2, <1>3, <1>4, <1>5, ShownOf

\* The days of a log are days of the report.
Dated(l, known) == \A k \in 1..Len(l) : DayOf(l, known)[k] \in Days

IsReport(perf, l, w, known) ==
    LET day == DayOf(l, known)
    IN  /\ perf.balance = read_state(l, w).balance
        /\ DOMAIN perf.daily = DaysOf(l, w, day, Len(l)) /\ DOMAIN perf.daily \subseteq Days
        /\ \A d \in DOMAIN perf.daily :
              /\ perf.daily[d].pnl = SumFunctionOnSet(Gain(l), OnDay(l, w, day, Len(l), d))
              /\ perf.daily[d].n_trades = Cardinality(OnDay(l, w, day, Len(l), d))
              /\ _replay_profile(l, w, {d}, known).daily = Restrict(perf.daily, {d})

LEMMA ReportOfWallet ==
    ASSUME NEW l, Written(l), NEW w, NEW known, Dated(l, known),
           NEW perf, perf = _replay_profile(l, w, Days, known)
    PROVE  IsReport(perf, l, w, known)
  <1> DEFINE day == DayOf(l, known)
  <1>1. PICK sod : \A window : _replay_profile(l, w, window, known)
                                   = Reported(l, w, window, day, sod)
    BY ReportIs
  <1> DEFINE D == DaysOf(l, w, day, Len(l))
             Cell(d) == [sod      |-> sod[d],
                         pnl      |-> SumFunctionOnSet(Gain(l), OnDay(l, w, day, Len(l), d)),
                         n_trades |-> Cardinality(OnDay(l, w, day, Len(l), d))]
  <1>2. D \subseteq Days
    <2>1. Len(l) \in 0..Len(l)
      BY DEF Written
    <2>2. EndRows(l, w, Len(l)) \subseteq 1..Len(l)
      BY <2>1, EndRowsFacts
    <2> QED BY <2>2 DEF DaysOf, Dated
  <1>3. perf = [balance |-> read_state(l, w).balance, daily |-> [d \in D |-> Cell(d)]]
    <2>1. D \cap Days = D
      BY <1>2
    <2>2. perf = Reported(l, w, Days, day, sod)
      BY <1>1
    <2> QED BY <2>1, <2>2 DEF Reported
  <1>4. \A d \in D : _replay_profile(l, w, {d}, known).daily = [x \in {d} |-> Cell(x)]
    <2> SUFFICES ASSUME NEW d \in D
                 PROVE  _replay_profile(l, w, {d}, known).daily = [x \in {d} |-> Cell(x)]
      OBVIOUS
    <2>1. D \cap {d} = {d}
      OBVIOUS
    <2>2. _replay_profile(l, w, {d}, known) = Reported(l, w, {d}, day, sod)
      BY <1>1
    <2> HIDE DEF D
    <2>3. Reported(l, w, {d}, day, sod).daily = [x \in D \cap {d} |-> Cell(x)]
      BY DEF Reported, D
    <2> QED BY <2>1, <2>2, <2>3
  <1> HIDE DEF D
  <1>5. perf.balance = read_state(l, w).balance /\ perf.daily = [d \in D |-> Cell(d)]
    <2> HIDE DEF Cell
    <2> QED BY <1>3
  <1>6. \A d \in D : [x \in {d} |-> Cell(x)] = Restrict(perf.daily, {d})
    <2> HIDE DEF Cell
    <2> QED BY <1>5 DEF Restrict
  <1>7. DOMAIN perf.daily = D
    BY <1>5
  <1>8. \A d \in D : /\ perf.daily[d].pnl = SumFunctionOnSet(Gain(l), OnDay(l, w, day, Len(l), d))
                     /\ perf.daily[d].n_trades = Cardinality(OnDay(l, w, day, Len(l), d))
    BY <1>5
  <1>9. \A d \in D : _replay_profile(l, w, {d}, known).daily = Restrict(perf.daily, {d})
    <2> HIDE DEF Cell
    <2> QED BY <1>4, <1>6
  <1> HIDE DEF day
  <1> QED BY <1>2, <1>5, <1>7, <1>8, <1>9 DEF D, day, IsReport

\* A wallet's days, the viewer's trades of them and the windows of one day.
LEMMA WalletAgrees ==
    ASSUME NEW l, Written(l), NEW w, NEW known, Dated(l, known),
           NEW perf, perf = _replay_profile(l, w, Days, known), NEW d
    PROVE  LET trades == realized_trades_from_rows(l, w, d, known)
           IN  IF d \in DOMAIN perf.daily
               THEN /\ perf.daily[d].n_trades = Cardinality(trades)
                    /\ perf.daily[d].pnl = SumFunction([t \in trades |-> t.pnl])
                    /\ _replay_profile(l, w, {d}, known).daily = Restrict(perf.daily, {d})
               ELSE trades = {}
  <1> DEFINE trades == realized_trades_from_rows(l, w, d, known)
             S == OnDay(l, w, DayOf(l, known), Len(l), d)
  <1>1. /\ Cardinality(trades) = Cardinality(S)
        /\ SumFunction([t \in trades |-> t.pnl]) = SumFunctionOnSet(Gain(l), S)
        /\ S = {} => trades = {}
    BY TradesAgree
  <1>2. /\ DOMAIN perf.daily = DaysOf(l, w, DayOf(l, known), Len(l))
        /\ d \in DOMAIN perf.daily =>
              /\ perf.daily[d].pnl = SumFunctionOnSet(Gain(l), S)
              /\ perf.daily[d].n_trades = Cardinality(S)
              /\ _replay_profile(l, w, {d}, known).daily = Restrict(perf.daily, {d})
    <2>1. IsReport(perf, l, w, known)
      BY ReportOfWallet
    <2> QED BY <2>1 DEF IsReport
  <1>3. d \notin DaysOf(l, w, DayOf(l, known), Len(l)) => S = {}
    BY DEF DaysOf, OnDay
  <1> HIDE DEF trades, S
  <1>4. IF d \in DOMAIN perf.daily
        THEN /\ perf.daily[d].n_trades = Cardinality(trades)
             /\ perf.daily[d].pnl = SumFunction([t \in trades |-> t.pnl])
             /\ _replay_profile(l, w, {d}, known).daily = Restrict(perf.daily, {d})
        ELSE trades = {}
    BY <1>1, <1>2, <1>3
  <1> QED BY <1>4 DEF trades

\* The row for several wallets: a day has what its wallets earned on it.
Shared(perf, d) == {w \in DOMAIN perf : d \in DOMAIN perf[w].daily}

IsRollup(all, perf) ==
    /\ DOMAIN all = UNION {DOMAIN perf[w].daily : w \in DOMAIN perf}
    /\ \A d \in DOMAIN all : all[d].pnl
           = SumFunctionOnSet([w \in Shared(perf, d) |-> perf[w].daily[d].pnl], Shared(perf, d))

LEMMA RollupIs ==
    ASSUME NEW perf, NEW all, all = _rollup(perf).daily
    PROVE  IsRollup(all, perf)
  <1> DEFINE Of(d) == {w \in DOMAIN perf : d \in DOMAIN perf[w].daily}
             Sod(d) == SumFunction([w \in Of(d) |-> perf[w].daily[d].sod])
             Pnl(d) == SumFunction([w \in Of(d) |-> perf[w].daily[d].pnl])
             Cell(d) ==
                [pnl      |-> Pnl(d),
                 n_trades |-> SumFunction([w \in Of(d) |-> perf[w].daily[d].n_trades]),
                 sod |-> IF Sod(d) # 0 THEN Sod(d) ELSE Cardinality(DOMAIN perf) * StartingBalance]
             D == UNION {DOMAIN perf[w].daily : w \in DOMAIN perf}
  <1>1. _rollup(perf) = [balance |-> SumFunction([w \in DOMAIN perf |-> perf[w].balance]),
                         daily   |-> [d \in D |-> Cell(d)]]
    BY Zenon DEF _rollup
  <1> HIDE DEF D
  <1>2. all = [d \in D |-> Cell(d)]
    <2> HIDE DEF Cell
    <2> QED BY <1>1
  <1> HIDE DEF Pnl, Of, Sod
  <1>3. DOMAIN all = D /\ \A d \in D : all[d].pnl = Pnl(d)
    BY <1>2
  <1>4. ASSUME NEW d
        PROVE  Pnl(d) = SumFunctionOnSet([w \in Shared(perf, d) |-> perf[w].daily[d].pnl], Shared(perf, d))
    <2>1. Of(d) = Shared(perf, d)
      BY DEF Shared, Of
    <2> QED BY <2>1 DEF SumFunction, Pnl
  <1>5. \A d \in D : all[d].pnl
                  = SumFunctionOnSet([w \in Shared(perf, d) |-> perf[w].daily[d].pnl], Shared(perf, d))
    BY <1>3, <1>4
  <1> QED BY <1>3, <1>5 DEF D, IsRollup

\* All rows that end a trade, and those of a day.
AllEndRows(l) == {k \in 1..Len(l) : Ends(l[k])}

AllOnDay(l, day, d) == {k \in AllEndRows(l) : day[k] = d}

LEMMA RollupEarns ==
    ASSUME NEW l, Written(l), NEW known, Dated(l, known),
           NEW perf, perf = [w \in {r.wallet : r \in Range(l)} |-> _replay_profile(l, w, Days, known)],
           NEW all, all = _rollup(perf).daily
    PROVE  SumFunction([d \in DOMAIN all |-> all[d].pnl])
             = SumFunction([w \in Wallets |-> read_state(l, w).realized])
  <1> DEFINE day == DayOf(l, known)
             W == DOMAIN perf
             A == AllEndRows(l)
             N == Len(l)
             g == Gain(l)
             who == [k \in 1..N |-> l[k].wallet]
             D == DOMAIN all
             u == [d \in D |-> all[d].pnl]
             v == [w \in Wallets |-> read_state(l, w).realized]
  <1>0. N \in Nat /\ N \in 0..N /\ DOMAIN l = 1..N
    BY DEF Written
  <1>1. IsFiniteSet(A) /\ A \subseteq 1..N /\ (\A k \in A : g[k] \in Int /\ l[k].wallet \in Wallets)
    <2>1. A \subseteq 1..N /\ IsFiniteSet(1..N)
      BY <1>0, FS_Interval DEF AllEndRows
    <2>2. \A k \in 1..N : l[k].wallet \in Wallets /\ g[k] \in Int
      BY RowFacts, EndRowsFacts
    <2> QED BY <2>1, <2>2, FS_Subset
  <1>2. W = {l[k].wallet : k \in 1..N} /\ W \subseteq Wallets
    <2>1. Range(l) = {l[k] : k \in 1..N}
      BY <1>0 DEF Range
    <2>2. \A k \in 1..N : l[k].wallet \in Wallets
      BY RowFacts
    <2> QED BY <2>1, <2>2
  <1>3. IsFiniteSet(W) /\ IsFiniteSet(Wallets)
    BY <1>2, FS_Subset, FiniteAssumption
  <1>4. \A w \in W : IsReport(perf[w], l, w, known)
    <2>1. \A w \in W : perf[w] = _replay_profile(l, w, Days, known)
      OBVIOUS
    <2> QED BY <2>1, ReportOfWallet
  <1>5. \A w \in W : DOMAIN perf[w].daily = DaysOf(l, w, day, N) /\ DOMAIN perf[w].daily \subseteq Days
    BY <1>4 DEF IsReport
  <1>6. \A w \in W : \A d \in DOMAIN perf[w].daily :
             perf[w].daily[d].pnl = SumFunctionOnSet(g, OnDay(l, w, day, N, d))
    <2> SUFFICES ASSUME NEW w \in W, NEW d \in DOMAIN perf[w].daily
                 PROVE  perf[w].daily[d].pnl = SumFunctionOnSet(Gain(l), OnDay(l, w, day, N, d))
      OBVIOUS
    <2> QED BY <1>4 DEF IsReport
  <1>7. /\ D = UNION {DOMAIN perf[w].daily : w \in W}
        /\ \A d \in D : all[d].pnl
               = SumFunctionOnSet([w \in Shared(perf, d) |-> perf[w].daily[d].pnl], Shared(perf, d))
    <2>1. IsRollup(all, perf)
      BY RollupIs
    <2> QED BY <2>1 DEF IsRollup
  <1>8. IsFiniteSet(D)
    <2>1. D \subseteq Days
      <3> HIDE DEF D, W
      <3> QED BY <1>5, <1>7
    <2>2. IsFiniteSet(Days)
      <3>1. Days = {1} \cup {2}
        BY DEF Days
      <3> QED BY <3>1, FS_Singleton, FS_AddElement
    <2> QED BY <2>1, <2>2, FS_Subset
  <1>9. \A k \in A : day[k] \in D /\ l[k].wallet \in Shared(perf, day[k])
    <2> SUFFICES ASSUME NEW k \in A  PROVE day[k] \in D /\ l[k].wallet \in Shared(perf, day[k])
      OBVIOUS
    <2>1. l[k].wallet \in W /\ k \in EndRows(l, l[k].wallet, N)
      BY <1>1, <1>2 DEF AllEndRows, EndRows
    <2>2. day[k] \in DOMAIN perf[l[k].wallet].daily
      BY <1>5, <2>1 DEF DaysOf
    <2> QED BY <1>7, <2>1, <2>2 DEF Shared
  <1> HIDE DEF day, W, D, u, v, g, who, A, N
  <1>10. \A d \in D : all[d].pnl = SumFunctionOnSet(g, AllOnDay(l, day, d))
    <2> SUFFICES ASSUME NEW d \in D
                 PROVE  all[d].pnl = SumFunctionOnSet(g, AllOnDay(l, day, d))
      OBVIOUS
    <2> DEFINE S == AllOnDay(l, day, d)
               T == Shared(perf, d)
               x == [w \in T |-> perf[w].daily[d].pnl]
    <2>1. IsFiniteSet(S) /\ S \subseteq A /\ (\A k \in S : g[k] \in Int)
      <3>1. S \subseteq A
        BY DEF AllOnDay, A
      <3> QED BY <1>1, <3>1, FS_Subset
    <2>2. IsFiniteSet(T) /\ T \subseteq W
      <3>1. T \subseteq W
        BY DEF Shared, W
      <3> QED BY <1>3, <3>1, FS_Subset
    <2>3. \A k \in S : who[k] = l[k].wallet /\ who[k] \in T
      <3>1. \A k \in S : k \in A /\ k \in 1..N /\ day[k] = d
        BY <1>1, <2>1 DEF AllOnDay
      <3>2. \A k \in S : l[k].wallet \in T
        BY <1>9, <3>1
      <3> QED BY <3>1, <3>2 DEF who
    <2>4. \A w \in T : x[w] = SumFunctionOnSet(g, {k \in S : who[k] = w})
      <3> SUFFICES ASSUME NEW w \in T
                   PROVE  x[w] = SumFunctionOnSet(g, {k \in S : who[k] = w})
        OBVIOUS
      <3>1. d \in DOMAIN perf[w].daily /\ w \in W /\ x[w] = perf[w].daily[d].pnl
        BY DEF Shared, W
      <3>2. x[w] = SumFunctionOnSet(g, OnDay(l, w, day, N, d))
        BY <1>6, <3>1
      <3>3. \A k \in S : who[k] = w <=> l[k].wallet = w
        BY <2>3
      <3>4. OnDay(l, w, day, N, d) = {k \in S : l[k].wallet = w}
        BY DEF OnDay, EndRows, AllOnDay, AllEndRows, N
      <3> HIDE DEF S, x
      <3>5. {k \in S : l[k].wallet = w} = {k \in S : who[k] = w}
        BY <3>3
      <3> QED BY <3>2, <3>4, <3>5
    <2>5. all[d].pnl = SumFunctionOnSet(x, T)
      BY <1>7
    <2> DEFINE part == [w \in T |-> {k \in S : who[k] = w}]
    <2> HIDE DEF S, T, x
    <2>6. /\ \A w \in T : \A k : k \in part[w] <=> k \in S /\ who[k] = w
          /\ \A w \in T : x[w] = SumFunctionOnSet(g, part[w])
      BY <2>4
    <2> HIDE DEF part
    <2>7. SumFunctionOnSet(x, T) = SumFunctionOnSet(g, S)
      BY ONLY <2>1, <2>2, <2>3, <2>6, SumByKey
    <2> QED BY <2>5, <2>7 DEF S
  <1>11. SumFunctionOnSet(u, D) = SumFunctionOnSet(g, A)
    <2>1. \A d \in D : u[d] = SumFunctionOnSet(g, {k \in A : day[k] = d})
      <3>1. \A d \in D : u[d] = all[d].pnl
        BY DEF u
      <3>2. \A d \in D : AllOnDay(l, day, d) = {k \in A : day[k] = d}
        BY DEF AllOnDay, A
      <3> QED BY <1>10, <3>1, <3>2
    <2>2. (\A k \in A : g[k] \in Int) /\ (\A k \in A : day[k] \in D)
      BY <1>1, <1>9
    <2> DEFINE part == [d \in D |-> {k \in A : day[k] = d}]
    <2>3. /\ \A d \in D : \A k : k \in part[d] <=> k \in A /\ day[k] = d
          /\ \A d \in D : u[d] = SumFunctionOnSet(g, part[d])
      BY <2>1
    <2> HIDE DEF part
    <2>4. IsFiniteSet(A)
      BY <1>1
    <2> QED BY ONLY <1>8, <2>2, <2>3, <2>4, SumByKey
  <1>12. SumFunctionOnSet(v, Wallets) = SumFunctionOnSet(g, A)
    <2>1. \A k \in A : who[k] = l[k].wallet /\ who[k] \in Wallets
      BY <1>1 DEF who
    <2>2. \A w \in Wallets : v[w] = SumFunctionOnSet(g, {k \in A : who[k] = w})
      <3> SUFFICES ASSUME NEW w \in Wallets
                   PROVE  v[w] = SumFunctionOnSet(g, {k \in A : who[k] = w})
        OBVIOUS
      <3>1. v[w] = SumFunctionOnSet(g, EndRows(l, w, N))
        BY RealizedIs DEF v, g, N
      <3>2. EndRows(l, w, N) = {k \in A : l[k].wallet = w}
        BY DEF EndRows, A, AllEndRows, N
      <3>3. {k \in A : l[k].wallet = w} = {k \in A : who[k] = w}
        BY <2>1
      <3> QED BY <3>1, <3>2, <3>3
    <2>3. \A k \in A : g[k] \in Int
      BY <1>1
    <2> DEFINE part == [w \in Wallets |-> {k \in A : who[k] = w}]
    <2>4. /\ \A w \in Wallets : \A k : k \in part[w] <=> k \in A /\ who[k] = w
          /\ \A w \in Wallets : v[w] = SumFunctionOnSet(g, part[w])
      BY <2>2
    <2> HIDE DEF part
    <2>5. IsFiniteSet(A) /\ IsFiniteSet(Wallets) /\ \A k \in A : who[k] \in Wallets
      BY <1>1, <1>3, <2>1
    <2> QED BY ONLY <2>3, <2>4, <2>5, SumByKey
  <1>13. SumFunction(u) = SumFunctionOnSet(u, D) /\ SumFunction(v) = SumFunctionOnSet(v, Wallets)
    BY DEF SumFunction, u, v
  <1>14. SumFunction(u) = SumFunction(v)
    BY <1>11, <1>12, <1>13
  <1> QED BY <1>14, Zenon DEF u, v, D

LEMMA KnownDays ==
    ASSUME log \in Seq(Row), NEW known \in Knowledge
    PROVE  Dated(log, known)
  <1> DEFINE Known(answered, n) ==
                [date |-> [e \in answered |-> 2],
                 written |-> [k \in DOMAIN log |-> IF k <= n THEN 1 ELSE 2]]
  <1>0. Knowledge = {Known(answered, n) : answered \in SUBSET Listed, n \in 0..Len(log)}
    BY DEF Knowledge
  <1> HIDE DEF Known
  <1>1. PICK answered \in SUBSET Listed, n \in 0..Len(log) : known = Known(answered, n)
    BY <1>0
  <1> USE DEF Known
  <1> SUFFICES ASSUME NEW k \in 1..Len(log)  PROVE DayOf(log, known)[k] \in Days
    BY DEF Dated
  <1>2. k \in DOMAIN log
    OBVIOUS
  <1>3. \A e \in DOMAIN known.date : known.date[e] \in Days
    BY <1>1 DEF Days
  <1>4. known.written[k] \in Days
    BY <1>1, <1>2 DEF Days
  <1>5. DayOf(log, known)[k] = realization_day(log, k, known)
    BY <1>2 DEF DayOf
  <1> QED BY <1>3, <1>4, <1>5 DEF realization_day

LEMMA ReportsOf ==
    ASSUME Written(log), NEW known \in Knowledge
    PROVE  LET perf == [w \in {r.wallet : r \in Range(log)} |-> _replay_profile(log, w, Days, known)]
               all == _rollup(perf).daily
           IN  /\ \A w \in DOMAIN perf :
                   /\ perf[w].balance = paper_profile_balance(log, w)
                   /\ \A d \in Days :
                       LET trades == realized_trades_from_rows(log, w, d, known)
                       IN  IF d \in DOMAIN perf[w].daily
                           THEN /\ perf[w].daily[d].n_trades = Cardinality(trades)
                                /\ perf[w].daily[d].pnl = SumFunction([t \in trades |-> t.pnl])
                                /\ _replay_profile(log, w, {d}, known).daily
                                       = Restrict(perf[w].daily, {d})
                           ELSE trades = {}
               /\ SumFunction([d \in DOMAIN all |-> all[d].pnl])
                       = SumFunction([w \in Wallets |-> read_state(log, w).realized])
  <1> DEFINE perf == [w \in {r.wallet : r \in Range(log)} |-> _replay_profile(log, w, Days, known)]
             all == _rollup(perf).daily
             Agrees(w, d) ==
                LET trades == realized_trades_from_rows(log, w, d, known)
                IN  IF d \in DOMAIN perf[w].daily
                    THEN /\ perf[w].daily[d].n_trades = Cardinality(trades)
                         /\ perf[w].daily[d].pnl = SumFunction([t \in trades |-> t.pnl])
                         /\ _replay_profile(log, w, {d}, known).daily = Restrict(perf[w].daily, {d})
                    ELSE trades = {}
  <1>0. Dated(log, known)
    BY KnownDays DEF Written
  <1>1. \A w \in DOMAIN perf : perf[w] = _replay_profile(log, w, Days, known)
    OBVIOUS
  <1>2. ASSUME NEW w \in DOMAIN perf
        PROVE  perf[w].balance = paper_profile_balance(log, w)
    <2>1. IsReport(perf[w], log, w, known)
      BY <1>0, <1>1, ReportOfWallet
    <2>2. read_state(log, w).balance = paper_profile_balance(log, w)
      BY ReplayIsView DEF Written
    <2> QED BY <2>1, <2>2 DEF IsReport
  <1>3. ASSUME NEW w \in DOMAIN perf, NEW d \in Days
        PROVE  Agrees(w, d)
    <2>1. perf[w] = _replay_profile(log, w, Days, known)
      BY <1>1
    <2> HIDE DEF perf
    <2> QED BY <1>0, <2>1, WalletAgrees
  <1>4. SumFunction([d \in DOMAIN all |-> all[d].pnl])
          = SumFunction([w \in Wallets |-> read_state(log, w).realized])
    BY <1>0, RollupEarns
  <1> QED BY <1>2, <1>3, <1>4

LEMMA ReportsAgreeNow ==
    ASSUME Written(log)
    PROVE  ReportsAgree
  BY ReportsOf, Zenon DEF ReportsAgree

-----------------------------------------------------------------------------
(* The table of scenarios against the settlement.                          *)

\* What rows written in order bring.
LEMMA PaidInOrder ==
    ASSUME NEW S \in SUBSET Row, IsFiniteSet(S), \A x, r \in S : x.trade = r.trade => x = r,
           NEW q, q = InOrder(S),
           NEW v, \A r \in S : v[r] = r.payout - r.stake
    PROVE  SumFunction([k \in DOMAIN q |-> q[k].payout - q[k].stake]) = SumFunctionOnSet(v, S)
  <1> DEFINE u == [k \in DOMAIN q |-> q[k].payout - q[k].stake]
             D == DOMAIN q
             T == {q[k] : k \in D}
  <1>1. /\ q \in Seq(S) /\ Len(q) = Cardinality(S) /\ Cardinality(S) \in Nat /\ Sorted(q)
        /\ D = 1..Len(q)
    BY InOrderIs
  <1>2. \A k \in D : /\ k \in Nat /\ q[k] \in S /\ q[k].trade \in Nat
                     /\ q[k].payout - q[k].stake \in Int
    BY <1>1, RowFields
  <1>3. \A k, n \in D : q[k] = q[n] => k = n
    BY <1>1, <1>2 DEF Sorted
  <1>4. IsFiniteSet(D) /\ Cardinality(D) = Len(q)
    BY <1>1, FS_Interval
  <1>5. \A k \in D : u[k] \in Int /\ v[q[k]] = u[k]
    BY <1>2
  <1>6. T \in SUBSET S
    BY <1>2
  <1>7. SumFunction(u) = SumFunctionOnSet(u, D)
    BY DEF SumFunction
  <1>8. \A y : y \in T <=> \E k \in D : y = q[k]
    OBVIOUS
  <1> HIDE DEF u, D, T
  <1>9. Cardinality(T) = Cardinality(D) /\ SumFunctionOnSet(v, T) = SumFunctionOnSet(u, D)
    <2>1. IsFiniteSet(D)
      BY <1>4
    <2> QED BY ONLY <1>3, <1>5, <1>8, <2>1, SumOfImage
  <1>10. T = S
    BY <1>1, <1>4, <1>6, <1>9, FS_Subset
  <1> QED BY <1>7, <1>9, <1>10 DEF u

\* The open trades of an event, as paper_scenarios collects them.
TradesOf(e) == UNION {{t \in read_state(log, w).open : t.leg.event = e} : w \in Wallets}

\* What settle_event pays a wallet if b wins.
SettledFor(w, e, b) ==
    SumFunction([k \in DOMAIN Settlement(w, e, b) |->
                    Settlement(w, e, b)[k].payout - Settlement(w, e, b)[k].stake])

\* What a trade earns if b wins.
Earns(t, b) == (IF Won(t.leg, b) THEN t.stake * PayoutUnit ELSE 0) - t.stake

LEMMA TradesOfWallet ==
    ASSUME log \in Seq(Row), WellFormed(log), NEW w \in Wallets, NEW e
    PROVE  {o \in TradesOf(e) : o.wallet = w} = OnEvent(w, e)
  <1>1. \A v : \A o \in OnEvent(v, e) : o.wallet = v
    BY OnEventFacts
  <1>2. TradesOf(e) = UNION {OnEvent(v, e) : v \in Wallets}
    BY Zenon DEF TradesOf, OnEvent
  <1> QED BY <1>1, <1>2

LEMMA SettlementPays ==
    ASSUME log \in Seq(Row), WellFormed(log), NEW w, NEW e, NEW b
    PROVE  /\ SettledFor(w, e, b)
                = SumFunctionOnSet([t \in OnEvent(w, e) |-> Earns(t, b)], OnEvent(w, e))
           /\ SettledFor(w, e, b) \in Int
  <1> DEFINE O == OnEvent(w, e)
             S == SettleRows(w, e, b)
             u == [t \in O |-> Earns(t, b)]
             v == [r \in S |-> r.payout - r.stake]
             f == [t \in O |-> SettleRow(t, b)]
  <1>1. /\ IsFiniteSet(O)
        /\ \A t \in O : t \in Row /\ t.trade \in DOMAIN log /\ log[t.trade] = t
    BY OnEventFacts
  <1>2. /\ IsFiniteSet(S) /\ S \in SUBSET Row /\ \A x, r \in S : x.trade = r.trade => x = r
    BY SettleRowsFacts
  <1>3. S = {f[t] : t \in O}
    BY DEF SettleRows
  <1>4. \A t \in O : u[t] = Earns(t, b) /\ f[t] = SettleRow(t, b)
    OBVIOUS
  <1>5. \A r \in S : v[r] = r.payout - r.stake
    OBVIOUS
  <1> HIDE DEF O, S, u, v, f
  <1>6. \A y : y \in S <=> \E t \in O : y = f[t]
    BY <1>3
  <1>7. IsFiniteSet(O)
    BY <1>1
  <1>8. ASSUME NEW t \in O
        PROVE  /\ f[t].trade = t.trade /\ u[t] \in Int
               /\ f[t].payout - f[t].stake = u[t]
    <2>1. t \in Row /\ t.stake \in Nat
      BY <1>1, RowFields
    <2>2. /\ SettleRow(t, b).trade = t.trade /\ SettleRow(t, b).stake = t.stake
          /\ SettleRow(t, b).payout = IF Won(t.leg, b) THEN t.stake * PayoutUnit ELSE 0
      BY <2>1, SettleRowType
    <2>3. (IF Won(t.leg, b) THEN t.stake * PayoutUnit ELSE 0) \in Nat
      BY <2>1, MoneyAssumption
    <2> QED BY <1>4, <2>1, <2>2, <2>3 DEF Earns
  <1>9. \A x, t \in O : f[x] = f[t] => x = t
    BY <1>1, <1>8
  <1>10. \A t \in O : u[t] \in Int /\ v[f[t]] = u[t]
    <2>1. \A t \in O : f[t] \in S
      BY <1>3
    <2> QED BY <1>5, <1>8, <2>1
  <1>11. SumFunctionOnSet(v, S) = SumFunctionOnSet(u, O)
    BY ONLY <1>6, <1>7, <1>9, <1>10, SumOfImage
  <1>12. SettledFor(w, e, b) = SumFunctionOnSet(v, S)
    <2> DEFINE q == Settlement(w, e, b)
    <2>1. q = InOrder(S)
      BY Zenon DEF Settlement, SettleRows, OnEvent, S
    <2>2. SettledFor(w, e, b) = SumFunction([k \in DOMAIN q |-> q[k].payout - q[k].stake])
      BY DEF SettledFor
    <2> HIDE DEF q
    <2> QED BY <1>2, <1>5, <2>1, <2>2, PaidInOrder
  <1>13. SumFunctionOnSet(u, O) \in Int
    BY <1>1, <1>10, SumType
  <1> QED BY <1>11, <1>12, <1>13 DEF u, O

\* A row of the table has what the settlement pays.
LEMMA ScenarioIsSettlement ==
    ASSUME log \in Seq(Row), WellFormed(log), NEW w \in Wallets, NEW e, NEW b
    PROVE  /\ _scenario_pnl(TradesOf(e), w, b) = SettledFor(w, e, b)
           /\ _scenario_pnl(TradesOf(e), w, b) \in Int
  <1> DEFINE Pays(t) == \/ t.leg.side = SIDE_YES /\ t.leg.bucket = b
                        \/ t.leg.side = SIDE_NO /\ t.leg.bucket # b
             O == OnEvent(w, e)
             x == [t \in O |-> (IF Pays(t) THEN t.stake * PayoutUnit ELSE 0) - t.stake]
             u == [t \in O |-> Earns(t, b)]
  <1>1. _scenario_pnl(TradesOf(e), w, b)
          = SumFunction([t \in {o \in TradesOf(e) : o.wallet = w} |->
                            (IF Pays(t) THEN t.stake * PayoutUnit ELSE 0) - t.stake])
    BY Zenon DEF _scenario_pnl
  <1>2. {o \in TradesOf(e) : o.wallet = w} = O
    BY TradesOfWallet
  <1>3. _scenario_pnl(TradesOf(e), w, b) = SumFunction(x)
    BY <1>1, <1>2
  <1>4. \A t \in O : Pays(t) <=> Won(t.leg, b)
    <2> SUFFICES ASSUME NEW t \in O  PROVE Pays(t) <=> Won(t.leg, b)
      OBVIOUS
    <2>1. t.leg.side \in {SIDE_YES, SIDE_NO}
      BY OnEventFacts, RowFields, LegsAssumption
    <2> QED BY <2>1 DEF Won, SIDE_YES, SIDE_NO
  <1>5. x = u
    <2> HIDE DEF Pays, O
    <2> QED BY <1>4 DEF Earns
  <1>6. SumFunction(u) = SumFunctionOnSet(u, O)
    BY DEF SumFunction
  <1> QED BY <1>3, <1>5, <1>6, SettlementPays

\* A smallest integer of a few.
LEMMA MinIs ==
    ASSUME NEW S, IsFiniteSet(S), S # {}, S \subseteq Int
    PROVE  Min(S) \in S /\ \A y \in S : Min(S) <= y
  <1>1. \E x \in S : \A y \in S : x <= y
    BY SmallestOf
  <1> QED BY <1>1 DEF Min

\* The orders of the buckets: each of them once.
LEMMA OrderOf ==
    ASSUME NEW ordered \in SetToSeqs(Buckets)
    PROVE  /\ ordered \in Seq(Buckets) /\ Len(ordered) \in Nat /\ DOMAIN ordered = 1..Len(ordered)
           /\ \A k, m \in 1..Len(ordered) : ordered[k] = ordered[m] => k = m
           /\ \A b \in Buckets : \E k \in 1..Len(ordered) : ordered[k] = b
  <1> DEFINE n == Cardinality(Buckets)
  <1>1. IsFiniteSet(Buckets) /\ n \in Nat
    BY FiniteAssumption, FS_CardinalityType
  <1>2. ordered \in [1..n -> Buckets] /\ \A i, j \in 1..n : i # j => ordered[i] # ordered[j]
    BY DEF SetToSeqs
  <1>3. ordered \in Seq(Buckets) /\ Len(ordered) = n /\ DOMAIN ordered = 1..n
    BY <1>1, <1>2
  <1>4. IsFiniteSet(1..n) /\ Cardinality(1..n) = n
    BY <1>1, FS_Interval
  <1>5. ordered \in Injection(1..n, Buckets)
    BY <1>2 DEF Injection, IsInjective
  <1>6. ordered \in Surjection(1..n, Buckets)
    BY <1>1, <1>4, <1>5, FS_Injection
  <1>7. \A b \in Buckets : \E k \in 1..n : ordered[k] = b
    BY <1>6 DEF Surjection
  <1> HIDE DEF n
  <1> QED BY <1>1, <1>2, <1>3, <1>7

\* The row of an end of the ladder, from its first to its last bucket.
TailRow(trades, ordered, first, last) ==
    [winners |-> Range(SubSeq(ordered, first, last)),
     pnl |-> [w \in Wallets |-> Worst(trades, w, SubSeq(ordered, first, last))]]

OneRow(trades, ordered, k) ==
    [winners |-> {ordered[k]},
     pnl |-> [w \in Wallets |-> _scenario_pnl(trades, w, ordered[k])]]

\* The rows of a ladder that is rolled up below i and above j.
TableRows(trades, ordered, i, j) ==
    (IF 1 > i - 1 THEN {} ELSE {TailRow(trades, ordered, 1, i - 1)})
      \cup (IF j + 1 > Len(ordered) THEN {} ELSE {TailRow(trades, ordered, j + 1, Len(ordered))})
      \cup {OneRow(trades, ordered, k) : k \in i..j}

LEMMA TableIs ==
    ASSUME NEW trades, NEW ordered, NEW cheap, Len(ordered) \in Nat
    PROVE  \E i \in 1..(Len(ordered) + 1) : \E j \in (i - 1)..Len(ordered) :
               paper_scenarios(trades, ordered, cheap) = TableRows(trades, ordered, i, j)
  <1> DEFINE n == Len(ordered)
             Rollable(k) == /\ ordered[k] \in cheap
                            /\ \A t \in trades : t.leg.side = SIDE_YES => t.leg.bucket # ordered[k]
             A == {k \in 1..n : ~Rollable(k)} \cup {n + 1}
             i == Min(A)
             B == {k \in i..n : ~Rollable(k)} \cup {i - 1}
             j == Max(B)
  <1>1. i \in 1..(n + 1)
    <2>1. A \subseteq 1..(n + 1) /\ A # {} /\ A \subseteq Int
      OBVIOUS
    <2>2. IsFiniteSet(A)
      <3>1. n + 1 \in Int /\ 1 \in Int
        OBVIOUS
      <3>2. IsFiniteSet(1..(n + 1))
        BY ONLY <3>1, FS_Interval
      <3> HIDE DEF A
      <3> QED BY <2>1, <3>2, FS_Subset
    <2> HIDE DEF A
    <2> QED BY <2>1, <2>2, MinIs
  <1> HIDE DEF A, i, Rollable
  <1>2. j \in (i - 1)..n
    <2>1. B \in SUBSET (0..n) /\ B # {} /\ B \subseteq (i - 1)..n
      BY <1>1
    <2> HIDE DEF B
    <2>2. j \in B /\ \A k \in B : k <= j
      BY <2>1, LastOf
    <2> QED BY <2>1, <2>2
  <1>3. paper_scenarios(trades, ordered, cheap) = TableRows(trades, ordered, i, j)
    BY Zenon DEF paper_scenarios, TableRows, TailRow, OneRow, A, i, B, j, Rollable, n
  <1> HIDE DEF n, j
  <1> QED BY <1>1, <1>2, <1>3 DEF n

\* r is the row of the buckets from a to z: for each wallet no more than any of
\* them brings, and as little as one of them.
StandsFor(r, trades, ordered, a, z) ==
    /\ r.winners = {ordered[k] : k \in a..z}
    /\ \A w \in Wallets :
          /\ \A k \in a..z : r.pnl[w] <= _scenario_pnl(trades, w, ordered[k])
          /\ \E k \in a..z : r.pnl[w] = _scenario_pnl(trades, w, ordered[k])

LEMMA TailRowIs ==
    ASSUME NEW trades, NEW ordered \in Seq(Buckets), NEW a \in 1..Len(ordered),
           NEW z \in a..Len(ordered),
           \A w \in Wallets : \A b \in Buckets : _scenario_pnl(trades, w, b) \in Int
    PROVE  StandsFor(TailRow(trades, ordered, a, z), trades, ordered, a, z)
  <1> DEFINE tail == SubSeq(ordered, a, z)
             n == z - a + 1
  <1>1. /\ n \in Nat /\ n >= 1 /\ DOMAIN tail = 1..n
        /\ \A k \in 1..n : tail[k] = ordered[a + k - 1] /\ a + k - 1 \in a..z /\ tail[k] \in Buckets
    OBVIOUS
  <1>2. \A k \in a..z : k - a + 1 \in 1..n /\ tail[k - a + 1] = ordered[k]
    OBVIOUS
  <1> HIDE DEF tail, n
  <1>3. {tail[k] : k \in 1..n} = {ordered[k] : k \in a..z}
    BY <1>1, <1>2
  <1>4. ASSUME NEW w \in Wallets
        PROVE  /\ \A k \in a..z : Worst(trades, w, tail) <= _scenario_pnl(trades, w, ordered[k])
               /\ \E k \in a..z : Worst(trades, w, tail) = _scenario_pnl(trades, w, ordered[k])
    <2> DEFINE S == {_scenario_pnl(trades, w, tail[k]) : k \in 1..n}
    <2>1. Worst(trades, w, tail) = Min(S)
      BY <1>1 DEF Worst
    <2>2. S \subseteq Int /\ S # {}
      <3>1. \A k \in 1..n : _scenario_pnl(trades, w, tail[k]) \in Int
        BY <1>1
      <3>2. 1 \in 1..n
        BY <1>1
      <3> QED BY <3>1, <3>2
    <2>3. IsFiniteSet(S)
      <3> DEFINE f == [k \in 1..n |-> _scenario_pnl(trades, w, tail[k])]
      <3>1. f \in Surjection(1..n, S)
        BY DEF Surjection
      <3>2. IsFiniteSet(1..n)
        <4>1. n \in Int /\ 1 \in Int
          BY <1>1
        <4> QED BY ONLY <4>1, FS_Interval
      <3> HIDE DEF f, S
      <3> QED BY <3>1, <3>2, FS_Surjection
    <2>4. /\ \A k \in a..z : _scenario_pnl(trades, w, ordered[k]) \in S
          /\ \A x \in S : \E k \in a..z : x = _scenario_pnl(trades, w, ordered[k])
      BY <1>1, <1>2
    <2> HIDE DEF S
    <2>5. Min(S) \in S /\ \A y \in S : Min(S) <= y
      BY <2>2, <2>3, MinIs
    <2> QED BY <2>1, <2>4, <2>5
  <1>5. TailRow(trades, ordered, a, z)
          = [winners |-> Range(tail), pnl |-> [w \in Wallets |-> Worst(trades, w, tail)]]
    BY DEF TailRow, tail
  <1>6. Range(tail) = {ordered[k] : k \in a..z}
    BY <1>1, <1>3 DEF Range
  <1> QED BY <1>4, <1>5, <1>6 DEF StandsFor

LEMMA OneRowIs ==
    ASSUME NEW trades, NEW ordered \in Seq(Buckets), NEW k \in 1..Len(ordered),
           \A w \in Wallets : \A b \in Buckets : _scenario_pnl(trades, w, b) \in Int
    PROVE  StandsFor(OneRow(trades, ordered, k), trades, ordered, k, k)
  <1>1. k..k = {k}
    OBVIOUS
  <1>2. \A w \in Wallets : _scenario_pnl(trades, w, ordered[k]) \in Int
    OBVIOUS
  <1> QED BY <1>1, <1>2 DEF OneRow, StandsFor

\* Every winner has one row, and it says the least of what its winners bring.
TableHolds(rows, trades) ==
    /\ \A b \in Buckets : Cardinality({r \in rows : b \in r.winners}) = 1
    /\ \A r \in rows, w \in Wallets :
          /\ \A b \in r.winners : r.pnl[w] <= _scenario_pnl(trades, w, b)
          /\ \E b \in r.winners : r.pnl[w] = _scenario_pnl(trades, w, b)

LEMMA TableCovers ==
    ASSUME NEW trades, NEW ordered \in SetToSeqs(Buckets), NEW cheap,
           \A w \in Wallets : \A b \in Buckets : _scenario_pnl(trades, w, b) \in Int,
           NEW rows, rows = paper_scenarios(trades, ordered, cheap)
    PROVE  TableHolds(rows, trades)
  <1> DEFINE n == Len(ordered)
  <1>1. /\ ordered \in Seq(Buckets) /\ n \in Nat
        /\ \A k, m \in 1..n : ordered[k] = ordered[m] => k = m
        /\ \A b \in Buckets : \E k \in 1..n : ordered[k] = b
    BY OrderOf
  <1>2. PICK i \in 1..(n + 1) : \E j \in (i - 1)..n : rows = TableRows(trades, ordered, i, j)
    BY <1>1, TableIs
  <1>3. PICK j \in (i - 1)..n : rows = TableRows(trades, ordered, i, j)
    BY <1>2
  <1> DEFINE low == TailRow(trades, ordered, 1, i - 1)
             high == TailRow(trades, ordered, j + 1, n)
             one(k) == OneRow(trades, ordered, k)
  <1>4. i > 1 => StandsFor(low, trades, ordered, 1, i - 1)
    BY <1>1, TailRowIs
  <1>5. j < n => StandsFor(high, trades, ordered, j + 1, n)
    <2> SUFFICES ASSUME j < n  PROVE StandsFor(high, trades, ordered, j + 1, n)
      OBVIOUS
    <2>1. j + 1 \in 1..n /\ n \in (j + 1)..n
      BY <1>1
    <2> QED BY <1>1, <2>1, TailRowIs
  <1>6. \A k \in i..j : k \in 1..n /\ StandsFor(one(k), trades, ordered, k, k)
    <2> SUFFICES ASSUME NEW k \in i..j  PROVE k \in 1..n /\ StandsFor(one(k), trades, ordered, k, k)
      OBVIOUS
    <2>1. k \in 1..n
      BY <1>1
    <2> QED BY <1>1, <2>1, OneRowIs
  <1>7. \A r : r \in rows <=>
                  \/ i > 1 /\ r = low
                  \/ j < n /\ r = high
                  \/ \E k \in i..j : r = one(k)
    <2>1. (1 > i - 1 <=> ~(i > 1)) /\ (j + 1 > n <=> ~(j < n))
      BY <1>1
    <2> HIDE DEF low, high, one
    <2>2. rows = (IF 1 > i - 1 THEN {} ELSE {low}) \cup (IF j + 1 > n THEN {} ELSE {high})
                    \cup {one(k) : k \in i..j}
      BY <1>3 DEF TableRows, low, high, one
    <2> QED BY <2>1, <2>2
  <1> HIDE DEF low, high, one, n
  <1>8. ASSUME NEW b \in Buckets
        PROVE  Cardinality({r \in rows : b \in r.winners}) = 1
    <2>1. PICK k \in 1..n : ordered[k] = b
      BY <1>1
    <2>2. \A a, z \in Int : 1 <= a /\ z <= n =>
              (b \in {ordered[m] : m \in a..z} <=> k \in a..z)
      BY <1>1, <2>1
    <2>3. i > 1 => (b \in low.winners <=> k \in 1..(i - 1))
      BY <1>1, <1>4, <2>2 DEF StandsFor
    <2>4. j < n => (b \in high.winners <=> k \in (j + 1)..n)
      BY <1>1, <1>5, <2>2 DEF StandsFor
    <2>5. \A m \in i..j : b \in one(m).winners <=> k = m
      <3> SUFFICES ASSUME NEW m \in i..j  PROVE b \in one(m).winners <=> k = m
        OBVIOUS
      <3>1. m \in 1..n /\ StandsFor(one(m), trades, ordered, m, m) /\ m..m = {m}
        BY <1>6
      <3>2. one(m).winners = {ordered[m]}
        BY <3>1 DEF StandsFor
      <3> QED BY <1>1, <2>1, <3>1, <3>2
    <2>6. \E r : {q \in rows : b \in q.winners} = {r}
      <3>1. CASE k < i
        <4>1. /\ i > 1 /\ k \in 1..(i - 1) /\ k \notin (j + 1)..n
              /\ \A m \in i..j : k # m
          BY <1>1, <3>1
        <4>2. \A q : q \in rows /\ b \in q.winners <=> q = low
          BY <1>7, <2>3, <2>4, <2>5, <4>1
        <4>3. {q \in rows : b \in q.winners} = {low}
          BY <4>2
        <4> QED BY <4>3
      <3>2. CASE k > j
        <4>1. /\ j < n /\ k \in (j + 1)..n /\ k \notin 1..(i - 1)
              /\ \A m \in i..j : k # m
          BY <1>1, <3>2
        <4>2. \A q : q \in rows /\ b \in q.winners <=> q = high
          BY <1>7, <2>3, <2>4, <2>5, <4>1
        <4>3. {q \in rows : b \in q.winners} = {high}
          BY <4>2
        <4> QED BY <4>3
      <3>3. CASE k \in i..j
        <4>1. k \notin (j + 1)..n /\ k \notin 1..(i - 1)
          BY <1>1, <3>3
        <4>2. \A q : q \in rows /\ b \in q.winners <=> q = one(k)
          BY <1>7, <2>3, <2>4, <2>5, <3>3, <4>1
        <4>3. {q \in rows : b \in q.winners} = {one(k)}
          BY <4>2
        <4> QED BY <4>3
      <3>4. k < i \/ k > j \/ k \in i..j
        BY <1>1
      <3> QED BY <3>1, <3>2, <3>3, <3>4
    <2> QED BY <2>6, FS_Singleton
  <1>9. ASSUME NEW r \in rows, NEW w \in Wallets
        PROVE  /\ \A b \in r.winners : r.pnl[w] <= _scenario_pnl(trades, w, b)
               /\ \E b \in r.winners : r.pnl[w] = _scenario_pnl(trades, w, b)
    <2>1. \E a, z : StandsFor(r, trades, ordered, a, z)
      BY <1>4, <1>5, <1>6, <1>7
    <2> QED BY <2>1 DEF StandsFor
  <1> QED BY <1>8, <1>9 DEF TableHolds

\* What the table says of an event is what its settlement does.
ComesTrue(rows, e) ==
    /\ \A b \in Buckets : Cardinality({r \in rows : b \in r.winners}) = 1
    /\ \A r \in rows, w \in Wallets :
            /\ \A b \in r.winners : r.pnl[w] <= SettledFor(w, e, b)
            /\ \E b \in r.winners : r.pnl[w] = SettledFor(w, e, b)

LEMMA ScenariosOf ==
    ASSUME log \in Seq(Row), WellFormed(log), NEW e,
           NEW ordered \in SetToSeqs(Buckets), NEW cheap,
           NEW rows, rows = paper_scenarios(TradesOf(e), ordered, cheap)
    PROVE  ComesTrue(rows, e)
  <1>1. \A w \in Wallets : \A b : /\ _scenario_pnl(TradesOf(e), w, b) = SettledFor(w, e, b)
                                  /\ _scenario_pnl(TradesOf(e), w, b) \in Int
    BY ScenarioIsSettlement
  <1>2. /\ \A b \in Buckets : Cardinality({r \in rows : b \in r.winners}) = 1
        /\ \A r \in rows, w \in Wallets :
              /\ \A b \in r.winners : r.pnl[w] <= _scenario_pnl(TradesOf(e), w, b)
              /\ \E b \in r.winners : r.pnl[w] = _scenario_pnl(TradesOf(e), w, b)
    <2>1. \A w \in Wallets : \A b \in Buckets : _scenario_pnl(TradesOf(e), w, b) \in Int
      BY <1>1
    <2>2. TableHolds(rows, TradesOf(e))
      BY <2>1, TableCovers
    <2> QED BY <2>2 DEF TableHolds
  <1> QED BY <1>1, <1>2 DEF ComesTrue

LEMMA ScenariosNow ==
    ASSUME log \in Seq(Row), WellFormed(log)
    PROVE  ScenariosComeTrue
  <1> SUFFICES ASSUME NEW e \in fetch_open_event_ids(log), NEW cheap \in SUBSET Buckets,
                      NEW ordered \in SetToSeqs(Buckets)
               PROVE  LET trades == TradesOf(e)
                          rows == paper_scenarios(trades, ordered, cheap)
                          Settled(w, b) ==
                              LET paid == Settlement(w, e, b)
                              IN  SumFunction([k \in DOMAIN paid |-> paid[k].payout - paid[k].stake])
                      IN  /\ \A b \in Buckets : Cardinality({r \in rows : b \in r.winners}) = 1
                          /\ \A r \in rows, w \in Wallets :
                                  /\ \A b \in r.winners : r.pnl[w] <= Settled(w, b)
                                  /\ \E b \in r.winners : r.pnl[w] = Settled(w, b)
    BY Zenon DEF ScenariosComeTrue, TradesOf
  <1> DEFINE rows == paper_scenarios(TradesOf(e), ordered, cheap)
  <1>1. /\ \A b \in Buckets : Cardinality({r \in rows : b \in r.winners}) = 1
        /\ \A r \in rows, w \in Wallets :
                /\ \A b \in r.winners : r.pnl[w] <= SettledFor(w, e, b)
                /\ \E b \in r.winners : r.pnl[w] = SettledFor(w, e, b)
    <2> HIDE DEF rows
    <2>1. rows = paper_scenarios(TradesOf(e), ordered, cheap)
      BY DEF rows
    <2>2. ComesTrue(rows, e)
      BY <2>1, ScenariosOf
    <2> QED BY <2>2 DEF ComesTrue
  <1> QED BY <1>1, Zenon DEF SettledFor

-----------------------------------------------------------------------------
(* The readers of the ledger agree: the views and read_state after every    *)
(* step; between two ticks also the report of performance, its windows and  *)
(* its rows of several wallets, the viewer's trades, whatever Gamma answers,*)
(* and the table of scenarios with what settle_event then pays.             *)
THEOREM ReadersAgreeHolds == Spec => []ReadersAgree
  <1>1. PaperInv /\ ViewsAgree => ReadersAgree
    <2> SUFFICES ASSUME PaperInv, ViewsAgree  PROVE ReadersAgree
      OBVIOUS
    <2>1. log \in Seq(Row) /\ WellFormed(log) /\ Written(log)
      BY DEF PaperInv, TypeOK, Written
    <2> QED BY <2>1, ReportsAgreeNow, ScenariosNow DEF ReadersAgree
  <1> QED BY <1>1, PaperInvariant, ViewsAgreeHolds, PTL

=============================================================================
