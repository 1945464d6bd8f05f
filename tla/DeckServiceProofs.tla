------------------------- MODULE DeckServiceProofs -------------------------
(***************************************************************************)
(* Lemmas about DeckService.tla, for any catalogue, deck size and users:   *)
(* what CountDeckCards and BuildDeckCounts compute, and an invariant that  *)
(* every step of the cards service keeps, whoever calls it.                *)
(*                                                                         *)
(* Both operators fold a function over the catalogue, and the folds are    *)
(* defined by recursion.  Induction is said of a set of numbers that holds 0*)
(* and n + 1 with each n (SetInduction), which follows from the smallest   *)
(* element of its complement.  A fold over 1 .. n is then a Run, the sequence*)
(* of its intermediate results, and what each card keeps of them the last one*)
(* has (RunKeeps): CountIs, CountChanges, CountMonotone and BuildIs.       *)
(***************************************************************************)
EXTENDS DeckService, WellFoundedInduction, TLAPS

\* The order of the numbers is well founded.
LEMMA NatLess == \E R : IsWellFoundedOn(R, Nat) /\ \A x, y \in Nat : x < y => <<x, y>> \in R
<1>1. \A x, y \in Nat : x < y => <<x, y>> \in OpToRel(<, Nat)
  BY DEF OpToRel
<1> QED BY <1>1, NatLessThanWellFounded

\* A set of numbers has a smallest one.
LEMMA SmallestIn ==
  ASSUME NEW U, U \subseteq Nat, U # {}
  PROVE  \E x \in U : \A y \in U : ~ (y < x)
<1>1. PICK R : IsWellFoundedOn(R, Nat) /\ \A x, y \in Nat : x < y => <<x, y>> \in R
  BY NatLess
<1>2. IsWellFoundedOn(R, Nat)
  BY <1>1
<1>3. \E x \in U : \A y \in U : ~ (<<y, x>> \in R)
  BY ONLY <1>2, WFMin, U \subseteq Nat, U # {}, Zenon
<1> QED BY <1>1, <1>3

\* Induction, said of a set of numbers.
LEMMA SetInduction ==
  ASSUME NEW T, 0 \in T, \A n \in Nat : n \in T => n + 1 \in T
  PROVE  Nat \subseteq T
<1> DEFINE U == Nat \ T
<1>1. SUFFICES ASSUME U # {} PROVE FALSE
  OBVIOUS
<1>2. PICK x \in U : \A y \in U : ~ (y < x)
  <2> HIDE DEF U
  <2>1. U \subseteq Nat
    BY DEF U
  <2> QED BY <1>1, <2>1, SmallestIn
<1>3. x - 1 \in Nat /\ x - 1 < x /\ x = (x - 1) + 1
  BY <1>2
<1>4. x - 1 \notin U
  BY <1>2, <1>3
<1> QED BY <1>2, <1>3, <1>4

\* Max of FiniteSetsExt, which the folds count down with.
LEMMA MaxIsIn ==
  ASSUME NEW n \in Nat, NEW s \in SUBSET (1 .. n), s # {}
  PROVE  Max(s) \in s /\ \A y \in s : Max(s) >= y
<1> DEFINE U == {n - x : x \in s}
<1>1. U \subseteq Nat /\ U # {}
  <2>1. \A x \in s : x \in 1 .. n
    OBVIOUS
  <2>2. \A x \in 1 .. n : n - x \in Nat
    OBVIOUS
  <2> QED BY <2>1, <2>2
<1>2. PICK u \in U : \A y \in U : ~ (y < u)
  <2> HIDE DEF U
  <2> QED BY <1>1, SmallestIn
<1>3. PICK x \in s : u = n - x
  BY <1>2
<1>4. \A y \in s : x >= y
  <2> TAKE y \in s
  <2>1. n - y \in U
    OBVIOUS
  <2>2. ~ (n - y < n - x)
    BY <1>2, <1>3, <2>1
  <2> QED BY <2>2
<1> QED BY <1>4 DEF Max

LEMMA MaxIs ==
  ASSUME NEW n \in Nat, NEW s \in SUBSET (1 .. n + 1), n + 1 \in s
  PROVE  Max(s) = n + 1
<1>1. Max(s) \in s /\ Max(s) >= n + 1
  BY MaxIsIn, n + 1 \in Nat
<1>2. Max(s) \in 1 .. n + 1
  BY <1>1
<1> QED BY <1>1, <1>2

Folds(g, n, base, op) ==
  \A s \in SUBSET (1 .. n) :
    g[s] = IF s = {} THEN base ELSE op[Max(s)][g[s \ {Max(s)}]]

Foldable(V, n, base, op) == \E g \in [SUBSET (1 .. n) -> V] : Folds(g, n, base, op)

\* A fold over 1 .. n can be continued to n + 1.
LEMMA FoldGrows ==
  ASSUME NEW V, NEW base \in V, NEW N \in Nat, NEW op \in [1 .. N -> [V -> V]],
         NEW n \in Nat, n + 1 <= N, Foldable(V, n, base, op)
  PROVE  Foldable(V, n + 1, base, op)
<1>1. PICK g \in [SUBSET (1 .. n) -> V] : Folds(g, n, base, op)
  BY DEF Foldable
<1> DEFINE h == [s \in SUBSET (1 .. n + 1) |->
                   IF n + 1 \in s THEN op[n + 1][g[s \ {n + 1}]] ELSE g[s]]
<1>2. \A s \in SUBSET (1 .. n + 1) : s \ {n + 1} \in SUBSET (1 .. n)
  OBVIOUS
<1>3. \A s \in SUBSET (1 .. n + 1) : n + 1 \notin s => s \in SUBSET (1 .. n)
  OBVIOUS
<1>4. \A s \in SUBSET (1 .. n) : s \in SUBSET (1 .. n + 1) /\ n + 1 \notin s
  OBVIOUS
<1>5. \A s \in SUBSET (1 .. n) : h[s] = g[s]
  BY <1>4
<1>6. ASSUME NEW s \in SUBSET (1 .. n + 1) PROVE h[s] \in V
  <2>1. CASE n + 1 \in s
    <3>1. g[s \ {n + 1}] \in V /\ n + 1 \in 1 .. N
      BY <1>2
    <3>2. h[s] = op[n + 1][g[s \ {n + 1}]]
      BY <2>1
    <3> HIDE DEF h
    <3> QED BY <3>1, <3>2
  <2>2. CASE n + 1 \notin s
    BY <1>3, <2>2
  <2> QED BY <2>1, <2>2
<1>7. ASSUME NEW s \in SUBSET (1 .. n + 1)
      PROVE  h[s] = IF s = {} THEN base ELSE op[Max(s)][h[s \ {Max(s)}]]
  <2>1. CASE n + 1 \in s
    <3>1. Max(s) = n + 1
      BY <2>1, MaxIs
    <3>2. h[s \ {n + 1}] = g[s \ {n + 1}]
      BY <1>2, <1>5
    <3>3. h[s] = op[n + 1][g[s \ {n + 1}]]
      BY <2>1
    <3> HIDE DEF h
    <3> QED BY <2>1, <3>1, <3>2, <3>3
  <2>2. CASE n + 1 \notin s
    <3>1. s \in SUBSET (1 .. n) /\ h[s] = g[s]
      BY <1>3, <1>5, <2>2
    <3>2. s \ {Max(s)} \in SUBSET (1 .. n)
      BY <3>1
    <3>3. h[s \ {Max(s)}] = g[s \ {Max(s)}]
      BY <1>5, <3>2
    <3>4. g[s] = IF s = {} THEN base ELSE op[Max(s)][g[s \ {Max(s)}]]
      BY <1>1, <3>1 DEF Folds
    <3> HIDE DEF h
    <3> QED BY <3>1, <3>3, <3>4
  <2> QED BY <2>1, <2>2
<1>8. h \in [SUBSET (1 .. n + 1) -> V]
  BY <1>6
<1>9. Folds(h, n + 1, base, op)
  <2> HIDE DEF h
  <2> QED BY <1>7 DEF Folds
<1> QED BY <1>8, <1>9 DEF Foldable

\* So there is one over 1 .. n for every n.
LEMMA FoldExists ==
  ASSUME NEW V, NEW base \in V, NEW N \in Nat, NEW op \in [1 .. N -> [V -> V]]
  PROVE  Foldable(V, N, base, op)
<1> DEFINE T == {n \in Nat : n <= N => Foldable(V, n, base, op)}
<1>1. 0 \in T
  <2> DEFINE g == [s \in SUBSET (1 .. 0) |-> base]
  <2>1. g \in [SUBSET (1 .. 0) -> V]
    OBVIOUS
  <2>2. \A s \in SUBSET (1 .. 0) : s = {}
    OBVIOUS
  <2>3. Folds(g, 0, base, op)
    BY <2>2 DEF Folds
  <2> QED BY <2>1, <2>3 DEF Foldable
<1>2. ASSUME NEW n \in Nat, n \in T PROVE n + 1 \in T
  BY <1>2, FoldGrows
<1>3. N \in T
  <2> HIDE DEF T
  <2> QED BY <1>1, <1>2, SetInduction
<1> QED BY <1>3

\* What a fold computes: a run that starts at base and takes the numbers one by one.
Run(V, N, base, op, result) ==
  \E t \in [0 .. N -> V] :
    /\ t[0] = base
    /\ \A k \in 0 .. N - 1 : t[k + 1] = op[k + 1][t[k]]
    /\ result = t[N]

\* A fold is a run from its base to its result.
LEMMA RunIs ==
  ASSUME NEW V, NEW base \in V, NEW N \in Nat, NEW op \in [1 .. N -> [V -> V]],
         NEW f, f[{}] = base,
         \A k \in 0 .. N - 1 : f[1 .. k] \in V => f[1 .. k + 1] = op[k + 1][f[1 .. k]]
  PROVE  Run(V, N, base, op, f[1 .. N])
<1> DEFINE T == {k \in Nat : k <= N => f[1 .. k] \in V}
<1>1. 1 .. 0 = {} /\ 0 \in T
  OBVIOUS
<1>2. ASSUME NEW k \in Nat, k \in T PROVE k + 1 \in T
  <2> SUFFICES ASSUME k + 1 <= N PROVE f[1 .. k + 1] \in V
    OBVIOUS
  <2>1. k \in 0 .. N - 1 /\ f[1 .. k] \in V /\ k + 1 \in 1 .. N
    BY <1>2
  <2> HIDE DEF T
  <2> QED BY <2>1
<1>3. \A k \in Nat : k \in T
  <2> HIDE DEF T
  <2> QED BY <1>1, <1>2, SetInduction
<1>4. \A k \in 0 .. N : f[1 .. k] \in V
  BY <1>3
<1> HIDE DEF T
<1> DEFINE t == [k \in 0 .. N |-> f[1 .. k]]
<1>5. t \in [0 .. N -> V] /\ t[0] = base /\ f[1 .. N] = t[N]
  BY <1>1, <1>4
<1>6. \A k \in 0 .. N - 1 : t[k + 1] = op[k + 1][t[k]]
  BY <1>4
<1> QED BY <1>5, <1>6 DEF Run

\* CountDeckCards is a run of sums.
LEMMA CountRuns ==
  ASSUME NEW cards \in Counts
  PROVE  Run(Nat, MaxCard, 0, [c \in 1 .. MaxCard |-> [n \in Nat |-> n + cards[c]]],
             CountDeckCards(cards))
<1> DEFINE ids == [c \in Cards |-> c]
<1> DEFINE body(f) == [s \in SUBSET DOMAIN ids |->
             IF s = {} THEN 0
             ELSE f[s \ {Max(s)}] + cards[ids[Max(s)]]]
<1> DEFINE op == [c \in 1 .. MaxCard |-> [n \in Nat |-> n + cards[c]]]
<1>0. MaxCard \in Nat /\ 0 \in Nat
  BY DeckServiceAssumption
<1>1. op \in [1 .. MaxCard -> [Nat -> Nat]]
      /\ \A v \in Nat, c \in 1 .. MaxCard : op[c][v] = v + cards[c]
  BY DEF Counts, Cards
<1>2. PICK g \in [SUBSET (1 .. MaxCard) -> Nat] : Folds(g, MaxCard, 0, op)
  <2> HIDE DEF op
  <2> QED BY <1>0, <1>1, FoldExists DEF Foldable
<1>3. g = body(g)
  <2>1. ASSUME NEW s \in SUBSET (1 .. MaxCard)
        PROVE  g[s] = IF s = {} THEN 0 ELSE g[s \ {Max(s)}] + cards[ids[Max(s)]]
    <3>1. CASE s = {}
      BY <1>2, <3>1 DEF Folds
    <3>2. CASE s # {}
      <4>1. Max(s) \in 1 .. MaxCard /\ s \ {Max(s)} \in SUBSET (1 .. MaxCard)
        BY <1>0, <3>2, MaxIsIn
      <4>2. g[s \ {Max(s)}] \in Nat
        BY <4>1
      <4>3. g[s] = op[Max(s)][g[s \ {Max(s)}]]
        BY <1>2, <3>2 DEF Folds
      <4> HIDE DEF op
      <4> QED BY <1>1, <3>2, <4>1, <4>2, <4>3 DEF Cards
    <3> QED BY <3>1, <3>2
  <2> QED BY <2>1 DEF Cards
<1>4. PICK f : f = (CHOOSE h : h = body(h))
  OBVIOUS
<1>5. f = body(f)
  <2> HIDE DEF body
  <2> QED BY <1>3, <1>4
<1>6. CountDeckCards(cards) = f[DOMAIN ids]
  BY <1>4 DEF CountDeckCards, FoldLeft, MapThenFoldSet
<1>7. f[{}] = 0
  BY <1>5
<1>8. ASSUME NEW k \in 0 .. MaxCard - 1, f[1 .. k] \in Nat
      PROVE  f[1 .. k + 1] = op[k + 1][f[1 .. k]]
  <2>0. k \in Nat /\ k + 1 \in Nat /\ k + 1 <= MaxCard /\ 1 <= k + 1
    BY <1>0
  <2>1. /\ k \in Nat /\ 1 .. k + 1 \in SUBSET (1 .. MaxCard) /\ 1 .. k + 1 # {}
        /\ k + 1 \in 1 .. MaxCard /\ k + 1 \in 1 .. k + 1
    BY <1>0, <2>0
  <2>2. Max(1 .. k + 1) = k + 1
    BY <2>1, MaxIs
  <2>3. (1 .. k + 1) \ {k + 1} = 1 .. k
    BY <2>1
  <2>4. f[1 .. k + 1] = f[(1 .. k + 1) \ {Max(1 .. k + 1)}] + cards[ids[Max(1 .. k + 1)]]
    BY <1>5, <2>1 DEF Cards
  <2>5. f[1 .. k + 1] = f[1 .. k] + cards[k + 1]
    BY <2>1, <2>2, <2>3, <2>4 DEF Cards
  <2> HIDE DEF op
  <2> QED BY <1>1, <1>8, <2>1, <2>5
<1> HIDE DEF op, body
<1>9. \A k \in 0 .. MaxCard - 1 : f[1 .. k] \in Nat => f[1 .. k + 1] = op[k + 1][f[1 .. k]]
  BY <1>8
<1>10. Run(Nat, MaxCard, 0, op, f[1 .. MaxCard])
  BY <1>0, <1>1, <1>7, <1>9, RunIs, Zenon
<1>11. CountDeckCards(cards) = f[1 .. MaxCard]
  BY <1>6 DEF Cards
<1> QED BY <1>10, <1>11 DEF op

\* The sum after each card.
LEMMA CountIs ==
  ASSUME NEW cards \in Counts
  PROVE  \E t \in [0 .. MaxCard -> Nat] :
           /\ t[0] = 0
           /\ \A k \in 0 .. MaxCard - 1 : t[k + 1] = t[k] + cards[k + 1]
           /\ CountDeckCards(cards) = t[MaxCard]
<1> DEFINE op == [c \in 1 .. MaxCard |-> [n \in Nat |-> n + cards[c]]]
<1>1. PICK t \in [0 .. MaxCard -> Nat] :
        /\ t[0] = 0
        /\ \A k \in 0 .. MaxCard - 1 : t[k + 1] = op[k + 1][t[k]]
        /\ CountDeckCards(cards) = t[MaxCard]
  BY CountRuns DEF Run
<1>2. ASSUME NEW k \in 0 .. MaxCard - 1 PROVE t[k + 1] = t[k] + cards[k + 1]
  <2>1. k \in 0 .. MaxCard /\ k + 1 \in 1 .. MaxCard
    BY DeckServiceAssumption
  <2> QED BY <1>1, <2>1
<1> QED BY <1>1, <1>2

\* The size of a deck is a number.
LEMMA CountType ==
  ASSUME NEW cards \in Counts
  PROVE  CountDeckCards(cards) \in Nat
BY CountIs, DeckServiceAssumption

\* One card more or less.
LEMMA CountChanges ==
  ASSUME NEW d \in Counts, NEW e \in Counts, NEW c \in Cards,
         \A b \in Cards : b # c => e[b] = d[b]
  PROVE  CountDeckCards(e) = CountDeckCards(d) + e[c] - d[c]
<1>1. PICK t \in [0 .. MaxCard -> Nat] :
        /\ t[0] = 0
        /\ \A k \in 0 .. MaxCard - 1 : t[k + 1] = t[k] + d[k + 1]
        /\ CountDeckCards(d) = t[MaxCard]
  BY CountIs
<1>2. PICK r \in [0 .. MaxCard -> Nat] :
        /\ r[0] = 0
        /\ \A k \in 0 .. MaxCard - 1 : r[k + 1] = r[k] + e[k + 1]
        /\ CountDeckCards(e) = r[MaxCard]
  BY CountIs
<1>3. MaxCard \in Nat /\ c \in 1 .. MaxCard /\ d[c] \in Nat /\ e[c] \in Nat
  BY DeckServiceAssumption DEF Cards, Counts
<1> DEFINE T == {k \in Nat : k <= MaxCard =>
                   r[k] = t[k] + (IF k < c THEN 0 ELSE e[c] - d[c])}
<1>4. 0 \in T
  BY <1>1, <1>2, <1>3
<1>5. ASSUME NEW k \in Nat, k \in T PROVE k + 1 \in T
  <2> SUFFICES ASSUME k + 1 <= MaxCard
               PROVE  r[k + 1] = t[k + 1] + (IF k + 1 < c THEN 0 ELSE e[c] - d[c])
    OBVIOUS
  <2>1. k \in 0 .. MaxCard - 1 /\ k \in 0 .. MaxCard /\ k + 1 \in 1 .. MaxCard
    BY <1>3
  <2>2. r[k] = t[k] + (IF k < c THEN 0 ELSE e[c] - d[c])
    BY <1>3, <1>5, <2>1
  <2>3. r[k + 1] = r[k] + e[k + 1] /\ t[k + 1] = t[k] + d[k + 1]
    BY <1>1, <1>2, <2>1
  <2>4. d[k + 1] \in Nat /\ e[k + 1] \in Nat /\ t[k] \in Nat
    BY <2>1 DEF Counts, Cards
  <2>5. k + 1 # c => e[k + 1] = d[k + 1]
    BY <2>1 DEF Cards
  <2>6. CASE k + 1 = c
    <3>1. r[k] = t[k]
      BY <1>3, <2>2, <2>4, <2>6
    <3>2. r[k + 1] = t[k] + e[c] /\ t[k + 1] = t[k] + d[c] /\ ~ (k + 1 < c)
      BY <2>3, <2>6, <3>1, <1>3
    <3> QED BY <1>3, <2>4, <3>2
  <2>7. CASE k + 1 < c
    <3>1. r[k] = t[k] /\ e[k + 1] = d[k + 1]
      BY <1>3, <2>2, <2>4, <2>5, <2>7
    <3> QED BY <1>3, <2>3, <2>4, <2>7, <3>1
  <2>8. CASE c < k + 1
    <3>1. r[k] = t[k] + (e[c] - d[c]) /\ e[k + 1] = d[k + 1] /\ ~ (k + 1 < c)
      BY <1>3, <2>2, <2>4, <2>5, <2>8
    <3>2. r[k + 1] = t[k] + (e[c] - d[c]) + d[k + 1]
      BY <2>3, <3>1
    <3>3. r[k + 1] = (t[k] + d[k + 1]) + (e[c] - d[c])
      <4>1. \A m, n \in Nat, x \in Int : (m + x) + n = (m + n) + x
        OBVIOUS
      <4>2. e[c] - d[c] \in Int /\ t[k] \in Nat /\ d[k + 1] \in Nat
        BY <1>3, <2>4
      <4> QED BY <3>2, <4>1, <4>2, Zenon
    <3> QED BY <2>3, <3>1, <3>3
  <2> QED BY <1>3, <2>6, <2>7, <2>8
<1>6. MaxCard \in T
  <2> HIDE DEF T
  <2> QED BY <1>3, <1>4, <1>5, SetInduction
<1> QED BY <1>1, <1>2, <1>3, <1>6

\* A deck within another one is no larger.
LEMMA CountMonotone ==
  ASSUME NEW d \in Counts, NEW e \in Counts, \A c \in Cards : d[c] <= e[c]
  PROVE  CountDeckCards(d) <= CountDeckCards(e)
<1>1. PICK t \in [0 .. MaxCard -> Nat] :
        /\ t[0] = 0
        /\ \A k \in 0 .. MaxCard - 1 : t[k + 1] = t[k] + d[k + 1]
        /\ CountDeckCards(d) = t[MaxCard]
  BY CountIs
<1>2. PICK r \in [0 .. MaxCard -> Nat] :
        /\ r[0] = 0
        /\ \A k \in 0 .. MaxCard - 1 : r[k + 1] = r[k] + e[k + 1]
        /\ CountDeckCards(e) = r[MaxCard]
  BY CountIs
<1>3. MaxCard \in Nat
  BY DeckServiceAssumption
<1> DEFINE T == {k \in Nat : k <= MaxCard => t[k] <= r[k]}
<1>4. 0 \in T
  BY <1>1, <1>2
<1>5. ASSUME NEW k \in Nat, k \in T PROVE k + 1 \in T
  <2> SUFFICES ASSUME k + 1 <= MaxCard PROVE t[k + 1] <= r[k + 1]
    OBVIOUS
  <2>1. k \in 0 .. MaxCard - 1 /\ k \in 0 .. MaxCard /\ k + 1 \in 1 .. MaxCard
    BY <1>3
  <2>2. t[k] <= r[k]
    BY <1>3, <1>5, <2>1
  <2>3. r[k + 1] = r[k] + e[k + 1] /\ t[k + 1] = t[k] + d[k + 1]
    BY <1>1, <1>2, <2>1
  <2>4. d[k + 1] \in Nat /\ e[k + 1] \in Nat /\ t[k] \in Nat /\ r[k] \in Nat
        /\ d[k + 1] <= e[k + 1]
    BY <2>1 DEF Counts, Cards
  <2> QED BY <2>2, <2>3, <2>4
<1>6. MaxCard \in T
  <2> HIDE DEF T
  <2> QED BY <1>3, <1>4, <1>5, SetInduction
<1> QED BY <1>1, <1>2, <1>3, <1>6

\* An empty deck has size 0.
LEMMA NoCardsCount == NoCards \in Counts /\ CountDeckCards(NoCards) = 0
<1>1. NoCards \in Counts
  BY DEF NoCards, Counts
<1>2. PICK t \in [0 .. MaxCard -> Nat] :
        /\ t[0] = 0
        /\ \A k \in 0 .. MaxCard - 1 : t[k + 1] = t[k] + NoCards[k + 1]
        /\ CountDeckCards(NoCards) = t[MaxCard]
  BY <1>1, CountIs
<1>3. MaxCard \in Nat
  BY DeckServiceAssumption
<1> DEFINE T == {k \in Nat : k <= MaxCard => t[k] = 0}
<1>4. 0 \in T
  BY <1>2
<1>5. ASSUME NEW k \in Nat, k \in T PROVE k + 1 \in T
  <2> SUFFICES ASSUME k + 1 <= MaxCard PROVE t[k + 1] = 0
    OBVIOUS
  <2>1. k \in 0 .. MaxCard - 1 /\ k + 1 \in 1 .. MaxCard /\ t[k] = 0
    BY <1>3, <1>5
  <2>2. NoCards[k + 1] = 0
    BY <2>1 DEF NoCards, Cards
  <2> QED BY <1>2, <2>1, <2>2
<1>6. MaxCard \in T
  <2> HIDE DEF T
  <2> QED BY <1>3, <1>4, <1>5, SetInduction
<1> QED BY <1>1, <1>2, <1>3, <1>6

(***************************************************************************)
(* BuildDeckCounts                                                         *)
(***************************************************************************)

Building == [deck : Counts, remaining : Nat]

\* One card after the other, what is wanted of it as far as there is room.
Dealing(want) ==
  [c \in 1 .. MaxCard |->
     [b \in Building |-> Put(b, c, Smaller(want[c], b.remaining))]]

StartOfDeck == [deck |-> NoCards, remaining |-> DeckSize]

OwnedFirst(inventory) ==
  FoldLeft(LAMBDA building, c : Put(building, c, Smaller(inventory[c], building.remaining)),
           StartOfDeck, [c \in Cards |-> c])

ThenCatalogue(owned) ==
  FoldLeft(LAMBDA building, c : Put(building, c, Smaller(building.remaining, 1)),
           owned, [c \in Cards |-> c])

OneOfEach == [c \in Cards |-> 1]

\* BuildDeckCounts deals the cards owned, then the catalogue.
LEMMA BuildsInTwo ==
  ASSUME NEW inventory
  PROVE  BuildDeckCounts(inventory) = ThenCatalogue(OwnedFirst(inventory)).deck
BY DEF BuildDeckCounts, ThenCatalogue, OwnedFirst, StartOfDeck

\* Both start from a deck and places left.
LEMMA StartIsBuilding == StartOfDeck \in Building /\ OneOfEach \in Counts
BY NoCardsCount, DeckServiceAssumption DEF StartOfDeck, Building, OneOfEach, Counts

\* A card put into a deck takes as many places as it has copies.
LEMMA PutIs ==
  ASSUME NEW b \in Building, NEW c \in Cards, NEW n \in Nat, n <= b.remaining
  PROVE  /\ Put(b, c, n) \in Building
         /\ Put(b, c, n).deck = [b.deck EXCEPT ![c] = @ + n]
         /\ Put(b, c, n).remaining = b.remaining - n
<1>1. b.deck \in [Cards -> Nat] /\ b.remaining \in Nat /\ b.remaining - n \in Nat
  BY DEF Building, Counts
<1>2. b.deck[c] + n \in Nat
  BY <1>1
<1>3. [b.deck EXCEPT ![c] = @ + n] \in [Cards -> Nat]
  BY <1>1, <1>2
<1> QED BY <1>1, <1>3 DEF Put, Building, Counts

\* One card is dealt as far as places are left.
LEMMA DealingIs ==
  ASSUME NEW want \in Counts
  PROVE  /\ Dealing(want) \in [1 .. MaxCard -> [Building -> Building]]
         /\ \A c \in 1 .. MaxCard, b \in Building :
              Dealing(want)[c][b] = Put(b, c, Smaller(want[c], b.remaining))
<1>1. ASSUME NEW c \in 1 .. MaxCard, NEW b \in Building
      PROVE  Put(b, c, Smaller(want[c], b.remaining)) \in Building
  <2>1. want[c] \in Nat /\ b.remaining \in Nat /\ c \in Cards
    BY DEF Counts, Building, Cards
  <2>2. Smaller(want[c], b.remaining) \in Nat /\ Smaller(want[c], b.remaining) <= b.remaining
    BY <2>1 DEF Smaller
  <2> QED BY <2>1, <2>2, PutIs
<1> QED BY <1>1 DEF Dealing

\* The cards owned are dealt in a run.
LEMMA OwnedRuns ==
  ASSUME NEW inventory \in Counts
  PROVE  Run(Building, MaxCard, StartOfDeck, Dealing(inventory), OwnedFirst(inventory))
<1> DEFINE ids == [c \in Cards |-> c]
<1> DEFINE body(f) == [s \in SUBSET DOMAIN ids |->
             IF s = {} THEN StartOfDeck
             ELSE Put(f[s \ {Max(s)}], ids[Max(s)], Smaller(inventory[ids[Max(s)]], f[s \ {Max(s)}].remaining))]
<1> DEFINE op == Dealing(inventory)
<1>0. MaxCard \in Nat /\ StartOfDeck \in Building /\ inventory \in Counts
  BY DeckServiceAssumption, StartIsBuilding DEF Counts
<1>1. /\ op \in [1 .. MaxCard -> [Building -> Building]]
      /\ \A c \in 1 .. MaxCard, b \in Building : op[c][b] = Put(b, c, Smaller(inventory[c], b.remaining))
  <2>1. ASSUME NEW c \in 1 .. MaxCard, NEW b \in Building
        PROVE  op[c][b] = Put(b, c, Smaller(inventory[c], b.remaining))
    <3>1. op[c][b] = Put(b, c, Smaller(inventory[c], b.remaining))
      BY <1>0, DealingIs
    <3>2. b.remaining \in Nat /\ c \in Cards
      BY DEF Building, Cards
    <3> QED BY <3>1, <3>2 DEF Smaller, OneOfEach
  <2> HIDE DEF op
  <2>2. op \in [1 .. MaxCard -> [Building -> Building]]
    BY <1>0, DealingIs DEF op
  <2> QED BY <2>1, <2>2
<1>2. PICK g \in [SUBSET (1 .. MaxCard) -> Building] : Folds(g, MaxCard, StartOfDeck, op)
  <2> HIDE DEF op
  <2> QED BY <1>0, <1>1, FoldExists DEF Foldable
<1>3. g = body(g)
  <2>1. ASSUME NEW s \in SUBSET (1 .. MaxCard)
        PROVE  g[s] = body(g)[s]
    <3>1. CASE s = {}
      BY <1>2, <3>1 DEF Folds, Cards
    <3>2. CASE s # {}
      <4>1. Max(s) \in 1 .. MaxCard /\ s \ {Max(s)} \in SUBSET (1 .. MaxCard)
        BY <1>0, <3>2, MaxIsIn
      <4>2. g[s \ {Max(s)}] \in Building /\ ids[Max(s)] = Max(s)
        BY <4>1 DEF Cards
      <4>3. g[s] = op[Max(s)][g[s \ {Max(s)}]]
        BY <1>2, <3>2 DEF Folds
      <4>4. body(g)[s] = Put(g[s \ {Max(s)}], Max(s), Smaller(inventory[Max(s)], g[s \ {Max(s)}].remaining))
        BY <3>2, <4>2 DEF Cards
      <4> HIDE DEF op, body, ids
      <4>5. op[Max(s)][g[s \ {Max(s)}]] =
            Put(g[s \ {Max(s)}], Max(s), Smaller(inventory[Max(s)], g[s \ {Max(s)}].remaining))
        BY <1>1, <4>1, <4>2
      <4> QED BY <4>3, <4>4, <4>5, Zenon
    <3> QED BY <3>1, <3>2
  <2>2. g = [s \in SUBSET (1 .. MaxCard) |-> g[s]]
    OBVIOUS
  <2>3. body(g) = [s \in SUBSET (1 .. MaxCard) |-> body(g)[s]]
    BY DEF Cards
  <2> HIDE DEF body, ids, op
  <2> QED BY <2>1, <2>2, <2>3
<1>4. PICK f : f = (CHOOSE h : h = body(h))
  OBVIOUS
<1>5. f = body(f)
  <2> HIDE DEF body
  <2> QED BY <1>3, <1>4
<1>6. OwnedFirst(inventory) = f[DOMAIN ids]
  BY <1>4 DEF OwnedFirst, FoldLeft, MapThenFoldSet
<1>7. f[{}] = StartOfDeck
  BY <1>5
<1>8. ASSUME NEW k \in 0 .. MaxCard - 1, f[1 .. k] \in Building
      PROVE  f[1 .. k + 1] = op[k + 1][f[1 .. k]]
  <2>0. k \in Nat /\ k + 1 \in Nat /\ k + 1 <= MaxCard /\ 1 <= k + 1
    BY <1>0
  <2>1. /\ k \in Nat /\ 1 .. k + 1 \in SUBSET (1 .. MaxCard) /\ 1 .. k + 1 # {}
        /\ k + 1 \in 1 .. MaxCard /\ k + 1 \in 1 .. k + 1
    BY <1>0, <2>0
  <2>2. Max(1 .. k + 1) = k + 1
    BY <2>1, MaxIs
  <2>3. (1 .. k + 1) \ {k + 1} = 1 .. k
    BY <2>1
  <2>4. body(f)[1 .. k + 1] =
          Put(f[(1 .. k + 1) \ {Max(1 .. k + 1)}], ids[Max(1 .. k + 1)],
              Smaller(inventory[ids[Max(1 .. k + 1)]], f[(1 .. k + 1) \ {Max(1 .. k + 1)}].remaining))
    BY <2>1 DEF Cards
  <2>5. ids[k + 1] = k + 1 /\ f[1 .. k + 1] = body(f)[1 .. k + 1]
    BY <1>5, <2>1 DEF Cards
  <2> HIDE DEF op, body, ids
  <2>6. op[k + 1][f[1 .. k]] = Put(f[1 .. k], k + 1, Smaller(inventory[k + 1], f[1 .. k].remaining))
    BY <1>1, <1>8, <2>1
  <2> QED BY <2>2, <2>3, <2>4, <2>5, <2>6, Zenon
<1> HIDE DEF op, body
<1>9. \A k \in 0 .. MaxCard - 1 : f[1 .. k] \in Building => f[1 .. k + 1] = op[k + 1][f[1 .. k]]
  BY <1>8
<1>10. Run(Building, MaxCard, StartOfDeck, op, f[1 .. MaxCard])
  BY <1>0, <1>1, <1>7, <1>9, RunIs, Zenon
<1>11. OwnedFirst(inventory) = f[1 .. MaxCard]
  BY <1>6 DEF Cards
<1> QED BY <1>10, <1>11 DEF op

\* The catalogue is dealt in a run.
LEMMA CatalogueRuns ==
  ASSUME NEW owned \in Building
  PROVE  Run(Building, MaxCard, owned, Dealing(OneOfEach), ThenCatalogue(owned))
<1> DEFINE ids == [c \in Cards |-> c]
<1> DEFINE body(f) == [s \in SUBSET DOMAIN ids |->
             IF s = {} THEN owned
             ELSE Put(f[s \ {Max(s)}], ids[Max(s)], Smaller(f[s \ {Max(s)}].remaining, 1))]
<1> DEFINE op == Dealing(OneOfEach)
<1>0. MaxCard \in Nat /\ owned \in Building /\ OneOfEach \in Counts
  BY DeckServiceAssumption, StartIsBuilding DEF Counts
<1>1. /\ op \in [1 .. MaxCard -> [Building -> Building]]
      /\ \A c \in 1 .. MaxCard, b \in Building : op[c][b] = Put(b, c, Smaller(b.remaining, 1))
  <2>1. ASSUME NEW c \in 1 .. MaxCard, NEW b \in Building
        PROVE  op[c][b] = Put(b, c, Smaller(b.remaining, 1))
    <3>1. op[c][b] = Put(b, c, Smaller(OneOfEach[c], b.remaining))
      BY <1>0, DealingIs
    <3>2. b.remaining \in Nat /\ c \in Cards
      BY DEF Building, Cards
    <3> QED BY <3>1, <3>2 DEF Smaller, OneOfEach
  <2> HIDE DEF op
  <2>2. op \in [1 .. MaxCard -> [Building -> Building]]
    BY <1>0, DealingIs DEF op
  <2> QED BY <2>1, <2>2
<1>2. PICK g \in [SUBSET (1 .. MaxCard) -> Building] : Folds(g, MaxCard, owned, op)
  <2> HIDE DEF op
  <2> QED BY <1>0, <1>1, FoldExists DEF Foldable
<1>3. g = body(g)
  <2>1. ASSUME NEW s \in SUBSET (1 .. MaxCard)
        PROVE  g[s] = body(g)[s]
    <3>1. CASE s = {}
      BY <1>2, <3>1 DEF Folds, Cards
    <3>2. CASE s # {}
      <4>1. Max(s) \in 1 .. MaxCard /\ s \ {Max(s)} \in SUBSET (1 .. MaxCard)
        BY <1>0, <3>2, MaxIsIn
      <4>2. g[s \ {Max(s)}] \in Building /\ ids[Max(s)] = Max(s)
        BY <4>1 DEF Cards
      <4>3. g[s] = op[Max(s)][g[s \ {Max(s)}]]
        BY <1>2, <3>2 DEF Folds
      <4>4. body(g)[s] = Put(g[s \ {Max(s)}], Max(s), Smaller(g[s \ {Max(s)}].remaining, 1))
        BY <3>2, <4>2 DEF Cards
      <4> HIDE DEF op, body, ids
      <4>5. op[Max(s)][g[s \ {Max(s)}]] =
            Put(g[s \ {Max(s)}], Max(s), Smaller(g[s \ {Max(s)}].remaining, 1))
        BY <1>1, <4>1, <4>2
      <4> QED BY <4>3, <4>4, <4>5, Zenon
    <3> QED BY <3>1, <3>2
  <2>2. g = [s \in SUBSET (1 .. MaxCard) |-> g[s]]
    OBVIOUS
  <2>3. body(g) = [s \in SUBSET (1 .. MaxCard) |-> body(g)[s]]
    BY DEF Cards
  <2> HIDE DEF body, ids, op
  <2> QED BY <2>1, <2>2, <2>3
<1>4. PICK f : f = (CHOOSE h : h = body(h))
  OBVIOUS
<1>5. f = body(f)
  <2> HIDE DEF body
  <2> QED BY <1>3, <1>4
<1>6. ThenCatalogue(owned) = f[DOMAIN ids]
  BY <1>4 DEF ThenCatalogue, FoldLeft, MapThenFoldSet
<1>7. f[{}] = owned
  BY <1>5
<1>8. ASSUME NEW k \in 0 .. MaxCard - 1, f[1 .. k] \in Building
      PROVE  f[1 .. k + 1] = op[k + 1][f[1 .. k]]
  <2>0. k \in Nat /\ k + 1 \in Nat /\ k + 1 <= MaxCard /\ 1 <= k + 1
    BY <1>0
  <2>1. /\ k \in Nat /\ 1 .. k + 1 \in SUBSET (1 .. MaxCard) /\ 1 .. k + 1 # {}
        /\ k + 1 \in 1 .. MaxCard /\ k + 1 \in 1 .. k + 1
    BY <1>0, <2>0
  <2>2. Max(1 .. k + 1) = k + 1
    BY <2>1, MaxIs
  <2>3. (1 .. k + 1) \ {k + 1} = 1 .. k
    BY <2>1
  <2>4. body(f)[1 .. k + 1] =
          Put(f[(1 .. k + 1) \ {Max(1 .. k + 1)}], ids[Max(1 .. k + 1)],
              Smaller(f[(1 .. k + 1) \ {Max(1 .. k + 1)}].remaining, 1))
    BY <2>1 DEF Cards
  <2>5. ids[k + 1] = k + 1 /\ f[1 .. k + 1] = body(f)[1 .. k + 1]
    BY <1>5, <2>1 DEF Cards
  <2> HIDE DEF op, body, ids
  <2>6. op[k + 1][f[1 .. k]] = Put(f[1 .. k], k + 1, Smaller(f[1 .. k].remaining, 1))
    BY <1>1, <1>8, <2>1
  <2> QED BY <2>2, <2>3, <2>4, <2>5, <2>6, Zenon
<1> HIDE DEF op, body
<1>9. \A k \in 0 .. MaxCard - 1 : f[1 .. k] \in Building => f[1 .. k + 1] = op[k + 1][f[1 .. k]]
  BY <1>8
<1>10. Run(Building, MaxCard, owned, op, f[1 .. MaxCard])
  BY <1>0, <1>1, <1>7, <1>9, RunIs, Zenon
<1>11. ThenCatalogue(owned) = f[1 .. MaxCard]
  BY <1>6 DEF Cards
<1> QED BY <1>10, <1>11 DEF op

\* What is kept from one card to the next holds of the result.
LEMMA RunKeeps ==
  ASSUME NEW V, NEW base \in V, NEW N \in Nat, NEW op \in [1 .. N -> [V -> V]], NEW result,
         Run(V, N, base, op, result),
         NEW Q \in [0 .. N -> SUBSET V], base \in Q[0],
         \A k \in 0 .. N - 1 : \A b \in Q[k] : op[k + 1][b] \in Q[k + 1]
  PROVE  result \in Q[N]
<1>1. PICK t \in [0 .. N -> V] :
        /\ t[0] = base
        /\ \A k \in 0 .. N - 1 : t[k + 1] = op[k + 1][t[k]]
        /\ result = t[N]
  BY DEF Run
<1> DEFINE T == {k \in Nat : k <= N => t[k] \in Q[k]}
<1>2. 0 \in T
  BY <1>1
<1>3. ASSUME NEW k \in Nat, k \in T PROVE k + 1 \in T
  <2> SUFFICES ASSUME k + 1 <= N PROVE t[k + 1] \in Q[k + 1]
    OBVIOUS
  <2>1. k \in 0 .. N - 1 /\ t[k] \in Q[k]
    BY <1>3
  <2> HIDE DEF T
  <2> QED BY <1>1, <2>1
<1>4. N \in T
  <2> HIDE DEF T
  <2> QED BY <1>2, <1>3, SetInduction
<1> QED BY <1>1, <1>4

Dealt(b, k, want, start) ==
  /\ CountDeckCards(b.deck) + b.remaining = CountDeckCards(start.deck) + start.remaining
  /\ \A c \in Cards :
       /\ start.deck[c] <= b.deck[c] /\ b.deck[c] <= start.deck[c] + want[c]
       /\ c <= k /\ b.remaining > 0 => b.deck[c] = start.deck[c] + want[c]
       /\ c > k => b.deck[c] = start.deck[c]

\* The ids of the catalogue.
LEMMA CardsAreNumbers == \A c \in Cards : c \in Nat /\ c > 0 /\ c <= MaxCard
BY DeckServiceAssumption DEF Cards

\* What holds of the deck after the first k cards holds after one more.
LEMMA DealtNext ==
  ASSUME NEW want \in Counts, NEW start \in Building, NEW b \in Building,
         NEW k \in 0 .. MaxCard - 1, Dealt(b, k, want, start)
  PROVE  Dealt(Dealing(want)[k + 1][b], k + 1, want, start)
<1> DEFINE n == Smaller(want[k + 1], b.remaining)
<1> DEFINE next == Put(b, k + 1, n)
<1>1. k \in Nat /\ k + 1 \in 1 .. MaxCard /\ k + 1 \in Cards
  BY DeckServiceAssumption DEF Cards
<1>2. \A c \in Cards : start.deck[c] \in Nat /\ want[c] \in Nat /\ b.deck[c] \in Nat /\ c \in Nat
  <2>1. start.deck \in [Cards -> Nat] /\ want \in [Cards -> Nat] /\ b.deck \in [Cards -> Nat]
    BY DEF Building, Counts
  <2> QED BY <2>1, CardsAreNumbers
<1>3. start.remaining \in Nat /\ b.remaining \in Nat /\ b.deck \in Counts /\ start.deck \in Counts
  BY DEF Building
<1>4. n \in Nat /\ n <= want[k + 1] /\ n <= b.remaining /\ (n < b.remaining => n = want[k + 1])
  BY <1>1, <1>2, <1>3 DEF Smaller
<1> HIDE DEF n
<1>5. /\ next \in Building /\ next.remaining = b.remaining - n
      /\ next.deck = [b.deck EXCEPT ![k + 1] = @ + n]
  BY <1>1, <1>4, PutIs
<1>6. Dealing(want)[k + 1][b] = next
  BY <1>1, DealingIs DEF n
<1> HIDE DEF next
<1>7. next.deck \in Counts
  BY <1>5 DEF Building
<1>8. next.deck[k + 1] = b.deck[k + 1] + n /\ \A c \in Cards : c # k + 1 => next.deck[c] = b.deck[c]
  BY <1>1, <1>3, <1>5 DEF Counts
<1>9. CountDeckCards(next.deck) + next.remaining = CountDeckCards(start.deck) + start.remaining
  <2>1. CountDeckCards(next.deck) = CountDeckCards(b.deck) + next.deck[k + 1] - b.deck[k + 1]
    BY <1>1, <1>3, <1>7, <1>8, CountChanges
  <2>2. CountDeckCards(next.deck) = CountDeckCards(b.deck) + n
    BY <1>1, <1>2, <1>3, <1>4, <1>8, <2>1, CountType
  <2>3. CountDeckCards(b.deck) \in Nat
    BY <1>3, CountType
  <2>4. CountDeckCards(next.deck) + next.remaining = CountDeckCards(b.deck) + b.remaining
    BY <1>3, <1>4, <1>5, <2>2, <2>3
  <2> QED BY <2>4 DEF Dealt
<1>10. ASSUME NEW c \in Cards
       PROVE  /\ start.deck[c] <= next.deck[c] /\ next.deck[c] <= start.deck[c] + want[c]
              /\ c <= k + 1 /\ next.remaining > 0 => next.deck[c] = start.deck[c] + want[c]
              /\ c > k + 1 => next.deck[c] = start.deck[c]
  <2>1. /\ start.deck[c] <= b.deck[c] /\ b.deck[c] <= start.deck[c] + want[c]
        /\ c <= k /\ b.remaining > 0 => b.deck[c] = start.deck[c] + want[c]
        /\ c > k => b.deck[c] = start.deck[c]
    BY DEF Dealt
  <2>2. CASE c = k + 1
    <3>1. b.deck[c] = start.deck[c] /\ next.deck[c] = start.deck[c] + n
      BY <1>1, <1>8, <2>1, <2>2
    <3>2. next.remaining > 0 => n = want[c]
      BY <1>3, <1>4, <1>5, <2>2
    <3>3. n <= want[c]
      BY <1>4, <2>2
    <3> QED BY <1>1, <1>2, <1>4, <2>2, <3>1, <3>2, <3>3
  <2>3. CASE c # k + 1
    <3>1. next.deck[c] = b.deck[c]
      BY <1>8, <2>3
    <3>2. next.remaining > 0 => b.remaining > 0
      BY <1>3, <1>4, <1>5
    <3>3. (c <= k + 1 => c <= k) /\ (c > k + 1 => c > k)
      BY <1>1, <1>2, <2>3
    <3> QED BY <2>1, <3>1, <3>2, <3>3
  <2> QED BY <2>2, <2>3
<1> QED BY <1>6, <1>9, <1>10 DEF Dealt

\* After all cards: everything wanted, or a deck without a place left.
LEMMA DealsAll ==
  ASSUME NEW want \in Counts, NEW start \in Building, NEW result,
         Run(Building, MaxCard, start, Dealing(want), result)
  PROVE  result \in Building /\ Dealt(result, MaxCard, want, start)
<1> DEFINE Q == [k \in 0 .. MaxCard |-> {b \in Building : Dealt(b, k, want, start)}]
<1>1. MaxCard \in Nat /\ Dealing(want) \in [1 .. MaxCard -> [Building -> Building]]
  BY DeckServiceAssumption, DealingIs
<1>2. Q \in [0 .. MaxCard -> SUBSET Building]
  OBVIOUS
<1>3. start \in Q[0]
  <2>1. \A c \in Cards : start.deck[c] \in Nat /\ want[c] \in Nat /\ c \in Nat /\ c > 0
    <3>1. start.deck \in [Cards -> Nat] /\ want \in [Cards -> Nat]
      BY DEF Building, Counts
    <3> QED BY <3>1, CardsAreNumbers
  <2>2. Dealt(start, 0, want, start)
    BY <2>1 DEF Dealt
  <2> QED BY <1>1, <2>2
<1>4. ASSUME NEW k \in 0 .. MaxCard - 1, NEW b \in Q[k]
      PROVE  Dealing(want)[k + 1][b] \in Q[k + 1]
  <2>1. k \in 0 .. MaxCard /\ k + 1 \in 0 .. MaxCard /\ k + 1 \in 1 .. MaxCard
    BY <1>1
  <2>2. b \in Building /\ Dealt(b, k, want, start)
    BY <2>1
  <2>3. Dealt(Dealing(want)[k + 1][b], k + 1, want, start)
    BY <2>2, DealtNext
  <2>4. Dealing(want)[k + 1][b] \in Building
    BY <1>1, <2>1, <2>2
  <2> QED BY <2>1, <2>3, <2>4
<1>5. result \in Q[MaxCard]
  <2> HIDE DEF Q
  <2> QED BY <1>1, <1>2, <1>3, <1>4, RunKeeps
<1> QED BY <1>1, <1>5

\* The catalogue gives one of each card, as long as there are places.
DealtOnes(b, k, start) ==
  /\ b.remaining = IF k <= start.remaining THEN start.remaining - k ELSE 0
  /\ \A c \in Cards :
       b.deck[c] = IF c <= k /\ c <= start.remaining THEN start.deck[c] + 1 ELSE start.deck[c]

\* The same of the pass over the catalogue, which deals one copy of each.
LEMMA DealtOnesNext ==
  ASSUME NEW start \in Building, NEW b \in Building,
         NEW k \in 0 .. MaxCard - 1, DealtOnes(b, k, start)
  PROVE  DealtOnes(Dealing(OneOfEach)[k + 1][b], k + 1, start)
<1> DEFINE n == Smaller(1, b.remaining)
<1> DEFINE next == Put(b, k + 1, n)
<1>1. k \in Nat /\ k + 1 \in 1 .. MaxCard /\ k + 1 \in Cards
  BY DeckServiceAssumption DEF Cards
<1>2. \A c \in Cards : start.deck[c] \in Nat /\ b.deck[c] \in Nat /\ c \in Nat
  <2>1. start.deck \in [Cards -> Nat] /\ b.deck \in [Cards -> Nat]
    BY DEF Building, Counts
  <2> QED BY <2>1, CardsAreNumbers
<1>3. start.remaining \in Nat /\ b.remaining \in Nat /\ b.deck \in Counts
  BY DEF Building
<1>4. n = IF b.remaining = 0 THEN 0 ELSE 1
  BY <1>3 DEF Smaller
<1>5. n \in Nat /\ n <= b.remaining
  BY <1>3, <1>4
<1> HIDE DEF n
<1>6. /\ next \in Building /\ next.remaining = b.remaining - n
      /\ next.deck = [b.deck EXCEPT ![k + 1] = @ + n]
  BY <1>1, <1>5, PutIs
<1>7. Dealing(OneOfEach)[k + 1][b] = next
  <2>1. OneOfEach[k + 1] = 1
    BY <1>1 DEF OneOfEach
  <2> QED BY <1>1, <2>1, StartIsBuilding, DealingIs DEF n
<1> HIDE DEF next
<1>8. next.deck[k + 1] = b.deck[k + 1] + n /\ \A c \in Cards : c # k + 1 => next.deck[c] = b.deck[c]
  BY <1>1, <1>3, <1>6 DEF Counts
<1>9. b.remaining = IF k <= start.remaining THEN start.remaining - k ELSE 0
  BY DEF DealtOnes
<1>10. n = IF k + 1 <= start.remaining THEN 1 ELSE 0
  BY <1>1, <1>3, <1>4, <1>9
<1>11. next.remaining = IF k + 1 <= start.remaining THEN start.remaining - (k + 1) ELSE 0
  BY <1>1, <1>3, <1>6, <1>9, <1>10
<1>12. ASSUME NEW c \in Cards
       PROVE  next.deck[c] = IF c <= k + 1 /\ c <= start.remaining
                             THEN start.deck[c] + 1 ELSE start.deck[c]
  <2>1. b.deck[c] = IF c <= k /\ c <= start.remaining THEN start.deck[c] + 1 ELSE start.deck[c]
    BY DEF DealtOnes
  <2>2. CASE c = k + 1
    <3>1. b.deck[c] = start.deck[c]
      BY <1>1, <2>1, <2>2
    <3> QED BY <1>2, <1>8, <1>10, <2>2, <3>1, <1>1
  <2>3. CASE c # k + 1
    <3>1. next.deck[c] = b.deck[c]
      BY <1>8, <2>3
    <3>2. c <= k + 1 <=> c <= k
      BY <1>1, <1>2, <2>3
    <3> QED BY <2>1, <3>1, <3>2
  <2> QED BY <2>2, <2>3
<1> QED BY <1>7, <1>11, <1>12 DEF DealtOnes

\* It deals one copy of the first cards, as many as places were left.
LEMMA DealsOnes ==
  ASSUME NEW start \in Building, NEW result,
         Run(Building, MaxCard, start, Dealing(OneOfEach), result)
  PROVE  DealtOnes(result, MaxCard, start)
<1> DEFINE Q == [k \in 0 .. MaxCard |-> {b \in Building : DealtOnes(b, k, start)}]
<1>1. MaxCard \in Nat /\ Dealing(OneOfEach) \in [1 .. MaxCard -> [Building -> Building]]
  BY DeckServiceAssumption, DealingIs, StartIsBuilding
<1>2. Q \in [0 .. MaxCard -> SUBSET Building]
  OBVIOUS
<1>3. start \in Q[0]
  <2>1. start.remaining \in Nat /\ \A c \in Cards : c \in Nat /\ ~ (c <= 0)
    BY DEF Building, Cards
  <2>2. DealtOnes(start, 0, start)
    BY <2>1 DEF DealtOnes
  <2> QED BY <1>1, <2>2
<1>4. ASSUME NEW k \in 0 .. MaxCard - 1, NEW b \in Q[k]
      PROVE  Dealing(OneOfEach)[k + 1][b] \in Q[k + 1]
  <2>1. k \in 0 .. MaxCard /\ k + 1 \in 0 .. MaxCard /\ k + 1 \in 1 .. MaxCard
    BY <1>1
  <2>2. b \in Building /\ DealtOnes(b, k, start)
    BY <2>1
  <2>3. DealtOnes(Dealing(OneOfEach)[k + 1][b], k + 1, start)
    BY <2>2, DealtOnesNext
  <2>4. Dealing(OneOfEach)[k + 1][b] \in Building
    BY <1>1, <2>1, <2>2
  <2> QED BY <2>1, <2>3, <2>4
<1>5. result \in Q[MaxCard]
  <2> HIDE DEF Q
  <2> QED BY <1>1, <1>2, <1>3, <1>4, RunKeeps
<1> QED BY <1>1, <1>5

\* The deck that is dealt: all or some of the cards owned, then, if all of them leave room,
\* one of each card up to the last place.
LEMMA BuildIs ==
  ASSUME NEW inventory \in Counts
  PROVE  \E owned \in Building :
           /\ CountDeckCards(owned.deck) + owned.remaining = DeckSize
           /\ \A c \in Cards : owned.deck[c] <= inventory[c]
           /\ owned.remaining > 0 => \A c \in Cards : owned.deck[c] = inventory[c]
           /\ BuildDeckCounts(inventory) \in Counts
           /\ \A c \in Cards : BuildDeckCounts(inventory)[c] =
                IF c <= owned.remaining THEN owned.deck[c] + 1 ELSE owned.deck[c]
           /\ CountDeckCards(BuildDeckCounts(inventory)) <= DeckSize
           /\ DeckSize <= MaxCard => CountDeckCards(BuildDeckCounts(inventory)) = DeckSize
<1> DEFINE owned == OwnedFirst(inventory)
<1> DEFINE full == ThenCatalogue(owned)
<1>1. owned \in Building /\ Dealt(owned, MaxCard, inventory, StartOfDeck)
  BY OwnedRuns, DealsAll, StartIsBuilding
<1>2. full \in Building /\ Dealt(full, MaxCard, OneOfEach, owned) /\ DealtOnes(full, MaxCard, owned)
  <2> HIDE DEF owned
  <2> QED BY <1>1, CatalogueRuns, DealsAll, DealsOnes, StartIsBuilding
<1>3. BuildDeckCounts(inventory) = full.deck
  BY BuildsInTwo
<1> HIDE DEF owned, full
<1>4. StartOfDeck.deck = NoCards /\ StartOfDeck.remaining = DeckSize /\ DeckSize \in Nat
      /\ MaxCard \in Nat
  BY DeckServiceAssumption DEF StartOfDeck
<1>5. CountDeckCards(owned.deck) + owned.remaining = DeckSize
  BY <1>1, <1>4, NoCardsCount DEF Dealt
<1>6. \A c \in Cards : NoCards[c] = 0 /\ inventory[c] \in Nat /\ owned.deck[c] \in Nat
                       /\ c <= MaxCard /\ c \in Nat
  BY <1>1, <1>4 DEF NoCards, Counts, Building, Cards
<1>7. \A c \in Cards : owned.deck[c] <= inventory[c]
  BY <1>1, <1>4, <1>6 DEF Dealt
<1>8. owned.remaining > 0 => \A c \in Cards : owned.deck[c] = inventory[c]
  BY <1>1, <1>4, <1>6 DEF Dealt
<1>9. \A c \in Cards : full.deck[c] =
                IF c <= owned.remaining THEN owned.deck[c] + 1 ELSE owned.deck[c]
  BY <1>2, <1>6 DEF DealtOnes
<1>10. ASSUME DeckSize <= MaxCard PROVE CountDeckCards(full.deck) = DeckSize
  <2>1. owned.remaining \in Nat /\ CountDeckCards(owned.deck) \in Nat
        /\ CountDeckCards(full.deck) \in Nat
    BY <1>1, <1>2, CountType DEF Building
  <2>2. owned.remaining <= MaxCard
    BY <1>4, <1>5, <1>10, <2>1
  <2>3. full.remaining = 0
    BY <1>2, <1>4, <2>1, <2>2 DEF DealtOnes
  <2>4. CountDeckCards(full.deck) + full.remaining = DeckSize
    BY <1>2, <1>5 DEF Dealt
  <2> QED BY <2>1, <2>3, <2>4
<1>11. full.deck \in Counts
  BY <1>2 DEF Building
<1>12. CountDeckCards(full.deck) <= DeckSize
  <2>1. CountDeckCards(full.deck) + full.remaining = DeckSize
    BY <1>2, <1>5 DEF Dealt
  <2>2. full.remaining \in Nat /\ CountDeckCards(full.deck) \in Nat
    BY <1>2, CountType DEF Building
  <2> QED BY <1>4, <2>1, <2>2
<1> QED BY <1>1, <1>3, <1>5, <1>7, <1>8, <1>9, <1>10, <1>11, <1>12

-----------------------------------------------------------------------------
(***************************************************************************)
(* What the cards service keeps, whoever calls it                          *)
(***************************************************************************)

\* A deck that may be stored.  A catalogue smaller than a deck cannot fill one.
Fits(cards) ==
  /\ cards \in Counts
  /\ CountDeckCards(cards) <= DeckSize
  /\ DeckSize <= MaxCard => CountDeckCards(cards) = DeckSize

\* What a handler holds fits the place it is at.
Work(hd) ==
  /\ hd \in Handler
  /\ hd.at \in {"delete", "insert"} /\ hd.request.does \in {"save", "fill"} => Fits(hd.copy)
  /\ hd.at = "read" /\ hd.request.does = "save" => hd.request.cards \in Counts

FillerWork ==
  /\ \A u \in filler.todo : filler.rows[u] # NoRow
  /\ filler.at = "insert" => filler.rows[filler.user] # NoRow

ServiceInv ==
  /\ ServiceTypes
  /\ \A h \in Handlers : Work(handler[h])
  /\ FillerWork
  /\ \A u \in Users : decks[u] # NoRow => Fits(decks[u])

\* The cards service moves: a handler, or the instance that starts.
ServiceMoves ==
  FillerStep \/ FillerStops \/ \E h \in Handlers : HandlerStep(h) \/ Fails(h)

\* The deck that is dealt is one the service may store.
LEMMA BuildFits ==
  ASSUME NEW inventory \in Counts
  PROVE  Fits(BuildDeckCounts(inventory))
BY BuildIs DEF Fits

\* The starter cards are an inventory.
LEMMA StarterType == StarterCards \in Counts
BY DeckServiceAssumption DEF StarterCards, Counts

\* A fault is counted within its bound.
LEMMA FaultType ==
  ASSUME faults \in 0 .. MaxFaults, Fault
  PROVE  faults' \in 0 .. MaxFaults /\ faults' # 0
BY DeckServiceAssumption DEF Fault

\* A free handler.
LEMMA IdleWorks ==
  ASSUME filler \in Filler
  PROVE  Idle \in Handler /\ Work(Idle) /\ Idle.at = "idle" /\ Idle.from = "nobody"
         /\ NoRequest \in Request /\ FillerOff \in Filler
<1>1. (CHOOSE u \in Users : TRUE) \in Users
  BY DEF Filler
<1>2. NoRequest \in Request
  BY <1>1 DEF NoRequest, Request
<1>3. Idle \in Handler
  BY <1>2, DeckServiceAssumption DEF Idle, Handler, Answer
<1>4. FillerOff \in Filler
  BY <1>1 DEF FillerOff, Filler, NobodyHasOne, Table
<1> QED BY <1>2, <1>3, <1>4 DEF Work, Idle

\* One handler changes.
LEMMA HandlerChanges ==
  ASSUME ServiceInv, NEW h \in Handlers, NEW hd, Work(hd),
         handler' = [handler EXCEPT ![h] = hd]
  PROVE  /\ handler' \in [Handlers -> Handler]
         /\ \A g \in Handlers : Work(handler'[g])
         /\ handler'[h] = hd
         /\ \A g \in Handlers : g # h => handler'[g] = handler[g]
BY DEF ServiceInv, ServiceTypes, Work

\* A handler that answers: idle if nobody waits.
LEMMA AnsweredWorks ==
  ASSUME filler \in Filler, NEW hd \in Handler, NEW answer \in Answer,
         NEW row \in Counts \cup {NoRow}
  PROVE  /\ Work(Answered(hd, answer, row))
         /\ hd.from = "nobody" => Answered(hd, answer, row) = Idle
         /\ hd.from # "nobody" =>
              /\ Answered(hd, answer, row).at = "done"
              /\ Answered(hd, answer, row).from = hd.from
              /\ Answered(hd, answer, row).answer = answer
              /\ Answered(hd, answer, row).copy = row
              /\ Answered(hd, answer, row).request = NoRequest
<1>1. CASE hd.from = "nobody"
  BY <1>1, IdleWorks DEF Answered
<1>2. CASE hd.from # "nobody"
  <2> DEFINE new == [hd EXCEPT !.at = "done", !.request = NoRequest, !.answer = answer,
                               !.copy = row]
  <2>1. Answered(hd, answer, row) = new
    BY <1>2 DEF Answered
  <2>2. new \in Handler /\ new.at = "done" /\ new.from = hd.from /\ new.answer = answer
        /\ new.copy = row /\ new.request = NoRequest
    BY IdleWorks DEF Handler
  <2> HIDE DEF new
  <2> QED BY <1>2, <2>1, <2>2 DEF Work
<1> QED BY <1>1, <1>2

\* A handler that has taken a request.
LEMMA WorkingWorks ==
  ASSUME NEW caller \in Callers, NEW request \in Request,
         request.does = "save" => request.cards \in Counts
  PROVE  /\ Work(Working(caller, request))
         /\ Working(caller, request).at = FirstPlace(request.does)
         /\ Working(caller, request).from = caller
         /\ Working(caller, request).request = request
<1>1. request.does \in {"create", "inventory", "save", "fill", "delete", "get"}
  BY DEF Request
<1>2. FirstPlace(request.does) \in {"read", "delete", "insert"}
      /\ (FirstPlace(request.does) = "delete" => request.does = "delete")
      /\ (FirstPlace(request.does) = "insert" => request.does = "create")
  BY <1>1 DEF FirstPlace
<1>3. Working(caller, request) \in Handler
  BY <1>2 DEF Working, Handler, Answer
<1> QED BY <1>2, <1>3 DEF Work, Working

\* A step that changes one handler and no table.
LEMMA HandlerOnly ==
  ASSUME ServiceInv, NEW h \in Handlers, NEW hd, Work(hd),
         handler' = [handler EXCEPT ![h] = hd],
         UNCHANGED <<inventories, decks, filler>>, faults' \in 0 .. MaxFaults
  PROVE  ServiceInv'
<1>1. /\ handler' \in [Handlers -> Handler]
      /\ \A g \in Handlers : Work(handler'[g])
  BY HandlerChanges
<1>2. ServiceTypes'
  BY <1>1 DEF ServiceInv, ServiceTypes
<1>3. (\A g \in Handlers : Work(handler[g]))'
  BY <1>1 DEF Work
<1> QED BY <1>2, <1>3 DEF ServiceInv, FillerWork

\* A request is taken by a free handler.
LEMMA TakesKept ==
  ASSUME ServiceInv, NEW caller \in Callers, NEW request \in Request,
         request.does = "save" => request.cards \in Counts,
         Takes(caller, request), UNCHANGED <<inventories, decks, filler, faults>>
  PROVE  ServiceInv'
<1>1. PICK h \in Handlers : handler' = [handler EXCEPT ![h] = Working(caller, request)]
  BY DEF Takes
<1>2. faults' \in 0 .. MaxFaults
  BY DEF ServiceInv, ServiceTypes
<1> QED BY <1>1, <1>2, WorkingWorks, HandlerOnly

\* A handler answers and no table changes.
LEMMA AnswersKept ==
  ASSUME ServiceInv, NEW h \in Handlers, NEW answer \in Answer, Answers(h, answer),
         UNCHANGED <<inventories, decks, filler>>, faults' \in 0 .. MaxFaults
  PROVE  ServiceInv'
<1>1. handler' = [handler EXCEPT ![h] = Answered(handler[h], answer, NoRow)]
  BY DEF Answers
<1>2. Work(Answered(handler[h], answer, NoRow))
  BY AnsweredWorks DEF ServiceInv, ServiceTypes
<1> QED BY <1>1, <1>2, HandlerOnly

\* A caller that hears the answer, or goes without one.
LEMMA HearsKept ==
  ASSUME ServiceInv, NEW caller, NEW h \in Handlers, NEW answer, HearsOf(caller, h, answer),
         UNCHANGED <<inventories, decks, filler>>
  PROVE  ServiceInv'
<1>1. CASE handler[h].at = "done"
  <2>1. handler' = [handler EXCEPT ![h] = Idle] /\ faults' \in 0 .. MaxFaults
    BY <1>1 DEF HearsOf, ServiceInv, ServiceTypes
  <2> QED BY <2>1, IdleWorks, HandlerOnly DEF ServiceInv, ServiceTypes
<1>2. CASE handler[h].at # "done"
  <2> DEFINE new == [handler[h] EXCEPT !.from = "nobody"]
  <2>1. handler' = [handler EXCEPT ![h] = new] /\ Fault
    BY <1>2 DEF HearsOf
  <2>2. handler[h] \in Handler /\ Work(handler[h]) /\ faults \in 0 .. MaxFaults
    BY DEF ServiceInv, ServiceTypes
  <2>3. new \in Handler /\ new.at = handler[h].at /\ new.request = handler[h].request
        /\ new.copy = handler[h].copy
    BY <2>2, DeckServiceAssumption DEF Handler
  <2> HIDE DEF new
  <2>4. Work(new)
    BY <2>2, <2>3 DEF Work
  <2> QED BY <2>1, <2>2, <2>4, FaultType, HandlerOnly
<1> QED BY <1>1, <1>2

\* The statements of the handlers.
LEMMA HandlerStepKept ==
  ASSUME ServiceInv, NEW h \in Handlers, HandlerStep(h)
  PROVE  ServiceInv'
<1>1. /\ handler[h] \in Handler /\ Work(handler[h]) /\ faults \in 0 .. MaxFaults
      /\ filler \in Filler /\ inventories \in Table /\ decks \in Table
      /\ handler \in [Handlers -> Handler]
  BY DEF ServiceInv, ServiceTypes
<1>2. handler[h].request \in Request /\ UserOf(h) \in Users
  BY <1>1 DEF Handler, Request, UserOf
<1>3. inventories[UserOf(h)] \in Counts \cup {NoRow} /\ decks[UserOf(h)] \in Counts \cup {NoRow}
  BY <1>1, <1>2 DEF Table
<1>4. "yes" \in Answer /\ "no" \in Answer
  BY DEF Answer
<1>5. CASE ReadRow(h)
  <2>1. PICK answer \in Answer, row \in Counts \cup {NoRow} :
          handler' = [handler EXCEPT ![h] = Answered(handler[h], answer, row)]
    BY <1>3, <1>4, <1>5 DEF ReadRow
  <2>2. UNCHANGED <<inventories, decks, filler>> /\ faults' \in 0 .. MaxFaults
    BY <1>1, <1>5 DEF ReadRow
  <2>3. Work(Answered(handler[h], answer, row))
    BY <1>1, <2>1, AnsweredWorks
  <2> QED BY <2>1, <2>2, <2>3, HandlerOnly
<1>6. CASE SaveStarts(h)
  <2>1. UNCHANGED <<inventories, decks, filler>> /\ faults' \in 0 .. MaxFaults
        /\ handler[h].at = "read" /\ handler[h].request.does = "save"
    BY <1>1, <1>6, FaultType DEF SaveStarts
  <2>2. CASE CountDeckCards(handler[h].request.cards) # DeckSize
    BY <1>4, <1>6, <2>1, <2>2, AnswersKept DEF SaveStarts
  <2>3. CASE CountDeckCards(handler[h].request.cards) = DeckSize
    <3>1. PICK place \in {"insert", "delete"} :
            handler' = [handler EXCEPT ![h].copy = handler[h].request.cards, ![h].at = place]
      BY <1>6, <2>3 DEF SaveStarts
    <3> DEFINE new == [handler[h] EXCEPT !.copy = handler[h].request.cards, !.at = place]
    <3>2. handler' = [handler EXCEPT ![h] = new]
      BY <3>1
    <3>3. handler[h].request.cards \in Counts
      BY <1>1, <2>1 DEF Work
    <3>4. new \in Handler /\ new.copy = handler[h].request.cards /\ new.at = place
          /\ new.request = handler[h].request
      BY <1>1, <3>3 DEF Handler
    <3> HIDE DEF new
    <3>5. Work(new)
      BY <2>1, <2>3, <3>3, <3>4, DeckServiceAssumption DEF Work, Fits
    <3> QED BY <2>1, <3>2, <3>5, HandlerOnly
  <2> QED BY <2>2, <2>3
<1>7. CASE FillStarts(h)
  <2>1. UNCHANGED <<inventories, decks, filler>> /\ faults' \in 0 .. MaxFaults
        /\ handler[h].at = "read" /\ handler[h].request.does = "fill"
    BY <1>1, <1>7 DEF FillStarts
  <2>2. CASE inventories[UserOf(h)] = NoRow
    BY <1>4, <1>7, <2>1, <2>2, AnswersKept DEF FillStarts
  <2>3. CASE inventories[UserOf(h)] # NoRow
    <3> DEFINE deck == BuildDeckCounts(inventories[UserOf(h)])
    <3>1. handler' = [handler EXCEPT ![h].copy = deck, ![h].at = "delete"]
      BY <1>7, <2>3 DEF FillStarts
    <3>2. Fits(deck)
      BY <1>3, <2>3, BuildFits
    <3> HIDE DEF deck
    <3> DEFINE new == [handler[h] EXCEPT !.copy = deck, !.at = "delete"]
    <3>3. handler' = [handler EXCEPT ![h] = new]
      BY <3>1
    <3>4. new \in Handler /\ new.copy = deck /\ new.at = "delete"
          /\ new.request = handler[h].request
      BY <1>1, <3>2 DEF Handler, Fits
    <3> HIDE DEF new
    <3>5. Work(new)
      BY <2>1, <3>2, <3>4 DEF Work
    <3> QED BY <2>1, <3>3, <3>5, HandlerOnly
  <2> QED BY <2>2, <2>3
<1>8. CASE DeleteRow(h)
  <2>1. /\ decks' = [decks EXCEPT ![UserOf(h)] = NoRow]
        /\ UNCHANGED <<inventories, filler>> /\ handler[h].at = "delete"
    BY <1>8 DEF DeleteRow
  <2>2. decks' \in Table /\ \A u \in Users : decks'[u] # NoRow => decks'[u] = decks[u]
    BY <1>1, <2>1 DEF Table
  <2>3. \E hd : Work(hd) /\ handler' = [handler EXCEPT ![h] = hd] /\ faults' \in 0 .. MaxFaults
    <3>1. CASE handler[h].request.does = "delete"
      <4>1. handler' = [handler EXCEPT ![h] = Answered(handler[h], "yes", NoRow)] /\ Fault
        BY <1>8, <3>1 DEF DeleteRow, Answers
      <4>2. Work(Answered(handler[h], "yes", NoRow)) /\ faults' \in 0 .. MaxFaults
        BY <1>1, <1>4, <4>1, AnsweredWorks, FaultType
      <4> QED BY <4>1, <4>2
    <3>2. CASE handler[h].request.does # "delete"
      <4> DEFINE new == [handler[h] EXCEPT !.at = "insert"]
      <4>1. handler' = [handler EXCEPT ![h] = new] /\ UNCHANGED faults
        BY <1>8, <3>2 DEF DeleteRow, Moves
      <4>2. new \in Handler /\ new.at = "insert" /\ new.copy = handler[h].copy
            /\ new.request = handler[h].request
        BY <1>1 DEF Handler
      <4> HIDE DEF new
      <4>3. Work(new)
        BY <1>1, <2>1, <4>2 DEF Work
      <4> QED BY <1>1, <4>1, <4>3
    <3> QED BY <3>1, <3>2
  <2>4. PICK hd : Work(hd) /\ handler' = [handler EXCEPT ![h] = hd] /\ faults' \in 0 .. MaxFaults
    BY <2>3
  <2>5. handler' \in [Handlers -> Handler] /\ \A g \in Handlers : Work(handler'[g])
    BY <2>4, HandlerChanges
  <2>6. ServiceTypes'
    BY <1>1, <2>1, <2>2, <2>4, <2>5 DEF ServiceTypes
  <2>7. (\A g \in Handlers : Work(handler[g]))' /\ FillerWork'
    BY <2>1, <2>5 DEF Work, ServiceInv, FillerWork
  <2> QED BY <2>2, <2>6, <2>7 DEF ServiceInv
<1>9. CASE InsertDeck(h)
  <2>1. CASE decks[UserOf(h)] # NoRow
    BY <1>1, <1>4, <1>9, <2>1, AnswersKept DEF InsertDeck
  <2>2. CASE decks[UserOf(h)] = NoRow
    <3>1. /\ decks' = [decks EXCEPT ![UserOf(h)] = handler[h].copy]
          /\ handler' = [handler EXCEPT ![h] = Answered(handler[h], "yes", NoRow)]
          /\ UNCHANGED <<inventories, filler, faults>>
          /\ handler[h].at = "insert" /\ handler[h].request.does \in {"save", "fill"}
      BY <1>9, <2>2 DEF InsertDeck, Answers
    <3>2. Fits(handler[h].copy)
      BY <1>1, <3>1 DEF Work
    <3>3. decks' \in Table /\ \A u \in Users : decks'[u] # NoRow => Fits(decks'[u])
      BY <1>1, <1>2, <3>1, <3>2 DEF Table, ServiceInv, Fits
    <3>4. handler' \in [Handlers -> Handler] /\ \A g \in Handlers : Work(handler'[g])
      <4>1. Work(Answered(handler[h], "yes", NoRow))
        BY <1>1, <1>4, AnsweredWorks
      <4> QED BY <3>1, <4>1, HandlerChanges
    <3>5. ServiceTypes'
      BY <1>1, <3>1, <3>3, <3>4 DEF ServiceTypes
    <3>6. (\A g \in Handlers : Work(handler[g]))' /\ FillerWork'
      BY <3>1, <3>4 DEF Work, ServiceInv, FillerWork
    <3>7. (\A u \in Users : decks[u] # NoRow => Fits(decks[u]))'
      BY <3>3 DEF Fits
    <3> QED BY <3>5, <3>6, <3>7 DEF ServiceInv
  <2> QED BY <2>1, <2>2
<1>10. CASE InsertInventory(h)
  <2>1. CASE inventories[UserOf(h)] # NoRow
    BY <1>1, <1>4, <1>10, <2>1, AnswersKept DEF InsertInventory
  <2>2. CASE inventories[UserOf(h)] = NoRow
    <3> DEFINE row == IF handler[h].request.cards = NoRow THEN StarterCards
                      ELSE [c \in Cards |-> Smaller(handler[h].request.cards[c], MaxCopies)]
    <3>1. /\ inventories' = [inventories EXCEPT ![UserOf(h)] = row]
          /\ handler' = [handler EXCEPT ![h] = Answered(handler[h], "yes", NoRow)]
          /\ UNCHANGED <<decks, filler, faults>>
      BY <1>10, <2>2 DEF InsertInventory, Answers
    <3>2. row \in Counts
      <4>1. CASE handler[h].request.cards = NoRow
        BY <4>1, StarterType
      <4>2. CASE handler[h].request.cards # NoRow
        <5>1. handler[h].request.cards \in [Cards -> Nat]
          BY <1>2, <4>2 DEF Request, Counts
        <5>2. \A c \in Cards : Smaller(handler[h].request.cards[c], MaxCopies) \in Nat
          BY <5>1, DeckServiceAssumption DEF Smaller
        <5> QED BY <4>2, <5>2 DEF Counts
      <4> QED BY <4>1, <4>2
    <3> HIDE DEF row
    <3>3. inventories' \in Table
      BY <1>1, <3>1, <3>2 DEF Table
    <3>4. handler' \in [Handlers -> Handler] /\ \A g \in Handlers : Work(handler'[g])
      <4>1. Work(Answered(handler[h], "yes", NoRow))
        BY <1>1, <1>4, AnsweredWorks
      <4> QED BY <3>1, <4>1, HandlerChanges
    <3>5. ServiceTypes'
      BY <1>1, <3>1, <3>3, <3>4 DEF ServiceTypes
    <3>6. (\A g \in Handlers : Work(handler[g]))' /\ FillerWork'
      BY <3>1, <3>4 DEF Work, ServiceInv, FillerWork
    <3> QED BY <3>1, <3>5, <3>6 DEF ServiceInv
  <2> QED BY <2>1, <2>2
<1> QED BY <1>5, <1>6, <1>7, <1>8, <1>9, <1>10 DEF HandlerStep

\* A statement that fails.
LEMMA FailsKept ==
  ASSUME ServiceInv, NEW h \in Handlers, Fails(h)
  PROVE  ServiceInv'
<1>1. PICK answer \in {"no", "lost"} : Answers(h, answer)
  BY DEF Fails
<1>2. answer \in Answer /\ faults' \in 0 .. MaxFaults /\ UNCHANGED <<inventories, decks, filler>>
  BY FaultType DEF Answer, Fails, ServiceInv, ServiceTypes
<1> QED BY <1>1, <1>2, AnswersKept

\* The fill at start-up.
LEMMA FillerKept ==
  ASSUME ServiceInv, FillerStep \/ FillerStops
  PROVE  ServiceInv'
<1>1. /\ filler \in Filler /\ inventories \in Table /\ decks \in Table
      /\ faults \in 0 .. MaxFaults /\ handler \in [Handlers -> Handler]
      /\ \A h \in Handlers : Work(handler[h])
      /\ \A u \in filler.todo : filler.rows[u] # NoRow
      /\ filler.at = "insert" => filler.rows[filler.user] # NoRow
      /\ \A u \in Users : decks[u] # NoRow => Fits(decks[u])
  BY DEF ServiceInv, ServiceTypes, FillerWork
<1>2. UNCHANGED <<inventories, handler, faults>>
  BY DEF FillerStep, FillerStarts, FillerInserts, FillerEnds, FillerLooks, FillerStops
<1>3. /\ FillerOff \in Filler /\ FillerOff.todo = {} /\ FillerOff.at = "off"
      /\ NobodyHasOne \in Table
  BY <1>1, IdleWorks DEF FillerOff, NobodyHasOne, Table
<1>4. SUFFICES /\ filler' \in Filler /\ FillerWork' /\ decks' \in Table
               /\ \A u \in Users : decks'[u] # NoRow => Fits(decks'[u])
  BY <1>1, <1>2 DEF ServiceInv, ServiceTypes, Work, Fits
<1>5. /\ filler.rows \in Table /\ filler.todo \in SUBSET Users /\ filler.user \in Users
      /\ filler.at \in {"off", "look", "insert", "ended"}
  BY <1>1 DEF Filler
<1>6. CASE FillerStarts
  <2> DEFINE new == [filler EXCEPT !.at = "look", !.rows = inventories,
                                   !.todo = {u \in Users : inventories[u] # NoRow}]
  <2>1. filler' = new /\ UNCHANGED decks
    BY <1>6 DEF FillerStarts
  <2>2. new \in Filler /\ new.at = "look" /\ new.rows = inventories
        /\ new.todo = {u \in Users : inventories[u] # NoRow}
    BY <1>1 DEF Filler
  <2> HIDE DEF new
  <2> QED BY <1>1, <2>1, <2>2 DEF FillerWork
<1>7. CASE FillerInserts
  <2>1. filler.at = "insert" /\ filler.rows[filler.user] \in Counts
    BY <1>1, <1>5, <1>7 DEF FillerInserts, Table
  <2>2. CASE decks[filler.user] = NoRow
    <3> DEFINE deck == BuildDeckCounts(filler.rows[filler.user])
    <3>1. decks' = [decks EXCEPT ![filler.user] = deck] /\ filler' = [filler EXCEPT !.at = "look"]
      BY <1>7, <2>2 DEF FillerInserts
    <3>2. Fits(deck)
      BY <2>1, BuildFits
    <3> HIDE DEF deck
    <3>3. decks' \in Table /\ \A u \in Users : decks'[u] # NoRow => Fits(decks'[u])
      BY <1>1, <1>5, <3>1, <3>2 DEF Table, Fits
    <3>4. filler' \in Filler /\ filler'.at = "look" /\ filler'.rows = filler.rows
          /\ filler'.todo = filler.todo
      BY <1>1, <3>1 DEF Filler
    <3> QED BY <1>1, <3>3, <3>4 DEF FillerWork
  <2>3. CASE decks[filler.user] # NoRow
    BY <1>1, <1>3, <1>7, <2>3 DEF FillerInserts, FillerWork
  <2> QED BY <2>2, <2>3
<1>8. CASE FillerEnds
  <2> DEFINE new == [filler EXCEPT !.at = "ended", !.rows = NobodyHasOne]
  <2>1. filler' = new /\ UNCHANGED decks /\ filler.todo = {}
    BY <1>8 DEF FillerEnds
  <2>2. new \in Filler /\ new.at = "ended" /\ new.todo = filler.todo
    BY <1>1, <1>3 DEF Filler
  <2> HIDE DEF new
  <2> QED BY <1>1, <2>1, <2>2 DEF FillerWork
<1>9. ASSUME NEW u \in Users, FillerLooks(u)
      PROVE  /\ filler' \in Filler /\ FillerWork' /\ decks' \in Table
             /\ \A v \in Users : decks'[v] # NoRow => Fits(decks'[v])
  <2>1. u \in filler.todo /\ UNCHANGED decks /\ filler.at = "look"
    BY <1>9 DEF FillerLooks
  <2>2. CASE decks[u] = NoRow
    <3> DEFINE new == [filler EXCEPT !.at = "insert", !.user = u, !.todo = @ \ {u}]
    <3>1. filler' = new
      BY <1>9, <2>2 DEF FillerLooks
    <3>2. new \in Filler /\ new.user = u /\ new.rows = filler.rows
          /\ new.todo = filler.todo \ {u}
      BY <1>1 DEF Filler
    <3> HIDE DEF new
    <3> QED BY <1>1, <2>1, <3>1, <3>2 DEF FillerWork
  <2>3. CASE decks[u] # NoRow
    <3> DEFINE new == [filler EXCEPT !.todo = @ \ {u}]
    <3>1. filler' = new
      BY <1>9, <2>3 DEF FillerLooks
    <3>2. new \in Filler /\ new.at = filler.at /\ new.rows = filler.rows
          /\ new.todo = filler.todo \ {u}
      BY <1>1 DEF Filler
    <3> HIDE DEF new
    <3> QED BY <1>1, <2>1, <3>1, <3>2 DEF FillerWork
  <2> QED BY <2>2, <2>3
<1>10. CASE FillerStops
  BY <1>1, <1>3, <1>10 DEF FillerStops, FillerWork
<1> QED BY <1>6, <1>7, <1>8, <1>9, <1>10 DEF FillerStep

\* Whatever the cards service does keeps its tables and its handlers.
LEMMA ServiceMovesKept ==
  ASSUME ServiceInv, ServiceMoves
  PROVE  ServiceInv'
BY FillerKept, HandlerStepKept, FailsKept DEF ServiceMoves

=============================================================================
