----------------------------- MODULE Arithmetic -----------------------------
(***************************************************************************)
(* Division with remainder, as the ring positions of all the threads use   *)
(* it: (mcnt / Nm) % N_INPUT_BLOCKS, (block + 1) % n_block; and sums.       *)
(***************************************************************************)
EXTENDS Integers, Sequences, FiniteSetTheorems, WellFoundedInduction, TLAPS

\* Quotient and remainder put a number together again.
LEMMA DivMod ==
  ASSUME NEW n \in Nat \ {0}, NEW m \in Int
  PROVE  /\ m = (n * (m \div n)) + (m % n)
         /\ m % n \in 0 .. n-1
         /\ m \div n \in Int
  OBVIOUS

\* They are the only ones that do.
LEMMA DivModUnique ==
  ASSUME NEW n \in Nat \ {0}, NEW q \in Int, NEW r \in 0 .. n-1
  PROVE  /\ ((n * q) + r) \div n = q
         /\ ((n * q) + r) % n = r
  OBVIOUS

\* Adding a multiple of the divisor moves the quotient, not the remainder.
LEMMA DivModShift ==
  ASSUME NEW n \in Nat \ {0}, NEW m \in Int, NEW k \in Int
  PROVE  /\ (m + (n * k)) \div n = (m \div n) + k
         /\ (m + (n * k)) % n = m % n
  <1> DEFINE q == m \div n
             r == m % n
  <1>1. m = (n * q) + r /\ q \in Int /\ r \in 0 .. n-1
    BY DivMod
  <1> HIDE DEF q, r
  <1>2. m + (n * k) = (n * (q + k)) + r
    BY <1>1
  <1>3. /\ ((n * (q + k)) + r) \div n = q + k
        /\ ((n * (q + k)) + r) % n = r
    BY <1>1, DivModUnique, q + k \in Int
  <1>4. QED
    BY <1>2, <1>3 DEF q, r

\* A remainder can be taken early.
LEMMA ModOfSum ==
  ASSUME NEW n \in Nat \ {0}, NEW x \in Int, NEW k \in Int
  PROVE  ((x % n) + k) % n = (x + k) % n
  <1> DEFINE q == x \div n
             r == x % n
  <1>1. x = (n * q) + r /\ q \in Int /\ r \in 0 .. n-1
    BY DivMod
  <1> HIDE DEF q, r
  <1>2. x + k = (r + k) + (n * q)
    BY <1>1
  <1>3. ((r + k) + (n * q)) % n = (r + k) % n
    BY <1>1, DivModShift, r + k \in Int
  <1>4. QED
    BY <1>2, <1>3 DEF r

\* Numbers between a multiple of n and the next one: the multiple is what
\* rounding down gives, and the quotient is that of the multiple.
LEMMA RoundsDown ==
  ASSUME NEW n \in Nat \ {0}, NEW s \in Nat, s % n = 0, NEW m \in s .. s + n - 1
  PROVE  /\ m \div n = s \div n
         /\ m - (m % n) = s
  <1> DEFINE q == s \div n
             r == m - s
  <1>1. s = (n * q) + 0 /\ q \in Int
    BY DivMod
  <1>2. r \in 0 .. n-1
    OBVIOUS
  <1> HIDE DEF q
  <1>3. m = (n * q) + r
    BY <1>1
  <1> HIDE DEF r
  <1>4. /\ ((n * q) + r) \div n = q
        /\ ((n * q) + r) % n = r
    BY <1>1, <1>2, DivModUnique
  <1>5. QED
    BY <1>3, <1>4 DEF q, r

\* What rounding down to a multiple of n gives.
LEMMA RoundDown ==
  ASSUME NEW n \in Nat \ {0}, NEW m \in Nat
  PROVE  /\ m - (m % n) \in Nat
         /\ (m - (m % n)) % n = 0
         /\ (m - (m % n)) \div n = m \div n
         /\ m \in (m - (m % n)) .. (m - (m % n)) + n - 1
         /\ m \div n \in Nat
  <1> DEFINE q == m \div n
  <1>1. m = (n * q) + (m % n) /\ m % n \in 0 .. n-1 /\ q \in Int
    BY DivMod
  <1>2. q >= 0
    <2> SUFFICES ASSUME q < 0 PROVE FALSE
      BY <1>1
    <2>1. n * q <= -n
      BY <1>1
    <2>2. QED
      BY <1>1, <2>1
  <1> HIDE DEF q
  <1>3. m - (m % n) = (n * q) + 0
    BY <1>1
  <1>4. n * q >= 0
    BY <1>1, <1>2
  <1>5. ((n * q) + 0) \div n = q /\ ((n * q) + 0) % n = 0
    BY <1>1, DivModUnique, 0 \in 0 .. n-1
  <1>6. QED
    BY <1>1, <1>2, <1>3, <1>4, <1>5 DEF q

\* The ring position of a mcnt: the one of its block's first mcnt, and the
\* next one a block later.
LEMMA RingPosition ==
  ASSUME NEW n \in Nat \ {0}, NEW k \in Nat \ {0}, NEW m \in Nat
  PROVE  /\ (m \div n) % k \in 0 .. k-1
         /\ ((m - (m % n)) \div n) % k = (m \div n) % k
         /\ ((m + n) \div n) % k = (((m \div n) % k) + 1) % k
         /\ (m + n) % n = m % n
  <1> DEFINE q == m \div n
  <1>1. q \in Nat /\ (m - (m % n)) \div n = q
    BY RoundDown
  <1>2. (m + n) \div n = q + 1 /\ (m + n) % n = m % n
    <2>1. /\ (m + (n * 1)) \div n = (m \div n) + 1
          /\ (m + (n * 1)) % n = m % n
      BY DivModShift, m \in Int, 1 \in Int
    <2>2. m + (n * 1) = m + n
      OBVIOUS
    <2> QED
      BY <2>1, <2>2
  <1> HIDE DEF q
  <1>3. q % k \in 0 .. k-1
    <2>1. \A x \in Int : x % k \in 0 .. k-1
      BY DivMod
    <2>2. q \in Int
      BY <1>1
    <2> QED
      BY <2>1, <2>2
  <1>4. ((q % k) + 1) % k = (q + 1) % k
    <2>1. \A x \in Int : ((x % k) + 1) % k = (x + 1) % k
      BY ModOfSum, 1 \in Int
    <2>2. q \in Int
      BY <1>1
    <2> QED
      BY <2>1, <2>2
  <1> QED
    BY <1>1, <1>2, <1>3, <1>4 DEF q

\* Going k positions round a ring of n and coming to b, in either direction.
LEMMA RingDistance ==
  ASSUME NEW n \in Nat \ {0}, NEW a \in 0 .. n-1, NEW b \in 0 .. n-1,
         NEW x \in Int, x % n = a
  PROVE  /\ b >= a => (x + (b - a)) % n = b
         /\ b < a => (x + (b + n - a)) % n = b
  <1>1. ASSUME b >= a PROVE (x + (b - a)) % n = b
    <2>1. (x + (b - a)) % n = (a + (b - a)) % n
      BY ModOfSum, b - a \in Int
    <2>2. QED
      BY <2>1
  <1>2. ASSUME b < a PROVE (x + (b + n - a)) % n = b
    <2>1. (x + (b + n - a)) % n = (a + (b + n - a)) % n
      BY ModOfSum, b + n - a \in Int
    <2>2. a + (b + n - a) = (n * 1) + b
      OBVIOUS
    <2>3. ((n * 1) + b) % n = b
      BY DivModUnique, 1 \in Int
    <2>4. QED
      BY <2>1, <2>2, <2>3
  <1>3. QED
    BY <1>1, <1>2

\* How far position f of a ring is ahead of position i.
RingAhead(n, i, f) == IF f >= i THEN f - i ELSE f + n - i

\* The next position of a ring.
LEMMA RingNext ==
  ASSUME NEW n \in Nat \ {0}, NEW i \in 0 .. n-1
  PROVE  /\ (i + 1) % n = IF i = n - 1 THEN 0 ELSE i + 1
         /\ (i + 1) % n \in 0 .. n-1
  <1>1. CASE i = n - 1
    BY <1>1, DivModUnique
  <1>2. CASE i # n - 1
    <2>1. i + 1 \in 0 .. n - 1 /\ i + 1 = (n * 0) + (i + 1)
      BY <1>2
    <2> QED
      BY <1>2, <2>1, DivModUnique
  <1> QED
    BY <1>1, <1>2

LEMMA RingAheadType ==
  ASSUME NEW n \in Nat \ {0}, NEW i \in 0 .. n-1, NEW f \in 0 .. n-1
  PROVE  /\ RingAhead(n, i, f) \in 0 .. n-1
         /\ RingAhead(n, i, f) = 0 <=> f = i
         /\ \A g \in 0 .. n-1 : RingAhead(n, i, f) = RingAhead(n, i, g) => f = g
  BY DEF RingAhead

\* Seen from the next position, the one stepped over is the furthest ahead;
\* the others are a step nearer.
LEMMA RingAheadStep ==
  ASSUME NEW n \in Nat \ {0}, NEW i \in 0 .. n-1, NEW f \in 0 .. n-1
  PROVE  RingAhead(n, (i + 1) % n, f) =
           IF f = i THEN n - 1 ELSE RingAhead(n, i, f) - 1
  <1> DEFINE j == (i + 1) % n
  <1>1. j = IF i = n - 1 THEN 0 ELSE i + 1
    BY RingNext
  <1> HIDE DEF j
  <1>2. RingAhead(n, j, f) = IF f = i THEN n - 1 ELSE RingAhead(n, i, f) - 1
    BY <1>1 DEF RingAhead
  <1> QED
    BY <1>2 DEF j

\* The position after f is a step further ahead, or back at the start.
LEMMA RingAheadNext ==
  ASSUME NEW n \in Nat \ {0}, NEW i \in 0 .. n-1, NEW f \in 0 .. n-1
  PROVE  RingAhead(n, i, (f + 1) % n) =
           IF RingAhead(n, i, f) = n - 1 THEN 0 ELSE RingAhead(n, i, f) + 1
  <1> DEFINE j == (f + 1) % n
  <1>1. j = IF f = n - 1 THEN 0 ELSE f + 1
    BY RingNext
  <1> HIDE DEF j
  <1>2. RingAhead(n, i, j) =
          IF RingAhead(n, i, f) = n - 1 THEN 0 ELSE RingAhead(n, i, f) + 1
    BY <1>1 DEF RingAhead
  <1> QED
    BY <1>2 DEF j

\* The position k ahead of another.
LEMMA RingAt ==
  ASSUME NEW n \in Nat \ {0}, NEW i \in 0 .. n-1, NEW k \in 0 .. n-1
  PROVE  /\ (i + k) % n \in 0 .. n-1
         /\ RingAhead(n, i, (i + k) % n) = k
  <1> DEFINE j == (i + k) % n
  <1>1. j = IF i + k < n THEN i + k ELSE i + k - n
    <2>1. CASE i + k < n
      <3>1. i + k \in 0 .. n-1 /\ i + k = (n * 0) + (i + k)
        BY <2>1
      <3> QED
        BY <2>1, <3>1, DivModUnique
    <2>2. CASE i + k >= n
      <3>1. i + k - n \in 0 .. n-1 /\ i + k = (n * 1) + (i + k - n)
        BY <2>2
      <3> QED
        BY <2>2, <3>1, DivModUnique
    <2> QED
      BY <2>1, <2>2
  <1> HIDE DEF j
  <1>2. j \in 0 .. n-1 /\ RingAhead(n, i, j) = k
    BY <1>1 DEF RingAhead
  <1> QED
    BY <1>2 DEF j

-----------------------------------------------------------------------------
(* Sums over finite sets: what MapThenSumSet, a recursive function on the   *)
(* subsets of a set, gives for every function on a finite set.              *)

\* Among sets of elements of a finite set one contains no other of them.
Smallest(T, B) == T \in B /\ \A U \in B : U \subseteq T => U = T

LEMMA SmallestSet ==
  ASSUME NEW S, IsFiniteSet(S), NEW B, B \in SUBSET (SUBSET S), B # {}
  PROVE  \E T : Smallest(T, B)
  <1>1. IsWellFoundedOn(StrictSubsetOrdering(S), SUBSET S)
    <2>1. IsWellFoundedOn(StrictSubsetOrdering(S), FiniteSubsetsOf(S))
      BY FS_StrictSubsetOrderingWellFounded
    <2> QED
      BY <2>1, FS_FiniteSubsetsOfFinite
  <1>2. PICK T \in B : \A U \in B : ~(<<U, T>> \in StrictSubsetOrdering(S))
    BY <1>1, WFMin
  <1> QED
    BY <1>2 DEF StrictSubsetOrdering, Smallest

One(T) == CHOOSE x \in T : TRUE

\* g is the sum of f over the subsets of S.
Sums(f, g, S) ==
  g = [T \in SUBSET S |-> IF T = {} THEN 0 ELSE f[One(T)] + g[T \ {One(T)}]]

\* The sum of all values of f, as MapThenSumSet computes it.
Total(f) == (CHOOSE g : Sums(f, g, DOMAIN f))[DOMAIN f]

\* The recursion, one step.
LEMMA SumsStep ==
  ASSUME NEW S, NEW f, NEW g, Sums(f, g, S)
  PROVE  /\ g[{}] = 0
         /\ \A T \in SUBSET S : T # {} =>
              /\ One(T) \in T /\ T \ {One(T)} \in SUBSET S
              /\ T \ {One(T)} # T
              /\ g[T] = f[One(T)] + g[T \ {One(T)}]
  <1>1. \A T \in SUBSET S : g[T] = IF T = {} THEN 0 ELSE f[One(T)] + g[T \ {One(T)}]
    BY DEF Sums
  <1>2. \A T : T # {} => One(T) \in T
    BY DEF One
  <1> QED
    BY <1>1, <1>2

\* Two sums of the same function agree where both are defined.
LEMMA SumsAgree ==
  ASSUME NEW S, IsFiniteSet(S), NEW f, NEW g, NEW h, NEW R, S \subseteq R,
         Sums(f, g, S), Sums(f, h, R)
  PROVE  \A T \in SUBSET S : g[T] = h[T]
  <1> DEFINE Bad == {T \in SUBSET S : g[T] # h[T]}
  <1> SUFFICES ASSUME Bad # {} PROVE FALSE
    OBVIOUS
  <1>1. Bad \in SUBSET (SUBSET S)
    OBVIOUS
  <1> HIDE DEF Bad
  <1>2. PICK T : Smallest(T, Bad)
    BY <1>1, SmallestSet
  <1>3. T \in SUBSET S /\ g[T] # h[T] /\ T \in SUBSET R
    BY <1>2 DEF Smallest, Bad
  <1>4. T # {}
    <2>1. g[{}] = 0 /\ h[{}] = 0
      BY SumsStep
    <2> QED
      BY <1>3, <2>1
  <1>5. /\ T \ {One(T)} \in SUBSET S /\ T \ {One(T)} # T
        /\ g[T] = f[One(T)] + g[T \ {One(T)}]
        /\ h[T] = f[One(T)] + h[T \ {One(T)}]
    BY <1>3, <1>4, SumsStep
  <1>6. T \ {One(T)} \notin Bad
    BY <1>2, <1>5 DEF Smallest
  <1>7. g[T \ {One(T)}] = h[T \ {One(T)}]
    BY <1>5, <1>6 DEF Bad
  <1> QED
    BY <1>3, <1>5, <1>7

\* There is one.
LEMMA SumsExist ==
  ASSUME NEW S, IsFiniteSet(S), NEW f
  PROVE  \E g : Sums(f, g, S)
  <1> DEFINE Bad == {T \in SUBSET S : \A g : ~Sums(f, g, T)}
  <1> SUFFICES ASSUME Bad # {} PROVE FALSE
    OBVIOUS
  <1>1. Bad \in SUBSET (SUBSET S)
    OBVIOUS
  <1> HIDE DEF Bad
  <1>2. PICK T : Smallest(T, Bad)
    BY <1>1, SmallestSet
  <1>3. T \in SUBSET S /\ \A g : ~Sums(f, g, T)
    BY <1>2 DEF Smallest, Bad
  <1> DEFINE h(U) == CHOOSE g : Sums(f, g, U)
             g == [U \in SUBSET T |->
                     IF U = {} THEN 0 ELSE f[One(U)] + h(U \ {One(U)})[U \ {One(U)}]]
  <1>4. \A U \in SUBSET T : U # {} =>
          One(U) \in U /\ U \ {One(U)} \in SUBSET T /\ U \ {One(U)} # T
    BY DEF One
  <1>5. \A V \in SUBSET T : V # T => Sums(f, h(V), V)
    <2> SUFFICES ASSUME NEW V \in SUBSET T, V # T PROVE \E k : Sums(f, k, V)
      OBVIOUS
    <2>1. V \notin Bad
      BY <1>2 DEF Smallest
    <2> QED
      BY <1>3, <2>1 DEF Bad
  <1> HIDE DEF h
  <1>6. ASSUME NEW V \in SUBSET T, V # T PROVE g[V] = h(V)[V]
    <2>1. CASE V = {}
      BY <1>5, <1>6, <2>1, SumsStep
    <2>2. CASE V # {}
      <3> DEFINE W == V \ {One(V)}
      <3>1. W \in SUBSET T /\ W # T /\ W \subseteq V
        BY <1>4, <2>2
      <3>2. Sums(f, h(V), V) /\ Sums(f, h(W), W)
        BY <1>5, <1>6, <3>1
      <3>3. IsFiniteSet(W)
        BY <1>3, <3>1, FS_Subset
      <3>4. h(W)[W] = h(V)[W]
        <4> HIDE DEF W
        <4>1. \A U \in SUBSET W : h(W)[U] = h(V)[U]
          BY <3>1, <3>2, <3>3, SumsAgree
        <4> QED
          BY <4>1
      <3>5. h(V)[V] = f[One(V)] + h(V)[W]
        BY <2>2, <3>2, SumsStep
      <3>6. g[V] = f[One(V)] + h(W)[W]
        BY <2>2
      <3> QED
        BY <3>4, <3>5, <3>6
    <2> QED
      BY <2>1, <2>2
  <1>7. g = [U \in SUBSET T |-> IF U = {} THEN 0 ELSE f[One(U)] + g[U \ {One(U)}]]
    <2>1. \A U \in SUBSET T : U # {} => g[U \ {One(U)}] = h(U \ {One(U)})[U \ {One(U)}]
      <3> HIDE DEF g
      <3> QED
        BY <1>4, <1>6
    <2> QED
      BY <2>1
  <1>8. Sums(f, g, T)
    BY <1>7 DEF Sums
  <1> QED
    BY <1>3, <1>8

LEMMA TotalSums ==
  ASSUME NEW S, IsFiniteSet(S), NEW f, DOMAIN f = S
  PROVE  \E g : Sums(f, g, S) /\ Total(f) = g[S]
  BY SumsExist DEF Total

LEMMA TotalType ==
  ASSUME NEW S, IsFiniteSet(S), NEW f \in [S -> Int]
  PROVE  Total(f) \in Int
  <1>1. PICK g : Sums(f, g, S) /\ Total(f) = g[S]
    BY TotalSums
  <1> DEFINE Bad == {T \in SUBSET S : g[T] \notin Int}
  <1> SUFFICES ASSUME Bad # {} PROVE FALSE
    BY <1>1
  <1>2. Bad \in SUBSET (SUBSET S)
    OBVIOUS
  <1> HIDE DEF Bad
  <1>3. PICK T : Smallest(T, Bad)
    BY <1>2, SmallestSet
  <1>4. T \in SUBSET S /\ g[T] \notin Int
    BY <1>3 DEF Smallest, Bad
  <1>5. T # {}
    <2>1. g[{}] = 0
      BY <1>1, SumsStep
    <2> QED
      BY <1>4, <2>1
  <1>6. /\ One(T) \in T /\ T \ {One(T)} \in SUBSET S /\ T \ {One(T)} # T
        /\ g[T] = f[One(T)] + g[T \ {One(T)}]
    BY <1>1, <1>4, <1>5, SumsStep
  <1>7. T \ {One(T)} \notin Bad
    BY <1>3, <1>6 DEF Smallest
  <1>8. g[T \ {One(T)}] \in Int
    BY <1>6, <1>7 DEF Bad
  <1> QED
    BY <1>4, <1>6, <1>8

\* A function that is nowhere smaller has a sum that is not smaller.
LEMMA TotalMonotone ==
  ASSUME NEW S, IsFiniteSet(S), NEW f \in [S -> Int], NEW h \in [S -> Int],
         \A x \in S : f[x] <= h[x]
  PROVE  Total(f) <= Total(h)
  <1>1. PICK g : Sums(f, g, S) /\ Total(f) = g[S]
    BY TotalSums
  <1>2. PICK k : Sums(h, k, S) /\ Total(h) = k[S]
    BY TotalSums
  <1> DEFINE Bad == {T \in SUBSET S : ~(g[T] \in Int /\ k[T] \in Int /\ g[T] <= k[T])}
  <1> SUFFICES ASSUME Bad # {} PROVE FALSE
    BY <1>1, <1>2
  <1>3. Bad \in SUBSET (SUBSET S)
    OBVIOUS
  <1> HIDE DEF Bad
  <1>4. PICK T : Smallest(T, Bad)
    BY <1>3, SmallestSet
  <1>5. T \in SUBSET S /\ ~(g[T] \in Int /\ k[T] \in Int /\ g[T] <= k[T])
    BY <1>4 DEF Smallest, Bad
  <1>6. T # {}
    <2>1. g[{}] = 0 /\ k[{}] = 0
      BY <1>1, <1>2, SumsStep
    <2> QED
      BY <1>5, <2>1
  <1>7. /\ One(T) \in T /\ T \ {One(T)} \in SUBSET S /\ T \ {One(T)} # T
        /\ g[T] = f[One(T)] + g[T \ {One(T)}]
        /\ k[T] = h[One(T)] + k[T \ {One(T)}]
    <2>1. /\ One(T) \in T /\ T \ {One(T)} \in SUBSET S /\ T \ {One(T)} # T
          /\ g[T] = f[One(T)] + g[T \ {One(T)}]
      BY <1>1, <1>5, <1>6, SumsStep
    <2>2. \A U \in SUBSET S : U # {} => k[U] = h[One(U)] + k[U \ {One(U)}]
      <3>1. Sums(h, k, S)
        BY <1>2
      <3> QED
        BY <3>1, SumsStep
    <2> QED
      BY <1>5, <1>6, <2>1, <2>2
  <1>8. T \ {One(T)} \notin Bad
    BY <1>4, <1>7 DEF Smallest
  <1>9. PICK a \in Int, b \in Int : a = g[T \ {One(T)}] /\ b = k[T \ {One(T)}] /\ a <= b
    BY <1>7, <1>8 DEF Bad
  <1>10. /\ f[One(T)] \in Int /\ h[One(T)] \in Int /\ f[One(T)] <= h[One(T)]
    BY <1>5, <1>7
  <1> QED
    BY <1>5, <1>7, <1>9, <1>10

\* A change of the function at one place changes the sum by as much.
LEMMA TotalChange ==
  ASSUME NEW S, IsFiniteSet(S), NEW f \in [S -> Int], NEW h \in [S -> Int],
         NEW s \in S, NEW d \in Int,
         h[s] = f[s] + d, \A x \in S : x # s => h[x] = f[x]
  PROVE  Total(h) = Total(f) + d
  <1>1. PICK g : Sums(f, g, S) /\ Total(f) = g[S]
    BY TotalSums
  <1>2. PICK k : Sums(h, k, S) /\ Total(h) = k[S]
    BY TotalSums
  <1> DEFINE Fine(T) == g[T] \in Int /\ k[T] = g[T] + (IF s \in T THEN d ELSE 0)
             Bad == {T \in SUBSET S : ~Fine(T)}
  <1> SUFFICES ASSUME Bad # {} PROVE FALSE
    BY <1>1, <1>2
  <1>3. Bad \in SUBSET (SUBSET S)
    OBVIOUS
  <1> HIDE DEF Bad
  <1>4. PICK T : Smallest(T, Bad)
    BY <1>3, SmallestSet
  <1>5. T \in SUBSET S /\ ~Fine(T)
    BY <1>4 DEF Smallest, Bad
  <1>6. T # {}
    <2>1. g[{}] = 0 /\ k[{}] = 0
      BY <1>1, <1>2, SumsStep
    <2>2. Fine({})
      BY <2>1
    <2> QED
      BY <1>5, <2>2
  <1>7. /\ One(T) \in T /\ T \ {One(T)} \in SUBSET S /\ T \ {One(T)} # T
        /\ g[T] = f[One(T)] + g[T \ {One(T)}]
        /\ k[T] = h[One(T)] + k[T \ {One(T)}]
    <2>1. /\ One(T) \in T /\ T \ {One(T)} \in SUBSET S /\ T \ {One(T)} # T
          /\ g[T] = f[One(T)] + g[T \ {One(T)}]
      BY <1>1, <1>5, <1>6, SumsStep
    <2>2. \A U \in SUBSET S : U # {} => k[U] = h[One(U)] + k[U \ {One(U)}]
      BY <1>2, SumsStep
    <2> QED
      BY <1>5, <1>6, <2>1, <2>2
  <1>8. T \ {One(T)} \notin Bad
    BY <1>4, <1>7 DEF Smallest
  <1>9. PICK a \in Int : /\ a = g[T \ {One(T)}]
                         /\ k[T \ {One(T)}] = a + (IF s \in T \ {One(T)} THEN d ELSE 0)
    BY <1>7, <1>8 DEF Bad
  <1>10. PICK c \in Int : c = f[One(T)] /\ h[One(T)] = IF One(T) = s THEN c + d ELSE c
    BY <1>5, <1>7
  <1>11. CASE One(T) = s
    <2>1. k[T] = (c + d) + (a + 0) /\ g[T] = c + a /\ s \in T
      BY <1>7, <1>9, <1>10, <1>11
    <2> QED
      BY <1>5, <2>1
  <1>12. CASE One(T) # s
    <2>1. /\ s \in T \ {One(T)} <=> s \in T
          /\ k[T] = c + (a + (IF s \in T THEN d ELSE 0)) /\ g[T] = c + a
      BY <1>7, <1>9, <1>10, <1>12
    <2> QED
      BY <1>5, <2>1
  <1> QED
    BY <1>11, <1>12

\* The sum of a constant.
LEMMA TotalConstant ==
  ASSUME NEW S, IsFiniteSet(S), NEW c \in Int
  PROVE  Total([x \in S |-> c]) = c * Cardinality(S)
  <1> DEFINE f == [x \in S |-> c]
  <1>1. PICK g : Sums(f, g, S) /\ Total(f) = g[S]
    BY TotalSums
  <1> DEFINE Bad == {T \in SUBSET S : g[T] # c * Cardinality(T)}
  <1> SUFFICES ASSUME Bad # {} PROVE FALSE
    BY <1>1
  <1>2. Bad \in SUBSET (SUBSET S)
    OBVIOUS
  <1> HIDE DEF Bad
  <1>3. PICK T : Smallest(T, Bad)
    BY <1>2, SmallestSet
  <1>4. T \in SUBSET S /\ g[T] # c * Cardinality(T) /\ IsFiniteSet(T)
    BY <1>3, FS_Subset DEF Smallest, Bad
  <1>5. T # {}
    <2>1. g[{}] = 0
      BY <1>1, SumsStep
    <2>2. c * Cardinality({}) = 0
      BY FS_EmptySet
    <2> QED
      BY <1>4, <2>1, <2>2
  <1>6. /\ One(T) \in T /\ T \ {One(T)} \in SUBSET S /\ T \ {One(T)} # T
        /\ g[T] = c + g[T \ {One(T)}]
    <2> HIDE DEF f
    <2>1. /\ One(T) \in T /\ T \ {One(T)} \in SUBSET S /\ T \ {One(T)} # T
          /\ g[T] = f[One(T)] + g[T \ {One(T)}]
      BY <1>1, <1>4, <1>5, SumsStep
    <2>2. \A x \in S : f[x] = c
      BY DEF f
    <2> QED
      BY <1>4, <2>1, <2>2
  <1>7. T \ {One(T)} \notin Bad
    BY <1>3, <1>6 DEF Smallest
  <1>8. PICK n \in Nat : n = Cardinality(T)
    BY <1>4, FS_CardinalityType
  <1>9. Cardinality(T \ {One(T)}) = n - 1
    BY <1>4, <1>6, <1>8, FS_RemoveElement
  <1>10. g[T \ {One(T)}] = c * (n - 1)
    BY <1>6, <1>7, <1>9 DEF Bad
  <1>11. c + (c * (n - 1)) = c * n
    BY <1>8
  <1> QED
    BY <1>4, <1>6, <1>8, <1>10, <1>11

\* Any element may be taken first.
LEMMA SumsAny ==
  ASSUME NEW S, IsFiniteSet(S), NEW f \in [S -> Int], NEW g, Sums(f, g, S)
  PROVE  \A T \in SUBSET S : g[T] \in Int /\ \A y \in T : g[T] = f[y] + g[T \ {y}]
  <1> DEFINE Fine(T) == g[T] \in Int /\ \A y \in T : g[T] = f[y] + g[T \ {y}]
             Bad == {T \in SUBSET S : ~Fine(T)}
  <1> SUFFICES ASSUME Bad # {} PROVE FALSE
    OBVIOUS
  <1>1. Bad \in SUBSET (SUBSET S)
    OBVIOUS
  <1> HIDE DEF Bad
  <1>2. PICK T : Smallest(T, Bad)
    BY <1>1, SmallestSet
  <1>3. T \in SUBSET S /\ ~Fine(T)
    BY <1>2 DEF Smallest, Bad
  <1>4. \A U \in SUBSET T : U # T => Fine(U)
    <2>1. \A U \in SUBSET T : U # T => U \notin Bad
      BY <1>2 DEF Smallest
    <2> HIDE DEF Fine
    <2> QED
      BY <1>3, <2>1 DEF Bad
  <1>5. T # {}
    <2>1. g[{}] = 0
      BY SumsStep
    <2>2. Fine({})
      BY <2>1
    <2> QED
      BY <1>3, <2>2
  <1> DEFINE z == One(T)
  <1>6. z \in T /\ T \ {z} # T /\ T \ {z} \in SUBSET T /\ g[T] = f[z] + g[T \ {z}]
    <2>1. /\ One(T) \in T /\ T \ {One(T)} \in SUBSET S /\ T \ {One(T)} # T
          /\ g[T] = f[One(T)] + g[T \ {One(T)}]
      <3> HIDE DEF Fine, z
      <3> QED
        BY <1>3, <1>5, SumsStep
    <2> QED
      BY <2>1
  <1> HIDE DEF z
  <1>7. f[z] \in Int /\ g[T \ {z}] \in Int
    BY <1>3, <1>4, <1>6
  <1>8. g[T] \in Int
    BY <1>6, <1>7
  <1>9. ASSUME NEW y \in T, y # z PROVE g[T] = f[y] + g[T \ {y}]
    <2>1. g[T \ {z}] = f[y] + g[(T \ {z}) \ {y}]
      BY <1>4, <1>6, <1>9
    <2>2. g[T \ {y}] = f[z] + g[(T \ {y}) \ {z}]
      <3>1. T \ {y} \in SUBSET T /\ T \ {y} # T /\ z \in T \ {y}
        BY <1>6, <1>9
      <3> QED
        BY <1>4, <3>1
    <2>3. (T \ {z}) \ {y} = (T \ {y}) \ {z}
      OBVIOUS
    <2>4. PICK a \in Int, b \in Int, c \in Int :
            a = f[z] /\ b = f[y] /\ c = g[(T \ {y}) \ {z}]
      <3>1. (T \ {y}) \ {z} \in SUBSET T /\ (T \ {y}) \ {z} # T
        BY <1>6
      <3>2. g[(T \ {y}) \ {z}] \in Int
        BY <1>4, <3>1
      <3>3. f[y] \in Int
        BY <1>3, <1>9
      <3> QED
        BY <1>7, <3>2, <3>3
    <2>5. g[T] = a + (b + c) /\ g[T \ {y}] = a + c
      BY <1>6, <2>1, <2>2, <2>3, <2>4
    <2>6. a + (b + c) = b + (a + c)
      BY <2>4
    <2> QED
      BY <2>4, <2>5, <2>6
  <1>10. Fine(T)
    BY <1>6, <1>8, <1>9
  <1> QED
    BY <1>3, <1>10

\* Any solution of the recursion is the sum.
LEMMA TotalIs ==
  ASSUME NEW S, IsFiniteSet(S), NEW f, DOMAIN f = S, NEW g, Sums(f, g, S)
  PROVE  Total(f) = g[S]
  <1>1. PICK k : Sums(f, k, S) /\ Total(f) = k[S]
    BY TotalSums
  <1>2. \A T \in SUBSET S : k[T] = g[T]
    BY <1>1, SumsAgree
  <1> QED
    BY <1>1, <1>2

\* One element more.
LEMMA TotalAdd ==
  ASSUME NEW S, IsFiniteSet(S), NEW x, x \notin S,
         NEW f \in [S \cup {x} -> Int], NEW h \in [S -> Int], \A y \in S : h[y] = f[y]
  PROVE  Total(f) = Total(h) + f[x]
  <1> DEFINE R == S \cup {x}
  <1>1. IsFiniteSet(R)
    BY FS_AddElement
  <1>2. PICK g : Sums(f, g, R) /\ Total(f) = g[R]
    BY <1>1, TotalSums
  <1>3. PICK k : Sums(h, k, S) /\ Total(h) = k[S]
    BY TotalSums
  <1>4. Sums(f, k, S)
    <2>1. \A T \in SUBSET S : T # {} => h[One(T)] = f[One(T)]
      BY DEF One
    <2>2. k = [T \in SUBSET S |-> IF T = {} THEN 0 ELSE h[One(T)] + k[T \ {One(T)}]]
      BY <1>3 DEF Sums
    <2>3. k = [T \in SUBSET S |-> IF T = {} THEN 0 ELSE f[One(T)] + k[T \ {One(T)}]]
      BY <2>1, <2>2
    <2> QED
      BY <2>3 DEF Sums
  <1>5. k[S] = g[S]
    <2>1. S \subseteq R
      OBVIOUS
    <2>2. \A T \in SUBSET S : k[T] = g[T]
      BY <1>2, <1>4, <2>1, SumsAgree
    <2> QED
      BY <2>2
  <1>6. R \in SUBSET R /\ x \in R /\ R \ {x} = S /\ f \in [R -> Int]
    OBVIOUS
  <1> HIDE DEF R
  <1>7. g[R] = f[x] + g[S] /\ g[S] \in Int
    <2>1. \A T \in SUBSET R : g[T] \in Int /\ \A y \in T : g[T] = f[y] + g[T \ {y}]
      BY <1>1, <1>2, <1>6, SumsAny
    <2>2. S \in SUBSET R
      BY <1>6
    <2> QED
      BY <1>6, <2>1, <2>2
  <1>8. f[x] \in Int
    BY <1>6
  <1> QED
    BY <1>2, <1>3, <1>5, <1>7, <1>8

LEMMA TotalEmpty ==
  ASSUME NEW f, DOMAIN f = {}
  PROVE  Total(f) = 0
  <1>1. PICK g : Sums(f, g, {}) /\ Total(f) = g[{}]
    BY FS_EmptySet, TotalSums
  <1> QED
    BY <1>1, SumsStep

-----------------------------------------------------------------------------
(* Counting up, and the sums of stretches of a sequence of numbers.        *)

\* A set of natural numbers has a least one.
LEMMA LeastNat ==
  ASSUME NEW S \in SUBSET Nat, IsFiniteSet(S), S # {}
  PROVE  \E x \in S : \A y \in S : x <= y
  <1> DEFINE Below(x) == {y \in S : y <= x}
             B == {Below(x) : x \in S}
  <1>1. B \in SUBSET (SUBSET S) /\ B # {}
    <2>1. PICK z \in S : TRUE
      OBVIOUS
    <2>2. Below(z) \in B
      BY <2>1
    <2>3. \A x \in S : Below(x) \subseteq S
      OBVIOUS
    <2> HIDE DEF Below
    <2> QED
      BY <2>2, <2>3
  <1> HIDE DEF B
  <1>2. PICK T : Smallest(T, B)
    BY <1>1, SmallestSet
  <1> USE DEF B
  <1>3. PICK x \in S : T = Below(x)
    BY <1>2 DEF Smallest
  <1>4. ASSUME NEW y \in S, y < x PROVE FALSE
    <2>1. Below(y) \subseteq Below(x)
      <3>1. \A z \in S : z <= y => z <= x
        BY <1>4, x \in Nat, y \in Nat, \A z \in S : z \in Nat
      <3> QED
        BY <3>1
    <2>2. Below(y) = Below(x)
      <3>1. Below(y) \in B
        OBVIOUS
      <3> HIDE DEF Below, B
      <3> QED
        BY <1>2, <1>3, <2>1, <3>1 DEF Smallest
    <2>3. x \in Below(x) /\ x \notin Below(y)
      BY <1>4
    <2> QED
      BY <2>2, <2>3
  <1> QED
    BY <1>4

\* Induction, up to a bound: a set that has 0 and with each number the next.
LEMMA CountUp ==
  ASSUME NEW n \in Nat, NEW G, 0 \in G, \A k \in 0 .. n-1 : k \in G => k + 1 \in G
  PROVE  \A k \in 0 .. n : k \in G
  <1> DEFINE Bad == {k \in 0 .. n : k \notin G}
  <1> SUFFICES ASSUME Bad # {} PROVE FALSE
    OBVIOUS
  <1>1. Bad \in SUBSET Nat /\ IsFiniteSet(Bad)
    <2>1. IsFiniteSet(0 .. n)
      BY FS_Interval, 0 \in Int, n \in Int
    <2> QED
      BY <2>1, FS_Subset
  <1>2. PICK x \in Bad : \A y \in Bad : x <= y
    BY <1>1, LeastNat
  <1>3. x \in 0 .. n /\ x \notin G /\ x # 0 /\ x - 1 \in 0 .. n-1
    BY <1>2
  <1>4. x - 1 \in G
    BY <1>2, <1>3
  <1>5. (x - 1) + 1 \in G
    BY <1>3, <1>4
  <1> QED
    BY <1>3, <1>5

\* The sum of f from a to just below b.
SumBetween(f, a, b) == Total([i \in a .. b-1 |-> f[i]])

LEMMA SumBetweenStep ==
  ASSUME NEW a \in Int, NEW b \in Int, a <= b, NEW f, \A i \in a .. b : f[i] \in Int
  PROVE  /\ SumBetween(f, a, a) = 0
         /\ SumBetween(f, a, b) \in Int
         /\ SumBetween(f, a, b + 1) = SumBetween(f, a, b) + f[b]
  <1> DEFINE S == a .. b-1
             g == [i \in S |-> f[i]]
             h == [i \in a .. (b + 1)-1 |-> f[i]]
  <1>0. IsFiniteSet(S)
    BY FS_Interval, b - 1 \in Int
  <1>1. b \notin S /\ S \cup {b} = a .. (b + 1)-1
    OBVIOUS
  <1>2. g \in [S -> Int] /\ h \in [S \cup {b} -> Int] /\ h[b] = f[b] /\ \A i \in S : g[i] = h[i]
    BY <1>1
  <1>3. SumBetween(f, a, b) = Total(g) /\ SumBetween(f, a, b + 1) = Total(h)
    BY DEF SumBetween
  <1>4. SumBetween(f, a, a) = 0
    <2>1. DOMAIN [i \in a .. a-1 |-> f[i]] = {}
      OBVIOUS
    <2> QED
      BY <2>1, TotalEmpty DEF SumBetween
  <1> HIDE DEF S, g, h
  <1>5. Total(g) \in Int
    BY <1>0, <1>2, TotalType
  <1>6. Total(h) = Total(g) + h[b]
    <2>1. b \notin S
      BY <1>1
    <2> QED
      BY <1>0, <1>2, <2>1, TotalAdd
  <1> QED
    BY <1>2, <1>3, <1>4, <1>5, <1>6

\* Two stretches one after the other.
LEMMA SumBetweenSplit ==
  ASSUME NEW a \in Int, NEW b \in Int, NEW c \in Int, a <= b, b <= c,
         NEW f, \A i \in a .. c-1 : f[i] \in Int
  PROVE  /\ SumBetween(f, a, b) \in Int /\ SumBetween(f, b, c) \in Int
         /\ SumBetween(f, a, c) = SumBetween(f, a, b) + SumBetween(f, b, c)
  <1> DEFINE G == {k \in 0 .. c-b :
                     /\ SumBetween(f, b, b + k) \in Int
                     /\ SumBetween(f, a, b + k) = SumBetween(f, a, b) + SumBetween(f, b, b + k)}
             G1 == {k \in 0 .. b-a : SumBetween(f, a, a + k) \in Int}
  <1>1. SumBetween(f, a, b) \in Int
    <2>1. ASSUME NEW k \in 0 .. (b-a)-1, SumBetween(f, a, a + k) \in Int
          PROVE  SumBetween(f, a, (a + k) + 1) \in Int
      <3>1. \A i \in a .. a + k : f[i] \in Int
        OBVIOUS
      <3>2. a + k \in Int /\ a <= a + k /\ f[a + k] \in Int
        BY <3>1
      <3>3. SumBetween(f, a, (a + k) + 1) = SumBetween(f, a, a + k) + f[a + k]
        BY <3>1, <3>2, SumBetweenStep
      <3> QED
        BY <2>1, <3>2, <3>3
    <2>2. SumBetween(f, a, a + 0) \in Int
      <3>1. a + 0 = a /\ DOMAIN [i \in a .. a-1 |-> f[i]] = {}
        OBVIOUS
      <3>2. SumBetween(f, a, a) = 0
        BY <3>1, TotalEmpty DEF SumBetween
      <3> QED
        BY <3>1, <3>2
    <2>3. 0 \in G1 /\ \A k \in 0 .. (b-a)-1 : k \in G1 => k + 1 \in G1
      <3>1. \A k \in 0 .. (b-a)-1 : k + 1 \in 0 .. b-a /\ a + (k + 1) = (a + k) + 1
        OBVIOUS
      <3>2. 0 \in 0 .. b-a
        OBVIOUS
      <3> QED
        BY <2>1, <2>2, <3>1, <3>2
    <2> HIDE DEF G1
    <2>4. b - a \in Nat
      OBVIOUS
    <2>5. b - a \in G1
      BY <2>3, <2>4, CountUp
    <2>6. a + (b - a) = b
      OBVIOUS
    <2> QED
      BY <2>5, <2>6 DEF G1
  <1>2. 0 \in G
    <2>1. b + 0 = b /\ DOMAIN [i \in b .. b-1 |-> f[i]] = {} /\ 0 \in 0 .. c-b
      OBVIOUS
    <2>2. SumBetween(f, b, b) = 0
      BY <2>1, TotalEmpty DEF SumBetween
    <2> QED
      BY <1>1, <2>1, <2>2
  <1>3. ASSUME NEW k \in 0 .. (c-b)-1, k \in G PROVE k + 1 \in G
    <2>1. k + 1 \in 0 .. c-b /\ b + (k + 1) = (b + k) + 1 /\ b + k \in Int
          /\ b <= b + k /\ a <= b + k /\ f[b + k] \in Int
      OBVIOUS
    <2>2. (\A i \in a .. b + k : f[i] \in Int) /\ (\A i \in b .. b + k : f[i] \in Int)
      OBVIOUS
    <2>3. SumBetween(f, b, (b + k) + 1) = SumBetween(f, b, b + k) + f[b + k]
      BY <2>1, <2>2, SumBetweenStep
    <2>4. SumBetween(f, a, (b + k) + 1) = SumBetween(f, a, b + k) + f[b + k]
      BY <2>1, <2>2, SumBetweenStep
    <2>5. PICK x \in Int, y \in Int : /\ x = SumBetween(f, b, b + k) /\ y = SumBetween(f, a, b)
                                      /\ SumBetween(f, a, b + k) = y + x
      BY <1>1, <1>3
    <2>6. PICK d \in Int : d = f[b + k]
      BY <2>1
    <2>7. SumBetween(f, b, (b + k) + 1) = x + d /\ SumBetween(f, a, (b + k) + 1) = (y + x) + d
      BY <2>3, <2>4, <2>5, <2>6
    <2>8. x + d \in Int /\ (y + x) + d = y + (x + d)
      OBVIOUS
    <2> QED
      BY <2>1, <2>5, <2>7, <2>8
  <1> HIDE DEF G
  <1>4. c - b \in Nat
    OBVIOUS
  <1>5. c - b \in G
    BY <1>2, <1>3, <1>4, CountUp
  <1>6. b + (c - b) = c
    OBVIOUS
  <1> QED
    BY <1>1, <1>5, <1>6 DEF G

\* A stretch moved along with its numbers.
Moved(f, h, a, b, x) == \A i \in a .. b-1 : h[i] \in Int /\ f[x + (i - a)] = h[i]

LEMMA SumBetweenShift ==
  ASSUME NEW a \in Int, NEW b \in Int, a <= b, NEW x \in Int, NEW y \in Int, y - x = b - a,
         NEW f, NEW h, Moved(f, h, a, b, x)
  PROVE  SumBetween(f, x, y) = SumBetween(h, a, b)
  <1>0. \A i \in a .. b-1 : h[i] \in Int /\ f[x + (i - a)] = h[i]
    BY DEF Moved
  <1> DEFINE G == {k \in 0 .. b-a : SumBetween(f, x, x + k) = SumBetween(h, a, a + k)}
  <1>1. 0 \in G
    <2>1. x + 0 = x /\ a + 0 = a /\ 0 \in 0 .. b-a
      OBVIOUS
    <2>2. /\ DOMAIN [i \in x .. x-1 |-> f[i]] = {}
          /\ DOMAIN [i \in a .. a-1 |-> h[i]] = {}
      OBVIOUS
    <2>3. SumBetween(f, x, x) = 0 /\ SumBetween(h, a, a) = 0
      BY <2>2, TotalEmpty DEF SumBetween
    <2> QED
      BY <2>1, <2>3
  <1>2. ASSUME NEW k \in 0 .. (b-a)-1, k \in G PROVE k + 1 \in G
    <2>1. /\ k + 1 \in 0 .. b-a /\ a + (k + 1) = (a + k) + 1 /\ x + (k + 1) = (x + k) + 1
          /\ a + k \in Int /\ x + k \in Int /\ a <= a + k /\ x <= x + k
          /\ x + ((a + k) - a) = x + k
      OBVIOUS
    <2>2. \A i \in a .. a + k : h[i] \in Int /\ f[x + (i - a)] = h[i]
      BY <1>0
    <2>3. \A i \in x .. x + k : f[i] \in Int
      <3> SUFFICES ASSUME NEW i \in x .. x + k PROVE f[i] \in Int
        OBVIOUS
      <3> DEFINE j == a + (i - x)
      <3>1. j \in a .. a + k /\ x + (j - a) = i
        OBVIOUS
      <3> HIDE DEF j
      <3> QED
        BY <2>2, <3>1
    <2>4. SumBetween(h, a, (a + k) + 1) = SumBetween(h, a, a + k) + h[a + k]
      BY <2>1, <2>2, SumBetweenStep
    <2>5. SumBetween(f, x, (x + k) + 1) = SumBetween(f, x, x + k) + f[x + k]
      BY <2>1, <2>3, SumBetweenStep
    <2>6. f[x + k] = h[a + k]
      BY <2>1, <2>2
    <2> QED
      BY <1>2, <2>1, <2>4, <2>5, <2>6
  <1> HIDE DEF G
  <1>3. b - a \in Nat /\ a + (b - a) = b /\ x + (b - a) = y
    OBVIOUS
  <1>4. b - a \in G
    <2>1. \A k \in 0 .. (b-a)-1 : k \in G => k + 1 \in G
      BY <1>2
    <2>2. \A k \in 0 .. b-a : k \in G
      BY <1>1, <1>3, <2>1, CountUp
    <2> QED
      BY <1>3, <2>2
  <1> QED
    BY <1>3, <1>4 DEF G

-----------------------------------------------------------------------------
(* Those of the first n entries of an array that are in a set, in order.   *)

Picks(s, T, g, n) ==
  g = [k \in 0 .. n |-> IF k = 0 THEN <<>>
                        ELSE IF s[k] \in T THEN Append(g[k-1], s[k]) ELSE g[k-1]]

LEMMA PicksExist ==
  ASSUME NEW n \in Nat, NEW s, NEW T
  PROVE  \E g : Picks(s, T, g, n)
  <1> DEFINE G == {k \in 0 .. n : \E g : Picks(s, T, g, k)}
  <1>1. 0 \in G
    <2>1. Picks(s, T, [k \in 0 .. 0 |-> <<>>], 0)
      BY DEF Picks
    <2> QED
      BY <2>1
  <1>2. ASSUME NEW m \in 0 .. n-1, m \in G PROVE m + 1 \in G
    <2>1. PICK g : Picks(s, T, g, m)
      BY <1>2
    <2> DEFINE h == [k \in 0 .. m + 1 |-> IF k = 0 THEN <<>>
                       ELSE IF s[k] \in T THEN Append(g[k-1], s[k]) ELSE g[k-1]]
    <2>2. \A k \in 0 .. m : h[k] = g[k]
      <3>1. \A k \in 0 .. m : g[k] = IF k = 0 THEN <<>>
                                     ELSE IF s[k] \in T THEN Append(g[k-1], s[k]) ELSE g[k-1]
        <4>1. g = [k \in 0 .. m |-> IF k = 0 THEN <<>>
                     ELSE IF s[k] \in T THEN Append(g[k-1], s[k]) ELSE g[k-1]]
          BY <2>1 DEF Picks
        <4> QED
          BY <4>1
      <3>2. \A k \in 0 .. m : k \in 0 .. m + 1
        OBVIOUS
      <3> QED
        BY <3>1, <3>2
    <2>3. \A k \in 0 .. m + 1 : k # 0 => k - 1 \in 0 .. m /\ h[k-1] = g[k-1]
      BY <2>2
    <2>4. h = [k \in 0 .. m + 1 |-> IF k = 0 THEN <<>>
                 ELSE IF s[k] \in T THEN Append(h[k-1], s[k]) ELSE h[k-1]]
      BY <2>3
    <2>5. Picks(s, T, h, m + 1)
      BY <2>4 DEF Picks
    <2> QED
      BY <2>5
  <1> HIDE DEF G
  <1>3. n \in G
    BY <1>1, <1>2, CountUp
  <1> QED
    BY <1>3 DEF G

\* r has the entries in T of the first k, and no others, and none twice.
PickedOf(s, T, k, r) ==
  /\ \A i \in 1 .. Len(r) : \E j \in 1 .. k : r[i] = s[j] /\ s[j] \in T
  /\ \A j \in 1 .. k : s[j] \in T => \E i \in 1 .. Len(r) : r[i] = s[j]
  /\ \A i \in 1 .. Len(r), j \in 1 .. Len(r) : r[i] = r[j] => i = j

LEMMA PicksArePicked ==
  ASSUME NEW n \in Nat, NEW V, NEW s, \A k \in 1 .. n : s[k] \in V, NEW T, NEW g,
         Picks(s, T, g, n), \A i \in 1 .. n, j \in 1 .. n : s[i] = s[j] => i = j
  PROVE  g[n] \in Seq(V) /\ PickedOf(s, T, n, g[n])
  <1> DEFINE G == {k \in 0 .. n : g[k] \in Seq(V) /\ PickedOf(s, T, k, g[k])}
  <1>1. g[0] = <<>> /\ \A k \in 1 .. n : g[k] = IF s[k] \in T THEN Append(g[k-1], s[k]) ELSE g[k-1]
    <2>1. g = [k \in 0 .. n |-> IF k = 0 THEN <<>>
                 ELSE IF s[k] \in T THEN Append(g[k-1], s[k]) ELSE g[k-1]]
      BY DEF Picks
    <2>2. \A k \in 0 .. n : g[k] = IF k = 0 THEN <<>>
                                   ELSE IF s[k] \in T THEN Append(g[k-1], s[k]) ELSE g[k-1]
      BY <2>1
    <2>3. 0 \in 0 .. n /\ \A k \in 1 .. n : k \in 0 .. n /\ k # 0
      OBVIOUS
    <2> QED
      BY <2>2, <2>3
  <1>2. 0 \in G
    <2>1. PickedOf(s, T, 0, <<>>)
      BY DEF PickedOf
    <2>2. 0 \in 0 .. n /\ <<>> \in Seq(V)
      OBVIOUS
    <2>3. g[0] \in Seq(V) /\ PickedOf(s, T, 0, g[0])
      <3>1. g[0] = <<>>
        BY <1>1
      <3> QED
        BY <2>1, <2>2, <3>1
    <2> QED
      BY <2>2, <2>3
  <1>3. ASSUME NEW m \in 0 .. n-1, m \in G PROVE m + 1 \in G
    <2> DEFINE r == g[m]
    <2>1. r \in Seq(V) /\ PickedOf(s, T, m, r) /\ m + 1 \in 1 .. n /\ s[m + 1] \in V
      BY <1>3
    <2>2. g[m + 1] = IF s[m + 1] \in T THEN Append(r, s[m + 1]) ELSE r
      BY <1>1, <2>1
    <2> HIDE DEF r
    <2>3. CASE s[m + 1] \notin T
      <3>1. PickedOf(s, T, m + 1, r)
        BY <2>1, <2>3 DEF PickedOf
      <3> QED
        BY <2>1, <2>2, <2>3, <3>1
    <2>4. CASE s[m + 1] \in T
      <3> DEFINE q == Append(r, s[m + 1])
      <3>1. /\ q \in Seq(V) /\ Len(q) = Len(r) + 1 /\ Len(r) \in Nat /\ q[Len(r) + 1] = s[m + 1]
            /\ \A i \in 1 .. Len(r) : q[i] = r[i]
        BY <2>1
      <3> HIDE DEF q
      <3>2. \A i \in 1 .. Len(q) : \E j \in 1 .. m + 1 : q[i] = s[j] /\ s[j] \in T
        <4> SUFFICES ASSUME NEW i \in 1 .. Len(q)
                     PROVE  \E j \in 1 .. m + 1 : q[i] = s[j] /\ s[j] \in T
          OBVIOUS
        <4>1. CASE i = Len(q)
          BY <2>4, <3>1, <4>1
        <4>2. CASE i # Len(q)
          <5>1. i \in 1 .. Len(r) /\ q[i] = r[i]
            BY <3>1, <4>2
          <5> QED
            BY <2>1, <5>1 DEF PickedOf
        <4> QED
          BY <4>1, <4>2
      <3>3. \A j \in 1 .. m + 1 : s[j] \in T => \E i \in 1 .. Len(q) : q[i] = s[j]
        <4> SUFFICES ASSUME NEW j \in 1 .. m + 1, s[j] \in T
                     PROVE  \E i \in 1 .. Len(q) : q[i] = s[j]
          OBVIOUS
        <4>1. CASE j = m + 1
          <5>1. Len(q) \in 1 .. Len(q)
            BY <3>1
          <5> QED
            BY <3>1, <4>1, <5>1
        <4>2. CASE j # m + 1
          <5>1. PICK i \in 1 .. Len(r) : r[i] = s[j]
            BY <2>1, <4>2 DEF PickedOf
          <5> QED
            BY <3>1, <5>1
        <4> QED
          BY <4>1, <4>2
      <3>4. \A i \in 1 .. Len(q), j \in 1 .. Len(q) : q[i] = q[j] => i = j
        <4>1. \A i \in 1 .. Len(r) : r[i] # s[m + 1]
          <5> SUFFICES ASSUME NEW i \in 1 .. Len(r), r[i] = s[m + 1] PROVE FALSE
            OBVIOUS
          <5>1. PICK j \in 1 .. m : r[i] = s[j]
            BY <2>1 DEF PickedOf
          <5>2. j \in 1 .. n /\ j # m + 1 /\ s[j] = s[m + 1]
            BY <5>1
          <5> QED
            BY <2>1, <5>2
        <4>2. \A i \in 1 .. Len(r), j \in 1 .. Len(r) : r[i] = r[j] => i = j
          BY <2>1 DEF PickedOf
        <4> QED
          BY <3>1, <4>1, <4>2
      <3>5. PickedOf(s, T, m + 1, q)
        BY <3>2, <3>3, <3>4 DEF PickedOf
      <3>6. g[m + 1] = q /\ m + 1 \in 0 .. n
        BY <2>1, <2>2, <2>4 DEF q
      <3> QED
        BY <3>1, <3>5, <3>6
    <2> QED
      BY <2>3, <2>4
  <1> HIDE DEF G
  <1>4. n \in G
    BY <1>2, <1>3, CountUp
  <1> QED
    BY <1>4 DEF G
=============================================================================
