----------------------------- MODULE RedisProofs -----------------------------
(* Theorems about what is kept in Redis, the answers of Statistics and the    *)
(* counters of RateLimiter, for any people, questions, clients, lifetimes,   *)
(* limits and windows.  Both add numbers up, so sums come first.             *)
EXTENDS Statistics, RateLimiter, FiniteSetTheorems, TLAPS

-----------------------------------------------------------------------------
(* Sums.  A fold of + over a set is a recursive function on its subsets, which *)
(* picks the element to add next; induction takes a least counterexample.      *)

Pick(s) == CHOOSE x \in s : TRUE

SumEqn(f, S, g) ==
  g = [s \in SUBSET S |-> IF s = {} THEN 0 ELSE f[Pick(s)] + g[s \ {Pick(s)}]]

Sum(f, S) == (CHOOSE g : SumEqn(f, S, g))[S]

LEMMA TotalIsSum ==
  ASSUME NEW S
  PROVE  MapThenSumSet(LAMBDA e : total[e], S) = Sum(total, S)
  BY DEF MapThenSumSet, MapThenFoldSet, Sum, SumEqn, Pick

LEMMA FoldIsSum ==
  ASSUME NEW f, NEW S
  PROVE  FoldFunctionOnSet(LAMBDA a, b : a + b, 0, f, S) = Sum(f, S)
  BY DEF FoldFunctionOnSet, MapThenFoldSet, Sum, SumEqn, Pick

LEMMA LeastNumber ==
  ASSUME NEW N \in SUBSET Nat, N # {}
  PROVE  \E n \in N : \A m \in N : n <= m
<1>1. PICK n \in N : \A m \in N : ~(<<m, n>> \in OpToRel(<, Nat))
  BY WFMin, NatLessThanWellFounded
<1>2. \A m \in N : ~(m < n)
  BY <1>1 DEF OpToRel
<1> QED BY <1>2

LEMMA SmallestSet ==
  ASSUME NEW D, IsFiniteSet(D), NEW F \in SUBSET SUBSET D, F # {}
  PROVE  \E A \in F : \A x \in A : A \ {x} \notin F
<1> DEFINE N == {Cardinality(A) : A \in F}
<1>1. \A A \in F : IsFiniteSet(A) /\ Cardinality(A) \in Nat
  BY FS_Subset, FS_CardinalityType
<1>2. N \in SUBSET Nat /\ N # {}
  BY <1>1
<1>3. PICK n \in N : \A m \in N : n <= m
  BY <1>2, LeastNumber
<1>4. PICK A \in F : n = Cardinality(A)
  OBVIOUS
<1>5. ASSUME NEW x \in A, A \ {x} \in F PROVE FALSE
  <2>1. Cardinality(A \ {x}) = Cardinality(A) - 1
    BY <1>1, FS_RemoveElement
  <2> QED BY <1>1, <1>3, <1>4, <1>5, <2>1
<1> QED BY <1>5

LEMMA PickIn == ASSUME NEW s, s # {} PROVE Pick(s) \in s
  BY DEF Pick

\* The equation has a solution: with n rounds of it, one for the sets of up to n elements.
LEMMA SumExists ==
  ASSUME NEW f, NEW S, IsFiniteSet(S)
  PROVE  \E g : SumEqn(f, S, g)
<1> DEFINE Next(g, s) == IF s = {} THEN 0 ELSE f[Pick(s)] + g[s \ {Pick(s)}]
           Good(g, n) == \A s \in SUBSET S : Cardinality(s) <= n => g[s] = Next(g, s)
           Bad == {n \in Nat : ~ \E g : Good(g, n)}
<1>1. \A s \in SUBSET S : IsFiniteSet(s) /\ Cardinality(s) \in Nat /\ (Cardinality(s) = 0 => s = {})
  BY FS_Subset, FS_CardinalityType, FS_EmptySet
<1>2. \A s \in SUBSET S : s # {} =>
        Cardinality(s) # 0 /\ s \ {Pick(s)} \in SUBSET S /\ Cardinality(s \ {Pick(s)}) = Cardinality(s) - 1
  BY <1>1, PickIn, FS_RemoveElement, FS_EmptySet
<1>3. Bad = {}
  <2>1. SUFFICES ASSUME Bad # {} PROVE FALSE
    OBVIOUS
  <2>2. PICK n \in Bad : \A m \in Bad : n <= m
    BY <2>1, LeastNumber
  <2>3. \E g : Good(g, 0)
    <3>1. PICK z : z = [s \in SUBSET S |-> 0]
      OBVIOUS
    <3>2. ASSUME NEW s \in SUBSET S, Cardinality(s) <= 0 PROVE z[s] = Next(z, s)
      <4>1. s = {}
        BY <1>1, <3>2
      <4>2. z[{}] = 0
        BY <3>1
      <4> QED BY <4>1, <4>2
    <3>3. Good(z, 0)
      BY <3>2
    <3> HIDE DEF Good
    <3> QED BY <3>3
  <2>4. n # 0 /\ n - 1 \in Nat /\ n - 1 \notin Bad
    <3> HIDE DEF Good
    <3> QED BY <2>2, <2>3
  <2>5. PICK g : Good(g, n - 1)
    BY <2>4
  <2> DEFINE h == [s \in SUBSET S |-> Next(g, s)]
  <2>6. ASSUME NEW s \in SUBSET S, Cardinality(s) <= n PROVE h[s] = Next(h, s)
    <3>1. h[s] = IF s = {} THEN 0 ELSE f[Pick(s)] + g[s \ {Pick(s)}]
      BY <2>6
    <3>2. ASSUME s # {} PROVE g[s \ {Pick(s)}] = h[s \ {Pick(s)}]
      <4>1. PICK t \in SUBSET S : t = s \ {Pick(s)} /\ Cardinality(t) = Cardinality(s) - 1
        BY <1>2, <3>2
      <4>2. Cardinality(t) <= n - 1
        BY <1>1, <2>2, <2>6, <4>1
      <4>3. g[t] = Next(g, t) /\ h[t] = Next(g, t)
        BY <2>5, <4>2
      <4> QED BY <4>1, <4>3
    <3> QED BY <3>1, <3>2
  <2>7. Good(h, n)
    BY <2>6
  <2> QED BY <2>2, <2>7
<1>4. PICK g : Good(g, Cardinality(S))
  BY <1>1, <1>3
<1> DEFINE h == [s \in SUBSET S |-> g[s]]
<1>5. \A s \in SUBSET S : h[s] = Next(h, s)
  BY <1>1, <1>2, <1>4, FS_Subset
<1>6. h = [s \in SUBSET S |-> Next(h, s)]
  BY <1>5
<1> QED BY <1>6 DEF SumEqn

\* g adds up f as the fold does, on the subsets of S.
Adds(g, f, S) == \A s \in SUBSET S : g[s] = IF s = {} THEN 0 ELSE f[Pick(s)] + g[s \ {Pick(s)}]

LEMMA SumUnique ==
  ASSUME NEW f, NEW S, IsFiniteSet(S), NEW g, NEW h, Adds(g, f, S), Adds(h, f, S)
  PROVE  g[S] = h[S]
<1> DEFINE F == {s \in SUBSET S : g[s] # h[s]}
<1>1. SUFFICES ASSUME F # {} PROVE FALSE
  OBVIOUS
<1>2. PICK s \in F : \A x \in s : s \ {x} \notin F
  BY <1>1, SmallestSet
<1>3. s # {} /\ Pick(s) \in s
  <2>1. s \in SUBSET S /\ g[s] # h[s]
    BY <1>2
  <2>2. s # {}
    BY <2>1 DEF Adds
  <2> QED BY <2>2, PickIn
<1>4. g[s \ {Pick(s)}] = h[s \ {Pick(s)}]
  BY <1>2, <1>3
<1> QED BY <1>2, <1>3, <1>4 DEF Adds

\* One round of the sum, as the fold takes it.
LEMMA SumRound ==
  ASSUME NEW f, NEW S, IsFiniteSet(S)
  PROVE  Sum(f, S) = IF S = {} THEN 0 ELSE f[Pick(S)] + Sum(f, S \ {Pick(S)})
<1>1. PICK g : g = CHOOSE x : SumEqn(f, S, x)
  OBVIOUS
<1>2. SumEqn(f, S, g) /\ Sum(f, S) = g[S]
  BY <1>1, SumExists DEF Sum
<1>3. Adds(g, f, S)
  BY <1>2 DEF SumEqn, Adds
<1>4. CASE S = {}
  BY <1>2, <1>3, <1>4 DEF Adds
<1>5. CASE S # {}
  <2>1. PICK T : T = S \ {Pick(S)}
    OBVIOUS
  <2>2. T \in SUBSET S /\ IsFiniteSet(T)
    BY <2>1, FS_Subset
  <2>3. PICK h : h = CHOOSE x : SumEqn(f, T, x)
    OBVIOUS
  <2>4. SumEqn(f, T, h) /\ Sum(f, T) = h[T]
    BY <2>2, <2>3, SumExists DEF Sum
  <2>5. Adds(h, f, T)
    BY <2>4 DEF SumEqn, Adds
  <2>6. Adds(g, f, T)
    BY <1>3, <2>2 DEF Adds
  <2>7. g[T] = h[T]
    BY <2>2, <2>5, <2>6, SumUnique
  <2>8. g[S] = f[Pick(S)] + g[T]
    BY <1>3, <1>5, <2>1 DEF Adds
  <2> QED BY <1>2, <1>5, <2>1, <2>4, <2>7, <2>8
<1> QED BY <1>4, <1>5

LEMMA SumEmpty == ASSUME NEW f PROVE Sum(f, {}) = 0
  BY SumRound, FS_EmptySet

\* Any element may be the last one to be added.
LEMMA SumRemove ==
  ASSUME NEW D, IsFiniteSet(D), NEW f \in [D -> Nat], NEW S \in SUBSET D
  PROVE  /\ Sum(f, S) \in Nat
         /\ \A x \in S : Sum(f, S) = f[x] + Sum(f, S \ {x})
<1> DEFINE Fine(A) == /\ Sum(f, A) \in Nat
                      /\ \A x \in A : Sum(f, A \ {x}) \in Nat /\ Sum(f, A) = f[x] + Sum(f, A \ {x})
           F == {A \in SUBSET D : ~Fine(A)}
<1>1. SUFFICES ASSUME F # {} PROVE FALSE
  OBVIOUS
<1>2. PICK A \in F : \A x \in A : A \ {x} \notin F
  BY <1>1, SmallestSet
<1>3. IsFiniteSet(A) /\ A # {} /\ Pick(A) \in A
  <2>1. IsFiniteSet(A) /\ ~Fine(A)
    BY <1>2, FS_Subset
  <2>2. Fine({})
    BY SumEmpty
  <2>3. A # {}
    <3> HIDE DEF Fine
    <3> QED BY <2>1, <2>2
  <2> QED BY <2>1, <2>3, PickIn
<1> DEFINE c == Pick(A)
<1>4. \A x \in A : Fine(A \ {x})
  BY <1>2
<1>5. Sum(f, A) = f[c] + Sum(f, A \ {c})
  BY <1>3, SumRound
<1>6. Sum(f, A) \in Nat
  <2>1. f[c] \in Nat /\ Sum(f, A \ {c}) \in Nat
    BY <1>2, <1>3, <1>4
  <2> QED BY <1>5, <2>1
<1>7. ASSUME NEW x \in A, x # c PROVE Sum(f, A) = f[x] + Sum(f, A \ {x})
  <2>1. Sum(f, A \ {c}) = f[x] + Sum(f, (A \ {c}) \ {x})
    BY <1>3, <1>4, <1>7
  <2>2. Sum(f, A \ {x}) = f[c] + Sum(f, (A \ {x}) \ {c})
    BY <1>3, <1>4, <1>7
  <2>3. (A \ {c}) \ {x} = (A \ {x}) \ {c}
    OBVIOUS
  <2>4. f[x] \in Nat /\ f[c] \in Nat
    BY <1>3, <1>7
  <2>5. Fine(A \ {x}) /\ Fine(A \ {c}) /\ x \in A \ {c}
    BY <1>3, <1>4, <1>7
  <2>6. Sum(f, (A \ {c}) \ {x}) \in Nat
    BY <2>5
  <2> QED BY <1>5, <2>1, <2>2, <2>3, <2>4, <2>5, <2>6
<1>8. Fine(A)
  BY <1>4, <1>5, <1>6, <1>7
<1> QED BY <1>2, <1>8

\* A sum of smaller numbers is not larger.
LEMMA SumMonotone ==
  ASSUME NEW D, IsFiniteSet(D), NEW f \in [D -> Nat], NEW g \in [D -> Nat], NEW S \in SUBSET D,
         \A x \in S : f[x] <= g[x]
  PROVE  Sum(f, S) <= Sum(g, S)
<1> DEFINE F == {A \in SUBSET S : ~(Sum(f, A) <= Sum(g, A))}
<1>1. SUFFICES ASSUME F # {} PROVE FALSE
  OBVIOUS
<1>2. PICK A \in F : \A x \in A : A \ {x} \notin F
  <2>1. IsFiniteSet(S)
    BY FS_Subset
  <2> QED BY <1>1, <2>1, SmallestSet
<1>3. A \in SUBSET D /\ A \in SUBSET S /\ ~(Sum(f, A) <= Sum(g, A))
  BY <1>2
<1>4. PICK x \in A : TRUE
  <2>1. A # {}
    BY <1>3, SumEmpty
  <2> QED BY <2>1
<1>5. Sum(f, A \ {x}) <= Sum(g, A \ {x})
  BY <1>2
<1>6. /\ Sum(f, A) = f[x] + Sum(f, A \ {x}) /\ Sum(f, A \ {x}) \in Nat
      /\ Sum(g, A) = g[x] + Sum(g, A \ {x}) /\ Sum(g, A \ {x}) \in Nat
  <2>1. A \ {x} \in SUBSET D
    BY <1>3
  <2> QED BY <1>3, <2>1, SumRemove
<1>7. f[x] <= g[x] /\ f[x] \in Nat /\ g[x] \in Nat
  BY <1>3
<1> QED BY <1>3, <1>5, <1>6, <1>7

\* Equal numbers, equal sums.
LEMMA SumAgree ==
  ASSUME NEW D, IsFiniteSet(D), NEW f \in [D -> Nat], NEW g \in [D -> Nat], NEW S \in SUBSET D,
         \A x \in S : f[x] = g[x]
  PROVE  Sum(f, S) = Sum(g, S)
<1>1. \A x \in S : f[x] <= g[x] /\ g[x] <= f[x]
  OBVIOUS
<1>2. Sum(f, S) <= Sum(g, S) /\ Sum(g, S) <= Sum(f, S)
  BY <1>1, SumMonotone
<1>3. Sum(f, S) \in Nat /\ Sum(g, S) \in Nat
  BY SumRemove
<1> QED BY <1>2, <1>3

\* One number grows by one.
LEMMA SumBump ==
  ASSUME NEW D, IsFiniteSet(D), NEW f \in [D -> Nat], NEW x \in D, NEW S \in SUBSET D,
         NEW g \in [D -> Nat], g[x] = f[x] + 1, \A y \in D : y # x => g[y] = f[y]
  PROVE  Sum(g, S) = IF x \in S THEN Sum(f, S) + 1 ELSE Sum(f, S)
<1>1. \A T \in SUBSET D : x \notin T => Sum(f, T) = Sum(g, T)
  <2>1. ASSUME NEW T \in SUBSET D, x \notin T PROVE \A y \in T : f[y] = g[y]
    BY <2>1
  <2> QED BY <2>1, SumAgree
<1>2. CASE x \notin S
  BY <1>1, <1>2
<1>3. CASE x \in S
  <2>1. S \ {x} \in SUBSET D
    OBVIOUS
  <2>2. Sum(f, S \ {x}) = Sum(g, S \ {x})
    BY <1>1, <2>1
  <2>3. Sum(f, S \ {x}) \in Nat /\ Sum(f, S) = f[x] + Sum(f, S \ {x})
    BY <1>3, <2>1, SumRemove
  <2>4. Sum(g, S) = g[x] + Sum(g, S \ {x})
    BY <1>3, SumRemove
  <2>5. f[x] \in Nat
    OBVIOUS
  <2> QED BY <1>3, <2>2, <2>3, <2>4, <2>5
<1> QED BY <1>2, <1>3

LEMMA SumSplit ==
  ASSUME NEW D, IsFiniteSet(D), NEW f \in [D -> Nat], NEW S \in SUBSET D, NEW T \in SUBSET D,
         S \cap T = {}
  PROVE  Sum(f, S \cup T) = Sum(f, S) + Sum(f, T)
<1> DEFINE F == {A \in SUBSET T : Sum(f, S \cup A) # Sum(f, S) + Sum(f, A)}
<1>1. SUFFICES ASSUME F # {} PROVE FALSE
  OBVIOUS
<1>2. PICK A \in F : \A x \in A : A \ {x} \notin F
  <2>1. IsFiniteSet(T)
    BY FS_Subset
  <2> QED BY <1>1, <2>1, SmallestSet
<1>3. /\ A \in SUBSET T /\ A \in SUBSET D /\ S \cup A \in SUBSET D
      /\ Sum(f, S \cup A) # Sum(f, S) + Sum(f, A)
  BY <1>2
<1>4. Sum(f, S) \in Nat /\ Sum(f, {}) = 0 /\ S \cup {} = S
  BY SumRemove, SumEmpty
<1>5. PICK x \in A : TRUE
  <2>1. A # {}
    BY <1>3, <1>4
  <2> QED BY <2>1
<1>6. Sum(f, S \cup (A \ {x})) = Sum(f, S) + Sum(f, A \ {x})
  BY <1>2
<1>7. Sum(f, A) = f[x] + Sum(f, A \ {x}) /\ Sum(f, A \ {x}) \in Nat /\ f[x] \in Nat
  <2>1. A \ {x} \in SUBSET D
    BY <1>3
  <2> QED BY <1>3, <2>1, SumRemove
<1>8. Sum(f, S \cup A) = f[x] + Sum(f, S \cup (A \ {x}))
  <2>1. (S \cup A) \ {x} = S \cup (A \ {x}) /\ x \in S \cup A
    BY <1>3
  <2> QED BY <1>3, <2>1, SumRemove
<1> QED BY <1>3, <1>4, <1>6, <1>7, <1>8

\* More numbers, a larger sum.
LEMMA SumOfMore ==
  ASSUME NEW D, IsFiniteSet(D), NEW f \in [D -> Nat], NEW T \in SUBSET D, NEW S \in SUBSET T
  PROVE  Sum(f, S) <= Sum(f, T)
<1>1. S \in SUBSET D /\ T \ S \in SUBSET D /\ S \cap (T \ S) = {} /\ S \cup (T \ S) = T
  OBVIOUS
<1>2. Sum(f, T) = Sum(f, S) + Sum(f, T \ S)
  BY <1>1, SumSplit
<1>3. Sum(f, S) \in Nat /\ Sum(f, T \ S) \in Nat
  BY <1>1, SumRemove
<1> QED BY <1>2, <1>3

\* As many elements as the sum of the numbers allows.
LEMMA UnionBounded ==
  ASSUME NEW D, IsFiniteSet(D), NEW f \in [D -> Nat], NEW h, NEW S \in SUBSET D,
         \A x \in S : IsFiniteSet(h[x]) /\ Cardinality(h[x]) <= f[x]
  PROVE  /\ IsFiniteSet(UNION {h[x] : x \in S})
         /\ Cardinality(UNION {h[x] : x \in S}) <= Sum(f, S)
<1> DEFINE U(A) == UNION {h[x] : x \in A}
           Fine(A) == IsFiniteSet(U(A)) /\ Cardinality(U(A)) <= Sum(f, A)
           F == {A \in SUBSET S : ~Fine(A)}
<1>1. SUFFICES ASSUME F # {} PROVE FALSE
  OBVIOUS
<1>2. PICK A \in F : \A x \in A : A \ {x} \notin F
  <2>1. IsFiniteSet(S)
    BY FS_Subset
  <2> QED BY <1>1, <2>1, SmallestSet
<1>3. A \in SUBSET S /\ A \in SUBSET D /\ ~Fine(A)
  BY <1>2
<1>4. PICK x \in A : TRUE
  <2>1. U({}) = {}
    OBVIOUS
  <2>2. Fine({})
    <3>1. IsFiniteSet({}) /\ Cardinality({}) = 0 /\ Sum(f, {}) = 0
      BY FS_EmptySet, SumEmpty
    <3> HIDE DEF U
    <3> QED BY <2>1, <3>1
  <2>3. A # {}
    <3> HIDE DEF Fine
    <3> QED BY <1>3, <2>2
  <2> QED BY <2>3
<1>5. PICK B : B = A \ {x}
  OBVIOUS
<1>6. Fine(B)
  BY <1>2, <1>5
<1>7. U(A) = h[x] \cup U(B)
  BY <1>5
<1>8. Sum(f, A) = f[x] + Sum(f, B) /\ Sum(f, B) \in Nat /\ f[x] \in Nat
  <2>1. B \in SUBSET D
    BY <1>3, <1>5
  <2> QED BY <1>3, <1>5, <2>1, SumRemove
<1>9. /\ IsFiniteSet(h[x]) /\ Cardinality(h[x]) <= f[x] /\ Cardinality(h[x]) \in Nat
      /\ Cardinality(U(B)) \in Nat /\ Cardinality(h[x] \cap U(B)) \in Nat
  <2>1. IsFiniteSet(h[x]) /\ Cardinality(h[x]) <= f[x]
    BY <1>3
  <2>2. IsFiniteSet(h[x] \cap U(B))
    BY <2>1, FS_Subset
  <2> QED BY <1>6, <2>1, <2>2, FS_CardinalityType
<1>10. /\ IsFiniteSet(U(A))
       /\ Cardinality(U(A)) = Cardinality(h[x]) + Cardinality(U(B)) - Cardinality(h[x] \cap U(B))
  BY <1>6, <1>7, <1>9, FS_Union
<1>11. Cardinality(U(A)) <= Sum(f, A)
  <2> HIDE DEF U
  <2> QED BY <1>6, <1>8, <1>9, <1>10
<1> QED BY <1>3, <1>10, <1>11

-----------------------------------------------------------------------------
(* Statistics: whose figures are where, and how old they are *)

\* Figures f may be shown to who asks ask.
FitsQuestion(f, ask) ==
  /\ f.about.event = ask.event /\ f.about.admin = ask.admin
  /\ f.about.user = ask.user \/ (ask.admin /\ ask.event = None)
  /\ (ask.event # None /\ ~ask.admin) => Owner[ask.event] = ask.user

\* A request r at instant t: it is not over, what it computed is not older than
\* the request, and what it answers is not older than a request and a lifetime.
QueryFine(r, t) ==
  /\ DOMAIN r = {"pc", "ask", "figures", "until"}
  /\ r.until \in Nat /\ r.figures.asof \in Nat
  /\ r.pc # "idle" => r.ask \in Asks /\ t <= r.until /\ r.until <= t + RequestTime
  /\ r.pc \in {"sum", "store"} => r.until <= r.figures.asof + RequestTime
  /\ r.pc \in {"sum", "store", "answer"} => FitsQuestion(r.figures, r.ask)
  /\ r.pc = "answer" => r.until < r.figures.asof + RequestTime + RequestTime + CacheTTL

\* The entry c of key k at instant t: it expires in time, and its figures are for
\* everybody whose question has this key.
EntryFine(k, c, t) ==
  /\ DOMAIN c = {"figures", "garbled", "until"}
  /\ c.until \in Nat /\ t < c.until
  /\ ~c.garbled => /\ c.figures.asof \in Nat
                   /\ c.until <= c.figures.asof + RequestTime + CacheTTL
                   /\ \A ask \in Asks : CacheKey(ask) = k => FitsQuestion(c.figures, ask)

StatInv ==
  /\ now \in Nat
  /\ DOMAIN query = Queries
  /\ \A q \in Queries : QueryFine(query[q], now)
  /\ \A k \in DOMAIN cache : EntryFine(k, cache[k], now)

-----------------------------------------------------------------------------
(* Keys and records *)

\* Two questions with the same key may be shown the same figures.
LEMMA KeyShares ==
  ASSUME NEW f, NEW a \in Asks, NEW b \in Asks, CacheKey(a) = CacheKey(b), FitsQuestion(f, a)
  PROVE  FitsQuestion(f, b)
<1>1. /\ a.user \in Staff /\ b.user \in Staff /\ None \notin Staff
      /\ a \in [user : Staff, admin : BOOLEAN, event : Events \cup {None}]
      /\ b \in [user : Staff, admin : BOOLEAN, event : Events \cup {None}]
  BY StatisticsAssumption, DeskAssumption
<1>2. CASE (a.admin /\ a.event = None) /\ (b.admin /\ b.event = None)
  BY <1>1, <1>2 DEF FitsQuestion
<1>3. CASE ~(a.admin /\ a.event = None) /\ ~(b.admin /\ b.event = None)
  <2>1. a = b
    BY <1>3 DEF CacheKey
  <2> QED BY <2>1
<1>4. CASE (a.admin /\ a.event = None) /\ ~(b.admin /\ b.event = None)
  <2>1. CacheKey(a).user = None
    BY <1>1, <1>4 DEF CacheKey
  <2>2. CacheKey(b).user = b.user
    BY <1>4 DEF CacheKey
  <2> QED BY <1>1, <2>1, <2>2
<1>5. CASE ~(a.admin /\ a.event = None) /\ (b.admin /\ b.event = None)
  <2>1. CacheKey(b).user = None
    BY <1>1, <1>5 DEF CacheKey
  <2>2. CacheKey(a).user = a.user
    BY <1>5 DEF CacheKey
  <2> QED BY <1>1, <2>1, <2>2
<1> QED BY <1>2, <1>3, <1>4, <1>5

\* A request that is idle is fine at any time.
LEMMA IdleFine == ASSUME NEW t PROVE QueryFine(NoQuery, t)
  BY DEF QueryFine, NoQuery, NoFigures

LEMMA StatStart == SInit => StatInv
<1> SUFFICES ASSUME SInit PROVE StatInv
  OBVIOUS
<1>1. now \in Nat /\ DOMAIN query = Queries /\ DOMAIN cache = {}
  BY DEF SInit, DeskInit
<1>2. \A q \in Queries : QueryFine(query[q], now)
  BY IdleFine DEF SInit
<1> QED BY <1>1, <1>2 DEF StatInv

-----------------------------------------------------------------------------
(* Steps *)

\* One request takes a step and the clock and the entries stand.
LEMMA QueryMoves ==
  ASSUME StatInv, NEW q \in Queries, NEW r, QueryFine(r, now),
         query' = [query EXCEPT ![q] = r], now' = now
  PROVE  /\ now' \in Nat /\ DOMAIN query' = Queries
         /\ \A p \in Queries : QueryFine(query'[p], now')
<1>1. DOMAIN query' = Queries
  BY DEF StatInv
<1>2. ASSUME NEW p \in Queries PROVE QueryFine(query'[p], now')
  <2>1. CASE p = q
    <3>1. query'[p] = r
      BY <2>1 DEF StatInv
    <3> QED BY <3>1
  <2>2. CASE p # q
    <3>1. query'[p] = query[p]
      BY <2>2 DEF StatInv
    <3>2. QueryFine(query[p], now)
      BY DEF StatInv
    <3> QED BY <3>1, <3>2
  <2> QED BY <2>1, <2>2
<1> QED BY <1>1, <1>2 DEF StatInv

\* Entries only go.
LEMMA EntriesGo ==
  ASSUME StatInv, NEW keys, cache' = cache \/ cache' = Without(keys), now' = now
  PROVE  \A k \in DOMAIN cache' : EntryFine(k, cache'[k], now')
<1>1. \A k \in DOMAIN cache' : k \in DOMAIN cache /\ cache'[k] = cache[k]
  BY DEF Without, Restrict
<1> QED BY <1>1 DEF StatInv

LEMMA HitStep == ASSUME StatInv, NEW q \in Queries, LookHit(q) PROVE StatInv'
<1> DEFINE k == CacheKey(query[q].ask)
           r == [query[q] EXCEPT !.pc = "answer", !.figures = cache[k].figures]
<1>1. k \in DOMAIN cache /\ ~cache[k].garbled /\ query[q].pc = "look"
      /\ query' = [query EXCEPT ![q] = r] /\ cache' = cache /\ now' = now
  BY DEF LookHit, desk, StatInv
<1>2. QueryFine(query[q], now) /\ EntryFine(k, cache[k], now)
  BY <1>1 DEF StatInv
<1>3. DOMAIN r = {"pc", "ask", "figures", "until"} /\ r.pc = "answer"
      /\ r.figures = cache[k].figures /\ r.ask = query[q].ask /\ r.until = query[q].until
  BY <1>2 DEF QueryFine
<1>4. r.ask \in Asks /\ FitsQuestion(r.figures, r.ask)
  BY <1>1, <1>2, <1>3 DEF QueryFine, EntryFine
<1>5. r.until < r.figures.asof + RequestTime + RequestTime + CacheTTL
  <2>1. /\ query[q].until \in Nat /\ now \in Nat /\ RequestTime \in Nat /\ CacheTTL \in Nat
        /\ query[q].until <= now + RequestTime
    BY <1>1, <1>2, DeskAssumption, StatisticsAssumption DEF QueryFine, StatInv
  <2>2. /\ cache[k].until \in Nat /\ now < cache[k].until /\ cache[k].figures.asof \in Nat
        /\ cache[k].until <= cache[k].figures.asof + RequestTime + CacheTTL
    BY <1>1, <1>2 DEF EntryFine
  <2> HIDE DEF r, k
  <2> QED BY <1>3, <2>1, <2>2
<1>6. QueryFine(r, now)
  <2> HIDE DEF r, k
  <2> QED BY <1>1, <1>2, <1>3, <1>4, <1>5 DEF QueryFine, EntryFine
<1> HIDE DEF r, k
<1> QED BY <1>1, <1>6, QueryMoves, EntriesGo DEF StatInv

LEMMA AskStep ==
  ASSUME StatInv, NEW q \in Queries, NEW ask \in Asks, AskStats(q, ask) PROVE StatInv'
<1> DEFINE r == [NoQuery EXCEPT !.pc = "look", !.ask = ask, !.until = now + RequestTime]
<1>1. query' = [query EXCEPT ![q] = r] /\ cache' = cache /\ now' = now
  BY DEF AskStats, desk
<1>2. QueryFine(r, now)
  BY DeskAssumption DEF QueryFine, NoQuery, NoFigures, StatInv
<1> HIDE DEF r
<1> QED BY <1>1, <1>2, QueryMoves, EntriesGo DEF StatInv

LEMMA MissStep == ASSUME StatInv, NEW q \in Queries, LookMiss(q) PROVE StatInv'
<1> DEFINE r == [query[q] EXCEPT !.pc = "count"]
<1>1. query' = [query EXCEPT ![q] = r] /\ query[q].pc = "look" /\ now' = now
  BY DEF LookMiss, desk
<1>2. PICK keys : cache' = cache \/ cache' = Without(keys)
  BY DEF LookMiss
<1>3. QueryFine(r, now)
  BY <1>1 DEF QueryFine, StatInv
<1> HIDE DEF r
<1> QED BY <1>1, <1>2, <1>3, QueryMoves, EntriesGo DEF StatInv

LEMMA CountStep == ASSUME StatInv, NEW q \in Queries, Count(q) PROVE StatInv'
<1>1. query[q].pc = "count" /\ cache' = cache /\ now' = now
  BY DEF Count, desk
<1>2. CASE ~MayAsk(query[q].ask)
  <2>1. query' = [query EXCEPT ![q] = NoQuery]
    BY <1>2 DEF Count
  <2> QED BY <1>1, <2>1, IdleFine, QueryMoves, EntriesGo DEF StatInv
<1>3. CASE MayAsk(query[q].ask)
  <2>1. PICK f : /\ f.about = query[q].ask /\ f.asof = now
                 /\ query' = [query EXCEPT ![q] = [@ EXCEPT !.pc = "sum", !.figures = f]]
    <3> DEFINE ask == query[q].ask
               g == [about |-> ask, total |-> MapThenSumSet(LAMBDA e : total[e], InScope(ask)),
                     registered |-> Cardinality(Passed(ask)),
                     over |-> \E e \in InScope(ask) : Cardinality(held[e]) > total[e],
                     asof |-> now]
    <3>1. query' = [query EXCEPT ![q] = [@ EXCEPT !.pc = "sum", !.figures = g]]
      BY <1>3 DEF Count
    <3>2. g.about = query[q].ask /\ g.asof = now
      OBVIOUS
    <3> QED BY <3>1, <3>2
  <2> DEFINE r == [query[q] EXCEPT !.pc = "sum", !.figures = f]
  <2>2. query' = [query EXCEPT ![q] = r]
    BY <2>1
  <2>3. QueryFine(query[q], now)
    BY DEF StatInv
  <2>4. DOMAIN r = {"pc", "ask", "figures", "until"} /\ r.pc = "sum" /\ r.figures = f
        /\ r.ask = query[q].ask /\ r.until = query[q].until
    BY <2>3 DEF QueryFine
  <2>5. r.ask \in Asks /\ f.about = r.ask
    BY <1>1, <2>1, <2>3, <2>4 DEF QueryFine
  <2>6. FitsQuestion(f, r.ask)
    <3>1. (r.ask.event # None /\ ~r.ask.admin) => Owner[r.ask.event] = r.ask.user
      BY <1>3, <2>4 DEF MayAsk
    <3> HIDE DEF r
    <3> QED BY <2>5, <3>1 DEF FitsQuestion
  <2>7. r.until \in Nat /\ now \in Nat /\ now <= r.until /\ r.until <= now + RequestTime
    BY <1>1, <2>3, <2>4 DEF QueryFine, StatInv
  <2>8. QueryFine(r, now)
    <3> HIDE DEF r
    <3> QED BY <2>1, <2>4, <2>5, <2>6, <2>7 DEF QueryFine
  <2> HIDE DEF r
  <2> QED BY <1>1, <2>2, <2>8, QueryMoves, EntriesGo DEF StatInv
<1> QED BY <1>2, <1>3

LEMMA SummarizeStep == ASSUME StatInv, NEW q \in Queries, Summarize(q) PROVE StatInv'
<1> DEFINE r == [query[q] EXCEPT !.pc = "store"]
<1>1. query' = [query EXCEPT ![q] = r] /\ query[q].pc = "sum" /\ cache' = cache /\ now' = now
  BY DEF Summarize, desk
<1>2. QueryFine(r, now)
  BY <1>1 DEF QueryFine, StatInv
<1> HIDE DEF r
<1> QED BY <1>1, <1>2, QueryMoves, EntriesGo DEF StatInv

LEMMA EndStep == ASSUME StatInv, NEW q \in Queries, EndStats(q) PROVE StatInv'
<1>1. query' = [query EXCEPT ![q] = NoQuery] /\ cache' = cache /\ now' = now
  BY DEF EndStats, desk
<1> QED BY <1>1, IdleFine, QueryMoves, EntriesGo DEF StatInv

\* The new entry outlives the instant, and the figures are those of the request.
LEMMA StoreStep == ASSUME StatInv, NEW q \in Queries, Store(q) PROVE StatInv'
<1> DEFINE k == CacheKey(query[q].ask)
           entry == [figures |-> query[q].figures, garbled |-> FALSE, until |-> now + Lifetime]
           r == [query[q] EXCEPT !.pc = "answer"]
<1>1. query[q].pc = "store" /\ query' = [query EXCEPT ![q] = r] /\ now' = now
  BY DEF Store, desk
<1>2. QueryFine(query[q], now) /\ now \in Nat
  BY DEF StatInv
<1>3. /\ query[q].ask \in Asks /\ FitsQuestion(query[q].figures, query[q].ask)
      /\ query[q].until \in Nat /\ query[q].figures.asof \in Nat
      /\ now <= query[q].until /\ query[q].until <= query[q].figures.asof + RequestTime
  BY <1>1, <1>2 DEF QueryFine
<1>4. DOMAIN r = {"pc", "ask", "figures", "until"} /\ r.pc = "answer"
      /\ r.figures = query[q].figures /\ r.ask = query[q].ask /\ r.until = query[q].until
  BY <1>2 DEF QueryFine
<1>5. r.until < r.figures.asof + RequestTime + RequestTime + CacheTTL
  <2> HIDE DEF r
  <2> QED BY <1>3, <1>4, DeskAssumption, StatisticsAssumption
<1>6. r.until <= now + RequestTime
  BY <1>1, <1>2, <1>4 DEF QueryFine
<1>7. QueryFine(r, now)
  <2> HIDE DEF r
  <2> QED BY <1>3, <1>4, <1>5, <1>6 DEF QueryFine
<1>8. EntryFine(k, entry, now)
  <2>1. DOMAIN entry = {"figures", "garbled", "until"} /\ entry.figures = query[q].figures
        /\ entry.until = now + CacheTTL
    BY DEF Lifetime
  <2>2. entry.until \in Nat /\ now < entry.until
        /\ entry.until <= entry.figures.asof + RequestTime + CacheTTL
    <3> HIDE DEF entry
    <3> QED BY <1>2, <1>3, <2>1, DeskAssumption, StatisticsAssumption
  <2>3. \A ask \in Asks : CacheKey(ask) = k => FitsQuestion(entry.figures, ask)
    <3> HIDE DEF entry
    <3> QED BY <1>3, <2>1, KeyShares
  <2> HIDE DEF entry, k
  <2> QED BY <1>3, <2>1, <2>2, <2>3 DEF EntryFine
<1>9. \A j \in DOMAIN cache' : EntryFine(j, cache'[j], now')
  <2>1. CASE UNCHANGED cache
    BY <1>1, <2>1 DEF StatInv
  <2>2. CASE cache' = [j \in DOMAIN cache \cup {k} |-> IF j = k THEN entry ELSE cache[j]]
    <3> HIDE DEF entry, k
    <3> QED BY <1>1, <1>8, <2>2 DEF StatInv
  <2> QED BY <2>1, <2>2 DEF Store
<1> HIDE DEF r
<1> QED BY <1>1, <1>7, <1>9, QueryMoves DEF StatInv

LEMMA GarbleStep == ASSUME StatInv, NEW k \in DOMAIN cache, Garble(k) PROVE StatInv'
<1> DEFINE c == [cache[k] EXCEPT !.figures = NoFigures, !.garbled = TRUE]
<1>1. cache' = [cache EXCEPT ![k] = c] /\ UNCHANGED <<query, now>>
  BY DEF Garble, desk
<1>2. EntryFine(k, c, now)
  BY DEF EntryFine, StatInv
<1>3. \A j \in DOMAIN cache' : EntryFine(j, cache'[j], now')
  <2> HIDE DEF c
  <2>1. DOMAIN cache' = DOMAIN cache /\ cache'[k] = c
        /\ \A j \in DOMAIN cache \ {k} : cache'[j] = cache[j]
    BY <1>1
  <2> QED BY <1>1, <1>2, <2>1 DEF StatInv
<1> QED BY <1>1, <1>3 DEF StatInv

\* What is left after an instant has not expired and is not over.
LEMMA TimePasses == ASSUME StatInv, StatsPass PROVE StatInv'
<1>1. /\ now' = now + 1 /\ now \in Nat /\ RequestTime \in Nat
      /\ query' = [q \in Queries |-> IF query[q].until < now' THEN NoQuery ELSE query[q]]
      /\ cache' = Without({k \in DOMAIN cache : cache[k].until <= now'})
  BY DeskAssumption DEF StatsPass, Tick, StatInv
<1>2. ASSUME NEW q \in Queries PROVE QueryFine(query'[q], now')
  <2>1. CASE query[q].until < now'
    <3>1. query'[q] = NoQuery
      BY <1>1, <2>1
    <3> QED BY <3>1, IdleFine
  <2>2. CASE ~(query[q].until < now')
    <3>1. query'[q] = query[q] /\ QueryFine(query[q], now)
      BY <1>1, <2>2 DEF StatInv
    <3> QED BY <1>1, <2>2, <3>1 DEF QueryFine
  <2> QED BY <2>1, <2>2
<1>3. ASSUME NEW k \in DOMAIN cache' PROVE EntryFine(k, cache'[k], now')
  <2>1. k \in DOMAIN cache /\ cache'[k] = cache[k] /\ ~(cache[k].until <= now')
    BY <1>1 DEF Without, Restrict
  <2>2. EntryFine(k, cache[k], now)
    BY <2>1 DEF StatInv
  <2>3. cache[k].until \in Nat /\ now' < cache[k].until
    BY <1>1, <2>1, <2>2 DEF EntryFine
  <2> QED BY <2>1, <2>2, <2>3 DEF EntryFine
<1>4. now' \in Nat /\ DOMAIN query' = Queries
  BY <1>1
<1> QED BY <1>2, <1>3, <1>4 DEF StatInv

LEMMA StatStep == StatInv /\ [SNext]_<<desk, svars>> => StatInv'
<1> SUFFICES ASSUME StatInv, [SNext]_<<desk, svars>> PROVE StatInv'
  OBVIOUS
<1>1. ASSUME NEW e \in Events, Trade(e) PROVE StatInv'
  BY <1>1 DEF Trade, StatInv
<1>2. ASSUME NEW q \in Queries, QueryStep(q) PROVE StatInv'
  BY <1>2, HitStep, MissStep, CountStep, SummarizeStep, StoreStep, EndStep DEF QueryStep
<1>3. ASSUME NEW q \in Queries, NEW ask \in Asks, AskStats(q, ask) PROVE StatInv'
  BY <1>3, AskStep
<1>4. ASSUME NEW k \in DOMAIN cache, Garble(k) PROVE StatInv'
  BY <1>4, GarbleStep
<1>5. CASE StatsPass
  BY <1>5, TimePasses
<1>6. CASE UNCHANGED <<desk, svars>>
  BY <1>6 DEF desk, svars, StatInv
<1> QED BY <1>1, <1>2, <1>3, <1>4, <1>5, <1>6 DEF SNext

-----------------------------------------------------------------------------
\* The invariant of the cache and of the requests that use it.
THEOREM StatisticsInvariance == SSpec => []StatInv
  BY StatStart, StatStep, PTL DEF SSpec

\* What somebody is shown was computed less than a lifetime of the cache and a
\* request before they asked, whoever stored it last.
THEOREM FiguresAreFresh == SSpec => []AnswersAreFresh
<1>1. StatInv => AnswersAreFresh
  <2> SUFFICES ASSUME StatInv, NEW q \in Queries, query[q].pc = "answer"
               PROVE  (query[q].until - RequestTime) - query[q].figures.asof
                        < CacheTTL + RequestTime
    BY DEF AnswersAreFresh, Answering
  <2>1. /\ query[q].until \in Nat /\ query[q].figures.asof \in Nat
        /\ query[q].until < query[q].figures.asof + RequestTime + RequestTime + CacheTTL
    BY DEF StatInv, QueryFine
  <2> QED BY <2>1, DeskAssumption, StatisticsAssumption
<1> QED BY <1>1, StatisticsInvariance, PTL

\* Nobody is shown figures of somebody else's events, also not out of the cache.
THEOREM FiguresAreOwn == SSpec => []AnswersAreOwn
<1>1. StatInv => AnswersAreOwn
  BY DEF StatInv, QueryFine, FitsQuestion, AnswersAreOwn, Answering
<1> QED BY <1>1, StatisticsInvariance, PTL

-----------------------------------------------------------------------------
(* Figures *)

\* Figures of a snapshot: nobody is registered without a seat, unless an event in
\* scope had been cut below its passes.
Possible(f) == ~f.over => f.registered <= f.total

\* The figures that are on their way, in a request or in the cache.
FigInv ==
  /\ total \in [Events -> Nat] /\ held \in [Events -> SUBSET Passes]
  /\ StatisticsTypeOK
  /\ \A q \in Queries : query[q].pc \in {"sum", "store", "answer"} => Possible(query[q].figures)
  /\ \A k \in DOMAIN cache : ~cache[k].garbled => Possible(cache[k].figures)

LEMMA KeyInKeyring == ASSUME NEW ask \in Asks PROVE CacheKey(ask) \in Keyring
<1>1. ask \in [user : Staff, admin : BOOLEAN, event : Events \cup {None}]
  BY StatisticsAssumption
<1> QED BY <1>1 DEF CacheKey, Keyring

LEMMA NothingTyped == NoQuery \in Query /\ NoFigures \in Figures
  BY DEF NoQuery, Query, NoFigures, Figures

LEMMA FigStart == SInit => FigInv
  BY NothingTyped DEF SInit, DeskInit, LInit, FigInv, StatisticsTypeOK, NoQuery

\* The ledger keeps its types.
LEMMA TradeKeepsTypes ==
  ASSUME total \in [Events -> Nat], held \in [Events -> SUBSET Passes], NEW e \in Events, Trade(e)
  PROVE  total' \in [Events -> Nat] /\ held' \in [Events -> SUBSET Passes]
<1>1. ASSUME NEW n \in Sizes, Announce(e, n) \/ Resize(e, n)
      PROVE  total' \in [Events -> Nat] /\ held' \in [Events -> SUBSET Passes]
  <2>1. n \in Nat
    BY StatisticsAssumption
  <2> QED BY <1>1, <2>1 DEF Announce, Resize
<1>2. ASSUME Close(e) PROVE total' \in [Events -> Nat] /\ held' \in [Events -> SUBSET Passes]
  BY <1>2 DEF Close
<1>3. ASSUME NEW p \in Passes, Return(e, p)
      PROVE  total' \in [Events -> Nat] /\ held' \in [Events -> SUBSET Passes]
  BY <1>3 DEF Return
<1>4. ASSUME NEW s \in Students, NEW p \in Passes, Sell(e, s, p)
      PROVE  total' \in [Events -> Nat] /\ held' \in [Events -> SUBSET Passes]
  BY <1>4 DEF Sell
<1> QED BY <1>1, <1>2, <1>3, <1>4 DEF Trade, Recount

\* The snapshot that Count takes.
LEMMA SnapshotFine ==
  ASSUME FigInv, NEW ask \in Asks, NEW f, now \in Nat,
         f = [about |-> ask, total |-> MapThenSumSet(LAMBDA e : total[e], InScope(ask)),
              registered |-> Cardinality(Passed(ask)),
              over |-> \E e \in InScope(ask) : Cardinality(held[e]) > total[e], asof |-> now]
  PROVE  f \in Figures /\ Possible(f)
<1> PICK S : S = InScope(ask)
  OBVIOUS
<1>1. IsFiniteSet(Events) /\ IsFiniteSet(Passes) /\ S \in SUBSET Events
  <2>1. Events \subseteq Events \cup Passes /\ Passes \subseteq Events \cup Passes
    OBVIOUS
  <2> QED BY <2>1, StatisticsAssumption, FS_Subset DEF InScope
<1>2. total \in [Events -> Nat] /\ held \in [Events -> SUBSET Passes]
  BY DEF FigInv
<1>3. f.total = Sum(total, S) /\ Sum(total, S) \in Nat
  BY <1>1, <1>2, TotalIsSum, SumRemove
<1>4. \A e \in S : IsFiniteSet(held[e]) /\ Cardinality(held[e]) \in Nat
  BY <1>1, <1>2, FS_Subset, FS_CardinalityType
<1>5. f.registered = Cardinality(UNION {held[e] : e \in S})
  BY DEF Passed
<1>6. f.registered \in Nat
  <2>1. UNION {held[e] : e \in S} \subseteq Passes
    BY <1>1, <1>2
  <2> QED BY <1>1, <1>5, <2>1, FS_Subset, FS_CardinalityType
<1>7. f.over \in BOOLEAN /\ (f.over <=> \E e \in S : Cardinality(held[e]) > total[e])
  OBVIOUS
<1>8. ASSUME ~f.over PROVE f.registered <= f.total
  <2>1. \A e \in S : IsFiniteSet(held[e]) /\ Cardinality(held[e]) <= total[e]
    BY <1>1, <1>2, <1>4, <1>7, <1>8
  <2>2. Cardinality(UNION {held[e] : e \in S}) <= Sum(total, S)
    BY <1>1, <1>2, <2>1, UnionBounded
  <2> QED BY <1>3, <1>5, <2>2
<1>9. f.about = ask /\ f.asof = now /\ DOMAIN f = {"about", "total", "registered", "over", "asof"}
  OBVIOUS
<1> QED BY <1>3, <1>6, <1>7, <1>8 DEF Figures, Possible

\* A request moves on with possible figures.
LEMMA FigMoves ==
  ASSUME FigInv, NEW q \in Queries, NEW r \in Query, query' = [query EXCEPT ![q] = r],
         r.pc \in {"sum", "store", "answer"} => Possible(r.figures), UNCHANGED lvars,
         \A k \in DOMAIN cache' : k \in DOMAIN cache /\ cache'[k] = cache[k]
  PROVE  FigInv'
<1>1. query \in [Queries -> Query] /\ query' \in [Queries -> Query]
  BY DEF FigInv, StatisticsTypeOK
<1>2. total' = total /\ held' = held
  BY DEF lvars
<1>3. ASSUME NEW p \in Queries, query'[p].pc \in {"sum", "store", "answer"}
      PROVE  Possible(query'[p].figures)
  <2>1. CASE p = q
    <3>1. query'[p] = r
      BY <1>1, <2>1
    <3> QED BY <1>3, <3>1
  <2>2. CASE p # q
    <3>1. query'[p] = query[p]
      BY <1>1, <2>2
    <3> QED BY <1>3, <3>1 DEF FigInv
  <2> QED BY <2>1, <2>2
<1>4. DOMAIN cache' \subseteq Keyring /\ \A k \in DOMAIN cache' : cache'[k] \in Entry
  BY DEF FigInv, StatisticsTypeOK
<1>5. \A k \in DOMAIN cache' : ~cache'[k].garbled => Possible(cache'[k].figures)
  BY DEF FigInv
<1> QED BY <1>1, <1>2, <1>3, <1>4, <1>5 DEF FigInv, StatisticsTypeOK

LEMMA FigStep == StatInv /\ FigInv /\ [SNext]_<<desk, svars>> => FigInv'
<1> SUFFICES ASSUME StatInv, FigInv, [SNext]_<<desk, svars>> PROVE FigInv'
  OBVIOUS
<1>0. query \in [Queries -> Query] /\ now \in Nat
      /\ \A q \in Queries : query[q].pc # "idle" => query[q].ask \in Asks
  BY DEF FigInv, StatisticsTypeOK, StatInv, QueryFine
<1>1. ASSUME NEW e \in Events, Trade(e) PROVE FigInv'
  <2>1. total' \in [Events -> Nat] /\ held' \in [Events -> SUBSET Passes]
    BY <1>1, TradeKeepsTypes DEF FigInv
  <2>2. UNCHANGED <<cache, query>>
    BY <1>1 DEF Trade
  <2> QED BY <2>1, <2>2 DEF FigInv, StatisticsTypeOK
<1>2. ASSUME NEW q \in Queries, NEW ask \in Asks, AskStats(q, ask) PROVE FigInv'
  <2>1. PICK r : r = [NoQuery EXCEPT !.pc = "look", !.ask = ask, !.until = now + RequestTime]
    OBVIOUS
  <2>2. r \in Query /\ r.pc = "look"
    <3>1. ask \in Asks \cup {NoAsk} /\ now + RequestTime \in Nat
      BY <1>0, DeskAssumption
    <3> QED BY <2>1, <3>1, NothingTyped DEF Query
  <2>3. query' = [query EXCEPT ![q] = r] /\ UNCHANGED lvars /\ cache' = cache
    BY <1>2, <2>1 DEF AskStats, desk
  <2> QED BY <2>2, <2>3, FigMoves
<1>3. ASSUME NEW q \in Queries, LookHit(q) PROVE FigInv'
  <2>1. PICK k : k = CacheKey(query[q].ask)
    OBVIOUS
  <2>2. PICK r : r = [query[q] EXCEPT !.pc = "answer", !.figures = cache[k].figures]
    OBVIOUS
  <2>3. /\ k \in DOMAIN cache /\ ~cache[k].garbled /\ query' = [query EXCEPT ![q] = r]
        /\ UNCHANGED lvars /\ cache' = cache
    BY <1>3, <2>1, <2>2 DEF LookHit, desk
  <2>4. cache[k] \in Entry /\ Possible(cache[k].figures)
    BY <2>3 DEF FigInv, StatisticsTypeOK
  <2>5. r \in Query /\ r.figures = cache[k].figures
    BY <1>0, <2>2, <2>4 DEF Query, Entry
  <2> QED BY <2>3, <2>4, <2>5, FigMoves
<1>4. ASSUME NEW q \in Queries, LookMiss(q) PROVE FigInv'
  <2>1. PICK r : r = [query[q] EXCEPT !.pc = "count"]
    OBVIOUS
  <2>2. r \in Query /\ r.pc = "count"
    BY <1>0, <2>1 DEF Query
  <2>3. query' = [query EXCEPT ![q] = r] /\ UNCHANGED lvars
    BY <1>4, <2>1 DEF LookMiss, desk
  <2>4. \A k \in DOMAIN cache' : k \in DOMAIN cache /\ cache'[k] = cache[k]
    BY <1>4 DEF LookMiss, Without, Restrict
  <2> QED BY <2>2, <2>3, <2>4, FigMoves
<1>5. ASSUME NEW q \in Queries, Count(q) PROVE FigInv'
  <2>1. PICK ask : ask = query[q].ask
    OBVIOUS
  <2>2. PICK f :
          f = [about |-> ask, total |-> MapThenSumSet(LAMBDA e : total[e], InScope(ask)),
               registered |-> Cardinality(Passed(ask)),
               over |-> \E e \in InScope(ask) : Cardinality(held[e]) > total[e], asof |-> now]
    OBVIOUS
  <2>3. query[q].pc = "count" /\ UNCHANGED lvars /\ cache' = cache
    BY <1>5 DEF Count, desk
  <2>4. ask \in Asks
    BY <1>0, <2>1, <2>3
  <2>5. f \in Figures /\ Possible(f)
    BY <1>0, <2>2, <2>4, SnapshotFine
  <2>6. CASE query' = [query EXCEPT ![q] = NoQuery]
    BY <2>3, <2>6, NothingTyped, FigMoves DEF NoQuery
  <2>7. CASE query' = [query EXCEPT ![q] = [@ EXCEPT !.pc = "sum", !.figures = f]]
    <3>1. PICK r : r = [query[q] EXCEPT !.pc = "sum", !.figures = f]
      OBVIOUS
    <3>2. query' = [query EXCEPT ![q] = r]
      BY <2>7, <3>1
    <3>3. r \in Query /\ r.figures = f
      BY <1>0, <2>5, <3>1 DEF Query
    <3> QED BY <2>3, <2>5, <3>2, <3>3, FigMoves
  <2> QED BY <1>5, <2>1, <2>2, <2>6, <2>7 DEF Count
<1>6. ASSUME NEW q \in Queries, Summarize(q) PROVE FigInv'
  <2>1. PICK r : r = [query[q] EXCEPT !.pc = "store"]
    OBVIOUS
  <2>2. query[q].pc = "sum" /\ query' = [query EXCEPT ![q] = r] /\ UNCHANGED lvars /\ cache' = cache
    BY <1>6, <2>1 DEF Summarize, desk
  <2>3. r \in Query /\ r.figures = query[q].figures /\ Possible(query[q].figures)
    BY <1>0, <2>1, <2>2 DEF Query, FigInv
  <2> QED BY <2>2, <2>3, FigMoves
<1>7. ASSUME NEW q \in Queries, Store(q) PROVE FigInv'
  <2>1. PICK k, entry, r :
          /\ k = CacheKey(query[q].ask)
          /\ entry = [figures |-> query[q].figures, garbled |-> FALSE, until |-> now + Lifetime]
          /\ r = [query[q] EXCEPT !.pc = "answer"]
    OBVIOUS
  <2>2. query[q].pc = "store" /\ query' = [query EXCEPT ![q] = r] /\ UNCHANGED lvars
    BY <1>7, <2>1 DEF Store, desk
  <2>3. r \in Query /\ r.figures = query[q].figures /\ Possible(query[q].figures)
    BY <1>0, <2>1, <2>2 DEF Query, FigInv
  <2>4. k \in Keyring
    BY <1>0, <2>1, <2>2, KeyInKeyring
  <2>5. entry \in Entry /\ entry.figures = query[q].figures
    BY <1>0, <2>1, StatisticsAssumption DEF Query, Entry, Lifetime
  <2>6. CASE cache' = cache
    BY <2>2, <2>3, <2>6, FigMoves
  <2>7. CASE cache' = [j \in DOMAIN cache \cup {k} |-> IF j = k THEN entry ELSE cache[j]]
    <3>1. /\ \A j \in DOMAIN cache' : cache'[j] \in Entry
          /\ \A j \in DOMAIN cache' : ~cache'[j].garbled => Possible(cache'[j].figures)
          /\ DOMAIN cache' \subseteq Keyring
      BY <2>3, <2>4, <2>5, <2>7 DEF FigInv, StatisticsTypeOK
    <3>2. query' \in [Queries -> Query]
      BY <1>0, <2>2, <2>3
    <3>3. ASSUME NEW p \in Queries, query'[p].pc \in {"sum", "store", "answer"}
          PROVE  Possible(query'[p].figures)
      <4>1. CASE p = q
        BY <1>0, <2>2, <2>3, <4>1
      <4>2. CASE p # q
        <5>1. query'[p] = query[p]
          BY <1>0, <2>2, <4>2
        <5> QED BY <3>3, <5>1 DEF FigInv
      <4> QED BY <4>1, <4>2
    <3>4. total' = total /\ held' = held
      BY <2>2 DEF lvars
    <3> QED BY <3>1, <3>2, <3>3, <3>4 DEF FigInv, StatisticsTypeOK
  <2> QED BY <1>7, <2>1, <2>6, <2>7 DEF Store
<1>8. ASSUME NEW q \in Queries, EndStats(q) PROVE FigInv'
  <2>1. query' = [query EXCEPT ![q] = NoQuery] /\ UNCHANGED lvars /\ cache' = cache
    BY <1>8 DEF EndStats, desk
  <2> QED BY <2>1, NothingTyped, FigMoves DEF NoQuery
<1>9. ASSUME NEW k \in DOMAIN cache, Garble(k) PROVE FigInv'
  <2>1. PICK c : c = [cache[k] EXCEPT !.figures = NoFigures, !.garbled = TRUE]
    OBVIOUS
  <2>2. cache' = [cache EXCEPT ![k] = c] /\ UNCHANGED <<query, total, held>>
    BY <1>9, <2>1 DEF Garble, desk, lvars
  <2>3. cache[k] \in Entry
    BY DEF FigInv, StatisticsTypeOK
  <2>4. c \in Entry /\ c.garbled
    BY <2>1, <2>3, NothingTyped DEF Entry
  <2>5. \A j \in DOMAIN cache' : j \in DOMAIN cache /\ cache'[j] = IF j = k THEN c ELSE cache[j]
    BY <2>2
  <2> QED BY <2>2, <2>4, <2>5 DEF FigInv, StatisticsTypeOK
<1>10. CASE StatsPass
  <2>1. UNCHANGED lvars
        /\ query' = [q \in Queries |-> IF query[q].until < now' THEN NoQuery ELSE query[q]]
    BY <1>10 DEF StatsPass
  <2>2. query' \in [Queries -> Query] /\ total' = total /\ held' = held
    BY <1>0, <2>1, NothingTyped DEF lvars
  <2>3. \A k \in DOMAIN cache' : k \in DOMAIN cache /\ cache'[k] = cache[k]
    BY <1>10 DEF StatsPass, Without, Restrict
  <2>4. ASSUME NEW q \in Queries, query'[q].pc \in {"sum", "store", "answer"}
        PROVE  Possible(query'[q].figures)
    <3>1. query'[q] = query[q]
      BY <2>1, <2>4 DEF NoQuery
    <3> QED BY <2>4, <3>1 DEF FigInv
  <2> QED BY <2>2, <2>3, <2>4 DEF FigInv, StatisticsTypeOK
<1>11. CASE UNCHANGED <<desk, svars>>
  BY <1>11 DEF desk, lvars, svars, FigInv, StatisticsTypeOK
<1> QED BY <1>1, <1>2, <1>3, <1>4, <1>5, <1>6, <1>7, <1>8, <1>9, <1>10, <1>11 DEF SNext, QueryStep

\* The invariant of the figures, which needs that of the cache.
THEOREM FiguresInvariance == SSpec => [](StatInv /\ FigInv)
<1>1. SInit => StatInv /\ FigInv
  BY StatStart, FigStart
<1>2. StatInv /\ FigInv /\ [SNext]_<<desk, svars>> => (StatInv /\ FigInv)'
  BY StatStep, FigStep
<1> QED BY <1>1, <1>2, PTL DEF SSpec

\* Requests and cached answers are what they are taken for.
THEOREM StatisticsTyped == SSpec => []StatisticsTypeOK
<1>1. FigInv => StatisticsTypeOK
  BY DEF FigInv
<1> QED BY <1>1, FiguresInvariance, PTL

\* The seats and the passes of an answer come from one snapshot and add up, also when
\* the answer waited in the cache; the sum is over any number of events.
THEOREM FiguresAddUp == SSpec => []FiguresAgree
<1>1. FigInv => FiguresAgree
  <2> SUFFICES ASSUME FigInv, NEW q \in Queries, query[q].pc = "answer", ~query[q].figures.over
               PROVE  query[q].figures.total = query[q].figures.registered + Remaining(query[q].figures)
    BY DEF FiguresAgree, Answering
  <2>1. Possible(query[q].figures) /\ query[q].figures \in Figures
    BY DEF FigInv, StatisticsTypeOK, Query
  <2>2. query[q].figures.total \in Nat /\ query[q].figures.registered \in Nat
        /\ query[q].figures.registered <= query[q].figures.total
    BY <2>1 DEF Possible, Figures
  <2> QED BY <2>2 DEF Remaining, Left
<1> QED BY <1>1, FiguresInvariance, PTL

-----------------------------------------------------------------------------
(* The rate limiter.  A counter that lives began at an instant s, a window   *)
(* before it expires.  What passed since an instant a is bounded by the limit *)
(* of that counter and, when a is not after s, by what passed before it.      *)

Clock == 0 .. MaxNow

Since(s, t) == {u \in Clock : s <= u /\ u <= t}

\* Of the requests p that passed since a, at most b were answered for: the rest is x.
Few(p, x, a, t, b) == Sum(p, Since(a, t)) <= Sum(x, Since(a, t)) + b

\* The limit once, and once more for each restart since a.
Quota(R, a, t) == (1 + Sum(R, Since(a, t))) * Limit

\* How many a counter lets through.
Capped(c) == IF c.value < Limit THEN c.value ELSE Limit

\* A counter c that began at s, in a history of runs h, of passed requests p, of
\* unanswered ones x and of restarts R: its first run was at s, so that less than all
\* it lets through passed later, and less than the quota passed before it.
CountFine(c, h, p, x, R, s, t) ==
  /\ s + Window = c.until /\ t < c.until
  /\ c.value <= Sum(h, Since(s, t))
  /\ \A a \in Span(t) :
       Few(p, x, a, t, IF a <= s THEN Quota(R, a, t) - 1 + Capped(c) ELSE Capped(c) - 1)

ClientFine(c, h, p, x, R, t) ==
  /\ c \in [value : Nat, until : Nat]
  /\ h \in [Clock -> Nat] /\ p \in [Clock -> Nat] /\ x \in [Clock -> Nat]
  /\ \A u \in Clock : u > t => p[u] = 0 /\ x[u] = 0
  /\ c.value = 0 => \A a \in Span(t) : Few(p, x, a, t, Quota(R, a, t) - 1)
  /\ c.value > 0 => \E s \in 0 .. t : CountFine(c, h, p, x, R, s, t)

LimInv ==
  /\ now \in Clock /\ LimiterTypeOK
  /\ \A u \in Clock : u > now => restarts[u] = 0
  /\ \A k \in Clients :
       ClientFine(counter[k], counted[k], passed[k], unchecked[k], restarts, now)

LEMMA LimNumbers ==
  /\ Limit \in Nat /\ Limit > 0 /\ Window \in Nat /\ Window > 0 /\ MaxNow \in Nat
  /\ Clock \subseteq Nat
  BY DeskAssumption, LimiterAssumption DEF Clock

LEMMA ClockFinite == IsFiniteSet(Clock)
  BY DeskAssumption, FS_Interval DEF Clock

LEMMA Instants ==
  ASSUME NEW s, NEW t
  PROVE  Since(s, t) \in SUBSET Clock /\ Span(t) \in SUBSET Clock
  BY DEF Clock, Since, Span

\* The windows that contain t end with it or later: t is since each of their instants.
LEMMA InWindow ==
  ASSUME NEW t \in Clock, NEW a \in Span(t)
  PROVE  a \in Clock /\ a \in Nat /\ a <= t /\ t < a + Window /\ t \in Since(a, t)
  BY LimNumbers DEF Span, Since, Clock

LEMMA SumIsNat ==
  ASSUME NEW f \in [Clock -> Nat], NEW s, NEW t
  PROVE  Sum(f, Since(s, t)) \in Nat
  BY Instants, ClockFinite, SumRemove

\* A hit that did not happen adds nothing.
Idle(f, S, T) == S \subseteq T /\ \A x \in T \ S : f[x] = 0

LEMMA SumIdle ==
  ASSUME NEW f \in [Clock -> Nat], NEW S \in SUBSET Clock, NEW T \in SUBSET Clock, Idle(f, S, T)
  PROVE  Sum(f, T) = Sum(f, S)
<1>1. T \ S \in SUBSET Clock /\ S \cap (T \ S) = {} /\ S \cup (T \ S) = T
  BY DEF Idle
<1>2. Sum(f, T) = Sum(f, S) + Sum(f, T \ S)
  BY <1>1, ClockFinite, SumSplit
<1>3. Sum(f, T \ S) = 0
  <2> DEFINE F == {A \in SUBSET (T \ S) : Sum(f, A) # 0}
  <2>1. SUFFICES ASSUME F # {} PROVE FALSE
    OBVIOUS
  <2>2. PICK A \in F : \A x \in A : A \ {x} \notin F
    <3>1. IsFiniteSet(T \ S)
      BY <1>1, ClockFinite, FS_Subset
    <3> QED BY <2>1, <3>1, SmallestSet
  <2>3. A \in SUBSET (T \ S) /\ A \in SUBSET Clock /\ Sum(f, A) # 0
    BY <1>1, <2>2
  <2>4. PICK x \in A : TRUE
    <3>1. A # {}
      BY <2>3, SumEmpty
    <3> QED BY <3>1
  <2>5. Sum(f, A \ {x}) = 0 /\ f[x] = 0
    BY <2>2, <2>3 DEF Idle
  <2>6. Sum(f, A) = f[x] + Sum(f, A \ {x})
    BY <2>3, ClockFinite, SumRemove
  <2> QED BY <2>3, <2>5, <2>6
<1>4. Sum(f, S) \in Nat
  BY ClockFinite, SumRemove
<1> QED BY <1>2, <1>3, <1>4

\* An instant without hits adds nothing, and alone is nothing.
LEMMA QuietInstant ==
  ASSUME NEW f \in [Clock -> Nat], NEW t \in Clock, t + 1 \in Clock, f[t + 1] = 0, NEW a \in Clock
  PROVE  /\ a <= t => Sum(f, Since(a, t + 1)) = Sum(f, Since(a, t))
         /\ a = t + 1 => Sum(f, Since(a, t + 1)) = 0
<1>1. t \in Nat /\ a \in Nat /\ \A u \in Clock : u \in Nat
  BY LimNumbers
<1>2. CASE a <= t
  <2>0. Since(a, t) \subseteq Since(a, t + 1) /\ Since(a, t + 1) \ Since(a, t) \subseteq {t + 1}
    BY <1>1, LimNumbers DEF Since, Clock
  <2>1. Idle(f, Since(a, t), Since(a, t + 1))
    BY <2>0 DEF Idle
  <2>2. Sum(f, Since(a, t + 1)) = Sum(f, Since(a, t))
    BY <2>1, Instants, SumIdle
  <2> QED BY <1>1, <1>2, <2>2
<1>3. CASE a = t + 1
  <2>1. {} \in SUBSET Clock /\ Idle(f, {}, Since(a, t + 1))
    BY <1>1, <1>3 DEF Idle, Since
  <2>2. Sum(f, Since(a, t + 1)) = Sum(f, {})
    BY <2>1, Instants, SumIdle
  <2> QED BY <1>1, <1>3, <2>2, SumEmpty
<1>4. CASE ~(a <= t) /\ a # t + 1
  BY <1>4
<1> QED BY <1>2, <1>3, <1>4

LEMMA QuotaNumbers ==
  ASSUME NEW R \in [Clock -> Nat], NEW a, NEW t
  PROVE  /\ Quota(R, a, t) \in Nat /\ Quota(R, a, t) >= Limit
         /\ (2 + Sum(R, Since(a, t))) * Limit = Quota(R, a, t) + Limit
<1>1. PICK n \in Nat : n = Sum(R, Since(a, t))
  BY SumIsNat
<1>2. PICK m \in Nat : m = n * Limit
  BY <1>1, LimNumbers
<1>3. (1 + n) * Limit = m + Limit /\ (2 + n) * Limit = m + Limit + Limit
  BY <1>1, <1>2, LimNumbers
<1> QED BY <1>1, <1>2, <1>3, LimNumbers DEF Quota

LEMMA CappedNumbers ==
  ASSUME NEW c \in [value : Nat, until : Nat]
  PROVE  /\ c.value \in Nat /\ c.until \in Nat /\ Capped(c) \in Nat
         /\ Capped(c) <= Limit /\ Capped(c) <= c.value /\ (c.value > 0 => Capped(c) > 0)
<1>1. c.value \in Nat /\ c.until \in Nat
  OBVIOUS
<1> QED BY <1>1, LimNumbers DEF Capped

\* A bound may be raised.
LEMMA FewMore ==
  ASSUME NEW p \in [Clock -> Nat], NEW x \in [Clock -> Nat], NEW a, NEW t, NEW b \in Int, NEW d \in Int,
         Few(p, x, a, t, b), b <= d
  PROVE  Few(p, x, a, t, d)
  BY SumIsNat DEF Few

\* A window is all that is since its first instant.
LEMMA WindowStarts ==
  ASSUME NEW t \in Clock
  PROVE  \E a \in Span(t) : Span(t) = Since(a, t)
<1>0. PICK a : a = IF t + 1 < Window THEN 0 ELSE t + 1 - Window
  OBVIOUS
<1>2. t \in Nat /\ t <= MaxNow /\ \A u \in Clock : u \in Nat
  BY LimNumbers DEF Clock
<1>1. a \in Nat /\ a = IF t + 1 < Window THEN 0 ELSE t + 1 - Window
  BY <1>0, <1>2, LimNumbers
<1>3. a <= t /\ t < a + Window /\ a \in Clock
  BY <1>1, <1>2, LimNumbers DEF Clock
<1>4. \A u \in Clock : (u <= t /\ t < u + Window) <=> (a <= u /\ u <= t)
  BY <1>1, <1>2, LimNumbers
<1>5. a \in Span(t)
  BY <1>3 DEF Span, Clock
<1>6. Span(t) = Since(a, t)
  BY <1>4 DEF Span, Since, Clock
<1> QED BY <1>5, <1>6

\* What passed in the window that ends at t, and what a living counter counted in it.
LEMMA WindowKept ==
  ASSUME NEW t \in Clock, NEW R \in [Clock -> Nat], NEW c, NEW h, NEW p, NEW x,
         ClientFine(c, h, p, x, R, t)
  PROVE  /\ Sum(p, Span(t)) < (2 + Sum(R, Span(t))) * Limit + Sum(x, Span(t))
         /\ c.value > 0 => c.value <= Sum(h, Span(t))
<1>1. /\ h \in [Clock -> Nat] /\ p \in [Clock -> Nat] /\ x \in [Clock -> Nat]
      /\ c \in [value : Nat, until : Nat] /\ t \in Nat /\ \A u \in Clock : u \in Nat
  BY LimNumbers DEF ClientFine
<1>2. PICK a \in Span(t) : Span(t) = Since(a, t)
  BY WindowStarts
<1>3. PICK n \in Nat : n = Quota(R, a, t) /\ n >= Limit /\ (2 + Sum(R, Since(a, t))) * Limit = n + Limit
  BY QuotaNumbers
<1>4. PICK m \in Nat : m = Capped(c) /\ m <= Limit /\ (c.value > 0 => m > 0)
  BY <1>1, CappedNumbers
<1>5. Few(p, x, a, t, n + Limit - 1)
  <2>1. CASE c.value = 0
    <3>1. Few(p, x, a, t, n - 1)
      BY <1>2, <1>3, <2>1 DEF ClientFine
    <3> QED BY <1>1, <1>3, <3>1, FewMore, LimNumbers
  <2>2. CASE c.value > 0
    <3>1. PICK s \in 0 .. t : CountFine(c, h, p, x, R, s, t)
      BY <2>2 DEF ClientFine
    <3>2. Few(p, x, a, t, n - 1 + m) \/ Few(p, x, a, t, m - 1)
      BY <1>2, <1>3, <1>4, <3>1 DEF CountFine
    <3> QED BY <1>1, <1>3, <1>4, <3>2, FewMore, LimNumbers
  <2> QED BY <1>1, <2>1, <2>2
<1>6. Sum(p, Since(a, t)) < n + Limit + Sum(x, Since(a, t))
  BY <1>1, <1>3, <1>5, SumIsNat, LimNumbers DEF Few
<1>7. ASSUME c.value > 0 PROVE c.value <= Sum(h, Span(t))
  <2>1. PICK s \in 0 .. t : CountFine(c, h, p, x, R, s, t)
    BY <1>7 DEF ClientFine
  <2>2. t < s + Window /\ s \in Nat /\ c.value <= Sum(h, Since(s, t))
    BY <2>1 DEF CountFine
  <2>3. Since(s, t) \subseteq Span(t)
    <3>1. ASSUME NEW u \in Clock, s <= u, u <= t PROVE t < u + Window
      <4>1. u \in Nat /\ t \in Nat
        BY LimNumbers
      <4> QED BY <2>2, <3>1, <4>1, LimNumbers
    <3> QED BY <3>1 DEF Since, Span, Clock
  <2>4. Sum(h, Since(s, t)) <= Sum(h, Span(t))
    BY <1>1, <2>3, Instants, ClockFinite, SumOfMore
  <2>5. Sum(h, Since(s, t)) \in Nat /\ Sum(h, Span(t)) \in Nat /\ c.value \in Nat
    BY <1>1, Instants, ClockFinite, SumRemove
  <2> QED BY <2>2, <2>4, <2>5
<1> QED BY <1>2, <1>3, <1>6, <1>7

\* One more hit at t.
OneMore(f, g, t) == g = [f EXCEPT ![t] = @ + 1]

LEMMA SumHit ==
  ASSUME NEW t \in Clock, NEW f \in [Clock -> Nat], NEW g, OneMore(f, g, t)
  PROVE  /\ g \in [Clock -> Nat] /\ g[t] = f[t] + 1 /\ \A u \in Clock : u # t => g[u] = f[u]
         /\ \A S \in SUBSET Clock : Sum(g, S) = IF t \in S THEN Sum(f, S) + 1 ELSE Sum(f, S)
<1>1. g \in [Clock -> Nat] /\ g[t] = f[t] + 1 /\ \A u \in Clock : u # t => g[u] = f[u]
  BY DEF OneMore
<1>2. ASSUME NEW S \in SUBSET Clock
      PROVE  Sum(g, S) = IF t \in S THEN Sum(f, S) + 1 ELSE Sum(f, S)
  BY <1>1, SumBump, ClockFinite
<1> QED BY <1>1, <1>2

\* A request at t is answered for (n is 1), passes without an answer, or does not pass.
Passing(p, x, q, y, t, n) ==
  \/ n = 0 /\ q = p /\ y = x
  \/ n = 0 /\ OneMore(p, q, t) /\ OneMore(x, y, t)
  \/ n = 1 /\ OneMore(p, q, t) /\ y = x

LEMMA PassAdds ==
  ASSUME NEW t \in Clock, NEW p \in [Clock -> Nat], NEW x \in [Clock -> Nat],
         NEW q, NEW y, NEW n, Passing(p, x, q, y, t, n)
  PROVE  /\ n \in Nat /\ q \in [Clock -> Nat] /\ y \in [Clock -> Nat]
         /\ \A u \in Clock : u # t => q[u] = p[u] /\ y[u] = x[u]
         /\ \A a \in Span(t), b \in Int : Few(p, x, a, t, b) => Few(q, y, a, t, b + n)
<1>1. n \in Nat /\ q \in [Clock -> Nat] /\ y \in [Clock -> Nat]
      /\ \A u \in Clock : u # t => q[u] = p[u] /\ y[u] = x[u]
  BY SumHit DEF Passing
<1>2. ASSUME NEW a \in Span(t), NEW b \in Int, Few(p, x, a, t, b) PROVE Few(q, y, a, t, b + n)
  <2>1. t \in Since(a, t) /\ Since(a, t) \in SUBSET Clock
    BY InWindow, Instants
  <2>2. PICK i \in Nat, j \in Nat : i = Sum(p, Since(a, t)) /\ j = Sum(x, Since(a, t))
    BY SumIsNat
  <2>3. i <= j + b
    BY <1>2, <2>2 DEF Few
  <2>4. \/ n = 0 /\ Sum(q, Since(a, t)) = i /\ Sum(y, Since(a, t)) = j
        \/ n = 0 /\ Sum(q, Since(a, t)) = i + 1 /\ Sum(y, Since(a, t)) = j + 1
        \/ n = 1 /\ Sum(q, Since(a, t)) = i + 1 /\ Sum(y, Since(a, t)) = j
    BY <2>1, <2>2, SumHit DEF Passing
  <2> QED BY <2>2, <2>3, <2>4 DEF Few
<1> QED BY <1>1, <1>2

\* The run that makes the counter: nothing of the window that begins with it passed yet.
LEMMA FirstRun ==
  ASSUME NEW t \in Clock, NEW R \in [Clock -> Nat], NEW c, NEW h, NEW p, NEW x,
         ClientFine(c, h, p, x, R, t), c.value = 0,
         NEW d, d = [value |-> 1, until |-> t + Window], NEW g, OneMore(h, g, t),
         NEW q, NEW y, NEW n, Passing(p, x, q, y, t, n)
  PROVE  ClientFine(d, g, q, y, R, t)
<1>1. /\ h \in [Clock -> Nat] /\ p \in [Clock -> Nat] /\ x \in [Clock -> Nat] /\ t \in Nat
      /\ \A u \in Clock : u > t => p[u] = 0 /\ x[u] = 0
      /\ \A a \in Span(t) : Few(p, x, a, t, Quota(R, a, t) - 1)
  BY LimNumbers DEF ClientFine
<1>2. /\ n \in {0, 1} /\ q \in [Clock -> Nat] /\ y \in [Clock -> Nat]
      /\ \A u \in Clock : u # t => q[u] = p[u] /\ y[u] = x[u]
  <2>1. n \in {0, 1}
    BY DEF Passing
  <2> QED BY <1>1, <2>1, PassAdds
<1>3. g \in [Clock -> Nat] /\ 1 <= Sum(g, Since(t, t))
  <2>1. t \in Since(t, t) /\ Since(t, t) \in SUBSET Clock
    BY <1>1 DEF Since
  <2>2. g \in [Clock -> Nat] /\ Sum(g, Since(t, t)) = Sum(h, Since(t, t)) + 1
    BY <1>1, <2>1, SumHit
  <2> QED BY <1>1, <2>2, SumIsNat
<1>4. d \in [value : Nat, until : Nat] /\ d.value = 1 /\ d.until = t + Window /\ Capped(d) = 1
  BY <1>1, LimNumbers DEF Capped
<1>5. ASSUME NEW a \in Span(t) PROVE a <= t /\ Few(q, y, a, t, Quota(R, a, t) - 1 + Capped(d))
  <2>1. PICK m \in Nat : m = Quota(R, a, t)
    BY QuotaNumbers
  <2>2. Few(p, x, a, t, m - 1) /\ m - 1 \in Int
    BY <1>1, <2>1
  <2>3. Few(q, y, a, t, m - 1 + n)
    BY <1>1, <2>2, PassAdds
  <2>4. Few(q, y, a, t, m - 1 + 1)
    BY <1>2, <2>1, <2>3, FewMore
  <2> QED BY <1>4, <2>1, <2>4, InWindow
<1>6. CountFine(d, g, q, y, R, t, t)
  <2>1. t < t + Window
    BY <1>1, LimNumbers
  <2> QED BY <1>3, <1>4, <1>5, <2>1 DEF CountFine
<1>7. t \in 0 .. t /\ d.value # 0 /\ \A u \in Clock : u > t => q[u] = 0 /\ y[u] = 0
  BY <1>1, <1>2, <1>4
<1> QED BY <1>2, <1>3, <1>4, <1>6, <1>7 DEF ClientFine

\* A request that the living counter c saw or not: d counts what it answered for.
LEMMA LaterRun ==
  ASSUME NEW t \in Clock, NEW R \in [Clock -> Nat], NEW c, NEW h, NEW p, NEW x,
         ClientFine(c, h, p, x, R, t), c.value > 0,
         NEW d, NEW g, NEW q, NEW y, NEW n, Passing(p, x, q, y, t, n),
         \/ d = c /\ g = h /\ n = 0
         \/ d = [c EXCEPT !.value = @ + 1] /\ OneMore(h, g, t) /\ (n = 1 => d.value <= Limit)
  PROVE  ClientFine(d, g, q, y, R, t)
<1>1. /\ h \in [Clock -> Nat] /\ p \in [Clock -> Nat] /\ x \in [Clock -> Nat] /\ t \in Nat
      /\ c \in [value : Nat, until : Nat]
      /\ \A u \in Clock : u > t => p[u] = 0 /\ x[u] = 0
  BY LimNumbers DEF ClientFine
<1>2. PICK s \in 0 .. t : CountFine(c, h, p, x, R, s, t)
  BY DEF ClientFine
<1>3. /\ n \in {0, 1} /\ q \in [Clock -> Nat] /\ y \in [Clock -> Nat]
      /\ \A u \in Clock : u # t => q[u] = p[u] /\ y[u] = x[u]
  <2>1. n \in {0, 1}
    BY DEF Passing
  <2> QED BY <1>1, <2>1, PassAdds
<1>4. d \in [value : Nat, until : Nat] /\ d.until = c.until /\ d.value > 0
      /\ (d = c \/ d.value = c.value + 1)
  BY <1>1
<1>5. Capped(c) \in Nat /\ Capped(d) \in Nat /\ Capped(c) + n <= Capped(d)
  <2>1. c.value \in Nat /\ d.value \in Nat
    BY <1>1, <1>4
  <2>2. \/ d = c /\ n = 0
        \/ d.value = c.value + 1 /\ (n = 1 => d.value <= Limit)
    BY <1>4
  <2> QED BY <1>3, <2>1, <2>2, LimNumbers DEF Capped
<1>6. g \in [Clock -> Nat] /\ d.value <= Sum(g, Since(s, t))
  <2>1. t \in Since(s, t) /\ Since(s, t) \in SUBSET Clock
    BY <1>1, Instants, LimNumbers DEF Since
  <2>2. c.value <= Sum(h, Since(s, t)) /\ Sum(h, Since(s, t)) \in Nat /\ c.value \in Nat
    BY <1>1, <1>2, SumIsNat DEF CountFine
  <2>3. CASE d = c /\ g = h
    BY <1>1, <2>2, <2>3
  <2>4. CASE d = [c EXCEPT !.value = @ + 1] /\ OneMore(h, g, t)
    <3>1. g \in [Clock -> Nat] /\ Sum(g, Since(s, t)) = Sum(h, Since(s, t)) + 1
      BY <1>1, <2>1, <2>4, SumHit
    <3>2. d.value = c.value + 1
      BY <1>1, <2>4
    <3> QED BY <2>2, <3>1, <3>2
  <2> QED BY <2>3, <2>4
<1>7. ASSUME NEW a \in Span(t)
      PROVE  Few(q, y, a, t, IF a <= s THEN Quota(R, a, t) - 1 + Capped(d) ELSE Capped(d) - 1)
  <2>1. PICK m \in Nat : m = Quota(R, a, t)
    BY QuotaNumbers
  <2>2. PICK b \in Int : b = IF a <= s THEN m - 1 + Capped(c) ELSE Capped(c) - 1
    BY <1>5, <2>1
  <2>3. PICK e \in Int : e = IF a <= s THEN m - 1 + Capped(d) ELSE Capped(d) - 1
    BY <1>5, <2>1
  <2>4. Few(p, x, a, t, b)
    BY <1>2, <2>1, <2>2 DEF CountFine
  <2>5. Few(q, y, a, t, b + n)
    BY <1>1, <2>4, PassAdds
  <2>6. b + n \in Int /\ b + n <= e
    BY <1>3, <1>5, <2>1, <2>2, <2>3
  <2>7. Few(q, y, a, t, e)
    BY <1>3, <2>5, <2>6, FewMore
  <2> QED BY <2>1, <2>3, <2>7
<1>8. CountFine(d, g, q, y, R, s, t)
  <2>1. s + Window = d.until /\ t < d.until
    BY <1>2, <1>4 DEF CountFine
  <2> QED BY <1>6, <1>7, <2>1 DEF CountFine
<1>9. d.value # 0 /\ \A u \in Clock : u > t => q[u] = 0 /\ y[u] = 0
  BY <1>1, <1>3, <1>4
<1> QED BY <1>3, <1>4, <1>6, <1>8, <1>9 DEF ClientFine

\* Without a counter and a run of the script a request passes unanswered, if at all.
LEMMA NoRun ==
  ASSUME NEW t \in Clock, NEW R \in [Clock -> Nat], NEW c, NEW h, NEW p, NEW x,
         ClientFine(c, h, p, x, R, t), NEW q, NEW y, Passing(p, x, q, y, t, 0)
  PROVE  ClientFine(c, h, q, y, R, t)
<1>1. CASE c.value > 0
  BY <1>1, LaterRun
<1>2. CASE ~(c.value > 0)
  <2>1. /\ h \in [Clock -> Nat] /\ p \in [Clock -> Nat] /\ x \in [Clock -> Nat] /\ t \in Nat
        /\ c \in [value : Nat, until : Nat] /\ c.value = 0
        /\ \A u \in Clock : u > t => p[u] = 0 /\ x[u] = 0
        /\ \A a \in Span(t) : Few(p, x, a, t, Quota(R, a, t) - 1)
    BY <1>2, LimNumbers DEF ClientFine
  <2>2. /\ q \in [Clock -> Nat] /\ y \in [Clock -> Nat]
        /\ \A u \in Clock : u # t => q[u] = p[u] /\ y[u] = x[u]
    BY <2>1, PassAdds
  <2>3. ASSUME NEW a \in Span(t) PROVE Few(q, y, a, t, Quota(R, a, t) - 1)
    <3>1. PICK m \in Int : m = Quota(R, a, t) - 1
      BY QuotaNumbers
    <3>2. Few(q, y, a, t, m + 0)
      BY <2>1, <3>1, PassAdds
    <3> QED BY <3>1, <3>2
  <2> QED BY <2>1, <2>2, <2>3 DEF ClientFine
<1> QED BY <1>1, <1>2

\* A restart of Redis: what the counter had let through is the limit at most.
LEMMA RestartFine ==
  ASSUME NEW t \in Clock, NEW R \in [Clock -> Nat], NEW Q, OneMore(R, Q, t),
         NEW c, NEW h, NEW p, NEW x, ClientFine(c, h, p, x, R, t)
  PROVE  ClientFine(NoCounter, h, p, x, Q, t)
<1>1. /\ h \in [Clock -> Nat] /\ p \in [Clock -> Nat] /\ x \in [Clock -> Nat] /\ t \in Nat
      /\ c \in [value : Nat, until : Nat]
      /\ \A u \in Clock : u > t => p[u] = 0 /\ x[u] = 0
  BY LimNumbers DEF ClientFine
<1>2. ASSUME NEW a \in Span(t) PROVE Few(p, x, a, t, Quota(Q, a, t) - 1)
  <2>1. PICK n \in Nat : n = Quota(R, a, t) /\ n >= Limit /\ (2 + Sum(R, Since(a, t))) * Limit = n + Limit
    BY QuotaNumbers
  <2>2. Quota(Q, a, t) = n + Limit
    <3>1. t \in Since(a, t) /\ Since(a, t) \in SUBSET Clock
      BY InWindow, Instants
    <3>2. Sum(Q, Since(a, t)) = Sum(R, Since(a, t)) + 1
      BY <3>1, SumHit
    <3>3. Sum(R, Since(a, t)) \in Nat
      BY SumIsNat
    <3>4. 1 + Sum(Q, Since(a, t)) = 2 + Sum(R, Since(a, t))
      BY <3>2, <3>3
    <3> QED BY <2>1, <3>4 DEF Quota
  <2>3. PICK m \in Nat : m = Capped(c) /\ m <= Limit
    BY <1>1, CappedNumbers
  <2>4. Few(p, x, a, t, n - 1) \/ Few(p, x, a, t, n - 1 + m) \/ Few(p, x, a, t, m - 1)
    <3>1. CASE c.value = 0
      BY <2>1, <3>1 DEF ClientFine
    <3>2. CASE c.value > 0
      <4>1. PICK s \in 0 .. t : CountFine(c, h, p, x, R, s, t)
        BY <3>2 DEF ClientFine
      <4> QED BY <2>1, <2>3, <4>1 DEF CountFine
    <3> QED BY <1>1, <3>1, <3>2
  <2>5. Few(p, x, a, t, n + Limit - 1)
    BY <1>1, <2>1, <2>3, <2>4, FewMore, LimNumbers
  <2> QED BY <2>1, <2>2, <2>5, LimNumbers
<1>3. NoCounter \in [value : Nat, until : Nat] /\ NoCounter.value = 0
  BY DEF NoCounter
<1> QED BY <1>1, <1>2, <1>3 DEF ClientFine

\* An instant passes: a counter that expires began a window ago, so that the windows of
\* the new instant begin after it.
LEMMA InstantPasses ==
  ASSUME NEW t \in Clock, t + 1 \in Clock, NEW R \in [Clock -> Nat], R[t + 1] = 0,
         NEW c, NEW h, NEW p, NEW x, ClientFine(c, h, p, x, R, t),
         NEW d, d = IF c.until > t + 1 THEN c ELSE NoCounter
  PROVE  ClientFine(d, h, p, x, R, t + 1)
<1>1. /\ h \in [Clock -> Nat] /\ p \in [Clock -> Nat] /\ x \in [Clock -> Nat] /\ t \in Nat
      /\ c \in [value : Nat, until : Nat] /\ c.value \in Nat /\ c.until \in Nat
      /\ \A u \in Clock : u \in Nat /\ (u > t => p[u] = 0 /\ x[u] = 0)
  BY LimNumbers DEF ClientFine
<1>2. p[t + 1] = 0 /\ x[t + 1] = 0 /\ \A u \in Clock : u > t + 1 => p[u] = 0 /\ x[u] = 0
  BY <1>1
<1>3. ASSUME NEW a \in Span(t + 1)
      PROVE  /\ a \in Nat /\ t + 1 < a + Window /\ a <= t + 1
             /\ a <= t => a \in Span(t) /\ Quota(R, a, t + 1) = Quota(R, a, t)
             /\ \A b \in Nat : a <= t /\ Few(p, x, a, t, b) => Few(p, x, a, t + 1, b)
             /\ \A b \in Nat : a = t + 1 => Few(p, x, a, t + 1, b)
  <2>1. a \in Clock /\ a \in Nat /\ a <= t + 1 /\ t + 1 < a + Window
    BY InWindow
  <2>2. CASE a <= t
    <3>1. a \in Span(t)
      BY <1>1, <2>1, <2>2, LimNumbers DEF Span, Clock
    <3>2. Sum(R, Since(a, t + 1)) = Sum(R, Since(a, t))
      BY <2>1, <2>2, QuietInstant
    <3>3. Sum(p, Since(a, t + 1)) = Sum(p, Since(a, t))
      BY <1>1, <1>2, <2>1, <2>2, QuietInstant
    <3>4. Sum(x, Since(a, t + 1)) = Sum(x, Since(a, t))
      BY <1>1, <1>2, <2>1, <2>2, QuietInstant
    <3> QED BY <1>1, <2>1, <2>2, <3>1, <3>2, <3>3, <3>4 DEF Few, Quota
  <2>3. CASE a = t + 1
    <3>1. Sum(p, Since(a, t + 1)) = 0
      BY <1>1, <1>2, <2>1, <2>3, QuietInstant
    <3>2. Sum(x, Since(a, t + 1)) \in Nat
      BY <1>1, SumIsNat
    <3> QED BY <1>1, <2>1, <2>3, <3>1, <3>2 DEF Few
  <2> QED BY <1>1, <2>1, <2>2, <2>3
<1>4. ASSUME c.value > 0, c.until > t + 1
      PROVE  \E s \in 0 .. t + 1 : CountFine(c, h, p, x, R, s, t + 1)
  <2>1. PICK s \in 0 .. t : CountFine(c, h, p, x, R, s, t)
    BY <1>4 DEF ClientFine
  <2>2. s \in Nat /\ s <= t /\ s \in 0 .. t + 1
    BY <1>1
  <2>3. c.value <= Sum(h, Since(s, t + 1))
    <3>1. Since(s, t) \subseteq Since(s, t + 1)
      <4>1. ASSUME NEW u \in Clock, u <= t
            PROVE  u <= t + 1
        <5>1. u \in Nat /\ t \in Nat
          BY LimNumbers
        <5> QED BY <4>1, <5>1
      <4> QED BY <4>1 DEF Since
    <3>2. Sum(h, Since(s, t)) <= Sum(h, Since(s, t + 1))
      BY <1>1, <3>1, Instants, ClockFinite, SumOfMore
    <3>3. c.value <= Sum(h, Since(s, t))
      BY <2>1 DEF CountFine
    <3> QED BY <1>1, <3>2, <3>3, SumIsNat
  <2>4. ASSUME NEW a \in Span(t + 1)
        PROVE  Few(p, x, a, t + 1, IF a <= s THEN Quota(R, a, t + 1) - 1 + Capped(c) ELSE Capped(c) - 1)
    <3>1. PICK m \in Nat : m = Capped(c) /\ m > 0
      BY <1>1, <1>4, CappedNumbers
    <3>2. PICK n \in Nat : n = Quota(R, a, t) /\ n > 0
      BY QuotaNumbers, LimNumbers
    <3>3. CASE a <= t
      <4>1. Few(p, x, a, t, IF a <= s THEN n - 1 + m ELSE m - 1)
        BY <1>3, <2>1, <3>1, <3>2, <3>3 DEF CountFine
      <4>2. Few(p, x, a, t + 1, IF a <= s THEN n - 1 + m ELSE m - 1)
        <5>1. (IF a <= s THEN n - 1 + m ELSE m - 1) \in Nat
          BY <3>1, <3>2
        <5> QED BY <1>3, <3>3, <4>1, <5>1
      <4> QED BY <1>3, <3>1, <3>2, <3>3, <4>2
    <3>4. CASE a = t + 1
      <4>1. ~(a <= s) /\ m - 1 \in Nat
        BY <1>1, <2>2, <3>1, <3>4
      <4> QED BY <1>3, <3>1, <3>4, <4>1
    <3> QED BY <1>1, <1>3, <3>3, <3>4
  <2>5. s + Window = c.until /\ t + 1 < c.until
    BY <1>1, <1>4, <2>1 DEF CountFine
  <2> QED BY <2>2, <2>3, <2>4, <2>5 DEF CountFine
<1>5. ASSUME c.value = 0 \/ ~(c.until > t + 1), NEW a \in Span(t + 1)
      PROVE  Few(p, x, a, t + 1, Quota(R, a, t + 1) - 1)
  <2>1. PICK n \in Nat : n = Quota(R, a, t + 1) /\ n >= Limit /\ n - 1 \in Nat
    BY QuotaNumbers, LimNumbers
  <2>2. CASE a = t + 1
    BY <1>3, <2>1, <2>2
  <2>3. CASE a <= t
    <3>1. n = Quota(R, a, t) /\ a \in Span(t)
      BY <1>3, <2>1, <2>3
    <3>2. Few(p, x, a, t, n - 1)
      <4>1. CASE c.value = 0
        BY <3>1, <4>1 DEF ClientFine
      <4>2. CASE c.value > 0
        <5>1. PICK s \in 0 .. t : CountFine(c, h, p, x, R, s, t)
          BY <4>2 DEF ClientFine
        <5>2. ~(a <= s)
          <6>1. s + Window = c.until /\ ~(c.until > t + 1) /\ s \in Nat
            BY <1>5, <4>2, <5>1 DEF CountFine
          <6> QED BY <1>1, <1>3, <6>1, LimNumbers
        <5>3. PICK m \in Nat : m = Capped(c) /\ m <= Limit
          BY <1>1, CappedNumbers
        <5>4. Few(p, x, a, t, m - 1)
          BY <3>1, <5>1, <5>2, <5>3 DEF CountFine
        <5> QED BY <1>1, <2>1, <5>3, <5>4, FewMore, LimNumbers
      <4> QED BY <1>1, <4>1, <4>2
    <3> QED BY <1>3, <2>1, <2>3, <3>2
  <2> QED BY <1>1, <1>3, <2>2, <2>3
<1>6. d \in [value : Nat, until : Nat] /\ (d.value > 0 => d = c /\ c.until > t + 1)
      /\ (d.value = 0 => c.value = 0 \/ ~(c.until > t + 1))
  BY <1>1 DEF NoCounter
<1> QED BY <1>1, <1>2, <1>4, <1>5, <1>6 DEF ClientFine

LEMMA NothingCounted ==
  ASSUME NEW t \in Clock
  PROVE  ClientFine(NoCounter, NoHits, NoHits, NoHits, NoHits, t)
<1>1. /\ NoHits \in [Clock -> Nat] /\ \A u \in Clock : NoHits[u] = 0
      /\ NoCounter \in [value : Nat, until : Nat] /\ NoCounter.value = 0
  BY DEF NoHits, Clock, NoCounter
<1>2. ASSUME NEW a \in Span(t) PROVE Few(NoHits, NoHits, a, t, Quota(NoHits, a, t) - 1)
  <2>1. PICK n \in Nat : n = Quota(NoHits, a, t) /\ n >= Limit
    BY <1>1, QuotaNumbers
  <2>2. Sum(NoHits, Since(a, t)) \in Nat
    BY <1>1, SumIsNat
  <2> QED BY <2>1, <2>2, LimNumbers DEF Few
<1> QED BY <1>1, <1>2 DEF ClientFine

\* What one client does leaves the others alone.
LEMMA ClientMoves ==
  ASSUME LimInv, NEW k \in Clients, now' = now, restarts' = restarts, turned' \subseteq Clients,
         NEW d, NEW g, NEW q, NEW y,
         counter' = [counter EXCEPT ![k] = d], counted' = [counted EXCEPT ![k] = g],
         passed' = [passed EXCEPT ![k] = q], unchecked' = [unchecked EXCEPT ![k] = y],
         ClientFine(d, g, q, y, restarts, now)
  PROVE  LimInv'
<1>1. /\ d \in [value : Nat, until : Nat] /\ g \in [Clock -> Nat]
      /\ q \in [Clock -> Nat] /\ y \in [Clock -> Nat]
  BY DEF ClientFine
<1>2. LimiterTypeOK'
  BY <1>1 DEF LimInv, LimiterTypeOK, Clock
<1>3. ASSUME NEW j \in Clients
      PROVE  ClientFine(counter'[j], counted'[j], passed'[j], unchecked'[j], restarts', now')
  <2>1. ClientFine(counter[j], counted[j], passed[j], unchecked[j], restarts, now)
    BY DEF LimInv
  <2>2. CASE j = k
    <3>1. counter'[j] = d /\ counted'[j] = g /\ passed'[j] = q /\ unchecked'[j] = y
      BY <2>2 DEF LimInv, LimiterTypeOK
    <3> QED BY <3>1
  <2>3. CASE j # k
    <3>1. /\ counter'[j] = counter[j] /\ counted'[j] = counted[j]
          /\ passed'[j] = passed[j] /\ unchecked'[j] = unchecked[j]
      BY <2>3 DEF LimInv, LimiterTypeOK
    <3> QED BY <2>1, <3>1
  <2> QED BY <2>2, <2>3
<1> QED BY <1>2, <1>3 DEF LimInv

\* A request of client k for which the script runs, and which passes or not.
LEMMA RunMoves ==
  ASSUME LimInv, NEW k \in Clients, Script(k), now' = now, restarts' = restarts,
         turned' \subseteq Clients, counted' = [counted EXCEPT ![k][now] = @ + 1],
         \/ UNCHANGED <<passed, unchecked>>
         \/ /\ passed' = [passed EXCEPT ![k][now] = @ + 1]
            /\ unchecked' = [unchecked EXCEPT ![k][now] = @ + 1]
         \/ /\ passed' = [passed EXCEPT ![k][now] = @ + 1]
            /\ unchecked' = unchecked /\ ~Exceeds(counter'[k].value)
  PROVE  LimInv'
<1>1. /\ counter \in [Clients -> [value : Nat, until : Nat]] /\ now \in Clock /\ now \in Nat
      /\ counted \in [Clients -> [Clock -> Nat]] /\ passed \in [Clients -> [Clock -> Nat]]
      /\ unchecked \in [Clients -> [Clock -> Nat]] /\ restarts \in [Clock -> Nat]
      /\ ClientFine(counter[k], counted[k], passed[k], unchecked[k], restarts, now)
  BY LimNumbers DEF LimInv, LimiterTypeOK, Clock
<1>2. PICK c, h, p, x : c = counter[k] /\ h = counted[k] /\ p = passed[k] /\ x = unchecked[k]
  OBVIOUS
<1>3. PICK d : d = IF c.value = 0 THEN [value |-> 1, until |-> now + Window]
                                  ELSE [c EXCEPT !.value = @ + 1]
  OBVIOUS
<1>4. PICK g, f, z : /\ g = [h EXCEPT ![now] = @ + 1] /\ f = [p EXCEPT ![now] = @ + 1]
                     /\ z = [x EXCEPT ![now] = @ + 1]
  OBVIOUS
<1>5. OneMore(h, g, now) /\ OneMore(p, f, now) /\ OneMore(x, z, now)
  BY <1>4 DEF OneMore
<1>6. counter' = [counter EXCEPT ![k] = d] /\ counter'[k] = d
  <2>1. counter' = [counter EXCEPT ![k] = d]
    BY <1>2, <1>3 DEF Script
  <2> QED BY <1>1, <2>1
<1>7. counted' = [counted EXCEPT ![k] = g]
  BY <1>2, <1>4
<1>8. PICK q, y, n : /\ Passing(p, x, q, y, now, n) /\ (n = 0 \/ ~Exceeds(d.value))
                     /\ passed' = [passed EXCEPT ![k] = q] /\ unchecked' = [unchecked EXCEPT ![k] = y]
  <2>1. CASE UNCHANGED <<passed, unchecked>>
    <3>1. passed' = [passed EXCEPT ![k] = p] /\ unchecked' = [unchecked EXCEPT ![k] = x]
      BY <1>1, <1>2, <2>1
    <3>2. Passing(p, x, p, x, now, 0)
      BY DEF Passing
    <3> QED BY <3>1, <3>2
  <2>2. CASE /\ passed' = [passed EXCEPT ![k][now] = @ + 1]
             /\ unchecked' = [unchecked EXCEPT ![k][now] = @ + 1]
    <3>1. passed' = [passed EXCEPT ![k] = f] /\ unchecked' = [unchecked EXCEPT ![k] = z]
      BY <1>2, <1>4, <2>2
    <3>2. Passing(p, x, f, z, now, 0)
      BY <1>5 DEF Passing
    <3> QED BY <3>1, <3>2
  <2>3. CASE /\ passed' = [passed EXCEPT ![k][now] = @ + 1]
             /\ unchecked' = unchecked /\ ~Exceeds(counter'[k].value)
    <3>1. passed' = [passed EXCEPT ![k] = f] /\ unchecked' = [unchecked EXCEPT ![k] = x]
      BY <1>1, <1>2, <1>4, <2>3
    <3>2. Passing(p, x, f, x, now, 1)
      BY <1>5 DEF Passing
    <3> QED BY <1>6, <2>3, <3>1, <3>2
  <2> QED BY <2>1, <2>2, <2>3
<1>9. ClientFine(d, g, q, y, restarts, now)
  <2>1. ClientFine(c, h, p, x, restarts, now) /\ c \in [value : Nat, until : Nat] /\ c.value \in Nat
    BY <1>1, <1>2
  <2>2. CASE c.value = 0
    <3>1. d = [value |-> 1, until |-> now + Window]
      BY <1>3, <2>2
    <3> QED BY <1>1, <1>5, <1>8, <2>1, <2>2, <3>1, FirstRun
  <2>3. CASE c.value > 0
    <3>1. d = [c EXCEPT !.value = @ + 1] /\ d.value \in Nat
      BY <1>3, <2>1, <2>3
    <3>2. n = 1 => d.value <= Limit
      BY <1>8, <3>1, LimNumbers DEF Exceeds
    <3> QED BY <1>1, <1>5, <1>8, <2>1, <2>3, <3>1, <3>2, LaterRun
  <2> QED BY <2>1, <2>2, <2>3
<1> QED BY <1>6, <1>7, <1>8, <1>9, ClientMoves

LEMMA UnansweredMoves == ASSUME LimInv, NEW k \in Clients, HitUnanswered(k) PROVE LimInv'
<1>1. /\ now' = now /\ restarts' = restarts /\ turned' \subseteq Clients
      /\ \/ UNCHANGED <<passed, unchecked>>
         \/ /\ passed' = [passed EXCEPT ![k][now] = @ + 1]
            /\ unchecked' = [unchecked EXCEPT ![k][now] = @ + 1]
  BY DEF HitUnanswered, LimInv, LimiterTypeOK
<1>2. CASE Script(k) /\ counted' = [counted EXCEPT ![k][now] = @ + 1]
  BY <1>1, <1>2, RunMoves
<1>3. CASE UNCHANGED <<counter, counted>>
  <2>1. /\ counter \in [Clients -> [value : Nat, until : Nat]] /\ now \in Clock
        /\ counted \in [Clients -> [Clock -> Nat]] /\ passed \in [Clients -> [Clock -> Nat]]
        /\ unchecked \in [Clients -> [Clock -> Nat]] /\ restarts \in [Clock -> Nat]
        /\ ClientFine(counter[k], counted[k], passed[k], unchecked[k], restarts, now)
    BY DEF LimInv, LimiterTypeOK, Clock
  <2>2. PICK c, h, p, x : c = counter[k] /\ h = counted[k] /\ p = passed[k] /\ x = unchecked[k]
    OBVIOUS
  <2>3. PICK q, y : /\ Passing(p, x, q, y, now, 0)
                    /\ passed' = [passed EXCEPT ![k] = q] /\ unchecked' = [unchecked EXCEPT ![k] = y]
    <3>1. PICK f, z : f = [p EXCEPT ![now] = @ + 1] /\ z = [x EXCEPT ![now] = @ + 1]
      OBVIOUS
    <3>2. Passing(p, x, p, x, now, 0) /\ Passing(p, x, f, z, now, 0)
      BY <3>1 DEF Passing, OneMore
    <3>3. CASE UNCHANGED <<passed, unchecked>>
      <4>1. passed' = [passed EXCEPT ![k] = p] /\ unchecked' = [unchecked EXCEPT ![k] = x]
        BY <2>1, <2>2, <3>3
      <4> QED BY <3>2, <4>1
    <3>4. CASE /\ passed' = [passed EXCEPT ![k][now] = @ + 1]
               /\ unchecked' = [unchecked EXCEPT ![k][now] = @ + 1]
      <4>1. passed' = [passed EXCEPT ![k] = f] /\ unchecked' = [unchecked EXCEPT ![k] = z]
        BY <2>2, <3>1, <3>4
      <4> QED BY <3>2, <4>1
    <3> QED BY <1>1, <3>3, <3>4
  <2>4. counter' = [counter EXCEPT ![k] = c] /\ counted' = [counted EXCEPT ![k] = h]
    BY <1>3, <2>1, <2>2
  <2>5. ClientFine(c, h, q, y, restarts, now)
    BY <2>1, <2>2, <2>3, NoRun
  <2> QED BY <1>1, <2>3, <2>4, <2>5, ClientMoves
<1> QED BY <1>2, <1>3 DEF HitUnanswered

LEMMA LimStart == RInit => LimInv
<1> SUFFICES ASSUME RInit PROVE LimInv
  OBVIOUS
<1>1. now \in Clock
  BY LimNumbers DEF RInit, DeskInit, Clock
<1>2. NoCounter \in [value : Nat, until : Nat] /\ NoHits \in [0 .. MaxNow -> Nat]
      /\ \A u \in Clock : NoHits[u] = 0
  BY DEF NoCounter, NoHits, Clock
<1>3. LimiterTypeOK /\ restarts = NoHits
  BY <1>2 DEF RInit, LimiterTypeOK
<1>4. \A k \in Clients : ClientFine(counter[k], counted[k], passed[k], unchecked[k], restarts, now)
  BY <1>1, NothingCounted DEF RInit
<1> QED BY <1>1, <1>2, <1>3, <1>4 DEF LimInv

LEMMA RestartMoves == ASSUME LimInv, RedisRestart PROVE LimInv'
<1>1. /\ now' = now /\ now \in Clock /\ restarts \in [Clock -> Nat]
      /\ restarts' = [restarts EXCEPT ![now] = @ + 1]
      /\ counter' = [k \in Clients |-> NoCounter] /\ UNCHANGED <<turned, counted, passed, unchecked>>
  BY DEF RedisRestart, LimInv, LimiterTypeOK, Clock
<1>2. PICK Q : Q = restarts'
  OBVIOUS
<1>3. OneMore(restarts, Q, now)
  BY <1>1, <1>2 DEF OneMore
<1>4. Q \in [Clock -> Nat] /\ \A u \in Clock : u # now => Q[u] = restarts[u]
  BY <1>1, <1>3, SumHit
<1>5. NoCounter \in [value : Nat, until : Nat]
  BY DEF NoCounter
<1>6. LimiterTypeOK'
  BY <1>1, <1>2, <1>4, <1>5 DEF LimInv, LimiterTypeOK, Clock
<1>7. ASSUME NEW k \in Clients
      PROVE  ClientFine(counter'[k], counted'[k], passed'[k], unchecked'[k], restarts', now')
  <2>1. ClientFine(counter[k], counted[k], passed[k], unchecked[k], restarts, now)
    BY DEF LimInv
  <2>2. PICK h, p, x : h = counted[k] /\ p = passed[k] /\ x = unchecked[k]
    OBVIOUS
  <2>3. ClientFine(NoCounter, h, p, x, Q, now)
    BY <1>1, <1>3, <2>1, <2>2, RestartFine
  <2> QED BY <1>1, <1>2, <2>2, <2>3
<1>8. \A u \in Clock : u > now' => restarts'[u] = 0
  <2>1. \A u \in Clock : u \in Nat
    BY LimNumbers
  <2> QED BY <1>1, <1>2, <1>4, <2>1 DEF LimInv
<1> QED BY <1>1, <1>6, <1>7, <1>8 DEF LimInv

LEMMA ExpiryMoves == ASSUME LimInv, Expiry PROVE LimInv'
<1>1. now \in Clock /\ now' = now + 1 /\ now' \in Clock /\ now' \in Nat /\ \A u \in Clock : u \in Nat
  BY LimNumbers DEF Expiry, Tick, LimInv, Clock
<1>2. /\ UNCHANGED <<turned, counted, passed, unchecked, restarts>>
      /\ counter' = [k \in Clients |-> IF counter[k].until > now' THEN counter[k] ELSE NoCounter]
  BY DEF Expiry
<1>3. LimiterTypeOK'
  BY <1>2 DEF LimInv, LimiterTypeOK, NoCounter
<1>4. restarts \in [Clock -> Nat] /\ \A u \in Clock : u > now => restarts[u] = 0
  BY DEF LimInv, LimiterTypeOK, Clock
<1>5. ASSUME NEW k \in Clients
      PROVE  ClientFine(counter'[k], counted'[k], passed'[k], unchecked'[k], restarts', now')
  <2>1. PICK t, c, d, R : t = now /\ c = counter[k] /\ d = counter'[k] /\ R = restarts
    OBVIOUS
  <2>2. d = IF c.until > t + 1 THEN c ELSE NoCounter
    BY <1>1, <1>2, <2>1
  <2>3. ClientFine(c, counted[k], passed[k], unchecked[k], R, t)
    BY <2>1 DEF LimInv
  <2>4. t \in Clock /\ t + 1 \in Clock /\ R \in [Clock -> Nat] /\ R[t + 1] = 0
    BY <1>1, <1>4, <2>1
  <2>5. ClientFine(d, counted[k], passed[k], unchecked[k], R, t + 1)
    BY <2>2, <2>3, <2>4, InstantPasses
  <2> QED BY <1>1, <1>2, <2>1, <2>5
<1>6. ASSUME NEW u \in Clock, u > now' PROVE restarts'[u] = 0
  <2>1. u \in Nat /\ now \in Nat /\ now' = now + 1
    BY <1>1
  <2>2. u > now
    BY <1>6, <2>1
  <2> QED BY <1>2, <1>4, <2>2
<1> QED BY <1>1, <1>3, <1>5, <1>6 DEF LimInv

LEMMA LimStep == LimInv /\ [RNext]_<<desk, rvars>> => LimInv'
<1> SUFFICES ASSUME LimInv, [RNext]_<<desk, rvars>> PROVE LimInv'
  OBVIOUS
<1>1. ASSUME NEW k \in Clients, Hit(k) PROVE LimInv'
  <2>1. now' = now /\ restarts' = restarts /\ Script(k) /\ turned' \subseteq Clients
    BY <1>1 DEF Hit, desk, LimInv, LimiterTypeOK
  <2>2. /\ counted' = [counted EXCEPT ![k][now] = @ + 1]
        /\ \/ UNCHANGED <<passed, unchecked>>
           \/ /\ passed' = [passed EXCEPT ![k][now] = @ + 1]
              /\ unchecked' = unchecked /\ ~Exceeds(counter'[k].value)
    BY <1>1 DEF Hit
  <2> QED BY <2>1, <2>2, RunMoves
<1>2. ASSUME NEW k \in Clients, TurnAway(k) PROVE LimInv'
  BY <1>2 DEF TurnAway, desk, LimInv, LimiterTypeOK
<1>3. CASE UNCHANGED <<desk, rvars>>
  BY <1>3 DEF desk, rvars, LimInv, LimiterTypeOK
<1> QED BY <1>1, <1>2, <1>3, UnansweredMoves, RestartMoves, ExpiryMoves DEF RNext

\* The invariant of the counters and of what they counted.
THEOREM LimiterInvariance == RSpec => []LimInv
  BY LimStart, LimStep, PTL DEF RSpec

\* The counters count in natural numbers and nobody but a client is turned away.
THEOREM LimiterTyped == RSpec => []LimiterTypeOK
<1>1. LimInv => LimiterTypeOK
  BY DEF LimInv
<1> QED BY <1>1, LimiterInvariance, PTL

\* The same in the terms of the limiter.
LEMMA WithinWindow ==
  ASSUME NEW t \in Clock, NEW R \in [Clock -> Nat], NEW c, NEW h, NEW p, NEW x,
         ClientFine(c, h, p, x, R, t)
  PROVE  /\ Within(p, t) < (2 + Within(R, t)) * Limit + Within(x, t)
         /\ c.value > 0 => c.value <= Within(h, t)
         /\ c.value \in Nat /\ Within(h, t) \in Nat
<1>1. c \in [value : Nat, until : Nat] /\ c.value \in Nat /\ h \in [Clock -> Nat]
  BY DEF ClientFine
<1>2. /\ Within(p, t) = Sum(p, Span(t)) /\ Within(h, t) = Sum(h, Span(t))
      /\ Within(x, t) = Sum(x, Span(t)) /\ Within(R, t) = Sum(R, Span(t))
  BY FoldIsSum DEF Within
<1>3. Sum(h, Span(t)) \in Nat
  BY <1>1, Instants, ClockFinite, SumRemove
<1> QED BY <1>1, <1>2, <1>3, WindowKept

\* No window of time lets through twice the limit, but for what passed unanswered and
\* once the limit for each restart of Redis; and nobody is turned away who kept to the
\* limit, whatever the limit, the window and the times of the requests.
THEOREM LimiterKeepsLimit == RSpec => LimitKept
<1> DEFINE Kept(k) ==
      /\ passed'[k] # passed[k] =>
           Within(passed'[k], now)
             < (2 + Within(restarts, now)) * Limit + Within(unchecked'[k], now)
      /\ k \in turned' \ turned => Within(counted'[k], now) > Limit
<1>1. LimInv /\ LimInv' /\ [RNext]_<<desk, rvars>> => [\A k \in Clients : Kept(k)]_<<desk, rvars>>
  <2> SUFFICES ASSUME LimInv, LimInv', RNext, NEW k \in Clients PROVE Kept(k)
    OBVIOUS
  <2>1. (now' = now /\ restarts' = restarts) =>
          /\ Within(passed'[k], now) < (2 + Within(restarts, now)) * Limit + Within(unchecked'[k], now)
          /\ counter'[k].value > 0 => counter'[k].value <= Within(counted'[k], now)
          /\ counter'[k].value \in Nat /\ Within(counted'[k], now) \in Nat
    <3> SUFFICES ASSUME now' = now, restarts' = restarts
                 PROVE  /\ Within(passed'[k], now)
                             < (2 + Within(restarts, now)) * Limit + Within(unchecked'[k], now)
                        /\ counter'[k].value > 0 => counter'[k].value <= Within(counted'[k], now)
                        /\ counter'[k].value \in Nat /\ Within(counted'[k], now) \in Nat
      OBVIOUS
    <3>1. PICK c, h, p, x, R : /\ c = counter'[k] /\ h = counted'[k] /\ p = passed'[k]
                               /\ x = unchecked'[k] /\ R = restarts
      OBVIOUS
    <3>2. ClientFine(c, h, p, x, R, now) /\ now \in Clock /\ R \in [Clock -> Nat]
      BY <3>1 DEF LimInv, LimiterTypeOK, Clock
    <3>3. /\ Within(p, now) < (2 + Within(R, now)) * Limit + Within(x, now)
          /\ c.value > 0 => c.value <= Within(h, now)
          /\ c.value \in Nat /\ Within(h, now) \in Nat
      BY <3>2, WithinWindow
    <3> QED BY <3>1, <3>3
  <2>2. ASSUME NEW j \in Clients, Hit(j) PROVE Kept(k)
    <3>1. now' = now /\ restarts' = restarts
      BY <2>2 DEF Hit, desk
    <3>2. k \in turned' \ turned => counter'[k].value > Limit
      BY <2>2 DEF Hit, Exceeds
    <3> QED BY <2>1, <3>1, <3>2, LimNumbers
  <2>3. ASSUME NEW j \in Clients, HitUnanswered(j) PROVE Kept(k)
    <3>1. now' = now /\ restarts' = restarts /\ turned' = turned
      BY <2>3 DEF HitUnanswered
    <3> QED BY <2>1, <3>1
  <2>4. ASSUME NEW j \in Clients, TurnAway(j) PROVE Kept(k)
    BY <2>4 DEF TurnAway
  <2>5. CASE Expiry \/ RedisRestart
    BY <2>5 DEF Expiry, RedisRestart
  <2> QED BY <2>2, <2>3, <2>4, <2>5 DEF RNext
<1> QED BY <1>1, LimiterInvariance, PTL DEF RSpec, LimitKept
=============================================================================
