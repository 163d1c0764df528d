-------------------------- MODULE PaperTradingProofs --------------------------
(* What holds of PaperTrading for every set of pairs, price, size, fee, lever, *)
(* exit setting and bound: the types, that ledgers follow rows, and that the   *)
(* cash is explained by the engine's books.  The latter is about a sum over    *)
(* the pairs, so the first part proves what such a sum does when one summand   *)
(* changes, by taking a minimal set for which it would not.                    *)
EXTENDS PaperTrading, FiniteSetTheorems, TLAPS

(* Every nonempty family of subsets of a finite set has a minimal member. *)
LEMMA MinimalSubset ==
  ASSUME NEW S, IsFiniteSet(S), NEW F \in SUBSET (SUBSET S), F # {}
  PROVE  \E T \in F : \A U \in F : U \subseteq T => U = T
<1>1. IsWellFoundedOn(StrictSubsetOrdering(S), SUBSET S)
  BY FS_StrictSubsetOrderingWellFounded, FS_FiniteSubsetsOfFinite
<1>2. PICK T \in F : \A U \in F : ~ (<<U, T>> \in StrictSubsetOrdering(S))
  BY <1>1, WFMin
<1>3. \A U \in F : U \subseteq T => U = T
  BY <1>2 DEF StrictSubsetOrdering
<1> QED BY <1>3

LEMMA LeastNumber ==
  ASSUME NEW N \in SUBSET Nat, N # {}
  PROVE  \E n \in N : \A m \in N : n <= m
<1> DEFINE Below == {ss \in Nat \X Nat : ss[1] < ss[2]}
<1>1. IsWellFoundedOn(Below, Nat) BY NatLessThanWellFounded DEF OpToRel
<1>2. PICK n \in N : \A m \in N : ~ (<<m, n>> \in Below)
  <2> HIDE DEF Below
  <2> QED BY <1>1, WFMin
<1>3. ASSUME NEW m \in N, m < n PROVE FALSE
  <2>1. <<m, n>> \in Nat \X Nat /\ <<m, n>>[1] < <<m, n>>[2] BY <1>3
  <2>2. <<m, n>> \in Below BY ONLY <2>1
  <2> QED BY <2>2, <1>2
<1> QED BY <1>3

-----------------------------------------------------------------------------
(* SumFunction is defined by a recursive function on the subsets of a domain, *)
(* which takes a chosen element out of a set.                               *)
Some(T) == CHOOSE x \in T : TRUE
Adding(f, T, g) == IF T = {} THEN 0 ELSE f[Some(T)] + g[T \ {Some(T)}]
Total(f) == CHOOSE g : g = [T \in SUBSET DOMAIN f |-> Adding(f, T, g)]

LEMMA SumIsTotal ==
  ASSUME NEW f
  PROVE  SumFunction(f) = Total(f)[DOMAIN f]
BY DEF SumFunction, SumFunctionOnSet, FoldFunctionOnSet, MapThenFoldSet, Total, Adding, Some

LEMMA SomeIn == ASSUME NEW T, T # {} PROVE Some(T) \in T
BY DEF Some

(* The sets of at most n elements, and a function that adds up over them. *)
Small(S, n) == {T \in SUBSET S : Cardinality(T) <= n}
Adds(f, S, g, n) ==
  /\ g \in [Small(S, n) -> Int]
  /\ \A T \in Small(S, n) : g[T] = Adding(f, T, g)

LEMMA SmallerIsSmall ==
  ASSUME NEW S, IsFiniteSet(S), NEW n \in Nat, NEW T \in Small(S, n), T # {}
  PROVE  n # 0 /\ T \ {Some(T)} \in Small(S, n - 1)
<1>1. IsFiniteSet(T) BY FS_Subset DEF Small
<1>2. Cardinality(T) \in Nat /\ Cardinality(T) # 0
  BY <1>1, FS_CardinalityType, FS_EmptySet
<1>3. Cardinality(T \ {Some(T)}) = Cardinality(T) - 1
  BY <1>1, SomeIn, FS_RemoveElement
<1> QED BY <1>2, <1>3 DEF Small

LEMMA AddsUpTo ==
  ASSUME NEW S, IsFiniteSet(S), NEW f \in [S -> Int], NEW n \in Nat
  PROVE  \E g : Adds(f, S, g, n)
<1> DEFINE N == {m \in Nat : ~ \E g : Adds(f, S, g, m)}
<1>1. SUFFICES ASSUME N # {} PROVE FALSE OBVIOUS
<1>2. PICK m \in N : \A k \in N : m <= k
  <2> HIDE DEF N
  <2>1. N \in SUBSET Nat BY DEF N
  <2> QED BY <1>1, <2>1, LeastNumber
<1>3. m \in Nat /\ ~ \E g : Adds(f, S, g, m) OBVIOUS
<1>4. CASE m = 0
  <2> DEFINE g == [T \in Small(S, 0) |-> 0]
  <2>1. \A T \in Small(S, 0) : T = {} BY SmallerIsSmall
  <2>2. Adds(f, S, g, 0) BY <2>1 DEF Adds, Adding
  <2> QED BY <1>3, <1>4, <2>2
<1>5. CASE m # 0
  <2>1. m - 1 \in Nat BY <1>3, <1>5
  <2>2. m - 1 \notin N
    <3> HIDE DEF N
    <3> QED BY <1>2, <1>3, <2>1
  <2>3. PICK g : Adds(f, S, g, m - 1) BY <2>1, <2>2
  <2> DEFINE h == [T \in Small(S, m) |-> IF T \in Small(S, m - 1) THEN g[T] ELSE Adding(f, T, g)]
  <2>4. ASSUME NEW T \in Small(S, m)
        PROVE  h[T] \in Int /\ h[T] = Adding(f, T, h)
    <3>1. CASE T = {}
      <4>1. Adding(f, T, g) = 0 /\ Adding(f, T, h) = 0 BY <3>1 DEF Adding
      <4>2. h[T] = 0 BY <4>1, <2>3 DEF Adds
      <4> QED BY <4>1, <4>2
    <3>2. CASE T # {}
      <4> DEFINE x == Some(T)
      <4>1. x \in S /\ T \ {x} \in Small(S, m - 1)
        BY <3>2, <1>3, SomeIn, SmallerIsSmall DEF Small
      <4>2. T \ {x} \in Small(S, m)
        <5>1. IsFiniteSet(T \ {x}) BY <4>1, FS_Subset DEF Small
        <5>2. Cardinality(T \ {x}) \in Nat BY <5>1, FS_CardinalityType
        <5> QED BY <5>2, <4>1, <1>3 DEF Small
      <4>3. h[T \ {x}] = g[T \ {x}] /\ g[T \ {x}] \in Int
        BY <4>1, <4>2, <2>3 DEF Adds
      <4>4. Adding(f, T, h) = f[x] + g[T \ {x}] /\ Adding(f, T, g) = f[x] + g[T \ {x}]
        BY <3>2, <4>3 DEF Adding
      <4>5. h[T] = f[x] + g[T \ {x}] BY <4>4, <2>3 DEF Adds
      <4> QED BY <4>1, <4>3, <4>4, <4>5
    <3> QED BY <3>1, <3>2
  <2>5. Adds(f, S, h, m)
    <3> HIDE DEF Adding
    <3> QED BY <2>4 DEF Adds
  <2> QED BY <1>3, <2>5
<1> QED BY <1>4, <1>5

LEMMA TotalAdds ==
  ASSUME NEW S, IsFiniteSet(S), NEW f \in [S -> Int]
  PROVE  /\ Total(f) \in [SUBSET S -> Int]
         /\ \A T \in SUBSET S : Total(f)[T] = Adding(f, T, Total(f))
<1>1. Cardinality(S) \in Nat /\ Small(S, Cardinality(S)) = SUBSET S
  <2>1. \A T \in SUBSET S : Cardinality(T) <= Cardinality(S) BY FS_Subset
  <2> QED BY <2>1, FS_CardinalityType DEF Small
<1>p. PICK g : Adds(f, S, g, Cardinality(S)) BY <1>1, AddsUpTo
<1>2. g \in [SUBSET S -> Int] /\ \A T \in SUBSET S : g[T] = Adding(f, T, g)
  BY <1>1, <1>p DEF Adds
<1>3. DOMAIN f = S OBVIOUS
<1>4. g = [T \in SUBSET S |-> Adding(f, T, g)] BY <1>2
<1>5. Total(f) = [T \in SUBSET S |-> Adding(f, T, Total(f))]
  BY <1>3, <1>4 DEF Total
<1> DEFINE t == Total(f)
<1>6. \A T \in SUBSET S : t[T] = Adding(f, T, t) BY <1>5
<1> HIDE DEF t
<1> DEFINE F == {T \in SUBSET S : t[T] # g[T]}
<1>7. ASSUME F # {} PROVE FALSE
  <2>1. F \in SUBSET (SUBSET S) OBVIOUS
  <2>2. PICK T \in F : \A U \in F : U \subseteq T => U = T
    <3> HIDE DEF F
    <3> QED BY <1>7, <2>1, MinimalSubset
  <2>3. T \in SUBSET S /\ t[T] # g[T] OBVIOUS
  <2>4. T # {} BY <2>3, <1>2, <1>6 DEF Adding
  <2> DEFINE x == Some(T)
  <2>5. x \in T BY <2>4, SomeIn
  <2>6. T \ {x} \in SUBSET S /\ T \ {x} # T /\ T \ {x} \subseteq T BY <2>3, <2>5
  <2>7. T \ {x} \notin F
    <3> HIDE DEF F, x
    <3> QED BY <2>2, <2>6
  <2>8. t[T \ {x}] = g[T \ {x}] BY <2>6, <2>7
  <2> QED BY <2>3, <2>4, <2>8, <1>2, <1>6 DEF Adding
<1>8. \A T \in SUBSET S : t[T] = g[T] BY <1>7
<1>9. t \in [SUBSET S -> Int] BY <1>5, <1>8, <1>2 DEF t
<1> QED BY <1>6, <1>9 DEF t

(* The chosen element does not matter. *)
LEMMA TotalStep ==
  ASSUME NEW S, IsFiniteSet(S), NEW f \in [S -> Int]
  PROVE  \A T \in SUBSET S : \A x \in T : Total(f)[T] = f[x] + Total(f)[T \ {x}]
<1> DEFINE t == Total(f)
<1>1. t \in [SUBSET S -> Int] /\ \A T \in SUBSET S : t[T] = Adding(f, T, t)
  BY TotalAdds
<1> HIDE DEF t
<1> DEFINE F == {T \in SUBSET S : \E x \in T : t[T] # f[x] + t[T \ {x}]}
<1>2. ASSUME F # {} PROVE FALSE
  <2>1. F \in SUBSET (SUBSET S) OBVIOUS
  <2>2. PICK T \in F : \A U \in F : U \subseteq T => U = T
    <3> HIDE DEF F
    <3> QED BY <1>2, <2>1, MinimalSubset
  <2>3. PICK x \in T : T \in SUBSET S /\ t[T] # f[x] + t[T \ {x}] OBVIOUS
  <2> DEFINE c == Some(T)
  <2>4. c \in T /\ t[T] = f[c] + t[T \ {c}]
    BY <1>1, <2>3, SomeIn DEF Adding
  <2> HIDE DEF c
  <2>5. c # x BY <2>3, <2>4
  <2>6. T \ {c} \notin F /\ T \ {x} \notin F
    <3>1. T \ {c} # T /\ T \ {x} # T BY <2>3, <2>4
    <3> HIDE DEF F
    <3> QED BY <2>2, <3>1
  <2>7. t[T \ {c}] = f[x] + t[(T \ {c}) \ {x}]
    <3>1. T \ {c} \in SUBSET S /\ x \in T \ {c} BY <2>3, <2>5
    <3> QED BY <2>6, <3>1
  <2>8. t[T \ {x}] = f[c] + t[(T \ {x}) \ {c}]
    <3>1. T \ {x} \in SUBSET S /\ c \in T \ {x} BY <2>3, <2>4, <2>5
    <3> QED BY <2>6, <3>1
  <2>9. (T \ {c}) \ {x} = (T \ {x}) \ {c} /\ (T \ {x}) \ {c} \in SUBSET S BY <2>3
  <2> DEFINE rest == (T \ {x}) \ {c}
  <2>10. f[c] \in Int /\ f[x] \in Int /\ t[rest] \in Int BY <1>1, <2>3, <2>4, <2>9
  <2>11. t[T] = f[c] + (f[x] + t[rest]) /\ t[T \ {x}] = f[c] + t[rest]
    BY <2>4, <2>7, <2>8, <2>9
  <2> HIDE DEF rest
  <2> QED BY <2>3, <2>10, <2>11
<1> QED BY <1>2 DEF t

(* Two functions that agree on a set have the same sum over it. *)
LEMMA TotalSame ==
  ASSUME NEW S, IsFiniteSet(S), NEW f \in [S -> Int], NEW h \in [S -> Int],
         NEW V \in SUBSET S, \A y \in V : h[y] = f[y]
  PROVE  Total(h)[V] = Total(f)[V]
<1> DEFINE t == Total(f)
           u == Total(h)
<1>1. t \in [SUBSET S -> Int] /\ \A T \in SUBSET S : t[T] = Adding(f, T, t)
  BY TotalAdds
<1>2. u \in [SUBSET S -> Int] /\ \A T \in SUBSET S : u[T] = Adding(h, T, u)
  BY TotalAdds
<1> HIDE DEF t, u
<1> DEFINE F == {T \in SUBSET S : T \subseteq V /\ t[T] # u[T]}
<1>3. ASSUME F # {} PROVE FALSE
  <2>1. F \in SUBSET (SUBSET S) OBVIOUS
  <2>2. PICK T \in F : \A U \in F : U \subseteq T => U = T
    <3> HIDE DEF F
    <3> QED BY <1>3, <2>1, MinimalSubset
  <2>3. T \in SUBSET S /\ T \subseteq V /\ t[T] # u[T] OBVIOUS
  <2>4. T # {} BY <2>3, <1>1, <1>2 DEF Adding
  <2> DEFINE x == Some(T)
  <2>5. x \in T BY <2>4, SomeIn
  <2>6. T \ {x} \in SUBSET S /\ T \ {x} # T /\ T \ {x} \subseteq V BY <2>3, <2>5
  <2>7. T \ {x} \notin F
    <3> HIDE DEF F, x
    <3> QED BY <2>2, <2>6
  <2>8. t[T \ {x}] = u[T \ {x}] BY <2>6, <2>7
  <2>9. h[x] = f[x] BY <2>3, <2>5
  <2> QED BY <2>3, <2>4, <2>8, <2>9, <1>1, <1>2 DEF Adding
<1>4. V \notin F BY <1>3
<1> QED BY <1>4 DEF t, u

(* What the sum over a finite domain does when one value changes. *)
LEMMA SumType ==
  ASSUME NEW S, IsFiniteSet(S), NEW f \in [S -> Int]
  PROVE  SumFunction(f) \in Int
<1>1. Total(f) \in [SUBSET S -> Int] BY TotalAdds
<1>2. SumFunction(f) = Total(f)[S] BY SumIsTotal
<1>3. S \in SUBSET S OBVIOUS
<1> QED BY ONLY <1>1, <1>2, <1>3

LEMMA SumChange ==
  ASSUME NEW S, IsFiniteSet(S), NEW f \in [S -> Int], NEW h \in [S -> Int],
         NEW x \in S, \A y \in S \ {x} : h[y] = f[y]
  PROVE  SumFunction(h) = SumFunction(f) + h[x] - f[x]
<1>1. SumFunction(f) = Total(f)[S] /\ SumFunction(h) = Total(h)[S] BY SumIsTotal
<1>2. Total(f)[S] = f[x] + Total(f)[S \ {x}] BY TotalStep
<1>3. Total(h)[S] = h[x] + Total(h)[S \ {x}] BY TotalStep
<1>4. Total(h)[S \ {x}] = Total(f)[S \ {x}] BY TotalSame
<1>5. Total(f)[S \ {x}] \in Int /\ f[x] \in Int /\ h[x] \in Int
  <2>1. Total(f) \in [SUBSET S -> Int] BY TotalAdds
  <2>2. S \ {x} \in SUBSET S OBVIOUS
  <2>3. Total(f)[S \ {x}] \in Int BY ONLY <2>1, <2>2
  <2> QED BY <2>3
<1> DEFINE a == Total(f)[S \ {x}]
<1> HIDE DEF a
<1>6. SumFunction(f) = f[x] + a /\ SumFunction(h) = h[x] + a /\ a \in Int
  BY <1>1, <1>2, <1>3, <1>4, <1>5 DEF a
<1> QED BY <1>5, <1>6

LEMMA SumOfZeros ==
  ASSUME NEW S, IsFiniteSet(S), NEW f \in [S -> Int], \A x \in S : f[x] = 0
  PROVE  SumFunction(f) = 0
<1> DEFINE t == Total(f)
<1>1. t \in [SUBSET S -> Int] /\ \A T \in SUBSET S : t[T] = Adding(f, T, t)
  BY TotalAdds
<1> HIDE DEF t
<1> DEFINE F == {T \in SUBSET S : t[T] # 0}
<1>2. ASSUME F # {} PROVE FALSE
  <2>1. F \in SUBSET (SUBSET S) OBVIOUS
  <2>2. PICK T \in F : \A U \in F : U \subseteq T => U = T
    <3> HIDE DEF F
    <3> QED BY <1>2, <2>1, MinimalSubset
  <2>3. T \in SUBSET S /\ t[T] # 0 OBVIOUS
  <2>4. T # {} BY <2>3, <1>1 DEF Adding
  <2> DEFINE x == Some(T)
  <2>5. x \in T BY <2>4, SomeIn
  <2>6. T \ {x} \in SUBSET S /\ T \ {x} # T /\ T \ {x} \subseteq T BY <2>3, <2>5
  <2>7. T \ {x} \notin F
    <3> HIDE DEF F, x
    <3> QED BY <2>2, <2>6
  <2>8. t[T \ {x}] = 0 /\ f[x] = 0 BY <2>3, <2>5, <2>6, <2>7
  <2> QED BY <2>3, <2>4, <2>8, <1>1 DEF Adding
<1>3. t[S] = 0 BY <1>2
<1> QED BY <1>3, SumIsTotal DEF t

-----------------------------------------------------------------------------
(* Products and quotients. *)
LEMMA TimesCommutes == ASSUME NEW a \in Int, NEW b \in Int PROVE a * b = b * a /\ a * b \in Int
OBVIOUS

LEMMA TimesNatural == ASSUME NEW a \in Nat, NEW b \in Nat PROVE a * b \in Nat
OBVIOUS

LEMMA Distributes ==
  ASSUME NEW a \in Int, NEW b \in Int, NEW c \in Int
  PROVE a * (b - c) = a * b - a * c
OBVIOUS
LEMMA Associates ==
  ASSUME NEW a \in Int, NEW b \in Int, NEW c \in Int
  PROVE a * (b * c) = (a * b) * c
OBVIOUS

LEMMA Quotient ==
  ASSUME NEW m \in Nat, NEW k \in Nat \ {0}
  PROVE  /\ m \div k \in Nat
         /\ m % k \in 0..(k-1)
         /\ m = (k * (m \div k)) + (m % k)
OBVIOUS

LEMMA GrowsWith ==
  ASSUME NEW k \in Nat, NEW a \in Int, NEW b \in Int, a <= b
  PROVE k * a <= k * b
OBVIOUS

LEMMA DivExact ==
  ASSUME NEW m \in Nat, NEW k \in Nat \ {0}
  PROVE  (k * m) \div k = m
<1> DEFINE n == k * m
           d == n \div k
           r == n % k
<1>1. n \in Nat BY TimesNatural
<1>2. d \in Nat /\ r \in Nat /\ r < k /\ n = k * d + r
  <2> HIDE DEF n
  <2> QED BY <1>1, Quotient
<1> HIDE DEF d, r
<1>3. k * (m - d) = r BY <1>2, Distributes
<1>4. ASSUME m - d >= 1 PROVE FALSE
  <2>1. k * 1 <= k * (m - d) BY <1>2, <1>4, GrowsWith
  <2> QED BY <2>1, <1>2, <1>3
<1>5. ASSUME m - d <= 0 - 1 PROVE FALSE
  <2>1. k * (m - d) <= k * (0 - 1) BY <1>2, <1>5, GrowsWith
  <2> QED BY <2>1, <1>2, <1>3
<1>6. d = m BY <1>2, <1>4, <1>5
<1> QED BY <1>6 DEF d

LEMMA DivMost ==
  ASSUME NEW m \in Nat, NEW a \in Nat, NEW b \in Nat \ {0}, a <= b
  PROVE (m * a) \div b \in Nat /\ (m * a) \div b <= m
<1> DEFINE n == m * a
           d == n \div b
<1>1. n \in Nat BY TimesNatural
<1>2. d \in Nat /\ n % b \in Nat /\ n = (b * d) + (n % b)
  <2> HIDE DEF n
  <2> QED BY <1>1, Quotient
<1>3. n <= m * b BY GrowsWith
<1> HIDE DEF n, d
<1>c. n \in Nat /\ m * b = b * m /\ b * d \in Int /\ b * m \in Int
  BY <1>1, <1>2, TimesCommutes
<1>4. b * d <= b * m
  <2>1. b * d <= n BY <1>1, <1>2, <1>c
  <2> QED BY <2>1, <1>1, <1>3, <1>c
<1>5. ASSUME d - m >= 1 PROVE FALSE
  <2>1. b * 1 <= b * (d - m) BY <1>2, <1>5, GrowsWith
  <2>2. b * (d - m) = b * d - b * m BY <1>2, Distributes
  <2> QED BY <2>1, <2>2, <1>2, <1>4
<1> QED BY <1>2, <1>5 DEF n, d

\* A product with a multiple of the divisor divides exactly.
LEMMA Scaled ==
  ASSUME NEW p \in Nat, NEW k \in Nat \ {0}, p % k = 0, NEW q \in Nat
  PROVE  /\ p \div k \in Nat /\ (p \div k) * q \in Nat
         /\ (p * q) \div k = (p \div k) * q
         /\ (q * p) \div k = (p \div k) * q
<1> DEFINE u == p \div k
<1>1. u \in Nat /\ p = k * u BY Quotient
<1> HIDE DEF u
<1>2. u * q \in Nat BY <1>1, TimesNatural
<1>3. p * q = k * (u * q) /\ q * p = k * (u * q)
  BY <1>1, Associates, TimesCommutes
<1>4. (k * (u * q)) \div k = u * q BY <1>2, DivExact
<1> QED BY <1>1, <1>2, <1>3, <1>4 DEF u

-----------------------------------------------------------------------------
(* The types. *)
Entries == {"long", "short"}
Exiting == {"closed", "rest", "banked", "half"}

\* A pair that is held has units and a price it was entered at.
RowsWhole ==
  \A s \in Symbols :
    IF Held(s) THEN row[s].qty > 0 /\ row[s].entry \in Prices ELSE row[s] = Flat

\* What the engine still has to write is for a row as it was when the broker
\* filled: an entry for a flat pair, an exit for no more units than it holds.
Fits(j) ==
  /\ j.step \in Entries => ~Held(j.pair)
  /\ j.step \in Exiting => /\ Held(j.pair)
                           /\ j.qty <= row[j.pair].qty
                           /\ j.step # "closed" => j.qty < row[j.pair].qty
JobFits == job # NoJob => Fits(job)

Whole == TypeOK /\ RowsWhole /\ JobFits

LEMMA FeeType ==
  ASSUME NEW n \in Nat
  PROVE  Fee(n) \in Nat
BY Quotient, PaperAssumption DEF Fee

LEMMA PriceType ==
  ASSUME NEW p \in Prices
  PROVE  /\ p \in Nat \ {0} /\ p % FeeDivisor = 0 /\ p % Leverage = 0
         /\ FeeDivisor \in Nat \ {0} /\ Leverage \in Nat \ {0}
BY PaperAssumption

LEMMA OpenTypes ==
  ASSUME NEW side \in Entries, NEW q \in Sizes, NEW p \in Prices
  PROVE  /\ Opened(side, q, p) \in Ledger
         /\ Cost(side, q, p) \in Nat
         /\ q \in Nat \ {0}
<1>1. q \in Nat \ {0} /\ p \in Nat /\ Leverage \in Nat \ {0}
  BY PaperAssumption, PriceType
<1> DEFINE n == q * p
           m == n \div Leverage
<1>2. n \in Nat BY <1>1, TimesNatural
<1> HIDE DEF n
<1>3. m \in Nat /\ Fee(n) \in Nat BY <1>1, <1>2, Quotient, FeeType
<1> HIDE DEF m
<1>4. Opened(side, q, p) = [side |-> side, entry |-> p, qty |-> q,
                            margin |-> IF side = "short" THEN m ELSE 0, funding |-> 0]
  BY DEF Opened, n, m
<1>5. Opened(side, q, p) \in Ledger BY <1>1, <1>3, <1>4 DEF Ledger, Entries
<1>6. Cost(side, q, p) = Fee(n) + IF side = "short" THEN m ELSE n BY DEF Cost, n, m
<1> QED BY <1>1, <1>2, <1>3, <1>5, <1>6

\* The parts of a margin and of a funding are no more than the whole.
LEMMA PartTypes ==
  ASSUME NEW l \in Ledger, NEW q \in Nat \ {0}, q <= l.qty
  PROVE  /\ Margin(l, q) \in Nat /\ Margin(l, q) <= l.margin
         /\ Funding(l, q) \in Nat /\ Funding(l, q) <= l.funding
         /\ Covered(l, q) \in Ledger
<1>1. l.qty \in Nat \ {0} /\ l.margin \in Nat /\ l.funding \in Nat BY DEF Ledger
<1>2. Margin(l, q) \in Nat /\ Margin(l, q) <= l.margin BY <1>1, DivMost DEF Margin
<1>3. Funding(l, q) \in Nat /\ Funding(l, q) <= l.funding BY <1>1, DivMost DEF Funding
<1> DEFINE m == Margin(l, q)
           f == Funding(l, q)
<1>4. Covered(l, q) = [l EXCEPT !.qty = l.qty - q, !.margin = l.margin - m,
                                !.funding = IF q = l.qty THEN f ELSE l.funding - f]
  BY DEF Covered
<1> HIDE DEF m, f
<1>5. /\ l.qty - q \in Nat /\ l.margin - m \in Nat
      /\ (IF q = l.qty THEN f ELSE l.funding - f) \in Nat
  BY <1>1, <1>2, <1>3 DEF m, f
<1>6. Covered(l, q) \in Ledger BY <1>4, <1>5 DEF Ledger
<1> QED BY <1>2, <1>3, <1>6

LEMMA NetType ==
  ASSUME TypeOK, NEW s \in Symbols, NEW q \in Nat, NEW p \in Prices
  PROVE  Net(s, q, p) \in Int
<1>1. row[s] \in Row BY DEF TypeOK
<1> DEFINE e == row[s].entry
<1>2. e \in Nat /\ p \in Nat BY <1>1, PriceType DEF Row
<1>3. Fee(e * q) \in Nat /\ Fee(p * q) \in Nat BY <1>2, TimesNatural, FeeType
<1>4. (e - p) * q \in Int /\ (p - e) * q \in Int BY <1>2, TimesCommutes
<1>5. Net(s, q, p) = (IF row[s].side = "short" THEN e - p ELSE p - e) * q - Fee(e * q) - Fee(p * q)
  BY DEF Net
<1> HIDE DEF e
<1>6. CASE row[s].side = "short" BY <1>3, <1>4, <1>5, <1>6
<1>7. CASE row[s].side # "short" BY <1>3, <1>4, <1>5, <1>7
<1> QED BY <1>6, <1>7

LEMMA JobKinds ==
  ASSUME TypeOK
  PROVE  /\ job = NoJob \/ job \in Job
         /\ NoJob \notin Job
         /\ job \in Job <=> job.step \in Entries \cup Exiting
BY DEF TypeOK, NoJob, Job, Entries, Exiting

\* A step after which the rows are as they were.
LEMMA RowsKept ==
  ASSUME Whole, row' = row, TypeOK', job' # NoJob => Fits(job')
  PROVE  Whole'
<1>1. RowsWhole' BY DEF Whole, RowsWhole, Held
<1>2. JobFits' BY DEF JobFits, Fits, Held
<1> QED BY <1>1, <1>2 DEF Whole

\* The broker's write, done or failed.
LEMMA WrittenWhole ==
  ASSUME Whole, NEW new \in [Symbols -> Ledger], NEW amount \in Int, NEW charge \in Nat,
         NEW next \in Job, Written(new, amount, charge, next), Fits(next),
         row' = row, booked' = booked, exits' = exits, opens' \in Nat
  PROVE  Whole'
<1>1. CASE saved' = new /\ cash' = cash + amount /\ funded' = funded + charge
           /\ job' = next /\ upsets' = upsets /\ torn' = torn
  <2>1. TypeOK' BY <1>1 DEF Whole, TypeOK, Written
  <2> QED BY <1>1, <2>1, RowsKept
<1>2. CASE Upset /\ torn' = TRUE /\ saved' = saved /\ cash' = cash /\ funded' = funded
           /\ job' = job
  <2>1. TypeOK' BY <1>2 DEF Whole, TypeOK, Written, Upset
  <2> QED BY <1>2, <2>1, RowsKept DEF Whole, JobFits
<1> QED BY <1>1, <1>2 DEF Written

LEMMA OpenWhole ==
  ASSUME Whole, NEW s \in Symbols, NEW side \in Sides[s], NEW q \in Sizes, NEW p \in Prices,
         Open(s, side, q, p)
  PROVE  Whole'
<1>1. side \in Entries BY PaperAssumption DEF Entries
<1>2. ledger \in [Symbols -> Ledger] /\ opens \in Nat BY DEF Whole, TypeOK
<1> DEFINE next == [step |-> side, pair |-> s, qty |-> q, price |-> p]
           cost == Cost(side, q, p)
           new == [ledger EXCEPT ![s] = Opened(side, q, p)]
<1>3. new \in [Symbols -> Ledger] BY <1>1, <1>2, OpenTypes
<1>4. 0 - cost \in Int /\ next \in Job BY <1>1, OpenTypes DEF Job, Entries
<1>5. Fits(next) BY <1>1 DEF Open, Fits, Entries, Exiting
<1>6. Written(new, 0 - cost, 0, next) /\ opens' = opens - 1 /\ opens > 0 /\ row' = row
      /\ booked' = booked /\ exits' = exits
  BY DEF Open, db
<1> HIDE DEF next, cost, new
<1>7. opens' \in Nat BY <1>2, <1>6
<1> QED BY <1>3, <1>4, <1>5, <1>6, <1>7, WrittenWhole

\* The broker's half of an exit of q units of a pair.
LEMMA CloseWhole ==
  ASSUME Whole, NEW s \in Symbols, NEW p \in Prices, NEW q \in Nat \ {0},
         NEW step \in {"closed", "banked"}, Held(s), q <= row[s].qty,
         step = "banked" => q < row[s].qty,
         BrokerCloses(s, q, p, [step |-> step, pair |-> s, qty |-> q, price |-> p]),
         UNCHANGED <<db, exits, opens>>
  PROVE  Whole'
<1> DEFINE next == [step |-> step, pair |-> s, qty |-> q, price |-> p]
           l == ledger[s]
           part == Lesser(q, l.qty)
<1>0. /\ ledger \in [Symbols -> Ledger] /\ l \in Ledger /\ opens \in Nat
      /\ row[s] \in Row /\ row[s].entry \in Nat /\ row[s].qty \in Nat
      /\ p \in Nat /\ row' = row /\ booked' = booked /\ exits' = exits /\ opens' = opens
  BY PriceType DEF Whole, TypeOK, db, Row
<1>1. next \in Job /\ Fits(next)
  BY DEF Job, Fits, Entries, Exiting
<1>2. CASE Written([ledger EXCEPT ![s].qty = 0], q * p - Fee(q * p), 0, next)
  <2>1. [ledger EXCEPT ![s].qty = 0] \in [Symbols -> Ledger]
    BY <1>0 DEF Ledger
  <2>2. q * p - Fee(q * p) \in Int BY <1>0, TimesNatural, FeeType
  <2> HIDE DEF next
  <2> QED BY <1>0, <1>1, <1>2, <2>1, <2>2, WrittenWhole
<1>3. CASE /\ l.qty > 0
           /\ Written([ledger EXCEPT ![s] = Covered(l, part)],
                Margin(l, part) + ((row[s].entry - p) * part - Fee(part * p) - Funding(l, part)),
                Funding(l, part),
                IF next.step = "closed" THEN [next EXCEPT !.qty = part] ELSE next)
  <2>1. part \in Nat \ {0} /\ part <= l.qty /\ part <= q BY <1>0, <1>3 DEF Lesser, Ledger
  <2> HIDE DEF part
  <2>2. Covered(l, part) \in Ledger /\ Margin(l, part) \in Nat /\ Funding(l, part) \in Nat
    BY <1>0, <2>1, PartTypes
  <2>3. [ledger EXCEPT ![s] = Covered(l, part)] \in [Symbols -> Ledger]
    BY <1>0, <2>2
  <2>4. Fee(part * p) \in Nat BY <1>0, <2>1, TimesNatural, FeeType
  <2>5. (row[s].entry - p) * part \in Int
    <3>1. row[s].entry - p \in Int /\ part \in Int BY <1>0, <2>1
    <3> QED BY ONLY <3>1, TimesCommutes
  <2>6. Margin(l, part) + ((row[s].entry - p) * part - Fee(part * p) - Funding(l, part)) \in Int
    BY <2>2, <2>4, <2>5
  <2> DEFINE taken == IF next.step = "closed" THEN [next EXCEPT !.qty = part] ELSE next
  <2>7. taken \in Job /\ Fits(taken)
    <3>1. CASE step = "closed"
      <4>1. taken = [step |-> step, pair |-> s, qty |-> part, price |-> p] BY <3>1
      <4> QED BY <4>1, <3>1, <2>1, <1>0 DEF Job, Fits, Entries, Exiting
    <3>2. CASE step = "banked" BY <3>2, <1>1
    <3> QED BY <3>1, <3>2
  <2> HIDE DEF taken, l
  <2> QED BY <1>0, <1>3, <2>2, <2>3, <2>6, <2>7, WrittenWhole DEF taken
<1> QED BY <1>2, <1>3 DEF BrokerCloses

LEMMA HalfType ==
  ASSUME Whole, NEW s \in Symbols, Held(s), Half(s) > 0
  PROVE  Half(s) \in Nat \ {0} /\ Half(s) < row[s].qty
<1>1. row[s].qty \in Nat /\ row[s].qty > 0 BY DEF Whole, TypeOK, RowsWhole, Row
<1> QED BY <1>1 DEF Half

LEMMA MarkWhole ==
  ASSUME Whole, NEW s \in Symbols, NEW periods \in 0..1, MarkToMarket(s, periods)
  PROVE  Whole'
<1> DEFINE l == ledger[s]
           due == IF l.side = "short" THEN periods * Fee(l.entry * l.qty) ELSE 0
<1>1. ledger \in [Symbols -> Ledger] /\ l \in Ledger BY DEF Whole, TypeOK
<1>2. Fee(l.entry * l.qty) \in Nat BY <1>1, TimesNatural, FeeType DEF Ledger
<1>3. due \in Nat
  <2>1. periods \in Nat BY SMT
  <2> QED BY <1>2, <2>1, TimesNatural
<1> HIDE DEF due
<1>4. ledger' = [ledger EXCEPT ![s] = [l EXCEPT !.funding = l.funding + due]]
  BY DEF MarkToMarket, due
<1>5. [l EXCEPT !.funding = l.funding + due] \in Ledger BY <1>1, <1>3 DEF Ledger
<1>6. ledger' \in [Symbols -> Ledger] BY <1>1, <1>4, <1>5
<1>7. /\ saved' \in [Symbols -> Ledger] /\ upsets' \in Nat
      /\ UNCHANGED <<cash, funded, row, booked, job, exits, opens, torn>>
  BY <1>6 DEF MarkToMarket, Whole, TypeOK, Upset, db
<1>8. TypeOK' BY <1>6, <1>7 DEF Whole, TypeOK
<1> QED BY <1>7, <1>8, RowsKept DEF Whole, JobFits

\* A step that writes the row of one pair and has nothing left to write.
LEMMA RowWritten ==
  ASSUME Whole, NEW s \in Symbols, NEW r \in Row, row' = [row EXCEPT ![s] = r],
         IF r.side # "flat" THEN r.qty > 0 /\ r.entry \in Prices ELSE r = Flat,
         job' = NoJob, booked' \in Int, UNCHANGED <<file, exits, budget, torn>>
  PROVE  Whole'
<1>1. row \in [Symbols -> Row] BY DEF Whole, TypeOK
<1>2. row' \in [Symbols -> Row] /\ row'[s] = r /\ \A y \in Symbols \ {s} : row'[y] = row[y]
  BY <1>1
<1>3. TypeOK' BY <1>2 DEF Whole, TypeOK, file, budget
<1>4. RowsWhole' BY <1>2 DEF Whole, RowsWhole, Held
<1> QED BY <1>3, <1>4 DEF Whole, JobFits

LEMMA SmallWhole ==
  ASSUME Whole, NEW s \in Symbols, NEW price, NEW age, TooSmall(s, price, age)
  PROVE  Whole'
<1>1. row[s] \in Row /\ job = NoJob /\ Held(s) /\ row[s].qty > 0 /\ row[s].entry \in Prices
  BY DEF Whole, TypeOK, RowsWhole, TooSmall, PartialDue
<1> DEFINE r == [row[s] EXCEPT !.banked = TRUE]
<1>2. r \in Row /\ r.side # "flat" /\ r.qty > 0 /\ r.entry \in Prices
  BY <1>1 DEF Row, Held
<1>3. row' = [row EXCEPT ![s] = r] BY DEF TooSmall
<1>4. job' = NoJob /\ booked' \in Int /\ UNCHANGED <<file, exits, budget, torn>>
  BY <1>1 DEF TooSmall, Whole, TypeOK
<1> HIDE DEF r
<1> QED BY <1>2, <1>3, <1>4, RowWritten

LEMMA SaveOpenedWhole ==
  ASSUME Whole, NEW s \in Symbols, SaveOpened(s)
  PROVE  Whole'
<1>1. job \in Job BY JobKinds DEF Whole, SaveOpened, Entries
<1> DEFINE r == [side |-> job.step, entry |-> job.price, qty |-> job.qty, banked |-> FALSE]
<1>2. r \in Row /\ r.side # "flat" /\ r.qty > 0 /\ r.entry \in Prices
  BY <1>1, PriceType DEF Row, SaveOpened, Job
<1>3. row' = [row EXCEPT ![s] = r] /\ job' = NoJob /\ booked' \in Int
      /\ UNCHANGED <<file, exits, budget, torn>>
  BY DEF SaveOpened, Then, Whole, TypeOK
<1> HIDE DEF r
<1> QED BY <1>2, <1>3, RowWritten

\* A step that goes on with the same job.
LEMMA GoesOn ==
  ASSUME Whole, job \in Job, NEW step \in Exiting, job' = [job EXCEPT !.step = step],
         Held(job.pair), job.qty <= row[job.pair].qty,
         step # "closed" => job.qty < row[job.pair].qty,
         row' = row, booked' \in Int, upsets' \in Nat, torn' \in BOOLEAN,
         UNCHANGED <<file, exits, opens>>
  PROVE  Whole'
<1>1. /\ job' \in Job /\ job'.step = step /\ job'.pair = job.pair /\ job'.qty = job.qty
  BY DEF Job, Exiting
<1>2. TypeOK' BY <1>1 DEF Whole, TypeOK, file
<1>3. Fits(job') BY <1>1 DEF Fits, Entries, Exiting
<1> QED BY <1>2, <1>3, RowsKept

LEMMA BookClosedWhole ==
  ASSUME Whole, NEW s \in Symbols, BookClosed(s)
  PROVE  Whole'
<1>1. job \in Job BY JobKinds DEF Whole, BookClosed, Exiting
<1>2. job.pair = s /\ job.qty \in Nat \ {0} /\ job.price \in Prices
      /\ Held(s) /\ job.qty <= row[s].qty /\ row[s].qty \in Nat
  BY <1>1 DEF BookClosed, Job, Whole, JobFits, Fits, Exiting, NoJob, TypeOK, Row
<1>3. booked' \in Int
  <2>1. Net(s, job.qty, job.price) \in Int BY <1>2, NetType DEF Whole
  <2> QED BY <2>1 DEF BookClosed, Whole, TypeOK
<1>4. CASE job.qty < row[s].qty
  <2>1. row' = row /\ job' = [job EXCEPT !.step = "rest"]
        /\ UNCHANGED <<file, exits, opens, upsets, torn>>
    BY <1>4 DEF BookClosed, Then, budget
  <2>2. upsets' \in Nat /\ torn' \in BOOLEAN BY <2>1 DEF Whole, TypeOK
  <2> QED BY <1>1, <1>2, <1>3, <1>4, <2>1, <2>2, GoesOn DEF Exiting
<1>5. CASE ~ (job.qty < row[s].qty)
  <2>1. row' = [row EXCEPT ![s] = Flat] /\ job' = NoJob
        /\ UNCHANGED <<file, exits, budget, torn>>
    BY <1>5 DEF BookClosed, Then
  <2>2. Flat \in Row /\ Flat.side = "flat" BY DEF Flat, Row
  <2> QED BY <1>3, <2>1, <2>2, RowWritten
<1> QED BY <1>4, <1>5

LEMMA BookBankedWhole ==
  ASSUME Whole, NEW s \in Symbols, BookBanked(s)
  PROVE  Whole'
<1>1. job \in Job BY JobKinds DEF Whole, BookBanked, Exiting
<1>2. job.pair = s /\ job.qty \in Nat \ {0} /\ job.price \in Prices
      /\ Held(s) /\ job.qty < row[s].qty /\ job.qty <= row[s].qty
  BY <1>1 DEF BookBanked, Job, Whole, JobFits, Fits, Exiting, NoJob, TypeOK, Row
<1>3. Net(s, job.qty, job.price) \in Int BY <1>2, NetType DEF Whole
<1>4. booked' \in Int /\ upsets' \in Nat /\ torn' \in BOOLEAN
  <2>1. CASE booked' = booked + Net(s, job.qty, job.price) /\ UNCHANGED <<upsets, torn>>
    BY <1>3, <2>1 DEF Whole, TypeOK
  <2>2. CASE Upset /\ torn' = TRUE /\ UNCHANGED booked
    BY <2>2 DEF Whole, TypeOK, Upset
  <2> QED BY <2>1, <2>2 DEF BookBanked
<1>5. row' = row /\ job' = [job EXCEPT !.step = "half"] /\ UNCHANGED <<file, exits, opens>>
  BY DEF BookBanked, Then
<1> QED BY <1>1, <1>2, <1>4, <1>5, GoesOn DEF Exiting

LEMMA SaveRestWhole ==
  ASSUME Whole, NEW s \in Symbols, SaveRest(s)
  PROVE  Whole'
<1>1. job \in Job BY JobKinds DEF Whole, SaveRest, Exiting
<1>2. /\ job.pair = s /\ job.qty \in Nat /\ Held(s) /\ job.qty < row[s].qty
      /\ row[s] \in Row /\ row[s].entry \in Prices
  BY <1>1 DEF SaveRest, Job, Whole, JobFits, Fits, Exiting, NoJob, TypeOK, Row, RowsWhole
<1> DEFINE once == row[s].banked \/ job.step = "half"
           r == [row[s] EXCEPT !.qty = row[s].qty - job.qty, !.banked = once]
<1>3. once \in BOOLEAN BY <1>2 DEF Row
<1>4. row' = [row EXCEPT ![s] = r] BY DEF SaveRest
<1>5. job' = NoJob /\ booked' \in Int /\ UNCHANGED <<file, exits, budget, torn>>
  BY DEF SaveRest, Then, Whole, TypeOK
<1> HIDE DEF once
<1> DEFINE n == row[s].qty - job.qty
<1>6. n \in Nat /\ n > 0 BY <1>2 DEF Row
<1> HIDE DEF n
<1>7. r \in [side : {"flat", "long", "short"}, entry : Nat, qty : Nat, banked : BOOLEAN]
  <2>1. r = [[row[s] EXCEPT !.qty = n] EXCEPT !.banked = once] BY DEF n
  <2>2. [row[s] EXCEPT !.qty = n] \in Row BY <1>2, <1>6 DEF Row
  <2> QED BY <1>3, <2>1, <2>2, Zenon DEF Row
<1>8. r.side = row[s].side /\ r.entry = row[s].entry /\ r.qty = n
  BY <1>2, Zenon DEF Row, n
<1> HIDE DEF r
<1>9. r \in Row /\ r.side # "flat" /\ r.qty > 0 /\ r.entry \in Prices
  BY <1>2, <1>6, <1>7, <1>8 DEF Row, Held
<1> QED BY <1>4, <1>5, <1>9, RowWritten

LEMMA ForgetsWhole ==
  ASSUME Whole, EngineDies \/ \E s \in Symbols : WriteFails(s)
  PROVE  Whole'
<1>1. row' = row /\ job' = NoJob BY DEF WriteFails, EngineDies, db
<1>2. torn' \in BOOLEAN
  BY Zenon DEF WriteFails, EngineDies
<1>3. upsets' \in Nat BY DEF WriteFails, EngineDies, Upset, Whole, TypeOK
<1>4. ledger' \in [Symbols -> Ledger] /\ UNCHANGED <<cash, saved, funded, booked, exits, opens>>
  BY DEF WriteFails, EngineDies, file, db, Whole, TypeOK
<1>5. TypeOK' BY <1>1, <1>2, <1>3, <1>4 DEF Whole, TypeOK
<1> QED BY <1>1, <1>5, RowsKept

LEMMA InitWhole == Init => Whole
<1> SUFFICES ASSUME Init PROVE Whole OBVIOUS
<1>1. Flat \in Row /\ NoLedger \in Ledger BY DEF Flat, Row, NoLedger, Ledger
<1>a. saved \in [Symbols -> Ledger] /\ ledger \in [Symbols -> Ledger]
      /\ row \in [Symbols -> Row]
  BY <1>1 DEF Init
<1>b. /\ cash \in Int /\ booked \in Int /\ funded \in Nat /\ opens \in Nat /\ upsets \in Nat
      /\ torn \in BOOLEAN /\ job = NoJob /\ exits \in Exits
  <2>1. Capital \in Nat /\ MaxOpens \in Nat /\ MaxUpsets \in Nat
    BY Zenon, PaperAssumption
  <2>2. torn \in BOOLEAN /\ job = NoJob /\ exits \in Exits BY Zenon DEF Init
  <2>3. cash = Capital /\ booked = 0 /\ funded = 0 /\ opens = MaxOpens /\ upsets = MaxUpsets
    BY Zenon DEF Init
  <2> QED BY <2>1, <2>2, <2>3
<1>2. TypeOK BY <1>a, <1>b DEF TypeOK
<1>3. RowsWhole BY DEF Init, RowsWhole, Held, Flat
<1>4. JobFits BY DEF Init, JobFits
<1> QED BY <1>2, <1>3, <1>4 DEF Whole

\* The exits of Broker, each as the broker's half of one.
LEMMA CloseIs ==
  ASSUME Whole, NEW s \in Symbols, NEW p \in Prices, Close(s, p)
  PROVE  /\ Held(s) /\ row[s].qty \in Nat \ {0}
         /\ BrokerCloses(s, row[s].qty, p,
              [step |-> "closed", pair |-> s, qty |-> row[s].qty, price |-> p])
         /\ UNCHANGED <<db, exits, opens>>
<1>1. row[s].qty \in Nat /\ row[s].qty > 0 BY DEF Whole, TypeOK, RowsWhole, Row, Close
<1> QED BY <1>1 DEF Close

LEMMA BankIs ==
  ASSUME Whole, NEW s \in Symbols, NEW price, NEW age, NEW p \in Prices, Bank(s, price, age, p)
  PROVE  /\ Held(s) /\ Half(s) \in Nat \ {0} /\ Half(s) < row[s].qty /\ Half(s) <= row[s].qty
         /\ BrokerCloses(s, Half(s), p,
              [step |-> "banked", pair |-> s, qty |-> Half(s), price |-> p])
         /\ UNCHANGED <<db, exits, opens>>
<1>1. Held(s) /\ Half(s) > 0 BY DEF Bank, PartialDue
<1>2. Half(s) \in Nat \ {0} /\ Half(s) < row[s].qty BY <1>1, HalfType
<1>3. row[s].qty \in Nat BY DEF Whole, TypeOK, Row
<1> QED BY <1>1, <1>2, <1>3 DEF Bank

LEMMA WholeStep ==
  ASSUME Whole, [Next]_vars
  PROVE  Whole'
<1>1. CASE UNCHANGED vars
  <2>1. TypeOK' BY <1>1 DEF vars, file, db, budget, Whole, TypeOK
  <2> QED BY <1>1, <2>1, RowsKept DEF vars, db, Whole, JobFits
<1>2. CASE EngineDies BY <1>2, ForgetsWhole
<1>3. ASSUME NEW s \in Symbols, Broker(s) PROVE Whole'
  <2>1. CASE \E side \in Sides[s], q \in Sizes, p \in Prices : Open(s, side, q, p)
    BY <2>1, OpenWhole
  <2>2. CASE \E p \in Prices : Close(s, p)
    <3>1. PICK p \in Prices : Close(s, p) BY <2>2
    <3>2. /\ Held(s) /\ row[s].qty \in Nat \ {0}
          /\ BrokerCloses(s, row[s].qty, p,
               [step |-> "closed", pair |-> s, qty |-> row[s].qty, price |-> p])
          /\ UNCHANGED <<db, exits, opens>>
      BY <3>1, CloseIs
    <3>3. row[s].qty <= row[s].qty BY <3>2
    <3> QED BY <3>2, <3>3, CloseWhole
  <2>3. CASE \E periods \in 0..1 : MarkToMarket(s, periods) BY <2>3, MarkWhole
  <2>4. CASE \E price \in Prices, age \in Ages :
               \/ TooSmall(s, price, age)
               \/ \E p \in Prices : Bank(s, price, age, p)
    <3>1. PICK price \in Prices, age \in Ages :
               \/ TooSmall(s, price, age)
               \/ \E p \in Prices : Bank(s, price, age, p)
      BY <2>4
    <3>2. CASE TooSmall(s, price, age) BY <3>2, SmallWhole
    <3>3. CASE \E p \in Prices : Bank(s, price, age, p)
      <4>1. PICK p \in Prices : Bank(s, price, age, p) BY <3>3
      <4> QED BY <4>1, BankIs, CloseWhole
    <3> QED BY <3>1, <3>2, <3>3
  <2> QED BY <1>3, <2>1, <2>2, <2>3, <2>4 DEF Broker
<1>4. ASSUME NEW s \in Symbols, Database(s) PROVE Whole'
  BY <1>4, SaveOpenedWhole, BookClosedWhole, BookBankedWhole, SaveRestWhole, ForgetsWhole
     DEF Database
<1> QED BY <1>1, <1>2, <1>3, <1>4 DEF Next

(* Whatever fails and whenever the engine dies, no quantity, margin or funding *)
(* of a ledger becomes negative, and no row and no pending write is of a kind  *)
(* the code does not know: a close is cut to what the ledger holds, and half a *)
(* position is banked only of one that can be split.                          *)
THEOREM TypeCorrect == Spec => []TypeOK
<1>1. Whole /\ [Next]_vars => Whole' BY WholeStep
<1>2. Whole => TypeOK BY DEF Whole
<1> QED BY <1>1, <1>2, InitWhole, PTL DEF Spec

-----------------------------------------------------------------------------
(* Ledgers and rows, as long as no order has been torn.                     *)
Opening(s) == job.pair = s /\ job.step \in Entries
Closing(s) == job.pair = s /\ job.step \in Exiting

\* The units a row will name once the engine has written what it still has to.
Remaining(s) == IF Closing(s) THEN row[s].qty - job.qty ELSE row[s].qty

\* The ledger of an entry that is not saved yet, of a flat pair and of a position.
LedgerFits(s) ==
  /\ Opening(s) => /\ ledger[s].side = job.step
                   /\ ledger[s].entry = job.price
                   /\ ledger[s].qty = job.qty
  /\ ~Opening(s) /\ ~Held(s) => ledger[s].qty = 0
  /\ row[s].side = "short" => /\ ledger[s].side = "short"
                              /\ ledger[s].qty = Remaining(s)
                              /\ ledger[s].entry = row[s].entry
  /\ row[s].side = "long" => /\ ledger[s].side = "long"
                             /\ ledger[s].qty \in {0, Remaining(s)}

\* The margin of a short is that of the units it still has.
MarginFits(s) ==
  ledger[s].side = "short" =>
    ledger[s].margin = ledger[s].qty * (ledger[s].entry \div Leverage)

\* The file holds the ledgers of the memory, but for the funding that is due.
OnFile(s) ==
  /\ saved[s].side = ledger[s].side /\ saved[s].entry = ledger[s].entry
  /\ saved[s].qty = ledger[s].qty /\ saved[s].margin = ledger[s].margin

\* A full exit is for all the units of its row: none is left over.
Exact ==
  /\ job.step # "rest"
  /\ job.step = "closed" => job.qty = row[job.pair].qty

Follows(s) == LedgerFits(s) /\ MarginFits(s) /\ OnFile(s)

(* What the cash has already moved for what the engine has not written yet.  *)
\* Booking q units and taking them off the row frees what they were tied up by.
Released(s, q) ==
  Fee(row[s].entry * q) + IF row[s].side = "short" THEN 0 ELSE row[s].entry * q
Due ==
  IF job.step \in Entries THEN 0 - Cost(job.step, job.qty, job.price)
  ELSE IF job.step \in {"closed", "banked"}
  THEN Net(job.pair, job.qty, job.price) + Released(job.pair, job.qty)
  ELSE IF job.step = "half" THEN Released(job.pair, job.qty) ELSE 0

AllTied == SumFunction([s \in Symbols |-> Tied(s)])
Balanced == cash = Capital + booked - funded - AllTied + Due

Joined == Exact /\ Balanced /\ \A s \in Symbols : Follows(s)
PaperInv == Whole /\ (~torn => Joined)

LEMMA RowFacts ==
  ASSUME Whole, NEW s \in Symbols
  PROVE  /\ row[s] \in Row /\ row[s].entry \in Nat /\ row[s].qty \in Nat
         /\ row[s].side \in {"flat", "long", "short"}
         /\ Held(s) => row[s].qty > 0 /\ row[s].entry \in Prices
         /\ ~Held(s) => row[s].entry = 0 /\ row[s].qty = 0 /\ row[s].side = "flat"
         /\ ledger[s] \in Ledger /\ saved[s] \in Ledger
<1>1. row[s] \in Row /\ ledger[s] \in Ledger /\ saved[s] \in Ledger BY DEF Whole, TypeOK
<1> QED BY <1>1 DEF Whole, RowsWhole, Row, Held, Flat

\* The fee and the margin of a number of units, at the price of one.
LEMMA PerUnit ==
  ASSUME NEW p \in Prices, NEW q \in Nat
  PROVE  /\ Fee(p * q) = (p \div FeeDivisor) * q /\ Fee(q * p) = (p \div FeeDivisor) * q
         /\ (q * p) \div Leverage = (p \div Leverage) * q
         /\ p \div FeeDivisor \in Nat /\ p \div Leverage \in Nat
         /\ p * q \in Nat /\ q * p = p * q
<1>1. /\ p \in Nat /\ p % FeeDivisor = 0 /\ p % Leverage = 0
      /\ FeeDivisor \in Nat \ {0} /\ Leverage \in Nat \ {0}
  BY PriceType
<1>2. /\ p \div FeeDivisor \in Nat
      /\ (p * q) \div FeeDivisor = (p \div FeeDivisor) * q
      /\ (q * p) \div FeeDivisor = (p \div FeeDivisor) * q
  BY <1>1, Scaled
<1>3. p \div Leverage \in Nat /\ (q * p) \div Leverage = (p \div Leverage) * q
  BY <1>1, Scaled
<1>4. p * q \in Nat /\ q * p = p * q BY <1>1, TimesNatural, TimesCommutes
<1> QED BY <1>2, <1>3, <1>4 DEF Fee

LEMMA FlatTies ==
  ASSUME Whole, NEW s \in Symbols, ~Held(s)
  PROVE  Tied(s) = 0
<1>1. row[s].entry * row[s].qty = 0 /\ row[s].side = "flat" BY RowFacts
<1>2. Fee(0) = 0
  <2>1. FeeDivisor \in Nat \ {0} BY PaperAssumption
  <2>2. (FeeDivisor * 0) \div FeeDivisor = 0 BY <2>1, DivExact
  <2>3. FeeDivisor * 0 = 0 BY <2>1
  <2> QED BY <2>2, <2>3 DEF Fee
<1> QED BY <1>1, <1>2 DEF Tied

LEMMA TiedValue ==
  ASSUME NEW r \in Row, NEW l \in Ledger
  PROVE  Fee(r.entry * r.qty)
         + (IF r.side = "short" THEN l.margin ELSE r.entry * r.qty) \in Int
<1>1. r.entry \in Nat /\ r.qty \in Nat /\ l.margin \in Nat BY DEF Row, Ledger
<1> DEFINE n == r.entry * r.qty
<1>2. n \in Nat /\ Fee(n) \in Nat BY <1>1, TimesNatural, FeeType
<1> HIDE DEF n
<1>3. Fee(n) + (IF r.side = "short" THEN l.margin ELSE n) \in Int BY <1>1, <1>2
<1> QED BY <1>3 DEF n

LEMMA TiedType ==
  ASSUME Whole
  PROVE  [s \in Symbols |-> Tied(s)] \in [Symbols -> Int]
<1>1. \A s \in Symbols : row[s] \in Row /\ saved[s] \in Ledger BY DEF Whole, TypeOK
<1>2. \A s \in Symbols : Tied(s) \in Int BY <1>1, TiedValue DEF Tied
<1> QED BY <1>2

LEMMA TiedTypeNext ==
  ASSUME Whole'
  PROVE  [s \in Symbols |-> Tied(s)'] \in [Symbols -> Int]
<1>1. \A s \in Symbols : row'[s] \in Row /\ saved'[s] \in Ledger BY DEF Whole, TypeOK
<1>2. \A s \in Symbols : Tied(s)' \in Int BY <1>1, TiedValue DEF Tied
<1> QED BY <1>2

\* What the pairs tie up changes by what one pair ties up.
LEMMA TiesChange ==
  ASSUME Whole, Whole', NEW s \in Symbols,
         \A y \in Symbols \ {s} : row'[y] = row[y] /\ saved'[y].margin = saved[y].margin
  PROVE  /\ AllTied' = AllTied + Tied(s)' - Tied(s)
         /\ AllTied \in Int /\ Tied(s) \in Int /\ Tied(s)' \in Int
<1> DEFINE f == [y \in Symbols |-> Tied(y)]
           h == [y \in Symbols |-> Tied(y)']
<1>1. f \in [Symbols -> Int] BY TiedType
<1>2. h \in [Symbols -> Int] BY TiedTypeNext
<1>3. \A y \in Symbols \ {s} : h[y] = f[y] BY DEF Tied
<1>4. IsFiniteSet(Symbols) BY Zenon, PaperAssumption
<1>5. AllTied = SumFunction(f) /\ AllTied' = SumFunction(h) BY DEF AllTied
<1>6. f[s] = Tied(s) /\ h[s] = Tied(s)' OBVIOUS
<1>7. f[s] \in Int /\ h[s] \in Int BY <1>1, <1>2
<1> HIDE DEF f, h
<1>8. SumFunction(h) = SumFunction(f) + h[s] - f[s] /\ SumFunction(f) \in Int
  BY <1>1, <1>2, <1>3, <1>4, SumChange, SumType
<1> QED BY <1>5, <1>6, <1>7, <1>8

LEMMA TiesSame ==
  ASSUME Whole, row' = row, \A y \in Symbols : saved'[y].margin = saved[y].margin
  PROVE  AllTied' = AllTied /\ AllTied \in Int
<1> DEFINE f == [y \in Symbols |-> Tied(y)]
           h == [y \in Symbols |-> Tied(y)']
<1>1. f \in [Symbols -> Int] BY TiedType
<1>2. h = f BY DEF Tied
<1>3. AllTied = SumFunction(f) /\ AllTied' = SumFunction(h) BY DEF AllTied
<1>4. IsFiniteSet(Symbols) BY Zenon, PaperAssumption
<1> HIDE DEF f, h
<1> QED BY <1>1, <1>2, <1>3, <1>4, SumType

\* A step that touches one pair.
LEMMA OthersFollow ==
  ASSUME Joined, NEW s \in Symbols, Follows(s)',
         job = NoJob \/ job.pair = s, job' = NoJob \/ job'.pair = s,
         \A y \in Symbols \ {s} : row'[y] = row[y] /\ ledger'[y] = ledger[y] /\ OnFile(y)'
  PROVE  \A y \in Symbols : Follows(y)'
<1> SUFFICES ASSUME NEW y \in Symbols, y # s PROVE Follows(y)' OBVIOUS
<1>1. Follows(y) /\ row'[y] = row[y] /\ ledger'[y] = ledger[y] /\ OnFile(y)'
  BY DEF Joined
<1>2. ~Opening(y) /\ ~Closing(y) /\ ~Opening(y)' /\ ~Closing(y)'
  BY DEF Opening, Closing, NoJob, Entries, Exiting
<1> QED BY <1>1, <1>2 DEF Follows, LedgerFits, MarginFits, Held, Remaining

LEMMA NothingDue ==
  ASSUME job = NoJob
  PROVE  Due = 0 /\ Exact /\ \A s \in Symbols : ~Opening(s) /\ ~Closing(s)
BY DEF Due, Exact, Opening, Closing, NoJob, Entries, Exiting

LEMMA Accounts ==
  ASSUME Whole
  PROVE  Capital \in Int /\ cash \in Int /\ booked \in Int /\ funded \in Int
<1>1. Capital \in Nat BY Zenon, PaperAssumption
<1> QED BY <1>1 DEF Whole, TypeOK

LEMMA OpenJoined ==
  ASSUME Whole, Whole', Joined, ~torn', NEW s \in Symbols, NEW side \in Sides[s],
         NEW q \in Sizes, NEW p \in Prices, Open(s, side, q, p)
  PROVE  Joined'
<1> DEFINE cost == Cost(side, q, p)
           new == [ledger EXCEPT ![s] = Opened(side, q, p)]
<1>1. side \in Entries /\ q \in Nat \ {0} /\ cost \in Nat
  BY PaperAssumption, OpenTypes DEF Entries
<1>2. /\ job = NoJob /\ ~Held(s) /\ row' = row /\ booked' = booked
      /\ ledger' = new /\ saved' = new /\ cash' = cash + (0 - cost) /\ funded' = funded + 0
      /\ job' = [step |-> side, pair |-> s, qty |-> q, price |-> p]
  BY DEF Open, Written, db
<1>3. ledger \in [Symbols -> Ledger] BY DEF Whole, TypeOK
<1>4. /\ ledger'[s] = Opened(side, q, p) /\ saved'[s] = ledger'[s]
      /\ \A y \in Symbols \ {s} : ledger'[y] = ledger[y] /\ saved'[y] = ledger[y]
  BY <1>2, <1>3
<1>5. job'.step = side /\ job'.pair = s /\ job'.qty = q /\ job'.price = p BY <1>2
<1> HIDE DEF new
<1>6. /\ ledger'[s].side = side /\ ledger'[s].entry = p /\ ledger'[s].qty = q
      /\ side = "short" => ledger'[s].margin = (q * p) \div Leverage
  BY <1>4 DEF Opened
<1>7. row'[s].side = "flat" /\ ~Held(s)' BY <1>2, RowFacts DEF Held
<1>8. LedgerFits(s)' BY <1>1, <1>5, <1>6, <1>7 DEF LedgerFits, Opening
<1>9. MarginFits(s)'
  <2>1. (q * p) \div Leverage = q * (p \div Leverage) BY <1>1, PerUnit, TimesCommutes
  <2> QED BY <1>6, <2>1 DEF MarginFits
<1>10. Follows(s)' BY <1>4, <1>8, <1>9 DEF Follows, OnFile
<1>11. \A y \in Symbols : Follows(y)'
  BY <1>2, <1>4, <1>5, <1>10, OthersFollow DEF OnFile
<1>12. Exact' BY <1>1, <1>5 DEF Exact, Entries
<1>13. Balanced'
  <2>1. \A y \in Symbols \ {s} : row'[y] = row[y] /\ saved'[y].margin = saved[y].margin
    BY <1>2, <1>4 DEF Joined, Follows, OnFile
  <2>2. AllTied' = AllTied + Tied(s)' - Tied(s) /\ AllTied \in Int
    BY <2>1, TiesChange
  <2>3. Tied(s) = 0 /\ Tied(s)' = 0
    <3>1. Tied(s) = 0 BY <1>2, FlatTies
    <3>2. Tied(s)' = Tied(s) BY <1>2, <1>7 DEF Tied
    <3> QED BY <3>1, <3>2
  <2>4. Due' = 0 - cost BY <1>1, <1>5 DEF Due
  <2>5. Due = 0 BY <1>2, NothingDue
  <2> HIDE DEF cost
  <2> QED BY <1>1, <1>2, <2>2, <2>3, <2>4, <2>5, Accounts DEF Joined, Balanced
<1> QED BY <1>11, <1>12, <1>13 DEF Joined

\* The margin that q units of a short take along is theirs.
LEMMA MarginOfPart ==
  ASSUME NEW l \in Ledger, NEW u \in Nat, l.margin = l.qty * u,
         NEW q \in Nat \ {0}, q <= l.qty
  PROVE  /\ Margin(l, q) = q * u
         /\ Covered(l, q).margin = (l.qty - q) * u
         /\ Covered(l, q).qty = l.qty - q
         /\ Covered(l, q).side = l.side /\ Covered(l, q).entry = l.entry
<1>1. l.qty \in Nat \ {0} BY DEF Ledger
<1>2. (l.qty * u) * q = l.qty * (q * u) /\ q * u \in Nat
  BY <1>1, Associates, TimesCommutes, TimesNatural
<1>3. Margin(l, q) = q * u BY <1>1, <1>2, DivExact DEF Margin
<1>4. /\ Covered(l, q).margin = l.margin - Margin(l, q) /\ Covered(l, q).qty = l.qty - q
      /\ Covered(l, q).side = l.side /\ Covered(l, q).entry = l.entry
  BY DEF Covered, Ledger
<1>5. l.qty * u - q * u = (l.qty - q) * u
  <2>1. u * (l.qty - q) = u * l.qty - u * q BY <1>1, Distributes
  <2>2. u * (l.qty - q) = (l.qty - q) * u /\ u * l.qty = l.qty * u /\ u * q = q * u
    BY <1>1, TimesCommutes
  <2> QED BY <2>1, <2>2
<1> QED BY <1>3, <1>4, <1>5

\* What a close is due to write, in terms of units and prices.
LEMMA DueOfClose ==
  ASSUME Whole, NEW s \in Symbols, Held(s), NEW q \in Nat, NEW p \in Prices
  PROVE  LET e == row[s].entry
         IN  /\ Fee(q * p) \in Nat /\ q * p \in Nat /\ (e - p) * q \in Int
             /\ Net(s, q, p) + Released(s, q) =
                  IF row[s].side = "short" THEN (e - p) * q - Fee(q * p) ELSE q * p - Fee(q * p)
<1> DEFINE e == row[s].entry
<1>1. e \in Nat /\ p \in Nat BY RowFacts, PriceType
<1>2. /\ e * q \in Nat /\ p * q \in Nat /\ q * p = p * q /\ Fee(e * q) \in Nat /\ Fee(p * q) \in Nat
  BY <1>1, TimesNatural, TimesCommutes, FeeType
<1>3. (p - e) * q = p * q - e * q
  <2>1. q * (p - e) = q * p - q * e BY <1>1, Distributes
  <2>2. p - e \in Int BY <1>1
  <2>3. q * (p - e) = (p - e) * q /\ q * e = e * q BY <1>1, <2>2, TimesCommutes
  <2> QED BY <1>2, <2>1, <2>3
<1>4. (e - p) * q \in Int
  <2>1. e - p \in Int BY <1>1
  <2> QED BY ONLY <2>1, q \in Nat, TimesCommutes
<1>5. /\ Net(s, q, p) = (IF row[s].side = "short" THEN e - p ELSE p - e) * q
                          - Fee(e * q) - Fee(p * q)
      /\ Released(s, q) = Fee(e * q) + IF row[s].side = "short" THEN 0 ELSE e * q
  BY DEF Net, Released
<1> HIDE DEF e
<1>6. CASE row[s].side = "short"
  <2>1. Net(s, q, p) = (e - p) * q - Fee(e * q) - Fee(p * q) /\ Released(s, q) = Fee(e * q)
    BY <1>2, <1>5, <1>6
  <2>2. Net(s, q, p) + Released(s, q) = (e - p) * q - Fee(q * p) BY <1>2, <1>4, <2>1
  <2> QED BY <1>2, <1>4, <1>6, <2>2 DEF e
<1>7. CASE row[s].side # "short"
  <2>1. Net(s, q, p) = (p * q - e * q) - Fee(e * q) - Fee(p * q)
        /\ Released(s, q) = Fee(e * q) + e * q
    BY <1>2, <1>3, <1>5, <1>7
  <2>2. Net(s, q, p) + Released(s, q) = q * p - Fee(q * p) BY <1>2, <2>1
  <2> QED BY <1>2, <1>4, <1>7, <2>2 DEF e
<1> QED BY <1>6, <1>7

\* The same, in the state after a step that leaves the row alone.
LEMMA DueNext ==
  ASSUME Whole, NEW s \in Symbols, Held(s), NEW q \in Nat, NEW p \in Prices, row' = row,
         job'.step \in {"closed", "banked"}, job'.pair = s, job'.qty = q, job'.price = p
  PROVE  Due' = Net(s, q, p) + Released(s, q)
<1>1. Due' = Net(s, q, p)' + Released(s, q)' BY DEF Due, Entries
<1>2. Net(s, q, p)' = Net(s, q, p) /\ Released(s, q)' = Released(s, q)
  BY DEF Net, Released
<1> QED BY <1>1, <1>2

\* The broker's half of an exit, done.
LEMMA CloseJoined ==
  ASSUME Whole, Whole', Joined, ~torn', job = NoJob,
         NEW s \in Symbols, NEW p \in Prices, NEW q \in Nat \ {0},
         NEW step \in {"closed", "banked"}, Held(s), q <= row[s].qty,
         step = "closed" => q = row[s].qty,
         BrokerCloses(s, q, p, [step |-> step, pair |-> s, qty |-> q, price |-> p]),
         UNCHANGED <<db, exits, opens>>
  PROVE  Joined'
<1> DEFINE next == [step |-> step, pair |-> s, qty |-> q, price |-> p]
           l == ledger[s]
           e == row[s].entry
           n == row[s].qty
<1>0. /\ ledger \in [Symbols -> Ledger] /\ l \in Ledger /\ n \in Nat /\ row' = row /\ booked' = booked
      /\ e \in Prices /\ Follows(s) /\ ~Opening(s) /\ ~Closing(s)
  BY RowFacts, NothingDue DEF Whole, TypeOK, Joined, db
<1>1. CASE /\ row[s].side = "long"
           /\ Written([ledger EXCEPT ![s].qty = 0], q * p - Fee(q * p), 0, next)
  <2> DEFINE new == [ledger EXCEPT ![s].qty = 0]
  <2>1. /\ ledger' = new /\ saved' = new /\ cash' = cash + (q * p - Fee(q * p))
        /\ funded' = funded + 0 /\ job' = next
    BY <1>1 DEF Written
  <2>2. /\ ledger'[s] = [l EXCEPT !.qty = 0] /\ saved'[s] = ledger'[s]
        /\ \A y \in Symbols \ {s} : ledger'[y] = ledger[y] /\ saved'[y] = ledger[y]
    BY <1>0, <2>1
  <2> HIDE DEF new
  <2>3. /\ ledger'[s].qty = 0 /\ ledger'[s].side = l.side /\ ledger'[s].entry = l.entry
        /\ ledger'[s].margin = l.margin
    BY <1>0, <2>2 DEF Ledger
  <2>4. job'.step = step /\ job'.pair = s /\ job'.qty = q /\ job'.price = p BY <2>1
  <2>e. l.side = "long" BY <1>0, <1>1 DEF Follows, LedgerFits
  <2>5. LedgerFits(s)'
    BY <1>0, <1>1, <2>3, <2>4, <2>e DEF LedgerFits, Opening, Entries, Held
  <2>6. MarginFits(s)' BY <2>3, <2>e DEF MarginFits
  <2>7. Follows(s)' BY <2>2, <2>5, <2>6 DEF Follows, OnFile
  <2>8. \A y \in Symbols : Follows(y)'
    BY <1>0, <2>2, <2>4, <2>7, OthersFollow DEF OnFile
  <2>9. Exact' BY <1>0, <2>4 DEF Exact
  <2>10. \A y \in Symbols : saved'[y].margin = saved[y].margin
    BY <2>2, <2>3 DEF Joined, Follows, OnFile
  <2>11. AllTied' = AllTied /\ AllTied \in Int BY <1>0, <2>10, TiesSame
  <2>12. Due' = q * p - Fee(q * p) /\ q * p \in Nat /\ Fee(q * p) \in Nat
    BY <1>0, <1>1, <2>4, DueOfClose, DueNext
  <2> DEFINE price == q * p
             fee == Fee(price)
  <2>13. /\ cash' = cash + (price - fee) /\ funded' = funded + 0 /\ Due' = price - fee
         /\ price \in Nat /\ fee \in Nat
    BY <2>1, <2>12
  <2> HIDE DEF price, fee
  <2>14. Balanced'
    BY <1>0, <2>11, <2>13, NothingDue, Accounts DEF Joined, Balanced
  <2> QED BY <2>8, <2>9, <2>14 DEF Joined
<1>2. ASSUME NEW part, part = Lesser(q, l.qty), NEW taken,
             taken = IF next.step = "closed" THEN [next EXCEPT !.qty = part] ELSE next,
             NEW gain, gain = (e - p) * part - Fee(part * p) - Funding(l, part),
             row[s].side = "short",
             Written([ledger EXCEPT ![s] = Covered(l, part)], Margin(l, part) + gain,
                     Funding(l, part), taken)
      PROVE  Joined'
  <2> DEFINE new == [ledger EXCEPT ![s] = Covered(l, part)]
             u == e \div Leverage
             m == Margin(l, q)
             f == Funding(l, q)
  <2>1. l.side = "short" /\ l.qty = n /\ l.entry = e /\ l.margin = l.qty * u
    BY <1>0, <1>2 DEF Follows, LedgerFits, MarginFits, Remaining
  <2>2. part = q BY <1>0, <1>2, <2>1 DEF Lesser
  <2>3. taken = next
    <3>1. CASE step = "closed" BY <1>2, <2>2, <3>1
    <3>2. CASE step = "banked" BY <1>2, <3>2
    <3> QED BY <3>1, <3>2
  <2>4. /\ ledger' = new /\ saved' = new /\ cash' = cash + (m + gain)
        /\ funded' = funded + f /\ job' = next
    BY <1>2, <2>2, <2>3 DEF Written
  <2>5. /\ ledger'[s] = Covered(l, q) /\ saved'[s] = ledger'[s]
        /\ \A y \in Symbols \ {s} : ledger'[y] = ledger[y] /\ saved'[y] = ledger[y]
    BY <1>0, <2>2, <2>4
  <2> HIDE DEF new
  <2>6. u \in Nat BY <1>0, PerUnit
  <2> HIDE DEF u
  <2>7. /\ m = q * u /\ ledger'[s].margin = (n - q) * u /\ ledger'[s].qty = n - q
        /\ ledger'[s].side = "short" /\ ledger'[s].entry = e
    BY <1>0, <2>1, <2>5, <2>6, MarginOfPart
  <2>8. f \in Nat /\ m \in Nat BY <1>0, <2>1, PartTypes
  <2> HIDE DEF m, f
  <2>9. job'.step = step /\ job'.pair = s /\ job'.qty = q /\ job'.price = p BY <2>4
  <2>10. LedgerFits(s)'
    <3>1. Remaining(s)' = n - q BY <1>0, <2>9 DEF Remaining, Closing, Exiting
    <3> QED BY <1>0, <1>2, <2>7, <2>9, <3>1 DEF LedgerFits, Opening, Entries, Held
  <2>11. MarginFits(s)' BY <2>7 DEF MarginFits, u
  <2>12. Follows(s)' BY <2>5, <2>10, <2>11 DEF Follows, OnFile
  <2>13. \A y \in Symbols : Follows(y)'
    BY <1>0, <2>5, <2>9, <2>12, OthersFollow DEF OnFile
  <2>14. Exact' BY <1>0, <2>9 DEF Exact
  <2>15. AllTied' = AllTied + Tied(s)' - Tied(s) /\ AllTied \in Int
         /\ Tied(s) \in Int /\ Tied(s)' \in Int
    <3>1. \A y \in Symbols \ {s} : row'[y] = row[y] /\ saved'[y].margin = saved[y].margin
      BY <1>0, <2>5 DEF Joined, Follows, OnFile
    <3> QED BY <3>1, TiesChange
  <2>16. Tied(s)' = Tied(s) - m
    <3>1. saved[s].margin = l.margin /\ saved'[s].margin = ledger'[s].margin
      BY <1>0, <2>5 DEF Follows, OnFile
    <3>2. l.margin - m = (n - q) * u
      <4>1. u * (n - q) = u * n - u * q BY <1>0, <2>6, Distributes
      <4>2. n - q \in Int BY <1>0
      <4>3. u * (n - q) = (n - q) * u /\ u * n = n * u /\ u * q = q * u
        BY <1>0, <2>6, <4>2, TimesCommutes
      <4> QED BY <2>1, <2>7, <4>1, <4>3 DEF u
    <3> DEFINE fee == Fee(e * n)
    <3>3. Tied(s)' = fee + (l.margin - m) /\ Tied(s) = fee + l.margin
      BY <1>0, <1>2, <2>7, <3>1, <3>2 DEF Tied
    <3>4. fee \in Nat /\ l.margin \in Nat BY <1>0, RowFacts, TimesNatural, FeeType DEF Ledger
    <3> HIDE DEF fee
    <3> QED BY <2>8, <3>3, <3>4
  <2> DEFINE change == (e - p) * q
             fee == Fee(q * p)
  <2>17. Due' = change - fee /\ change \in Int /\ fee \in Nat
    BY <1>0, <1>2, <2>9, DueOfClose, DueNext
  <2>18. gain = change - fee - f BY <1>2, <2>2 DEF f
  <2> HIDE DEF change, fee
  <2>19. Balanced'
    BY <1>0, <2>4, <2>8, <2>15, <2>16, <2>17, <2>18, NothingDue, Accounts DEF Joined, Balanced
  <2> QED BY <2>13, <2>14, <2>19 DEF Joined
<1>3. CASE row[s].side = "long" BY <1>1, <1>3 DEF BrokerCloses
<1>4. CASE row[s].side = "short" BY <1>2, <1>4 DEF BrokerCloses
<1> QED BY <1>3, <1>4, RowFacts DEF Held

LEMMA MarkJoined ==
  ASSUME Whole, Whole', Joined, NEW s \in Symbols, NEW periods \in 0..1,
         MarkToMarket(s, periods)
  PROVE  Joined'
<1> DEFINE l == ledger[s]
           due == IF l.side = "short" THEN periods * Fee(l.entry * l.qty) ELSE 0
<1>1. /\ ledger \in [Symbols -> Ledger] /\ l \in Ledger /\ job = NoJob
  BY DEF Whole, TypeOK, MarkToMarket
<1>2. /\ ledger' = [ledger EXCEPT ![s] = [l EXCEPT !.funding = l.funding + due]]
      /\ saved' = ledger' \/ saved' = saved
      /\ UNCHANGED <<cash, funded, row, booked, job>>
  BY DEF MarkToMarket, db
<1> HIDE DEF due
<1>3. \A y \in Symbols :
        /\ ledger'[y].side = ledger[y].side /\ ledger'[y].entry = ledger[y].entry
        /\ ledger'[y].qty = ledger[y].qty /\ ledger'[y].margin = ledger[y].margin
  BY <1>1, <1>2 DEF Ledger
<1>4. \A y \in Symbols : OnFile(y)'
  <2>1. CASE saved' = ledger' BY <2>1 DEF OnFile
  <2>2. CASE saved' = saved BY <1>3, <2>2 DEF OnFile, Joined, Follows
  <2> QED BY <1>2, <2>1, <2>2
<1>5. ASSUME NEW y \in Symbols PROVE Follows(y)'
  <2>1. Follows(y) BY DEF Joined
  <2>2. LedgerFits(y)'
    BY <1>2, <1>3, <2>1 DEF Follows, LedgerFits, Opening, Closing, Remaining, Held
  <2>3. MarginFits(y)' BY <1>3, <2>1 DEF Follows, MarginFits
  <2> QED BY <1>4, <2>2, <2>3 DEF Follows
<1>6. Exact' BY <1>2 DEF Joined, Exact
<1>7. Due' = Due BY <1>1, <1>2, NothingDue DEF Due, NoJob, Entries
<1>8. AllTied' = AllTied
  <2>1. \A y \in Symbols : saved'[y].margin = saved[y].margin
    BY <1>3, <1>4 DEF OnFile, Joined, Follows
  <2> QED BY <1>2, <2>1, TiesSame
<1>9. Balanced' BY <1>2, <1>7, <1>8 DEF Joined, Balanced
<1> QED BY <1>5, <1>6, <1>9 DEF Joined

LEMMA SmallJoined ==
  ASSUME Whole, Whole', Joined, NEW s \in Symbols, NEW price, NEW age, TooSmall(s, price, age)
  PROVE  Joined'
<1>1. /\ row \in [Symbols -> Row] /\ job = NoJob
      /\ row' = [row EXCEPT ![s] = [row[s] EXCEPT !.banked = TRUE]]
      /\ UNCHANGED <<cash, saved, ledger, funded, booked, job>>
  BY DEF Whole, TypeOK, TooSmall, PartialDue, file
<1>2. \A y \in Symbols : /\ row'[y].side = row[y].side /\ row'[y].qty = row[y].qty
                         /\ row'[y].entry = row[y].entry
  BY <1>1 DEF Row
<1>3. ASSUME NEW y \in Symbols PROVE Follows(y)'
  <2>1. Follows(y) BY DEF Joined
  <2> QED BY <1>1, <1>2, <2>1 DEF Follows, LedgerFits, MarginFits, OnFile, Opening, Closing,
             Remaining, Held
<1>4. Due = 0 /\ Due' = 0 /\ Exact' BY <1>1 DEF Due, Exact, NoJob, Entries
<1>5. AllTied' = AllTied + Tied(s)' - Tied(s) /\ AllTied \in Int /\ Tied(s) \in Int
  BY <1>1, TiesChange
<1>6. Tied(s)' = Tied(s) BY <1>1, <1>2 DEF Tied
<1>7. Balanced' BY <1>1, <1>4, <1>5, <1>6, Accounts DEF Joined, Balanced
<1> QED BY <1>3, <1>4, <1>7 DEF Joined

LEMMA SaveOpenedJoined ==
  ASSUME Whole, Whole', Joined, NEW s \in Symbols, SaveOpened(s)
  PROVE  Joined'
<1> DEFINE q == job.qty
           p == job.price
<1>1. /\ job \in Job /\ job.pair = s /\ job.step \in Entries
      /\ q \in Nat \ {0} /\ p \in Prices /\ ~Held(s)
      /\ row \in [Symbols -> Row] /\ ledger[s] \in Ledger
  BY JobKinds DEF Whole, SaveOpened, Entries, Job, JobFits, Fits, NoJob, TypeOK
<1>2. /\ row' = [row EXCEPT ![s] = [side |-> job.step, entry |-> p, qty |-> q, banked |-> FALSE]]
      /\ job' = NoJob /\ UNCHANGED <<cash, saved, ledger, funded, booked>>
  BY DEF SaveOpened, Then, file
<1>3. /\ row'[s].side = job.step /\ row'[s].entry = p /\ row'[s].qty = q
      /\ \A y \in Symbols \ {s} : row'[y] = row[y]
  BY <1>1, <1>2
<1>4. /\ ledger[s].side = job.step /\ ledger[s].entry = p /\ ledger[s].qty = q
      /\ MarginFits(s) /\ \A y \in Symbols : OnFile(y)
  BY <1>1 DEF Joined, Follows, LedgerFits, Opening
<1>5. ~Opening(s)' /\ ~Closing(s)' BY <1>2, NothingDue DEF Opening, Closing, NoJob, Entries, Exiting
<1>6. LedgerFits(s)' BY <1>1, <1>2, <1>3, <1>4, <1>5 DEF LedgerFits, Remaining, Held, Entries
<1>7. MarginFits(s)' /\ \A y \in Symbols : OnFile(y)' BY <1>2, <1>4 DEF MarginFits, OnFile
<1>8. \A y \in Symbols : Follows(y)'
  BY <1>1, <1>2, <1>3, <1>6, <1>7, OthersFollow DEF Follows
<1>9. Exact' BY <1>2 DEF Exact, NoJob
<1>10. Balanced'
  <2>1. AllTied' = AllTied + Tied(s)' - Tied(s) /\ AllTied \in Int
    BY <1>2, <1>3, TiesChange
  <2>2. Tied(s) = 0 BY <1>1, FlatTies
  <2>3. Tied(s)' = Cost(job.step, q, p)
    <3>1. Tied(s)' = Fee(p * q) + IF job.step = "short" THEN saved[s].margin ELSE p * q
      BY <1>2, <1>3 DEF Tied
    <3>2. Fee(p * q) = Fee(q * p) /\ p * q = q * p BY <1>1, PerUnit
    <3>3. job.step = "short" => saved[s].margin = (q * p) \div Leverage
      <4>1. (q * p) \div Leverage = q * (p \div Leverage) BY <1>1, PerUnit, TimesCommutes
      <4> QED BY <1>4, <4>1 DEF MarginFits, OnFile
    <3> QED BY <3>1, <3>2, <3>3 DEF Cost
  <2>4. Due = 0 - Tied(s)' BY <1>1, <2>3 DEF Due
  <2>5. Due' = 0 BY <1>2 DEF Due, NoJob, Entries
  <2>6. Tied(s)' \in Int BY <1>2, <1>3, TiesChange
  <2> HIDE DEF q, p
  <2> QED BY <1>2, <2>1, <2>2, <2>4, <2>5, <2>6, Accounts DEF Joined, Balanced
<1> QED BY <1>8, <1>9, <1>10 DEF Joined

\* What the engine still has to write is about a row it holds.
LEMMA ExitFacts ==
  ASSUME Whole, NEW s \in Symbols, job.pair = s, job.step \in Exiting
  PROVE  /\ job \in Job /\ job.qty \in Nat \ {0} /\ job.price \in Prices
         /\ Held(s) /\ row[s].entry \in Prices /\ row[s].qty \in Nat
         /\ job.qty <= row[s].qty
         /\ job.step # "closed" => job.qty < row[s].qty
         /\ row \in [Symbols -> Row] /\ ledger[s] \in Ledger
         /\ Closing(s) /\ ~Opening(s)
         /\ Net(s, job.qty, job.price) \in Int
<1>1. job \in Job BY JobKinds DEF Whole
<1>2. /\ job.qty \in Nat \ {0} /\ job.price \in Prices /\ Held(s)
      /\ job.qty <= row[s].qty
      /\ job.step # "closed" => job.qty < row[s].qty
  BY <1>1, JobKinds DEF Whole, JobFits, Fits, Job
<1>3. /\ row \in [Symbols -> Row] /\ ledger[s] \in Ledger BY DEF Whole, TypeOK
<1>4. Closing(s) /\ ~Opening(s) BY DEF Closing, Opening, Entries, Exiting
<1>5. Net(s, job.qty, job.price) \in Int BY <1>2, NetType DEF Whole
<1> QED BY <1>1, <1>2, <1>3, <1>4, <1>5, RowFacts

\* What q units of a row release is a number.
LEMMA ReleasedType ==
  ASSUME Whole, NEW s \in Symbols, NEW q \in Nat
  PROVE  Released(s, q) \in Int
<1> DEFINE n == row[s].entry * q
<1>1. n \in Nat BY RowFacts, TimesNatural
<1>2. Fee(n) \in Nat BY <1>1, FeeType
<1>3. Released(s, q) = Fee(n) + IF row[s].side = "short" THEN 0 ELSE n BY DEF Released
<1> HIDE DEF n
<1> QED BY <1>1, <1>2, <1>3

LEMMA BookClosedJoined ==
  ASSUME Whole, Whole', Joined, NEW s \in Symbols, BookClosed(s)
  PROVE  Joined'
<1> DEFINE q == job.qty
           net == Net(s, q, job.price)
<1>1. job.pair = s /\ job.step = "closed" /\ job.step \in Exiting BY DEF BookClosed, Exiting
<1>2. q = row[s].qty BY <1>1 DEF Joined, Exact
<1>3. /\ row' = [row EXCEPT ![s] = Flat] /\ job' = NoJob /\ booked' = booked + net
      /\ UNCHANGED <<cash, saved, ledger, funded>>
  BY <1>1, <1>2, ExitFacts DEF BookClosed, Then, file
<1>4. row'[s] = Flat /\ \A y \in Symbols \ {s} : row'[y] = row[y]
  BY <1>1, <1>3, ExitFacts
<1>5. ledger[s].qty = 0
  <2>1. Remaining(s) = 0 BY <1>1, <1>2, ExitFacts DEF Remaining
  <2> QED BY <1>1, <2>1, ExitFacts, RowFacts DEF Joined, Follows, LedgerFits, Held
<1>6. MarginFits(s) /\ \A y \in Symbols : OnFile(y) BY DEF Joined, Follows
<1>7. LedgerFits(s)' BY <1>3, <1>4, <1>5 DEF LedgerFits, Opening, NoJob, Entries, Flat
<1>8. MarginFits(s)' /\ \A y \in Symbols : OnFile(y)' BY <1>3, <1>6 DEF MarginFits, OnFile
<1>9. \A y \in Symbols : Follows(y)'
  BY <1>1, <1>3, <1>4, <1>7, <1>8, OthersFollow DEF Follows
<1>10. Exact' BY <1>3 DEF Exact, NoJob
<1>11. Balanced'
  <2>1. AllTied' = AllTied + Tied(s)' - Tied(s) /\ AllTied \in Int /\ Tied(s) \in Int
    BY <1>3, <1>4, TiesChange
  <2>2. Tied(s)' = 0
    <3>1. ~Held(s)' BY <1>4 DEF Held, Flat
    <3>2. Tied(s)' = Fee(0 * 0) + 0 * 0 BY <1>4 DEF Tied, Flat
    <3>3. 0 * 0 = 0 OBVIOUS
    <3>4. Fee(0) = 0
      <4>1. FeeDivisor \in Nat \ {0} BY PaperAssumption
      <4>2. (FeeDivisor * 0) \div FeeDivisor = 0 BY <4>1, DivExact
      <4>3. FeeDivisor * 0 = 0 BY <4>1
      <4> QED BY <4>2, <4>3 DEF Fee
    <3> QED BY <3>2, <3>3, <3>4
  <2>3. Tied(s) = Released(s, q)
    <3>1. row[s].side = "short" => saved[s].margin = 0
      <4>1. row[s].entry \div Leverage \in Nat BY <1>1, ExitFacts, PerUnit
      <4>2. 0 * (row[s].entry \div Leverage) = 0 BY <4>1
      <4> QED BY <1>5, <1>6, <4>2 DEF Joined, Follows, LedgerFits, MarginFits, OnFile
    <3> QED BY <1>2, <3>1 DEF Tied, Released
  <2>4. Due = net + Tied(s) BY <1>1, <2>3 DEF Due, Entries
  <2>5. Due' = 0 BY <1>3 DEF Due, NoJob, Entries
  <2>6. net \in Int BY <1>1, ExitFacts
  <2> HIDE DEF net
  <2> QED BY <1>3, <2>1, <2>2, <2>4, <2>5, <2>6, Accounts DEF Joined, Balanced
<1> QED BY <1>9, <1>10, <1>11 DEF Joined

LEMMA BookBankedJoined ==
  ASSUME Whole, Whole', Joined, ~torn', NEW s \in Symbols, BookBanked(s)
  PROVE  Joined'
<1> DEFINE net == Net(s, job.qty, job.price)
<1>1. job.pair = s /\ job.step = "banked" /\ job.step \in Exiting BY DEF BookBanked, Exiting
<1>2. /\ job' = [job EXCEPT !.step = "half"] /\ booked' = booked + net
      /\ UNCHANGED <<cash, saved, ledger, funded, row>>
  BY DEF BookBanked, Then, file
<1>3. job'.step = "half" /\ job'.pair = s /\ job'.qty = job.qty
  BY <1>1, <1>2, ExitFacts DEF Job
<1>4. Closing(s) /\ ~Opening(s) /\ Closing(s)' /\ ~Opening(s)'
  BY <1>1, <1>3 DEF Closing, Opening, Entries, Exiting
<1>5. Follows(s)'
  <2>1. Follows(s) BY DEF Joined
  <2> QED BY <1>2, <1>3, <1>4, <2>1 DEF Follows, LedgerFits, MarginFits, OnFile, Remaining, Held
<1>6. \A y \in Symbols : Follows(y)'
  <2>1. \A y \in Symbols : OnFile(y)' BY <1>2 DEF Joined, Follows, OnFile
  <2> QED BY <1>1, <1>2, <1>3, <1>5, <2>1, OthersFollow
<1>7. Exact' BY <1>3 DEF Exact
<1>8. AllTied' = AllTied /\ AllTied \in Int BY <1>2, TiesSame
<1> DEFINE released == Released(s, job.qty)
<1>9. Due = net + released /\ Due' = released
  <2>1. Due = net + released BY <1>1 DEF Due, Entries
  <2>2. Due' = Released(s, job.qty)' BY <1>3, <1>2 DEF Due, Entries, Released
  <2>3. Released(s, job.qty)' = released BY <1>2, <1>3 DEF Released
  <2> QED BY <2>1, <2>2, <2>3
<1>10. net \in Int /\ released \in Int BY <1>1, ExitFacts, ReleasedType
<1> HIDE DEF net, released
<1>11. Balanced' BY <1>2, <1>8, <1>9, <1>10, Accounts DEF Joined, Balanced
<1> QED BY <1>6, <1>7, <1>11 DEF Joined

\* Taking q units off a row frees what they were tied up by.
LEMMA ReleasedPart ==
  ASSUME NEW e \in Prices, NEW n \in Nat, NEW q \in Nat, q <= n
  PROVE  /\ Fee(e * n) = Fee(e * (n - q)) + Fee(e * q)
         /\ e * n = e * (n - q) + e * q
         /\ Fee(e * (n - q)) \in Nat /\ Fee(e * q) \in Nat
         /\ e * (n - q) \in Nat /\ e * q \in Nat
<1> DEFINE k == e \div FeeDivisor
           m == n - q
<1>1. m \in Nat /\ n = m + q /\ m = n - q OBVIOUS
<1> HIDE DEF m
<1>2. /\ Fee(e * n) = k * n /\ Fee(e * m) = k * m /\ Fee(e * q) = k * q /\ k \in Nat
      /\ e * m \in Nat /\ e * q \in Nat
  BY <1>1, PerUnit
<1>3. e \in Nat BY PriceType
<1> HIDE DEF k
<1>4. k * m = k * n - k * q /\ e * m = e * n - e * q BY <1>1, <1>2, <1>3, Distributes
<1>5. k * m \in Nat /\ k * q \in Nat /\ k * n \in Nat /\ e * n \in Nat
  BY <1>1, <1>2, <1>3, TimesNatural
<1>6. Fee(e * n) = Fee(e * m) + Fee(e * q) /\ e * n = e * m + e * q
  BY <1>2, <1>4, <1>5
<1> QED BY <1>2, <1>5, <1>6 DEF m

LEMMA SaveRestJoined ==
  ASSUME Whole, Whole', Joined, NEW s \in Symbols, SaveRest(s)
  PROVE  Joined'
<1> DEFINE q == job.qty
           e == row[s].entry
           n == row[s].qty
<1>1. job.pair = s /\ job.step = "half" /\ job.step \in Exiting
  BY DEF SaveRest, Exiting, Joined, Exact
<1>2. /\ row' = [row EXCEPT ![s].qty = n - q, ![s].banked = TRUE]
      /\ job' = NoJob /\ UNCHANGED <<cash, saved, ledger, funded, booked>>
  BY <1>1 DEF SaveRest, Then, file
<1>3. /\ row'[s].side = row[s].side /\ row'[s].entry = e /\ row'[s].qty = n - q
      /\ \A y \in Symbols \ {s} : row'[y] = row[y]
  BY <1>1, <1>2, ExitFacts DEF Row
<1>4. Remaining(s) = n - q BY <1>1, ExitFacts DEF Remaining
<1>5. ~Opening(s)' /\ ~Closing(s)' BY <1>2 DEF Opening, Closing, NoJob, Entries, Exiting
<1>6. Follows(s) /\ Held(s) /\ ~Opening(s) BY <1>1, ExitFacts DEF Joined
<1>7. LedgerFits(s)'
  BY <1>2, <1>3, <1>4, <1>5, <1>6 DEF Follows, LedgerFits, Remaining, Held
<1>8. MarginFits(s)' /\ \A y \in Symbols : OnFile(y)'
  BY <1>2 DEF Joined, Follows, MarginFits, OnFile
<1>9. \A y \in Symbols : Follows(y)'
  BY <1>1, <1>2, <1>3, <1>7, <1>8, OthersFollow DEF Follows
<1>10. Exact' BY <1>2 DEF Exact, NoJob
<1>11. Balanced'
  <2>1. AllTied' = AllTied + Tied(s)' - Tied(s) /\ AllTied \in Int
        /\ Tied(s) \in Int /\ Tied(s)' \in Int
    BY <1>2, <1>3, TiesChange
  <2>2. Tied(s) = Fee(e * n) + IF row[s].side = "short" THEN saved[s].margin ELSE e * n
    BY DEF Tied
  <2>3. Tied(s)' = Fee(e * (n - q))
                   + IF row[s].side = "short" THEN saved[s].margin ELSE e * (n - q)
    BY <1>2, <1>3 DEF Tied
  <2>4. Released(s, q) = Fee(e * q) + IF row[s].side = "short" THEN 0 ELSE e * q
    BY DEF Released
  <2>5. /\ Fee(e * n) = Fee(e * (n - q)) + Fee(e * q) /\ e * n = e * (n - q) + e * q
        /\ Fee(e * (n - q)) \in Nat /\ Fee(e * q) \in Nat
        /\ e * (n - q) \in Nat /\ e * q \in Nat
    <3>1. e \in Prices /\ n \in Nat /\ q \in Nat /\ q <= n BY <1>1, ExitFacts
    <3> HIDE DEF e, n, q
    <3> QED BY <3>1, ReleasedPart
  <2>6. saved[s].margin \in Nat BY RowFacts DEF Ledger
  <2>7. Tied(s) = Tied(s)' + Released(s, q) /\ Released(s, q) \in Int
    <3>1. CASE row[s].side = "short" BY <2>2, <2>3, <2>4, <2>5, <2>6, <3>1
    <3>2. CASE row[s].side # "short" BY <2>2, <2>3, <2>4, <2>5, <3>2
    <3> QED BY <3>1, <3>2
  <2>8. Due = Released(s, q) BY <1>1 DEF Due, Entries
  <2>9. Due' = 0 BY <1>2 DEF Due, NoJob, Entries
  <2> QED BY <1>2, <2>1, <2>7, <2>8, <2>9, Accounts DEF Joined, Balanced
<1> QED BY <1>9, <1>10, <1>11 DEF Joined

\* An engine that dies between two orders starts again with the same ledgers.
LEMMA DiesJoined ==
  ASSUME Whole, Whole', Joined, ~torn', EngineDies
  PROVE  Joined'
<1>1. /\ job = NoJob /\ job' = NoJob /\ ledger' = saved
      /\ UNCHANGED <<cash, saved, funded, row, booked>>
  BY DEF EngineDies, db
<1>2. ASSUME NEW y \in Symbols PROVE Follows(y)'
  <2>1. Follows(y) BY DEF Joined
  <2> QED BY <1>1, <2>1 DEF Follows, LedgerFits, MarginFits, OnFile, Opening, Closing,
             Remaining, Held
<1>3. Due' = Due /\ Exact' BY <1>1 DEF Due, Exact, NoJob, Entries
<1>4. AllTied' = AllTied BY <1>1, TiesSame
<1>5. Balanced' BY <1>1, <1>3, <1>4 DEF Joined, Balanced
<1> QED BY <1>2, <1>3, <1>5 DEF Joined

LEMMA InitJoined == Init => Joined
<1> SUFFICES ASSUME Init PROVE Joined OBVIOUS
<1>1. Whole /\ job = NoJob BY InitWhole DEF Init
<1>2. ASSUME NEW y \in Symbols PROVE Follows(y) /\ Tied(y) = 0
  <2>1. row[y] = Flat /\ ledger[y] = NoLedger /\ saved[y] = NoLedger BY DEF Init
  <2>2. ~Held(y) /\ ~Opening(y) BY <1>1, <2>1, NothingDue DEF Held, Flat
  <2>3. Follows(y)
    BY <2>1, <2>2 DEF Follows, LedgerFits, MarginFits, OnFile, Flat, NoLedger
  <2> QED BY <1>1, <2>2, <2>3, FlatTies
<1>3. AllTied = 0
  <2> DEFINE f == [y \in Symbols |-> Tied(y)]
  <2>1. f \in [Symbols -> Int] /\ \A y \in Symbols : f[y] = 0 BY <1>1, <1>2, TiedType
  <2>2. IsFiniteSet(Symbols) BY Zenon, PaperAssumption
  <2>3. AllTied = SumFunction(f) BY DEF AllTied
  <2> HIDE DEF f
  <2> QED BY <2>1, <2>2, <2>3, SumOfZeros
<1>4. Balanced
  <2>1. cash = Capital /\ booked = 0 /\ funded = 0 BY Zenon DEF Init
  <2> QED BY <1>1, <1>3, <2>1, NothingDue, Accounts DEF Balanced
<1> QED BY <1>1, <1>2, <1>4, NothingDue DEF Joined

LEMMA JoinedStep ==
  ASSUME Whole, Whole', Joined, ~torn', [Next]_vars
  PROVE  Joined'
<1>1. CASE UNCHANGED vars
  <2>1. UNCHANGED <<cash, saved, ledger, funded, row, booked, job>>
    BY <1>1 DEF vars, file, db
  <2>2. ASSUME NEW y \in Symbols PROVE Follows(y)'
    <3>1. Follows(y) BY DEF Joined
    <3> QED BY <2>1, <3>1 DEF Follows, LedgerFits, MarginFits, OnFile, Opening, Closing,
               Remaining, Held
  <2>3. Due' = Due /\ Exact'
    BY <2>1 DEF Joined, Due, Exact, Cost, Net, Released
  <2>4. AllTied' = AllTied BY <2>1, TiesSame
  <2>5. Balanced' BY <2>1, <2>3, <2>4 DEF Joined, Balanced
  <2> QED BY <2>2, <2>3, <2>5 DEF Joined
<1>2. CASE EngineDies BY <1>2, DiesJoined
<1>3. ASSUME NEW s \in Symbols, Broker(s) PROVE Joined'
  <2>1. CASE \E side \in Sides[s], q \in Sizes, p \in Prices : Open(s, side, q, p)
    BY <2>1, OpenJoined
  <2>2. CASE \E p \in Prices : Close(s, p)
    <3>1. PICK p \in Prices : Close(s, p) BY <2>2
    <3>2. /\ Held(s) /\ row[s].qty \in Nat \ {0}
          /\ BrokerCloses(s, row[s].qty, p,
               [step |-> "closed", pair |-> s, qty |-> row[s].qty, price |-> p])
          /\ UNCHANGED <<db, exits, opens>>
      BY <3>1, CloseIs
    <3>3. row[s].qty <= row[s].qty /\ job = NoJob BY <3>1, <3>2 DEF Close
    <3> QED BY <3>2, <3>3, CloseJoined
  <2>3. CASE \E periods \in 0..1 : MarkToMarket(s, periods) BY <2>3, MarkJoined
  <2>4. CASE \E price \in Prices, age \in Ages :
               \/ TooSmall(s, price, age)
               \/ \E p \in Prices : Bank(s, price, age, p)
    <3>1. PICK price \in Prices, age \in Ages :
               \/ TooSmall(s, price, age)
               \/ \E p \in Prices : Bank(s, price, age, p)
      BY <2>4
    <3>2. CASE TooSmall(s, price, age) BY <3>2, SmallJoined
    <3>3. CASE \E p \in Prices : Bank(s, price, age, p)
      <4>1. PICK p \in Prices : Bank(s, price, age, p) BY <3>3
      <4>2. job = NoJob BY <4>1 DEF Bank, PartialDue
      <4> QED BY <4>1, <4>2, BankIs, CloseJoined
    <3> QED BY <3>1, <3>2, <3>3
  <2> QED BY <1>3, <2>1, <2>2, <2>3, <2>4 DEF Broker
<1>4. ASSUME NEW s \in Symbols, Database(s) PROVE Joined'
  <2>1. ~WriteFails(s) BY DEF WriteFails
  <2> QED BY <1>4, <2>1, SaveOpenedJoined, BookClosedJoined, BookBankedJoined, SaveRestJoined
      DEF Database
<1> QED BY <1>1, <1>2, <1>3, <1>4 DEF Next

\* An order that came apart stays so.
LEMMA TornForever ==
  ASSUME torn, [Next]_vars
  PROVE  torn'
<1>1. CASE UNCHANGED vars BY <1>1 DEF vars
<1>2. CASE EngineDies BY <1>2 DEF EngineDies
<1>3. ASSUME NEW s \in Symbols, Broker(s) PROVE torn'
  BY <1>3 DEF Broker, Open, Close, Bank, BrokerCloses, Written, MarkToMarket, TooSmall
<1>4. ASSUME NEW s \in Symbols, Database(s) PROVE torn'
  BY <1>4 DEF Database, SaveOpened, BookClosed, BookBanked, SaveRest, WriteFails
<1> QED BY <1>1, <1>2, <1>3, <1>4 DEF Next

LEMMA PaperInvStep == PaperInv /\ [Next]_vars => PaperInv'
<1> SUFFICES ASSUME PaperInv, [Next]_vars PROVE PaperInv' OBVIOUS
<1>1. Whole /\ Whole' BY WholeStep DEF PaperInv
<1>2. ASSUME ~torn' PROVE Joined'
  <2>1. ~torn BY <1>2, TornForever
  <2> QED BY <1>1, <1>2, <2>1, JoinedStep DEF PaperInv
<1> QED BY <1>1, <1>2 DEF PaperInv

LEMMA PaperInvHeld == Spec => []PaperInv
<1>1. Init => PaperInv BY InitWhole, InitJoined DEF PaperInv
<1> QED BY <1>1, PaperInvStep, PTL DEF Spec

(* Between two orders, whatever exits, restarts and partial closes went before,  *)
(* on however many pairs, the cash of the broker's file is what the engine's own *)
(* books say: the capital and the booked profit, less the funding and what the   *)
(* open positions tie up.                                                       *)
THEOREM CashMatchesBooks == Spec => []CashExplained
<1>1. PaperInv => CashExplained
  <2> SUFFICES ASSUME PaperInv, Settled PROVE cash = Capital + booked - funded - AllTied
    BY DEF CashExplained, AllTied
  <2>1. Joined /\ Whole /\ Due = 0 BY NothingDue DEF PaperInv, Settled
  <2>2. AllTied \in Int
    <3>1. IsFiniteSet(Symbols) BY Zenon, PaperAssumption
    <3> QED BY <2>1, <3>1, TiedType, SumType DEF AllTied
  <2> QED BY <2>1, <2>2, Accounts DEF Joined, Balanced
<1> QED BY <1>1, PaperInvHeld, PTL

(* Between two orders the broker's ledgers, in memory and on file, are those of  *)
(* the rows: a flat pair can be entered and a short can be closed.              *)
THEOREM LedgersMatchRows == Spec => []LedgersFollowRows
<1>1. PaperInv => LedgersFollowRows
  <2> SUFFICES ASSUME PaperInv, Settled, NEW s \in Symbols
               PROVE  /\ ~Held(s) => ledger[s].qty = 0
                      /\ row[s].side = "short" =>
                           /\ ledger[s].side = "short" /\ ledger[s].qty = row[s].qty
                           /\ ledger[s].entry = row[s].entry
                      /\ row[s].side = "long" => ledger[s].qty \in {0, row[s].qty}
                      /\ \A field \in {"side", "entry", "qty", "margin"} :
                           saved[s][field] = ledger[s][field]
    BY DEF LedgersFollowRows
  <2>1. Follows(s) /\ ~Opening(s) /\ ~Closing(s)
    BY NothingDue DEF PaperInv, Settled, Joined
  <2>2. Remaining(s) = row[s].qty BY <2>1 DEF Remaining
  <2> QED BY <2>1, <2>2 DEF Follows, LedgerFits, OnFile
<1> QED BY <1>1, PaperInvHeld, PTL
=============================================================================
