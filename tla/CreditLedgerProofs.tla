------------------------- MODULE CreditLedgerProofs -------------------------
(***************************************************************************)
(* Theorems about the credit ledger, for any number of plans, requests,    *)
(* packs, operators and months.  The buckets are sums over sets of rows;   *)
(* the first part proves what a sum over a finite set is, by the minimal   *)
(* counterexample among the subsets of the set.                            *)
(***************************************************************************)
EXTENDS CreditLedger, FiniteSetTheorems, TLAPS

-----------------------------------------------------------------------------
(* Sums over finite sets *)

\* Among some subsets of a finite set one is minimal.
LEMMA MinimalSubset ==
    ASSUME NEW S, IsFiniteSet(S), NEW C, C \subseteq SUBSET S, C # {}
    PROVE  \E T \in C : \A U \in C : U \subseteq T => U = T
<1>1. IsWellFoundedOn(StrictSubsetOrdering(S), SUBSET S)
  BY FS_StrictSubsetOrderingWellFounded, FS_FiniteSubsetsOfFinite
<1>2. PICK T \in C : \A U \in C : ~(<<U, T>> \in StrictSubsetOrdering(S))
  BY <1>1, WFMin
<1>. QED  BY <1>2 DEF StrictSubsetOrdering

\* The element that a fold takes out of a set.
Some(s) == CHOOSE x \in s : TRUE

\* `sum` holds the sums of f over the subsets of S.
Sums(sum, f, S) ==
    sum = [s \in SUBSET S |-> IF s = {} THEN 0 ELSE f[Some(s)] + sum[s \ {Some(s)}]]

LEMMA SumsStep ==
    ASSUME NEW sum, NEW f, NEW S, Sums(sum, f, S)
    PROVE  /\ sum[{}] = 0
           /\ \A s \in SUBSET S : s # {} =>
                  /\ Some(s) \in s
                  /\ sum[s] = f[Some(s)] + sum[s \ {Some(s)}]
<1>1. {} \in SUBSET S
  OBVIOUS
<1>2. \A s : s # {} => Some(s) \in s
  BY DEF Some
<1>. QED  BY <1>1, <1>2 DEF Sums

\* They are determined by f.
LEMMA SumsAgree ==
    ASSUME NEW S, IsFiniteSet(S), NEW f, NEW g, NEW T, T \subseteq S,
           NEW sum, NEW part, Sums(sum, f, S), Sums(part, g, T),
           \A x \in T : f[x] = g[x]
    PROVE  sum[T] = part[T]
<1>. DEFINE C == {U \in SUBSET T : sum[U] # part[U]}
<1>. SUFFICES C = {}
  OBVIOUS
<1>1. SUFFICES ASSUME C # {} PROVE FALSE
  OBVIOUS
<1>2. IsFiniteSet(T)
  BY FS_Subset
<1>3. PICK U \in C : \A V \in C : V \subseteq U => V = U
  <2>1. C \subseteq SUBSET T
    OBVIOUS
  <2>. HIDE DEF C
  <2>. QED  BY <1>1, <1>2, <2>1, MinimalSubset
<1>4. U # {}
  BY SumsStep
<1>5. /\ Some(U) \in U
      /\ sum[U] = f[Some(U)] + sum[U \ {Some(U)}]
      /\ part[U] = g[Some(U)] + part[U \ {Some(U)}]
  BY <1>4, SumsStep
<1>6. U \ {Some(U)} \notin C
  BY <1>3, <1>5
<1>. QED  BY <1>5, <1>6

\* They exist.
LEMMA SumsExist ==
    ASSUME NEW S, IsFiniteSet(S), NEW f
    PROVE  \E sum : Sums(sum, f, S)
<1>. DEFINE C == {T \in SUBSET S : ~\E sum : Sums(sum, f, T)}
<1>. SUFFICES ASSUME C # {} PROVE FALSE
  OBVIOUS
<1>1. PICK T \in C : \A U \in C : U \subseteq T => U = T
  <2>1. C \subseteq SUBSET S
    OBVIOUS
  <2>. HIDE DEF C
  <2>. QED  BY <2>1, MinimalSubset
<1>2. \A U \in SUBSET T : U # T => \E sum : Sums(sum, f, U)
  BY <1>1
<1>. DEFINE of(U) == CHOOSE sum : Sums(sum, f, U)
            total(U) == IF U = {} THEN 0
                        ELSE f[Some(U)] + of(U \ {Some(U)})[U \ {Some(U)}]
            all == [U \in SUBSET T |-> total(U)]
<1>3. \A U \in SUBSET T : U # T => Sums(of(U), f, U)
  BY <1>2
<1>4. \A U \in SUBSET T : U # T => of(U)[U] = total(U)
  <2>1. SUFFICES ASSUME NEW U \in SUBSET T, U # T PROVE of(U)[U] = total(U)
    OBVIOUS
  <2>2. Sums(of(U), f, U)
    BY <1>3, <2>1
  <2>3. CASE U = {}
    BY <2>2, <2>3, SumsStep
  <2>4. CASE U # {}
    <3>. DEFINE V == U \ {Some(U)}
    <3>1. U \in SUBSET U /\ Some(U) \in U /\ of(U)[U] = f[Some(U)] + of(U)[V]
      BY <2>2, <2>4, SumsStep
    <3>2. V \in SUBSET T /\ V # T /\ V \subseteq U
      BY <3>1
    <3>3. Sums(of(V), f, V)
      BY <1>3, <3>2
    <3>4. IsFiniteSet(U)
      BY FS_Subset
    <3>. HIDE DEF of, V
    <3>5. of(U)[V] = of(V)[V]
      BY <2>2, <3>2, <3>3, <3>4, SumsAgree
    <3>. QED  BY <2>4, <3>1, <3>5 DEF V
  <2>. QED  BY <2>3, <2>4
<1>5. Sums(all, f, T)
  <2>1. ASSUME NEW U \in SUBSET T
        PROVE  total(U) = IF U = {} THEN 0 ELSE f[Some(U)] + all[U \ {Some(U)}]
    <3>1. CASE U = {}
      BY <3>1
    <3>2. CASE U # {}
      <4>1. Some(U) \in U
        BY <3>2 DEF Some
      <4>2. U \ {Some(U)} \in SUBSET T /\ U \ {Some(U)} # T
        BY <4>1
      <4>3. all[U \ {Some(U)}] = of(U \ {Some(U)})[U \ {Some(U)}]
        BY <1>4, <4>2
      <4>. QED  BY <3>2, <4>3
    <3>. QED  BY <3>1, <3>2
  <2>. HIDE DEF total
  <2>. QED  BY <2>1 DEF Sums
<1>. QED  BY <1>1, <1>5

SumOf(f, S) == (CHOOSE sum : Sums(sum, f, S))[S]

\* Sums over the subsets of S are the entries of one function.
LEMMA SumOfParts ==
    ASSUME NEW S, IsFiniteSet(S), NEW f
    PROVE  \E sum : /\ Sums(sum, f, S)
                    /\ \A T \in SUBSET S : SumOf(f, T) = sum[T]
<1>1. PICK sum : Sums(sum, f, S)
  BY SumsExist
<1>2. ASSUME NEW T \in SUBSET S PROVE SumOf(f, T) = sum[T]
  <2>. DEFINE part == CHOOSE p : Sums(p, f, T)
  <2>1. Sums(part, f, T)
    BY FS_Subset, SumsExist
  <2>. HIDE DEF part
  <2>2. sum[T] = part[T]
    BY <1>1, <2>1, SumsAgree
  <2>. QED  BY <2>2 DEF SumOf, part
<1>. QED  BY <1>1, <1>2

LEMMA SumOfAgree ==
    ASSUME NEW S, IsFiniteSet(S), NEW f, NEW g, \A x \in S : f[x] = g[x]
    PROVE  SumOf(f, S) = SumOf(g, S)
<1>1. PICK sum : Sums(sum, f, S) /\ SumOf(f, S) = sum[S]
  BY SumOfParts
<1>2. PICK part : Sums(part, g, S) /\ SumOf(g, S) = part[S]
  BY SumOfParts
<1>. QED  BY <1>1, <1>2, SumsAgree

LEMMA SumOfType ==
    ASSUME NEW S, IsFiniteSet(S), NEW f, \A x \in S : f[x] \in Int
    PROVE  SumOf(f, S) \in Int
<1>1. PICK sum : Sums(sum, f, S) /\ \A T \in SUBSET S : SumOf(f, T) = sum[T]
  BY SumOfParts
<1>s. /\ sum[{}] = 0
      /\ \A T \in SUBSET S : T # {} =>
             /\ Some(T) \in T
             /\ sum[T] = f[Some(T)] + sum[T \ {Some(T)}]
  <2>1. Sums(sum, f, S)
    BY <1>1
  <2>. QED  BY <2>1, SumsStep
<1>. DEFINE C == {T \in SUBSET S : sum[T] \notin Int}
<1>2. C = {}
  <2>1. SUFFICES ASSUME C # {} PROVE FALSE
    OBVIOUS
  <2>2. PICK T \in C : \A U \in C : U \subseteq T => U = T
    <3>1. C \subseteq SUBSET S
      OBVIOUS
    <3>. HIDE DEF C
    <3>. QED  BY <2>1, <3>1, MinimalSubset
  <2>m. T \in SUBSET S /\ sum[T] \notin Int
    OBVIOUS
  <2>n. T # {}
    <3>. HIDE DEF C
    <3>1. sum[{}] \in Int
      BY <1>s
    <3>. QED  BY <2>m, <3>1, Zenon
  <2>3. /\ Some(T) \in T
        /\ sum[T] = f[Some(T)] + sum[T \ {Some(T)}]
    BY <1>s, <2>n
  <2>4. T \ {Some(T)} \notin C
    BY <2>2, <2>3
  <2>5. sum[T \ {Some(T)}] \in Int /\ f[Some(T)] \in Int
    BY <2>3, <2>4
  <2>. QED  BY <2>3, <2>5
<1>. QED  BY <1>1, <1>2

\* Any element may be taken out first.
LEMMA SumOfRemove ==
    ASSUME NEW S, IsFiniteSet(S), NEW f, \A x \in S : f[x] \in Int, NEW y \in S
    PROVE  SumOf(f, S) = f[y] + SumOf(f, S \ {y})
<1>1. PICK sum : Sums(sum, f, S) /\ \A T \in SUBSET S : SumOf(f, T) = sum[T]
  BY SumOfParts
<1>2. \A T \in SUBSET S : sum[T] \in Int
  BY <1>1, SumOfType, FS_Subset
<1>s. /\ sum[{}] = 0
      /\ \A T \in SUBSET S : T # {} =>
             /\ Some(T) \in T
             /\ sum[T] = f[Some(T)] + sum[T \ {Some(T)}]
  <2>1. Sums(sum, f, S)
    BY <1>1
  <2>. QED  BY <2>1, SumsStep
<1>. DEFINE C == {T \in SUBSET S : \E z \in T : sum[T] # f[z] + sum[T \ {z}]}
<1>3. C = {}
  <2>1. SUFFICES ASSUME C # {} PROVE FALSE
    OBVIOUS
  <2>2. PICK T \in C : \A U \in C : U \subseteq T => U = T
    <3>1. C \subseteq SUBSET S
      OBVIOUS
    <3>. HIDE DEF C
    <3>. QED  BY <2>1, <3>1, MinimalSubset
  <2>3. PICK z \in T : sum[T] # f[z] + sum[T \ {z}]
    OBVIOUS
  <2>. DEFINE x == Some(T)
  <2>n. T \in SUBSET S /\ T # {}
    OBVIOUS
  <2>4. x \in T /\ sum[T] = f[x] + sum[T \ {x}]
    BY <1>s, <2>n
  <2>. HIDE DEF x
  <2>5. x # z
    BY <2>3, <2>4
  <2>6. /\ T \ {x} \in SUBSET S /\ T \ {x} # T /\ z \in T \ {x}
        /\ T \ {z} \in SUBSET S /\ T \ {z} # T /\ x \in T \ {z}
    BY <2>4, <2>5
  <2>7. sum[T \ {x}] = f[z] + sum[(T \ {x}) \ {z}]
    BY <2>2, <2>6
  <2>8. sum[T \ {z}] = f[x] + sum[(T \ {z}) \ {x}]
    BY <2>2, <2>6
  <2>. DEFINE rest == sum[(T \ {x}) \ {z}]
  <2>9. (T \ {x}) \ {z} = (T \ {z}) \ {x} /\ (T \ {x}) \ {z} \in SUBSET S
    OBVIOUS
  <2>10. f[x] \in Int /\ f[z] \in Int /\ rest \in Int
    BY <1>2, <2>4, <2>9
  <2>11. sum[T \ {x}] = f[z] + rest /\ sum[T \ {z}] = f[x] + rest
    BY <2>7, <2>8, <2>9
  <2>12. sum[T] = f[z] + sum[T \ {z}]
    <3>. HIDE DEF C, rest
    <3>. QED  BY <2>4, <2>10, <2>11
  <2>. QED  BY <2>3, <2>12
<1>4. S \in SUBSET S /\ S \ {y} \in SUBSET S /\ sum[S] = f[y] + sum[S \ {y}]
  BY <1>3
<1>. QED  BY <1>1, <1>4

LEMMA SumOfEmpty == \A f : SumOf(f, {}) = 0
<1>1. \A sum, f : Sums(sum, f, {}) => sum[{}] = 0
  BY SumsStep
<1>. QED  BY <1>1, SumsExist, FS_EmptySet DEF SumOf

LEMMA SumOfAdd ==
    ASSUME NEW S, IsFiniteSet(S), NEW f, NEW y, y \notin S,
           \A x \in S \cup {y} : f[x] \in Int
    PROVE  SumOf(f, S \cup {y}) = SumOf(f, S) + f[y]
<1>1. IsFiniteSet(S \cup {y}) /\ (S \cup {y}) \ {y} = S
  BY FS_AddElement
<1>2. SumOf(f, S \cup {y}) = f[y] + SumOf(f, S)
  BY <1>1, SumOfRemove
<1>3. SumOf(f, S) \in Int
  BY SumOfType
<1>. QED  BY <1>2, <1>3

\* Smaller summands give a smaller sum.
LEMMA SumOfMonotone ==
    ASSUME NEW S, IsFiniteSet(S), NEW f, NEW g,
           \A x \in S : f[x] \in Int /\ g[x] \in Int /\ f[x] <= g[x]
    PROVE  SumOf(f, S) <= SumOf(g, S)
<1>. DEFINE C == {T \in SUBSET S : ~(SumOf(f, T) <= SumOf(g, T))}
<1>1. SUFFICES ASSUME C # {} PROVE FALSE
  OBVIOUS
<1>2. PICK T \in C : \A U \in C : U \subseteq T => U = T
  <2>1. C \subseteq SUBSET S
    OBVIOUS
  <2>. HIDE DEF C
  <2>. QED  BY <1>1, <2>1, MinimalSubset
<1>3. T # {}
  BY SumOfEmpty
<1>4. PICK x \in T : TRUE
  BY <1>3
<1>. DEFINE U == T \ {x}
<1>5. IsFiniteSet(T) /\ IsFiniteSet(U) /\ U \subseteq T /\ U # T
  BY <1>4, FS_Subset
<1>6. U \notin C
  BY <1>2, <1>5
<1>7. /\ SumOf(f, T) = f[x] + SumOf(f, U)
      /\ SumOf(g, T) = g[x] + SumOf(g, U)
  BY <1>4, <1>5, SumOfRemove
<1>8. SumOf(f, U) \in Int /\ SumOf(g, U) \in Int
  BY <1>5, SumOfType
<1>9. SumOf(f, U) <= SumOf(g, U)
  BY <1>5, <1>6
<1>10. f[x] \in Int /\ g[x] \in Int /\ f[x] <= g[x] /\ ~(SumOf(f, T) <= SumOf(g, T))
  BY <1>4
<1>. HIDE DEF U
<1>. QED  BY <1>7, <1>8, <1>9, <1>10

\* A sum over two disjoint sets.
LEMMA SumOfUnion ==
    ASSUME NEW S, IsFiniteSet(S), NEW R, IsFiniteSet(R), S \cap R = {},
           NEW f, \A x \in S \cup R : f[x] \in Int
    PROVE  SumOf(f, S \cup R) = SumOf(f, S) + SumOf(f, R)
<1>. DEFINE C == {T \in SUBSET R : SumOf(f, S \cup T) # SumOf(f, S) + SumOf(f, T)}
<1>1. SUFFICES ASSUME C # {} PROVE FALSE
  OBVIOUS
<1>2. PICK T \in C : \A U \in C : U \subseteq T => U = T
  <2>1. C \subseteq SUBSET R
    OBVIOUS
  <2>. HIDE DEF C
  <2>. QED  BY <1>1, <2>1, MinimalSubset
<1>3. SumOf(f, S) \in Int
  BY SumOfType
<1>4. T # {}
  <2>1. SumOf(f, S \cup {}) = SumOf(f, S) /\ SumOf(f, {}) = 0
    <3>1. S \cup {} = S
      OBVIOUS
    <3>. QED  BY <3>1, SumOfEmpty
  <2>2. SumOf(f, S \cup {}) = SumOf(f, S) + SumOf(f, {})
    BY <1>3, <2>1
  <2>3. {} \notin C
    BY <2>2
  <2>. HIDE DEF C
  <2>. QED  BY <1>2, <2>3
<1>5. PICK x \in T : TRUE
  BY <1>4
<1>. DEFINE U == T \ {x}
<1>6. /\ IsFiniteSet(T) /\ IsFiniteSet(U) /\ U \subseteq T /\ U # T
      /\ IsFiniteSet(S \cup T) /\ (S \cup T) \ {x} = S \cup U
  BY <1>5, FS_Subset, FS_Union
<1>7. U \notin C
  BY <1>2, <1>6
<1>8. /\ SumOf(f, T) = f[x] + SumOf(f, U)
      /\ SumOf(f, S \cup T) = f[x] + SumOf(f, S \cup U)
  <2>1. SumOf(f, T) = f[x] + SumOf(f, U)
    BY <1>5, <1>6, SumOfRemove
  <2>2. \A y \in S \cup T : f[y] \in Int
    OBVIOUS
  <2>3. SumOf(f, S \cup T) = f[x] + SumOf(f, (S \cup T) \ {x})
    <3>. HIDE DEF U
    <3>. QED  BY <1>5, <1>6, <2>2, SumOfRemove
  <2>. QED  BY <1>6, <2>1, <2>3
<1>9. SumOf(f, U) \in Int /\ f[x] \in Int
  BY <1>5, <1>6, SumOfType
<1>10. SumOf(f, S \cup U) = SumOf(f, S) + SumOf(f, U)
  BY <1>6, <1>7
<1>11. SumOf(f, S \cup T) # SumOf(f, S) + SumOf(f, T)
  OBVIOUS
<1>. HIDE DEF U
<1>. QED  BY <1>3, <1>8, <1>9, <1>10, <1>11

\* Nothing adds up to nothing, and natural numbers to one.
LEMMA SumOfNothing ==
    ASSUME NEW S, IsFiniteSet(S), NEW f, \A x \in S : f[x] = 0
    PROVE  SumOf(f, S) = 0
<1>. DEFINE C == {T \in SUBSET S : SumOf(f, T) # 0}
<1>1. SUFFICES ASSUME C # {} PROVE FALSE
  OBVIOUS
<1>2. PICK T \in C : \A U \in C : U \subseteq T => U = T
  <2>1. C \subseteq SUBSET S
    OBVIOUS
  <2>. HIDE DEF C
  <2>. QED  BY <1>1, <2>1, MinimalSubset
<1>3. PICK x \in T : TRUE
  BY <1>2, SumOfEmpty
<1>4. IsFiniteSet(T) /\ T \ {x} \subseteq T /\ T \ {x} # T
  BY <1>3, FS_Subset
<1>5. SumOf(f, T \ {x}) = 0
  BY <1>2, <1>4
<1>6. SumOf(f, T) = f[x] + SumOf(f, T \ {x})
  BY <1>3, <1>4, SumOfRemove
<1>7. f[x] = 0 /\ SumOf(f, T) # 0
  BY <1>3
<1>. QED  BY <1>5, <1>6, <1>7

LEMMA SumOfNaturals ==
    ASSUME NEW S, IsFiniteSet(S), NEW f, \A x \in S : f[x] \in Nat
    PROVE  SumOf(f, S) \in Nat
<1>. DEFINE zero == [x \in S |-> 0]
<1>1. SumOf(zero, S) = 0
  BY SumOfNothing
<1>2. SumOf(zero, S) <= SumOf(f, S)
  <2>1. \A x \in S : zero[x] \in Int /\ f[x] \in Int /\ zero[x] <= f[x]
    OBVIOUS
  <2>. HIDE DEF zero
  <2>. QED  BY <2>1, SumOfMonotone
<1>3. SumOf(f, S) \in Int
  BY SumOfType
<1>. HIDE DEF zero
<1>. QED  BY <1>1, <1>2, <1>3

-----------------------------------------------------------------------------
(* The sums of the ledger *)

Credits(rows) == [r \in rows |-> r.credits]

LEMMA TotalIsSum ==
    ASSUME NEW rows, IsFiniteSet(rows)
    PROVE  Total(rows) = SumOf(Credits(rows), rows)
<1>. DEFINE f == Credits(rows)
            body(sum) == [s \in SUBSET rows |->
                             IF s = {} THEN 0
                             ELSE Some(s).credits + sum[s \ {Some(s)}]]
            chosen == CHOOSE sum : sum = body(sum)
<1>1. Total(rows) = chosen[rows]
  BY DEF Total, MapThenSumSet, MapThenFoldSet, Some
<1>2. \A sum : Sums(sum, f, rows) <=> sum = body(sum)
  <2>1. \A s \in SUBSET rows : s # {} => f[Some(s)] = Some(s).credits
    BY DEF Some, Credits
  <2>. HIDE DEF f
  <2>. QED  BY <2>1 DEF Sums
<1>3. PICK sum : Sums(sum, f, rows) /\ SumOf(f, rows) = sum[rows]
  BY SumOfParts
<1>4. chosen = body(chosen)
  BY <1>2, <1>3
<1>5. Sums(chosen, f, rows)
  BY <1>2, <1>4
<1>. HIDE DEF f, chosen
<1>6. chosen[rows] = sum[rows]
  BY <1>3, <1>5, SumsAgree
<1>. QED  BY <1>1, <1>3, <1>6 DEF f

LEMMA TotalType ==
    ASSUME NEW rows, IsFiniteSet(rows), \A r \in rows : r.credits \in Int
    PROVE  Total(rows) \in Int
<1>1. \A r \in rows : Credits(rows)[r] \in Int
  BY DEF Credits
<1>. QED  BY <1>1, TotalIsSum, SumOfType

LEMMA TotalEmpty == Total({}) = 0
BY TotalIsSum, SumOfEmpty, FS_EmptySet

LEMMA TotalAdd ==
    ASSUME NEW rows, IsFiniteSet(rows), NEW row, row \notin rows,
           \A r \in rows \cup {row} : r.credits \in Int
    PROVE  Total(rows \cup {row}) = Total(rows) + row.credits
<1>. DEFINE all == rows \cup {row}
            f == Credits(all)
<1>1. IsFiniteSet(all)
  BY FS_AddElement
<1>2. /\ \A r \in all : f[r] = r.credits
      /\ \A r \in rows : f[r] = Credits(rows)[r]
      /\ f[row] = row.credits
  BY DEF Credits
<1>3. Total(all) = SumOf(f, all)
  BY <1>1, TotalIsSum
<1>. HIDE DEF f
<1>4. SumOf(f, all) = SumOf(f, rows) + f[row]
  BY <1>2, SumOfAdd
<1>5. SumOf(f, rows) = Total(rows)
  BY <1>2, SumOfAgree, TotalIsSum
<1>. QED  BY <1>2, <1>3, <1>4, <1>5

\* The rows that pass a test, when a row comes in.
LEMMA TotalSingleton ==
    ASSUME NEW row, row.credits \in Int
    PROVE  Total({row}) = row.credits
<1>1. Total({} \cup {row}) = Total({}) + row.credits
  BY TotalAdd, FS_EmptySet
<1>. QED  BY <1>1, TotalEmpty

\* What a period cost beyond its allowance.
Overspent(rows, p) == IF Pool(rows, p) < 0 THEN -Pool(rows, p) ELSE 0

Overspends(rows) == [p \in Months |-> Overspent(rows, p)]

From(first) == {p \in Months : p >= first}

LEMMA MonthsFinite == IsFiniteSet(Months) /\ \A first : IsFiniteSet(From(first))
<1>1. IsFiniteSet(Months)
  BY LedgerAssumption, FS_Interval DEF Months
<1>. QED  BY <1>1, FS_Subset DEF From

LEMMA OverspendIsSum ==
    ASSUME NEW rows, NEW first
    PROVE  OverspendFrom(rows, first) = SumOf(Overspends(rows), From(first))
<1>. DEFINE S == From(first)
            f == Overspends(rows)
            body(sum) == [s \in SUBSET S |->
                             IF s = {} THEN 0
                             ELSE Overspent(rows, Some(s)) + sum[s \ {Some(s)}]]
            chosen == CHOOSE sum : sum = body(sum)
<1>1. OverspendFrom(rows, first) = chosen[S]
  BY DEF OverspendFrom, MapThenSumSet, MapThenFoldSet, Some, From, Overspent
<1>f. IsFiniteSet(S)
  BY MonthsFinite
<1>2. \A sum : Sums(sum, f, S) <=> sum = body(sum)
  <2>1. \A s \in SUBSET S : s # {} => f[Some(s)] = Overspent(rows, Some(s))
    BY DEF Some, Overspends, From
  <2>. HIDE DEF f, S
  <2>. QED  BY <2>1 DEF Sums
<1>. HIDE DEF S
<1>3. PICK sum : Sums(sum, f, S) /\ SumOf(f, S) = sum[S]
  BY <1>f, SumOfParts
<1>4. chosen = body(chosen)
  BY <1>2, <1>3
<1>5. Sums(chosen, f, S)
  BY <1>2, <1>4
<1>. HIDE DEF f, chosen
<1>6. chosen[S] = sum[S]
  BY <1>f, <1>3, <1>5, SumsAgree
<1>. QED  BY <1>1, <1>3, <1>6 DEF f, S

-----------------------------------------------------------------------------
(* Types *)

\* Sets of rows that can be summed.
Summable(rows) == IsFiniteSet(rows) /\ \A r \in rows : r.credits \in Int

Reading == {Idle} \cup [at : {"looked"}, plan : Plans, period : Months]
                  \cup [at : {"summed"}, plan : Plans, period : Months, delta : Nat \ {0}]

Buying == {Idle} \cup [at : {"counted"}, pack : Packs, period : Months, bought : Int]
                 \cup [at : {"dated"}, pack : Packs, period : Months, bought : Int,
                       first : Months]
                 \cup [at : {"owes"}, pack : Packs, period : Months, first : Months, debt : Nat]

\* An operator reverses an entry that is there.
Reversing(rows) == {Idle, [at |-> "ended"]} \cup [at : {"checked"}, entry : rows]

\* The inductive invariant: what the program points hold.
Keeping ==
    /\ TypeOK
    /\ IsFiniteSet(ledger)
    /\ reader \in [Readers -> Reading]
    /\ buyer \in [Buyers -> Buying]
    /\ operator \in [Operators -> Reversing(ledger)]

\* The steps of a reader, of the requests, a buyer before it grants its pack, and an
\* operator.
Reads(r) == (\E p \in Plans : Look(r, p)) \/ SumGrants(r) \/ PostGrant(r)

Charges ==
    \E q \in Requests, period \in Months, cost \in Costs : PostCharge(q, period, cost)

Asks(b) == (\E pack \in Packs : CountBought(b, pack)) \/ DateBought(b) \/ ReadDebt(b)

Operates(o) ==
    \/ PostManual(o)
    \/ \E e \in ledger : CheckReversal(o, e)
    \/ PostReversal(o)

LEMMA NextCases ==
    ASSUME [Next]_vars
    PROVE  \/ \E r \in Readers : Reads(r)
           \/ Charges
           \/ \E b \in Buyers : Asks(b) \/ PostPurchase(b)
           \/ \E o \in Operators : Operates(o)
           \/ NextMonth
           \/ \E p \in Plans : MovePlan(p)
           \/ UNCHANGED vars
BY DEF Next, Reads, Charges, Asks, Operates

LEMMA FirstOfMonths ==
    ASSUME NEW S, S \subseteq Months, S # {}
    PROVE  Min(S) \in S /\ \A k \in S : Min(S) <= k
<1>. DEFINE C == {1..m : m \in S}
<1>1. Months \subseteq Nat \ {0}
  BY DEF Months
<1>2. C \subseteq SUBSET Months /\ C # {}
  <2>1. ASSUME NEW m \in S PROVE 1..m \subseteq Months
    <3>1. m \in 1..LastMonth /\ LastMonth \in Nat
      BY LedgerAssumption DEF Months
    <3>. QED  BY <3>1 DEF Months
  <2>. QED  BY <2>1
<1>3. PICK T \in C : \A U \in C : U \subseteq T => U = T
  <2>. HIDE DEF C
  <2>. QED  BY <1>2, MonthsFinite, MinimalSubset
<1>4. PICK m \in S : T = 1..m
  OBVIOUS
<1>5. ASSUME NEW k \in S PROVE m <= k
  <2>1. m \in Nat \ {0} /\ k \in Nat \ {0}
    BY <1>1
  <2>2. SUFFICES ASSUME k < m PROVE FALSE
    BY <2>1
  <2>3. 1..k \in C /\ 1..k \subseteq 1..m
    BY <2>1, <2>2
  <2>4. 1..k = 1..m
    BY <1>3, <1>4, <2>3
  <2>. QED  BY <2>1, <2>2, <2>4
<1>. QED  BY <1>5 DEF Min

\* The month of the first pack is the month of one.
LEMMA FirstIsOfOne ==
    ASSUME NEW rows, \A r \in rows : r.period \in Months, Bought(rows) # {}
    PROVE  /\ FirstPeriod(rows) \in Months
           /\ \E r \in Bought(rows) : r.period = FirstPeriod(rows)
<1>. DEFINE S == {r.period : r \in Bought(rows)}
<1>1. S \subseteq Months /\ S # {}
  BY DEF Bought
<1>. HIDE DEF S
<1>2. Min(S) \in S
  BY <1>1, FirstOfMonths
<1>. QED  BY <1>1, <1>2 DEF FirstPeriod, S

LEMMA SummablePart ==
    ASSUME NEW rows, Summable(rows), NEW part, part \subseteq rows
    PROVE  Summable(part) /\ Total(part) \in Int
BY FS_Subset, TotalType DEF Summable

LEMMA BucketTypes ==
    ASSUME NEW rows, Summable(rows)
    PROVE  /\ \A p : Pool(rows, p) \in Int /\ Overspent(rows, p) \in Nat
           /\ Total(Bought(rows)) \in Int
           /\ \A first : OverspendFrom(rows, first) \in Int
           /\ Purchased(rows) \in Int
           /\ \A p : Balance(rows, p) \in Int /\ Debt(rows, p) \in Nat
<1>1. ASSUME NEW p PROVE Pool(rows, p) \in Int /\ Overspent(rows, p) \in Nat
  <2>1. Pool(rows, p) \in Int
    BY SummablePart DEF Pool
  <2>. QED  BY <2>1 DEF Overspent
<1>2. Total(Bought(rows)) \in Int
  BY SummablePart DEF Bought
<1>3. ASSUME NEW first PROVE OverspendFrom(rows, first) \in Int
  <2>1. \A p \in From(first) : Overspends(rows)[p] \in Int
    BY <1>1 DEF Overspends, From
  <2>. QED  BY <2>1, MonthsFinite, OverspendIsSum, SumOfType
<1>4. Purchased(rows) \in Int
  BY <1>2, <1>3 DEF Purchased, Floor
<1>5. ASSUME NEW p PROVE Balance(rows, p) \in Int
  BY <1>1, <1>4 DEF Balance, Floor
<1>6. ASSUME NEW p PROVE Debt(rows, p) \in Nat
  BY <1>2, <1>3 DEF Debt, Floor
<1>. QED  BY <1>1, <1>2, <1>3, <1>4, <1>5, <1>6

LEMMA KeepingSums == Keeping => Summable(ledger)
BY DEF Keeping, TypeOK, Summable

LEMMA KeepingInit == Init => Keeping
<1>. SUFFICES ASSUME Init PROVE Keeping
  OBVIOUS
<1>1. IsFiniteSet(ledger)
  BY FS_EmptySet DEF Init
<1>2. 1 \in Months
  BY LedgerAssumption DEF Months
<1>3. /\ reader = [r \in Readers |-> Idle]
      /\ buyer = [b \in Buyers |-> Idle]
      /\ operator = [o \in Operators |-> Idle]
  BY DEF Init
<1>4. TypeOK
  <2>1. /\ \A r \in Readers : reader[r].at = "idle"
        /\ \A b \in Buyers : buyer[b].at = "idle"
        /\ \A o \in Operators : operator[o].at = "idle"
    BY <1>3 DEF Idle
  <2>2. since \in [Buyers -> Nat]
    BY DEF Init
  <2>3. told \subseteq Plans
    BY DEF Init
  <2>. QED  BY <1>2, <2>1, <2>2, <2>3 DEF Init, TypeOK
<1>5. /\ Idle \in Reading
      /\ Idle \in Buying
      /\ Idle \in Reversing(ledger)
  BY DEF Reading, Buying, Reversing
<1>. QED  BY <1>1, <1>3, <1>4, <1>5 DEF Keeping

\* What a row in the ledger is.
Stored(r) ==
    /\ r.type \in {"grant", "charge", "reversal"}
    /\ r.kind \in {"monthly", "manual", "purchased", "none"}
    /\ r.period \in Months
    /\ r.credits \in Int \ {0}
    /\ r.type = "grant" => r.credits > 0
    /\ r.type = "charge" => r.credits < 0 /\ r.kind = "none"

\* The program points, typed, of an unchanged or grown ledger.
LEMMA KeepingFrom ==
    ASSUME Keeping,
           month' \in Months, told' \subseteq Plans,
           NEW new, IsFiniteSet(new), ledger' = ledger \cup new, \A r \in new : Stored(r),
           since' \in [Buyers -> Nat], crossed' \in BOOLEAN,
           reader' \in [Readers -> Reading],
           buyer' \in [Buyers -> Buying],
           operator' \in [Operators -> Reversing(ledger)]
    PROVE  Keeping'
<1>1. IsFiniteSet(ledger')
  BY FS_Union DEF Keeping
<1>2. \A r \in ledger' : Stored(r)
  BY DEF Keeping, TypeOK, Stored
<1>3. \A r \in Readers : reader'[r].at \in {"idle", "looked", "summed"}
  BY DEF Reading, Idle
<1>4. \A b \in Buyers : buyer'[b].at \in {"idle", "counted", "dated", "owes"}
  BY DEF Buying, Idle
<1>5. \A o \in Operators : operator'[o].at \in {"idle", "checked", "ended"}
  BY DEF Reversing, Idle
<1>6. TypeOK'
  BY <1>2, <1>3, <1>4, <1>5 DEF TypeOK, Stored
<1>7. Reversing(ledger) \subseteq Reversing(ledger')
  BY DEF Reversing
<1>. QED  BY <1>1, <1>6, <1>7 DEF Keeping

\* A step of a reader.
LEMMA KeepingReader ==
    ASSUME Keeping, NEW r \in Readers, Reads(r)
    PROVE  Keeping'
<1>t. reader \in [Readers -> Reading] /\ Idle \in Reading
  BY DEF Keeping, Reading
<1>1. \/ ledger' = ledger
      \/ /\ reader[r].at = "summed"
         /\ ledger' = ledger \cup
                {Row("grant", "monthly", reader[r].plan, reader[r].period, reader[r].delta)}
  BY DEF Reads, Look, SumGrants, PostGrant
<1>2. \E new : /\ IsFiniteSet(new) /\ ledger' = ledger \cup new
               /\ \A row \in new : Stored(row)
  <2>1. CASE ledger' = ledger
    <3>1. IsFiniteSet({}) /\ ledger' = ledger \cup {}
      BY <2>1, FS_EmptySet
    <3>. QED  BY <3>1
  <2>2. CASE reader[r].at = "summed"
    <3>1. reader[r].period \in Months /\ reader[r].delta \in Nat \ {0}
      BY <1>t, <2>2 DEF Reading, Idle
    <3>. DEFINE row == Row("grant", "monthly", reader[r].plan, reader[r].period,
                           reader[r].delta)
    <3>2. Stored(row)
      BY <3>1 DEF Stored, Row
    <3>3. ledger' = ledger \/ ledger' = ledger \cup {row}
      BY <1>1
    <3>4. IsFiniteSet({row})
      BY FS_Singleton
    <3>. HIDE DEF row
    <3>. QED  BY <2>1, <3>2, <3>3, <3>4
  <2>. QED  BY <1>1, <2>1, <2>2
<1>3. reader' \in [Readers -> Reading]
  <2>1. ASSUME NEW p \in Plans, Look(r, p) PROVE reader' \in [Readers -> Reading]
    <3>1. [at |-> "looked", plan |-> p, period |-> month] \in Reading
      BY DEF Keeping, TypeOK, Reading
    <3>. QED  BY <1>t, <2>1, <3>1 DEF Look
  <2>2. CASE SumGrants(r)
    <3>. DEFINE delta == Entitlement[reader[r].plan] - Total(Granted(reader[r].period))
                now == IF delta <= 0 THEN Idle
                       ELSE [at |-> "summed", plan |-> reader[r].plan,
                             period |-> reader[r].period, delta |-> delta]
    <3>1. /\ reader[r].plan \in Plans
          /\ reader[r].period \in Months
      BY <1>t, <2>2 DEF SumGrants, Reading, Idle
    <3>2. Entitlement[reader[r].plan] \in Int
      BY <3>1, LedgerAssumption
    <3>3. Total(Granted(reader[r].period)) \in Int
      BY KeepingSums, SummablePart DEF Granted
    <3>4. delta \in Int
      BY <3>2, <3>3
    <3>5. reader' = [reader EXCEPT ![r] = now]
      BY <2>2 DEF SumGrants
    <3>. HIDE DEF delta
    <3>6. now \in Reading
      BY <3>1, <3>4 DEF Reading
    <3>. HIDE DEF now
    <3>. QED  BY <1>t, <3>5, <3>6
  <2>3. CASE PostGrant(r)
    BY <1>t, <2>3 DEF PostGrant
  <2>. QED  BY <2>1, <2>2, <2>3 DEF Reads
<1>4. UNCHANGED <<month, told, buyer, operator, since>>
  BY DEF Reads, Look, SumGrants, PostGrant
<1>5. crossed' \in BOOLEAN
  BY DEF Reads, Look, SumGrants, PostGrant, Keeping, TypeOK
<1>. QED  BY <1>2, <1>3, <1>4, <1>5, KeepingFrom DEF Keeping, TypeOK

LEMMA SinceType ==
    ASSUME Keeping, NEW cost \in Nat, Spend(cost)
    PROVE  since' \in [Buyers -> Nat]
<1>1. \A b \in Buyers : since[b] \in Nat
  BY DEF Keeping, TypeOK
<1>. QED  BY <1>1 DEF Spend

\* A request is charged.
LEMMA KeepingRequest ==
    ASSUME Keeping, Charges
    PROVE  Keeping'
<1>1. PICK q \in Requests, period \in Months, cost \in Costs : PostCharge(q, period, cost)
  BY DEF Charges
<1>. DEFINE row == Row("charge", "none", q, period, -cost)
<1>2. cost \in Nat \ {0}
  BY LedgerAssumption
<1>3. Stored(row)
  BY <1>2 DEF Stored, Row
<1>4. ledger' = ledger \cup {row} /\ IsFiniteSet({row})
  BY <1>1, FS_Singleton DEF PostCharge
<1>5. since' \in [Buyers -> Nat]
  BY <1>1, <1>2, SinceType DEF PostCharge
<1>6. UNCHANGED <<month, told, reader, buyer, operator, crossed>>
  BY <1>1 DEF PostCharge
<1>. HIDE DEF row
<1>. QED  BY <1>3, <1>4, <1>5, <1>6, KeepingFrom DEF Keeping, TypeOK

\* A delivery reads the debt or grants its pack.
LEMMA KeepingBuyer ==
    ASSUME Keeping, NEW b \in Buyers,
           Asks(b) \/ PostPurchase(b)
    PROVE  Keeping'
<1>t. buyer \in [Buyers -> Buying] /\ Idle \in Buying
  BY DEF Keeping, Buying
<1>1. ASSUME Asks(b) PROVE Keeping'
  <2>1. IsFiniteSet({}) /\ ledger' = ledger \cup {}
    BY <1>1, FS_EmptySet DEF Asks, CountBought, DateBought, ReadDebt
  <2>2. Total(Bought(ledger)) \in Int
    BY KeepingSums, BucketTypes
  <2>3. ASSUME NEW pack \in Packs, CountBought(b, pack) PROVE buyer' \in [Buyers -> Buying]
    <3>1. [at |-> "counted", pack |-> pack, period |-> month, bought |-> Total(Bought(ledger))]
              \in Buying
      BY <2>2 DEF Buying, Keeping, TypeOK
    <3>. QED  BY <1>t, <2>3, <3>1 DEF CountBought
  <2>4. ASSUME DateBought(b) PROVE buyer' \in [Buyers -> Buying]
    <3>. DEFINE first == IF Bought(ledger) = {} THEN buyer[b].period ELSE FirstPeriod(ledger)
    <3>1. /\ buyer[b].pack \in Packs /\ buyer[b].period \in Months
          /\ buyer[b].bought \in Int
      BY <1>t, <2>4 DEF DateBought, Buying, Idle
    <3>2. Bought(ledger) # {} => FirstPeriod(ledger) \in Months
      BY FirstIsOfOne DEF Keeping, TypeOK
    <3>3. first \in Months
      BY <3>1, <3>2
    <3>. DEFINE now == [at |-> "dated", pack |-> buyer[b].pack, period |-> buyer[b].period,
                        bought |-> buyer[b].bought, first |-> first]
    <3>4. buyer' = [buyer EXCEPT ![b] = now]
      BY <2>4 DEF DateBought
    <3>. HIDE DEF first
    <3>5. now \in Buying
      BY <3>1, <3>3 DEF Buying
    <3>. HIDE DEF now
    <3>. QED  BY <1>t, <3>4, <3>5
  <2>5. ASSUME ReadDebt(b) PROVE buyer' \in [Buyers -> Buying]
    <3>. DEFINE debt == Floor(OverspendFrom(ledger, buyer[b].first) - buyer[b].bought)
    <3>1. /\ buyer[b].pack \in Packs /\ buyer[b].period \in Months
          /\ buyer[b].first \in Months /\ buyer[b].bought \in Int
      BY <1>t, <2>5 DEF ReadDebt, Buying, Idle
    <3>2. OverspendFrom(ledger, buyer[b].first) \in Int
      BY KeepingSums, BucketTypes
    <3>3. debt \in Nat
      BY <3>1, <3>2 DEF Floor
    <3>. DEFINE now == [at |-> "owes", pack |-> buyer[b].pack, period |-> buyer[b].period,
                        first |-> buyer[b].first, debt |-> debt]
    <3>4. buyer' = [buyer EXCEPT ![b] = now]
      BY <2>5 DEF ReadDebt
    <3>. HIDE DEF debt
    <3>5. now \in Buying
      BY <3>1, <3>3 DEF Buying
    <3>. HIDE DEF now
    <3>. QED  BY <1>t, <3>4, <3>5
  <2>6. buyer' \in [Buyers -> Buying]
    BY <1>1, <2>3, <2>4, <2>5 DEF Asks
  <2>7. UNCHANGED <<month, told, reader, operator, since, crossed>>
    BY <1>1 DEF Asks, CountBought, DateBought, ReadDebt
  <2>. QED  BY <2>1, <2>6, <2>7, KeepingFrom DEF Keeping, TypeOK
<1>2. CASE PostPurchase(b)
  <2>1. /\ buyer[b].pack \in Packs
        /\ buyer[b].period \in Months
        /\ buyer[b].debt \in Nat
    BY <1>t, <1>2 DEF PostPurchase, Buying, Idle
  <2>2. \A row \in PackRows(b) : Stored(row)
    BY <2>1, LedgerAssumption DEF PackRows, Row, Stored
  <2>3. IsFiniteSet(PackRows(b))
    <3>1. PICK x, y : PackRows(b) = {x} \cup {y} \/ PackRows(b) = {x} \cup {}
      BY DEF PackRows
    <3>2. IsFiniteSet({x}) /\ IsFiniteSet({y}) /\ IsFiniteSet({})
      BY FS_Singleton, FS_EmptySet
    <3>3. IsFiniteSet({x} \cup {y}) /\ IsFiniteSet({x} \cup {})
      BY <3>2, FS_Union
    <3>. QED  BY <3>1, <3>3
  <2>4. \E new : /\ IsFiniteSet(new) /\ ledger' = ledger \cup new
                 /\ \A row \in new : Stored(row)
    <3>1. CASE ledger' = ledger
      <4>1. IsFiniteSet({}) /\ ledger' = ledger \cup {}
        BY <3>1, FS_EmptySet
      <4>. QED  BY <4>1
    <3>2. CASE ledger' = ledger \cup PackRows(b)
      BY <2>2, <2>3, <3>2
    <3>. QED  BY <1>2, <3>1, <3>2 DEF PostPurchase
  <2>5. /\ buyer' \in [Buyers -> Buying]
        /\ since' \in [Buyers -> Nat]
    BY <1>t, <1>2 DEF PostPurchase, Keeping, TypeOK
  <2>6. UNCHANGED <<month, told, reader, operator, crossed>>
    BY <1>2 DEF PostPurchase
  <2>. QED  BY <2>4, <2>5, <2>6, KeepingFrom DEF Keeping, TypeOK
<1>. QED  BY <1>1, <1>2

\* An operator grants credits or reverses an entry.
LEMMA KeepingOperator ==
    ASSUME Keeping, NEW o \in Operators, Operates(o)
    PROVE  Keeping'
<1>t. /\ operator \in [Operators -> Reversing(ledger)]
      /\ [at |-> "ended"] \in Reversing(ledger)
  BY DEF Keeping, Reversing
<1>1. CASE PostManual(o)
  <2>. DEFINE row == Row("grant", "manual", o, month, Gift)
  <2>1. Stored(row)
    BY LedgerAssumption DEF Stored, Row, Keeping, TypeOK
  <2>2. ledger' = ledger \cup {row} /\ IsFiniteSet({row})
    BY <1>1, FS_Singleton DEF PostManual
  <2>3. operator' \in [Operators -> Reversing(ledger)]
    BY <1>t, <1>1 DEF PostManual
  <2>4. UNCHANGED <<month, told, reader, buyer, since, crossed>>
    BY <1>1 DEF PostManual
  <2>. HIDE DEF row
  <2>. QED  BY <2>1, <2>2, <2>3, <2>4, KeepingFrom DEF Keeping, TypeOK
<1>2. ASSUME NEW e \in ledger, CheckReversal(o, e) PROVE Keeping'
  <2>1. IsFiniteSet({}) /\ ledger' = ledger \cup {}
    BY <1>2, FS_EmptySet DEF CheckReversal
  <2>2. [at |-> "checked", entry |-> e] \in Reversing(ledger)
    BY DEF Reversing
  <2>3. operator' \in [Operators -> Reversing(ledger)]
    BY <1>t, <1>2, <2>2 DEF CheckReversal
  <2>4. UNCHANGED <<month, told, reader, buyer, since, crossed>>
    BY <1>2 DEF CheckReversal
  <2>. QED  BY <2>1, <2>3, <2>4, KeepingFrom DEF Keeping, TypeOK
<1>3. CASE PostReversal(o)
  <2>. DEFINE e == operator[o].entry
              row == [type |-> "reversal", kind |-> e.kind, id |-> o,
                      period |-> e.period, credits |-> -e.credits, ref |-> e]
  <2>1. e \in ledger
    BY <1>t, <1>3 DEF PostReversal, Reversing, Idle
  <2>2. Stored(e)
    BY <2>1 DEF Keeping, TypeOK, Stored
  <2>. HIDE DEF e
  <2>3. Stored(row)
    BY <2>2 DEF Stored
  <2>4. ledger' = ledger \cup {row} /\ IsFiniteSet({row})
    BY <1>3, FS_Singleton DEF PostReversal, e
  <2>5. operator' \in [Operators -> Reversing(ledger)]
    BY <1>t, <1>3 DEF PostReversal
  <2>6. Floor(e.credits) \in Nat
    BY <2>2 DEF Floor, Stored
  <2>7. since' \in [Buyers -> Nat]
    BY <1>3, <2>6, SinceType DEF PostReversal, e
  <2>8. UNCHANGED <<month, told, reader, buyer, crossed>>
    BY <1>3 DEF PostReversal
  <2>. HIDE DEF row
  <2>. QED  BY <2>3, <2>4, <2>5, <2>7, <2>8, KeepingFrom DEF Keeping, TypeOK
<1>. QED  BY <1>1, <1>2, <1>3 DEF Operates

LEMMA KeepingStep == Keeping /\ [Next]_vars => Keeping'
<1>. SUFFICES ASSUME Keeping, [Next]_vars PROVE Keeping'
  OBVIOUS
<1>1. CASE NextMonth
  <2>1. month' \in Months
    BY <1>1, LedgerAssumption DEF NextMonth, Keeping, TypeOK, Months
  <2>2. IsFiniteSet({}) /\ ledger' = ledger \cup {}
    BY <1>1, FS_EmptySet DEF NextMonth
  <2>3. UNCHANGED <<told, reader, buyer, operator, since, crossed>>
    BY <1>1 DEF NextMonth
  <2>. QED  BY <2>1, <2>2, <2>3, KeepingFrom DEF Keeping, TypeOK
<1>2. ASSUME NEW p \in Plans, MovePlan(p) PROVE Keeping'
  <2>1. told' \subseteq Plans
    BY <1>2 DEF MovePlan, Keeping, TypeOK
  <2>3. IsFiniteSet({}) /\ ledger' = ledger \cup {}
    BY <1>2, FS_EmptySet DEF MovePlan
  <2>4. UNCHANGED <<month, reader, buyer, operator, since, crossed>>
    BY <1>2 DEF MovePlan
  <2>. QED  BY <2>1, <2>3, <2>4, KeepingFrom DEF Keeping, TypeOK
<1>3. CASE UNCHANGED vars
  BY <1>3 DEF vars, Keeping, TypeOK, Reversing
<1>. QED  BY <1>1, <1>2, <1>3, NextCases, KeepingReader, KeepingRequest, KeepingBuyer,
             KeepingOperator

\* A row has the sign of what it stands for, a reversal and a difference to an
\* earlier grant included; no row is about nothing, and none leaves the months
\* of the program.
THEOREM TypeCorrect == Spec => []TypeOK
<1>1. Keeping => TypeOK
  BY DEF Keeping
<1>. QED  BY <1>1, KeepingInit, KeepingStep, PTL DEF Spec

-----------------------------------------------------------------------------
(* The grants of a month *)

\* The grants of period p add up to the entitlement of the best plan granted.
BestPlan(p) ==
    \E m \in Granted(p) :
        /\ Total(Granted(p)) = Entitlement[m.id]
        /\ \A g \in Granted(p) : Entitlement[g.id] <= Entitlement[m.id]

\* What reader r is about to post is missing, unless its plan was granted meanwhile.
DeltaIsMissing(r) ==
    \/ \E g \in Granted(reader[r].period) : g.id = reader[r].plan
    \/ reader[r].delta = Entitlement[reader[r].plan] - Total(Granted(reader[r].period))

\* It is enough in any case.
DeltaIsEnough(r) ==
    reader[r].delta + Total(Granted(reader[r].period)) >= Entitlement[reader[r].plan]

GrantsName == \A p \in Months : \A g \in Granted(p) : g.id \in Plans

\* The grants of a month are no less than any plan granted in it.
NoneShort ==
    /\ \A p \in Months : \A g \in Granted(p) : Total(Granted(p)) >= Entitlement[g.id]
    /\ \A r \in Readers : reader[r].at = "summed" => DeltaIsEnough(r)

\* Readers of a month have the same plan in mind.
ReadersAgree ==
    \A r \in Readers : reader[r].at # "idle" =>
        /\ \A s \in Readers : /\ reader[s].at # "idle"
                              /\ reader[s].period = reader[r].period
                              => reader[s].plan = reader[r].plan
        /\ reader[r].at = "summed" => DeltaIsMissing(r)

\* The inductive invariant: as long as no two readers of a month were on their way
\* with different plans, what each is about to post is missing.
Granting ==
    /\ GrantsName
    /\ NoneShort
    /\ ~crossed => ReadersAgree /\ \A p \in Months : Granted(p) # {} => BestPlan(p)

LEMMA GrantingInit == Init => Granting
BY DEF Init, Granting, GrantsName, NoneShort, ReadersAgree, Granted, Idle

\* Steps that grant no month and move no reader.
LEMMA GrantingKept ==
    ASSUME Granting, \A p \in Months : Granted(p)' = Granted(p),
           \A r \in Readers : reader[r].at # "idle" => reader[r].period \in Months,
           UNCHANGED <<reader, crossed>>
    PROVE  Granting'
<1>1. GrantsName'
  BY DEF Granting, GrantsName
<1>n. NoneShort'
  <2>1. ASSUME NEW r \in Readers, reader[r].at = "summed"
        PROVE  DeltaIsEnough(r)'
    <3>1. DeltaIsEnough(r)
      BY <2>1 DEF Granting, NoneShort
    <3>2. Granted(reader[r].period)' = Granted(reader[r].period)
      BY <2>1
    <3>. QED  BY <3>1, <3>2 DEF DeltaIsEnough
  <2>. QED  BY <2>1 DEF Granting, NoneShort
<1>2. ASSUME ~crossed, NEW r \in Readers, reader[r].at = "summed"
      PROVE  DeltaIsMissing(r)'
  <2>1. DeltaIsMissing(r)
    BY <1>2 DEF Granting, ReadersAgree
  <2>2. Granted(reader[r].period)' = Granted(reader[r].period)
    BY <1>2
  <2>. QED  BY <2>1, <2>2 DEF DeltaIsMissing
<1>3. ASSUME ~crossed, NEW p \in Months, Granted(p) # {} PROVE BestPlan(p)'
  BY <1>3 DEF Granting, BestPlan
<1>4. ASSUME ~crossed PROVE ReadersAgree'
  BY <1>2, <1>4 DEF Granting, ReadersAgree
<1>. QED  BY <1>1, <1>n, <1>3, <1>4 DEF Granting

\* A row of another kind is no grant of a month.
LEMMA OtherRows ==
    ASSUME NEW new, ledger' = ledger \cup new,
           \A r \in new : ~(r.type = "grant" /\ r.kind = "monthly")
    PROVE  \A p : Granted(p)' = Granted(p)
BY DEF Granted

LEMMA ReadingType ==
    ASSUME Keeping, NEW r \in Readers, reader[r].at # "idle"
    PROVE  /\ reader[r].plan \in Plans
           /\ reader[r].period \in Months
           /\ reader[r].at = "summed" => reader[r].delta \in Nat \ {0}
BY DEF Keeping, Reading, Idle

LEMMA GrantedSum ==
    ASSUME Keeping, NEW p
    PROVE  IsFiniteSet(Granted(p)) /\ Summable(Granted(p)) /\ Total(Granted(p)) \in Int
<1>1. Granted(p) \subseteq ledger
  BY DEF Granted
<1>. QED  BY <1>1, KeepingSums, SummablePart DEF Summable

\* The difference is posted: the plan becomes the best one of the month.
LEMMA GrantingPost ==
    ASSUME Keeping, Granting, NEW r \in Readers, PostGrant(r)
    PROVE  Granting'
<1>0. PICK p, pl, row : /\ p = reader[r].period /\ pl = reader[r].plan
                        /\ row = Row("grant", "monthly", pl, p, reader[r].delta)
  OBVIOUS
<1>1. p \in Months /\ pl \in Plans /\ reader[r].delta \in Nat \ {0}
  BY <1>0, ReadingType DEF PostGrant
<1>2. /\ reader[r].at = "summed"
      /\ reader' = [reader EXCEPT ![r] = Idle]
      /\ UNCHANGED crossed
  BY DEF PostGrant
<1>i. reader'[r].at = "idle" /\ \A q \in Readers : q # r => reader'[q] = reader[q]
  BY <1>2 DEF Keeping, Idle
<1>3. CASE \E g \in Granted(p) : g.id = pl
  <2>1. ledger' = ledger
    BY <1>0, <1>3 DEF PostGrant
  <2>2. \A k : Granted(k)' = Granted(k)
    BY <2>1 DEF Granted
  <2>3. ASSUME ~crossed PROVE ReadersAgree'
    <3>1. ReadersAgree
      BY <2>3 DEF Granting
    <3>2. ASSUME NEW q \in Readers, q # r, DeltaIsMissing(q) PROVE DeltaIsMissing(q)'
      BY <1>i, <2>2, <3>2 DEF DeltaIsMissing
    <3>. QED  BY <1>2, <1>i, <3>1, <3>2 DEF ReadersAgree
  <2>4. NoneShort'
    <3>1. NoneShort
      BY DEF Granting
    <3>2. ASSUME NEW q \in Readers, q # r, DeltaIsEnough(q) PROVE DeltaIsEnough(q)'
      BY <1>i, <2>2, <3>2 DEF DeltaIsEnough
    <3>. QED  BY <1>i, <2>2, <3>1, <3>2 DEF NoneShort
  <2>. QED  BY <1>2, <2>2, <2>3, <2>4 DEF Granting, GrantsName, BestPlan
<1>4. CASE ~\E g \in Granted(p) : g.id = pl
  <2>1. ledger' = ledger \cup {row}
    BY <1>0, <1>4 DEF PostGrant
  <2>2. /\ row.type = "grant" /\ row.kind = "monthly" /\ row.id = pl
        /\ row.period = p /\ row.credits = reader[r].delta
    BY <1>0 DEF Row
  <2>3. /\ Granted(p)' = Granted(p) \cup {row}
        /\ \A k : k # p => Granted(k)' = Granted(k)
        /\ row \notin Granted(p)
    BY <1>4, <2>1, <2>2 DEF Granted
  <2>4. Total(Granted(p) \cup {row}) = Total(Granted(p)) + reader[r].delta
    <3>1. \A g \in Granted(p) \cup {row} : g.credits \in Int
      BY <1>1, <2>2, GrantedSum DEF Summable
    <3>. QED  BY <2>2, <2>3, <3>1, GrantedSum, TotalAdd
  <2>5. GrantsName'
    BY <1>1, <2>2, <2>3 DEF Granting, GrantsName
  <2>6. ASSUME ~crossed PROVE ReadersAgree'
    <3>1. ReadersAgree
      BY <2>6 DEF Granting
    <3>2. ASSUME NEW q \in Readers, q # r, reader[q].at = "summed"
          PROVE  DeltaIsMissing(q)'
      <4>1. DeltaIsMissing(q)
        BY <3>1, <3>2 DEF ReadersAgree
      <4>2. CASE reader[q].period = p
        <5>1. reader[q].plan = pl
          BY <1>0, <1>2, <3>1, <3>2, <4>2 DEF ReadersAgree
        <5>. QED  BY <1>i, <2>2, <2>3, <3>2, <4>2, <5>1 DEF DeltaIsMissing
      <4>3. CASE reader[q].period # p
        <5>1. PICK k : k = reader[q].period /\ k = reader'[q].period
          BY <1>i, <3>2
        <5>2. Granted(k)' = Granted(k)
          BY <2>3, <4>3, <5>1
        <5>. QED  BY <1>i, <3>2, <4>1, <5>1, <5>2 DEF DeltaIsMissing
      <4>. QED  BY <4>2, <4>3
    <3>. QED  BY <1>2, <1>i, <3>1, <3>2 DEF ReadersAgree
  <2>n. NoneShort'
    <3>1. NoneShort
      BY DEF Granting
    <3>2. PICK T, d, e : T = Total(Granted(p)) /\ d = reader[r].delta /\ e = Entitlement[pl]
      OBVIOUS
    <3>3. T \in Int /\ d \in Nat \ {0} /\ e \in Nat /\ d + T >= e
      BY <1>0, <1>1, <1>2, <3>1, <3>2, GrantedSum, LedgerAssumption DEF NoneShort, DeltaIsEnough
    <3>4. Total(Granted(p)') = T + d
      BY <2>3, <2>4, <3>2
    <3>5. ASSUME NEW k \in Months, NEW g \in Granted(k)'
          PROVE  Total(Granted(k)') >= Entitlement[g.id]
      <4>1. CASE k # p
        <5>1. Granted(k)' = Granted(k)
          BY <2>3, <4>1
        <5>. QED  BY <3>1, <3>5, <5>1 DEF NoneShort
      <4>2. CASE k = p /\ g = row
        <5>1. Total(Granted(k)') = T + d /\ Entitlement[g.id] = e
          BY <2>2, <3>2, <3>4, <4>2
        <5>. QED  BY <3>3, <5>1
      <4>3. CASE k = p /\ g \in Granted(p)
        <5>1. T >= Entitlement[g.id] /\ Entitlement[g.id] \in Nat
          BY <1>1, <3>1, <3>2, <4>3, LedgerAssumption DEF NoneShort, Granting, GrantsName
        <5>2. Total(Granted(k)') = T + d
          BY <3>4, <4>3
        <5>. QED  BY <3>3, <5>1, <5>2
      <4>. QED  BY <2>3, <3>5, <4>1, <4>2, <4>3
    <3>6. ASSUME NEW q \in Readers, reader'[q].at = "summed"
          PROVE  DeltaIsEnough(q)'
      <4>1. q # r /\ reader'[q] = reader[q]
        BY <1>i, <3>6
      <4>2. PICK k, dq, eq : /\ k = reader[q].period /\ dq = reader[q].delta
                             /\ eq = Entitlement[reader[q].plan]
        OBVIOUS
      <4>3. dq \in Nat /\ eq \in Nat /\ dq + Total(Granted(k)) >= eq
        BY <3>1, <3>6, <4>1, <4>2, ReadingType, LedgerAssumption DEF NoneShort, DeltaIsEnough
      <4>4. dq + Total(Granted(k)') >= eq
        <5>1. CASE k = p
          <6>1. Total(Granted(k)') = T + d /\ dq + T >= eq
            BY <3>2, <3>4, <4>3, <5>1
          <6>. QED  BY <3>3, <4>3, <6>1
        <5>2. CASE k # p
          BY <2>3, <4>3, <5>2
        <5>. QED  BY <5>1, <5>2
      <4>5. /\ reader'[q].period = k /\ reader'[q].delta = dq
            /\ Entitlement[reader'[q].plan] = eq
        BY <4>1, <4>2
      <4>. QED  BY <4>4, <4>5 DEF DeltaIsEnough
    <3>. QED  BY <3>5, <3>6 DEF NoneShort
  <2>7. ASSUME ~crossed, NEW k \in Months, Granted(k)' # {} PROVE BestPlan(k)'
    <3>1. CASE k # p
      BY <2>3, <2>7, <3>1 DEF Granting, BestPlan
    <3>2. CASE k = p
      <4>1. DeltaIsMissing(r)
        BY <1>2, <2>7 DEF Granting, ReadersAgree
      <4>2. reader[r].delta = Entitlement[pl] - Total(Granted(p))
        BY <1>0, <1>4, <4>1 DEF DeltaIsMissing
      <4>3. Entitlement[pl] \in Nat /\ Total(Granted(p)) \in Int
        BY <1>1, LedgerAssumption, GrantedSum
      <4>4. Total(Granted(p)') = Entitlement[pl]
        BY <1>1, <2>3, <2>4, <4>2, <4>3
      <4>5. \A g \in Granted(p) : Entitlement[g.id] <= Entitlement[pl]
        <5>1. SUFFICES ASSUME NEW h \in Granted(p) PROVE Entitlement[h.id] <= Entitlement[pl]
          OBVIOUS
        <5>2. BestPlan(p)
          BY <1>1, <2>7 DEF Granting
        <5>3. PICK m \in Granted(p) : /\ Total(Granted(p)) = Entitlement[m.id]
                                      /\ Entitlement[h.id] <= Entitlement[m.id]
          BY <5>2 DEF BestPlan
        <5>4. h.id \in Plans /\ m.id \in Plans
          BY <1>1 DEF Granting, GrantsName
        <5>5. Entitlement[h.id] \in Nat /\ Entitlement[m.id] \in Nat
          BY <5>4, LedgerAssumption
        <5>. QED  BY <1>1, <4>2, <4>3, <5>3, <5>5
      <4>6. row \in Granted(p)' /\ Entitlement[row.id] = Entitlement[pl]
        BY <2>2, <2>3
      <4>7. \A g \in Granted(p)' : Entitlement[g.id] <= Entitlement[pl]
        BY <2>2, <2>3, <4>3, <4>5
      <4>. QED  BY <3>2, <4>4, <4>6, <4>7 DEF BestPlan
    <3>. QED  BY <3>1, <3>2
  <2>. QED  BY <1>2, <2>5, <2>6, <2>n, <2>7 DEF Granting
<1>. QED  BY <1>3, <1>4

\* A reader looks: with the plan of all others on their way in the month, or they cross.
LEMMA GrantingLook ==
    ASSUME Keeping, Granting, NEW r \in Readers, NEW pl \in Plans, Look(r, pl)
    PROVE  Granting'
<1>1. /\ \A p : Granted(p)' = Granted(p)
      /\ reader'[r] = [at |-> "looked", plan |-> pl, period |-> month]
      /\ \A q \in Readers : q # r => reader'[q] = reader[q]
  BY DEF Look, Keeping, Granted
<1>2. GrantsName'
  BY <1>1 DEF Granting, GrantsName
<1>3. NoneShort'
  <2>1. ASSUME NEW q \in Readers, reader'[q].at = "summed" PROVE DeltaIsEnough(q)'
    <3>1. q # r /\ reader'[q] = reader[q]
      BY <1>1, <2>1
    <3>2. DeltaIsEnough(q)
      BY <2>1, <3>1 DEF Granting, NoneShort
    <3>3. PICK p : p = reader[q].period /\ p = reader'[q].period /\ Granted(p)' = Granted(p)
      BY <1>1, <3>1
    <3>. QED  BY <3>1, <3>2, <3>3 DEF DeltaIsEnough
  <2>. QED  BY <1>1, <2>1 DEF Granting, NoneShort
<1>4. ASSUME ~crossed'
      PROVE  ReadersAgree' /\ \A p \in Months : Granted(p)' # {} => BestPlan(p)'
  <2>1. /\ ReadersAgree
        /\ \A p \in Months : Granted(p) # {} => BestPlan(p)
        /\ \A q \in Readers : reader[q].at # "idle" /\ reader[q].period = month
                                  => reader[q].plan = pl
    BY <1>4 DEF Granting, Look
  <2>2. ASSUME NEW q \in Readers, reader'[q].at = "summed" PROVE DeltaIsMissing(q)'
    <3>1. q # r /\ reader'[q] = reader[q]
      BY <1>1, <2>2
    <3>2. DeltaIsMissing(q)
      BY <2>1, <2>2, <3>1 DEF ReadersAgree
    <3>3. PICK p : p = reader[q].period /\ p = reader'[q].period /\ Granted(p)' = Granted(p)
      BY <1>1, <3>1
    <3>. QED  BY <3>1, <3>2, <3>3 DEF DeltaIsMissing
  <2>3. ASSUME NEW q \in Readers, NEW s \in Readers, reader'[q].at # "idle",
               reader'[s].at # "idle", reader'[s].period = reader'[q].period
        PROVE  reader'[s].plan = reader'[q].plan
    <3>1. /\ reader'[r].plan = pl /\ reader'[r].period = month
      BY <1>1
    <3>2. CASE q = r /\ s # r
      BY <1>1, <2>1, <2>3, <3>1, <3>2
    <3>3. CASE q # r /\ s = r
      BY <1>1, <2>1, <2>3, <3>1, <3>3
    <3>4. CASE q # r /\ s # r
      BY <1>1, <2>1, <2>3, <3>4 DEF ReadersAgree
    <3>. QED  BY <3>2, <3>3, <3>4
  <2>4. ReadersAgree'
    BY <2>2, <2>3 DEF ReadersAgree
  <2>. QED  BY <1>1, <2>1, <2>4 DEF BestPlan
<1>. QED  BY <1>2, <1>3, <1>4 DEF Granting

\* A reader sums what was granted.
LEMMA GrantingSum ==
    ASSUME Keeping, Granting, NEW r \in Readers, SumGrants(r)
    PROVE  Granting'
<1>1. PICK pl, k, delta : /\ pl = reader[r].plan /\ k = reader[r].period
                          /\ delta = Entitlement[pl] - Total(Granted(k))
  OBVIOUS
<1>2. /\ reader[r].at = "looked"
      /\ reader'[r] = IF delta <= 0 THEN Idle
                      ELSE [at |-> "summed", plan |-> pl, period |-> k, delta |-> delta]
      /\ \A q \in Readers : q # r => reader'[q] = reader[q]
      /\ \A p : Granted(p)' = Granted(p)
      /\ crossed' = crossed
  BY <1>1 DEF SumGrants, Keeping, Granted
<1>3. reader'[r].at # "idle" =>
          /\ reader'[r].plan = reader[r].plan
          /\ reader'[r].period = reader[r].period
          /\ reader'[r].delta = delta
  <2>1. CASE delta <= 0
    BY <1>2, <2>1 DEF Idle
  <2>2. CASE ~(delta <= 0)
    <3>1. reader'[r] = [at |-> "summed", plan |-> pl, period |-> k, delta |-> delta]
      BY <1>2, <2>2
    <3>2. reader'[r].plan = pl /\ reader'[r].period = k /\ reader'[r].delta = delta
      BY <3>1
    <3>. QED  BY <1>1, <3>2
  <2>. QED  BY <2>1, <2>2
<1>4. GrantsName'
  BY <1>2 DEF Granting, GrantsName
<1>5. ASSUME reader'[r].at = "summed"
      PROVE  DeltaIsMissing(r)' /\ DeltaIsEnough(r)'
  <2>1. /\ reader'[r].plan = pl /\ reader'[r].period = k /\ reader'[r].delta = delta
    BY <1>1, <1>3, <1>5
  <2>2. Granted(k)' = Granted(k) /\ Total(Granted(k)) \in Int /\ Entitlement[pl] \in Nat
    BY <1>1, <1>2, GrantedSum, ReadingType, LedgerAssumption
  <2>3. PICK T, e : T = Total(Granted(k)) /\ e = Entitlement[pl]
    OBVIOUS
  <2>4. delta = e - T /\ delta + T >= e
    BY <1>1, <2>2, <2>3
  <2>5. Total(Granted(k)') = T
    BY <2>2, <2>3
  <2>. QED  BY <2>1, <2>3, <2>4, <2>5 DEF DeltaIsMissing, DeltaIsEnough
<1>6. NoneShort'
  <2>1. ASSUME NEW q \in Readers, q # r, reader'[q].at = "summed" PROVE DeltaIsEnough(q)'
    <3>1. reader'[q] = reader[q] /\ DeltaIsEnough(q)
      BY <1>2, <2>1 DEF Granting, NoneShort
    <3>2. PICK p : p = reader[q].period /\ p = reader'[q].period /\ Granted(p)' = Granted(p)
      BY <1>2, <3>1
    <3>. QED  BY <3>1, <3>2 DEF DeltaIsEnough
  <2>. QED  BY <1>2, <1>5, <2>1 DEF Granting, NoneShort
<1>7. ASSUME ~crossed PROVE ReadersAgree'
  <2>1. ReadersAgree
    BY <1>7 DEF Granting
  <2>2. \A q \in Readers : reader'[q].at # "idle" =>
            /\ reader[q].at # "idle"
            /\ reader'[q].plan = reader[q].plan /\ reader'[q].period = reader[q].period
    BY <1>2, <1>3
  <2>3. ASSUME NEW q \in Readers, q # r, reader'[q].at = "summed" PROVE DeltaIsMissing(q)'
    <3>1. reader'[q] = reader[q] /\ DeltaIsMissing(q)
      BY <1>2, <2>1, <2>3 DEF ReadersAgree
    <3>2. PICK p : p = reader[q].period /\ p = reader'[q].period /\ Granted(p)' = Granted(p)
      BY <1>2, <3>1
    <3>. QED  BY <3>1, <3>2 DEF DeltaIsMissing
  <2>. QED  BY <1>5, <2>1, <2>2, <2>3 DEF ReadersAgree
<1>8. ~crossed => \A p \in Months : Granted(p)' # {} => BestPlan(p)'
  BY <1>2 DEF Granting, BestPlan
<1>. QED  BY <1>2, <1>4, <1>6, <1>7, <1>8 DEF Granting

\* Charges, packs, manual credits and reversals.
LEMMA GrantingOther ==
    ASSUME Keeping, Granting,
           \/ Charges
           \/ \E b \in Buyers : Asks(b) \/ PostPurchase(b)
           \/ \E o \in Operators : Operates(o)
           \/ NextMonth
           \/ \E p \in Plans : MovePlan(p)
           \/ UNCHANGED vars
    PROVE  Granting'
<1>1. \E new : /\ ledger' = ledger \cup new
               /\ \A x \in new : x.type # "grant" \/ x.kind # "monthly"
  <2>1. CASE ledger' = ledger
    <3>1. PICK new : new = {}
      OBVIOUS
    <3>. QED  BY <2>1, <3>1
  <2>2. ASSUME NEW row, ledger' = ledger \cup {row}, row.type # "grant" \/ row.kind # "monthly"
        PROVE  \E new : /\ ledger' = ledger \cup new
                        /\ \A x \in new : x.type # "grant" \/ x.kind # "monthly"
    <3>1. PICK new : new = {row}
      OBVIOUS
    <3>. QED  BY <2>2, <3>1
  <2>3. CASE Charges
    <3>1. PICK q \in Requests, period \in Months, cost \in Costs : PostCharge(q, period, cost)
      BY <2>3 DEF Charges
    <3>2. Row("charge", "none", q, period, -cost).type = "charge"
      BY DEF Row
    <3>. QED  BY <2>2, <3>1, <3>2 DEF PostCharge
  <2>4. ASSUME NEW b \in Buyers, PostPurchase(b), ledger' # ledger
        PROVE  \E new : /\ ledger' = ledger \cup new
                        /\ \A x \in new : x.type # "grant" \/ x.kind # "monthly"
    <3>1. ledger' = ledger \cup PackRows(b)
      BY <2>4 DEF PostPurchase
    <3>2. \A row \in PackRows(b) : row.kind # "monthly"
      BY DEF PackRows, Row
    <3>. QED  BY <3>1, <3>2
  <2>5. ASSUME NEW o \in Operators, PostManual(o)
        PROVE  \E new : /\ ledger' = ledger \cup new
                        /\ \A x \in new : x.type # "grant" \/ x.kind # "monthly"
    <3>1. Row("grant", "manual", o, month, Gift).kind = "manual"
      BY DEF Row
    <3>. QED  BY <2>2, <2>5, <3>1 DEF PostManual
  <2>6. ASSUME NEW o \in Operators, PostReversal(o)
        PROVE  \E new : /\ ledger' = ledger \cup new
                        /\ \A x \in new : x.type # "grant" \/ x.kind # "monthly"
    <3>1. PICK row : /\ ledger' = ledger \cup {row}
                     /\ row = [type |-> "reversal", kind |-> operator[o].entry.kind, id |-> o,
                               period |-> operator[o].entry.period,
                               credits |-> -operator[o].entry.credits,
                               ref |-> operator[o].entry]
      BY <2>6 DEF PostReversal
    <3>2. row.type = "reversal"
      BY <3>1
    <3>. QED  BY <2>2, <3>1, <3>2
  <2>7. ASSUME \/ \E b \in Buyers : Asks(b)
               \/ \E o \in Operators : \E e \in ledger : CheckReversal(o, e)
               \/ NextMonth \/ (\E p \in Plans : MovePlan(p)) \/ UNCHANGED vars
        PROVE  ledger' = ledger
    BY <2>7 DEF Asks, CountBought, DateBought, ReadDebt, CheckReversal, NextMonth, MovePlan, vars
  <2>. QED  BY <2>1, <2>3, <2>4, <2>5, <2>6, <2>7 DEF Operates
<1>2. \A p : Granted(p)' = Granted(p)
  <2>1. PICK new : /\ ledger' = ledger \cup new
                   /\ \A row \in new : row.type # "grant" \/ row.kind # "monthly"
    BY <1>1
  <2>. QED  BY <2>1, OtherRows
<1>3. UNCHANGED <<reader, crossed>>
  BY DEF Charges, PostCharge, Asks, CountBought, DateBought, ReadDebt, PostPurchase, Operates,
     PostManual, CheckReversal, PostReversal, NextMonth, MovePlan, vars
<1>. QED  BY <1>2, <1>3, GrantingKept, ReadingType

LEMMA GrantingStep == Keeping /\ Granting /\ [Next]_vars => Granting'
BY NextCases, GrantingLook, GrantingSum, GrantingPost, GrantingOther DEF Reads

\* The largest of the entitlements is that of a grant, and the grants are no less.
LEMMA NoneIsShort ==
    ASSUME Keeping, GrantsName, NoneShort, NEW p \in Months, Granted(p) # {}
    PROVE  Total(Granted(p)) >= Max({Entitlement[g.id] : g \in Granted(p)})
<1>. DEFINE G == Granted(p)
            above(g) == {h \in G : Entitlement[h.id] >= Entitlement[g.id]}
            C == {above(g) : g \in G}
            S == {Entitlement[g.id] : g \in G}
<1>1. \A g \in G : Entitlement[g.id] \in Nat
  BY LedgerAssumption DEF GrantsName
<1>2. PICK T \in C : \A U \in C : U \subseteq T => U = T
  <2>1. C \subseteq SUBSET G /\ C # {} /\ IsFiniteSet(G)
    BY GrantedSum
  <2>. HIDE DEF C, G
  <2>. QED  BY <2>1, MinimalSubset
<1>3. PICK m \in G : T = above(m)
  OBVIOUS
<1>4. \A g \in G : Entitlement[m.id] >= Entitlement[g.id]
  <2>1. SUFFICES ASSUME NEW g \in G, ~(Entitlement[m.id] >= Entitlement[g.id]) PROVE FALSE
    OBVIOUS
  <2>2. above(g) \subseteq above(m) /\ m \in above(m) /\ m \notin above(g)
    BY <1>1, <2>1
  <2>. QED  BY <1>2, <1>3, <2>2
<1>5. Entitlement[m.id] \in S /\ \A n \in S : Entitlement[m.id] >= n
  BY <1>4
<1>6. \A n \in S : Total(G) >= n
  BY DEF NoneShort
<1>. HIDE DEF S
<1>7. Max(S) \in S
  BY <1>5 DEF Max
<1>. QED  BY <1>6, <1>7 DEF S

LEMMA BestIsMax ==
    ASSUME Keeping, GrantsName, NEW p \in Months, BestPlan(p)
    PROVE  Total(Granted(p)) = Max({Entitlement[g.id] : g \in Granted(p)})
<1>. DEFINE S == {Entitlement[g.id] : g \in Granted(p)}
<1>1. S \subseteq Nat
  BY LedgerAssumption DEF GrantsName
<1>2. PICK n \in S : n = Total(Granted(p)) /\ \A k \in S : n >= k
  <2>1. PICK m \in Granted(p) :
           /\ Total(Granted(p)) = Entitlement[m.id]
           /\ \A g \in Granted(p) : Entitlement[g.id] <= Entitlement[m.id]
    BY DEF BestPlan
  <2>2. \A g \in Granted(p) : Entitlement[g.id] \in Nat
    BY <1>1
  <2>. QED  BY <2>1, <2>2
<1>. HIDE DEF S
<1>3. Max(S) \in S /\ \A k \in S : Max(S) >= k
  BY <1>2 DEF Max
<1>4. Max(S) = n
  <2>1. PICK k : k = Max(S)
    OBVIOUS
  <2>2. k \in Nat /\ n \in Nat /\ n >= k /\ k >= n
    BY <1>1, <1>2, <1>3, <2>1
  <2>. QED  BY <2>1, <2>2
<1>. QED  BY <1>2, <1>4 DEF S

\* The grants of a month are no less than the best plan granted in it, and no more
\* unless two reads of the month with different plans overlapped, however reads race
\* for them and however old the plans they hold, for any plans and any number of readers.
THEOREM MonthlyGrantIsTheBestPlan == Spec => []MonthlyGrantFitsPlan
<1>1. Keeping /\ Granting => MonthlyGrantFitsPlan
  BY BestIsMax, NoneIsShort DEF Granting, MonthlyGrantFitsPlan
<1>2. Init => Keeping /\ Granting
  BY KeepingInit, GrantingInit
<1>3. Keeping /\ Granting /\ [Next]_vars => (Keeping /\ Granting)'
  BY KeepingStep, GrantingStep
<1>. QED  BY <1>1, <1>2, <1>3, PTL DEF Spec

-----------------------------------------------------------------------------
(* The buckets, when a row comes in *)

LEMMA PoolAdd ==
    ASSUME NEW rows, Summable(rows), NEW row, row \notin rows, row.credits \in Int,
           row.kind # "purchased", NEW p
    PROVE  Pool(rows \cup {row}, p)
               = IF row.period = p THEN Pool(rows, p) + row.credits ELSE Pool(rows, p)
<1>. DEFINE part(s) == {r \in s : r.period = p /\ r.kind # "purchased"}
<1>1. CASE row.period = p
  <2>1. part(rows \cup {row}) = part(rows) \cup {row} /\ row \notin part(rows)
    BY <1>1
  <2>2. /\ IsFiniteSet(part(rows))
        /\ \A r \in part(rows) \cup {row} : r.credits \in Int
    <3>1. part(rows) \subseteq rows
      OBVIOUS
    <3>. HIDE DEF part
    <3>. QED  BY <3>1, SummablePart DEF Summable
  <2>3. Total(part(rows) \cup {row}) = Total(part(rows)) + row.credits
    <3>. HIDE DEF part
    <3>. QED  BY <2>1, <2>2, TotalAdd
  <2>. QED  BY <1>1, <2>1, <2>3 DEF Pool
<1>2. CASE row.period # p
  <2>1. part(rows \cup {row}) = part(rows)
    BY <1>2
  <2>. QED  BY <1>2, <2>1 DEF Pool
<1>. QED  BY <1>1, <1>2

\* The overspend changes with that of one period.
LEMMA OverspendChange ==
    ASSUME NEW rows, Summable(rows), NEW more, Summable(more), NEW p \in Months,
           \A q \in Months : q # p => Pool(more, q) = Pool(rows, q), NEW first
    PROVE  OverspendFrom(more, first)
               = IF p >= first
                 THEN OverspendFrom(rows, first) + Overspent(more, p) - Overspent(rows, p)
                 ELSE OverspendFrom(rows, first)
<1>. DEFINE S == From(first)
            f == Overspends(rows)
            g == Overspends(more)
<1>1. /\ OverspendFrom(rows, first) = SumOf(f, S)
      /\ OverspendFrom(more, first) = SumOf(g, S)
  BY OverspendIsSum
<1>2. IsFiniteSet(S) /\ IsFiniteSet(S \ {p})
  BY MonthsFinite, FS_RemoveElement
<1>3. \A q \in Months : /\ f[q] = Overspent(rows, q) /\ f[q] \in Int
                        /\ g[q] = Overspent(more, q) /\ g[q] \in Int
  BY BucketTypes DEF Overspends
<1>4. \A q \in Months : q # p => f[q] = g[q]
  BY DEF Overspends, Overspent
<1>5. S \subseteq Months
  BY DEF From
<1>6. SumOf(f, S \ {p}) = SumOf(g, S \ {p})
  <2>1. \A q \in S \ {p} : f[q] = g[q]
    BY <1>4, <1>5
  <2>. HIDE DEF f, g, S
  <2>. QED  BY <1>2, <2>1, SumOfAgree
<1>7. CASE p >= first
  <2>1. p \in S
    BY <1>7 DEF From
  <2>. HIDE DEF f, g, S
  <2>2. /\ SumOf(f, S) = f[p] + SumOf(f, S \ {p})
        /\ SumOf(g, S) = g[p] + SumOf(g, S \ {p})
    BY <1>2, <1>3, <1>5, <2>1, SumOfRemove
  <2>3. SumOf(f, S \ {p}) \in Int
    BY <1>2, <1>3, <1>5, SumOfType
  <2>4. f[p] = Overspent(rows, p) /\ g[p] = Overspent(more, p) /\ f[p] \in Int /\ g[p] \in Int
    BY <1>3
  <2>5. SumOf(g, S) = SumOf(f, S) + g[p] - f[p]
    BY <1>6, <2>2, <2>3, <2>4
  <2>. QED  BY <1>1, <1>7, <2>4, <2>5
<1>8. CASE ~(p >= first)
  <2>1. S \ {p} = S
    BY <1>8 DEF From
  <2>. HIDE DEF f, g, S
  <2>. QED  BY <1>1, <1>6, <1>8, <2>1
<1>. QED  BY <1>7, <1>8

\* A charge is taken from the allowance first, then from the packs.
LEMMA ChargeSpends ==
    ASSUME NEW rows, Summable(rows), NEW row, row \notin rows, row.type = "charge",
           row.kind = "none", row.period \in Months, row.credits \in Int, row.credits < 0
    PROVE  /\ Pool(rows \cup {row}, row.period) >= 0
                  => Purchased(rows \cup {row}) = Purchased(rows)
           /\ \A m : Balance(rows \cup {row}, m) >= Balance(rows, m) + row.credits
<1>1. PICK more, p, c : more = rows \cup {row} /\ p = row.period /\ c = row.credits
  OBVIOUS
<1>s. Summable(more) /\ p \in Months /\ c \in Int /\ c < 0
  BY <1>1, FS_AddElement DEF Summable
<1>2. \A q : Pool(more, q) = IF p = q THEN Pool(rows, q) + c ELSE Pool(rows, q)
  BY <1>1, PoolAdd
<1>t. \A q : Pool(rows, q) \in Int /\ Pool(more, q) \in Int
  BY <1>s, BucketTypes
<1>3. Bought(more) = Bought(rows) /\ FirstPeriod(more) = FirstPeriod(rows)
  BY <1>1 DEF Bought, FirstPeriod
<1>4. PICK B, O, P, first : /\ B = Total(Bought(rows)) /\ first = FirstPeriod(rows)
                            /\ O = OverspendFrom(rows, first)
                            /\ P = OverspendFrom(more, first)
  OBVIOUS
<1>5. B \in Int /\ O \in Int /\ P \in Int
  BY <1>4, <1>s, BucketTypes
<1>6. /\ Purchased(rows) = IF B <= 0 THEN 0 ELSE Floor(B - O)
      /\ Purchased(more) = IF B <= 0 THEN 0 ELSE Floor(B - P)
  BY <1>3, <1>4 DEF Purchased
<1>7. P = IF p >= first THEN O + Overspent(more, p) - Overspent(rows, p) ELSE O
  BY <1>2, <1>4, <1>s, OverspendChange
<1>8. PICK a, b : a = Pool(rows, p) /\ b = Pool(more, p)
  OBVIOUS
<1>9. /\ a \in Int /\ b = a + c
      /\ Overspent(rows, p) = IF a < 0 THEN -a ELSE 0
      /\ Overspent(more, p) = IF b < 0 THEN -b ELSE 0
  BY <1>2, <1>8, <1>t DEF Overspent
<1>10. /\ O <= P /\ P <= O - c
       /\ b >= 0 => P = O
       /\ Floor(b) - P >= Floor(a) - O + c
  BY <1>5, <1>7, <1>9, <1>s DEF Floor
<1>11. Purchased(more) >= Purchased(rows) - (P - O)
  BY <1>5, <1>6, <1>10 DEF Floor
<1>12. b >= 0 => Purchased(more) = Purchased(rows)
  BY <1>6, <1>10
<1>13. ASSUME NEW m PROVE Balance(more, m) >= Balance(rows, m) + c
  <2>1. Purchased(more) \in Int /\ Purchased(rows) \in Int
    BY <1>s, BucketTypes
  <2>2. CASE m = p
    <3>1. /\ Balance(more, m) = Floor(b) + Purchased(more)
          /\ Balance(rows, m) = Floor(a) + Purchased(rows)
      BY <1>8, <2>2 DEF Balance
    <3>2. Floor(a) \in Int /\ Floor(b) \in Int
      BY <1>9, <1>s DEF Floor
    <3>. QED  BY <1>5, <1>10, <1>11, <2>1, <3>1, <3>2, <1>s
  <2>3. CASE m # p
    <3>1. Pool(more, m) = Pool(rows, m)
      BY <1>2, <2>3
    <3>2. Floor(Pool(rows, m)) \in Int
      BY <1>t DEF Floor
    <3>. QED  BY <1>5, <1>10, <1>11, <1>s, <2>1, <3>1, <3>2 DEF Balance
  <2>. QED  BY <2>2, <2>3
<1>. QED  BY <1>1, <1>8, <1>12, <1>13

\* Only post_charge stores a charge.
LEMMA ChargeStep ==
    ASSUME Keeping, [Next]_vars, NEW row \in ledger' \ ledger, row.type = "charge"
    PROVE  /\ ledger' = ledger \cup {row} /\ row \notin ledger
           /\ row.kind = "none" /\ row.period \in Months
           /\ row.credits \in Int /\ row.credits < 0
           /\ month' = month
<1>1. Charges
  <2>1. ASSUME NEW r \in Readers, Reads(r) PROVE FALSE
    BY <2>1 DEF Reads, Look, SumGrants, PostGrant, Row
  <2>2. ASSUME NEW b \in Buyers, Asks(b) \/ PostPurchase(b)
        PROVE  FALSE
    BY <2>2 DEF Asks, CountBought, DateBought, ReadDebt, PostPurchase, PackRows, Row
  <2>3. ASSUME NEW o \in Operators, Operates(o)
        PROVE  FALSE
    BY <2>3 DEF Operates, PostManual, CheckReversal, PostReversal, Row
  <2>4. ASSUME NextMonth \/ (\E p \in Plans : MovePlan(p)) \/ UNCHANGED vars
        PROVE  FALSE
    BY <2>4 DEF NextMonth, MovePlan, vars
  <2>. QED  BY <2>1, <2>2, <2>3, <2>4, NextCases
<1>2. PICK q \in Requests, period \in Months, cost \in Costs : PostCharge(q, period, cost)
  BY <1>1 DEF Charges
<1>3. ledger' = ledger \cup {Row("charge", "none", q, period, -cost)} /\ month' = month
  BY <1>2 DEF PostCharge
<1>4. row = Row("charge", "none", q, period, -cost)
  BY <1>3
<1>5. cost \in Nat \ {0}
  BY LedgerAssumption
<1>. QED  BY <1>3, <1>4, <1>5 DEF Row

\* A charge takes the allowance of its month before the purchased credits and
\* costs the user no more than its amount.
THEOREM AllowanceGoesFirst == Spec => MonthlyFirst
<1>1. Keeping /\ [Next]_vars => [SpendsMonthlyFirst]_vars
  <2>. SUFFICES ASSUME Keeping, [Next]_vars, NEW row \in ledger' \ ledger,
                       row.type = "charge"
                PROVE  /\ Pool(ledger', row.period) >= 0
                              => Purchased(ledger') = Purchased(ledger)
                       /\ Balance(ledger', month) >= Balance(ledger, month) + row.credits
    BY DEF SpendsMonthlyFirst
  <2>. QED  BY ChargeStep, ChargeSpends, KeepingSums
<1>. QED  BY <1>1, KeepingInit, KeepingStep, PTL DEF Spec, MonthlyFirst


-----------------------------------------------------------------------------
(* The overspend of some months *)

LEMMA OverspendTypes ==
    ASSUME NEW rows, Summable(rows)
    PROVE  /\ \A first : OverspendFrom(rows, first) \in Nat
           /\ \A q \in Months : /\ Overspends(rows)[q] = Overspent(rows, q)
                                /\ Overspends(rows)[q] \in Nat
<1>1. \A q \in Months : Overspends(rows)[q] = Overspent(rows, q) /\ Overspends(rows)[q] \in Nat
  BY BucketTypes DEF Overspends
<1>2. ASSUME NEW first PROVE OverspendFrom(rows, first) \in Nat
  <2>1. \A q \in From(first) : Overspends(rows)[q] \in Nat
    BY <1>1 DEF From
  <2>. QED  BY <2>1, MonthsFinite, OverspendIsSum, SumOfNaturals
<1>. QED  BY <1>1, <1>2

\* The month p, and what came after it.
LEMMA OverspendFirst ==
    ASSUME NEW rows, Summable(rows), NEW p \in Months
    PROVE  OverspendFrom(rows, p) = Overspent(rows, p) + OverspendFrom(rows, p + 1)
<1>. DEFINE f == Overspends(rows)
<1>1. p \in From(p) /\ From(p) \ {p} = From(p + 1)
  BY LedgerAssumption DEF From, Months
<1>2. \A q \in From(p) : f[q] \in Int
  BY OverspendTypes DEF From
<1>3. SumOf(f, From(p)) = f[p] + SumOf(f, From(p) \ {p})
  <2>. HIDE DEF f
  <2>. QED  BY <1>1, <1>2, MonthsFinite, SumOfRemove
<1>. QED  BY <1>1, <1>3, OverspendIsSum, OverspendTypes

\* Rows of the months before p owe nothing from p on.
LEMMA OverspendNone ==
    ASSUME NEW rows, Summable(rows), NEW p,
           \A r \in rows : r.kind # "purchased" => ~(r.period >= p)
    PROVE  OverspendFrom(rows, p) = 0
<1>1. ASSUME NEW q \in From(p) PROVE Overspends(rows)[q] = 0
  <2>1. {r \in rows : r.period = q /\ r.kind # "purchased"} = {}
    BY DEF From
  <2>2. Pool(rows, q) = 0
    BY <2>1, TotalEmpty DEF Pool
  <2>. QED  BY <2>2 DEF Overspends, Overspent, From
<1>. QED  BY <1>1, MonthsFinite, OverspendIsSum, SumOfNothing

\* What is owed is owed by the months before p, or from p on.
LEMMA OverspendSplit ==
    ASSUME NEW rows, Summable(rows), NEW first \in Months, NEW p \in Months, first <= p,
           NEW part, part \subseteq rows,
           \A r \in rows : r.kind # "purchased" => (r \in part <=> r.period < p),
           \A r \in rows : r.period \in Months
    PROVE  OverspendFrom(rows, first) = OverspendFrom(part, first) + OverspendFrom(rows, p)
<1>. DEFINE f == Overspends(rows)
            g == Overspends(part)
            below == {q \in Months : q >= first /\ q < p}
<1>1. Months \subseteq Nat
  BY DEF Months
<1>2. Summable(part)
  BY SummablePart
<1>3. /\ From(first) = below \cup From(p) /\ below \cap From(p) = {}
      /\ IsFiniteSet(below) /\ IsFiniteSet(From(p))
  <2>1. From(first) = below \cup From(p) /\ below \cap From(p) = {}
    <3>1. \A q \in Months : q >= first <=> (q >= first /\ q < p) \/ q >= p
      BY <1>1
    <3>2. \A q \in Months : ~(q < p /\ q >= p)
      BY <1>1
    <3>. QED  BY <3>1, <3>2 DEF From
  <2>2. below \subseteq Months
    OBVIOUS
  <2>. HIDE DEF below
  <2>. QED  BY <2>1, <2>2, MonthsFinite, FS_Subset
<1>4. \A q \in Months : f[q] \in Int /\ g[q] \in Int
  BY <1>2, OverspendTypes
<1>5. \A q \in below : f[q] = g[q]
  <2>. SUFFICES ASSUME NEW q \in below PROVE Pool(rows, q) = Pool(part, q)
    BY DEF Overspends, Overspent
  <2>1. {r \in rows : r.period = q /\ r.kind # "purchased"}
            = {r \in part : r.period = q /\ r.kind # "purchased"}
    OBVIOUS
  <2>. QED  BY <2>1 DEF Pool
<1>6. \A q \in From(p) : g[q] = 0
  <2>. SUFFICES ASSUME NEW q \in From(p) PROVE Pool(part, q) = 0
    BY DEF Overspends, Overspent, From
  <2>1. {r \in part : r.period = q /\ r.kind # "purchased"} = {}
    BY <1>1 DEF From
  <2>. QED  BY <2>1, TotalEmpty DEF Pool
<1>7. below \subseteq Months /\ From(p) \subseteq Months
  BY DEF From
<1>. HIDE DEF f, g, below
<1>8. /\ SumOf(f, From(first)) = SumOf(f, below) + SumOf(f, From(p))
      /\ SumOf(g, From(first)) = SumOf(g, below) + SumOf(g, From(p))
  BY <1>3, <1>4, <1>7, SumOfUnion
<1>9. SumOf(f, below) = SumOf(g, below) /\ SumOf(g, From(p)) = 0
  BY <1>3, <1>5, <1>6, SumOfAgree, SumOfNothing
<1>10. SumOf(g, below) \in Int /\ SumOf(f, From(p)) \in Int
  BY <1>3, <1>4, <1>7, SumOfType
<1>. QED  BY <1>8, <1>9, <1>10, OverspendIsSum DEF f, g

\* A row adds to what is owed no more than it takes.
LEMMA OverspendGrows ==
    ASSUME NEW rows, Summable(rows), NEW row, row.credits \in Int, row.period \in Months,
           NEW first
    PROVE  /\ Summable(rows \cup {row})
           /\ OverspendFrom(rows \cup {row}, first)
                 <= OverspendFrom(rows, first) + Floor(-row.credits)
<1>1. PICK more, p, c : more = rows \cup {row} /\ p = row.period /\ c = row.credits
  OBVIOUS
<1>2. Summable(more)
  BY <1>1, FS_AddElement DEF Summable
<1>3. /\ OverspendFrom(rows, first) \in Nat /\ Floor(-c) \in Nat /\ c \in Int /\ p \in Months
      /\ Overspent(rows, p) \in Nat /\ Pool(rows, p) \in Int
  BY <1>1, BucketTypes, OverspendTypes DEF Floor
<1>4. CASE row \in rows
  <2>1. more = rows
    BY <1>1, <1>4
  <2>2. OverspendFrom(more, first) = OverspendFrom(rows, first)
    BY <2>1
  <2>3. OverspendFrom(more, first) <= OverspendFrom(rows, first) + Floor(-c)
    BY <1>3, <2>2
  <2>. QED  BY <1>1, <1>2, <2>3
<1>5. CASE row \notin rows
  <2>1. /\ \A q \in Months : q # p => Pool(more, q) = Pool(rows, q)
        /\ Pool(more, p) \in {Pool(rows, p), Pool(rows, p) + c}
    <3>1. CASE row.kind # "purchased"
      BY <1>1, <1>5, <3>1, PoolAdd
    <3>2. CASE row.kind = "purchased"
      <4>1. ASSUME NEW q PROVE Pool(more, q) = Pool(rows, q)
        <5>1. {r \in more : r.period = q /\ r.kind # "purchased"}
                 = {r \in rows : r.period = q /\ r.kind # "purchased"}
          BY <1>1, <3>2
        <5>. QED  BY <5>1 DEF Pool
      <4>. QED  BY <4>1
    <3>. QED  BY <3>1, <3>2
  <2>2. OverspendFrom(more, first)
           = IF p >= first
             THEN OverspendFrom(rows, first) + Overspent(more, p) - Overspent(rows, p)
             ELSE OverspendFrom(rows, first)
    BY <1>2, <1>3, <2>1, OverspendChange
  <2>3. Overspent(more, p) \in Nat /\ Overspent(more, p) <= Overspent(rows, p) + Floor(-c)
    BY <1>3, <2>1 DEF Overspent, Floor
  <2>4. OverspendFrom(more, first) <= OverspendFrom(rows, first) + Floor(-c)
    BY <1>3, <2>2, <2>3
  <2>. QED  BY <1>1, <1>2, <2>4
<1>. QED  BY <1>4, <1>5


-----------------------------------------------------------------------------
(* What was owed when a buyer read its debt *)

\* The row that absorbs a debt came with its pack.
AbsorbedWithPack ==
    \A r \in ledger :
        r.type = "grant" /\ r.kind = "manual" /\ r.id \in Packs
        => \E g \in ledger : g.type = "grant" /\ g.kind = "purchased" /\ g.id = r.id

\* No pack of month p or an earlier one is there.
NoPackUpTo(p) == \A r \in Bought(ledger) : ~(r.period <= p)

\* What b has read, when no pack precedes its own: nothing was bought; the first
\* month is b's or that of a pack; what is owed from b's month on is the debt it has
\* read, or was charged since.
FirstRead(b) ==
    /\ buyer[b].at \in {"counted", "dated"} => buyer[b].bought = 0
    /\ buyer[b].at = "dated" =>
           \/ buyer[b].first = buyer[b].period
           \/ \E r \in Bought(ledger) : r.period = buyer[b].first
    /\ buyer[b].at = "owes" /\ buyer[b].first <= buyer[b].period =>
           OverspendFrom(ledger, buyer[b].period) <= buyer[b].debt + since[b]

\* What is owed for the months after the one b buys in was charged since b began to
\* read its debt.
Counted(b) ==
    buyer[b].at # "idle" =>
        /\ buyer[b].period <= month
        /\ OverspendFrom(ledger, buyer[b].period + 1) <= since[b]
        /\ NoPackUpTo(buyer[b].period) => FirstRead(b)

\* The inductive invariant: nothing is of a month to come.
Counting ==
    /\ \A r \in ledger : r.period <= month
    /\ AbsorbedWithPack
    /\ \A r \in Readers : reader[r].at # "idle" => reader[r].period <= month
    /\ \A b \in Buyers : Counted(b)

LEMMA CountingInit == Init => Counting
BY DEF Init, Counting, AbsorbedWithPack, Counted, Idle

LEMMA BuyingType ==
    ASSUME Keeping, NEW b \in Buyers, buyer[b].at # "idle"
    PROVE  /\ buyer[b].at \in {"counted", "dated", "owes"}
           /\ buyer[b].pack \in Packs /\ buyer[b].period \in Months
           /\ buyer[b].at \in {"counted", "dated"} => buyer[b].bought \in Int
           /\ buyer[b].at \in {"dated", "owes"} => buyer[b].first \in Months
           /\ buyer[b].at = "owes" => buyer[b].debt \in Nat
BY DEF Keeping, Buying, Idle

\* A step that takes up to `cost`, which every buyer with a debt in hand counts.
LEMMA CountingKept ==
    ASSUME Keeping, Counting, month' \in {month, month + 1},
           NEW new, ledger' = ledger \cup new, \A r \in new : r.period <= month,
           NEW cost \in Nat, Summable(ledger'),
           \A first : OverspendFrom(ledger', first) <= OverspendFrom(ledger, first) + cost,
           \A r \in new : r.type = "grant" /\ r.kind = "manual" /\ r.id \in Packs
               => \E g \in new : g.type = "grant" /\ g.kind = "purchased" /\ g.id = r.id,
           \A r \in new : r.period \in Months,
           \A r \in Readers : reader'[r].at # "idle" =>
               \/ reader'[r].period = month
               \/ reader[r].at # "idle" /\ reader'[r].period = reader[r].period,
           \A b \in Buyers :
               \/ Counted(b)'
               \/ buyer'[b] = buyer[b] /\ since'[b] = since[b] + cost
               \/ buyer'[b].at = "idle"
    PROVE  Counting'
<1>1. month \in Nat /\ month <= month'
  BY DEF Keeping, TypeOK, Months
<1>2. \A r \in ledger' : r.period \in Months /\ r.period <= month
  BY DEF Keeping, TypeOK, Counting
<1>3. \A r \in ledger' : r.period <= month'
  BY <1>1, <1>2 DEF Months
<1>4. AbsorbedWithPack'
  BY DEF Counting, AbsorbedWithPack
<1>5. \A r \in Readers : reader'[r].at # "idle" => reader'[r].period <= month'
  <2>1. \A r \in Readers : reader[r].at # "idle" =>
            reader[r].period \in Nat /\ reader[r].period <= month
    BY ReadingType DEF Months, Counting
  <2>. QED  BY <1>1, <2>1
<1>6. ASSUME NEW b \in Buyers, buyer'[b] = buyer[b], since'[b] = since[b] + cost,
             buyer[b].at # "idle"
      PROVE  Counted(b)'
  <2>1. PICK p, d, s : p = buyer[b].period /\ d = buyer[b].debt /\ s = since[b]
    OBVIOUS
  <2>2. /\ p \in Nat /\ s \in Nat
        /\ buyer[b].at = "owes" => d \in Nat
    BY <1>6, <2>1, BuyingType DEF Keeping, TypeOK, Months
  <2>3. \A first : /\ OverspendFrom(ledger, first) \in Nat
                   /\ OverspendFrom(ledger', first) \in Nat
    BY KeepingSums, OverspendTypes
  <2>4. /\ p <= month
        /\ OverspendFrom(ledger, p + 1) <= s
        /\ NoPackUpTo(p) => FirstRead(b)
    BY <1>6, <2>1 DEF Counting, Counted
  <2>5. p <= month'
    BY <1>1, <2>2, <2>4
  <2>6. OverspendFrom(ledger', p + 1) <= s + cost
    <3>1. PICK x, y : x = OverspendFrom(ledger, p + 1) /\ y = OverspendFrom(ledger', p + 1)
      OBVIOUS
    <3>2. x \in Nat /\ y \in Nat /\ x <= s /\ y <= x + cost
      BY <2>3, <2>4, <3>1
    <3>. QED  BY <2>2, <3>1, <3>2
  <2>7. NoPackUpTo(p)' => FirstRead(b)'
    <3>. SUFFICES ASSUME NoPackUpTo(p)' PROVE FirstRead(b)'
      OBVIOUS
    <3>1. Bought(ledger) \subseteq Bought(ledger')
      BY DEF Bought
    <3>2. NoPackUpTo(p)
      BY <3>1 DEF NoPackUpTo
    <3>3. FirstRead(b)
      BY <2>4, <3>2
    <3>4. CASE buyer[b].at = "owes" /\ buyer[b].first <= p
      <4>1. PICK x, y : x = OverspendFrom(ledger, p) /\ y = OverspendFrom(ledger', p)
        OBVIOUS
      <4>2. x \in Nat /\ y \in Nat /\ x <= d + s /\ y <= x + cost /\ d \in Nat
        BY <2>1, <2>2, <2>3, <3>3, <3>4, <4>1 DEF FirstRead
      <4>3. y <= d + (s + cost)
        BY <2>2, <4>2
      <4>. QED  BY <1>6, <2>1, <3>4, <4>1, <4>3 DEF FirstRead
    <3>5. CASE ~(buyer[b].at = "owes" /\ buyer[b].first <= p)
      BY <1>6, <2>1, <3>1, <3>3, <3>5 DEF FirstRead
    <3>. QED  BY <3>4, <3>5
  <2>8. buyer'[b].period = p /\ since'[b] = s + cost
    BY <1>6, <2>1
  <2>9. NoPackUpTo(buyer[b].period)' <=> NoPackUpTo(p)'
    BY <1>6, <2>1 DEF NoPackUpTo
  <2>. QED  BY <2>5, <2>6, <2>7, <2>8, <2>9 DEF Counted
<1>7. \A b \in Buyers : Counted(b)'
  <2>. SUFFICES ASSUME NEW b \in Buyers, buyer'[b].at # "idle",
                       buyer'[b] = buyer[b], since'[b] = since[b] + cost
                PROVE  Counted(b)'
    BY DEF Counted
  <2>. QED  BY <1>6
<1>. QED  BY <1>3, <1>4, <1>5, <1>7 DEF Counting


\* Steps that leave the ledger as it is.
LEMMA CountingSame ==
    ASSUME Keeping, Counting, month' \in {month, month + 1}, ledger' = ledger,
           \A r \in Readers : reader'[r].at # "idle" =>
               \/ reader'[r].period = month
               \/ reader[r].at # "idle" /\ reader'[r].period = reader[r].period,
           \A b \in Buyers : Counted(b)' \/ (buyer'[b] = buyer[b] /\ since'[b] = since[b])
    PROVE  Counting'
<1>1. PICK new, cost : new = {} /\ cost = 0
  OBVIOUS
<1>2. ledger' = ledger \cup new /\ cost \in Nat
  BY <1>1
<1>3. Summable(ledger')
  BY KeepingSums
<1>4. \A first : OverspendFrom(ledger', first) <= OverspendFrom(ledger, first) + cost
  <2>1. \A first : OverspendFrom(ledger, first) \in Int
    BY KeepingSums, BucketTypes
  <2>2. \A first : OverspendFrom(ledger', first) = OverspendFrom(ledger, first)
    OBVIOUS
  <2>. QED  BY <1>1, <2>1, <2>2
<1>5. \A b \in Buyers : \/ Counted(b)'
                        \/ buyer'[b] = buyer[b] /\ since'[b] = since[b] + cost
                        \/ buyer'[b].at = "idle"
  <2>1. \A b \in Buyers : since[b] \in Nat
    BY DEF Keeping, TypeOK
  <2>. QED  BY <1>1, <2>1
<1>6. \A r \in new : FALSE
  BY <1>1
<1>. QED  BY <1>2, <1>3, <1>4, <1>5, <1>6, CountingKept

\* One row comes in, which takes `cost`.
LEMMA CountingRow ==
    ASSUME Keeping, Counting, month' = month, NEW row, ledger' = ledger \cup {row},
           Stored(row), row.period <= month,
           ~(row.type = "grant" /\ row.kind = "manual" /\ row.id \in Packs),
           NEW cost \in Nat, Floor(-row.credits) = cost,
           UNCHANGED buyer,
           Spend(cost) \/ (cost = 0 /\ since' = since),
           \A r \in Readers : reader'[r].at # "idle" => reader'[r] = reader[r]
    PROVE  Counting'
<1>1. row.period \in Months /\ row.credits \in Int
  BY DEF Stored
<1>2. /\ Summable(ledger')
      /\ \A first : OverspendFrom(ledger', first) <= OverspendFrom(ledger, first) + cost
  BY <1>1, KeepingSums, OverspendGrows
<1>3. ASSUME NEW b \in Buyers
      PROVE  \/ Counted(b)'
             \/ buyer'[b] = buyer[b] /\ since'[b] = since[b] + cost
             \/ buyer'[b].at = "idle"
  <2>1. since[b] \in Nat
    BY DEF Keeping, TypeOK
  <2>2. CASE buyer[b].at = "idle"
    BY <2>2
  <2>3. CASE buyer[b].at # "idle"
    <3>1. since'[b] = since[b] + cost
      BY <2>1, <2>3 DEF Spend
    <3>. QED  BY <3>1
  <2>. QED  BY <2>1, <2>2, <2>3
<1>4. PICK new : new = {row}
  OBVIOUS
<1>5. /\ ledger' = ledger \cup new
      /\ \A r \in new : r.period \in Months /\ r.period <= month
      /\ \A r \in new : ~(r.type = "grant" /\ r.kind = "manual" /\ r.id \in Packs)
  BY <1>1, <1>4
<1>. QED  BY <1>2, <1>3, <1>5, CountingKept

LEMMA CountingReader ==
    ASSUME Keeping, Counting, NEW r \in Readers, Reads(r)
    PROVE  Counting'
<1>1. UNCHANGED <<month, buyer, since>>
  BY DEF Reads, Look, SumGrants, PostGrant
<1>2. ASSUME NEW q \in Readers, reader'[q].at # "idle"
      PROVE  \/ reader'[q].period = month
             \/ reader[q].at # "idle" /\ reader'[q].period = reader[q].period
  <2>1. CASE q # r
    <3>1. reader'[q] = reader[q]
      BY <2>1 DEF Reads, Look, SumGrants, PostGrant, Keeping
    <3>. QED  BY <1>2, <3>1
  <2>2. CASE q = r /\ \E p \in Plans : Look(r, p)
    BY <2>2 DEF Look, Keeping
  <2>3. CASE q = r /\ SumGrants(r)
    <3>1. PICK pl, p, delta : /\ pl = reader[r].plan /\ p = reader[r].period
                              /\ delta = Entitlement[pl] - Total(Granted(p))
      OBVIOUS
    <3>2. /\ reader[r].at = "looked"
          /\ reader'[r] = IF delta <= 0 THEN Idle
                          ELSE [at |-> "summed", plan |-> pl, period |-> p, delta |-> delta]
      BY <2>3, <3>1 DEF SumGrants, Keeping
    <3>3. ~(delta <= 0)
      BY <1>2, <2>3, <3>2 DEF Idle
    <3>. QED  BY <2>3, <3>1, <3>2, <3>3
  <2>4. CASE q = r /\ PostGrant(r)
    <3>1. reader'[r] = Idle
      BY <2>4 DEF PostGrant, Keeping
    <3>. QED  BY <1>2, <2>4, <3>1 DEF Idle
  <2>. QED  BY <2>1, <2>2, <2>3, <2>4 DEF Reads
<1>3. CASE ledger' = ledger
  BY <1>1, <1>2, <1>3, CountingSame
<1>4. CASE ledger' # ledger
  <2>1. PostGrant(r)
    BY <1>4 DEF Reads, Look, SumGrants
  <2>2. PICK row : /\ row = Row("grant", "monthly", reader[r].plan, reader[r].period,
                                reader[r].delta)
                   /\ ledger' = ledger \cup {row}
    BY <1>4, <2>1 DEF PostGrant
  <2>3. /\ reader[r].at = "summed" /\ reader[r].period \in Months
        /\ reader[r].delta \in Nat \ {0}
    BY <2>1, ReadingType DEF PostGrant
  <2>4. Stored(row) /\ row.period = reader[r].period /\ row.credits = reader[r].delta
        /\ row.kind = "monthly"
    BY <2>2, <2>3 DEF Stored, Row
  <2>5. row.period <= month
    BY <2>3, <2>4 DEF Counting
  <2>6. Floor(-row.credits) = 0
    BY <2>3, <2>4 DEF Floor
  <2>7. \A q \in Readers : reader'[q].at # "idle" => reader'[q] = reader[q]
    BY <2>1 DEF PostGrant, Keeping, Idle
  <2>8. PICK cost : cost = 0
    OBVIOUS
  <2>. QED  BY <1>1, <2>2, <2>4, <2>5, <2>6, <2>7, <2>8, CountingRow
<1>. QED  BY <1>3, <1>4

LEMMA CountingRequest ==
    ASSUME Keeping, Counting, Charges
    PROVE  Counting'
<1>1. PICK q \in Requests, period \in Months, cost \in Costs : PostCharge(q, period, cost)
  BY DEF Charges
<1>2. PICK row : /\ row = Row("charge", "none", q, period, -cost)
                 /\ ledger' = ledger \cup {row}
  BY <1>1 DEF PostCharge
<1>3. cost \in Nat \ {0}
  BY LedgerAssumption
<1>4. Stored(row) /\ row.period = period /\ row.credits = -cost /\ row.kind = "none"
  BY <1>2, <1>3 DEF Stored, Row
<1>5. row.period <= month
  BY <1>1, <1>4 DEF PostCharge
<1>6. Floor(-row.credits) = cost
  BY <1>3, <1>4 DEF Floor
<1>7. UNCHANGED <<month, reader, buyer>> /\ Spend(cost)
  BY <1>1 DEF PostCharge
<1>8. \A r \in Readers : reader'[r] = reader[r]
  BY <1>7
<1>9. ~(row.type = "grant" /\ row.kind = "manual" /\ row.id \in Packs)
  BY <1>4
<1>. QED  BY <1>2, <1>3, <1>4, <1>5, <1>6, <1>7, <1>8, <1>9, CountingRow

LEMMA CountingOperator ==
    ASSUME Keeping, Counting, NEW o \in Operators, Operates(o)
    PROVE  Counting'
<1>u. UNCHANGED <<month, buyer, reader>>
  BY DEF Operates, PostManual, CheckReversal, PostReversal
<1>r. \A r \in Readers : reader'[r] = reader[r]
  BY <1>u
<1>1. CASE PostManual(o)
  <2>1. PICK row : /\ row = Row("grant", "manual", o, month, Gift)
                   /\ ledger' = ledger \cup {row}
    BY <1>1 DEF PostManual
  <2>2. Gift \in Nat \ {0} /\ month \in Months /\ o \notin Packs
    BY LedgerAssumption DEF Keeping, TypeOK
  <2>3. /\ Stored(row) /\ row.period = month /\ row.credits = Gift
        /\ ~(row.type = "grant" /\ row.kind = "manual" /\ row.id \in Packs)
    BY <2>1, <2>2 DEF Stored, Row
  <2>4. row.period <= month
    BY <2>2, <2>3 DEF Months
  <2>5. Floor(-row.credits) = 0 /\ since' = since
    BY <1>1, <2>2, <2>3 DEF Floor, PostManual
  <2>6. PICK cost : cost = 0
    OBVIOUS
  <2>. QED  BY <1>u, <1>r, <2>1, <2>3, <2>4, <2>5, <2>6, CountingRow
<1>2. CASE \E e \in ledger : CheckReversal(o, e)
  <2>1. UNCHANGED <<ledger, since>>
    BY <1>2 DEF CheckReversal
  <2>. QED  BY <1>u, <1>r, <2>1, CountingSame
<1>3. CASE PostReversal(o)
  <2>1. PICK e : e = operator[o].entry
    OBVIOUS
  <2>2. e \in ledger
    BY <1>3, <2>1 DEF Keeping, PostReversal, Reversing, Idle
  <2>3. Stored(e) /\ e.period <= month
    BY <2>2 DEF Keeping, TypeOK, Stored, Counting
  <2>4. PICK row : /\ row = [type |-> "reversal", kind |-> e.kind, id |-> o,
                             period |-> e.period, credits |-> -e.credits, ref |-> e]
                   /\ ledger' = ledger \cup {row}
    BY <1>3, <2>1 DEF PostReversal
  <2>5. Stored(row) /\ row.period = e.period /\ row.credits = -e.credits /\ row.type = "reversal"
    BY <2>3, <2>4 DEF Stored
  <2>6. PICK cost : cost = Floor(e.credits)
    OBVIOUS
  <2>7. cost \in Nat /\ Floor(-row.credits) = cost
    BY <2>3, <2>5, <2>6 DEF Floor, Stored
  <2>8. Spend(cost)
    BY <1>3, <2>1, <2>6 DEF PostReversal
  <2>9. row.period <= month
    BY <2>3, <2>5
  <2>10. ~(row.type = "grant" /\ row.kind = "manual" /\ row.id \in Packs)
    BY <2>5
  <2>. QED  BY <1>u, <1>r, <2>4, <2>5, <2>7, <2>8, <2>9, <2>10, CountingRow
<1>. QED  BY <1>1, <1>2, <1>3 DEF Operates

\* What a buyer has read still says what it says of b, in the terms of the rigid p.
LEMMA CountedNow ==
    ASSUME NEW b \in Buyers, NEW p, buyer'[b].period = p, ledger' = ledger, month' = month,
           since' = since, p <= month, OverspendFrom(ledger, p + 1) <= since[b],
           NoPackUpTo(p) => FirstRead(b)'
    PROVE  Counted(b)'
<1>1. NoPackUpTo(buyer[b].period)' <=> NoPackUpTo(p)
  BY DEF NoPackUpTo, Bought
<1>2. OverspendFrom(ledger, buyer[b].period + 1)' = OverspendFrom(ledger, p + 1)
  OBVIOUS
<1>. QED  BY <1>1, <1>2 DEF Counted

\* The first query: no later month owes anything, and without a pack nothing was bought.
LEMMA CountingBought ==
    ASSUME Keeping, Counting, NEW b \in Buyers, NEW pack \in Packs, CountBought(b, pack)
    PROVE  Counted(b)'
<1>1. /\ ledger' = ledger /\ month' = month /\ since' = since
      /\ buyer'[b] = [at |-> "counted", pack |-> pack, period |-> month,
                      bought |-> Total(Bought(ledger))]
  BY DEF CountBought, Keeping
<1>2. PICK m : m = month /\ m \in Nat /\ since[b] \in Nat
  BY DEF Keeping, TypeOK, Months
<1>3. OverspendFrom(ledger, m + 1) = 0
  <2>1. ASSUME NEW r \in ledger PROVE ~(r.period >= m + 1)
    <3>1. r.period \in Nat /\ r.period <= m
      BY <1>2 DEF Counting, Keeping, TypeOK, Months
    <3>. QED  BY <1>2, <3>1
  <2>. QED  BY <2>1, KeepingSums, OverspendNone
<1>4. ASSUME NoPackUpTo(m) PROVE FirstRead(b)'
  <2>1. Bought(ledger) = {}
    BY <1>2, <1>4 DEF Counting, Bought, NoPackUpTo
  <2>2. Total(Bought(ledger)) = 0
    BY <2>1, TotalEmpty
  <2>3. buyer'[b].at = "counted" /\ buyer'[b].bought = 0
    BY <1>1, <2>2
  <2>. QED  BY <2>3 DEF FirstRead
<1>5. buyer'[b].period = m /\ m <= month /\ OverspendFrom(ledger, m + 1) <= since[b]
  BY <1>1, <1>2, <1>3
<1>. QED  BY <1>1, <1>4, <1>5, CountedNow

\* The second: the first month, b's own unless there is a pack.
LEMMA CountingDate ==
    ASSUME Keeping, Counting, NEW b \in Buyers, DateBought(b)
    PROVE  Counted(b)'
<1>1. PICK p, w, f : /\ p = buyer[b].period /\ w = buyer[b].bought
                     /\ f = IF Bought(ledger) = {} THEN p ELSE FirstPeriod(ledger)
  OBVIOUS
<1>2. /\ ledger' = ledger /\ month' = month /\ since' = since /\ buyer[b].at = "counted"
      /\ buyer'[b] = [at |-> "dated", pack |-> buyer[b].pack, period |-> p, bought |-> w,
                      first |-> f]
  BY <1>1 DEF DateBought, Keeping
<1>3. /\ buyer'[b].at = "dated" /\ buyer'[b].period = p /\ buyer'[b].bought = w
      /\ buyer'[b].first = f
  BY <1>2
<1>4. /\ p <= month /\ OverspendFrom(ledger, p + 1) <= since[b]
      /\ NoPackUpTo(p) => FirstRead(b)
  BY <1>1, <1>2 DEF Counting, Counted
<1>5. f = p \/ \E r \in Bought(ledger) : r.period = f
  BY <1>1, FirstIsOfOne DEF Keeping, TypeOK
<1>6. ASSUME NoPackUpTo(p) PROVE FirstRead(b)'
  <2>1. w = 0
    BY <1>1, <1>2, <1>4, <1>6 DEF FirstRead
  <2>2. Bought(ledger)' = Bought(ledger)
    BY <1>2 DEF Bought
  <2>. QED  BY <1>3, <1>5, <2>1, <2>2 DEF FirstRead
<1>. QED  BY <1>2, <1>3, <1>4, <1>6, CountedNow

\* The third: the debt is what is owed from the month on, until a pack is there.
LEMMA CountingRead ==
    ASSUME Keeping, Counting, NEW b \in Buyers, ReadDebt(b)
    PROVE  Counted(b)'
<1>1. PICK p, w, f, d : /\ p = buyer[b].period /\ w = buyer[b].bought /\ f = buyer[b].first
                        /\ d = Floor(OverspendFrom(ledger, f) - w)
  OBVIOUS
<1>2. /\ ledger' = ledger /\ month' = month /\ since' = since /\ buyer[b].at = "dated"
      /\ buyer'[b] = [at |-> "owes", pack |-> buyer[b].pack, period |-> p, first |-> f,
                      debt |-> d]
  BY <1>1 DEF ReadDebt, Keeping
<1>3. /\ buyer'[b].at = "owes" /\ buyer'[b].period = p /\ buyer'[b].first = f
      /\ buyer'[b].debt = d
  BY <1>2
<1>4. /\ p <= month /\ OverspendFrom(ledger, p + 1) <= since[b]
      /\ NoPackUpTo(p) => FirstRead(b)
  BY <1>1, <1>2 DEF Counting, Counted
<1>5. ASSUME NoPackUpTo(p), f <= p PROVE OverspendFrom(ledger, p) <= d + since[b]
  <2>1. w = 0 /\ (f = p \/ \E r \in Bought(ledger) : r.period = f)
    BY <1>1, <1>2, <1>4, <1>5 DEF FirstRead
  <2>2. f = p
    BY <1>5, <2>1 DEF NoPackUpTo
  <2>3. OverspendFrom(ledger, p) \in Nat /\ since[b] \in Nat
    BY KeepingSums, OverspendTypes DEF Keeping, TypeOK
  <2>4. d = OverspendFrom(ledger, p)
    BY <1>1, <2>1, <2>2, <2>3 DEF Floor
  <2>. QED  BY <2>3, <2>4
<1>6. ASSUME NoPackUpTo(p) PROVE FirstRead(b)'
  <2>1. OverspendFrom(ledger, buyer[b].period)' = OverspendFrom(ledger, p)
    BY <1>2, <1>3
  <2>. QED  BY <1>2, <1>3, <1>5, <1>6, <2>1 DEF FirstRead
<1>. QED  BY <1>2, <1>3, <1>4, <1>6, CountedNow

LEMMA CountingAsks ==
    ASSUME Keeping, Counting, NEW b \in Buyers, Asks(b)
    PROVE  Counting'
<1>1. /\ UNCHANGED <<month, ledger, reader, since>>
      /\ \A c \in Buyers : c # b => buyer'[c] = buyer[c]
  BY DEF Asks, CountBought, DateBought, ReadDebt, Keeping
<1>2. Counted(b)'
  BY CountingBought, CountingDate, CountingRead DEF Asks
<1>3. \A c \in Buyers : Counted(c)' \/ (buyer'[c] = buyer[c] /\ since'[c] = since[c])
  BY <1>1, <1>2
<1>. QED  BY <1>1, <1>3, CountingSame

\* The rows of a pack take nothing.
LEMMA CountingPurchase ==
    ASSUME Keeping, Counting, NEW b \in Buyers, PostPurchase(b)
    PROVE  Counting'
<1>1. /\ UNCHANGED <<month, reader>>
      /\ \A c \in Buyers : c # b => buyer'[c] = buyer[c] /\ since'[c] = since[c]
      /\ buyer'[b].at = "idle"
  BY DEF PostPurchase, Keeping, TypeOK, Idle
<1>2. CASE ledger' = ledger
  <2>2. ASSUME NEW c \in Buyers
        PROVE  Counted(c)' \/ (buyer'[c] = buyer[c] /\ since'[c] = since[c])
    <3>1. CASE c = b
      BY <1>1, <3>1 DEF Counted
    <3>2. CASE c # b
      BY <1>1, <3>2
    <3>. QED  BY <3>1, <3>2
  <2>3. \A r \in Readers : reader'[r] = reader[r]
    BY <1>1
  <2>. QED  BY <1>1, <1>2, <2>2, <2>3, CountingSame
<1>3. CASE ledger' # ledger
  <2>1. /\ ledger' = ledger \cup PackRows(b) /\ buyer[b].at = "owes"
    BY <1>3 DEF PostPurchase
  <2>2. /\ buyer[b].pack \in Packs /\ buyer[b].period \in Months /\ buyer[b].debt \in Nat
        /\ buyer[b].period <= month
    BY <2>1 DEF Keeping, Buying, Idle, Counting, Counted
  <2>3. PICK pack, p, d : pack = buyer[b].pack /\ p = buyer[b].period /\ d = buyer[b].debt
    OBVIOUS
  <2>4. PICK x, y : /\ x = Row("grant", "purchased", pack, p, PackSize)
                    /\ y = Row("grant", "manual", pack, p, d)
    OBVIOUS
  <2>5. PICK new : new = PackRows(b) /\ (new = {x} \/ new = {x, y})
    <3>1. PackRows(b) = {x} \cup (IF d > 0 THEN {y} ELSE {})
      BY <2>3, <2>4 DEF PackRows
    <3>2. CASE d > 0
      BY <3>1, <3>2
    <3>3. CASE ~(d > 0)
      BY <3>1, <3>3
    <3>. QED  BY <3>2, <3>3
  <2>6. /\ x.period = p /\ x.credits = PackSize /\ x.kind = "purchased" /\ x.type = "grant"
        /\ x.id = pack
        /\ y.period = p /\ y.credits = d /\ y.id = pack
    BY <2>4 DEF Row
  <2>7. /\ p \in Months /\ p <= month /\ d \in Nat /\ PackSize \in Nat
    BY <2>2, <2>3, LedgerAssumption
  <2>8. PICK cost : cost = 0
    OBVIOUS
  <2>9. /\ Summable(ledger')
        /\ \A first : OverspendFrom(ledger', first) <= OverspendFrom(ledger, first) + cost
    <3>1. Floor(-x.credits) = 0 /\ Floor(-y.credits) = 0
      BY <2>6, <2>7 DEF Floor
    <3>2. Summable(ledger) /\ x.credits \in Int /\ x.period \in Months
          /\ y.credits \in Int /\ y.period \in Months
      BY <2>6, <2>7, KeepingSums
    <3>3. PICK some, both : some = ledger \cup {x} /\ both = some \cup {y}
      OBVIOUS
    <3>4. Summable(some) /\ Summable(both)
      BY <3>2, <3>3, OverspendGrows
    <3>5. ledger' = some \/ ledger' = both
      BY <2>1, <2>5, <3>3
    <3>6. ASSUME NEW first
          PROVE  OverspendFrom(ledger', first) <= OverspendFrom(ledger, first) + cost
      <4>1. PICK a, m, n : /\ a = OverspendFrom(ledger, first)
                           /\ m = OverspendFrom(some, first)
                           /\ n = OverspendFrom(both, first)
        OBVIOUS
      <4>2. a \in Nat /\ m \in Nat /\ n \in Nat
        BY <3>2, <3>4, <4>1, OverspendTypes
      <4>3. m <= a + 0
        <5>1. m <= a + Floor(-x.credits)
          BY <3>2, <3>3, <4>1, OverspendGrows
        <5>. QED  BY <3>1, <5>1
      <4>4. n <= m + 0
        <5>1. n <= m + Floor(-y.credits)
          BY <3>2, <3>3, <3>4, <4>1, OverspendGrows
        <5>. QED  BY <3>1, <5>1
      <4>5. m <= a + cost /\ n <= a + cost
        BY <2>8, <4>2, <4>3, <4>4
      <4>6. CASE ledger' = some
        BY <4>1, <4>5, <4>6
      <4>7. CASE ledger' = both
        BY <4>1, <4>5, <4>7
      <4>. QED  BY <3>5, <4>6, <4>7
    <3>7. Summable(ledger')
      BY <3>4, <3>5
    <3>. QED  BY <3>6, <3>7
  <2>10. \A r \in new : r.period \in Months /\ r.period <= month /\ r.id = pack
    BY <2>5, <2>6, <2>7
  <2>11. ASSUME NEW c \in Buyers
         PROVE  \/ Counted(c)'
                \/ buyer'[c] = buyer[c] /\ since'[c] = since[c] + cost
                \/ buyer'[c].at = "idle"
    <3>1. since[c] \in Nat
      BY DEF Keeping, TypeOK
    <3>. QED  BY <1>1, <2>8, <3>1
  <2>12. \A r \in new : r.type = "grant" /\ r.kind = "manual" /\ r.id \in Packs
             => \E g \in new : g.type = "grant" /\ g.kind = "purchased" /\ g.id = r.id
    BY <2>5, <2>6, <2>10
  <2>13. /\ ledger' = ledger \cup new
         /\ \A r \in Readers : reader'[r] = reader[r]
    BY <1>1, <2>1, <2>5
  <2>14. cost \in Nat
    BY <2>8
  <2>. QED  BY <1>1, <2>9, <2>10, <2>11, <2>12, <2>13, <2>14, CountingKept
<1>. QED  BY <1>2, <1>3

LEMMA CountingStep == Keeping /\ Counting /\ [Next]_vars => Counting'
<1>. SUFFICES ASSUME Keeping, Counting, [Next]_vars PROVE Counting'
  OBVIOUS
<1>1. CASE NextMonth
  <2>1. month' = month + 1 /\ UNCHANGED <<ledger, reader, buyer, since>>
    BY <1>1 DEF NextMonth
  <2>. QED  BY <2>1, CountingSame
<1>2. CASE (\E p \in Plans : MovePlan(p)) \/ UNCHANGED vars
  <2>1. UNCHANGED <<month, ledger, reader, buyer, since>>
    BY <1>2 DEF MovePlan, vars
  <2>. QED  BY <2>1, CountingSame
<1>. QED  BY <1>1, <1>2, NextCases, CountingReader, CountingRequest, CountingOperator,
             CountingAsks, CountingPurchase


-----------------------------------------------------------------------------
(* What a pack is worth *)

\* What a pack and the row that absorbs a debt of d do to the buckets.
LEMMA PackComesIn ==
    ASSUME NEW rows, Summable(rows), \A r \in rows : r.period \in Months,
           NEW pack, NEW p \in Months, NEW d \in Nat,
           NEW x, x = Row("grant", "purchased", pack, p, PackSize), x \notin rows,
           NEW y, y = Row("grant", "manual", pack, p, d), y \notin rows,
           NEW more, more = rows \cup {x} \cup (IF d > 0 THEN {y} ELSE {})
    PROVE  /\ Summable(more)
           /\ \A q : Pool(more, q) = IF q = p THEN Pool(rows, q) + d ELSE Pool(rows, q)
           /\ Total(Bought(more)) = Total(Bought(rows)) + PackSize
           /\ Bought(rows) # {} =>
                  FirstPeriod(rows) \in Months /\ \E r \in rows : r.period = FirstPeriod(rows)
           /\ FirstPeriod(more) = IF Bought(rows) # {} /\ FirstPeriod(rows) <= p
                                  THEN FirstPeriod(rows) ELSE p
           /\ (\A r \in Bought(rows) : ~(r.period <= p))
                  <=> ~(Bought(rows) # {} /\ FirstPeriod(rows) <= p)
<1>1. /\ x.kind = "purchased" /\ x.period = p /\ x.credits = PackSize
      /\ y.kind = "manual" /\ y.period = p /\ y.credits = d
      /\ PackSize \in Nat /\ x # y
  BY LedgerAssumption DEF Row
<1>2. PICK some : some = rows \cup {x}
  OBVIOUS
<1>3. Summable(some) /\ y \notin some
  BY <1>1, <1>2, FS_AddElement DEF Summable
<1>4. Summable(some \cup {y})
  BY <1>1, <1>3, FS_AddElement DEF Summable
<1>5. more = some \/ more = some \cup {y}
  BY <1>2
<1>6. Summable(more)
  BY <1>3, <1>4, <1>5
<1>7. ASSUME NEW q PROVE Pool(some, q) = Pool(rows, q)
  <2>1. {r \in some : r.period = q /\ r.kind # "purchased"}
           = {r \in rows : r.period = q /\ r.kind # "purchased"}
    BY <1>1, <1>2
  <2>. QED  BY <2>1 DEF Pool
<1>8. ASSUME NEW q
      PROVE  Pool(more, q) = IF q = p THEN Pool(rows, q) + d ELSE Pool(rows, q)
  <2>1. Pool(rows, q) \in Int
    BY BucketTypes
  <2>2. CASE d > 0
    <3>1. more = some \cup {y}
      BY <1>2, <2>2
    <3>2. y.credits \in Int /\ y.kind # "purchased"
      BY <1>1
    <3>3. Pool(some \cup {y}, q)
             = IF y.period = q THEN Pool(some, q) + y.credits ELSE Pool(some, q)
      BY <1>3, <3>2, PoolAdd
    <3>4. CASE q = p
      BY <1>1, <1>7, <3>1, <3>3, <3>4
    <3>5. CASE q # p
      BY <1>1, <1>7, <3>1, <3>3, <3>5
    <3>. QED  BY <3>4, <3>5
  <2>3. CASE ~(d > 0)
    <3>1. more = some /\ d = 0
      BY <1>2, <2>3
    <3>2. Pool(more, q) = Pool(rows, q) /\ Pool(rows, q) + d = Pool(rows, q)
      <4>1. PICK n \in Int : n = Pool(rows, q)
        BY <2>1
      <4>2. n + d = n
        BY <3>1
      <4>. QED  BY <1>7, <3>1, <4>1, <4>2
    <3>. QED  BY <3>2
  <2>. QED  BY <2>2, <2>3
<1>9. Bought(more) = Bought(rows) \cup {x} /\ x \notin Bought(rows)
  BY <1>1, <1>2, <1>5 DEF Bought
<1>10. Total(Bought(more)) = Total(Bought(rows)) + PackSize
  <2>1. Bought(rows) \subseteq rows
    BY DEF Bought
  <2>2. Summable(Bought(rows))
    BY <2>1, SummablePart
  <2>3. /\ IsFiniteSet(Bought(rows))
        /\ \A r \in Bought(rows) \cup {x} : r.credits \in Int
    BY <1>1, <2>2 DEF Summable
  <2>4. Total(Bought(rows) \cup {x}) = Total(Bought(rows)) + x.credits
    BY <1>9, <2>3, TotalAdd
  <2>. QED  BY <1>1, <1>9, <2>4
<1>11. PICK S, T : S = {r.period : r \in Bought(rows)} /\ T = {r.period : r \in Bought(more)}
  OBVIOUS
<1>12. S \subseteq Months /\ T = S \cup {p} /\ T \subseteq Months /\ T # {}
  BY <1>1, <1>9, <1>11 DEF Bought
<1>13. /\ FirstPeriod(rows) = Min(S) /\ FirstPeriod(more) = Min(T)
       /\ S = {} <=> Bought(rows) = {}
  BY <1>11 DEF FirstPeriod
<1>14. Min(T) \in T /\ \A k \in T : Min(T) <= k
  BY <1>12, FirstOfMonths
<1>15. S # {} => Min(S) \in S /\ \A k \in S : Min(S) <= k
  BY <1>12, FirstOfMonths
<1>16. PICK f, g : f = Min(S) /\ g = Min(T)
  OBVIOUS
<1>17. Months \subseteq Nat
  BY DEF Months
<1>18. /\ g \in S \cup {p} /\ g \in Nat /\ p \in Nat /\ g <= p /\ \A k \in S : g <= k
       /\ S # {} => f \in S /\ f \in Nat /\ \A k \in S : k \in Nat /\ f <= k
  BY <1>12, <1>14, <1>15, <1>16, <1>17
<1>19. g = IF S # {} /\ f <= p THEN f ELSE p
  <2>1. CASE S = {}
    BY <1>18, <2>1
  <2>2. CASE S # {} /\ f <= p
    <3>1. g <= f /\ f <= g
      BY <1>18, <2>2
    <3>. QED  BY <1>18, <2>2, <3>1
  <2>3. CASE S # {} /\ ~(f <= p)
    <3>1. p <= g
      BY <1>18, <2>3
    <3>. QED  BY <1>18, <2>3, <3>1
  <2>. QED  BY <2>1, <2>2, <2>3
<1>20. (\A k \in S : ~(k <= p)) <=> ~(S # {} /\ f <= p)
  <2>1. ASSUME NEW k \in S, k <= p PROVE S # {} /\ f <= p
    BY <1>18, <2>1
  <2>. QED  BY <1>18, <2>1
<1>21. (\A r \in Bought(rows) : ~(r.period <= p)) <=> (\A k \in S : ~(k <= p))
  BY <1>11
<1>22. Bought(rows) # {} =>
           FirstPeriod(rows) \in Months /\ \E r \in rows : r.period = FirstPeriod(rows)
  <2>. SUFFICES ASSUME Bought(rows) # {}
                PROVE  Min(S) \in Months /\ \E r \in rows : r.period = Min(S)
    BY <1>13
  <2>1. Min(S) \in S
    BY <1>13, <1>15
  <2>. QED  BY <1>11, <1>12, <2>1 DEF Bought
<1>. QED  BY <1>6, <1>8, <1>10, <1>13, <1>16, <1>19, <1>20, <1>21, <1>22

\* The amounts, when a pack of the month or an earlier one was there before: w is
\* owed by the months before, Floor(-a) by the month itself and N by the ones after.
AfterPack(B, O, a, w, N, P, d, s, before, after) ==
    /\ B \in Int /\ a \in Int
    /\ w \in Nat /\ N \in Nat /\ P \in Nat /\ d \in Nat /\ s \in Nat
    /\ N <= s
    /\ O = w + Floor(-a) + N
    /\ before = IF B <= 0 THEN 0 ELSE Floor(B - O)
    /\ after = IF B + P <= 0 THEN 0
               ELSE Floor(B + P - (O + Floor(-(a + d)) - Floor(-a)))

LEMMA WorthAfterPack ==
    ASSUME NEW B, NEW O, NEW a, NEW w, NEW N, NEW P, NEW d, NEW s, NEW before, NEW after,
           AfterPack(B, O, a, w, N, P, d, s, before, after)
    PROVE  /\ Floor(O - B) <= d + s /\ w <= B => after >= before + P - s
           /\ Floor(O - B) <= d + s /\ ~(w <= B) /\ N = 0
                  => Floor(a + d) + after >= Floor(a) + before + P - s
           /\ Floor(O - B) = d /\ w <= B => after <= before + P
           /\ Floor(O - B) = d /\ w <= B /\ N = 0
                  => Floor(a + d) + after <= Floor(a) + before + P
<1>. USE DEF AfterPack
<1>1. /\ Floor(-a) = IF -a > 0 THEN -a ELSE 0
      /\ Floor(-(a + d)) = IF -(a + d) > 0 THEN -(a + d) ELSE 0
      /\ Floor(a) = IF a > 0 THEN a ELSE 0
      /\ Floor(a + d) = IF a + d > 0 THEN a + d ELSE 0
      /\ Floor(O - B) = IF O - B > 0 THEN O - B ELSE 0
      /\ Floor(B - O) = IF B - O > 0 THEN B - O ELSE 0
  BY DEF Floor
<1>2. PICK o, z : o = Floor(-a) /\ z = Floor(-(a + d))
  OBVIOUS
<1>3. /\ o \in Nat /\ z \in Nat /\ z <= o /\ (z = 0 \/ z = o - d)
      /\ O = w + o + N /\ O \in Nat
  BY <1>1, <1>2
<1>4. after = IF B + P <= 0 THEN 0 ELSE IF B + P - (O + z - o) > 0 THEN B + P - (O + z - o) ELSE 0
  BY <1>2 DEF Floor
<1>5. Floor(O - B) <= d + s /\ w <= B => after >= before + P - s
  BY <1>1, <1>3, <1>4
<1>6. Floor(O - B) <= d + s /\ ~(w <= B) /\ N = 0
          => Floor(a + d) + after >= Floor(a) + before + P - s
  BY <1>1, <1>2, <1>3, <1>4
<1>7. Floor(O - B) = d /\ w <= B => after <= before + P
  BY <1>1, <1>2, <1>3, <1>4
<1>8. Floor(O - B) = d /\ w <= B /\ N = 0 => Floor(a + d) + after <= Floor(a) + before + P
  <2>. SUFFICES ASSUME Floor(O - B) = d, w <= B, N = 0
                PROVE  Floor(a + d) + after <= Floor(a) + before + P
    OBVIOUS
  <2>1. after <= before + P /\ after \in Int /\ before \in Int
    BY <1>1, <1>3, <1>4, <1>7
  <2>2. Floor(a + d) = Floor(a) /\ Floor(a) \in Int
    <3>1. CASE d = 0
      BY <1>1, <3>1
    <3>2. CASE d > 0
      <4>1. d = O - B
        BY <1>1, <3>2
      <4>2. d <= o
        BY <1>3, <4>1
      <4>. QED  BY <1>1, <1>2, <3>2, <4>2
    <3>. QED  BY <3>1, <3>2
  <2>. QED  BY <2>1, <2>2
<1>. QED  BY <1>5, <1>6, <1>7, <1>8

\* The amounts, when the pack is the first one of its month and the months before.
FirstPack(B, O, a, N, P, d, s, before, after) ==
    /\ a \in Int
    /\ B \in Nat /\ O \in Nat /\ N \in Nat /\ P \in Nat /\ d \in Nat /\ s \in Nat
    /\ O <= N
    /\ N <= s
    /\ before = Floor(B - O)
    /\ after = IF B + P <= 0 THEN 0 ELSE Floor(B + P - (N + Floor(-(a + d))))

LEMMA WorthOfFirstPack ==
    ASSUME NEW B, NEW O, NEW a, NEW N, NEW P, NEW d, NEW s, NEW before, NEW after,
           FirstPack(B, O, a, N, P, d, s, before, after)
    PROVE  /\ Floor(-a) + N <= d + s => after >= before + P - s
           /\ after <= before + P
           /\ B = 0 /\ N = 0 /\ d = Floor(-a)
                  => Floor(a + d) + after <= Floor(a) + before + P
<1>. USE DEF FirstPack
<1>1. /\ Floor(-a) = IF -a > 0 THEN -a ELSE 0
      /\ Floor(-(a + d)) = IF -(a + d) > 0 THEN -(a + d) ELSE 0
      /\ Floor(a) = IF a > 0 THEN a ELSE 0
      /\ Floor(a + d) = IF a + d > 0 THEN a + d ELSE 0
      /\ Floor(B - O) = IF B - O > 0 THEN B - O ELSE 0
  BY DEF Floor
<1>2. PICK z : z = Floor(-(a + d))
  OBVIOUS
<1>3. after = IF B + P <= 0 THEN 0 ELSE IF B + P - (N + z) > 0 THEN B + P - (N + z) ELSE 0
  BY <1>2 DEF Floor
<1>4. z \in Nat /\ z = IF -(a + d) > 0 THEN -(a + d) ELSE 0
  BY <1>1, <1>2
<1>5. before \in Nat /\ before <= B /\ B - O <= before
  BY <1>1
<1>6. after \in Nat /\ after <= B + P /\ B + P - (N + z) <= after
  BY <1>3, <1>4
<1>7. Floor(-a) + N <= d + s => after >= before + P - s
  <2>1. Floor(-a) + N <= d + s => N + z <= s
    BY <1>1, <1>4
  <2>. QED  BY <1>4, <1>5, <1>6, <2>1
<1>8. after <= before + P
  BY <1>3, <1>4, <1>5
<1>9. B = 0 /\ N = 0 /\ d = Floor(-a) => Floor(a + d) + after <= Floor(a) + before + P
  BY <1>1, <1>5, <1>6
<1>. QED  BY <1>7, <1>8, <1>9


\* The later months owe no more than they and the months before them.
LEMMA OverspendLater ==
    ASSUME NEW rows, Summable(rows), \A r \in rows : r.period \in Months,
           NEW p \in Months, NEW q \in Months, p <= q
    PROVE  OverspendFrom(rows, q) <= OverspendFrom(rows, p)
<1>1. PICK part : part = {r \in rows : r.period < q}
  OBVIOUS
<1>2. part \subseteq rows /\ Summable(part)
  BY <1>1, SummablePart
<1>3. OverspendFrom(rows, p) = OverspendFrom(part, p) + OverspendFrom(rows, q)
  BY <1>1, <1>2, OverspendSplit
<1>4. OverspendFrom(part, p) \in Nat /\ OverspendFrom(rows, q) \in Nat
  BY <1>2, OverspendTypes
<1>. QED  BY <1>3, <1>4

\* The step that grants b's pack.
LEMMA GrantStep ==
    ASSUME Keeping, Counting, [Next]_vars, NEW b \in Buyers, Grants(b)
    PROVE  /\ ledger' = ledger \cup PackRows(b) /\ month' = month
           /\ buyer[b].at = "owes" /\ buyer[b].pack \in Packs
           /\ buyer[b].period \in Months /\ buyer[b].debt \in Nat
           /\ Row("grant", "purchased", buyer[b].pack, buyer[b].period, PackSize) \notin ledger
           /\ Row("grant", "manual", buyer[b].pack, buyer[b].period, buyer[b].debt)
                  \notin ledger
<1>1. /\ buyer[b].at = "owes" /\ buyer'[b].at = "idle" /\ ledger' # ledger
      /\ buyer'[b] # buyer[b]
  BY DEF Grants
<1>2. PostPurchase(b)
  <2>1. buyer' # buyer
    BY <1>1
  <2>2. PICK c \in Buyers : Asks(c) \/ PostPurchase(c)
    <3>1. ~NextMonth /\ ~(\E p \in Plans : MovePlan(p)) /\ ~UNCHANGED vars
      BY <2>1 DEF NextMonth, MovePlan, vars
    <3>2. \A r \in Readers : ~Reads(r)
      BY <2>1 DEF Reads, Look, SumGrants, PostGrant
    <3>3. ~Charges
      BY <2>1 DEF Charges, PostCharge
    <3>4. \A o \in Operators : ~Operates(o)
      BY <2>1 DEF Operates, PostManual, CheckReversal, PostReversal
    <3>. QED  BY <3>1, <3>2, <3>3, <3>4, NextCases
  <2>3. PostPurchase(c)
    <3>1. c # b /\ Asks(c) => buyer'[b] = buyer[b]
      BY DEF Asks, CountBought, DateBought, ReadDebt, Keeping
    <3>2. ~Asks(b)
      BY <1>1 DEF Asks, CountBought, DateBought, ReadDebt
    <3>. QED  BY <1>1, <2>2, <3>1, <3>2
  <2>4. c # b => buyer'[b] = buyer[b]
    BY <2>3 DEF PostPurchase, Keeping
  <2>. QED  BY <1>1, <2>3, <2>4
<1>3. /\ ledger' = ledger \cup PackRows(b) /\ month' = month
      /\ ~Posted("grant", "purchased", buyer[b].pack)
  BY <1>1, <1>2 DEF PostPurchase
<1>4. buyer[b].pack \in Packs /\ buyer[b].period \in Months /\ buyer[b].debt \in Nat
  BY <1>1 DEF Keeping, Buying, Idle
<1>5. \A r \in ledger : ~(r.type = "grant" /\ r.kind = "purchased" /\ r.id = buyer[b].pack)
  BY <1>3 DEF Posted
<1>6. \A r \in ledger : ~(r.type = "grant" /\ r.kind = "manual" /\ r.id = buyer[b].pack)
  BY <1>4, <1>5 DEF Counting, AbsorbedWithPack
<1>7. PICK x, y :
        /\ x = Row("grant", "purchased", buyer[b].pack, buyer[b].period, PackSize)
        /\ y = Row("grant", "manual", buyer[b].pack, buyer[b].period, buyer[b].debt)
  OBVIOUS
<1>8. /\ x.type = "grant" /\ x.kind = "purchased" /\ x.id = buyer[b].pack
      /\ y.type = "grant" /\ y.kind = "manual" /\ y.id = buyer[b].pack
  BY <1>7 DEF Row
<1>9. x \notin ledger /\ y \notin ledger
  BY <1>5, <1>6, <1>8
<1>. QED  BY <1>1, <1>3, <1>4, <1>7, <1>9

\* What of the debt stems from the months before p.
Older(rows, p) == {r \in rows : r.period < p \/ r \in Bought(rows)}

LEMMA OlderDebt ==
    ASSUME NEW rows, Summable(rows), \A r \in rows : r.period \in Months, NEW p \in Months,
           NEW first \in Months, first = FirstPeriod(rows), Bought(rows) # {},
           NEW B, B = Total(Bought(rows))
    PROVE  /\ first <= p =>
                  \E w \in Nat : /\ Debt(Older(rows, p), p) = 0 <=> w <= B
                                 /\ OverspendFrom(rows, first) = w + OverspendFrom(rows, p)
           /\ ~(first <= p) => (Debt(Older(rows, p), p) = 0 <=> B >= 0)
<1>1. PICK older : older = Older(rows, p)
  OBVIOUS
<1>2. /\ older \subseteq rows /\ Bought(older) = Bought(rows)
      /\ \A r \in rows : r.kind # "purchased" => (r \in older <=> r.period < p)
  BY <1>1 DEF Older, Bought
<1>3. Summable(older) /\ B \in Int
  BY <1>2, SummablePart, BucketTypes
<1>4. FirstPeriod(older) = first
  BY <1>2 DEF FirstPeriod
<1>5. PICK w : w = OverspendFrom(older, first)
  OBVIOUS
<1>6. w \in Nat
  BY <1>3, <1>5, OverspendTypes
<1>7. Debt(older, p) = Floor(w - B)
  BY <1>2, <1>4, <1>5 DEF Debt
<1>8. Floor(w - B) = 0 <=> w <= B
  BY <1>3, <1>6 DEF Floor
<1>9. first <= p => OverspendFrom(rows, first) = w + OverspendFrom(rows, p)
  BY <1>2, <1>5, OverspendSplit
<1>10. ~(first <= p) => w = 0
  <2>. SUFFICES ASSUME ~(first <= p) PROVE w = 0
    OBVIOUS
  <2>1. Months \subseteq Nat
    BY DEF Months
  <2>2. ASSUME NEW r \in older, r.kind # "purchased" PROVE ~(r.period >= first)
    <3>1. r.period \in Nat /\ r.period < p
      BY <1>2, <2>1, <2>2
    <3>. QED  BY <2>1, <3>1
  <2>. QED  BY <1>3, <1>5, <2>2, OverspendNone
<1>. QED  BY <1>1, <1>3, <1>6, <1>7, <1>8, <1>9, <1>10


LEMMA PackWorth ==
    ASSUME Keeping, Counting, [Next]_vars, NEW b \in Buyers, Grants(b)
    PROVE  /\ NothingUncovered(b) =>
                  /\ PackRaisesBalance(b)
                  /\ OwesThisMonthOnly(b) => PackFillsBucket(b)
           /\ NothingHandedBack(b)
<1>1. PICK rows, more, m, p, d, s, pack :
        /\ rows = ledger /\ more = ledger' /\ m = month /\ s = since[b]
        /\ p = buyer[b].period /\ d = buyer[b].debt /\ pack = buyer[b].pack
  OBVIOUS
<1>2. /\ more = rows \cup PackRows(b) /\ month' = m /\ buyer[b].at = "owes"
      /\ p \in Months /\ d \in Nat
      /\ Row("grant", "purchased", pack, p, PackSize) \notin rows
      /\ Row("grant", "manual", pack, p, d) \notin rows
  BY <1>1, GrantStep
<1>3. PICK x, y : /\ x = Row("grant", "purchased", pack, p, PackSize)
                  /\ y = Row("grant", "manual", pack, p, d)
  OBVIOUS
<1>4. more = rows \cup {x} \cup (IF d > 0 THEN {y} ELSE {})
  BY <1>1, <1>2, <1>3 DEF PackRows
<1>5. /\ Summable(rows) /\ \A r \in rows : r.period \in Months /\ r.period <= m
      /\ m \in Months /\ s \in Nat /\ PackSize \in Nat
  BY <1>1, KeepingSums, LedgerAssumption DEF Keeping, TypeOK, Counting
<1>6. PICK N, B, a : /\ N = OverspendFrom(rows, p + 1)
                     /\ B = Total(Bought(rows)) /\ a = Pool(rows, p)
  OBVIOUS
<1>7. PICK first, early : first = FirstPeriod(rows) /\ early = (Bought(rows) # {} /\ first <= p)
  OBVIOUS
<1>8. /\ Summable(more)
      /\ Pool(more, p) = a + d
      /\ \A q : q # p => Pool(more, q) = Pool(rows, q)
      /\ Total(Bought(more)) = B + PackSize
      /\ Bought(rows) # {} => first \in Months /\ \E r \in rows : r.period = first
      /\ FirstPeriod(more) = IF early THEN first ELSE p
      /\ (\A r \in Bought(rows) : ~(r.period <= p)) <=> ~early
  <2>1. /\ Summable(more)
        /\ \A q : Pool(more, q) = IF q = p THEN Pool(rows, q) + d ELSE Pool(rows, q)
        /\ Total(Bought(more)) = Total(Bought(rows)) + PackSize
        /\ Bought(rows) # {} =>
               FirstPeriod(rows) \in Months /\ \E r \in rows : r.period = FirstPeriod(rows)
        /\ FirstPeriod(more) = IF Bought(rows) # {} /\ FirstPeriod(rows) <= p
                               THEN FirstPeriod(rows) ELSE p
        /\ (\A r \in Bought(rows) : ~(r.period <= p))
               <=> ~(Bought(rows) # {} /\ FirstPeriod(rows) <= p)
    <3>1. x \notin rows /\ y \notin rows /\ p \in Months /\ d \in Nat
      BY <1>2, <1>3
    <3>2. Summable(rows) /\ \A r \in rows : r.period \in Months
      BY <1>5
    <3>. QED  BY <1>3, <1>4, <3>1, <3>2, PackComesIn
  <2>. QED  BY <1>6, <1>7, <2>1
<1>p. \A r \in rows : r.period \in Months
  BY <1>5
<1>9. N \in Nat /\ B \in Int /\ a \in Int /\ Months \subseteq Nat
  BY <1>5, <1>6, BucketTypes, OverspendTypes DEF Months
<1>10. /\ p <= m /\ N <= s
       /\ ~early /\ buyer[b].first <= p => OverspendFrom(rows, p) <= d + s
  BY <1>1, <1>2, <1>6, <1>8 DEF Counting, Counted, NoPackUpTo, FirstRead
<1>11. m = p => N = 0
  <2>. SUFFICES ASSUME m = p PROVE N = 0
    OBVIOUS
  <2>1. ASSUME NEW r \in rows PROVE ~(r.period >= p + 1)
    <3>1. r.period \in Nat /\ p \in Nat /\ r.period <= p
      BY <1>2, <1>5, <1>9
    <3>. QED  BY <3>1
  <2>. QED  BY <1>5, <1>6, <2>1, OverspendNone
<1>12. /\ Overspent(rows, p) = Floor(-a) /\ Overspent(more, p) = Floor(-(a + d))
       /\ OverspendFrom(rows, p) = Floor(-a) + N
  <2>1. Overspent(rows, p) = Floor(-a) /\ Overspent(more, p) = Floor(-(a + d))
    BY <1>2, <1>6, <1>8, <1>9 DEF Overspent, Floor
  <2>. QED  BY <1>2, <1>5, <1>6, <2>1, OverspendFirst
<1>13. \A q : p >= q => OverspendFrom(more, q)
                           = OverspendFrom(rows, q) + Floor(-(a + d)) - Floor(-a)
  <2>1. \A q \in Months : q # p => Pool(more, q) = Pool(rows, q)
    BY <1>8
  <2>2. Summable(rows) /\ Summable(more) /\ p \in Months
    BY <1>2, <1>5, <1>8
  <2>3. ASSUME NEW q, p >= q
        PROVE  OverspendFrom(more, q)
                  = OverspendFrom(rows, q) + Overspent(more, p) - Overspent(rows, p)
    BY <2>1, <2>2, <2>3, OverspendChange
  <2>. QED  BY <1>12, <2>3
<1>14. PICK before, after : before = Purchased(rows) /\ after = Purchased(more)
  OBVIOUS
<1>15. before \in Int /\ after \in Int
  BY <1>5, <1>8, <1>14, BucketTypes
<1>16. PICK g \in Nat : /\ Balance(more, m) = Balance(rows, m) + g + after - before
                        /\ m = p => g = Floor(a + d) - Floor(a)
                        /\ m # p => g = 0
  <2>1. CASE m = p
    <3>1. Balance(rows, m) = Floor(a) + before /\ Balance(more, m) = Floor(a + d) + after
      BY <1>6, <1>8, <1>14, <2>1 DEF Balance
    <3>2. /\ Floor(a) \in Int /\ Floor(a + d) \in Int
          /\ Floor(a + d) - Floor(a) \in Nat
      BY <1>2, <1>9 DEF Floor
    <3>3. Balance(more, m) = Balance(rows, m) + (Floor(a + d) - Floor(a)) + after - before
      BY <1>15, <3>1, <3>2
    <3>. QED  BY <2>1, <3>2, <3>3
  <2>2. CASE m # p
    <3>1. PICK c : c = Floor(Pool(rows, m))
      OBVIOUS
    <3>2. Balance(rows, m) = c + before /\ Balance(more, m) = c + after
      BY <1>8, <1>14, <2>2, <3>1 DEF Balance
    <3>3. c \in Int
      BY <1>5, <3>1, BucketTypes DEF Floor
    <3>4. Balance(more, m) = Balance(rows, m) + 0 + after - before
      BY <1>15, <3>2, <3>3
    <3>. QED  BY <2>2, <3>4
  <2>. QED  BY <2>1, <2>2
<1>17. PICK D, ours : D = Debt(rows, p) /\ ours = (Debt(Older(rows, p), p) = 0)
  OBVIOUS
<1>18. /\ NothingUncovered(b) <=> D <= d + s /\ buyer[b].first <= p
       /\ OwesThisMonthOnly(b) <=> ours
       /\ DebtIsCurrent(b) <=> D = d
  BY <1>1, <1>17 DEF NothingUncovered, OwesThisMonthOnly, DebtIsCurrent, Older
<1>19. SUFFICES
         /\ D <= d + s /\ buyer[b].first <= p /\ ours => after >= before + PackSize - s
         /\ D <= d + s /\ buyer[b].first <= p /\ ~ours /\ m = p
                => g + after >= before + PackSize - s
         /\ D = d /\ ours => g + after <= before + PackSize
  <2>1. Balance(rows, m) \in Int
    BY <1>5, BucketTypes
  <2>2. PICK u, v : u = Balance(rows, m) /\ v = Balance(more, m)
    OBVIOUS
  <2>3. /\ PackRaisesBalance(b) <=> (m = p \/ ours => v >= u + PackSize - s)
        /\ NothingHandedBack(b) <=> (D = d /\ ours => v <= u + PackSize)
        /\ PackFillsBucket(b) <=> after >= before + PackSize - s
    BY <1>1, <1>14, <1>18, <2>2 DEF PackRaisesBalance, NothingHandedBack, PackFillsBucket
  <2>4. /\ v >= u + PackSize - s <=> g + after >= before + PackSize - s
        /\ v <= u + PackSize <=> g + after <= before + PackSize
        /\ after >= before + PackSize - s => g + after >= before + PackSize - s
    BY <1>5, <1>15, <1>16, <2>1, <2>2
  <2>. QED  BY <1>18, <2>3, <2>4
<1>20. CASE early
  <2>1. PICK O : O = OverspendFrom(rows, first)
    OBVIOUS
  <2>2. first \in Months /\ first <= p /\ Bought(rows) # {}
    BY <1>7, <1>8, <1>20
  <2>3. PICK w \in Nat : (ours <=> w <= B) /\ O = w + OverspendFrom(rows, p)
    <3>1. Summable(rows) /\ p \in Months
      BY <1>2, <1>5
    <3>2. PICK w \in Nat : /\ Debt(Older(rows, p), p) = 0 <=> w <= B
                           /\ OverspendFrom(rows, first) = w + OverspendFrom(rows, p)
      BY <1>p, <1>6, <1>7, <2>2, <3>1, OlderDebt
    <3>. QED  BY <1>17, <2>1, <3>2
  <2>4. O = w + Floor(-a) + N /\ Floor(-a) \in Int
    BY <1>9, <1>12, <2>3 DEF Floor
  <2>5. before = IF B <= 0 THEN 0 ELSE Floor(B - O)
    BY <1>6, <1>7, <1>14, <2>1 DEF Purchased
  <2>6. after = IF B + PackSize <= 0 THEN 0
                ELSE Floor(B + PackSize - (O + Floor(-(a + d)) - Floor(-a)))
    <3>1. OverspendFrom(more, first) = O + Floor(-(a + d)) - Floor(-a)
      BY <1>2, <1>9, <1>13, <2>1, <2>2
    <3>2. FirstPeriod(more) = first
      BY <1>8, <1>20
    <3>3. PICK T, Q : T = Total(Bought(more)) /\ Q = OverspendFrom(more, FirstPeriod(more))
      OBVIOUS
    <3>4. after = IF T <= 0 THEN 0 ELSE Floor(T - Q)
      BY <1>14, <3>3 DEF Purchased
    <3>5. T = B + PackSize
      BY <1>8, <3>3
    <3>6. Q = O + Floor(-(a + d)) - Floor(-a)
      BY <3>1, <3>2, <3>3
    <3>7. T \in Int /\ B \in Int /\ PackSize \in Int /\ Q \in Int
      BY <1>5, <1>8, <1>9, <3>3, BucketTypes
    <3>8. CASE B + PackSize <= 0
      BY <3>4, <3>5, <3>8
    <3>9. CASE ~(B + PackSize <= 0)
      <4>1. after = Floor(T - Q)
        BY <3>4, <3>5, <3>9
      <4>2. T - Q = B + PackSize - (O + Floor(-(a + d)) - Floor(-a))
        <5>1. Floor(-a) \in Int /\ Floor(-(a + d)) \in Int
          BY <1>2, <1>9 DEF Floor
        <5>2. O \in Int
          BY <1>5, <1>9, BucketTypes, <2>1
        <5>. QED  BY <3>5, <3>6, <3>7, <5>1, <5>2
      <4>. QED  BY <3>9, <4>1, <4>2
    <3>. QED  BY <3>8, <3>9
  <2>7. D = Floor(O - B)
    BY <1>6, <1>7, <1>17, <2>1, <2>2 DEF Debt
  <2>8. /\ Floor(O - B) <= d + s /\ w <= B => after >= before + PackSize - s
        /\ Floor(O - B) <= d + s /\ ~(w <= B) /\ N = 0
               => Floor(a + d) + after >= Floor(a) + before + PackSize - s
        /\ Floor(O - B) = d /\ w <= B => after <= before + PackSize
        /\ Floor(O - B) = d /\ w <= B /\ N = 0
               => Floor(a + d) + after <= Floor(a) + before + PackSize
    <3>1. AfterPack(B, O, a, w, N, PackSize, d, s, before, after)
      BY <1>2, <1>5, <1>9, <1>10, <2>4, <2>5, <2>6 DEF AfterPack
    <3>. QED  BY <3>1, WorthAfterPack
  <2>9. Floor(a) \in Int /\ Floor(a + d) \in Int
    BY <1>2, <1>9 DEF Floor
  <2>10. CASE m = p
    BY <1>5, <1>11, <1>15, <1>16, <2>3, <2>7, <2>8, <2>9, <2>10
  <2>11. CASE m # p
    BY <1>5, <1>15, <1>16, <2>3, <2>7, <2>8, <2>11
  <2>. QED  BY <2>10, <2>11
<1>21. CASE ~early
  <2>1. after = IF B + PackSize <= 0 THEN 0
                ELSE Floor(B + PackSize - (N + Floor(-(a + d))))
    <3>1. OverspendFrom(more, p) = N + Floor(-(a + d))
      <4>1. OverspendFrom(more, p) = Floor(-a) + N + Floor(-(a + d)) - Floor(-a)
        BY <1>2, <1>9, <1>12, <1>13
      <4>2. Floor(-a) \in Int /\ Floor(-(a + d)) \in Int
        BY <1>2, <1>9 DEF Floor
      <4>. QED  BY <1>9, <4>1, <4>2
    <3>2. FirstPeriod(more) = p
      BY <1>8, <1>21
    <3>3. PICK T, Q : T = Total(Bought(more)) /\ Q = OverspendFrom(more, FirstPeriod(more))
      OBVIOUS
    <3>4. after = IF T <= 0 THEN 0 ELSE Floor(T - Q)
      BY <1>14, <3>3 DEF Purchased
    <3>5. T = B + PackSize
      BY <1>8, <3>3
    <3>6. Q = N + Floor(-(a + d))
      BY <3>1, <3>2, <3>3
    <3>7. T \in Int /\ B \in Int /\ PackSize \in Int /\ Q \in Int
      BY <1>5, <1>8, <1>9, <3>3, BucketTypes
    <3>8. CASE B + PackSize <= 0
      BY <3>4, <3>5, <3>8
    <3>9. CASE ~(B + PackSize <= 0)
      <4>1. after = Floor(T - Q)
        BY <3>4, <3>5, <3>9
      <4>2. T - Q = B + PackSize - (N + Floor(-(a + d)))
        <5>1. Floor(-a) \in Int /\ Floor(-(a + d)) \in Int
          BY <1>2, <1>9 DEF Floor
        <5>2. N \in Int
          BY <1>5, <1>9, BucketTypes
        <5>. QED  BY <3>5, <3>6, <3>7, <5>1, <5>2
      <4>. QED  BY <3>9, <4>1, <4>2
    <3>. QED  BY <3>8, <3>9
  <2>2. buyer[b].first <= p => Floor(-a) + N <= d + s
    BY <1>10, <1>12, <1>21
  <2>3. Floor(a) \in Int /\ Floor(a + d) \in Int
    BY <1>2, <1>9 DEF Floor
  <2>4. CASE Bought(rows) = {}
    <3>1. B = 0 /\ before = 0
      BY <1>6, <1>14, <2>4, TotalEmpty DEF Purchased
    <3>2. Bought(Older(rows, p)) = {}
      BY <2>4 DEF Bought, Older
    <3>3. ours
      <4>1. Summable(Older(rows, p))
        BY <1>5, SummablePart DEF Older
      <4>2. \A r \in Older(rows, p) : r.kind # "purchased" => ~(r.period >= p)
        <5>1. ASSUME NEW r \in Older(rows, p) PROVE ~(r.period >= p)
          <6>1. r.period < p /\ r.period \in Nat /\ p \in Nat
            BY <1>2, <1>5, <1>9, <2>4 DEF Older
          <6>. QED  BY <6>1
        <5>. QED  BY <5>1
      <4>3. OverspendFrom(Older(rows, p), p) = 0
        BY <4>1, <4>2, OverspendNone
      <4>4. Debt(Older(rows, p), p) = Floor(0 - 0)
        BY <3>2, <4>3, TotalEmpty DEF Debt
      <4>5. Debt(Older(rows, p), p) = 0
        BY <4>4 DEF Floor
      <4>. QED  BY <1>17, <4>5, Zenon
    <3>4. D = Floor(-a) + N
      <4>1. PICK Q : Q = OverspendFrom(rows, p)
        OBVIOUS
      <4>2. D = Floor(Q - 0)
        BY <1>17, <2>4, <4>1, TotalEmpty DEF Debt
      <4>. QED  BY <1>9, <1>12, <4>1, <4>2 DEF Floor
    <3>5. before = Floor(B - 0)
      BY <3>1 DEF Floor
    <3>6. /\ Floor(-a) + N <= d + s => after >= before + PackSize - s
          /\ after <= before + PackSize
          /\ B = 0 /\ N = 0 /\ d = Floor(-a)
                 => Floor(a + d) + after <= Floor(a) + before + PackSize
      <4>1. B \in Nat /\ 0 <= N
        BY <1>9, <3>1
      <4>2. FirstPack(B, 0, a, N, PackSize, d, s, before, after)
        BY <1>2, <1>5, <1>9, <1>10, <2>1, <3>5, <4>1 DEF FirstPack
      <4>. QED  BY <4>2, WorthOfFirstPack
    <3>7. CASE m = p
      <4>1. D = d => d = Floor(-a)
        BY <1>9, <1>11, <3>4, <3>7 DEF Floor
      <4>. QED  BY <1>5, <1>11, <1>15, <1>16, <2>2, <2>3, <3>1, <3>3, <3>6, <3>7, <4>1
    <3>8. CASE m # p
      BY <1>5, <1>15, <1>16, <2>2, <3>3, <3>6, <3>8
    <3>. QED  BY <3>7, <3>8
  <2>5. CASE Bought(rows) # {}
    <3>1. first \in Months /\ ~(first <= p) /\ p + 1 \in Months /\ p + 1 <= first /\ m # p
      <4>1. first \in Nat /\ p \in Nat /\ m \in Nat /\ ~(first <= p)
        BY <1>2, <1>5, <1>7, <1>8, <1>9, <1>21, <2>5
      <4>2. first <= m
        BY <1>5, <1>8, <2>5
      <4>3. first \in Months
        BY <1>8, <2>5
      <4>4. p + 1 \in Months
        BY <1>2, <4>1, <4>3, LedgerAssumption DEF Months
      <4>. QED  BY <4>1, <4>2, <4>3, <4>4
    <3>2. ours <=> B >= 0
      BY <1>2, <1>5, <1>p, <1>6, <1>7, <1>17, <2>5, <3>1, OlderDebt
    <3>3. PICK O : O = OverspendFrom(rows, first)
      OBVIOUS
    <3>4. O \in Nat /\ O <= N
      BY <1>5, <1>6, <3>1, <3>3, OverspendLater, OverspendTypes
    <3>. SUFFICES ASSUME B >= 0
                  PROVE  /\ buyer[b].first <= p => after >= before + PackSize - s
                         /\ after <= before + PackSize
      BY <1>5, <1>15, <1>16, <3>1, <3>2
    <3>5. before = Floor(B - O)
      <4>1. before = IF B <= 0 THEN 0 ELSE Floor(B - O)
        BY <1>6, <1>7, <1>14, <3>3 DEF Purchased
      <4>. QED  BY <1>9, <3>4, <4>1 DEF Floor
    <3>6. B \in Nat
      BY <1>9
    <3>7. FirstPack(B, O, a, N, PackSize, d, s, before, after)
      BY <1>2, <1>5, <1>9, <1>10, <2>1, <3>4, <3>5, <3>6 DEF FirstPack
    <3>. QED  BY <2>2, <3>7, WorthOfFirstPack
  <2>. QED  BY <2>4, <2>5
<1>. QED  BY <1>20, <1>21

\* A pack is worth its size, no less and no more, and fills the bucket that does not
\* expire if the debt is of the month of the purchase, for any number of deliveries
\* of any packs, with charges, monthly grants and reversals in between.
THEOREM PackIsWorthIt == Spec => PackIsWorthItsSize
<1>1. Keeping /\ Counting /\ [Next]_vars
          => [\A b \in Buyers :
                 Grants(b) =>
                     /\ NothingUncovered(b) =>
                            /\ PackRaisesBalance(b)
                            /\ OwesThisMonthOnly(b) => PackFillsBucket(b)
                     /\ NothingHandedBack(b)]_vars
  BY PackWorth
<1>2. Init => Keeping /\ Counting
  BY KeepingInit, CountingInit
<1>3. Keeping /\ Counting /\ [Next]_vars => (Keeping /\ Counting)'
  BY KeepingStep, CountingStep
<1>. QED  BY <1>1, <1>2, <1>3, PTL DEF Spec, PackIsWorthItsSize
=============================================================================
