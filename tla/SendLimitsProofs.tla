-------------------------- MODULE SendLimitsProofs --------------------------
(***************************************************************************)
(* Theorems about SendLimits, for any assets, amounts, windows, clocks and *)
(* numbers of transactions.  The send-limit cells the node holds are a     *)
(* line that starts with the genesis; each transaction on it has a record  *)
(* of every earlier one within the window, so the total it was signed with *)
(* is at least what left.                                                  *)
(*                                                                         *)
(* And about TransactionRules, for transactions of any number of any       *)
(* cells: what is shown and what is counted of a transaction are sums over *)
(* its cells, each compared, cell by cell, with what the account loses.    *)
(*                                                                         *)
(* What a sum is, and how it compares with others, is shown first, with    *)
(* least numbers in place of an induction.                                 *)
(***************************************************************************)
EXTENDS AccountSigning, FiniteSetTheorems, WellFoundedInduction, TLAPS

-----------------------------------------------------------------------------
(* Least and greatest numbers, and sums.                                    *)

\* A set of natural numbers has a least one.
LEMMA LeastNumber ==
    ASSUME NEW S \in SUBSET Nat, S # {}
    PROVE  \E n \in S : \A m \in S : n <= m
<1> DEFINE R == {p \in Nat \X Nat : p[1] < p[2]}
<1>1. IsWellFoundedOn(R, Nat)
  BY NatLessThanWellFounded DEF OpToRel
<1>2. PICK n \in S : \A m \in S : ~ (<<m, n>> \in R)
  <2> HIDE DEF R
  <2> QED
    BY <1>1, WFMin
<1>3. \A m \in S : n <= m
  <2> TAKE m \in S
  <2>1. m \in Nat /\ n \in Nat /\ <<m, n>> \notin R
    BY <1>2
  <2>2. ~(m < n)
    BY <2>1
  <2> QED
    BY <2>1, <2>2
<1> QED
  BY <1>3

\* A set of natural numbers below a bound has a greatest one.
LEMMA GreatestNumber ==
    ASSUME NEW b \in Nat, NEW S \in SUBSET (0 .. b), S # {}
    PROVE  \E n \in S : \A m \in S : m <= n
<1> DEFINE T == {b - n : n \in S}
<1>1. T \in SUBSET Nat /\ T # {}
  <2>1. \A n \in S : b - n \in Nat
    OBVIOUS
  <2> QED
    BY <2>1
<1>2. PICK n \in T : \A m \in T : n <= m
  <2> HIDE DEF T
  <2> QED
    BY <1>1, LeastNumber
<1>3. PICK k \in S : n = b - k
  BY <1>2
<1>4. \A m \in S : m <= k
  <2> TAKE m \in S
  <2>1. b - m \in T
    OBVIOUS
  <2>2. b - k <= b - m
    BY <1>2, <1>3, <2>1
  <2> QED
    BY <2>2
<1> QED
  BY <1>4

(* The number a sum takes next, the sets of at most n numbers, and a function that adds up over them. *)
NextOf(s) == CHOOSE i \in s : TRUE
AtMost(N, n) == {s \in SUBSET (1 .. N) : Cardinality(s) <= n}
Adding(w, g, D) == [s \in D |-> IF s = {} THEN 0 ELSE w[NextOf(s)] + g[s \ {NextOf(s)}]]

\* Taking a number away leaves a smaller set.
LEMMA NextTaken ==
    ASSUME NEW N \in Nat, NEW s \in SUBSET (1 .. N)
    PROVE  /\ IsFiniteSet(s) /\ Cardinality(s) \in Nat /\ (Cardinality(s) = 0 <=> s = {})
           /\ s # {} => /\ NextOf(s) \in s /\ s \ {NextOf(s)} \in SUBSET (1 .. N)
                        /\ Cardinality(s \ {NextOf(s)}) = Cardinality(s) - 1
<1>1. IsFiniteSet(1 .. N)
  BY FS_Interval
<1>2. IsFiniteSet(s)
  BY <1>1, FS_Subset
<1>3. Cardinality(s) \in Nat /\ (Cardinality(s) = 0 <=> s = {})
  BY <1>2, FS_CardinalityType, FS_EmptySet
<1>4. ASSUME s # {} PROVE NextOf(s) \in s
  BY <1>4 DEF NextOf
<1>5. ASSUME s # {} PROVE Cardinality(s \ {NextOf(s)}) = Cardinality(s) - 1
  BY <1>2, <1>4, <1>5, FS_RemoveElement
<1>6. QED
  BY <1>2, <1>3, <1>4, <1>5

\* What holds of no number, and of a set when it holds of the set without its next number, holds of every set.
LEMMA ByNext ==
    ASSUME NEW N \in Nat, NEW Good \in SUBSET SUBSET (1 .. N), {} \in Good,
           \A s \in SUBSET (1 .. N) : s # {} /\ s \ {NextOf(s)} \in Good => s \in Good
    PROVE  \A s \in SUBSET (1 .. N) : s \in Good
<1> DEFINE Bad == {s \in SUBSET (1 .. N) : s \notin Good}
           Sizes == {Cardinality(s) : s \in Bad}
<1>1. Bad = {}
  <2> SUFFICES ASSUME Bad # {} PROVE FALSE
    OBVIOUS
  <2>1. Sizes \in SUBSET Nat /\ Sizes # {}
    <3>1. \A s \in SUBSET (1 .. N) : Cardinality(s) \in Nat
      BY NextTaken
    <3>2. QED
      BY <3>1
  <2>2. PICK k \in Sizes : \A m \in Sizes : k <= m
    <3> HIDE DEF Sizes
    <3>1. QED
      BY <2>1, LeastNumber
  <2>3. PICK s \in Bad : \A t \in Bad : Cardinality(s) <= Cardinality(t)
    BY <2>2
  <2>4. /\ s # {} /\ s \ {NextOf(s)} \in SUBSET (1 .. N) /\ Cardinality(s) \in Nat
        /\ Cardinality(s \ {NextOf(s)}) = Cardinality(s) - 1
    BY NextTaken
  <2>5. s \ {NextOf(s)} \notin Bad
    <3> HIDE DEF Bad
    <3>1. QED
      BY <2>3, <2>4
  <2>6. QED
    BY <2>4, <2>5
<1>2. QED
  BY <1>1

\* Numbers can be added up, one at a time.
LEMMA AddingExists ==
    ASSUME NEW N \in Nat, NEW w \in [1 .. N -> Nat], NEW n \in Nat
    PROVE  \E g \in [AtMost(N, n) -> Nat] : g = Adding(w, g, AtMost(N, n))
<1> DEFINE Good(k) == \E g \in [AtMost(N, k) -> Nat] : g = Adding(w, g, AtMost(N, k))
           Bad == {k \in Nat : ~Good(k)}
<1>1. Good(0)
  <2> DEFINE g == [s \in AtMost(N, 0) |-> 0]
  <2>1. ASSUME NEW s \in AtMost(N, 0) PROVE s = {}
    <3>1. s \in SUBSET (1 .. N) /\ Cardinality(s) <= 0
      BY DEF AtMost
    <3>2. Cardinality(s) \in Nat /\ (Cardinality(s) = 0 <=> s = {})
      BY <3>1, NextTaken
    <3>3. QED
      BY <3>1, <3>2
  <2>2. g \in [AtMost(N, 0) -> Nat] /\ g = Adding(w, g, AtMost(N, 0))
    BY <2>1 DEF Adding
  <2> HIDE DEF g
  <2>3. QED
    BY <2>2
<1>2. ASSUME NEW k \in Nat, Good(k) PROVE Good(k + 1)
  <2>1. PICK f \in [AtMost(N, k) -> Nat] : f = Adding(w, f, AtMost(N, k))
    BY <1>2
  <2> DEFINE g == Adding(w, f, AtMost(N, k + 1))
  <2>2. ASSUME NEW s \in AtMost(N, k + 1), s # {}
        PROVE  s \ {NextOf(s)} \in AtMost(N, k) /\ w[NextOf(s)] \in Nat /\ g[s] = w[NextOf(s)] + f[s \ {NextOf(s)}]
    <3>1. s \in SUBSET (1 .. N) /\ Cardinality(s) <= k + 1
      BY DEF AtMost
    <3>2. /\ NextOf(s) \in s /\ s \ {NextOf(s)} \in SUBSET (1 .. N) /\ Cardinality(s) \in Nat
          /\ Cardinality(s \ {NextOf(s)}) = Cardinality(s) - 1
      BY <2>2, <3>1, NextTaken
    <3>3. NextOf(s) \in 1 .. N /\ Cardinality(s \ {NextOf(s)}) <= k
      <4>1. NextOf(s) \in 1 .. N
        BY <3>1, <3>2
      <4>2. Cardinality(s) - 1 <= k
        BY <3>1, <3>2
      <4>3. QED
        BY <3>2, <4>1, <4>2
    <3>4. s \ {NextOf(s)} \in AtMost(N, k) /\ w[NextOf(s)] \in Nat
      BY <3>2, <3>3 DEF AtMost
    <3>5. g[s] = w[NextOf(s)] + f[s \ {NextOf(s)}]
      BY <2>2 DEF Adding
    <3>6. QED
      BY <3>4, <3>5
  <2>3. ASSUME NEW s \in AtMost(N, k) PROVE s \in AtMost(N, k + 1)
    <3>1. s \in SUBSET (1 .. N) /\ Cardinality(s) <= k
      BY DEF AtMost
    <3>2. Cardinality(s) \in Nat
      BY <3>1, NextTaken
    <3>3. QED
      BY <3>1, <3>2 DEF AtMost
  <2>4. ASSUME NEW s \in AtMost(N, k) PROVE g[s] = f[s]
    BY <2>1, <2>3 DEF Adding
  <2>5. \A s \in AtMost(N, k + 1) : s = {} => g[s] = 0
    BY DEF Adding
  <2>6. g = [s \in AtMost(N, k + 1) |-> g[s]]
    BY DEF Adding
  <2> HIDE DEF g
  <2>7. ASSUME NEW s \in AtMost(N, k + 1) PROVE g[s] \in Nat
    <3>1. CASE s # {}
      <4>1. s \ {NextOf(s)} \in AtMost(N, k) /\ w[NextOf(s)] \in Nat /\ g[s] = w[NextOf(s)] + f[s \ {NextOf(s)}]
        BY <2>2, <3>1
      <4>2. QED
        BY <2>1, <4>1
    <3>2. QED
      BY <2>5, <3>1
  <2>8. ASSUME NEW s \in AtMost(N, k + 1) PROVE g[s] = Adding(w, g, AtMost(N, k + 1))[s]
    <3>1. CASE s = {}
      BY <2>5, <3>1 DEF Adding
    <3>2. CASE s # {}
      <4>1. s \ {NextOf(s)} \in AtMost(N, k) /\ g[s] = w[NextOf(s)] + f[s \ {NextOf(s)}]
        BY <2>2, <3>2
      <4>2. g[s \ {NextOf(s)}] = f[s \ {NextOf(s)}]
        BY <2>4, <4>1
      <4>3. Adding(w, g, AtMost(N, k + 1))[s] = w[NextOf(s)] + g[s \ {NextOf(s)}]
        BY <3>2 DEF Adding
      <4>4. QED
        BY <4>1, <4>2, <4>3
    <3>3. QED
      BY <3>1, <3>2
  <2>9. g \in [AtMost(N, k + 1) -> Nat] /\ g = Adding(w, g, AtMost(N, k + 1))
    BY <2>6, <2>7, <2>8 DEF Adding
  <2>10. QED
    BY <2>9
<1>3. Bad = {}
  <2> SUFFICES ASSUME Bad # {} PROVE FALSE
    OBVIOUS
  <2>1. PICK k \in Bad : \A m \in Bad : k <= m
    <3>1. Bad \in SUBSET Nat
      OBVIOUS
    <3> HIDE DEF Bad
    <3>2. QED
      BY <3>1, LeastNumber
  <2>2. k \in Nat /\ ~Good(k) /\ k # 0
    BY <1>1
  <2> HIDE DEF Good
  <2>3. k - 1 \in Nat /\ k - 1 \notin Bad
    <3>1. k - 1 \in Nat /\ ~(k <= k - 1)
      BY <2>2
    <3> HIDE DEF Bad
    <3>2. QED
      BY <2>1, <3>1
  <2>4. Good(k - 1)
    BY <2>3
  <2>5. Good((k - 1) + 1) /\ (k - 1) + 1 = k
    BY <1>2, <2>3, <2>4
  <2>6. QED
    BY <2>2, <2>5
<1>4. Good(n)
  <2> HIDE DEF Good
  <2>1. QED
    BY <1>3
<1>5. QED
  BY <1>4

(* g has the sum of w over each set of its numbers. *)
AddsUp(N, w, g) ==
    /\ SumFunction(w) = g[1 .. N]
    /\ g[{}] = 0 /\ \A s \in SUBSET (1 .. N) : s # {} => g[s] = w[NextOf(s)] + g[s \ {NextOf(s)}]

\* SumFunction adds up this way.
LEMMA SumAdds ==
    ASSUME NEW N \in Nat, NEW w \in [1 .. N -> Nat]
    PROVE  \E g \in [SUBSET (1 .. N) -> Nat] : AddsUp(N, w, g)
<1> DEFINE All == SUBSET (1 .. N)
           total == CHOOSE g : g = Adding(w, g, All)
<1>1. Cardinality(1 .. N) \in Nat /\ AtMost(N, Cardinality(1 .. N)) = All
  <2>1. IsFiniteSet(1 .. N)
    BY FS_Interval
  <2>2. \A s \in All : Cardinality(s) <= Cardinality(1 .. N)
    BY <2>1, FS_Subset
  <2>3. QED
    BY <2>1, <2>2, FS_CardinalityType DEF AtMost
<1>2. PICK f \in [All -> Nat] : f = Adding(w, f, All)
  <2> HIDE DEF All
  <2>1. QED
    BY <1>1, AddingExists
<1>3. total = Adding(w, total, All)
  BY <1>2
<1>4. SumFunction(w) = total[1 .. N]
  <2>1. DOMAIN w = 1 .. N
    OBVIOUS
  <2>2. SumFunction(w) = SumFunctionOnSet(w, 1 .. N)
    BY <2>1 DEF SumFunction
  <2>3. QED
    BY <2>2 DEF SumFunctionOnSet, FoldFunctionOnSet, MapThenFoldSet, Adding, NextOf
<1>5. total[{}] = 0 /\ \A s \in All : s # {} => total[s] = w[NextOf(s)] + total[s \ {NextOf(s)}]
  <2> HIDE DEF total
  <2>1. ASSUME NEW s \in All PROVE total[s] = IF s = {} THEN 0 ELSE w[NextOf(s)] + total[s \ {NextOf(s)}]
    BY <1>3 DEF Adding
  <2>2. {} \in All
    OBVIOUS
  <2>3. QED
    BY <2>1, <2>2
<1>6. total = [s \in All |-> total[s]]
  BY <1>3 DEF Adding
<1> HIDE DEF total
<1> DEFINE Good == {s \in All : total[s] \in Nat}
<1>7. \A s \in All : s \in Good
  <2>1. {} \in Good
    BY <1>5
  <2>2. ASSUME NEW s \in All, s # {}, s \ {NextOf(s)} \in Good PROVE s \in Good
    <3>1. NextOf(s) \in s /\ s \ {NextOf(s)} \in All
      BY <2>2, NextTaken
    <3>2. w[NextOf(s)] \in Nat /\ total[s \ {NextOf(s)}] \in Nat
      BY <2>2, <3>1
    <3>3. total[s] = w[NextOf(s)] + total[s \ {NextOf(s)}]
      BY <1>5, <2>2
    <3>4. total[s] \in Nat
      <4> HIDE DEF Good
      <4>1. QED
        BY <3>2, <3>3
    <3>5. QED
      BY <3>4
  <2>3. Good \in SUBSET SUBSET (1 .. N)
    OBVIOUS
  <2> HIDE DEF Good
  <2>4. QED
    BY <2>1, <2>2, <2>3, ByNext
<1>8. total \in [All -> Nat]
  BY <1>6, <1>7
<1>9. QED
  BY <1>4, <1>5, <1>8 DEF AddsUp

\* A sum is a number, and one of no larger numbers is no larger.
LEMMA SumCompares ==
    ASSUME NEW N \in Nat, NEW v \in [1 .. N -> Nat], NEW w \in [1 .. N -> Nat], \A k \in 1 .. N : v[k] <= w[k]
    PROVE  SumFunction(v) \in Nat /\ SumFunction(w) \in Nat /\ SumFunction(v) <= SumFunction(w)
<1> DEFINE All == SUBSET (1 .. N)
<1>1. PICK f \in [All -> Nat] : AddsUp(N, v, f)
  BY SumAdds
<1>2. PICK g \in [All -> Nat] : AddsUp(N, w, g)
  BY SumAdds
<1> DEFINE Good == {s \in All : f[s] <= g[s]}
<1>3. {} \in Good
  BY <1>1, <1>2 DEF AddsUp
<1>4. ASSUME NEW s \in All, s # {}, s \ {NextOf(s)} \in Good PROVE s \in Good
  <2>1. NextOf(s) \in 1 .. N
    BY <1>4, NextTaken
  <2>2. f[s] = v[NextOf(s)] + f[s \ {NextOf(s)}] /\ g[s] = w[NextOf(s)] + g[s \ {NextOf(s)}]
    BY <1>1, <1>2, <1>4 DEF AddsUp
  <2>3. f[s \ {NextOf(s)}] <= g[s \ {NextOf(s)}] /\ f[s \ {NextOf(s)}] \in Nat /\ g[s \ {NextOf(s)}] \in Nat
    BY <1>4
  <2>4. v[NextOf(s)] <= w[NextOf(s)] /\ v[NextOf(s)] \in Nat /\ w[NextOf(s)] \in Nat
    BY <2>1
  <2>5. f[s] <= g[s]
    BY <2>2, <2>3, <2>4
  <2>6. QED
    BY <2>5
<1>5. \A s \in All : s \in Good
  <2>1. Good \in SUBSET SUBSET (1 .. N)
    OBVIOUS
  <2> HIDE DEF Good
  <2>2. QED
    BY <1>3, <1>4, <2>1, ByNext
<1>6. f[1 .. N] <= g[1 .. N]
  BY <1>5
<1>7. QED
  BY <1>1, <1>2, <1>6 DEF AddsUp

\* The sum of sums is the sum of all.
LEMMA SumSplits ==
    ASSUME NEW N \in Nat, NEW u \in [1 .. N -> Nat], NEW v \in [1 .. N -> Nat], NEW w \in [1 .. N -> Nat],
           \A k \in 1 .. N : u[k] = v[k] + w[k]
    PROVE  SumFunction(u) = SumFunction(v) + SumFunction(w)
<1> DEFINE All == SUBSET (1 .. N)
<1>0. PICK e \in [All -> Nat] : AddsUp(N, u, e)
  BY SumAdds
<1>1. PICK f \in [All -> Nat] : AddsUp(N, v, f)
  BY SumAdds
<1>2. PICK g \in [All -> Nat] : AddsUp(N, w, g)
  BY SumAdds
<1> DEFINE Good == {s \in All : e[s] = f[s] + g[s]}
<1>3. {} \in Good
  BY <1>0, <1>1, <1>2 DEF AddsUp
<1>4. ASSUME NEW s \in All, s # {}, s \ {NextOf(s)} \in Good PROVE s \in Good
  <2> DEFINE r == s \ {NextOf(s)}
             i == NextOf(s)
  <2>1. i \in 1 .. N
    BY <1>4, NextTaken
  <2>2. e[s] = u[i] + e[r] /\ f[s] = v[i] + f[r] /\ g[s] = w[i] + g[r]
    BY <1>0, <1>1, <1>2, <1>4 DEF AddsUp
  <2>3. e[r] = f[r] + g[r] /\ e[r] \in Nat /\ f[r] \in Nat /\ g[r] \in Nat
    BY <1>4
  <2>4. u[i] = v[i] + w[i] /\ u[i] \in Nat /\ v[i] \in Nat /\ w[i] \in Nat
    BY <2>1
  <2> HIDE DEF r, i
  <2>5. e[s] = f[s] + g[s]
    <3>1. e[s] = (v[i] + w[i]) + (f[r] + g[r])
      BY <2>2, <2>3, <2>4
    <3>2. f[s] + g[s] = (v[i] + f[r]) + (w[i] + g[r])
      BY <2>2
    <3>3. (v[i] + w[i]) + (f[r] + g[r]) = (v[i] + f[r]) + (w[i] + g[r])
      BY <2>3, <2>4
    <3>4. QED
      BY <3>1, <3>2, <3>3
  <2>6. QED
    BY <2>5
<1>5. \A s \in All : s \in Good
  <2>1. Good \in SUBSET SUBSET (1 .. N)
    OBVIOUS
  <2> HIDE DEF Good
  <2>2. QED
    BY <1>3, <1>4, <2>1, ByNext
<1>6. e[1 .. N] = f[1 .. N] + g[1 .. N]
  BY <1>5
<1>7. QED
  BY <1>0, <1>1, <1>2, <1>6 DEF AddsUp

\* The sum of zeros is zero.
LEMMA SumOfNothing ==
    ASSUME NEW N \in Nat, NEW w \in [1 .. N -> Nat], \A k \in 1 .. N : w[k] = 0
    PROVE  SumFunction(w) = 0
<1>1. SumFunction(w) = SumFunction(w) + SumFunction(w)
  BY SumSplits
<1>2. SumFunction(w) \in Nat
  BY SumCompares
<1>3. QED
  BY <1>1, <1>2

\* Numbers that are zero but for one have that one as their sum.
LEMMA SumOfOne ==
    ASSUME NEW N \in Nat, NEW w \in [1 .. N -> Nat], NEW i \in 1 .. N, \A k \in 1 .. N : k # i => w[k] = 0
    PROVE  SumFunction(w) = w[i]
<1> DEFINE All == SUBSET (1 .. N)
<1>1. PICK f \in [All -> Nat] : AddsUp(N, w, f)
  BY SumAdds
<1> DEFINE Good == {s \in All : f[s] = IF i \in s THEN w[i] ELSE 0}
<1>2. {} \in Good
  BY <1>1 DEF AddsUp
<1>3. ASSUME NEW s \in All, s # {}, s \ {NextOf(s)} \in Good PROVE s \in Good
  <2>1. NextOf(s) \in 1 .. N /\ NextOf(s) \in s
    BY <1>3, NextTaken
  <2>2. f[s] = w[NextOf(s)] + f[s \ {NextOf(s)}]
    BY <1>1, <1>3 DEF AddsUp
  <2>3. f[s \ {NextOf(s)}] = IF i \in s \ {NextOf(s)} THEN w[i] ELSE 0
    BY <1>3
  <2>4. w[i] \in Nat /\ (NextOf(s) # i => w[NextOf(s)] = 0)
    BY <2>1
  <2>5. f[s] = IF i \in s THEN w[i] ELSE 0
    <3>1. CASE NextOf(s) = i
      <4>1. f[s \ {NextOf(s)}] = 0
        BY <2>3, <3>1
      <4>2. QED
        BY <2>1, <2>2, <2>4, <3>1, <4>1
    <3>2. CASE NextOf(s) # i
      <4>1. f[s \ {NextOf(s)}] = IF i \in s THEN w[i] ELSE 0
        BY <2>3, <3>2
      <4>2. QED
        BY <2>2, <2>4, <3>2, <4>1
    <3>3. QED
      BY <3>1, <3>2
  <2>6. QED
    BY <2>5
<1>4. \A s \in All : s \in Good
  <2>1. Good \in SUBSET SUBSET (1 .. N)
    OBVIOUS
  <2> HIDE DEF Good
  <2>2. QED
    BY <1>2, <1>3, <2>1, ByNext
<1>5. f[1 .. N] = w[i]
  BY <1>4
<1>6. QED
  BY <1>1, <1>5 DEF AddsUp

\* A sum with a number that is not zero is not zero.
LEMMA SumPositive ==
    ASSUME NEW N \in Nat, NEW w \in [1 .. N -> Nat], NEW i \in 1 .. N, w[i] # 0
    PROVE  SumFunction(w) # 0
<1> DEFINE v == [k \in 1 .. N |-> IF k = i THEN w[i] ELSE 0]
<1>1. v \in [1 .. N -> Nat] /\ v[i] = w[i] /\ \A k \in 1 .. N : v[k] <= w[k] /\ (k # i => v[k] = 0)
  OBVIOUS
<1> HIDE DEF v
<1>2. SumFunction(v) = w[i]
  BY <1>1, SumOfOne
<1>3. SumFunction(v) <= SumFunction(w)
  BY <1>1, SumCompares
<1>4. QED
  BY <1>2, <1>3

-----------------------------------------------------------------------------
(* The inductive invariant.                                                 *)

\* A transaction spends the send-limit cell of an earlier one, and its record lists earlier ones.
Fits(t, n) ==
    /\ DOMAIN t.record \subseteq 1 .. n
    /\ IF t.kind = "chained" THEN t.cell \in 1 .. n /\ txs[t.cell].kind # "outside" /\ t.coin = 0
       ELSE t.cell = 0 /\ t.coin # 0

FitInv == \A i \in Txs, t \in Transactions : txs[i] = t => Fits(t, i - 1)

\* A time is a committed send's; a record holds no other.
TimeInv ==
    /\ \A i \in Txs : time[i] # 0 <=> (at[i] = "chain" /\ txs[i].kind = "chained")
    /\ \A i \in Txs, t \in Transactions : txs[i] = t => \A j \in DOMAIN t.record : t.record[j] \in {0, time[j]}

\* Of the transactions Lit signed, the records hold.
RecordInv == \A i \in Txs, t \in Transactions : txs[i] = t /\ t.kind = "chained" => RecordHolds(t)

\* So do those of the requests.
AskedInv ==
    \A p \in Purposes, t \in Transactions : request[p] # None /\ request[p].tx = t =>
        Fits(t, Len(txs)) /\ (t.kind = "chained" => RecordHolds(t))

\* What a transaction spends is spent once, and the node holds it.
NodeInv ==
    /\ \A i, j \in Held : i # j => ~Conflict(txs[i], txs[j])
    /\ \A i \in Held : txs[i].kind = "chained" => txs[i].cell \in Held
    /\ \A i \in OnChain : txs[i].kind = "chained" => txs[i].cell \in OnChain

\* The plain cells older than a genesis's were spent outside the chain of sends.
First(t) == \A c \in Coins : c < t.coin => \E i \in seen : txs[i].coin = c /\ txs[i].kind = "outside"
FirstInv == \A g \in Txs, t \in Transactions : txs[g] = t /\ t.kind = "genesis" => First(t)

\* The send-limit cells the node holds are a line: each transaction spends the newest before it, the first is the
\* genesis, and only the last is unspent.
SendCells == {i \in Held : txs[i].kind # "outside"}
LineInv ==
    /\ \A i, j \in SendCells : txs[i].kind = "chained" /\ j < i => j <= txs[i].cell
    /\ \A i, j \in SendCells : txs[i].kind = "genesis" => i <= j
    /\ \A i, j \in SendCells : (\A k \in SendCells : txs[k].cell # i) => j <= i

\* A send the node holds is among the previous entries of each later one, or was out of the window before that.
Past(i, j) == time[j] # 0 /\ time[j] + Window <= now /\ (time[i] # 0 => time[j] + Window <= time[i])
CoverInv ==
    \A i, j \in SendCells, t \in Transactions :
        txs[i] = t /\ t.kind = "chained" /\ txs[j].kind = "chained" /\ j < i => j \in DOMAIN Previous(t) \/ Past(i, j)

\* The clock a send is counted at: its commit, or now.
ClockOf(i) == IF time[i] # 0 THEN time[i] ELSE now

\* With what left in the window before it, a send without a code stays below the amounts.
Below(t, clock) ==
    \A a \in Assets : t.moved[a] > 0 /\ txs[t.cell].limit[a] # Unlimited =>
        Total(t, clock, a, Txs) + t.moved[a] < txs[t.cell].limit[a]
AmountInv ==
    \A i \in Txs, t \in Transactions, clock \in Nat :
        txs[i] = t /\ clock = ClockOf(i) /\ t.kind = "chained" /\ ~t.code => Below(t, clock)

IInv ==
    /\ TypeOK /\ FitInv /\ TimeInv /\ RecordInv /\ AskedInv
    /\ NodeInv /\ FirstInv /\ LineInv /\ CoverInv /\ AmountInv

-----------------------------------------------------------------------------
(* Transactions, records and totals.                                        *)

\* The parts of a transaction.
LEMMA TransactionFacts ==
    ASSUME NEW t \in Transactions
    PROVE  /\ t.kind \in {"genesis", "chained", "outside"} /\ t.cell \in 0 .. MaxTxs /\ t.coin \in Nat
           /\ t.moved \in [Assets -> Nat] /\ t.record \in Records /\ t.code \in BOOLEAN
           /\ DOMAIN t.record \subseteq 1 .. MaxTxs /\ \A j \in DOMAIN t.record : t.record[j] \in 0 .. MaxTime
<1>1. Zero \in [Assets -> Nat] /\ Flows \subseteq [Assets -> Nat] /\ Coins \subseteq Nat
  BY SendLimitsAssumption DEF Zero
<1>2. t.record \in Records /\ t.moved \in Flows \cup {Zero} /\ t.coin \in Coins \cup {0}
  BY DEF Transactions
<1>3. PICK S \in SUBSET (1 .. MaxTxs) : t.record \in [S -> 0 .. MaxTime]
  BY <1>2 DEF Records
<1>4. DOMAIN t.record \subseteq 1 .. MaxTxs /\ \A j \in DOMAIN t.record : t.record[j] \in 0 .. MaxTime
  BY <1>3
<1>5. t.kind \in {"genesis", "chained", "outside"} /\ t.cell \in 0 .. MaxTxs /\ t.code \in BOOLEAN
  BY DEF Transactions
<1>6. t.moved \in [Assets -> Nat]
  BY <1>1, <1>2
<1>7. t.coin \in Nat
  <2>1. \A c \in Coins : c \in Nat
    BY SendLimitsAssumption
  <2>2. t.coin \in Coins \/ t.coin = 0
    BY <1>2
  <2> QED
    BY <2>1, <2>2
<1> QED
  BY <1>2, <1>4, <1>5, <1>6, <1>7

\* What Lit signed, by its number.
LEMMA SignedFacts ==
    ASSUME TypeOK, NEW i \in Txs
    PROVE  txs[i] \in Transactions /\ i \in 1 .. MaxTxs /\ time[i] \in Nat /\ at[i] \in {"out", "pool", "chain"}
<1>1. MaxTxs \in Nat
  BY SendLimitsAssumption
<1> QED
  BY <1>1 DEF TypeOK, Txs

\* A step of the account's history: what is signed, committed and seen stays so, and time passes.
Grown ==
    /\ Txs \subseteq Txs'
    /\ \A i \in Txs : txs'[i] = txs[i] /\ (time'[i] = time[i] \/ (time[i] = 0 /\ time'[i] = now))
    /\ now \in Nat /\ now' \in Nat /\ now <= now' /\ seen \subseteq seen'

\* The previous entries of a transaction are earlier ones, with their commit times if any; they stay the same.
LEMMA PreviousFacts ==
    ASSUME TypeOK, FitInv, TimeInv, NEW t \in Transactions, t.kind = "chained", Fits(t, Len(txs))
    PROVE  /\ DOMAIN Previous(t) \subseteq 1 .. t.cell /\ t.cell \in Txs
           /\ txs[t.cell].kind = "chained" => t.cell \in DOMAIN Previous(t)
           /\ \A j \in DOMAIN Previous(t) : j \in Txs /\ Previous(t)[j] \in {0, time[j]} /\ TimeOf(t, j) = time[j]
<1>1. t.cell \in Txs /\ t.cell \in Nat \ {0}
  BY DEF Fits, Txs
<1> DEFINE u == txs[t.cell]
<1>2. u \in Transactions /\ Fits(u, t.cell - 1) /\ \A j \in DOMAIN u.record : u.record[j] \in {0, time[j]}
  BY <1>1, SignedFacts DEF FitInv, TimeInv
<1>3. DOMAIN u.record \subseteq 1 .. t.cell - 1
  BY <1>2 DEF Fits
<1>4. Previous(t) = IF u.kind = "genesis" THEN Empty
                    ELSE [i \in DOMAIN u.record \cup {t.cell} |-> IF i = t.cell THEN 0 ELSE u.record[i]]
  BY <1>1 DEF Previous
<1>5. DOMAIN Empty = {}
  BY DEF Empty
<1> HIDE DEF u
<1>6. DOMAIN Previous(t) \subseteq 1 .. t.cell
  BY <1>1, <1>3, <1>4, <1>5
<1>7. \A j \in DOMAIN Previous(t) : j \in Txs /\ Previous(t)[j] \in {0, time[j]}
  <2> TAKE j \in DOMAIN Previous(t)
  <2>1. j \in Txs
    BY <1>1, <1>6 DEF Txs
  <2> QED
    BY <1>2, <1>4, <1>5, <2>1
<1>8. \A j \in DOMAIN Previous(t) : TimeOf(t, j) = time[j]
  BY <1>7 DEF TimeOf, KnownTime
<1>9. u.kind = "chained" => t.cell \in DOMAIN Previous(t)
  BY <1>4
<1> QED
  BY <1>1, <1>6, <1>7, <1>8, <1>9 DEF u

\* The previous entries stay the same, the same transaction checked with a code or not, and get their commit times.
LEMMA PreviousStay ==
    ASSUME TypeOK, FitInv, TimeInv, Grown, NEW t \in Transactions, t.kind = "chained", Fits(t, Len(txs)),
           NEW u, u.cell = t.cell
    PROVE  /\ Previous(u)' = Previous(t)
           /\ \A j \in DOMAIN Previous(t) : TimeOf(u, j)' = time'[j]
<1>1. t.cell \in Txs /\ txs'[t.cell] = txs[t.cell]
  BY PreviousFacts DEF Grown
<1>2. Previous(u)' = Previous(t)
  BY <1>1 DEF Previous
<1>3. ASSUME NEW j \in DOMAIN Previous(t)
      PROVE  TimeOf(u, j)' = time'[j]
  <2>1. j \in Txs /\ Previous(t)[j] \in {0, time[j]} /\ (time'[j] = time[j] \/ time[j] = 0)
    BY PreviousFacts DEF Grown
  <2>2. j \in Txs'
    BY <2>1 DEF Grown
  <2> QED
    BY <1>2, <2>1, <2>2 DEF TimeOf, KnownTime
<1> QED
  BY <1>2, <1>3

\* As time passes, no entry becomes recent.
LEMMA RecentShrinks ==
    ASSUME TypeOK, FitInv, TimeInv, Grown, NEW t \in Transactions, t.kind = "chained", Fits(t, Len(txs)),
           NEW u, u.cell = t.cell, NEW c \in Nat, NEW d \in Nat, c <= d
    PROVE  Recent(u, d, Window)' \subseteq Recent(t, c, Window) /\ Recent(t, c, Window) \subseteq Txs
<1>1. Window \in Nat
  BY SendLimitsAssumption
<1>2. Previous(u)' = Previous(t) /\ \A j \in DOMAIN Previous(t) : TimeOf(u, j)' = time'[j]
  BY PreviousStay
<1>3. \A j \in DOMAIN Previous(t) : j \in Txs /\ TimeOf(t, j) = time[j] /\ time[j] \in Nat
  BY PreviousFacts, SignedFacts
<1>4. ASSUME NEW j \in Recent(u, d, Window)'
      PROVE  j \in Recent(t, c, Window)
  <2>1. j \in DOMAIN Previous(t) /\ (time'[j] = 0 \/ d - time'[j] < Window)
    BY <1>2, <1>4 DEF Recent, KnownRecent, TimeOf
  <2>2. time'[j] = time[j] \/ time[j] = 0
    BY <1>3, <2>1 DEF Grown
  <2>3. time[j] = 0 \/ c - time[j] < Window
    BY <1>1, <1>3, <2>1, <2>2
  <2> QED
    BY <1>3, <2>1, <2>3 DEF Recent, KnownRecent, TimeOf
<1> QED
  BY <1>3, <1>4 DEF Recent, KnownRecent, TimeOf

\* A record that holds goes on holding.
LEMMA RecordStays ==
    ASSUME TypeOK, FitInv, TimeInv, Grown, NEW t \in Transactions, t.kind = "chained", Fits(t, Len(txs)),
           NEW u, u.cell = t.cell, u.record = t.record, RecordHolds(t)
    PROVE  RecordHolds(u)'
<1>1. Previous(u)' = Previous(t) /\ \A j \in DOMAIN Previous(t) : TimeOf(u, j)' = time'[j]
  BY PreviousStay
<1>2. DOMAIN u.record \subseteq DOMAIN Previous(u)'
  BY <1>1 DEF RecordHolds
<1>3. ASSUME NEW j \in DOMAIN u.record
      PROVE  u.record[j] \in {Previous(u)'[j], TimeOf(u, j)'}
  <2>1. j \in DOMAIN Previous(t) /\ t.record[j] \in {Previous(t)[j], TimeOf(t, j)}
    BY <1>3 DEF RecordHolds
  <2>2. j \in Txs /\ Previous(t)[j] \in {0, time[j]} /\ TimeOf(t, j) = time[j]
    BY <2>1, PreviousFacts
  <2>3. time'[j] = time[j] \/ time[j] = 0
    BY <2>2 DEF Grown
  <2> QED
    BY <1>1, <2>1, <2>2, <2>3
<1>4. Recent(u, now, Window)' \subseteq Recent(t, now, Window)
  <2>1. \A d \in Nat : now <= d => Recent(u, d, Window)' \subseteq Recent(t, now, Window)
    BY RecentShrinks DEF Grown
  <2>2. PICK d \in Nat : d = now' /\ now <= d
    BY DEF Grown
  <2>3. Recent(u, now, Window)' = Recent(u, d, Window)'
    BY <2>2 DEF Recent, KnownRecent, TimeOf
  <2> QED
    BY <2>1, <2>2, <2>3
<1>5. Recent(u, now, Window)' \subseteq DOMAIN u.record
  BY <1>4 DEF RecordHolds
<1> QED
  BY <1>2, <1>3, <1>5 DEF RecordHolds

\* So the total before a transaction never grows.
LEMMA TotalShrinks ==
    ASSUME TypeOK, FitInv, TimeInv, Grown, TypeOK', NEW t \in Transactions, t.kind = "chained", Fits(t, Len(txs)),
           NEW u, u.cell = t.cell, NEW c \in Nat, NEW d \in Nat, c <= d, NEW a \in Assets
    PROVE  Total(u, d, a, Txs)' \in Nat /\ Total(t, c, a, Txs) \in Nat /\ Total(u, d, a, Txs)' <= Total(t, c, a, Txs)
<1> DEFINE w == [n \in 1 .. MaxTxs |-> IF n \in Recent(t, c, Window) THEN txs[n].moved[a] ELSE 0]
           v == [n \in 1 .. MaxTxs |-> IF n \in Recent(u, d, Window)' THEN txs'[n].moved[a] ELSE 0]
<1>1. Recent(u, d, Window)' \subseteq Recent(t, c, Window) /\ Recent(t, c, Window) \subseteq Txs
  BY RecentShrinks
<1>2. \A n \in Txs : txs'[n] = txs[n] /\ txs[n].moved[a] \in Nat
  BY SignedFacts, TransactionFacts DEF Grown
<1>3. w \in [1 .. MaxTxs -> Nat] /\ v \in [1 .. MaxTxs -> Nat] /\ \A n \in 1 .. MaxTxs : v[n] <= w[n]
  BY <1>1, <1>2
<1>4. Total(t, c, a, Txs) = SumFunction(w)
  BY DEF Total, Recent, Moved
<1>5. Total(u, d, a, Txs)' = SumFunction(v)
  BY DEF Total, Recent, Moved
<1> HIDE DEF v, w
<1> QED
  BY <1>3, <1>4, <1>5, SumCompares, SendLimitsAssumption

\* What the server plans, by a clock ahead of Lit's by the margin at most, holds.
LEMMA PlansHold ==
    ASSUME TypeOK, FitInv, TimeInv, NEW t \in Transactions, Fits(t, Len(txs)), NEW skew \in Skews,
           NEW known \in Nodes
    PROVE  /\ Planned(t, skew, known) \in Transactions /\ Fits(Planned(t, skew, known), Len(txs))
           /\ t.kind = "chained" => RecordHolds(Planned(t, skew, known))
<1>0. Window \in Nat /\ Margin \in Nat /\ skew \in Int /\ skew <= Margin /\ MaxTime \in Nat /\ now \in 1 .. MaxTime
  BY SendLimitsAssumption DEF TypeOK
<1> DEFINE u == Planned(t, skew, known)
           r == PlannedRecord(t, now + skew, known)
<1>1. u = [t EXCEPT !.record = r]
  BY DEF Planned
<1>2. /\ DOMAIN r = KnownRecent(t, now + skew, Window + Margin, known)
      /\ \A j \in DOMAIN r : r[j] = KnownTime(t, j, known)
  BY DEF PlannedRecord
<1>3. DOMAIN r \subseteq DOMAIN Previous(t)
  BY <1>2 DEF KnownRecent
<1>4. CASE t.kind # "chained"
  <2>1. t.cell = 0
    BY <1>4 DEF Fits
  <2>2. DOMAIN r = {}
    BY <1>3, <2>1 DEF Previous, Empty
  <2>3. r \in Records
    <3>1. r \in [{} -> 0 .. MaxTime]
      BY <2>2 DEF PlannedRecord
    <3> QED
      BY <3>1 DEF Records
  <2> HIDE DEF r
  <2>4. u \in Transactions /\ u.kind = t.kind /\ u.cell = t.cell /\ u.coin = t.coin /\ u.record = r
    BY <1>1, <2>3 DEF Transactions
  <2> QED
    BY <1>4, <2>2, <2>4 DEF Fits
<1>5. CASE t.kind = "chained"
  <2>1. \A j \in DOMAIN Previous(t) : j \in Txs /\ Previous(t)[j] \in {0, time[j]} /\ TimeOf(t, j) = time[j]
    BY <1>5, PreviousFacts
  <2>0. \A j \in DOMAIN Previous(t) : KnownTime(t, j, known) \in {0, time[j]}
                                        /\ KnownTime(t, j, known) \in {Previous(t)[j], time[j]}
    BY <2>1 DEF KnownTime
  <2>2. \A j \in DOMAIN r : j \in Txs /\ j \in 1 .. MaxTxs /\ r[j] \in {0, time[j]} /\ r[j] \in 0 .. MaxTime
    <3> TAKE j \in DOMAIN r
    <3>1. j \in Txs /\ r[j] \in {0, time[j]}
      BY <1>2, <1>3, <2>0, <2>1
    <3>2. time[j] \in Nat /\ time[j] <= now /\ j \in 1 .. MaxTxs
      BY <3>1, SignedFacts DEF TypeOK
    <3> QED
      BY <1>0, <3>1, <3>2
  <2>3. r \in Records
    <3>1. r \in [DOMAIN r -> 0 .. MaxTime]
      BY <2>2 DEF PlannedRecord
    <3>2. DOMAIN r \in SUBSET (1 .. MaxTxs)
      BY <2>2
    <3> HIDE DEF r
    <3> QED
      BY <3>1, <3>2 DEF Records
  <2>4. u \in Transactions /\ u.kind = t.kind /\ u.cell = t.cell /\ u.coin = t.coin /\ u.record = r
    <3> HIDE DEF r
    <3> QED
      BY <1>1, <2>3 DEF Transactions
  <2>5. Previous(u) = Previous(t)
    BY <2>4 DEF Previous
  <2>6. \A j \in DOMAIN Previous(t) : TimeOf(u, j) = time[j]
    BY <2>1, <2>5 DEF TimeOf, KnownTime
  <2>7. Recent(u, now, Window) \subseteq DOMAIN r
    <3> SUFFICES ASSUME NEW j \in Recent(u, now, Window)
                 PROVE  j \in DOMAIN r
      OBVIOUS
    <3>1. j \in DOMAIN Previous(t) /\ (time[j] = 0 \/ now - time[j] < Window)
      BY <2>5, <2>6 DEF Recent, KnownRecent, TimeOf
    <3>2. time[j] \in Nat
      BY <2>1, <3>1, SignedFacts
    <3>3. time[j] = 0 \/ (now + skew) - time[j] < Window + Margin
      BY <1>0, <3>1, <3>2
    <3>4. KnownTime(t, j, known) = 0 \/ (now + skew) - KnownTime(t, j, known) < Window + Margin
      BY <2>0, <3>1, <3>3
    <3>5. j \in KnownRecent(t, now + skew, Window + Margin, known)
      BY <3>1, <3>4 DEF KnownRecent
    <3> QED
      BY <1>2, <3>5
  <2>8. RecordHolds(u)
    <3> HIDE DEF r, u
    <3> QED
      BY <1>2, <1>3, <2>0, <2>1, <2>4, <2>5, <2>6, <2>7 DEF RecordHolds
  <2>9. Fits(u, Len(txs))
    <3>1. DOMAIN r \subseteq 1 .. Len(txs)
      BY <2>2 DEF Txs
    <3> HIDE DEF r, u
    <3> QED
      BY <2>4, <3>1 DEF Fits
  <2> QED
    BY <2>4, <2>8, <2>9
<1> QED
  BY <1>4, <1>5

\* What stayed below the amounts stays so.
LEMMA BelowStays ==
    ASSUME TypeOK, FitInv, TimeInv, Grown, TypeOK', NEW t \in Transactions, t.kind = "chained", Fits(t, Len(txs)),
           NEW u, u.cell = t.cell, u.moved = t.moved, NEW c \in Nat, NEW d \in Nat, c <= d, Below(t, c)
    PROVE  Below(u, d)'
<1>1. t.cell \in Txs /\ txs'[t.cell] = txs[t.cell] /\ txs[t.cell] \in Transactions
  BY PreviousFacts, SignedFacts DEF Grown
<1> DEFINE limit == txs[t.cell].limit
<1>2. limit \in [Assets -> Nat]
  <2>1. Limits \subseteq [Assets -> Nat] /\ Zero \in [Assets -> Nat]
    BY SendLimitsAssumption DEF Limits, Zero
  <2> QED
    BY <1>1, <2>1 DEF Transactions
<1>3. t.moved \in [Assets -> Nat]
  BY TransactionFacts
<1>4. ASSUME NEW a \in Assets, u.moved[a] > 0, txs'[u.cell].limit[a] # Unlimited
      PROVE  Total(u, d, a, Txs)' + u.moved[a] < txs'[u.cell].limit[a]
  <2>1. txs'[u.cell].limit = limit
    BY <1>1
  <2>2. Total(t, c, a, Txs) + t.moved[a] < limit[a]
    BY <1>4, <2>1 DEF Below
  <2>3. Total(u, d, a, Txs)' \in Nat /\ Total(t, c, a, Txs) \in Nat /\ Total(u, d, a, Txs)' <= Total(t, c, a, Txs)
    BY TotalShrinks
  <2>4. t.moved[a] \in Nat /\ limit[a] \in Nat
    BY <1>2, <1>3
  <2> HIDE DEF limit
  <2> QED
    BY <2>1, <2>2, <2>3, <2>4
<1> QED
  BY <1>4 DEF Below

-----------------------------------------------------------------------------
(* The line of send-limit cells.                                            *)

\* When there is a send-limit cell, the first one is of a genesis.
LEMMA GenesisHeld ==
    ASSUME TypeOK, FitInv, NodeInv, SendCells # {}
    PROVE  \E g \in SendCells : txs[g].kind = "genesis"
<1>1. SendCells \in SUBSET Nat
  BY DEF SendCells, Held, Txs
<1>2. PICK g \in SendCells : \A j \in SendCells : g <= j
  BY <1>1, LeastNumber
<1>3. g \in Txs /\ g \in Held /\ txs[g] \in Transactions /\ txs[g].kind # "outside"
  BY <1>2, SignedFacts DEF SendCells, Held
<1>4. CASE txs[g].kind = "chained"
  <2>1. Fits(txs[g], g - 1)
    BY <1>3 DEF FitInv
  <2>2. txs[g].cell \in 1 .. g - 1 /\ txs[g].cell \in SendCells
    BY <1>3, <1>4, <2>1 DEF Fits, NodeInv, SendCells
  <2> QED
    BY <1>1, <1>2, <2>2
<1> QED
  BY <1>3, <1>4, TransactionFacts

\* Next to a genesis the node takes no other.
LEMMA GenesisAlone ==
    ASSUME TypeOK, FitInv, NodeInv, FirstInv, NEW g \in SendCells, txs[g].kind = "genesis",
           NEW t \in Transactions, t.kind = "genesis", t.coin # 0, First(t), \A j \in Held : ~Conflict(t, txs[j])
    PROVE  FALSE
<1>1. g \in Txs /\ g \in Held /\ txs[g] \in Transactions
  BY SignedFacts DEF SendCells, Held
<1>2. Fits(txs[g], g - 1) /\ First(txs[g])
  BY <1>1 DEF FitInv, FirstInv
<1>3. txs[g].coin # 0 /\ txs[g].coin \in Coins /\ t.coin \in Coins /\ txs[g].coin \in Nat /\ t.coin \in Nat
  <2>1. txs[g].coin # 0
    BY <1>2 DEF Fits
  <2>2. txs[g].coin \in Coins
    BY <1>1, <2>1 DEF Transactions
  <2>3. t.coin \in Coins
    BY DEF Transactions
  <2> QED
    BY <1>1, <2>1, <2>2, <2>3, TransactionFacts
<1>4. txs[g].coin # t.coin
  BY <1>1, <1>3 DEF Conflict
<1>5. seen \subseteq Held
  BY DEF TypeOK, OnChain, Held
<1>6. CASE txs[g].coin < t.coin
  <2>1. PICK i \in seen : txs[i].coin = txs[g].coin /\ txs[i].kind = "outside"
    BY <1>3, <1>6 DEF First
  <2> QED
    BY <1>1, <1>3, <1>5, <2>1 DEF NodeInv, Conflict
<1>7. CASE t.coin < txs[g].coin
  <2>1. PICK i \in seen : txs[i].coin = t.coin /\ txs[i].kind = "outside"
    BY <1>2, <1>3, <1>7 DEF First
  <2> QED
    BY <1>3, <1>5, <2>1 DEF Conflict
<1> QED
  BY <1>3, <1>4, <1>6, <1>7

\* What the node holds stays, and more of it may be committed.
LEMMA LineStays ==
    ASSUME TypeOK, FitInv, NodeInv, LineInv, Grown, Held' = Held, OnChain \subseteq OnChain',
           \A i \in OnChain' \ OnChain : txs[i].cell \in OnChain \cup {0}
    PROVE  NodeInv' /\ LineInv' /\ SendCells' = SendCells
<1>1. \A i \in Held : txs'[i] = txs[i]
  BY DEF Held, Grown
<1>2. SendCells' = SendCells
  BY <1>1 DEF SendCells
<1>3. \A i, j \in Held' : i # j => ~Conflict(txs'[i], txs'[j])
  BY <1>1 DEF NodeInv
<1>4. \A i \in Held' : txs'[i].kind = "chained" => txs'[i].cell \in Held'
  BY <1>1 DEF NodeInv
<1>5. ASSUME NEW i \in OnChain', txs'[i].kind = "chained"
      PROVE  txs'[i].cell \in OnChain'
  <2>1. OnChain' \subseteq Held'
    BY DEF OnChain, Held
  <2>2. i \in Held /\ txs'[i] = txs[i] /\ i \in Txs
    BY <1>1, <1>5, <2>1 DEF Held
  <2>3. txs[i].cell # 0
    <3>1. Fits(txs[i], i - 1)
      BY <2>2, SignedFacts DEF FitInv
    <3> QED
      BY <1>5, <2>2, <3>1 DEF Fits
  <2> QED
    BY <1>5, <2>2, <2>3 DEF NodeInv
<1>6. NodeInv'
  BY <1>3, <1>4, <1>5 DEF NodeInv, Conflict
<1>7. LineInv'
  BY <1>1, <1>2 DEF LineInv, SendCells
<1> QED
  BY <1>2, <1>6, <1>7

\* The newest cell the node holds comes after every other.
LEMMA NewestHeld ==
    ASSUME TypeOK, LineInv, NEW t \in Transactions, t.cell \in SendCells, \A j \in Held : ~Conflict(t, txs[j]),
           t.cell # 0
    PROVE  \A j \in SendCells : j <= t.cell
<1>1. \A k \in SendCells : txs[k].cell # t.cell
  BY DEF SendCells, Conflict
<1> QED
  BY <1>1 DEF LineInv

\* The node takes another transaction.
LEMMA LineJoins ==
    ASSUME TypeOK, FitInv, NodeInv, FirstInv, LineInv, Grown, OnChain' = OnChain,
           NEW i \in Txs', i \notin Held, NEW t \in Transactions, txs'[i] = t, Held' = Held \cup {i},
           NodeTakes(t), Fits(t, i - 1), t.kind = "genesis" => First(t)
    PROVE  /\ NodeInv' /\ LineInv'
           /\ t.kind = "outside" => SendCells' = SendCells
           /\ t.kind = "genesis" => SendCells' = {i}
           /\ t.kind = "chained" => /\ SendCells' = SendCells \cup {i} /\ t.cell \in SendCells /\ t.cell < i
                                    /\ \A j \in SendCells : j <= t.cell
<1>0. i \in Nat /\ SendCells \in SUBSET Nat /\ i \notin SendCells /\ t.cell \in Nat
  BY TransactionFacts DEF Txs, SendCells, Held
<1>1. \A j \in Held : txs'[j] = txs[j]
  BY DEF Held, Grown
<1>2. \A j \in Held : ~Conflict(t, txs[j]) /\ ~Conflict(txs[j], t)
  BY DEF NodeTakes, Conflict
<1>3. \A j, k \in Held' : j # k => ~Conflict(txs'[j], txs'[k])
  BY <1>1, <1>2 DEF NodeInv
<1>4. t.kind = "chained" => t.cell \in Held /\ t.cell # 0 /\ txs[t.cell].kind # "outside" /\ t.cell < i
  BY <1>0 DEF Fits, NodeTakes
<1>5. \A j \in Held' : txs'[j].kind = "chained" => txs'[j].cell \in Held'
  BY <1>1, <1>4 DEF NodeInv
<1>6. \A j \in OnChain' : txs'[j].kind = "chained" => txs'[j].cell \in OnChain'
  <2>1. OnChain \subseteq Held
    BY DEF OnChain, Held
  <2> QED
    BY <1>1, <2>1 DEF NodeInv
<1>7. NodeInv'
  BY <1>3, <1>5, <1>6 DEF NodeInv, Conflict
<1>8. SendCells' = SendCells \cup (IF t.kind = "outside" THEN {} ELSE {i})
  BY <1>1 DEF SendCells
<1>9. t.kind = "genesis" => SendCells = {}
  <2> SUFFICES ASSUME t.kind = "genesis", SendCells # {} PROVE FALSE
    OBVIOUS
  <2>1. t.coin # 0
    BY DEF Fits
  <2> QED
    BY <1>2, <2>1, GenesisHeld, GenesisAlone
<1>10. t.kind = "chained" => t.cell \in SendCells /\ \A j \in SendCells : j <= t.cell
  BY <1>2, <1>4, NewestHeld DEF SendCells
<1>11. \A j \in SendCells : txs'[j] = txs[j] /\ txs[j].cell # i
  <2> TAKE j \in SendCells
  <2>1. txs'[j] = txs[j] /\ j \in Held /\ j \in Txs /\ txs[j] \in Transactions
    BY <1>1, SignedFacts DEF SendCells, Held
  <2>2. CASE txs[j].kind = "chained"
    BY <2>1, <2>2 DEF NodeInv
  <2>3. CASE txs[j].kind # "chained"
    <3>1. txs[j].cell = 0 /\ i # 0
      BY <2>1, <2>3 DEF FitInv, Fits, Txs
    <3> QED
      BY <2>1, <3>1
  <2> QED
    BY <2>2, <2>3
<1>12. CASE t.kind = "outside"
  <2>1. SendCells' = SendCells
    BY <1>8, <1>12
  <2>2. LineInv'
    BY <1>11, <2>1 DEF LineInv
  <2> QED
    BY <1>7, <1>12, <2>1, <2>2
<1>13. CASE t.kind = "genesis"
  <2>1. SendCells' = {i}
    BY <1>8, <1>9, <1>13
  <2>2. LineInv'
    BY <1>0, <1>13, <2>1 DEF LineInv
  <2> QED
    BY <1>7, <1>13, <2>1, <2>2
<1>14. CASE t.kind = "chained"
  <2>1. /\ SendCells' = SendCells \cup {i} /\ t.cell \in SendCells /\ t.cell < i
        /\ \A j \in SendCells : j <= t.cell /\ j < i
    <3>1. SendCells' = SendCells \cup {i}
      BY <1>8, <1>14
    <3>2. t.cell \in SendCells /\ t.cell < i /\ \A j \in SendCells : j <= t.cell
      BY <1>4, <1>10, <1>14
    <3>3. \A j \in SendCells : j < i
      <4> TAKE j \in SendCells
      <4>1. j \in Nat /\ j <= t.cell /\ t.cell < i /\ i \in Nat /\ t.cell \in Nat
        BY <1>0, <3>2
      <4> QED
        BY <4>1
    <3> QED
      BY <3>1, <3>2, <3>3
  <2>2. \A j, k \in SendCells' : txs'[j].kind = "chained" /\ k < j => k <= txs'[j].cell
    <3> TAKE j, k \in SendCells'
    <3>1. CASE j = i
      BY <1>0, <2>1, <3>1
    <3>2. CASE j # i /\ k = i
      <4>1. j \in SendCells
        BY <2>1, <3>2
      <4>2. j < k /\ j \in Nat /\ k \in Nat
        BY <1>0, <2>1, <3>2, <4>1
      <4>3. ~(k < j)
        BY <4>2
      <4> QED
        BY <4>3
    <3>3. CASE j # i /\ k # i
      BY <1>11, <2>1, <3>3 DEF LineInv
    <3> QED
      BY <3>1, <3>2, <3>3
  <2>3. \A j, k \in SendCells' : txs'[j].kind = "genesis" => j <= k
    <3> TAKE j, k \in SendCells'
    <3>1. CASE j = i
      BY <1>14, <3>1
    <3>2. CASE j # i /\ k = i
      <4>1. j \in SendCells
        BY <2>1, <3>2
      <4>2. j < k /\ j \in Nat /\ k \in Nat
        BY <1>0, <2>1, <3>2, <4>1
      <4> QED
        BY <4>2
    <3>3. CASE j # i /\ k # i
      BY <1>11, <2>1, <3>3 DEF LineInv
    <3> QED
      BY <3>1, <3>2, <3>3
  <2>4. ASSUME NEW j \in SendCells', NEW k \in SendCells', \A l \in SendCells' : txs'[l].cell # j
        PROVE  k <= j
    <3>1. CASE j = i
      BY <1>0, <2>1, <3>1
    <3>2. CASE j # i
      <4>1. \A l \in SendCells : txs[l].cell # j
        BY <1>11, <2>1, <2>4
      <4>2. j \in SendCells /\ t.cell <= j
        BY <2>1, <3>2, <4>1 DEF LineInv
      <4>3. j <= t.cell
        BY <2>1, <4>2
      <4>4. j = t.cell
        <5>1. j \in Nat
          BY <1>0, <4>2
        <5> QED
          BY <1>0, <4>2, <4>3, <5>1
      <4> QED
        BY <2>1, <2>4, <4>4
    <3> QED
      BY <3>1, <3>2
  <2>5. LineInv'
    BY <2>2, <2>3, <2>4 DEF LineInv
  <2> QED
    BY <1>7, <1>14, <2>1, <2>5
<1> QED
  BY <1>12, <1>13, <1>14, TransactionFacts

\* The pool drops the newest.
LEMMA LineLeaves ==
    ASSUME TypeOK, FitInv, NodeInv, LineInv, txs' = txs, OnChain' = OnChain,
           NEW i \in Held, i \notin OnChain, Held' = Held \ {i}, \A j \in Held : txs[j].cell # i
    PROVE  NodeInv' /\ LineInv' /\ SendCells' = SendCells \ {i}
<1>0. SendCells \in SUBSET Nat
  BY DEF Txs, SendCells, Held
<1>1. NodeInv'
  BY DEF NodeInv
<1>2. SendCells' = SendCells \ {i}
  BY DEF SendCells
<1>3. i \in SendCells => \A j \in SendCells : j <= i
  BY DEF LineInv, SendCells
<1>4. ASSUME NEW j \in SendCells', NEW k \in SendCells', \A l \in SendCells' : txs'[l].cell # j
      PROVE  k <= j
  <2>1. CASE \A l \in SendCells : txs[l].cell # j
    BY <1>2, <2>1 DEF LineInv
  <2>2. CASE \E l \in SendCells : txs[l].cell = j
    <3>1. i \in SendCells /\ txs[i].cell = j
      BY <1>2, <1>4, <2>2
    <3>2. i \in Txs /\ txs[i] \in Transactions /\ j # 0
      BY <1>2, <3>1, SignedFacts DEF SendCells, Held, Txs
    <3>3. txs[i].kind = "chained"
      BY <3>1, <3>2 DEF FitInv, Fits
    <3>4. k < i
      <4>1. k \in Nat /\ i \in Nat /\ k # i /\ k <= i
        BY <1>0, <1>2, <1>3, <3>1
      <4> QED
        BY <4>1
    <3> QED
      BY <1>2, <3>1, <3>3, <3>4 DEF LineInv
  <2> QED
    BY <2>1, <2>2
<1>5. LineInv'
  BY <1>2, <1>4 DEF LineInv
<1> QED
  BY <1>1, <1>2, <1>5

-----------------------------------------------------------------------------
(* The sends before a send.                                                 *)

\* Two sends keep their places.
LEMMA CoverKept ==
    ASSUME TypeOK, FitInv, TimeInv, Grown, NEW i \in Txs, NEW j \in Txs, NEW t \in Transactions, txs[i] = t,
           t.kind = "chained", j \in DOMAIN Previous(t) \/ Past(i, j)
    PROVE  j \in DOMAIN Previous(t)' \/ Past(i, j)'
<1>1. Fits(t, Len(txs))
  <2>1. Fits(t, i - 1)
    BY DEF FitInv
  <2> QED
    BY <2>1 DEF Fits, Txs
<1>2. Previous(t)' = Previous(t)
  BY <1>1, PreviousStay
<1>3. ASSUME Past(i, j)
      PROVE  Past(i, j)'
  <2>1. time[i] \in Nat /\ time[j] \in Nat /\ Window \in Nat
    BY SignedFacts, SendLimitsAssumption
  <2> QED
    BY <1>3, <2>1 DEF Past, Grown
<1> QED
  BY <1>2, <1>3

\* The sends the node held go on holding, when it holds no other.
LEMMA CoverStays ==
    ASSUME TypeOK, FitInv, TimeInv, Grown, CoverInv, SendCells' \subseteq SendCells
    PROVE  CoverInv'
<1> SUFFICES ASSUME NEW i \in SendCells', NEW j \in SendCells', NEW t \in Transactions,
                    txs'[i] = t, t.kind = "chained", txs'[j].kind = "chained", j < i
             PROVE  j \in DOMAIN Previous(t)' \/ Past(i, j)'
  BY DEF CoverInv
<1>1. i \in SendCells /\ j \in SendCells /\ i \in Txs /\ j \in Txs
  BY DEF SendCells, Held
<1>2. txs'[i] = txs[i] /\ txs'[j] = txs[j]
  BY <1>1 DEF Grown
<1>3. j \in DOMAIN Previous(t) \/ Past(i, j)
  BY <1>1, <1>2 DEF CoverInv
<1> QED
  BY <1>1, <1>2, <1>3, CoverKept

\* A send that joins has every send before it in its cell's record, or out of the window.
LEMMA CoverJoins ==
    ASSUME TypeOK, FitInv, TimeInv, RecordInv, LineInv, CoverInv, Grown,
           NEW i \in Txs', NEW t \in Transactions, txs'[i] = t, i \notin SendCells, time'[i] = 0,
           t.kind = "chained", SendCells' = SendCells \cup {i}, t.cell \in SendCells, t.cell < i,
           \A j \in SendCells : j <= t.cell, Fits(t, Len(txs))
    PROVE  CoverInv'
<1>0. SendCells \in SUBSET Nat /\ i \in Nat /\ SendCells \subseteq Txs /\ t.cell \in Nat
  BY TransactionFacts DEF Txs, SendCells, Held
<1>1. \A j \in SendCells : txs'[j] = txs[j]
  BY <1>0 DEF Grown
<1> DEFINE c == t.cell
<1>2. c \in Txs /\ txs[c] \in Transactions /\ time[c] \in Nat
  BY <1>0, SignedFacts
<1>3. ASSUME NEW j \in SendCells, txs[j].kind = "chained"
      PROVE  j \in DOMAIN Previous(t) \/ (time[j] # 0 /\ time[j] + Window <= now)
  <2>0. j \in Txs /\ time[j] \in Nat /\ Window \in Nat /\ now \in Nat
    BY <1>0, SignedFacts, SendLimitsAssumption DEF TypeOK
  <2>1. CASE j = c
    <3>1. c \in DOMAIN Previous(t)
      BY <1>3, <2>1, PreviousFacts
    <3> QED
      BY <2>1, <3>1
  <2>2. CASE j # c
    <3>1. j < c
      <4>1. j \in Nat /\ c \in Nat /\ j <= c
        BY <1>0
      <4> QED
        BY <2>2, <4>1
    <3>2. txs[c].kind = "chained"
      <4>1. txs[c].kind # "genesis"
        BY <1>0, <3>1 DEF LineInv
      <4> QED
        BY <1>2, <4>1, TransactionFacts DEF SendCells
    <3> DEFINE u == txs[c]
    <3>3. u \in Transactions /\ Fits(u, Len(txs)) /\ RecordHolds(u)
      <4>1. Fits(u, c - 1) /\ RecordHolds(u)
        BY <1>2, <3>2 DEF FitInv, RecordInv
      <4> QED
        BY <1>2, <4>1 DEF Fits, Txs
    <3>4. j \in DOMAIN Previous(u) \/ Past(c, j)
      BY <1>2, <1>3, <3>1, <3>2 DEF CoverInv
    <3>5. CASE Past(c, j)
      BY <3>5 DEF Past
    <3>6. CASE j \in DOMAIN Previous(u) /\ ~(time[j] # 0 /\ time[j] + Window <= now)
      <4>1. TimeOf(u, j) = time[j]
        BY <3>2, <3>3, <3>6, PreviousFacts
      <4>2. time[j] = 0 \/ now - time[j] < Window
        BY <2>0, <3>6
      <4>3. j \in Recent(u, now, Window)
        BY <3>6, <4>1, <4>2 DEF Recent, KnownRecent, TimeOf
      <4>4. j \in DOMAIN u.record
        BY <3>3, <4>3 DEF RecordHolds
      <4>5. t.cell # 0 /\ txs[t.cell].kind # "genesis"
        BY <3>2 DEF Fits
      <4>6. DOMAIN Previous(t) = DOMAIN u.record \cup {t.cell}
        BY <4>5 DEF Previous
      <4>7. j \in DOMAIN Previous(t)
        <5> HIDE DEF u
        <5> QED
          BY <4>4, <4>6
      <4> QED
        BY <4>7
    <3> QED
      BY <3>4, <3>5, <3>6
  <2> QED
    BY <2>1, <2>2
<1>4. ASSUME NEW k \in SendCells', NEW j \in SendCells', NEW u \in Transactions,
             txs'[k] = u, u.kind = "chained", txs'[j].kind = "chained", j < k
      PROVE  j \in DOMAIN Previous(u)' \/ Past(k, j)'
  <2>1. CASE k # i /\ j # i
    <3>1. k \in SendCells /\ j \in SendCells /\ k \in Txs /\ j \in Txs /\ txs[k] = u
      BY <1>0, <1>1, <1>4, <2>1
    <3>2. j \in DOMAIN Previous(u) \/ Past(k, j)
      BY <1>1, <1>4, <3>1 DEF CoverInv
    <3> QED
      BY <1>4, <3>1, <3>2, CoverKept
  <2>2. CASE k # i /\ j = i
    <3>1. k \in Nat /\ k <= t.cell
      BY <1>0, <2>2
    <3> QED
      BY <1>0, <1>4, <2>2, <3>1
  <2>3. CASE k = i
    <3>1. u = t /\ j \in SendCells /\ txs[j].kind = "chained" /\ j \in Txs
      BY <1>0, <1>1, <1>4, <2>3
    <3>2. j \in DOMAIN Previous(t) \/ (time[j] # 0 /\ time[j] + Window <= now)
      BY <1>3, <3>1
    <3>3. Previous(u)' = Previous(t)
      BY <3>1, PreviousStay
    <3>4. time[j] # 0 /\ time[j] + Window <= now => Past(k, j)'
      <4>1. time[j] \in Nat /\ Window \in Nat
        BY <3>1, SignedFacts, SendLimitsAssumption
      <4> QED
        BY <2>3, <3>1, <4>1 DEF Past, Grown
    <3> QED
      BY <3>2, <3>3, <3>4
  <2> QED
    BY <2>1, <2>2, <2>3
<1> QED
  BY <1>4 DEF CoverInv

-----------------------------------------------------------------------------
(* What Lit signed and what is asked for.                                   *)

\* The cell a transaction spends stays as it is.
LEMMA FitsStays ==
    ASSUME TypeOK, Grown, NEW t \in Transactions, NEW n \in Nat, n <= Len(txs), Fits(t, n)
    PROVE  Fits(t, n)'
<1>1. t.kind = "chained" => t.cell \in Txs /\ txs'[t.cell] = txs[t.cell]
  BY DEF Fits, Txs, Grown, TypeOK
<1> QED
  BY <1>1 DEF Fits

\* A genesis keeps the cells before it spent.
LEMMA FirstStays ==
    ASSUME TypeOK, Grown, NEW t \in Transactions, First(t)
    PROVE  First(t)'
<1>1. \A i \in seen : i \in seen' /\ txs'[i] = txs[i]
  BY DEF Grown, TypeOK, OnChain
<1> QED
  BY <1>1 DEF First

\* What was shown of a signed transaction stays so.
LEMMA SignedStays ==
    ASSUME TypeOK, FitInv, TimeInv, RecordInv, FirstInv, AmountInv, TypeOK', Grown,
           NEW i \in Txs, NEW t \in Transactions, txs[i] = t
    PROVE  /\ Fits(t, i - 1)'
           /\ t.kind = "chained" => RecordHolds(t)'
           /\ t.kind = "genesis" => First(t)'
           /\ t.kind = "chained" /\ ~t.code => \A clock \in Nat : clock = ClockOf(i)' => Below(t, clock)'
<1>1. Fits(t, i - 1) /\ i - 1 \in Nat /\ i - 1 <= Len(txs) /\ Len(txs) \in Nat
  <2>1. Len(txs) \in Nat
    BY DEF TypeOK
  <2>2. i - 1 \in Nat /\ i - 1 <= Len(txs)
    BY <2>1 DEF Txs
  <2>3. Fits(t, i - 1)
    BY DEF FitInv
  <2> QED
    BY <2>1, <2>2, <2>3
<1>2. Fits(t, Len(txs))
  BY <1>1 DEF Fits
<1>3. Fits(t, i - 1)'
  BY <1>1, FitsStays
<1>4. t.kind = "chained" => RecordHolds(t)'
  BY <1>2, RecordStays DEF RecordInv
<1>5. t.kind = "genesis" => First(t)'
  BY FirstStays DEF FirstInv
<1>6. ASSUME t.kind = "chained", ~t.code, NEW clock \in Nat, clock = ClockOf(i)'
      PROVE  Below(t, clock)'
  <2>1. PICK c \in Nat : c = ClockOf(i)
    BY SignedFacts DEF ClockOf, Grown
  <2>2. c <= clock
    <3>1. now \in Nat /\ now' \in Nat /\ now <= now' /\ (time'[i] = time[i] \/ (time[i] = 0 /\ time'[i] = now))
      BY DEF Grown
    <3>2. time[i] \in Nat /\ clock = IF time'[i] # 0 THEN time'[i] ELSE now'
      BY <1>6, SignedFacts DEF ClockOf
    <3>3. c = IF time[i] # 0 THEN time[i] ELSE now
      BY <2>1 DEF ClockOf
    <3> QED
      BY <3>1, <3>2, <3>3
  <2>3. Below(t, c)
    BY <1>6, <2>1 DEF AmountInv
  <2> QED
    BY <1>2, <1>6, <2>2, <2>3, BelowStays
<1> QED
  BY <1>3, <1>4, <1>5, <1>6

\* A step that signs nothing.
LEMMA HistoryStays ==
    ASSUME TypeOK, FitInv, TimeInv, RecordInv, FirstInv, AmountInv, TypeOK', Grown, Txs' = Txs
    PROVE  FitInv' /\ RecordInv' /\ FirstInv' /\ AmountInv'
<1>1. \A i \in Txs : txs'[i] = txs[i]
  BY DEF Grown
<1>2. FitInv'
  BY <1>1, SignedStays DEF FitInv
<1>3. RecordInv'
  BY <1>1, SignedStays DEF RecordInv
<1>4. FirstInv'
  BY <1>1, SignedStays DEF FirstInv
<1>5. AmountInv'
  <2> SUFFICES ASSUME NEW i \in Txs, NEW t \in Transactions, NEW clock \in Nat,
                      txs'[i] = t, clock = ClockOf(i)', t.kind = "chained", ~t.code
               PROVE  Below(t, clock)'
    BY DEF AmountInv
  <2> QED
    BY <1>1, SignedStays
<1> QED
  BY <1>2, <1>3, <1>4, <1>5

\* A transaction that may be signed now: its cells fit it, and what it records holds.
Ready(t) == Fits(t, Len(txs)) /\ (t.kind = "chained" => RecordHolds(t))

\* If what every request asks for after a step, new or not, was fit to sign before it, it stays fit.
LEMMA AskedStays ==
    ASSUME TypeOK, FitInv, TimeInv, TypeOK', Grown,
           \A p \in Purposes, t \in Transactions : request'[p] # None /\ request'[p].tx = t => Ready(t)
    PROVE  AskedInv'
<1> SUFFICES ASSUME NEW p \in Purposes, NEW t \in Transactions, request'[p] # None, request'[p].tx = t
             PROVE  Fits(t, Len(txs))' /\ (t.kind = "chained" => RecordHolds(t)')
  BY DEF AskedInv
<1>1. Ready(t)
  OBVIOUS
<1>2. Len(txs) \in Nat /\ Len(txs) <= Len(txs') /\ Len(txs') \in Nat
  <2>1. Len(txs) \in Nat /\ Len(txs') \in Nat
    BY DEF TypeOK
  <2>2. 1 .. Len(txs) \subseteq 1 .. Len(txs')
    BY DEF Grown, Txs
  <2> QED
    BY <2>1, <2>2
<1>3. Fits(t, Len(txs)) /\ (t.kind = "chained" => RecordHolds(t))
  BY <1>1 DEF Ready
<1>4. Fits(t, Len(txs))'
  <2>1. PICK n \in Nat : n = Len(txs)
    BY <1>2
  <2>2. Fits(t, n)'
    BY <1>3, <2>1, <1>2, FitsStays
  <2> QED
    BY <1>2, <2>1, <2>2 DEF Fits
<1> QED
  BY <1>3, <1>4, RecordStays

\* A step in which nothing but the requests and the list of the pending changes.
LEMMA QuietStep ==
    ASSUME IInv, TypeOK', UNCHANGED <<now, txs, chainVars>>,
           \A p \in Purposes, t \in Transactions : request'[p] # None /\ request'[p].tx = t => Ready(t)
    PROVE  IInv'
<1>0. now' = now /\ txs' = txs /\ at' = at /\ time' = time /\ seen' = seen
  BY DEF chainVars
<1>1. Grown
  BY <1>0 DEF Grown, Txs, TypeOK, IInv
<1>2. AskedInv'
  BY <1>1, AskedStays DEF IInv
<1>3. Txs' = Txs /\ OnChain' = OnChain /\ Held' = Held
  BY <1>0 DEF Txs, OnChain, Held
<1>4. TimeInv'
  BY <1>0, <1>3 DEF IInv, TimeInv
<1>5. FitInv' /\ RecordInv' /\ FirstInv' /\ AmountInv'
  BY <1>1, <1>3, HistoryStays DEF IInv
<1>6. NodeInv' /\ LineInv' /\ SendCells' = SendCells
  BY <1>1, <1>3, LineStays DEF IInv
<1>7. CoverInv'
  BY <1>1, <1>6, CoverStays DEF IInv
<1> QED
  BY <1>2, <1>4, <1>5, <1>6, <1>7 DEF IInv

-----------------------------------------------------------------------------
(* Lit signs.                                                               *)

\* A genesis Lit signs spends the oldest plain cell, and no send-limit cell was seen.
LEMMA FirstSigned ==
    ASSUME TypeOK, FitInv, NEW t \in Transactions, t.kind = "genesis", Shape(t)
    PROVE  First(t)
<1>1. Cells = {} /\ WasOldest(t.coin)
  BY DEF Shape
<1>2. seen \subseteq Txs /\ Len(txs) \in Nat
  BY DEF TypeOK, OnChain
<1> DEFINE S == {i \in seen : txs[i].kind # "outside"}
<1>3. S = {}
  <2> SUFFICES ASSUME S # {} PROVE FALSE
    OBVIOUS
  <2>1. S \in SUBSET (0 .. Len(txs))
    <3>1. \A i \in Txs : i \in 0 .. Len(txs)
      BY <1>2 DEF Txs
    <3> QED
      BY <1>2, <3>1
  <2>2. PICK i \in S : \A j \in S : j <= i
    <3> HIDE DEF S
    <3> QED
      BY <1>2, <2>1, GreatestNumber
  <2>3. PICK j \in seen : txs[j].cell = i
    BY <1>1, <2>2 DEF Cells
  <2>4. j \in Txs /\ txs[j] \in Transactions /\ i \in Nat \ {0} /\ j \in Nat
    BY <1>2, <2>2, <2>3, SignedFacts DEF Txs
  <2>5. Fits(txs[j], j - 1)
    BY <2>4 DEF FitInv
  <2>6. txs[j].kind = "chained" /\ i <= j - 1
    BY <2>3, <2>4, <2>5 DEF Fits
  <2>7. j <= i
    BY <2>2, <2>3, <2>6
  <2> QED
    BY <2>4, <2>6, <2>7
<1>4. ASSUME NEW c \in Coins, c < t.coin
      PROVE  \E i \in seen : txs[i].coin = c /\ txs[i].kind = "outside"
  <2>1. c \in Nat /\ t.coin \in Nat
    BY SendLimitsAssumption, TransactionFacts
  <2>2. c \notin Plain
    BY <1>1, <1>4, <2>1 DEF WasOldest
  <2>3. PICK i \in seen : txs[i].coin = c
    BY <2>2 DEF Plain
  <2> QED
    BY <1>3, <2>3
<1> QED
  BY <1>4 DEF First

\* A send Lit signs without a code stays below the amounts.
LEMMA BelowSigned ==
    ASSUME TypeOK, FitInv, TimeInv, NEW t \in Transactions, t.kind = "chained", Fits(t, Len(txs)),
           ~NeedsCode(t, now, Txs)
    PROVE  Below(t, now)
<1>1. t.cell \in Txs /\ txs[t.cell] \in Transactions /\ now \in Nat
  BY PreviousFacts, SignedFacts DEF TypeOK
<1> DEFINE limit == txs[t.cell].limit
<1>2. limit \in [Assets -> Nat]
  <2>1. Limits \subseteq [Assets -> Nat] /\ Zero \in [Assets -> Nat]
    BY SendLimitsAssumption DEF Limits, Zero
  <2> QED
    BY <1>1, <2>1 DEF Transactions
<1>3. t.moved \in [Assets -> Nat]
  BY TransactionFacts
<1>4. ~OverAmount(t, now, Txs)
  BY DEF NeedsCode
<1>5. ASSUME NEW a \in Assets, t.moved[a] > 0, limit[a] # Unlimited
      PROVE  Total(t, now, a, Txs) + t.moved[a] < limit[a]
  <2>1. ~(Total(t, now, a, Txs) + t.moved[a] >= limit[a])
    BY <1>4, <1>5 DEF OverAmount
  <2>2. Total(t, now, a, Txs) \in Nat
    <3> DEFINE w == [n \in 1 .. MaxTxs |-> IF n \in Recent(t, now, Window) THEN txs[n].moved[a] ELSE 0]
    <3>1. \A n \in Recent(t, now, Window) : n \in Txs
      BY PreviousFacts DEF Recent, KnownRecent, TimeOf
    <3>2. \A n \in Txs : txs[n].moved[a] \in Nat
      BY SignedFacts, TransactionFacts
    <3>3. w \in [1 .. MaxTxs -> Nat] /\ \A n \in 1 .. MaxTxs : w[n] <= w[n]
      BY <3>1, <3>2
    <3>4. Total(t, now, a, Txs) = SumFunction(w)
      BY DEF Total, Recent, Moved
    <3> HIDE DEF w
    <3> QED
      BY <3>3, <3>4, SumCompares, SendLimitsAssumption
  <2>3. t.moved[a] \in Nat /\ limit[a] \in Nat
    BY <1>2, <1>3
  <2> HIDE DEF limit
  <2> QED
    BY <2>1, <2>2, <2>3
<1> QED
  BY <1>5 DEF Below

\* A signed transaction joins the others.
LEMMA SignedEffect ==
    ASSUME TypeOK, NEW t \in Transactions, NEW coded \in BOOLEAN, NEW where \in {"out", "pool"},
           Signed(t, coded, where), now' = now, seen' = seen
    PROVE  LET n == Len(txs) + 1
           IN  /\ Txs' = Txs \cup {n} /\ n \notin Txs /\ n \in Nat /\ n - 1 = Len(txs)
               /\ \A i \in Txs : txs'[i] = txs[i] /\ at'[i] = at[i] /\ time'[i] = time[i]
               /\ txs'[n] = (IF t.kind = "chained" THEN [t EXCEPT !.code = coded] ELSE t)
               /\ at'[n] = where /\ time'[n] = 0
               /\ OnChain' = OnChain /\ Held' = Held \cup (IF where = "pool" THEN {n} ELSE {})
               /\ Grown
<1> DEFINE n == Len(txs) + 1
           u == IF t.kind = "chained" THEN [t EXCEPT !.code = coded] ELSE t
<1>1. Len(txs) \in Nat /\ Len(at) = Len(txs) /\ Len(time) = Len(txs) /\ now \in Nat
  BY DEF TypeOK
<1>2. Len(txs') = n /\ txs'[n] = u /\ \A i \in 1 .. Len(txs) : txs'[i] = txs[i]
  <2>1. txs \in Seq(Transactions) /\ txs' = Append(txs, u)
    BY DEF TypeOK, Signed
  <2> HIDE DEF u
  <2> QED
    BY <2>1
<1>3. at'[n] = where /\ \A i \in 1 .. Len(txs) : at'[i] = at[i]
  <2>1. at \in Seq({"out", "pool", "chain"}) /\ at' = Append(at, where)
    BY DEF TypeOK, Signed
  <2> QED
    BY <1>1, <2>1
<1>4. time'[n] = 0 /\ \A i \in 1 .. Len(txs) : time'[i] = time[i]
  <2>1. time \in Seq(Nat) /\ time' = Append(time, 0)
    BY DEF TypeOK, Signed
  <2> QED
    BY <1>1, <2>1
<1>5. Txs' = Txs \cup {n} /\ n \notin Txs /\ n \in Nat /\ n - 1 = Len(txs)
  BY <1>1, <1>2 DEF Txs
<1>6. \A i \in Txs : txs'[i] = txs[i] /\ at'[i] = at[i] /\ time'[i] = time[i]
  BY <1>2, <1>3, <1>4 DEF Txs
<1> HIDE DEF n, u
<1>7. OnChain' = OnChain
  BY <1>3, <1>5, <1>6 DEF OnChain
<1>8. Held' = Held \cup (IF where = "pool" THEN {n} ELSE {})
  BY <1>3, <1>5, <1>6 DEF Held
<1>9. Grown
  BY <1>1, <1>5, <1>6 DEF Grown
<1> QED
  BY <1>2, <1>3, <1>4, <1>5, <1>6, <1>7, <1>8, <1>9 DEF n, u

\* Lit signs what fits by its rules, and the server may send it.
LEMMA SignedStep ==
    ASSUME IInv, TypeOK', NEW t \in Transactions, NEW coded \in BOOLEAN, NEW where \in {"out", "pool"},
           Signed(t, coded, where), now' = now, seen' = seen, Signs(t, coded), Fits(t, Len(txs)),
           where = "pool" => NodeTakes(t),
           \A p \in Purposes, q \in Transactions : request'[p] # None /\ request'[p].tx = q => Ready(q)
    PROVE  IInv'
<1>0. TypeOK /\ FitInv /\ TimeInv /\ RecordInv /\ FirstInv /\ AmountInv /\ NodeInv /\ LineInv /\ CoverInv
  BY DEF IInv
<1> DEFINE n == Len(txs) + 1
           u == IF t.kind = "chained" THEN [t EXCEPT !.code = coded] ELSE t
<1>1. /\ Txs' = Txs \cup {n} /\ n \notin Txs /\ n \in Nat /\ n - 1 = Len(txs)
      /\ \A i \in Txs : txs'[i] = txs[i] /\ at'[i] = at[i] /\ time'[i] = time[i]
      /\ txs'[n] = u /\ at'[n] = where /\ time'[n] = 0
      /\ OnChain' = OnChain /\ Held' = Held \cup (IF where = "pool" THEN {n} ELSE {})
      /\ Grown
  BY <1>0, SignedEffect
<1>2. /\ u \in Transactions /\ u.kind = t.kind /\ u.cell = t.cell /\ u.coin = t.coin /\ u.moved = t.moved
      /\ u.record = t.record /\ u.limit = t.limit /\ (t.kind = "chained" => u.code = coded)
  BY DEF Transactions
<1>3. Shape(t) /\ RecordHolds(t) /\ (NeedsCode(t, now, Txs) => coded)
  BY DEF Signs
<1> HIDE DEF n, u
<1>4. Fits(u, Len(txs))
  BY <1>2 DEF Fits
<1>5. t.kind = "genesis" => First(t) /\ First(u)
  BY <1>0, <1>2, <1>3, FirstSigned DEF First
<1>6. n - 1 \in Nat /\ n - 1 <= Len(txs) /\ Len(txs) \in Nat
  BY <1>0, <1>1 DEF TypeOK
<1>7. PICK m \in Nat : m = n - 1
  BY <1>6
<1>8. FitInv'
  <2> SUFFICES ASSUME NEW i \in Txs', NEW q \in Transactions, txs'[i] = q
               PROVE  Fits(q, i - 1)'
    BY DEF FitInv
  <2>1. CASE i = n
    <3>1. q = u /\ i - 1 = m
      BY <1>1, <1>7, <2>1
    <3>2. Fits(q, m)
      BY <1>1, <1>4, <1>7, <3>1
    <3>3. Fits(q, m)'
      BY <1>0, <1>1, <1>6, <1>7, <3>2, FitsStays
    <3> QED
      BY <3>1, <3>3
  <2>2. CASE i \in Txs
    BY <1>0, <1>1, <2>2, SignedStays
  <2> QED
    BY <1>1, <2>1, <2>2
<1>9. \A j \in DOMAIN u.record : u.record[j] \in {0, time'[j]}
  <2> SUFFICES ASSUME NEW j \in DOMAIN t.record
               PROVE  t.record[j] \in {0, time'[j]}
    BY <1>2
  <2>1. j \in DOMAIN Previous(t) /\ t.record[j] \in {Previous(t)[j], TimeOf(t, j)}
    BY <1>3 DEF RecordHolds
  <2>2. t.kind = "chained"
    <3>1. t.cell # 0
      BY <2>1 DEF Previous, Empty
    <3> QED
      BY <3>1 DEF Fits
  <2>3. j \in Txs /\ Previous(t)[j] \in {0, time[j]} /\ TimeOf(t, j) = time[j]
    BY <1>0, <2>1, <2>2, PreviousFacts
  <2> QED
    BY <1>1, <2>1, <2>3
<1>10. TimeInv'
  <2>1. \A i \in Txs' : time'[i] # 0 <=> (at'[i] = "chain" /\ txs'[i].kind = "chained")
    BY <1>0, <1>1 DEF TimeInv
  <2>2. ASSUME NEW i \in Txs', NEW q \in Transactions, txs'[i] = q, NEW j \in DOMAIN q.record
        PROVE  q.record[j] \in {0, time'[j]}
    <3>1. CASE i = n
      BY <1>1, <1>9, <2>2, <3>1
    <3>2. CASE i \in Txs
      <4>1. txs[i] = q
        BY <1>1, <2>2, <3>2
      <4>2. Fits(q, i - 1) /\ i \in 1 .. Len(txs)
        BY <1>0, <3>2, <4>1 DEF FitInv, Txs
      <4>3. j \in Txs
        BY <1>6, <2>2, <4>2 DEF Fits, Txs
      <4> QED
        BY <1>0, <1>1, <2>2, <3>2, <4>1, <4>3 DEF TimeInv
    <3> QED
      BY <1>1, <3>1, <3>2
  <2> QED
    BY <2>1, <2>2 DEF TimeInv
<1>11. t.kind = "chained" => RecordHolds(u)'
  BY <1>0, <1>1, <1>2, <1>3, RecordStays
<1>12. RecordInv'
  <2> SUFFICES ASSUME NEW i \in Txs', NEW q \in Transactions, txs'[i] = q, q.kind = "chained"
               PROVE  RecordHolds(q)'
    BY DEF RecordInv
  <2>1. CASE i = n
    <3>1. q = u
      BY <1>1, <2>1
    <3> QED
      BY <1>2, <1>11, <3>1
  <2>2. CASE i \in Txs
    BY <1>0, <1>1, <2>2, SignedStays
  <2> QED
    BY <1>1, <2>1, <2>2
<1>13. FirstInv'
  <2> SUFFICES ASSUME NEW i \in Txs', NEW q \in Transactions, txs'[i] = q, q.kind = "genesis"
               PROVE  First(q)'
    BY DEF FirstInv
  <2>1. CASE i = n
    <3>1. q = u
      BY <1>1, <2>1
    <3> QED
      BY <1>0, <1>1, <1>2, <1>5, <3>1, FirstStays
  <2>2. CASE i \in Txs
    BY <1>0, <1>1, <2>2, SignedStays
  <2> QED
    BY <1>1, <2>1, <2>2
<1>14. AmountInv'
  <2> SUFFICES ASSUME NEW i \in Txs', NEW q \in Transactions, NEW clock \in Nat,
                      txs'[i] = q, clock = ClockOf(i)', q.kind = "chained", ~q.code
               PROVE  Below(q, clock)'
    BY DEF AmountInv
  <2>1. CASE i = n
    <3>1. q = u /\ t.kind = "chained" /\ ~coded
      BY <1>1, <1>2, <2>1
    <3>2. PICK c \in Nat : c = now
      BY <1>0 DEF TypeOK
    <3>3. clock = c
      BY <1>1, <2>1, <3>2 DEF ClockOf
    <3>4. Below(t, c)
      BY <1>0, <1>3, <3>1, <3>2, BelowSigned
    <3> QED
      BY <1>0, <1>1, <1>2, <3>1, <3>3, <3>4, BelowStays
  <2>2. CASE i \in Txs
    BY <1>0, <1>1, <2>2, SignedStays
  <2> QED
    BY <1>1, <2>1, <2>2
<1>15. AskedInv'
  BY <1>0, <1>1, AskedStays
<1>16. NodeInv' /\ LineInv' /\ CoverInv'
  <2>1. CASE where = "out"
    <3>1. Held' = Held
      BY <1>1, <2>1
    <3>2. NodeInv' /\ LineInv' /\ SendCells' = SendCells
      BY <1>0, <1>1, <3>1, LineStays
    <3> QED
      BY <1>0, <1>1, <3>2, CoverStays
  <2>2. CASE where = "pool"
    <3>1. Held' = Held \cup {n} /\ n \in Txs' /\ n \notin Held
      BY <1>1, <2>2 DEF Held
    <3>2. NodeTakes(u)
      BY <1>2, <2>2 DEF NodeTakes, Conflict
    <3>3. Fits(u, n - 1)
      BY <1>1, <1>4
    <3>4. /\ NodeInv' /\ LineInv'
          /\ u.kind = "outside" => SendCells' = SendCells
          /\ u.kind = "genesis" => SendCells' = {n}
          /\ u.kind = "chained" => /\ SendCells' = SendCells \cup {n} /\ u.cell \in SendCells /\ u.cell < n
                                   /\ \A j \in SendCells : j <= u.cell
      BY <1>0, <1>1, <1>2, <1>5, <3>1, <3>2, <3>3, LineJoins
    <3>5. CASE u.kind = "outside"
      BY <1>0, <1>1, <3>4, <3>5, CoverStays
    <3>6. CASE u.kind = "genesis"
      BY <1>1, <1>2, <3>4, <3>6 DEF CoverInv
    <3>7. CASE u.kind = "chained"
      <4>1. n \notin SendCells
        BY <3>1 DEF SendCells
      <4> QED
        BY <1>0, <1>1, <1>2, <1>4, <3>1, <3>4, <3>7, <4>1, CoverJoins
    <3> QED
      BY <1>2, <3>4, <3>5, <3>6, <3>7, TransactionFacts
  <2> QED
    BY <2>1, <2>2
<1> QED
  BY <1>8, <1>10, <1>12, <1>13, <1>14, <1>15, <1>16 DEF IInv

-----------------------------------------------------------------------------
(* The steps of the chain, the pool and the indexer.                        *)

\* An element of a sequence is replaced.
LEMMA SeqUpdate ==
    ASSUME NEW S, NEW s \in Seq(S), NEW i \in 1 .. Len(s), NEW e \in S
    PROVE  LET t == [s EXCEPT ![i] = e]
           IN  t \in Seq(S) /\ Len(t) = Len(s) /\ t[i] = e /\ \A j \in 1 .. Len(s) : j # i => t[j] = s[j]
<1> DEFINE t == [s EXCEPT ![i] = e]
<1>1. Len(s) \in Nat /\ s \in [1 .. Len(s) -> S]
  OBVIOUS
<1>2. t \in [1 .. Len(s) -> S] /\ t[i] = e /\ \A j \in 1 .. Len(s) : j # i => t[j] = s[j]
  BY <1>1
<1> HIDE DEF t
<1>3. t \in Seq(S) /\ Len(t) = Len(s)
  BY <1>1, <1>2
<1> QED
  BY <1>2, <1>3 DEF t

\* A step that signs nothing and changes no request.
LEMMA ChainStep ==
    ASSUME IInv, TypeOK', Grown, Txs' = Txs, request' = request, TimeInv', NodeInv', LineInv', CoverInv'
    PROVE  IInv'
<1>1. FitInv' /\ RecordInv' /\ FirstInv' /\ AmountInv'
  BY HistoryStays DEF IInv
<1>2. AskedInv'
  BY AskedStays DEF IInv, AskedInv, Ready
<1> QED
  BY <1>1, <1>2 DEF IInv

\* A client sends a transaction.
LEMMA SendStep ==
    ASSUME IInv, NEW i \in Txs, Send(i)
    PROVE  IInv'
<1>0. TypeOK /\ FitInv /\ TimeInv /\ RecordInv /\ FirstInv /\ NodeInv /\ LineInv /\ CoverInv
  BY DEF IInv
<1>1. at[i] = "out" /\ NodeTakes(txs[i]) /\ at' = [at EXCEPT ![i] = "pool"]
      /\ now' = now /\ txs' = txs /\ time' = time /\ seen' = seen /\ listed' = listed /\ request' = request
  BY DEF Send
<1>2. /\ at' \in Seq({"out", "pool", "chain"}) /\ Len(at') = Len(at)
      /\ at'[i] = "pool" /\ \A j \in Txs : j # i => at'[j] = at[j]
  BY <1>0, <1>1, SeqUpdate DEF TypeOK, Txs
<1>3. Txs' = Txs /\ OnChain' = OnChain /\ Held' = Held \cup {i} /\ i \notin Held
  BY <1>1, <1>2 DEF Txs, OnChain, Held
<1>4. TypeOK'
  BY <1>0, <1>1, <1>2, <1>3 DEF TypeOK
<1>5. Grown
  BY <1>0, <1>1, <1>3 DEF Grown, TypeOK
<1>6. TimeInv'
  BY <1>0, <1>1, <1>2, <1>3 DEF TimeInv
<1> DEFINE t == txs[i]
<1>7. t \in Transactions /\ txs'[i] = t /\ Fits(t, i - 1) /\ (t.kind = "genesis" => First(t)) /\ Fits(t, Len(txs))
  <2>1. t \in Transactions /\ txs'[i] = t
    BY <1>0, <1>1, SignedFacts
  <2>2. Fits(t, i - 1) /\ (t.kind = "genesis" => First(t))
    BY <1>0, <2>1 DEF FitInv, FirstInv
  <2>3. Fits(t, Len(txs))
    BY <2>2 DEF Fits, Txs
  <2> QED
    BY <2>1, <2>2, <2>3
<1>8. i \in Txs' /\ i \notin SendCells /\ time'[i] = 0 /\ NodeTakes(t)
  BY <1>0, <1>1, <1>3 DEF SendCells, TimeInv
<1> HIDE DEF t
<1>9. /\ NodeInv' /\ LineInv'
      /\ t.kind = "outside" => SendCells' = SendCells
      /\ t.kind = "genesis" => SendCells' = {i}
      /\ t.kind = "chained" => /\ SendCells' = SendCells \cup {i} /\ t.cell \in SendCells /\ t.cell < i
                               /\ \A j \in SendCells : j <= t.cell
  BY <1>0, <1>3, <1>5, <1>7, <1>8, LineJoins
<1>10. CoverInv'
  <2>1. CASE t.kind = "outside"
    BY <1>0, <1>5, <1>9, <2>1, CoverStays
  <2>2. CASE t.kind = "genesis"
    BY <1>7, <1>9, <2>2 DEF CoverInv
  <2>3. CASE t.kind = "chained"
    BY <1>0, <1>5, <1>7, <1>8, <1>9, <2>3, CoverJoins
  <2> QED
    BY <1>7, <2>1, <2>2, <2>3, TransactionFacts
<1> QED
  BY <1>1, <1>3, <1>4, <1>5, <1>6, <1>9, <1>10, ChainStep

\* A transaction is committed.
LEMMA CommitStep ==
    ASSUME IInv, NEW i \in Txs, Commit(i)
    PROVE  IInv'
<1>0. TypeOK /\ FitInv /\ TimeInv /\ NodeInv /\ LineInv /\ CoverInv
  BY DEF IInv
<1> DEFINE when == IF txs[i].kind = "chained" THEN now ELSE 0
<1>1. at[i] = "pool" /\ txs[i].cell \in OnChain \cup {0} /\ at' = [at EXCEPT ![i] = "chain"]
      /\ time' = [time EXCEPT ![i] = when]
      /\ now' = now /\ txs' = txs /\ seen' = seen /\ listed' = listed /\ request' = request
  BY DEF Commit
<1>2. now \in Nat \ {0} /\ when \in Nat /\ when <= now
  BY <1>0 DEF TypeOK
<1> HIDE DEF when
<1>3. /\ at' \in Seq({"out", "pool", "chain"}) /\ Len(at') = Len(at)
      /\ at'[i] = "chain" /\ \A j \in Txs : j # i => at'[j] = at[j]
  BY <1>0, <1>1, SeqUpdate DEF TypeOK, Txs
<1>4. time' \in Seq(Nat) /\ Len(time') = Len(time) /\ time'[i] = when /\ \A j \in Txs : j # i => time'[j] = time[j]
  BY <1>0, <1>1, <1>2, SeqUpdate DEF TypeOK, Txs
<1>5. Txs' = Txs /\ OnChain' = OnChain \cup {i} /\ Held' = Held
  BY <1>1, <1>3 DEF Txs, OnChain, Held
<1>6. TypeOK'
  <2>1. \A j \in Txs : time'[j] <= now
    BY <1>0, <1>2, <1>4 DEF TypeOK
  <2> QED
    BY <1>0, <1>1, <1>3, <1>4, <1>5, <2>1 DEF TypeOK
<1>7. time[i] = 0
  BY <1>0, <1>1 DEF TimeInv
<1>8. Grown
  <2>1. \A j \in Txs : time'[j] = time[j] \/ (time[j] = 0 /\ time'[j] = now)
    BY <1>4, <1>7 DEF when
  <2> QED
    BY <1>1, <1>2, <1>5, <2>1 DEF Grown
<1>9. TimeInv'
  <2>1. \A j \in Txs : time'[j] # 0 <=> (at'[j] = "chain" /\ txs'[j].kind = "chained")
    BY <1>0, <1>1, <1>2, <1>3, <1>4 DEF TimeInv, when
  <2>2. ASSUME NEW j \in Txs, NEW t \in Transactions, txs[j] = t, NEW k \in DOMAIN t.record
        PROVE  t.record[k] \in {0, time'[k]}
    <3>1. Fits(t, j - 1) /\ t.record[k] \in {0, time[k]}
      BY <1>0, <2>2 DEF FitInv, TimeInv
    <3>2. k \in Txs
      BY <3>1 DEF Fits, Txs
    <3> QED
      BY <1>4, <1>7, <3>1, <3>2
  <2> QED
    BY <1>1, <1>5, <2>1, <2>2 DEF TimeInv
<1>10. NodeInv' /\ LineInv' /\ SendCells' = SendCells
  BY <1>0, <1>1, <1>5, <1>8, LineStays
<1>11. CoverInv'
  BY <1>0, <1>8, <1>10, CoverStays
<1> QED
  BY <1>1, <1>5, <1>6, <1>8, <1>9, <1>10, <1>11, ChainStep

\* The pool drops a transaction.
LEMMA DropStep ==
    ASSUME IInv, NEW i \in Txs, Drop(i)
    PROVE  IInv'
<1>0. TypeOK /\ FitInv /\ TimeInv /\ NodeInv /\ LineInv /\ CoverInv
  BY DEF IInv
<1>1. at[i] = "pool" /\ (\A j \in Held : txs[j].cell # i) /\ at' = [at EXCEPT ![i] = "out"]
      /\ now' = now /\ txs' = txs /\ time' = time /\ seen' = seen /\ listed' = listed /\ request' = request
  BY DEF Drop
<1>2. /\ at' \in Seq({"out", "pool", "chain"}) /\ Len(at') = Len(at)
      /\ at'[i] = "out" /\ \A j \in Txs : j # i => at'[j] = at[j]
  BY <1>0, <1>1, SeqUpdate DEF TypeOK, Txs
<1>3. Txs' = Txs /\ OnChain' = OnChain /\ Held' = Held \ {i} /\ i \in Held /\ i \notin OnChain
  BY <1>1, <1>2 DEF Txs, OnChain, Held
<1>4. TypeOK'
  BY <1>0, <1>1, <1>2, <1>3 DEF TypeOK
<1>5. Grown
  BY <1>0, <1>1, <1>3 DEF Grown, TypeOK
<1>6. TimeInv'
  BY <1>0, <1>1, <1>2, <1>3 DEF TimeInv
<1>7. NodeInv' /\ LineInv' /\ SendCells' = SendCells \ {i}
  BY <1>0, <1>1, <1>3, LineLeaves
<1>8. CoverInv'
  BY <1>0, <1>5, <1>7, CoverStays
<1> QED
  BY <1>1, <1>3, <1>4, <1>5, <1>6, <1>7, <1>8, ChainStep

\* The indexer catches up, or time passes.
LEMMA IdleStep ==
    ASSUME IInv, IndexerCatchesUp \/ Tick
    PROVE  IInv'
<1>0. TypeOK /\ FitInv /\ TimeInv /\ NodeInv /\ LineInv /\ CoverInv
  BY DEF IInv
<1>1. /\ txs' = txs /\ at' = at /\ time' = time /\ listed' = listed /\ request' = request
      /\ (now' = now /\ seen' = OnChain) \/ (now < MaxTime /\ now' = now + 1 /\ seen' = seen)
  BY DEF IndexerCatchesUp, Tick, chainVars
<1>2. Txs' = Txs /\ OnChain' = OnChain /\ Held' = Held
  BY <1>1 DEF Txs, OnChain, Held
<1>3. now \in 1 .. MaxTime /\ MaxTime \in Nat /\ now' \in 1 .. MaxTime /\ now <= now'
  BY <1>0, <1>1, SendLimitsAssumption DEF TypeOK
<1>4. seen \subseteq seen' /\ seen' \subseteq OnChain
  BY <1>0, <1>1 DEF TypeOK
<1>5. TypeOK'
  <2>1. \A j \in Txs : time[j] \in Nat /\ time[j] <= now
    BY <1>0, SignedFacts DEF TypeOK
  <2>2. \A j \in Txs : time[j] <= now'
    BY <1>3, <2>1
  <2> QED
    BY <1>0, <1>1, <1>2, <1>3, <1>4, <2>2 DEF TypeOK
<1>6. Grown
  BY <1>1, <1>2, <1>3, <1>4 DEF Grown
<1>7. TimeInv'
  BY <1>0, <1>1, <1>2 DEF TimeInv
<1>8. NodeInv' /\ LineInv' /\ SendCells' = SendCells
  BY <1>0, <1>2, <1>6, LineStays
<1>9. CoverInv'
  BY <1>0, <1>6, <1>8, CoverStays
<1> QED
  BY <1>1, <1>2, <1>5, <1>6, <1>7, <1>8, <1>9, ChainStep

-----------------------------------------------------------------------------
(* The steps of clients, server and Lit.                                    *)

\* The transactions clients chain or leave outside are fit.
LEMMA SendsFit ==
    ASSUME TypeOK, NEW t \in Sends
    PROVE  t \in Transactions /\ Fits(t, Len(txs))
<1>1. Empty \in Records /\ DOMAIN Empty = {}
  <2>1. Empty \in [{} -> 0 .. MaxTime]
    BY DEF Empty
  <2> QED
    BY <2>1 DEF Records, Empty
<1>2. MaxTxs \in Nat /\ Len(txs) \in Nat /\ Len(txs) <= MaxTxs
  BY SendLimitsAssumption DEF TypeOK
<1>3. CASE \E i \in {i \in Txs : txs[i].kind # "outside"}, moved \in Flows : t = Chained(i, moved, txs[i].limit)
  <2>1. PICK i \in Txs, moved \in Flows : txs[i].kind # "outside" /\ t = Chained(i, moved, txs[i].limit)
    BY <1>3
  <2>2. txs[i].limit \in Limits \cup {Zero} /\ i \in 0 .. MaxTxs /\ i \in 1 .. Len(txs)
    BY <1>2, SignedFacts DEF Transactions, Txs
  <2>3. t \in Transactions
    BY <1>1, <2>1, <2>2 DEF Transactions, Chained
  <2> QED
    BY <1>1, <2>1, <2>2, <2>3 DEF Fits, Chained
<1>4. CASE \E coin \in Plain : t = Outside(coin)
  <2>1. PICK coin \in Coins : t = Outside(coin)
    BY <1>4 DEF Plain
  <2>2. coin # 0 /\ 0 \in 0 .. MaxTxs
    BY <1>2, SendLimitsAssumption
  <2>3. t \in Transactions
    BY <1>1, <2>1, <2>2 DEF Transactions, Outside
  <2> QED
    BY <1>1, <2>1, <2>2, <2>3 DEF Fits, Outside
<1> QED
  BY <1>3, <1>4 DEF Sends

\* The cell the server builds on is one of the account's.
LEMMA HeadFacts ==
    ASSUME TypeOK
    PROVE  ServerHead = 0 \/ (ServerHead \in Txs /\ txs[ServerHead].kind # "outside")
<1>1. /\ Len(txs) \in Nat /\ Tips \in SUBSET (0 .. Len(txs))
      /\ Tips \subseteq Txs /\ \A i \in Tips : txs[i].kind # "outside"
  <2>1. Len(txs) \in Nat /\ listed \subseteq Txs
    BY DEF TypeOK
  <2>2. Tips \subseteq Txs /\ \A i \in Tips : txs[i].kind # "outside"
    BY <2>1 DEF Tips, LivePending
  <2>3. \A i \in Txs : i \in 0 .. Len(txs)
    BY <2>1 DEF Txs
  <2> QED
    BY <2>1, <2>2, <2>3
<1>2. CASE Tips # {}
  <2>1. \E i \in Tips : \A j \in Tips : j <= i
    BY <1>1, <1>2, GreatestNumber
  <2>2. ServerHead \in Tips
    BY <1>2, <2>1 DEF ServerHead
  <2> QED
    BY <1>1, <2>2
<1>3. CASE Tips = {} /\ Cardinality(Indexed) = 1
  <2>1. Indexed # {}
    BY <1>3, FS_EmptySet
  <2>2. ServerHead \in Indexed
    BY <1>3, <2>1 DEF ServerHead
  <2>3. seen \subseteq Txs
    BY DEF TypeOK, OnChain
  <2> QED
    BY <2>2, <2>3 DEF Indexed, Cells
<1>4. CASE Tips = {} /\ Cardinality(Indexed) # 1
  BY <1>4 DEF ServerHead
<1> QED
  BY <1>2, <1>3, <1>4

\* So are the changes the server builds.
LEMMA ChangesFit ==
    ASSUME TypeOK, NEW limit \in Limits, NEW t \in Changes(limit)
    PROVE  t \in Transactions /\ Fits(t, Len(txs))
<1>1. Empty \in Records /\ DOMAIN Empty = {}
  <2>1. Empty \in [{} -> 0 .. MaxTime]
    BY DEF Empty
  <2> QED
    BY <2>1 DEF Records, Empty
<1>2. MaxTxs \in Nat /\ Len(txs) \in Nat /\ Len(txs) <= MaxTxs
  BY SendLimitsAssumption DEF TypeOK
<1>3. CASE ServerHead # 0
  <2>1. t = Chained(ServerHead, Zero, limit)
    BY <1>3 DEF Changes
  <2>2. ServerHead \in Txs /\ txs[ServerHead].kind # "outside"
    BY <1>3, HeadFacts
  <2>3. ServerHead \in 0 .. MaxTxs /\ ServerHead \in 1 .. Len(txs)
    BY <1>2, <2>2 DEF Txs
  <2>4. t \in Transactions
    BY <1>1, <2>1, <2>3 DEF Transactions, Chained
  <2> QED
    BY <1>1, <2>1, <2>2, <2>3, <2>4 DEF Fits, Chained
<1>4. CASE ServerHead = 0
  <2>1. PICK coin \in Coins : t = Genesis(coin, limit)
    BY <1>4 DEF Changes, Plain
  <2>2. coin # 0 /\ 0 \in 0 .. MaxTxs
    BY <1>2, SendLimitsAssumption
  <2>3. t \in Transactions
    BY <1>1, <2>1, <2>2 DEF Transactions, Genesis
  <2> QED
    BY <1>1, <2>1, <2>2, <2>3 DEF Fits, Genesis
<1> QED
  BY <1>3, <1>4

\* What is asked for is fit.
LEMMA AskedReady ==
    ASSUME IInv, NEW p \in Purposes, request[p] # None
    PROVE  request[p] \in Requests /\ request[p].tx \in Transactions /\ Ready(request[p].tx)
<1>1. request[p] \in Requests
  BY DEF IInv, TypeOK
<1>2. request[p].tx \in Transactions
  BY <1>1 DEF Requests
<1> QED
  BY <1>1, <1>2 DEF IInv, AskedInv, Ready

\* A request is issued, or ends.
LEMMA IssueReady ==
    ASSUME IInv, NEW p \in Purposes, NEW row \in Requests \cup {None}, Issue(p, row), row # None => Ready(row.tx)
    PROVE  /\ request' \in [Purposes -> Requests \cup {None}]
           /\ \A q \in Purposes, t \in Transactions : request'[q] # None /\ request'[q].tx = t => Ready(t)
<1>1. request \in [Purposes -> Requests \cup {None}] /\ request' = [request EXCEPT ![p] = row]
  BY DEF IInv, TypeOK, Issue
<1>2. ASSUME NEW q \in Purposes, NEW t \in Transactions, request'[q] # None, request'[q].tx = t
      PROVE  Ready(t)
  <2>1. CASE q = p
    BY <1>1, <1>2, <2>1
  <2>2. CASE q # p
    <3>1. request'[q] = request[q]
      BY <1>1, <2>2
    <3> QED
      BY <1>2, <3>1, AskedReady
  <2> QED
    BY <2>1, <2>2
<1> QED
  BY <1>1, <1>2

\* The rules give an answer.
LEMMA NeedsCodeType ==
    ASSUME NEW t \in Transactions, NEW clock, NEW known
    PROVE  NeedsCode(t, clock, known) \in BOOLEAN
<1>1. Weakens(txs[t.cell].limit, t.limit) \in BOOLEAN /\ OverAmount(t, clock, known) \in BOOLEAN
  BY DEF Weakens, OverAmount
<1> QED
  BY <1>1, TransactionFacts DEF NeedsCode

\* A planned transaction is fit.
LEMMA PlannedReady ==
    ASSUME IInv, NEW u \in Transactions, Fits(u, Len(txs)), NEW skew \in Skews, NEW known \in Nodes
    PROVE  Planned(u, skew, known) \in Transactions /\ Ready(Planned(u, skew, known))
<1>1. /\ Planned(u, skew, known) \in Transactions /\ Fits(Planned(u, skew, known), Len(txs))
      /\ u.kind = "chained" => RecordHolds(Planned(u, skew, known))
  BY PlansHold DEF IInv
<1>2. Planned(u, skew, known).kind = u.kind
  BY DEF Planned, Transactions
<1> QED
  BY <1>1, <1>2 DEF Ready

\* A step without signing.
LEMMA AskStep ==
    ASSUME IInv, NEW p \in Purposes, NEW row \in Requests \cup {None}, Issue(p, row), row # None => Ready(row.tx),
           UNCHANGED <<now, txs, chainVars, listed>>
    PROVE  IInv'
<1>1. /\ request' \in [Purposes -> Requests \cup {None}]
      /\ \A q \in Purposes, t \in Transactions : request'[q] # None /\ request'[q].tx = t => Ready(t)
  BY IssueReady
<1>2. now' = now /\ txs' = txs /\ at' = at /\ time' = time /\ seen' = seen /\ listed' = listed
  BY DEF chainVars
<1>3. TypeOK'
  <2>1. Txs' = Txs /\ OnChain' = OnChain
    BY <1>2 DEF Txs, OnChain
  <2> QED
    BY <1>1, <1>2, <2>1 DEF IInv, TypeOK
<1> QED
  BY <1>1, <1>3, QuietStep

\* A client loads the pending transactions, or the server forgets one.
LEMMA ListStep ==
    ASSUME IInv, Load \/ \E i \in Txs : Forget(i)
    PROVE  IInv'
<1>1. /\ now' = now /\ txs' = txs /\ at' = at /\ time' = time
      /\ seen' = seen /\ request' = request /\ listed' \subseteq listed
  BY DEF Load, Forget, chainVars
<1>2. TypeOK'
  <2>1. Txs' = Txs /\ OnChain' = OnChain
    BY <1>1 DEF Txs, OnChain
  <2> QED
    BY <1>1, <2>1 DEF IInv, TypeOK
<1>3. \A q \in Purposes, t \in Transactions : request'[q] # None /\ request'[q].tx = t => Ready(t)
  BY <1>1, AskedReady
<1> QED
  BY <1>1, <1>2, <1>3, QuietStep DEF chainVars

\* The types after Lit signed.
LEMMA SignedTypes ==
    ASSUME TypeOK, NEW t \in Transactions, NEW coded \in BOOLEAN, NEW where \in {"out", "pool"},
           Signed(t, coded, where), now' = now, seen' = seen, request' \in [Purposes -> Requests \cup {None}]
    PROVE  TypeOK'
<1> DEFINE u == IF t.kind = "chained" THEN [t EXCEPT !.code = coded] ELSE t
<1>1. u \in Transactions
  BY DEF Transactions
<1>2. /\ Txs' = Txs \cup {Len(txs) + 1}
      /\ \A i \in Txs : time'[i] = time[i]
      /\ time'[Len(txs) + 1] = 0 /\ OnChain' = OnChain
  BY SignedEffect
<1>3. txs' = Append(txs, u) /\ at' = Append(at, where) /\ time' = Append(time, 0) /\ Len(txs) < MaxTxs
  BY DEF Signed
<1> HIDE DEF u
<1>4. txs' \in Seq(Transactions) /\ Len(txs') = Len(txs) + 1 /\ Len(txs') <= MaxTxs
  <2>1. txs \in Seq(Transactions) /\ Len(txs) \in Nat /\ MaxTxs \in Nat
    BY SendLimitsAssumption DEF TypeOK
  <2> QED
    BY <1>1, <1>3, <2>1
<1>5. at' \in Seq({"out", "pool", "chain"}) /\ Len(at') = Len(txs')
  BY <1>3, <1>4 DEF TypeOK
<1>6. time' \in Seq(Nat) /\ Len(time') = Len(txs')
  BY <1>3, <1>4 DEF TypeOK
<1>7. \A i \in Txs' : time'[i] <= now'
  BY <1>2 DEF TypeOK
<1>8. listed' \subseteq Txs'
  BY <1>2 DEF TypeOK, Signed
<1>9. now' \in 1 .. MaxTime /\ seen' \subseteq OnChain'
  BY <1>2 DEF TypeOK
<1> QED
  BY <1>4, <1>5, <1>6, <1>7, <1>8, <1>9 DEF TypeOK

\* Lit signs, and a request ends with it.
LEMMA SigningStep ==
    ASSUME IInv, NEW t \in Transactions, Fits(t, Len(txs)), NEW coded \in BOOLEAN, NEW where \in {"out", "pool"},
           where = "pool" => NodeTakes(t), Signs(t, coded), Signed(t, coded, where), now' = now, seen' = seen,
           request' = request \/ \E p \in Purposes : Issue(p, None)
    PROVE  IInv'
<1>1. /\ request' \in [Purposes -> Requests \cup {None}]
      /\ \A q \in Purposes, v \in Transactions : request'[q] # None /\ request'[q].tx = v => Ready(v)
  <2>1. CASE request' = request
    BY <2>1, AskedReady DEF IInv, TypeOK
  <2>2. CASE \E p \in Purposes : Issue(p, None)
    BY <2>2, IssueReady
  <2> QED
    BY <2>1, <2>2
<1>2. TypeOK'
  BY <1>1, SignedTypes DEF IInv
<1> QED
  BY <1>1, <1>2, SignedStep

\* A send is previewed.
LEMMA PreviewStep ==
    ASSUME IInv, NEW u \in Sends, NEW skew \in Skews, NEW known \in Nodes,
           Preview(Planned(u, skew, known), skew, known)
    PROVE  IInv'
<1>1. u \in Transactions /\ Fits(u, Len(txs))
  BY SendsFit DEF IInv
<1> DEFINE t == Planned(u, skew, known)
           row == Row(t, NeedsCode(t, now + skew, known), FALSE)
<1>2. t \in Transactions /\ Ready(t)
  BY <1>1, PlannedReady
<1>3. Issue("transaction", row) /\ UNCHANGED <<now, txs, chainVars, listed>>
  BY DEF Preview
<1> HIDE DEF t
<1>4. NeedsCode(t, now + skew, known) \in BOOLEAN
  BY <1>2, NeedsCodeType
<1>5. row \in Requests \cup {None} /\ row.tx = t
  BY <1>2, <1>4 DEF Row, Requests
<1> HIDE DEF row
<1> QED
  BY <1>2, <1>3, <1>5, AskStep DEF Purposes

\* Lit emails the code for a send.
LEMMA RequestCodeStep ==
    ASSUME IInv, RequestCode
    PROVE  IInv'
<1> DEFINE r == request["transaction"]
           row == [r EXCEPT !.coded = TRUE]
<1>1. r # None /\ Issue("transaction", row) /\ UNCHANGED <<now, txs, chainVars, listed>>
  BY DEF RequestCode
<1>2. r \in Requests /\ r.tx \in Transactions /\ Ready(r.tx)
  BY <1>1, AskedReady DEF Purposes
<1> HIDE DEF r
<1>3. row \in Requests \cup {None} /\ row.tx = r.tx
  BY <1>2 DEF Requests
<1> HIDE DEF row
<1> QED
  BY <1>1, <1>2, <1>3, AskStep DEF Purposes

\* A send is signed, or refused.
LEMMA SignStep ==
    ASSUME IInv, Sign
    PROVE  IInv'
<1> DEFINE r == request["transaction"]
<1>1. /\ r # None /\ Issue("transaction", None) /\ now' = now /\ seen' = seen
      /\ IF Signs(r.tx, r.coded) THEN Signed(r.tx, r.coded, "out") ELSE UNCHANGED <<txs, at, time, listed>>
  BY DEF Sign
<1>2. r \in Requests /\ r.tx \in Transactions /\ Ready(r.tx)
  BY <1>1, AskedReady DEF Purposes
<1>3. r.coded \in BOOLEAN /\ Fits(r.tx, Len(txs))
  BY <1>2 DEF Requests, Ready
<1>4. CASE Signs(r.tx, r.coded)
  BY <1>1, <1>2, <1>3, <1>4, SigningStep DEF Purposes
<1>5. CASE ~Signs(r.tx, r.coded)
  BY <1>1, <1>5, AskStep DEF Purposes, chainVars
<1> QED
  BY <1>4, <1>5

\* A request ends.
LEMMA ExpireStep ==
    ASSUME IInv, NEW p \in Purposes, Expire(p)
    PROVE  IInv'
BY AskStep DEF Expire

\* The limits are turned on or changed.
LEMMA SettingsStep ==
    ASSUME IInv, NEW limit \in Limits, NEW skew \in Skews, NEW known \in Nodes,
           Settings(limit, skew, known)
    PROVE  IInv'
<1>1. PICK u \in Changes(limit) :
        LET t == Planned(u, skew, known)
        IN  IF NeedsCode(t, now + skew, known)
            THEN Signs(t, TRUE) /\ Issue("settings", Row(t, TRUE, TRUE)) /\ UNCHANGED <<txs, at, time, listed>>
            ELSE SignAndSend(t, FALSE) /\ UNCHANGED request
  BY DEF Settings
<1>2. now' = now /\ seen' = seen
  BY DEF Settings
<1>3. u \in Transactions /\ Fits(u, Len(txs))
  BY ChangesFit DEF IInv
<1> DEFINE t == Planned(u, skew, known)
<1>4. t \in Transactions /\ Ready(t)
  BY <1>3, PlannedReady
<1>5. CASE NeedsCode(t, now + skew, known)
  <2> DEFINE row == Row(t, TRUE, TRUE)
  <2>1. Issue("settings", row) /\ UNCHANGED <<now, txs, chainVars, listed>>
    BY <1>1, <1>2, <1>5 DEF chainVars
  <2> HIDE DEF t
  <2>2. row \in Requests \cup {None} /\ row.tx = t
    BY <1>4 DEF Row, Requests
  <2> HIDE DEF row
  <2> QED
    BY <1>4, <2>1, <2>2, AskStep DEF Purposes
<1>6. CASE ~NeedsCode(t, now + skew, known)
  <2> DEFINE where == IF NodeTakes(t) THEN "pool" ELSE "out"
  <2>1. Signs(t, FALSE) /\ Signed(t, FALSE, where) /\ request' = request
    BY <1>1, <1>6 DEF SignAndSend
  <2> HIDE DEF t
  <2>2. where \in {"out", "pool"} /\ (where = "pool" => NodeTakes(t))
    OBVIOUS
  <2> HIDE DEF where
  <2> QED
    BY <1>2, <1>4, <2>1, <2>2, SigningStep DEF Ready
<1> QED
  BY <1>5, <1>6

\* A change is confirmed.
LEMMA ConfirmStep ==
    ASSUME IInv, Confirm
    PROVE  IInv'
<1> DEFINE t == request["settings"].tx
           where == IF NodeTakes(t) THEN "pool" ELSE "out"
<1>1. /\ request["settings"] # None /\ Signs(t, TRUE) /\ Signed(t, TRUE, where)
      /\ Issue("settings", None) \/ request' = request
      /\ now' = now /\ seen' = seen
  BY DEF Confirm, SignAndSend
<1>2. t \in Transactions /\ Ready(t)
  BY <1>1, AskedReady DEF Purposes
<1> HIDE DEF t
<1>3. where \in {"out", "pool"} /\ (where = "pool" => NodeTakes(t))
  OBVIOUS
<1> HIDE DEF where
<1> QED
  BY <1>1, <1>2, <1>3, SigningStep DEF Ready, Purposes

-----------------------------------------------------------------------------
(* The invariant.                                                           *)

\* An account starts so.
LEMMA InitInv == Init => IInv
<1> SUFFICES ASSUME Init PROVE IInv
  OBVIOUS
<1>0. MaxTxs \in Nat \ {0} /\ MaxTime \in Nat \ {0} /\ Coins \subseteq Nat \ {0}
  BY SendLimitsAssumption
<1>1. now = 1 /\ listed = {} /\ request = [p \in Purposes |-> None] /\ \A p \in Purposes : request[p] = None
  BY DEF Init
<1>2. request \in [Purposes -> Requests \cup {None}] /\ now \in 1 .. MaxTime
  BY <1>0, <1>1
<1>3. AskedInv
  BY <1>1 DEF AskedInv
<1>4. CASE txs = <<>> /\ at = <<>> /\ time = <<>> /\ seen = {}
  <2>1. Txs = {} /\ OnChain = {} /\ Held = {} /\ SendCells = {}
    BY <1>4 DEF Txs, OnChain, Held, SendCells
  <2>2. TypeOK
    <3>1. txs \in Seq(Transactions) /\ at \in Seq({"out", "pool", "chain"}) /\ time \in Seq(Nat)
      BY <1>4
    <3>2. Len(txs) = 0 /\ Len(at) = 0 /\ Len(time) = 0
      BY <1>4
    <3> QED
      BY <1>0, <1>1, <1>2, <1>4, <2>1, <3>1, <3>2 DEF TypeOK
  <2>3. FitInv /\ TimeInv /\ RecordInv /\ FirstInv /\ AmountInv
    BY <2>1 DEF FitInv, TimeInv, RecordInv, FirstInv, AmountInv
  <2>4. NodeInv /\ LineInv /\ CoverInv
    BY <2>1 DEF NodeInv, LineInv, CoverInv
  <2> QED
    BY <1>3, <2>2, <2>3, <2>4 DEF IInv
<1>5. CASE /\ \E limit \in Limits, c \in Coins : (\A d \in Coins : c <= d) /\ txs = <<Genesis(c, limit)>>
           /\ at = <<"chain">> /\ time = <<0>> /\ seen = {1}
  <2>1. PICK limit \in Limits, c \in Coins : (\A d \in Coins : c <= d) /\ txs = <<Genesis(c, limit)>>
    BY <1>5
  <2> DEFINE t == Genesis(c, limit)
  <2>2. t \in Transactions
    <3>1. Empty \in Records
      <4>1. Empty \in [{} -> 0 .. MaxTime]
        BY DEF Empty
      <4> QED
        BY <4>1 DEF Records
    <3>2. 0 \in 0 .. MaxTxs
      BY <1>0
    <3> QED
      BY <3>1, <3>2 DEF Genesis, Transactions
  <2>3. /\ t.kind = "genesis" /\ t.cell = 0 /\ t.coin = c /\ DOMAIN t.record = {}
    BY DEF Genesis, Empty
  <2> HIDE DEF t
  <2>4. txs = <<t>>
    BY <2>1 DEF t
  <2>5. Txs = {1} /\ txs[1] = t /\ at[1] = "chain" /\ time[1] = 0
    BY <1>5, <2>4 DEF Txs
  <2>6. OnChain = {1} /\ Held = {1} /\ SendCells = {1}
    BY <2>3, <2>5 DEF OnChain, Held, SendCells
  <2>7. TypeOK
    <3>1. txs \in Seq(Transactions) /\ Len(txs) = 1
      BY <2>2, <2>4
    <3>2. at \in Seq({"out", "pool", "chain"}) /\ Len(at) = 1 /\ time \in Seq(Nat) /\ Len(time) = 1
      BY <1>5
    <3> QED
      BY <1>0, <1>1, <1>2, <1>5, <2>5, <2>6, <3>1, <3>2 DEF TypeOK
  <2>8. FitInv /\ TimeInv /\ RecordInv /\ AmountInv
    <3>1. t.coin # 0
      BY <1>0, <2>3
    <3> QED
      BY <2>3, <2>5, <3>1 DEF FitInv, Fits, TimeInv, RecordInv, AmountInv
  <2>9. FirstInv
    <3>1. \A d \in Coins : ~(d < c)
      BY <1>0, <2>1
    <3> QED
      BY <2>3, <2>5, <3>1 DEF FirstInv, First
  <2>10. NodeInv /\ LineInv /\ CoverInv
    BY <2>3, <2>5, <2>6 DEF NodeInv, LineInv, CoverInv
  <2> QED
    BY <1>3, <2>7, <2>8, <2>9, <2>10 DEF IInv
<1> QED
  BY <1>4, <1>5 DEF Init

\* Every step keeps the invariant.
LEMMA NextInv == IInv /\ [Next]_vars => IInv'
<1> SUFFICES ASSUME IInv, [Next]_vars PROVE IInv'
  OBVIOUS
<1>1. CASE \E i \in Txs : Send(i) \/ Commit(i) \/ Drop(i) \/ Forget(i)
  BY <1>1, SendStep, CommitStep, DropStep, ListStep
<1>2. CASE IndexerCatchesUp \/ Tick
  BY <1>2, IdleStep
<1>3. CASE Load
  BY <1>3, ListStep
<1>4. CASE \E t \in Sends, skew \in Skews, known \in Nodes : Preview(Planned(t, skew, known), skew, known)
  BY <1>4, PreviewStep
<1>5. CASE RequestCode \/ Sign \/ Confirm
  BY <1>5, RequestCodeStep, SignStep, ConfirmStep
<1>6. CASE \E p \in Purposes : Expire(p)
  BY <1>6, ExpireStep
<1>7. CASE \E limit \in Limits, skew \in Skews, known \in Nodes : Settings(limit, skew, known)
  BY <1>7, SettingsStep
<1>8. CASE UNCHANGED vars
  <2>1. now' = now /\ txs' = txs /\ at' = at /\ time' = time /\ seen' = seen /\ listed' = listed /\ request' = request
    BY <1>8 DEF vars, chainVars
  <2>2. TypeOK'
    BY <2>1 DEF IInv, TypeOK, Txs, OnChain
  <2>3. \A q \in Purposes, t \in Transactions : request'[q] # None /\ request'[q].tx = t => Ready(t)
    BY <2>1, AskedReady
  <2> QED
    BY <2>1, <2>2, <2>3, QuietStep DEF chainVars
<1> QED
  BY <1>1, <1>2, <1>3, <1>4, <1>5, <1>6, <1>7, <1>8 DEF Next

\* So it always holds.
LEMMA InvHolds == Spec => []IInv
<1>1. Spec => Init /\ [][Next]_vars
  BY DEF Spec
<1> QED
  BY <1>1, InitInv, NextInv, PTL

-----------------------------------------------------------------------------
(* The results.                                                             *)

(* Transactions, places, times and requests have their types: a chained
   transaction, a record and a request never name what does not exist. *)
THEOREM SendLimitTypes == Spec => []TypeOK
<1>1. IInv => TypeOK
  BY DEF IInv
<1> QED
  BY <1>1, InvHolds, PTL

\* What is asked for always has a record that holds.
LEMMA PlansStandNow == IInv => PlanStands
<1> SUFFICES ASSUME IInv, NEW p \in Purposes, request[p] # None, request[p].tx.kind = "chained"
             PROVE  RecordHolds(request[p].tx)
  BY DEF PlanStands
<1> QED
  BY AskedReady DEF Ready

(* Lit never refuses the record of a request: a record the server planned by its
   own clock holds whenever Lit looks at it, for any clocks, windows and margins
   with the server's clock ahead by the margin at most (planSendLimits,
   checkRecord). *)
THEOREM PlansStand == Spec => []PlanStands
BY PlansStandNow, InvHolds, PTL

\* Of a committed send, each earlier send of the window is a recent previous entry.
LEMMA EverySendCounted ==
    ASSUME IInv, NEW i \in OnChain, txs[i].kind = "chained", NEW j \in Before(i), time[j] > time[i] - Window
    PROVE  j \in Recent(txs[i], time[i], Window)
<1>0. TypeOK /\ FitInv /\ TimeInv /\ CoverInv
  BY DEF IInv
<1> DEFINE t == txs[i]
<1>1. i \in Txs /\ j \in Txs /\ i \in SendCells /\ j \in SendCells /\ txs[j].kind = "chained" /\ j < i
  BY DEF OnChain, Before, SendCells, Held
<1>2. t \in Transactions /\ time[i] \in Nat /\ time[j] \in Nat /\ time[i] # 0 /\ Window \in Nat
  BY <1>0, <1>1, SignedFacts, SendLimitsAssumption DEF TimeInv, OnChain
<1>3. Fits(t, Len(txs))
  <2>1. Fits(t, i - 1)
    BY <1>0, <1>1, <1>2 DEF FitInv
  <2> QED
    BY <1>1, <2>1 DEF Fits, Txs
<1>4. ~Past(i, j)
  BY <1>2 DEF Past
<1>5. j \in DOMAIN Previous(t)
  BY <1>0, <1>1, <1>2, <1>4 DEF CoverInv
<1>6. TimeOf(t, j) = time[j]
  BY <1>0, <1>2, <1>3, <1>5, PreviousFacts
<1>7. time[i] - TimeOf(t, j) < Window
  BY <1>2, <1>6
<1> QED
  BY <1>5, <1>7 DEF Recent, KnownRecent, TimeOf

\* So what left in the window before a send is at most what Lit added up for it.
LEMMA DailyAmountNow == IInv => DailyAmountHolds
<1> SUFFICES ASSUME IInv, NEW i \in OnChain, txs[i].kind = "chained", ~txs[i].code, NEW a \in Assets,
                    txs[i].moved[a] > 0, txs[txs[i].cell].limit[a] # Unlimited
             PROVE  Moved({j \in Before(i) : time[j] > time[i] - Window}, a) + txs[i].moved[a] < txs[txs[i].cell].limit[a]
  BY DEF DailyAmountHolds
<1>0. TypeOK /\ FitInv /\ TimeInv /\ AmountInv
  BY DEF IInv
<1> DEFINE t == txs[i]
           recent == {j \in Before(i) : time[j] > time[i] - Window}
           v == [n \in 1 .. MaxTxs |-> IF n \in recent THEN txs[n].moved[a] ELSE 0]
           w == [n \in 1 .. MaxTxs |-> IF n \in Recent(t, time[i], Window) THEN txs[n].moved[a] ELSE 0]
           limit == txs[t.cell].limit
<1>1. i \in Txs /\ t \in Transactions /\ time[i] \in Nat /\ time[i] # 0
  BY <1>0, SignedFacts DEF OnChain, TimeInv
<1>2. Fits(t, Len(txs))
  <2>1. Fits(t, i - 1)
    BY <1>0, <1>1 DEF FitInv
  <2> QED
    BY <1>1, <2>1 DEF Fits, Txs
<1>3. Below(t, time[i])
  <2>1. PICK c \in Nat : c = time[i]
    BY <1>1
  <2>2. c = ClockOf(i)
    BY <1>1, <2>1 DEF ClockOf
  <2>3. Below(t, c)
    BY <1>0, <1>1, <2>2 DEF AmountInv
  <2> QED
    BY <2>1, <2>3
<1>4. Total(t, time[i], a, Txs) + t.moved[a] < limit[a]
  BY <1>3 DEF Below
<1>5. recent \subseteq Recent(t, time[i], Window)
  BY EverySendCounted
<1>6. Recent(t, time[i], Window) \subseteq Txs
  BY <1>0, <1>1, <1>2, PreviousFacts DEF Recent, KnownRecent, TimeOf
<1>7. \A n \in Txs : txs[n].moved[a] \in Nat
  BY <1>0, SignedFacts, TransactionFacts
<1> HIDE DEF recent
<1>8. v \in [1 .. MaxTxs -> Nat] /\ w \in [1 .. MaxTxs -> Nat] /\ \A n \in 1 .. MaxTxs : v[n] <= w[n]
  BY <1>5, <1>6, <1>7
<1>9. Total(t, time[i], a, Txs) = SumFunction(w) /\ Moved(recent, a) = SumFunction(v)
  BY DEF Total, Recent, Moved
<1> HIDE DEF v, w
<1>10. SumFunction(v) \in Nat /\ SumFunction(w) \in Nat /\ SumFunction(v) <= SumFunction(w)
  BY <1>8, SumCompares, SendLimitsAssumption
<1>11. t.moved[a] \in Nat /\ limit[a] \in Nat
  <2>1. t.cell \in Txs
    BY <1>0, <1>1, <1>2, PreviousFacts
  <2>2. txs[t.cell] \in Transactions
    BY <1>0, <2>1, SignedFacts
  <2>3. Limits \subseteq [Assets -> Nat] /\ Zero \in [Assets -> Nat]
    BY SendLimitsAssumption DEF Limits, Zero
  <2>4. limit \in [Assets -> Nat]
    BY <2>2, <2>3 DEF Transactions
  <2> QED
    BY <1>1, <1>7, <2>4
<1>12. Moved(recent, a) + t.moved[a] < limit[a]
  <2> HIDE DEF t, limit
  <2> QED
    BY <1>4, <1>9, <1>10, <1>11
<1> QED
  BY <1>12 DEF recent

(* The daily amounts hold: what leaves the account through the chain of sends in
   any window stays below the amount in force at its last send, unless that send
   was confirmed with the code.  No pending send, late commit, dropped and resent
   transaction, second client, lagging indexer or clock hides a send (windowTotals,
   overAmount, checkRecord). *)
THEOREM DailyAmounts == Spec => []DailyAmountHolds
BY DailyAmountNow, InvHolds, PTL

\* Two first cells never get on the chain.
LEMMA OneGenesis ==
    ASSUME IInv, NEW i \in OnChain, NEW j \in OnChain, txs[i].kind = "genesis", txs[j].kind = "genesis"
    PROVE  i = j
<1>1. i \in SendCells /\ j \in SendCells
  BY DEF OnChain, SendCells, Held
<1>2. i <= j /\ j <= i /\ i \in Nat /\ j \in Nat
  BY <1>1 DEF IInv, LineInv, SendCells, Held, Txs
<1> QED
  BY <1>2

\* A client that knows the pending transactions, from an indexer that caught up, builds on the newest cell.
LEMMA HeadIsNewest ==
    ASSUME IInv, \A i \in Held : at[i] = "chain" \/ txs[i].kind = "outside" \/ i \in listed, seen = OnChain
    PROVE  \/ ServerHead \in Held /\ ~\E j \in Held : txs[j].cell = ServerHead
           \/ ServerHead = 0 /\ \A i \in Held : txs[i].kind = "outside"
<1>0. TypeOK /\ FitInv /\ NodeInv /\ LineInv /\ Len(txs) \in Nat
  BY DEF IInv, TypeOK
<1> DEFINE P == {i \in SendCells : at[i] = "pool"}
<1>1. \A i \in Held : i \in Txs /\ txs[i] \in Transactions /\ i \in Nat \ {0} /\ i \in 0 .. Len(txs)
  BY <1>0, SignedFacts DEF Held, Txs
<1>2. \A j \in Held : txs[j].cell # 0 => txs[j].kind = "chained" /\ j \in SendCells /\ txs[j].cell < j
  <2> TAKE j \in Held
  <2>1. Fits(txs[j], j - 1) /\ j \in Nat
    BY <1>0, <1>1 DEF FitInv
  <2> QED
    BY <2>1 DEF Fits, SendCells
<1>3. P \subseteq LivePending /\ LivePending \subseteq Held /\ \A i \in LivePending : at[i] = "pool"
  BY <1>0 DEF LivePending, SendCells, Held, TypeOK
<1>4. \A i \in LivePending : txs[i].kind # "outside" => i \in P
  BY <1>3 DEF SendCells
<1>5. \A i \in Tips : i \in P /\ \A j \in LivePending : txs[j].cell # i
  BY <1>4 DEF Tips
<1>6. CASE P # {}
  <2>1. P \in SUBSET (0 .. Len(txs))
    BY <1>1 DEF SendCells
  <2>2. PICK m \in P : \A j \in P : j <= m
    <3> HIDE DEF P
    <3> QED
      BY <1>0, <1>6, <2>1, GreatestNumber
  <2>3. m \in Tips
    <3>1. m \in LivePending /\ txs[m].kind # "outside" /\ m \in Nat \ {0}
      BY <1>1, <1>3, <2>2 DEF SendCells
    <3>2. ASSUME NEW j \in LivePending, txs[j].cell = m
          PROVE  FALSE
      <4>1. j \in P /\ m < j
        BY <1>2, <1>3, <1>4, <3>1, <3>2
      <4>2. j <= m /\ j \in Nat
        BY <1>1, <1>3, <2>2, <4>1
      <4> QED
        BY <3>1, <4>1, <4>2
    <3> QED
      BY <3>1, <3>2 DEF Tips
  <2>4. Tips \in SUBSET (0 .. Len(txs)) /\ Tips # {}
    BY <1>5, <2>1, <2>3
  <2>5. \E i \in Tips : \A j \in Tips : j <= i
    BY <1>0, <2>4, GreatestNumber
  <2>6. ServerHead \in Tips
    BY <2>4, <2>5 DEF ServerHead
  <2> DEFINE h == ServerHead
  <2>7. h \in P /\ h \in Held /\ h # 0 /\ at[h] = "pool" /\ \A j \in LivePending : txs[j].cell # h
    BY <1>1, <1>5, <2>6 DEF SendCells
  <2> HIDE DEF h
  <2>8. ASSUME NEW j \in Held, txs[j].cell = h
        PROVE  FALSE
    <3>1. txs[j].kind = "chained" /\ j \in SendCells
      BY <1>2, <2>7, <2>8
    <3>2. CASE at[j] = "pool"
      BY <1>3, <2>7, <2>8, <3>1, <3>2
    <3>3. CASE at[j] = "chain"
      BY <1>0, <1>1, <2>7, <2>8, <3>1, <3>3 DEF NodeInv, OnChain
    <3> QED
      BY <3>2, <3>3 DEF Held
  <2> QED
    BY <2>7, <2>8 DEF h
<1>7. CASE P = {}
  <2>1. Tips = {}
    BY <1>5, <1>7
  <2>2. SendCells \subseteq OnChain /\ \A i \in SendCells : txs[i].kind # "outside"
    BY <1>7 DEF SendCells, Held, OnChain
  <2>3. OnChain \subseteq Held
    BY DEF OnChain, Held
  <2>4. Cells = {i \in SendCells : \A j \in SendCells : txs[j].cell # i}
    <3>1. \A i \in Cells : i \in SendCells /\ \A j \in SendCells : txs[j].cell # i
      BY <2>2, <2>3 DEF Cells, SendCells
    <3>2. ASSUME NEW i \in SendCells, \A j \in SendCells : txs[j].cell # i
          PROVE  i \in Cells
      <4>1. i # 0 /\ i \in seen /\ txs[i].kind # "outside"
        BY <1>1, <2>2, <2>3
      <4>2. \A j \in seen : txs[j].cell # i
        BY <1>2, <2>3, <3>2, <4>1
      <4> QED
        BY <4>1, <4>2 DEF Cells
    <3> QED
      BY <3>1, <3>2
  <2>5. Indexed = Cells
    <3>1. ASSUME NEW i \in Cells, NEW j \in LivePending, txs[j].cell = i
          PROVE  FALSE
      <4>1. i # 0 /\ j \in Held
        BY <1>1, <1>3, <2>2, <2>3, <2>4, <3>1
      <4> QED
        BY <1>2, <1>3, <1>4, <1>7, <3>1, <4>1
    <3> QED
      BY <3>1 DEF Indexed
  <2>6. CASE SendCells = {}
    <3>1. Cardinality(Indexed) = 0
      BY <2>4, <2>5, <2>6, FS_EmptySet
    <3>2. ServerHead = 0
      BY <2>1, <3>1 DEF ServerHead
    <3> QED
      BY <2>6, <3>2 DEF SendCells
  <2>7. CASE SendCells # {}
    <3>1. SendCells \in SUBSET (0 .. Len(txs))
      BY <1>1 DEF SendCells
    <3>2. PICK m \in SendCells : \A j \in SendCells : j <= m
      BY <1>0, <2>7, <3>1, GreatestNumber
    <3>3. m \in Held /\ m \in Nat \ {0}
      BY <1>1, <2>2, <2>3, <3>2
    <3>4. \A j \in Held : txs[j].cell # m
      <4> SUFFICES ASSUME NEW j \in Held, txs[j].cell = m
                   PROVE  FALSE
        OBVIOUS
      <4>1. j \in SendCells /\ m < j /\ j \in Nat
        BY <1>1, <1>2, <3>3
      <4>2. j <= m
        BY <3>2, <4>1
      <4> QED
        BY <3>3, <4>1, <4>2
    <3>5. ASSUME NEW i \in Cells
          PROVE  i = m
      <4>1. i \in SendCells /\ \A k \in SendCells : txs[k].cell # i
        BY <2>4
      <4>2. m <= i /\ i <= m /\ i \in Nat
        BY <1>0, <1>1, <2>2, <2>3, <3>2, <4>1 DEF LineInv
      <4> QED
        BY <3>3, <4>2
    <3>6. Cells = {m}
      BY <2>2, <2>3, <2>4, <3>2, <3>4, <3>5
    <3>7. Cardinality(Indexed) = 1 /\ Indexed = {m}
      BY <2>5, <3>6, FS_Singleton
    <3>8. ServerHead = m
      BY <2>1, <3>7 DEF ServerHead
    <3> QED
      BY <3>3, <3>4, <3>8
  <2> QED
    BY <2>6, <2>7
<1> QED
  BY <1>6, <1>7

\* Both parts of the chain's being one.
LEMMA OneChainNow == IInv => OneChain
<1> SUFFICES ASSUME IInv PROVE OneChain
  OBVIOUS
<1>1. \A i, j \in OnChain : txs[i].kind = "genesis" /\ txs[j].kind = "genesis" => i = j
  BY OneGenesis
<1>2. (\A i \in Held : at[i] = "chain" \/ txs[i].kind = "outside" \/ i \in listed) /\ seen = OnChain =>
         \/ ServerHead \in Held /\ ~\E j \in Held : txs[j].cell = ServerHead
         \/ ServerHead = 0 /\ \A i \in Held : txs[i].kind = "outside"
  BY HeadIsNewest
<1> QED
  BY <1>1, <1>2 DEF OneChain

(* The send-limit cells of an account are one chain whose end the server finds: two
   clients that turn limits on at the same time never both succeed, and whoever
   builds on what the server knows builds on the newest cell (genesisView,
   limitAnalysis, sendLimitHead). *)
THEOREM SingleChain == Spec => []OneChain
BY OneChainNow, InvHolds, PTL

-----------------------------------------------------------------------------
(* The rules: what a transaction moves, and what is shown and counted of it. *)

(* The cells of one side of a transaction; what they are worth, cell by cell and together, at some locks. *)
CellLine(cells) == \E n \in Nat : cells \in [1 .. n -> Sources \cup Targets]
Kinds == CellTypes \cup {"ckb"}
Worths(cells, locks, asset) ==
    [i \in DOMAIN cells |-> IF cells[i].lock \in locks THEN Worth(cells[i], asset) ELSE 0]
Within(cells, locks, asset) == SumFunction(Worths(cells, locks, asset))

\* What a cell is.
LEMMA CellFacts ==
    ASSUME NEW c \in Sources \cup Targets
    PROVE  /\ c.lock \in CellLocks /\ c.type \in CellTypes /\ c.units \in Nat /\ c.cap \in Nat
           /\ c = [lock |-> c.lock, type |-> c.type, units |-> c.units, cap |-> c.cap]
           /\ c.type \notin Tokens => c.units = IF c.type \in {"none", "dao"} THEN 0 ELSE 1
           /\ \A asset \in Kinds : Worth(c, asset) \in Nat
<1>1. c \in [lock : CellLocks, type : CellTypes, units : Nat, cap : Nat]
  BY TransactionRulesAssumption
<1>2. c.lock \in CellLocks /\ c.type \in CellTypes /\ c.units \in Nat /\ c.cap \in Nat
  BY <1>1
<1>3. c = [lock |-> c.lock, type |-> c.type, units |-> c.units, cap |-> c.cap]
  BY <1>1
<1>4. c.type \notin Tokens => c.units = IF c.type \in {"none", "dao"} THEN 0 ELSE 1
  BY TransactionRulesAssumption
<1>5. \A asset \in Kinds : Worth(c, asset) \in Nat
  BY <1>2 DEF Worth
<1>6. QED
  BY <1>2, <1>3, <1>4, <1>5

\* What a transaction's sides are.
LEMMA SideFacts ==
    ASSUME NEW t \in CellTransactions
    PROVE  /\ CellLine(t.ins) /\ CellLine(t.outs) /\ Unique(t.ins) /\ Unique(t.outs)
           /\ 1 \in DOMAIN t.ins /\ 1 \in DOMAIN t.outs
           /\ \A i \in DOMAIN t.ins : t.ins[i] \in Sources
           /\ \A i \in DOMAIN t.outs : t.outs[i] \in Targets
<1>1. t.ins \in SeqsOf(Sources) /\ t.outs \in SeqsOf(Targets) /\ Unique(t.ins) /\ Unique(t.outs)
  BY DEF CellTransactions
<1>2. PICK n \in 1 .. MaxCells : t.ins \in [1 .. n -> Sources]
  BY <1>1 DEF SeqsOf
<1>3. PICK m \in 1 .. MaxCells : t.outs \in [1 .. m -> Targets]
  BY <1>1 DEF SeqsOf
<1>4. n \in Nat /\ m \in Nat /\ 1 \in 1 .. n /\ 1 \in 1 .. m
  BY TransactionRulesAssumption
<1>5. t.ins \in [1 .. n -> Sources \cup Targets] /\ t.outs \in [1 .. m -> Sources \cup Targets]
  BY <1>2, <1>3
<1>6. CellLine(t.ins) /\ CellLine(t.outs)
  BY <1>4, <1>5 DEF CellLine
<1>7. QED
  BY <1>1, <1>2, <1>3, <1>4, <1>6

\* The worths of a line of cells are natural numbers.
LEMMA WorthFacts ==
    ASSUME NEW cells, NEW n \in Nat, cells \in [1 .. n -> Sources \cup Targets], NEW locks, NEW asset \in Kinds
    PROVE  /\ Worths(cells, locks, asset) \in [1 .. n -> Nat]
           /\ \A i \in 1 .. n : Worths(cells, locks, asset)[i] =
                IF cells[i].lock \in locks THEN Worth(cells[i], asset) ELSE 0
<1>1. \A i \in 1 .. n : cells[i] \in Sources \cup Targets
  OBVIOUS
<1>2. \A i \in 1 .. n : Worth(cells[i], asset) \in Nat
  BY <1>1, CellFacts
<1>3. DOMAIN cells = 1 .. n
  OBVIOUS
<1>4. Worths(cells, locks, asset) =
        [i \in 1 .. n |-> IF cells[i].lock \in locks THEN Worth(cells[i], asset) ELSE 0]
  BY <1>3 DEF Worths
<1>5. QED
  BY <1>2, <1>4

\* More locks hold no less.
LEMMA WithinGrows ==
    ASSUME NEW cells, CellLine(cells), NEW few, NEW many, few \subseteq many, NEW asset \in Kinds
    PROVE  /\ Within(cells, few, asset) \in Nat /\ Within(cells, many, asset) \in Nat
           /\ Within(cells, few, asset) <= Within(cells, many, asset)
<1>1. PICK n \in Nat : cells \in [1 .. n -> Sources \cup Targets]
  BY DEF CellLine
<1> DEFINE v == Worths(cells, few, asset)
           w == Worths(cells, many, asset)
<1>2. v \in [1 .. n -> Nat] /\ w \in [1 .. n -> Nat]
  BY <1>1, WorthFacts
<1>3. ASSUME NEW i \in 1 .. n PROVE v[i] <= w[i]
  <2>1. /\ v[i] = IF cells[i].lock \in few THEN Worth(cells[i], asset) ELSE 0
        /\ w[i] = IF cells[i].lock \in many THEN Worth(cells[i], asset) ELSE 0
    BY <1>1, WorthFacts
  <2>2. Worth(cells[i], asset) \in Nat
    BY <1>1, CellFacts
  <2> HIDE DEF v, w
  <2>3. QED
    BY <2>1, <2>2
<1> HIDE DEF v, w
<1>4. SumFunction(v) \in Nat /\ SumFunction(w) \in Nat /\ SumFunction(v) <= SumFunction(w)
  BY <1>2, <1>3, SumCompares
<1>5. QED
  BY <1>4 DEF Within, v, w

\* What locks apart hold is what they hold together.
LEMMA WithinSplits ==
    ASSUME NEW cells, CellLine(cells), NEW some, NEW rest, some \cap rest = {}, NEW asset \in Kinds
    PROVE  Within(cells, some \cup rest, asset) = Within(cells, some, asset) + Within(cells, rest, asset)
<1>1. PICK n \in Nat : cells \in [1 .. n -> Sources \cup Targets]
  BY DEF CellLine
<1> DEFINE u == Worths(cells, some \cup rest, asset)
           v == Worths(cells, some, asset)
           w == Worths(cells, rest, asset)
<1>2. u \in [1 .. n -> Nat] /\ v \in [1 .. n -> Nat] /\ w \in [1 .. n -> Nat]
  BY <1>1, WorthFacts
<1>3. ASSUME NEW i \in 1 .. n PROVE u[i] = v[i] + w[i]
  <2>1. /\ u[i] = IF cells[i].lock \in some \cup rest THEN Worth(cells[i], asset) ELSE 0
        /\ v[i] = IF cells[i].lock \in some THEN Worth(cells[i], asset) ELSE 0
        /\ w[i] = IF cells[i].lock \in rest THEN Worth(cells[i], asset) ELSE 0
    BY <1>1, WorthFacts
  <2>2. Worth(cells[i], asset) \in Nat
    BY <1>1, CellFacts
  <2> HIDE DEF u, v, w
  <2>3. QED
    BY <2>1, <2>2
<1> HIDE DEF u, v, w
<1>4. SumFunction(u) = SumFunction(v) + SumFunction(w)
  BY <1>2, <1>3, SumSplits
<1>5. QED
  BY <1>4 DEF Within, u, v, w

\* Without a cell that is worth something there, locks hold nothing.
LEMMA WithinNothing ==
    ASSUME NEW cells, CellLine(cells), NEW locks, NEW asset \in Kinds,
           \A i \in DOMAIN cells : cells[i].lock \in locks => Worth(cells[i], asset) = 0
    PROVE  Within(cells, locks, asset) = 0
<1>1. PICK n \in Nat : cells \in [1 .. n -> Sources \cup Targets]
  BY DEF CellLine
<1> DEFINE w == Worths(cells, locks, asset)
<1>2. /\ w \in [1 .. n -> Nat]
      /\ \A i \in 1 .. n : w[i] = IF cells[i].lock \in locks THEN Worth(cells[i], asset) ELSE 0
  BY <1>1, WorthFacts
<1>3. \A i \in 1 .. n : w[i] = 0
  BY <1>1, <1>2
<1> HIDE DEF w
<1>4. SumFunction(w) = 0
  BY <1>2, <1>3, SumOfNothing
<1>5. QED
  BY <1>4 DEF Within, w

\* The one cell that is worth something is what locks hold.
LEMMA WithinOne ==
    ASSUME NEW cells, CellLine(cells), NEW locks, NEW asset \in Kinds, NEW k \in DOMAIN cells, cells[k].lock \in locks,
           \A i \in DOMAIN cells : i # k /\ cells[i].lock \in locks => Worth(cells[i], asset) = 0
    PROVE  Within(cells, locks, asset) = Worth(cells[k], asset)
<1>1. PICK n \in Nat : cells \in [1 .. n -> Sources \cup Targets]
  BY DEF CellLine
<1> DEFINE w == Worths(cells, locks, asset)
<1>2. /\ w \in [1 .. n -> Nat]
      /\ \A i \in 1 .. n : w[i] = IF cells[i].lock \in locks THEN Worth(cells[i], asset) ELSE 0
  BY <1>1, WorthFacts
<1>3. k \in 1 .. n /\ w[k] = Worth(cells[k], asset) /\ \A i \in 1 .. n : i # k => w[i] = 0
  BY <1>1, <1>2
<1> HIDE DEF w
<1>4. SumFunction(w) = w[k]
  BY <1>2, <1>3, SumOfOne
<1>5. QED
  BY <1>3, <1>4 DEF Within, w

\* What locks lose is what they hold before less what they hold after.
LEMMA LossWithin ==
    ASSUME NEW t, NEW locks, NEW asset
    PROVE  Loss(t, locks, asset) = Within(t.ins, locks, asset) - Within(t.outs, locks, asset)
BY DEF Loss, SumOf, Within, Worths

\* Adding up capacities, of the cells of some locks and of all.
LEMMA CapacitiesWithin ==
    ASSUME NEW cells, CellLine(cells), NEW own
    PROVE  /\ SumOf(cells, LAMBDA c : c.lock \in own, Capacity) = Within(cells, own, "ckb")
           /\ SumOf(cells, AnyCell, Capacity) = Within(cells, CellLocks, "ckb")
<1>1. PICK n \in Nat : cells \in [1 .. n -> Sources \cup Targets]
  BY DEF CellLine
<1>2. Worths(cells, own, "ckb") = [i \in DOMAIN cells |-> IF cells[i].lock \in own THEN cells[i].cap ELSE 0]
  BY DEF Worths, Worth
<1>3. \A i \in DOMAIN cells : cells[i].lock \in CellLocks
  BY <1>1, CellFacts
<1>4. Worths(cells, CellLocks, "ckb") = [i \in DOMAIN cells |-> IF TRUE THEN cells[i].cap ELSE 0]
  BY <1>3 DEF Worths, Worth
<1>5. SumOf(cells, LAMBDA c : c.lock \in own, Capacity) = Within(cells, own, "ckb")
  BY <1>2 DEF SumOf, Capacity, Within
<1>6. SumOf(cells, AnyCell, Capacity) = Within(cells, CellLocks, "ckb")
  BY <1>4 DEF SumOf, Capacity, AnyCell, Within
<1>7. QED
  BY <1>5, <1>6

\* The fee is what all locks lose, a number of CKB.
LEMMA FeeIsLost ==
    ASSUME NEW t \in CellTransactions
    PROVE  Fee(t) = Within(t.ins, CellLocks, "ckb") - Within(t.outs, CellLocks, "ckb")
<1>1. CellLine(t.ins) /\ CellLine(t.outs)
  BY SideFacts
<1>2. /\ SumOf(t.ins, AnyCell, Capacity) = Within(t.ins, CellLocks, "ckb")
      /\ SumOf(t.outs, AnyCell, Capacity) = Within(t.outs, CellLocks, "ckb")
  BY <1>1, CapacitiesWithin
<1>3. QED
  BY <1>2 DEF Fee

(* The addresses of an account. *)
Real(on) == {"secp"} \cup (IF on THEN {"omni"} ELSE {})

\* No channel's lock is among them.
LEMMA RealAddresses == ASSUME NEW on PROVE Real(on) \in SUBSET CellLocks /\ "channel" \notin Real(on)
<1>1. Real(on) \subseteq {"secp", "omni"}
  BY DEF Real
<1>2. "secp" \in CellLocks /\ "omni" \in CellLocks
  BY DEF CellLocks, KeyOmnilocks
<1>3. QED
  BY <1>1, <1>2

\* A record that passes its anchor's check names the account's addresses.
LEMMA OwnIsReal ==
    ASSUME NEW on \in BOOLEAN, NEW record \in ListRecords(on), Anchored(record, on)
    PROVE  AccountLocks(record) = Real(on)
BY DEF ListRecords, Anchored, AccountLocks, Real

\* The CKB a preview says is sent, the fee and what is received are what the account loses.
LEMMA CkbShown ==
    ASSUME NEW t \in CellTransactions, NEW own \in SUBSET CellLocks, Fee(t) \in Nat
    PROVE  LET shown == PreviewCkb(t, own)
           IN  shown.sending + (IF shown.paysFee THEN shown.fee ELSE 0) - shown.receiving = Loss(t, own, "ckb")
<1> DEFINE ownIn == Within(t.ins, own, "ckb")
           ownOut == Within(t.outs, own, "ckb")
           allIn == Within(t.ins, CellLocks, "ckb")
           allOut == Within(t.outs, CellLocks, "ckb")
           paysFee == \A i \in DOMAIN t.ins : t.ins[i].lock \in own
           outflow == IF ownIn > ownOut THEN ownIn - ownOut ELSE 0
           sending == IF ~paysFee THEN outflow ELSE IF outflow > Fee(t) THEN outflow - Fee(t) ELSE 0
           receiving == IF ownOut > ownIn THEN ownOut - ownIn ELSE 0
<1>1. CellLine(t.ins) /\ CellLine(t.outs) /\ "ckb" \in Kinds
  BY SideFacts DEF Kinds
<1>2. /\ ownIn \in Nat /\ ownOut \in Nat /\ allIn \in Nat /\ allOut \in Nat
      /\ ownIn <= allIn /\ ownOut <= allOut
  BY <1>1, WithinGrows
<1>3. Fee(t) = allIn - allOut
  BY FeeIsLost
<1>4. ASSUME paysFee PROVE ownIn = allIn
  <2>1. \A i \in DOMAIN t.ins : t.ins[i].lock \in CellLocks
    BY CellFacts, SideFacts
  <2>2. Worths(t.ins, own, "ckb") = [i \in DOMAIN t.ins |-> Worth(t.ins[i], "ckb")]
    BY <1>4 DEF Worths
  <2>3. Worths(t.ins, CellLocks, "ckb") = [i \in DOMAIN t.ins |-> Worth(t.ins[i], "ckb")]
    BY <2>1 DEF Worths
  <2>4. QED
    BY <2>2, <2>3 DEF Within
<1>5. /\ SumOf(t.ins, LAMBDA c : c.lock \in own, Capacity) = ownIn
      /\ SumOf(t.outs, LAMBDA c : c.lock \in own, Capacity) = ownOut
  BY <1>1, CapacitiesWithin
<1>6. /\ PreviewCkb(t, own).sending = sending /\ PreviewCkb(t, own).receiving = receiving
      /\ PreviewCkb(t, own).paysFee = paysFee /\ PreviewCkb(t, own).fee = Fee(t)
  <2> HIDE DEF ownIn, ownOut
  <2>1. QED
    BY <1>5 DEF PreviewCkb
<1>7. Loss(t, own, "ckb") = ownIn - ownOut
  BY LossWithin
<1> HIDE DEF ownIn, ownOut, allIn, allOut, paysFee
<1>8. sending + (IF paysFee THEN Fee(t) ELSE 0) - receiving = ownIn - ownOut
  <2>1. CASE ~paysFee
    BY <1>2, <2>1
  <2>2. CASE paysFee
    <3>1. ownIn = allIn /\ Fee(t) <= ownIn - ownOut /\ Fee(t) \in Nat
      BY <1>2, <1>3, <1>4, <2>2
    <3>2. outflow = ownIn - ownOut /\ receiving = 0
      BY <1>2, <3>1
    <3> HIDE DEF outflow, receiving
    <3>3. QED
      BY <1>2, <2>2, <3>1, <3>2
  <2>3. QED
    BY <2>1, <2>2
<1> HIDE DEF sending, receiving
<1>9. QED
  BY <1>6, <1>7, <1>8

\* Adding up the units of one type.
LEMMA UnitsWithin ==
    ASSUME NEW cells, NEW own, NEW type \in CellTypes
    PROVE  SumOf(cells, LAMBDA c : c.lock \in own /\ c.type = type, LAMBDA c : c.units) = Within(cells, own, type)
<1>1. type # "ckb"
  BY DEF CellTypes, Tokens, Nfts, TypeIds, Lists
<1>2. Worths(cells, own, type) =
        [i \in DOMAIN cells |-> IF cells[i].lock \in own /\ cells[i].type = type THEN cells[i].units ELSE 0]
  BY <1>1 DEF Worths, Worth
<1>3. QED
  BY <1>2 DEF SumOf, Within

\* The change of every token is shown.
LEMMA TokensShown ==
    ASSUME NEW t \in CellTransactions, NEW own, NEW type \in Tokens
    PROVE  PreviewTokens(t, own)[type] = -Loss(t, own, type)
<1>1. type \in CellTypes /\ type \in Kinds /\ CellLine(t.ins) /\ CellLine(t.outs)
  BY SideFacts DEF CellTypes, Kinds
<1>2. PreviewTokens(t, own)[type] = Within(t.outs, own, type) - Within(t.ins, own, type)
  BY <1>1, UnitsWithin DEF PreviewTokens
<1>3. Within(t.outs, own, type) \in Nat /\ Within(t.ins, own, type) \in Nat
  BY <1>1, WithinGrows
<1>4. Loss(t, own, type) = Within(t.ins, own, type) - Within(t.outs, own, type)
  BY LossWithin
<1>5. QED
  BY <1>2, <1>3, <1>4

\* A type of which something is lost is the type of a cell that was spent.
LEMMA LostWasSpent ==
    ASSUME NEW t \in CellTransactions, NEW own, NEW type \in CellTypes, Loss(t, own, type) > 0
    PROVE  \E i \in DOMAIN t.ins : t.ins[i].type = type /\ t.ins[i].lock \in own
<1> SUFFICES ASSUME \A i \in DOMAIN t.ins : ~(t.ins[i].type = type /\ t.ins[i].lock \in own)
             PROVE  FALSE
  OBVIOUS
<1>1. type # "ckb" /\ type \in Kinds /\ CellLine(t.ins) /\ CellLine(t.outs)
  BY SideFacts DEF CellTypes, Kinds, Tokens, Nfts, TypeIds, Lists
<1>2. Within(t.ins, own, type) = 0
  BY <1>1, WithinNothing DEF Worth
<1>3. Within(t.outs, own, type) \in Nat
  BY <1>1, WithinGrows
<1>4. Loss(t, own, type) = Within(t.ins, own, type) - Within(t.outs, own, type)
  BY LossWithin
<1>5. QED
  BY <1>2, <1>3, <1>4

\* Every NFT that leaves is listed as sent or burned.
LEMMA NftsShown ==
    ASSUME NEW t \in CellTransactions, NEW own, NEW n \in Nfts, Loss(t, own, n) > 0
    PROVE  \E e \in PreviewNfts(t, own) : e.nft = n /\ e.change \in {"sent", "burned"}
<1>1. /\ n = "nft" /\ n \in CellTypes /\ n \in Kinds /\ n \notin Tokens /\ n # "ckb" /\ n \notin {"none", "dao"}
      /\ TypeKind(n) = "nft"
  BY DEF Nfts, CellTypes, Kinds, Tokens, TypeIds, Lists, TypeKind
<1>2. CellLine(t.ins) /\ CellLine(t.outs) /\ Unique(t.ins) /\ Unique(t.outs)
  BY SideFacts
<1>3. PICK i \in DOMAIN t.ins : t.ins[i].type = n /\ t.ins[i].lock \in own
  BY <1>1, LostWasSpent
<1>4. Worth(t.ins[i], n) = 1
  <2>1. t.ins[i] \in Sources \cup Targets
    BY SideFacts
  <2>2. t.ins[i].units = 1
    BY <1>1, <1>3, <2>1, CellFacts
  <2>3. QED
    BY <1>1, <1>3, <2>2 DEF Worth
<1>5. Within(t.ins, own, n) = 1
  <2>1. ASSUME NEW j \in DOMAIN t.ins, j # i PROVE Worth(t.ins[j], n) = 0
    BY <1>1, <1>2, <1>3, <2>1 DEF Worth, Unique
  <2>2. QED
    BY <1>1, <1>2, <1>3, <1>4, <2>1, WithinOne
<1>6. ASSUME NEW j \in DOMAIN t.outs, t.outs[j].type = n, t.outs[j].lock \in own PROVE FALSE
  <2>1. t.outs[j] \in Sources \cup Targets
    BY SideFacts
  <2>2. t.outs[j].units = 1
    BY <1>1, <1>6, <2>1, CellFacts
  <2>3. Worth(t.outs[j], n) = 1
    BY <1>1, <1>6, <2>2 DEF Worth
  <2>4. ASSUME NEW k \in DOMAIN t.outs, k # j PROVE Worth(t.outs[k], n) = 0
    BY <1>1, <1>2, <1>6, <2>4 DEF Worth, Unique
  <2>5. Within(t.outs, own, n) = 1
    BY <1>1, <1>2, <1>6, <2>3, <2>4, WithinOne
  <2>6. QED
    BY <1>5, <2>5, LossWithin
<1> DEFINE In ==
                 {t.ins[j].type : j \in {j \in DOMAIN t.ins : TypeKind(t.ins[j].type) = "nft" /\ t.ins[j].lock \in own}}
           Out == {t.outs[j].type : j \in {j \in DOMAIN t.outs : TypeKind(t.outs[j].type) = "nft" /\ TRUE}}
           OwnOut ==
                 {t.outs[j].type : j \in {j \in DOMAIN t.outs : TypeKind(t.outs[j].type) = "nft" /\ t.outs[j].lock \in own}}
           burned == {[nft |-> m, change |-> "burned"] : m \in In \ Out}
           sent == {[nft |-> m, change |-> "sent"] : m \in (In \cap Out) \ OwnOut}
<1>7. burned \cup sent \subseteq PreviewNfts(t, own)
  BY DEF PreviewNfts, AnyCell
<1>8. n \in In /\ n \notin OwnOut
  BY <1>1, <1>3, <1>6
<1> HIDE DEF In, Out, OwnOut
<1>9. \/ [nft |-> n, change |-> "burned"] \in burned
      \/ [nft |-> n, change |-> "sent"] \in sent
  BY <1>8
<1> HIDE DEF burned, sent
<1>10. PICK e \in PreviewNfts(t, own) : e = [nft |-> n, change |-> "burned"] \/ e = [nft |-> n, change |-> "sent"]
  BY <1>7, <1>9
<1>11. QED
  BY <1>10

\* Counting the cells of an unexplained type.
LEMMA CountWithin ==
    ASSUME NEW cells, CellLine(cells), NEW own, NEW type \in CellTypes, TypeKind(type) = "unknown"
    PROVE  SumOf(cells, LAMBDA c : c.type = type /\ c.lock \in own, LAMBDA c : 1) = Within(cells, own, type)
<1>1. PICK n \in Nat : cells \in [1 .. n -> Sources \cup Targets]
  BY DEF CellLine
<1>2. type \notin Tokens /\ type \notin {"none", "dao"} /\ type # "ckb"
  BY DEF TypeKind, CellTypes, Tokens, Nfts, TypeIds, Lists
<1>3. \A i \in DOMAIN cells : cells[i].type = type => Worth(cells[i], type) = 1
  BY <1>1, <1>2, CellFacts DEF Worth
<1>4. \A i \in DOMAIN cells : cells[i].type # type => Worth(cells[i], type) = 0
  BY <1>2 DEF Worth
<1>5. Worths(cells, own, type) =
        [i \in DOMAIN cells |-> IF cells[i].type = type /\ cells[i].lock \in own THEN 1 ELSE 0]
  BY <1>3, <1>4 DEF Worths
<1>6. QED
  BY <1>5 DEF SumOf, Within

\* What leaves of an unexplained type is counted.
LEMMA LeavingShown ==
    ASSUME NEW t \in CellTransactions, NEW own, NEW type \in CellTypes, TypeKind(type) = "unknown",
           Loss(t, own, type) > 0
    PROVE  UnrecognizedLeaving(t, own, type) = Loss(t, own, type)
<1>1. CellLine(t.ins) /\ CellLine(t.outs)
  BY SideFacts
<1>2. /\ SumOf(t.ins, LAMBDA c : c.type = type /\ c.lock \in own, LAMBDA c : 1) = Within(t.ins, own, type)
      /\ SumOf(t.outs, LAMBDA c : c.type = type /\ c.lock \in own, LAMBDA c : 1) = Within(t.outs, own, type)
  BY <1>1, CountWithin
<1>3. Loss(t, own, type) = Within(t.ins, own, type) - Within(t.outs, own, type)
  BY LossWithin
<1>4. UnrecognizedLeaving(t, own, type) =
        LET left == Within(t.ins, own, type) - Within(t.outs, own, type) IN IF left > 0 THEN left ELSE 0
  BY <1>2 DEF UnrecognizedLeaving
<1>5. QED
  BY <1>3, <1>4

\* A cell the server cannot read that comes or goes leaves a mark.
LEMMA UnknownMarked ==
    ASSUME NEW t \in CellTransactions, NEW own, NEW type \in CellTypes, TypeKind(type) = "unknown",
           Loss(t, own, type) # 0
    PROVE  PreviewUnrecognized(t, own) > 0
<1> DEFINE gone ==
             [i \in DOMAIN t.ins |-> IF TypeKind(t.ins[i].type) = "unknown" /\ t.ins[i].lock \in own THEN 1 ELSE 0]
           made == [i \in DOMAIN t.outs |-> IF TypeKind(t.outs[i].type) = "unknown" THEN 1 ELSE 0]
<1>1. type \in Kinds /\ type # "ckb" /\ CellLine(t.ins) /\ CellLine(t.outs)
  BY SideFacts DEF CellTypes, Kinds, Tokens, Nfts, TypeIds, Lists
<1>2. PICK n \in Nat : t.ins \in [1 .. n -> Sources \cup Targets]
  BY <1>1 DEF CellLine
<1>3. PICK m \in Nat : t.outs \in [1 .. m -> Sources \cup Targets]
  BY <1>1 DEF CellLine
<1>4. gone \in [1 .. n -> Nat] /\ made \in [1 .. m -> Nat]
  BY <1>2, <1>3
<1>5. SumFunction(gone) \in Nat /\ SumFunction(made) \in Nat
  <2> HIDE DEF gone, made
  <2>1. \A k \in 1 .. n : gone[k] <= gone[k]
    BY <1>4
  <2>2. \A k \in 1 .. m : made[k] <= made[k]
    BY <1>4
  <2>3. SumFunction(gone) \in Nat
    BY <1>4, <2>1, SumCompares
  <2>4. SumFunction(made) \in Nat
    BY <1>4, <2>2, SumCompares
  <2>5. QED
    BY <2>3, <2>4
<1>6. PreviewUnrecognized(t, own) = SumFunction(gone) + SumFunction(made)
  BY DEF PreviewUnrecognized, SumOf
<1>7. /\ Loss(t, own, type) = Within(t.ins, own, type) - Within(t.outs, own, type)
      /\ Within(t.ins, own, type) \in Nat /\ Within(t.outs, own, type) \in Nat
  BY <1>1, LossWithin, WithinGrows
<1>8. CASE Within(t.ins, own, type) # 0
  <2>1. PICK i \in DOMAIN t.ins : t.ins[i].lock \in own /\ Worth(t.ins[i], type) # 0
    <3>1. ASSUME \A i \in DOMAIN t.ins : t.ins[i].lock \in own => Worth(t.ins[i], type) = 0 PROVE FALSE
      BY <1>1, <1>8, <3>1, WithinNothing
    <3>2. QED
      BY <3>1
  <2>2. t.ins[i].type = type /\ i \in 1 .. n
    BY <1>1, <1>2, <2>1 DEF Worth
  <2>3. gone[i] = 1
    BY <2>1, <2>2
  <2>4. SumFunction(gone) # 0
    <3> HIDE DEF gone
    <3>1. QED
      BY <1>4, <2>2, <2>3, SumPositive
  <2>5. QED
    BY <1>5, <1>6, <2>4
<1>9. CASE Within(t.outs, own, type) # 0
  <2>1. PICK i \in DOMAIN t.outs : t.outs[i].lock \in own /\ Worth(t.outs[i], type) # 0
    <3>1. ASSUME \A i \in DOMAIN t.outs : t.outs[i].lock \in own => Worth(t.outs[i], type) = 0 PROVE FALSE
      BY <1>1, <1>9, <3>1, WithinNothing
    <3>2. QED
      BY <3>1
  <2>2. t.outs[i].type = type /\ i \in 1 .. m
    BY <1>1, <1>3, <2>1 DEF Worth
  <2>3. made[i] = 1
    BY <2>1, <2>2
  <2>4. SumFunction(made) # 0
    <3> HIDE DEF made
    <3>1. QED
      BY <1>4, <2>2, <2>3, SumPositive
  <2>5. QED
    BY <1>5, <1>6, <2>4
<1>10. QED
  BY <1>7, <1>8, <1>9

\* The preview of a general transaction hides nothing.
LEMMA PreviewsInFull == ShownInFull
<1> SUFFICES ASSUME NEW on \in BOOLEAN, NEW t \in CellTransactions, NEW record \in ListRecords(on),
                    Previews(t, record, on)
             PROVE  LET own == AccountLocks(record)
                        real == {"secp"} \cup (IF on THEN {"omni"} ELSE {})
                        shown == PreviewCkb(t, own)
                    IN  /\ shown.sending + (IF shown.paysFee THEN shown.fee ELSE 0) - shown.receiving =
                               Loss(t, real, "ckb")
                        /\ \A type \in Tokens : PreviewTokens(t, own)[type] = -Loss(t, real, type)
                        /\ \A n \in Nfts : Loss(t, real, n) > 0 =>
                               \E e \in PreviewNfts(t, own) : e.nft = n /\ e.change \in {"sent", "burned"}
                        /\ \A type \in Types(t) : TypeKind(type) = "unknown" /\ Loss(t, real, type) # 0 =>
                               PreviewUnrecognized(t, own) > 0
                        /\ Loss(t, real, "odd") > 0 => UnrecognizedLeaving(t, own, "odd") = Loss(t, real, "odd")
  BY DEF ShownInFull
<1> DEFINE own == AccountLocks(record)
<1>1. own = Real(on) /\ own \in SUBSET CellLocks
  <2>1. Anchored(record, on)
    BY DEF Previews
  <2>2. own = Real(on)
    BY <2>1, OwnIsReal
  <2>3. Real(on) \in SUBSET CellLocks
    BY RealAddresses
  <2>4. QED
    BY <2>2, <2>3
<1>2. Fee(t) \in Nat
  BY TransactionRulesAssumption DEF Previews
<1>3. \A type \in Types(t) : type \in CellTypes
  BY SideFacts, CellFacts DEF Types
<1>4. "odd" \in CellTypes /\ TypeKind("odd") = "unknown"
  BY DEF CellTypes, TypeKind, Tokens, Nfts, TypeIds, Lists
<1> HIDE DEF own
<1>5. LET shown == PreviewCkb(t, own)
      IN  shown.sending + (IF shown.paysFee THEN shown.fee ELSE 0) - shown.receiving = Loss(t, own, "ckb")
  BY <1>1, <1>2, CkbShown
<1>6. \A type \in Tokens : PreviewTokens(t, own)[type] = -Loss(t, own, type)
  BY TokensShown
<1>7. \A n \in Nfts : Loss(t, own, n) > 0 =>
        \E e \in PreviewNfts(t, own) : e.nft = n /\ e.change \in {"sent", "burned"}
  BY NftsShown
<1>8. \A type \in Types(t) : TypeKind(type) = "unknown" /\ Loss(t, own, type) # 0 => PreviewUnrecognized(t, own) > 0
  BY <1>3, UnknownMarked
<1>9. Loss(t, own, "odd") > 0 => UnrecognizedLeaving(t, own, "odd") = Loss(t, own, "odd")
  BY <1>4, LeavingShown
<1>10. QED
  BY <1>1, <1>5, <1>6, <1>7, <1>8, <1>9 DEF own, Real

\* The preview of a funding is exact.
LEMMA FundingsExact == FundingExact
<1> SUFFICES ASSUME NEW on \in BOOLEAN, NEW t \in CellTransactions, NEW record \in ListRecords(on),
                    Funds(t, record, on)
             PROVE  LET own == AccountLocks(record)
                        out == CHOOSE i \in FundingOutputs(t) : TRUE
                        real == {"secp"} \cup (IF on THEN {"omni"} ELSE {})
                        All == {c.lock : c \in Sources \cup Targets}
                    IN  /\ Loss(t, real, "ckb") = FundingAmount(t, own) + Fee(t)
                        /\ \A type \in Types(t) \ {"none"} : Loss(t, real, type) > 0 => type = t.outs[out].type
                        /\ t.outs[out].type # "none" /\ Loss(t, All, t.outs[out].type) = 0 =>
                               t.outs[out].units >= Loss(t, real, t.outs[out].type)
  BY DEF FundingExact
<1> DEFINE own == AccountLocks(record)
           out == CHOOSE i \in FundingOutputs(t) : TRUE
           All == {c.lock : c \in Sources \cup Targets}
           type == t.outs[out].type
<1>1. own = Real(on) /\ own \in SUBSET CellLocks /\ "channel" \notin own
  <2>1. Anchored(record, on)
    BY DEF Funds
  <2>2. own = Real(on)
    BY <2>1, OwnIsReal
  <2>3. Real(on) \in SUBSET CellLocks /\ "channel" \notin Real(on)
    BY RealAddresses
  <2>4. QED
    BY <2>2, <2>3
<1>2. CellLine(t.ins) /\ CellLine(t.outs) /\ "ckb" \in Kinds
  BY SideFacts DEF Kinds
<1>3. out \in FundingOutputs(t)
  <2>1. FundingOutputs(t) # {}
    <3>1. Cardinality(FundingOutputs(t)) = 1
      BY DEF Funds
    <3>2. QED
      BY <3>1, FS_EmptySet
  <2>2. QED
    BY <2>1
<1> HIDE DEF out
<1>4. out \in DOMAIN t.outs /\ t.outs[out].lock = "channel" /\ TokenFundingHolds(t, own, out)
  BY <1>3 DEF FundingOutputs, Funds
<1>5. t.outs[out] \in Sources \cup Targets
  BY <1>4, SideFacts
<1>6. type \in CellTypes /\ type \in Kinds /\ type # "ckb" /\ t.outs[out].units \in Nat
  BY <1>5, CellFacts DEF Kinds, CellTypes, Tokens, Nfts, TypeIds, Lists
<1> HIDE DEF own
<1>7. Loss(t, own, "ckb") = FundingAmount(t, own) + Fee(t)
  <2>1. /\ Within(t.ins, own, "ckb") \in Nat /\ Within(t.outs, own, "ckb") \in Nat
        /\ Within(t.ins, CellLocks, "ckb") \in Nat /\ Within(t.outs, CellLocks, "ckb") \in Nat
    BY <1>1, <1>2, WithinGrows
  <2>2. Fee(t) = Within(t.ins, CellLocks, "ckb") - Within(t.outs, CellLocks, "ckb")
    BY FeeIsLost
  <2>3. /\ SumOf(t.ins, LAMBDA c : c.lock \in own, Capacity) = Within(t.ins, own, "ckb")
        /\ SumOf(t.outs, LAMBDA c : c.lock \in own, Capacity) = Within(t.outs, own, "ckb")
    BY <1>2, CapacitiesWithin
  <2>4. FundingAmount(t, own) = Within(t.ins, own, "ckb") - Within(t.outs, own, "ckb") - Fee(t)
    BY <2>3 DEF FundingAmount
  <2>5. Loss(t, own, "ckb") = Within(t.ins, own, "ckb") - Within(t.outs, own, "ckb")
    BY LossWithin
  <2>6. QED
    BY <2>1, <2>2, <2>4, <2>5
<1>8. \A other \in Types(t) \ {"none"} : other = type
  <2> TAKE other \in Types(t) \ {"none"}
  <2>1. \/ \E i \in Typed(t.ins) : t.ins[i].type = other
        \/ \E i \in Typed(t.outs) : t.outs[i].type = other
    BY DEF Types, Typed
  <2>2. QED
    BY <1>4, <2>1 DEF TokenFundingHolds
<1>9. ASSUME type # "none", Loss(t, All, type) = 0 PROVE t.outs[out].units >= Loss(t, own, type)
  <2> DEFINE inOwn == Within(t.ins, own, type)
             inAll == Within(t.ins, All, type)
             outOwn == Within(t.outs, own, type)
             outAll == Within(t.outs, All, type)
  <2>1. /\ \A i \in DOMAIN t.ins : t.ins[i].lock \in All
        /\ \A i \in DOMAIN t.outs : t.outs[i].lock \in All
    BY SideFacts
  <2> HIDE DEF All
  <2>2. Within(t.ins, own, type) <= Within(t.ins, All, type)
    <3>1. Within(t.ins, All \cup own, type) = Within(t.ins, All, type)
      <4>1. Worths(t.ins, All \cup own, type) = Worths(t.ins, All, type)
        BY <2>1 DEF Worths
      <4>2. QED
        BY <4>1 DEF Within
    <3>2. own \subseteq All \cup own
      OBVIOUS
    <3>3. QED
      BY <1>2, <1>6, <3>1, <3>2, WithinGrows
  <2>3. \A i \in Typed(t.outs) : i # out => t.outs[i].lock \in own
    BY <1>4, <1>9 DEF TokenFundingHolds, Typed
  <2>4. Within(t.outs, {"channel"}, type) = t.outs[out].units
    <3>1. ASSUME NEW i \in DOMAIN t.outs, i # out, t.outs[i].lock \in {"channel"} PROVE Worth(t.outs[i], type) = 0
      <4>1. i \notin Typed(t.outs)
        BY <1>1, <2>3, <3>1
      <4>2. t.outs[i].type = "none"
        BY <4>1 DEF Typed
      <4>3. QED
        BY <1>6, <1>9, <4>2 DEF Worth
    <3>2. Within(t.outs, {"channel"}, type) = Worth(t.outs[out], type)
      BY <1>2, <1>4, <1>6, <3>1, WithinOne
    <3>3. QED
      BY <1>6, <3>2 DEF Worth
  <2>5. Within(t.outs, own \cup {"channel"}, type) = Within(t.outs, own, type) + Within(t.outs, {"channel"}, type)
    BY <1>1, <1>2, <1>6, WithinSplits
  <2>6. Within(t.outs, All, type) = Within(t.outs, own \cup {"channel"}, type)
    <3>1. ASSUME NEW i \in DOMAIN t.outs
          PROVE  (IF t.outs[i].lock \in All THEN Worth(t.outs[i], type) ELSE 0)
                   = (IF t.outs[i].lock \in own \cup {"channel"} THEN Worth(t.outs[i], type) ELSE 0)
      <4>1. CASE i = out
        BY <1>4, <2>1, <4>1
      <4>2. CASE i # out /\ i \in Typed(t.outs)
        BY <2>1, <2>3, <4>2
      <4>3. CASE i \notin Typed(t.outs)
        <5>1. Worth(t.outs[i], type) = 0
          BY <1>6, <1>9, <4>3 DEF Worth, Typed
        <5>2. QED
          BY <5>1
      <4>4. QED
        BY <4>1, <4>2, <4>3
    <3>2. Worths(t.outs, All, type) = Worths(t.outs, own \cup {"channel"}, type)
      BY <3>1 DEF Worths
    <3>3. QED
      BY <3>2 DEF Within
  <2>7. /\ inOwn \in Nat /\ inAll \in Nat /\ outOwn \in Nat /\ outAll \in Nat
    BY <1>2, <1>6, WithinGrows
  <2>8. Loss(t, All, type) = inAll - outAll /\ Loss(t, own, type) = inOwn - outOwn
    BY LossWithin
  <2>9. inOwn <= inAll /\ outAll = outOwn + t.outs[out].units
    BY <2>2, <2>4, <2>5, <2>6
  <2> HIDE DEF inOwn, inAll, outOwn, outAll
  <2>10. inAll - outAll = 0
    BY <1>9, <2>8
  <2>11. QED
    BY <1>6, <2>7, <2>8, <2>9, <2>10
<1> HIDE DEF All, type
<1>10. /\ Loss(t, own, "ckb") = FundingAmount(t, own) + Fee(t)
       /\ \A other \in Types(t) \ {"none"} : Loss(t, own, other) > 0 => other = type
       /\ type # "none" /\ Loss(t, All, type) = 0 => t.outs[out].units >= Loss(t, own, type)
  BY <1>7, <1>8, <1>9
<1>11. QED
  BY <1>1, <1>10 DEF own, out, Real, type, All

(* The locks Lit signs for. *)
Signable == {"secp", "omni", "foreign", "list"}

\* They are those it knows the kind of.
LEMMA SignableKinds == ASSUME NEW lock PROVE LockKind(lock) # "none" <=> lock \in Signable
BY DEF LockKind, Signable

\* What Lit signs gives nothing to a lock of the key's that is not only the account's.
LEMMA OutputsCovered ==
    ASSUME NEW on \in BOOLEAN, NEW t \in CellTransactions, LitAccepts(t, on),
           NEW i \in DOMAIN t.outs, t.outs[i].lock \in Signable
    PROVE  t.outs[i].lock \in Locks(on, t)
<1> DEFINE refs == AdminRefs(t.outs)
           lock == t.outs[i].lock
           plain == ListInputs(t) = {} /\ ListOutputs(t) = {}
<1>1. CASE lock \in {"secp", "list"}
  BY <1>1 DEF Locks
<1>2. CASE lock \in {"omni", "foreign"}
  <2>1. LockKind(lock) = "omnilock"
    BY <1>2 DEF LockKind
  <2>2. (IF lock = "omni" THEN "mine" ELSE "theirs") \in refs
    BY <2>1 DEF AdminRefs
  <2>3. refs # {} /\ (refs \subseteq {"mine"} => lock = "omni")
    BY <1>2, <2>2
  <2>4. /\ \/ refs = {} \/ (ListInputs(t) = {} /\ Cardinality(ListOutputs(t)) = 1)
           \/ refs = LiveLists(on)
        /\ plain \/ (IF ListInputs(t) = {} THEN TurnsOn(t, on) ELSE ChangesList(t))
    BY DEF LitAccepts, OutputsNameLiveList
  <2> HIDE DEF refs
  <2>5. CASE refs = LiveLists(on)
    <3>1. on /\ lock = "omni"
      BY <2>3, <2>5 DEF LiveLists
    <3>2. QED
      BY <3>1 DEF Locks
  <2>6. CASE ListInputs(t) = {} /\ Cardinality(ListOutputs(t)) = 1
    <3>1. ListOutputs(t) # {}
      BY <2>6, FS_EmptySet
    <3>2. TurnsOn(t, on)
      BY <2>4, <2>6, <3>1
    <3>3. t.outs[1].lock = "list" /\ t.outs[1].type = "mine" /\ refs \subseteq {"mine"}
      BY <3>2 DEF TurnsOn, refs
    <3>4. 1 \in DOMAIN t.outs /\ t.outs[1] \in Sources \cup Targets
      BY SideFacts
    <3>5. t.outs[1].units = 1
      <4>1. "mine" \notin Tokens /\ "mine" \notin {"none", "dao"}
        BY DEF Tokens
      <4>2. QED
        BY <3>3, <3>4, <4>1, CellFacts
    <3>6. t.outs[1] = Cell("list", "mine", 1, t.outs[1].cap)
      BY <3>3, <3>4, <3>5, CellFacts DEF Cell
    <3>7. "omni" \in Locks(on, t)
      BY <3>4, <3>6 DEF Locks
    <3>8. QED
      BY <2>3, <3>3, <3>7
  <2>7. QED
    BY <2>3, <2>4, <2>5, <2>6
<1>3. QED
  BY <1>1, <1>2 DEF Signable

\* So what the account's own locks lose is no more than what the locks Lit signs for lose.
LEMMA LossCovered ==
    ASSUME NEW on \in BOOLEAN, NEW t \in CellTransactions, LitAccepts(t, on), NEW asset \in Kinds
    PROVE  /\ Loss(t, Locks(on, t), asset) <= Within(t.ins, Signable, asset) - Within(t.outs, Signable, asset)
           /\ Loss(t, Locks(on, t), asset) \in Int
           /\ Within(t.ins, Signable, asset) \in Nat /\ Within(t.outs, Signable, asset) \in Nat
<1> DEFINE own == Locks(on, t)
<1>1. CellLine(t.ins) /\ CellLine(t.outs)
  BY SideFacts
<1>2. own \subseteq Signable
  BY DEF Locks, Signable
<1>3. ASSUME NEW i \in DOMAIN t.outs PROVE t.outs[i].lock \in own <=> t.outs[i].lock \in Signable
  BY <1>2, OutputsCovered
<1> HIDE DEF own
<1>4. Within(t.outs, own, asset) = Within(t.outs, Signable, asset)
  <2>1. Worths(t.outs, own, asset) = Worths(t.outs, Signable, asset)
    BY <1>3 DEF Worths
  <2>2. QED
    BY <2>1 DEF Within
<1>5. /\ Within(t.ins, own, asset) <= Within(t.ins, Signable, asset)
      /\ Within(t.ins, own, asset) \in Nat /\ Within(t.ins, Signable, asset) \in Nat
      /\ Within(t.outs, Signable, asset) \in Nat
  BY <1>1, <1>2, WithinGrows
<1>6. Loss(t, own, asset) = Within(t.ins, own, asset) - Within(t.outs, own, asset)
  BY LossWithin
<1>7. QED
  BY <1>4, <1>5, <1>6 DEF own

\* The CKB that Lit counts.
LEMMA CkbCounted ==
    ASSUME NEW t \in CellTransactions
    PROVE  LET flow == Within(t.ins, Signable, "ckb") - Within(t.outs, Signable, "ckb")
           IN  LitCkb(t) = IF flow > 0 THEN flow ELSE 0
<1>1. ASSUME NEW cells
      PROVE  SumOf(cells, LAMBDA c : LockKind(c.lock) # "none", Capacity) = Within(cells, Signable, "ckb")
  <2>1. \A i \in DOMAIN cells : LockKind(cells[i].lock) # "none" <=> cells[i].lock \in Signable
    BY SignableKinds
  <2>2. Worths(cells, Signable, "ckb") =
          [i \in DOMAIN cells |-> IF LockKind(cells[i].lock) # "none" THEN cells[i].cap ELSE 0]
    BY <2>1 DEF Worths, Worth
  <2>3. QED
    BY <2>2 DEF SumOf, Within, Capacity
<1>2. SumOf(t.ins, LAMBDA c : LockKind(c.lock) # "none", Capacity) = Within(t.ins, Signable, "ckb")
  BY <1>1
<1>3. SumOf(t.outs, LAMBDA c : LockKind(c.lock) # "none", Capacity) = Within(t.outs, Signable, "ckb")
  BY <1>1
<1>4. QED
  BY <1>2, <1>3 DEF LitCkb

\* The units that Lit counts of a type that is no list and no setting.
LEMMA UnitsCounted ==
    ASSUME NEW t \in CellTransactions, NEW type \in CellTypes \ ({"none", "dao"} \cup TypeIds)
    PROVE  LET flow == Within(t.ins, Signable, type) - Within(t.outs, Signable, type)
           IN  LitTokens(t, type) = IF flow > 0 THEN flow ELSE 0
<1> DEFINE counted(c) ==
             /\ c.type = type /\ LockKind(c.lock) # "none" /\ type \notin {"none", "dao"}
             /\ ~(type \in TypeIds /\ (LockKind(c.lock) = "list" \/ (type = "limits" /\ c.lock = "secp")))
<1>1. type # "ckb" /\ type \notin {"none", "dao"} /\ type \notin TypeIds
  BY DEF CellTypes, Tokens, Nfts, TypeIds, Lists
<1>2. ASSUME NEW cells, CellLine(cells)
      PROVE  SumOf(cells, counted, LAMBDA c : IF type \in Tokens THEN c.units ELSE 1) = Within(cells, Signable, type)
  <2>1. PICK n \in Nat : cells \in [1 .. n -> Sources \cup Targets]
    BY <1>2 DEF CellLine
  <2>2. ASSUME NEW i \in DOMAIN cells
        PROVE  (IF counted(cells[i]) THEN IF type \in Tokens THEN cells[i].units ELSE 1 ELSE 0)
                 = (IF cells[i].lock \in Signable THEN Worth(cells[i], type) ELSE 0)
    <3>1. cells[i] \in Sources \cup Targets
      BY <2>1
    <3>2. counted(cells[i]) <=> cells[i].type = type /\ cells[i].lock \in Signable
      BY <1>1, SignableKinds
    <3>3. cells[i].type = type => cells[i].units = IF type \in Tokens THEN cells[i].units ELSE 1
      BY <1>1, <3>1, CellFacts
    <3> HIDE DEF counted
    <3>4. QED
      BY <1>1, <3>2, <3>3 DEF Worth
  <2>3. Worths(cells, Signable, type) =
          [i \in DOMAIN cells |-> IF counted(cells[i]) THEN IF type \in Tokens THEN cells[i].units ELSE 1 ELSE 0]
    <3> HIDE DEF counted
    <3>1. QED
      BY <2>2 DEF Worths
  <2>4. QED
    BY <2>3 DEF SumOf, Within
<1>3. CellLine(t.ins) /\ CellLine(t.outs)
  BY SideFacts
<1>4. SumOf(t.ins, counted, LAMBDA c : IF type \in Tokens THEN c.units ELSE 1) = Within(t.ins, Signable, type)
  BY <1>2, <1>3
<1>5. SumOf(t.outs, counted, LAMBDA c : IF type \in Tokens THEN c.units ELSE 1) = Within(t.outs, Signable, type)
  BY <1>2, <1>3
<1>6. QED
  BY <1>4, <1>5 DEF LitTokens

\* Lit counts at least what the account loses.
LEMMA LitCountsInFull == LitCountsAll
<1> SUFFICES ASSUME NEW on \in BOOLEAN, NEW t \in CellTransactions, LitAccepts(t, on)
             PROVE  /\ Loss(t, Locks(on, t), "ckb") <= LitCkb(t)
                    /\ \A type \in Types(t) \ ({"none", "dao"} \cup TypeIds) :
                           Loss(t, Locks(on, t), type) <= LitTokens(t, type)
                    /\ ListOutputs(t) # {} \/ (SettingsOut(t) # {} /\ SettingsIn(t) = {}) =>
                         Loss(t, Locks(on, t), "ckb") <= Exempt
  BY DEF LitCountsAll
<1>1. "ckb" \in Kinds /\ \A type \in Types(t) : type \in CellTypes /\ type \in Kinds
  BY SideFacts, CellFacts DEF Types, Kinds
<1>2. Loss(t, Locks(on, t), "ckb") <= LitCkb(t) /\ LitCkb(t) \in Nat /\ Loss(t, Locks(on, t), "ckb") \in Int
  <2>1. /\ Loss(t, Locks(on, t), "ckb") <= Within(t.ins, Signable, "ckb") - Within(t.outs, Signable, "ckb")
        /\ Loss(t, Locks(on, t), "ckb") \in Int
        /\ Within(t.ins, Signable, "ckb") \in Nat /\ Within(t.outs, Signable, "ckb") \in Nat
    BY <1>1, LossCovered
  <2>2. QED
    BY <2>1, CkbCounted
<1>3. ASSUME NEW type \in Types(t) \ ({"none", "dao"} \cup TypeIds)
      PROVE  Loss(t, Locks(on, t), type) <= LitTokens(t, type)
  <2>1. /\ Loss(t, Locks(on, t), type) <= Within(t.ins, Signable, type) - Within(t.outs, Signable, type)
        /\ Loss(t, Locks(on, t), type) \in Int
        /\ Within(t.ins, Signable, type) \in Nat /\ Within(t.outs, Signable, type) \in Nat
    BY <1>1, LossCovered
  <2>2. type \in CellTypes \ ({"none", "dao"} \cup TypeIds)
    BY <1>1
  <2>3. QED
    BY <2>1, <2>2, UnitsCounted
<1>4. ASSUME ListOutputs(t) # {} \/ (SettingsOut(t) # {} /\ SettingsIn(t) = {})
      PROVE  LitCkb(t) <= Exempt
  <2>1. LimitShape(t, ListInputs(t) = {} /\ ListOutputs(t) = {})
    BY DEF LitAccepts
  <2>2. IsExempt(t)
    BY <1>4, <2>1 DEF LimitShape
  <2>3. QED
    BY <2>2 DEF IsExempt
<1>5. QED
  BY <1>2, <1>3, <1>4, TransactionRulesAssumption

(* Whatever waits for its user's word was shown in full: AskedInFull, for transactions of
   any number of cells of any capacity (server/transaction-policy.ts, funding-transaction.ts). *)
THEOREM AskedIsShownInFull == Spec => []AskedInFull
<1>1. AskedInFull
  BY PreviewsInFull, FundingsExact DEF AskedInFull
<1>2. QED
  BY <1>1, PTL

(* Whatever Lit signs, it has counted at least what the account loses: SignedIsCounted, for
   transactions of any number of cells of any capacity (lit-actions/sign-ckb-transaction.js). *)
THEOREM SignedIsCountedInFull == Spec => []SignedIsCounted
<1>1. SignedIsCounted
  BY LitCountsInFull DEF SignedIsCounted
<1>2. QED
  BY <1>1, PTL
=============================================================================
