----------------------------- MODULE BooksProofs ----------------------------
(***************************************************************************)
(* Proofs about four of the parts Books runs side by side, for any sizes,  *)
(* limits, pairs, proposals, operators and bars: a fold of the backtest,   *)
(* profit taking, withdrawals and re-optimisation.  Each has an inductive  *)
(* invariant of its own; those of profit taking and withdrawals bound sums *)
(* over finite sets, whose laws come first.  StoresProofs treats the other *)
(* four parts.                                                             *)
(***************************************************************************)
EXTENDS Books, FiniteSetTheorems, WellFoundedInduction, TLAPS

(* Sums over finite sets, as the library takes them: what holds for every  *)
(* number of elements is shown by a least counterexample.                  *)

\* The order of the numbers, as a relation.
Below == OpToRel(<, Nat)

\* It relates a number to the greater ones,
LEMMA BelowIs == \A x, y \in Nat : x < y => <<x, y>> \in Below
  BY DEF Below, OpToRel

\* and is well-founded,
LEMMA BelowWF == IsWellFoundedOn(Below, Nat)
  BY NatLessThanWellFounded DEF Below

\* so that a set of numbers has a least one.
LEMMA LeastOf == ASSUME NEW Q \in SUBSET Nat, Q # {} PROVE \E m \in Q : \A k \in Q : m <= k
<1>1. PICK m \in Q : \A k \in Q : ~(<<k, m>> \in Below)
  BY BelowWF, WFMin
<1>2. \A k \in Q : ~(k < m)
  BY <1>1, BelowIs
<1> QED BY <1>2

\* The element of s that a fold of the library takes first.
First(s) == CHOOSE x \in s : TRUE

\* h sums f as the library's MapThenSumSet does, over the sets in Sets.
Adds(h, f, Sets) == h = [s \in Sets |-> IF s = {} THEN 0 ELSE f[First(s)] + h[s \ {First(s)}]]

\* Over all subsets of S.
Sums(h, f, S) == Adds(h, f, SUBSET S)

\* The subsets of S that have n elements at most.
Small(S, n) == {s \in SUBSET S : Cardinality(s) <= n}

\* An element less is one less.
LEMMA Smaller ==
  ASSUME NEW S, IsFiniteSet(S), NEW s \in SUBSET S, NEW x \in s
  PROVE  /\ IsFiniteSet(s) /\ Cardinality(s) \in Nat /\ Cardinality(s) > 0
         /\ s \ {x} \in SUBSET S
         /\ Cardinality(s \ {x}) = Cardinality(s) - 1
<1>1. IsFiniteSet(s)
  BY FS_Subset
<1>2. Cardinality(s) \in Nat /\ (Cardinality(s) = 0 <=> s = {})
  BY <1>1, FS_CardinalityType, FS_EmptySet
<1>3. Cardinality(s \ {x}) = Cardinality(s) - 1
  BY <1>1, FS_RemoveElement
<1> QED BY <1>1, <1>2, <1>3

\* It is one of them.
LEMMA FirstIn == \A s : s # {} => First(s) \in s
  BY DEF First

\* Sums over the sets of n elements give those over the sets of one more,
LEMMA SumsExtend ==
  ASSUME NEW S, IsFiniteSet(S), NEW f, NEW n \in Nat, NEW h, Adds(h, f, Small(S, n))
  PROVE  \E g : Adds(g, f, Small(S, n + 1))
<1> DEFINE Sum(k, s) == IF s = {} THEN 0 ELSE f[First(s)] + k[s \ {First(s)}]
           g == [s \in Small(S, n + 1) |-> Sum(h, s)]
<1>1. \A s \in Small(S, n + 1) : s # {} => s \ {First(s)} \in Small(S, n)
  BY Smaller, FirstIn DEF Small
<1>2. \A s \in Small(S, n) : s \in Small(S, n + 1)
  <2>1. \A s \in SUBSET S : Cardinality(s) \in Nat
    BY FS_Subset, FS_CardinalityType
  <2> QED BY <2>1 DEF Small
<1>3. \A s \in Small(S, n) : g[s] = h[s]
  <2>1. \A s \in Small(S, n) : h[s] = Sum(h, s)
    BY DEF Adds
  <2> QED BY <2>1, <1>2
<1>4. \A s \in Small(S, n + 1) : g[s] = Sum(g, s)
  BY <1>1, <1>3
<1>5. g = [s \in Small(S, n + 1) |-> Sum(g, s)]
  BY <1>4
<1>6. Adds(g, f, Small(S, n + 1))
  BY <1>5 DEF Adds
<1> QED BY <1>6

\* so that there are sums over all subsets of a finite set.
LEMMA SumsExist == ASSUME NEW S, IsFiniteSet(S), NEW f PROVE \E h : Sums(h, f, S)
<1> DEFINE Lacking == {n \in Nat : ~ \E h : Adds(h, f, Small(S, n))}
<1>1. 0 \notin Lacking
  <2>1. \A s \in Small(S, 0) : s = {}
    BY FS_Subset, FS_EmptySet, FS_CardinalityType DEF Small
  <2>2. Adds([s \in Small(S, 0) |-> 0], f, Small(S, 0))
    BY <2>1 DEF Adds
  <2> QED BY <2>2
<1>2. ASSUME Lacking # {} PROVE FALSE
  <2>1. Lacking \in SUBSET Nat
    OBVIOUS
  <2>0. \E m \in Lacking : \A k \in Lacking : m <= k
    <3> HIDE DEF Lacking
    <3> QED BY <1>2, <2>1, LeastOf
  <2>2. PICK m \in Lacking : \A k \in Lacking : m <= k
    BY <2>0
  <2>3. m \in Nat /\ m # 0
    BY <1>1, <2>2
  <2>4. m - 1 \in Nat /\ m - 1 \notin Lacking
    BY <2>2, <2>3
  <2>5. PICK h : Adds(h, f, Small(S, m - 1))
    BY <2>4
  <2>6. \E g : Adds(g, f, Small(S, m - 1 + 1))
    BY <2>4, <2>5, SumsExtend
  <2>7. m - 1 + 1 = m
    BY <2>3
  <2> QED BY <2>2, <2>6, <2>7
<1>3. /\ Cardinality(S) \in Nat
      /\ \A s \in SUBSET S : Cardinality(s) \in Nat /\ Cardinality(s) <= Cardinality(S)
  BY FS_Subset, FS_CardinalityType
<1>4. Small(S, Cardinality(S)) = SUBSET S
  BY <1>3 DEF Small
<1>5. Cardinality(S) \notin Lacking
  BY <1>2
<1>6. \E h : Adds(h, f, Small(S, Cardinality(S)))
  BY <1>3, <1>5
<1> QED BY <1>4, <1>6 DEF Sums

\* Sums of integers are integers.
LEMMA SumsAreNumbers ==
  ASSUME NEW S, IsFiniteSet(S), NEW f, \A x \in S : f[x] \in Int,
         NEW h, Sums(h, f, S)
  PROVE  \A s \in SUBSET S : h[s] \in Int
<1> DEFINE Bad == {n \in Nat : \E s \in SUBSET S : Cardinality(s) = n /\ h[s] \notin Int}
<1>1. \A s \in SUBSET S : s # {} => h[s] = f[First(s)] + h[s \ {First(s)}]
  BY DEF Adds, Sums
<1>2. h[{}] \in Int
  BY DEF Adds, Sums
<1>3. ASSUME Bad # {} PROVE FALSE
  <2>1. Bad \in SUBSET Nat
    OBVIOUS
  <2>2. \E m \in Bad : \A k \in Bad : m <= k
    <3> HIDE DEF Bad
    <3> QED BY <1>3, <2>1, LeastOf
  <2>3. PICK m \in Bad : \A k \in Bad : m <= k
    BY <2>2
  <2>4. PICK s \in SUBSET S : Cardinality(s) = m /\ h[s] \notin Int
    BY <2>3
  <2>5. s # {}
    BY <2>4, <1>2
  <2>6. PICK x \in s : h[s] = f[x] + h[s \ {x}]
    BY <1>1, <2>5, FirstIn
  <2>7. /\ m \in Nat /\ m > 0 /\ s \ {x} \in SUBSET S /\ Cardinality(s \ {x}) = m - 1
    BY <2>4, Smaller
  <2>8. m - 1 \notin Bad /\ m - 1 \in Nat
    BY <2>3, <2>7
  <2>9. h[s \ {x}] \in Int
    BY <2>7, <2>8
  <2> QED BY <2>4, <2>6, <2>9
<1>4. \A s \in SUBSET S : Cardinality(s) \in Nat
  BY FS_Subset, FS_CardinalityType
<1> QED BY <1>3, <1>4

\* Whichever element is added last.
AddsAnyhow(h, f, S) == \A s \in SUBSET S : \A x \in s : h[s] = f[x] + h[s \ {x}]

\* The order in which elements are added does not matter.
LEMMA AnyFirst ==
  ASSUME NEW S, IsFiniteSet(S), NEW f, \A x \in S : f[x] \in Int,
         NEW h, Sums(h, f, S)
  PROVE  AddsAnyhow(h, f, S)
<1> DEFINE Bad == {n \in Nat : \E s \in SUBSET S :
                     Cardinality(s) = n /\ \E x \in s : h[s] # f[x] + h[s \ {x}]}
<1>1. \A s \in SUBSET S : s # {} => h[s] = f[First(s)] + h[s \ {First(s)}]
  BY DEF Adds, Sums
<1>2. \A s \in SUBSET S : h[s] \in Int
  BY SumsAreNumbers
<1>3. ASSUME Bad # {} PROVE FALSE
  <2>1. Bad \in SUBSET Nat
    OBVIOUS
  <2>2. \E m \in Bad : \A k \in Bad : m <= k
    <3> HIDE DEF Bad
    <3> QED BY <1>3, <2>1, LeastOf
  <2>3. PICK m \in Bad : \A k \in Bad : m <= k
    BY <2>2
  <2>4. PICK s \in SUBSET S :
         Cardinality(s) = m /\ \E x \in s : h[s] # f[x] + h[s \ {x}]
    BY <2>3
  <2>40. PICK x \in s : h[s] # f[x] + h[s \ {x}]
    BY <2>4
  <2>5. PICK y \in s : h[s] = f[y] + h[s \ {y}]
    BY <1>1, <2>40, FirstIn
  <2>6. x # y
    BY <2>40, <2>5
  <2>7. ASSUME NEW u \in s, NEW v \in s, u # v
        PROVE  h[s \ {u}] = f[v] + h[s \ {u, v}]
    <3>1. /\ m \in Nat /\ m > 0 /\ s \ {u} \in SUBSET S /\ Cardinality(s \ {u}) = m - 1
      BY <2>4, Smaller
    <3>2. m - 1 \notin Bad /\ m - 1 \in Nat
      BY <2>3, <3>1
    <3>3. v \in s \ {u}
      BY <2>7
    <3>4. h[s \ {u}] = f[v] + h[(s \ {u}) \ {v}]
      BY <3>1, <3>2, <3>3
    <3>5. (s \ {u}) \ {v} = s \ {u, v}
      OBVIOUS
    <3> QED BY <3>4, <3>5
  <2>8. h[s \ {x}] = f[y] + h[s \ {x, y}] /\ h[s \ {y}] = f[x] + h[s \ {x, y}]
    <3>1. s \ {y, x} = s \ {x, y}
      OBVIOUS
    <3> QED BY <2>6, <2>7, <3>1
  <2>9. h[s \ {x, y}] \in Int /\ f[x] \in Int /\ f[y] \in Int
    BY <1>2
  <2> QED BY <2>40, <2>5, <2>8, <2>9
<1>4. \A s \in SUBSET S : Cardinality(s) \in Nat
  BY FS_Subset, FS_CardinalityType
<1> QED BY <1>3, <1>4 DEF AddsAnyhow

\* Sums of the same numbers are the same.
LEMMA SumsAgree ==
  ASSUME NEW S, IsFiniteSet(S), NEW f, NEW h, Sums(h, f, S),
         NEW Q \in SUBSET S, NEW e, NEW g, Sums(g, e, Q), \A x \in Q : e[x] = f[x]
  PROVE  \A s \in SUBSET Q : g[s] = h[s]
<1> DEFINE Bad == {n \in Nat : \E s \in SUBSET Q : Cardinality(s) = n /\ g[s] # h[s]}
<1>1. \A s \in SUBSET Q : s # {} => g[s] = e[First(s)] + g[s \ {First(s)}]
  BY DEF Adds, Sums
<1>2. \A s \in SUBSET Q : s # {} => h[s] = f[First(s)] + h[s \ {First(s)}]
  BY DEF Adds, Sums
<1>3. g[{}] = h[{}]
  BY DEF Adds, Sums
<1>4. ASSUME Bad # {} PROVE FALSE
  <2>1. Bad \in SUBSET Nat
    OBVIOUS
  <2>2. \E m \in Bad : \A k \in Bad : m <= k
    <3> HIDE DEF Bad
    <3> QED BY <1>4, <2>1, LeastOf
  <2>3. PICK m \in Bad : \A k \in Bad : m <= k
    BY <2>2
  <2>4. PICK s \in SUBSET Q : Cardinality(s) = m /\ g[s] # h[s]
    BY <2>3
  <2>5. s # {} /\ IsFiniteSet(Q)
    BY <2>4, <1>3, FS_Subset
  <2>6. PICK x \in s : g[s] = e[x] + g[s \ {x}] /\ h[s] = f[x] + h[s \ {x}]
    BY <1>1, <1>2, <2>5, FirstIn
  <2>7. /\ m \in Nat /\ m > 0 /\ s \ {x} \in SUBSET Q /\ Cardinality(s \ {x}) = m - 1
    BY <2>4, <2>5, Smaller
  <2>8. m - 1 \notin Bad /\ m - 1 \in Nat
    BY <2>3, <2>7
  <2>9. g[s \ {x}] = h[s \ {x}]
    BY <2>7, <2>8
  <2> QED BY <2>4, <2>6, <2>9
<1>5. \A s \in SUBSET Q : Cardinality(s) \in Nat
  BY FS_Subset, FS_CardinalityType
<1> QED BY <1>4, <1>5

\* The sum of f over S.
SumOf(f, S) == (CHOOSE h : Sums(h, f, S))[S]

\* Any function that adds as the fold does has that sum at S, and at the sets within S.
LEMMA SumIs ==
  ASSUME NEW S, IsFiniteSet(S), NEW f, NEW h, Sums(h, f, S)
  PROVE  \A Q \in SUBSET S : h[Q] = SumOf(f, Q)
<1> TAKE Q \in SUBSET S
<1>1. IsFiniteSet(Q)
  BY FS_Subset
<1>2. PICK k : Sums(k, f, Q)
  BY <1>1, SumsExist
<1>3. Sums(CHOOSE j : Sums(j, f, Q), f, Q)
  BY <1>2
<1> DEFINE g == CHOOSE j : Sums(j, f, Q)
<1>4. Sums(g, f, Q)
  BY <1>3
<1>5. SumOf(f, Q) = g[Q]
  BY DEF SumOf
<1> HIDE DEF g
<1>6. \A x \in Q : f[x] = f[x]
  OBVIOUS
<1>7. \A s \in SUBSET Q : g[s] = h[s]
  BY <1>4, <1>6, SumsAgree
<1> QED BY <1>5, <1>7

\* Nothing adds up to 0.
LEMMA SumOfNone == \A f : SumOf(f, {}) = 0
<1> TAKE f
<1>1. IsFiniteSet({})
  BY FS_EmptySet
<1>2. PICK h : Sums(h, f, {})
  BY <1>1, SumsExist
<1>3. h[{}] = 0
  BY <1>2 DEF Adds, Sums
<1> QED BY <1>1, <1>2, <1>3, SumIs

\* A sum of integers is the sum without an element and that element;
LEMMA SumWithout ==
  ASSUME NEW S, IsFiniteSet(S), NEW f, \A x \in S : f[x] \in Int
  PROVE  /\ SumOf(f, S) \in Int
         /\ \A x \in S : SumOf(f, S) = f[x] + SumOf(f, S \ {x})
<1>1. PICK h : Sums(h, f, S)
  BY SumsExist
<1>2. \A Q \in SUBSET S : h[Q] = SumOf(f, Q)
  BY <1>1, SumIs
<1>3. \A s \in SUBSET S : h[s] \in Int
  BY <1>1, SumsAreNumbers
<1>4. AddsAnyhow(h, f, S)
  BY <1>1, AnyFirst
<1>5. S \in SUBSET S /\ \A x \in S : S \ {x} \in SUBSET S
  OBVIOUS
<1> QED BY <1>2, <1>3, <1>4, <1>5 DEF AddsAnyhow

\* with one more element, it is more by that element;
LEMMA SumWith ==
  ASSUME NEW S, IsFiniteSet(S), NEW y, y \notin S, NEW f, \A x \in S \cup {y} : f[x] \in Int
  PROVE  SumOf(f, S \cup {y}) = f[y] + SumOf(f, S)
<1>1. IsFiniteSet(S \cup {y}) /\ y \in S \cup {y} /\ (S \cup {y}) \ {y} = S
  BY FS_AddElement
<1>2. SumOf(f, S \cup {y}) = f[y] + SumOf(f, (S \cup {y}) \ {y})
  BY <1>1, SumWithout
<1> QED BY <1>1, <1>2

\* it depends on the numbers added only;
LEMMA SumOfSame ==
  ASSUME NEW S, IsFiniteSet(S), NEW f, NEW e, \A x \in S : e[x] = f[x]
  PROVE  SumOf(e, S) = SumOf(f, S)
<1>1. PICK h : Sums(h, f, S)
  BY SumsExist
<1>2. PICK g : Sums(g, e, S)
  BY SumsExist
<1>3. S \in SUBSET S
  OBVIOUS
<1>4. \A s \in SUBSET S : g[s] = h[s]
  BY <1>1, <1>2, <1>3, SumsAgree
<1>5. h[S] = SumOf(f, S)
  BY <1>1, <1>3, SumIs
<1>6. g[S] = SumOf(e, S)
  BY <1>2, <1>3, SumIs
<1> QED BY <1>3, <1>4, <1>5, <1>6

\* and a sum of natural numbers is no less than that of some of them.
LEMMA SumOfMore ==
  ASSUME NEW S, IsFiniteSet(S), NEW f, \A x \in S : f[x] \in Nat, NEW Q \in SUBSET S
  PROVE  SumOf(f, Q) \in Nat /\ SumOf(f, Q) <= SumOf(f, S)
<1>0. \A x \in S : f[x] \in Int
  OBVIOUS
<1>1. PICK h : Sums(h, f, S)
  BY SumsExist
<1>2. \A P \in SUBSET S : h[P] = SumOf(f, P)
  BY <1>1, SumIs
<1>3. \A s \in SUBSET S : h[s] \in Int
  BY <1>0, <1>1, SumsAreNumbers
<1>4. AddsAnyhow(h, f, S)
  BY <1>0, <1>1, AnyFirst
<1> DEFINE Bad == {n \in Nat : \E s \in SUBSET S :
                     Cardinality(s) = n /\ \E t \in SUBSET s : ~(h[t] <= h[s])}
<1>5. ASSUME Bad # {} PROVE FALSE
  <2>1. Bad \in SUBSET Nat
    OBVIOUS
  <2>2. \E m \in Bad : \A k \in Bad : m <= k
    <3> HIDE DEF Bad
    <3> QED BY <1>5, <2>1, LeastOf
  <2>3. PICK m \in Bad : \A k \in Bad : m <= k
    BY <2>2
  <2>4. PICK s \in SUBSET S : Cardinality(s) = m /\ \E t \in SUBSET s : ~(h[t] <= h[s])
    BY <2>3
  <2>5. PICK t \in SUBSET s : ~(h[t] <= h[s])
    BY <2>4
  <2>6. h[s] <= h[s]
    <3>1. h[s] \in Int
      BY <1>3
    <3> QED BY <3>1
  <2>7. PICK x \in s : x \notin t
    <3>1. t # s /\ t \subseteq s
      BY <2>5, <2>6
    <3> QED BY <3>1
  <2>8. /\ m \in Nat /\ m > 0 /\ s \ {x} \in SUBSET S /\ Cardinality(s \ {x}) = m - 1
    BY <2>4, Smaller
  <2>9. m - 1 \notin Bad /\ m - 1 \in Nat
    BY <2>3, <2>8
  <2>10. t \in SUBSET (s \ {x})
    BY <2>7
  <2>11. h[t] <= h[s \ {x}]
    BY <2>8, <2>9, <2>10
  <2>12. h[s] = f[x] + h[s \ {x}] /\ f[x] \in Nat
    BY <1>4 DEF AddsAnyhow
  <2>13. h[t] \in Int /\ h[s] \in Int /\ h[s \ {x}] \in Int
    BY <1>3, <2>8
  <2> QED BY <2>5, <2>11, <2>12, <2>13
<1>6. \A s \in SUBSET S : Cardinality(s) \in Nat
  BY FS_Subset, FS_CardinalityType
<1>7. \A s \in SUBSET S : \A t \in SUBSET s : h[t] <= h[s]
  BY <1>5, <1>6
<1>8. h[{}] = 0
  BY <1>1 DEF Adds, Sums
<1>9. h[Q] \in Nat /\ h[Q] <= h[S]
  <2>1. h[{}] <= h[Q] /\ h[Q] <= h[S] /\ h[Q] \in Int
    BY <1>3, <1>7
  <2> QED BY <1>8, <2>1
<1> QED BY <1>2, <1>9

-----------------------------------------------------------------------------
(* A fold of the backtest.                                                 *)

\* A cooldown and the bars since the exit make up what the exit owed.
Owing ==
  /\ PauseAfterExit
  /\ ~inTrade => idle + cooldown >= owed

\* The bars of a trade and the one of its partial exit are its age.
Aging ==
  inTrade =>
    /\ age = bars + (IF partial THEN 1 ELSE 0)
    /\ ~unknown => \E h \in HalfLives : bars <= TimeStop(h) + 1

\* Only a trade has a side and a partial exit.
Sided == (side # 0 <=> inTrade) /\ (partial => inTrade)

SignalType ==
  /\ inTrade \in BOOLEAN /\ side \in {-1, 0, 1} /\ bars \in Nat /\ cooldown \in Nat
  /\ partial \in BOOLEAN /\ signal \in {-1, Exit, 1, Partial}
  /\ owed \in Nat /\ idle \in Nat /\ age \in Nat /\ unknown \in BOOLEAN

SimulationType == entry \in {-1, 0, 1} /\ done \in BOOLEAN /\ astray \in BOOLEAN

SignalInv == SignalType /\ Owing /\ Aging /\ Sided

FoldInv == SignalInv /\ SimulationType /\ FoldFollowsSignals

-----------------------------------------------------------------------------
\* A time stop and a cooldown are numbers of bars.
LEMMA BarCounts ==
  /\ \A h \in HalfLives : TimeStop(h) \in Nat
  /\ \A h \in HalfLives \cup {None} : DynamicCooldown(h) \in Nat
<1>1. \A h \in HalfLives : TimeStop(h) \in Nat
  BY SignalAssumption DEF TimeStop
<1>2. ASSUME NEW h \in HalfLives, h # None PROVE DynamicCooldown(h) \in Nat
  <2>1. (h + 1) \div 2 \in Nat
    BY <1>2, SignalAssumption
  <2> QED
    BY <1>2, <2>1, SignalAssumption DEF DynamicCooldown
<1>3. DynamicCooldown(None) \in Nat
  BY SignalAssumption DEF DynamicCooldown
<1> QED
  BY <1>1, <1>2, <1>3

\* What a bar may come to: an exit, nothing, a bar of the cooldown, a partial exit, a bar
\* of a trade that is not due, or an entry after the cooldown.
Outcome(b) ==
  \/ Exits(b)
  \/ ~inTrade /\ NoEntry
  \/ cooldown > 0 /\ CoolsDown
  \/ inTrade /\ ~partial /\ PartialExits
  \/ inTrade /\ ~TimeDue(b) /\ Holds(b)
  \/ ~inTrade /\ ~(cooldown > 0) /\ EntrySide(b) # 0 /\ Enters(EntrySide(b))

\* The early returns of _compute_signal lead to no other outcome.
LEMMA Outcomes == ASSUME NEW b, ComputeSignal(b) PROVE Outcome(b)
  BY Zenon DEF ComputeSignal, Outcome, ExitsIfNeeded, MayEnter

\* An exit keeps the generator's invariant.
LEMMA ExitKeeps ==
  ASSUME NEW b \in Bars, Exits(b)
  PROVE  SignalInv' /\ ~inTrade' /\ signal' = Exit
<1>1. b.halfLife \in HalfLives \cup {None}
  BY DEF Bars
<1>2. cooldown' \in Nat /\ owed' \in Nat /\ owed' = cooldown' /\ idle' = 0
  BY <1>1, BarCounts DEF Exits
<1>3. ~inTrade' /\ inTrade' = FALSE /\ side' = 0 /\ bars' = 0 /\ partial' = FALSE
      /\ signal' = Exit /\ age' = 0 /\ unknown' = FALSE
  BY DEF Exits
<1>4. SignalType'
  BY <1>2, <1>3 DEF SignalType, Exit, Partial
<1>5. Owing'
  <2>1. \A n \in Nat : 0 + n >= n
    OBVIOUS
  <2>2. idle' + cooldown' >= owed'
    BY <1>2, <2>1, Zenon
  <2> QED
    BY <1>3, <2>2 DEF Owing, PauseAfterExit
<1>6. Aging' /\ Sided'
  BY <1>3 DEF Aging, Sided
<1> QED
  BY <1>3, <1>4, <1>5, <1>6 DEF SignalInv

\* A bar without an entry keeps it, whether it counts down a cooldown or not.
LEMMA WaitKeeps ==
  ASSUME SignalInv, Waits, ~inTrade,
         UNCHANGED cooldown \/ (cooldown > 0 /\ cooldown' = cooldown - 1)
  PROVE  SignalInv' /\ ~inTrade' /\ signal' = Exit
<1>1. ~inTrade' /\ signal' = Exit /\ SignalType' /\ Sided' /\ Aging'
  BY DEF SignalInv, SignalType, Waits, Aging, Sided, Exit, Partial
<1>2. idle' + cooldown' >= owed'
  BY DEF SignalInv, SignalType, Owing, Waits
<1> QED
  BY <1>1, <1>2 DEF SignalInv, Owing, PauseAfterExit

\* A partial exit, which is one bar more of the trade.
LEMMA PartialKeeps ==
  ASSUME SignalInv, inTrade, ~partial, PartialExits
  PROVE  SignalInv' /\ inTrade' /\ partial' /\ side' = side /\ signal' = Partial
<1>1. inTrade' /\ partial' = TRUE /\ side' = side /\ signal' = Partial /\ SignalType'
  BY DEF SignalInv, SignalType, PartialExits, Exit, Partial
<1>2. Owing' /\ Sided'
  BY <1>1 DEF SignalInv, Owing, PauseAfterExit, Sided, PartialExits
<1>3. age' = bars' + 1 /\ bars' = bars /\ unknown' = unknown
  BY DEF SignalInv, SignalType, Aging, PartialExits
<1>4. Aging'
  BY <1>1, <1>3 DEF SignalInv, Aging, TimeStop
<1> QED
  BY <1>1, <1>2, <1>4 DEF SignalInv

\* A bar the trade is held for: with a half-life it was not beyond that one's time stop.
LEMMA HoldKeeps ==
  ASSUME SignalInv, NEW b \in Bars, inTrade, ~TimeDue(b), Holds(b)
  PROVE  SignalInv' /\ inTrade' /\ partial' = partial /\ side' = side /\ signal' = side
<1>1. /\ inTrade' /\ partial' = partial /\ side' = side /\ signal' = side
      /\ bars' = bars + 1 /\ age' = age + 1
  BY DEF Holds
<1>2. SignalType'
  BY DEF SignalInv, SignalType, Holds, Exit, Partial
<1>3. Owing' /\ Sided'
  BY <1>1 DEF SignalInv, Owing, PauseAfterExit, Sided, Holds
<1>4. ASSUME ~unknown' PROVE \E h \in HalfLives : bars' <= TimeStop(h) + 1
  <2>1. b.halfLife \in HalfLives /\ b.halfLife # None
    BY <1>4 DEF Holds, Bars
  <2>2. bars <= TimeStop(b.halfLife)
    BY <2>1, BarCounts DEF TimeDue, SignalInv, SignalType
  <2>3. bars' <= TimeStop(b.halfLife) + 1
    BY <1>1, <2>1, <2>2, BarCounts DEF SignalInv, SignalType
  <2> QED
    BY <2>1, <2>3
<1>5. age' = bars' + (IF partial' THEN 1 ELSE 0)
  BY <1>1 DEF SignalInv, SignalType, Aging
<1> QED
  BY <1>1, <1>2, <1>3, <1>4, <1>5 DEF SignalInv, Aging, TimeStop

\* An entry, which the cooldown let through.
LEMMA EntryKeeps ==
  ASSUME SignalInv, NEW s \in Sides, ~inTrade, ~(cooldown > 0), Enters(s)
  PROVE  SignalInv' /\ inTrade' /\ ~partial' /\ side' = s /\ signal' = s
<1>1. /\ inTrade' = TRUE /\ partial' = FALSE /\ side' = s /\ signal' = s
      /\ bars' = 1 /\ age' = 1 /\ unknown' = FALSE
  BY DEF Enters
<1>2. SignalType'
  <2>1. cooldown' = cooldown /\ owed' = owed /\ idle' = idle
    BY DEF Enters
  <2> QED
    BY <1>1, <2>1 DEF SignalInv, SignalType, Sides, Exit, Partial
<1>5. Sided'
  BY <1>1 DEF Sided, Sides
<1>3. Owing'
  BY <1>1 DEF SignalInv, SignalType, Owing, PauseAfterExit, Enters
<1>4. \E h \in HalfLives : bars' <= TimeStop(h) + 1
  <2>1. PICK h \in HalfLives : TRUE
    BY SignalAssumption
  <2>2. TimeStop(h) \in Nat
    BY BarCounts
  <2> QED
    BY <1>1, <2>2
<1> QED
  BY <1>1, <1>2, <1>3, <1>4, <1>5 DEF SignalInv, Aging, TimeStop

-----------------------------------------------------------------------------
\* Every outcome of a bar keeps the generator's invariant, and says of the row's signal
\* what the simulation needs: it is an exit when no trade is held; in a trade it is the
\* trade's side, or a partial exit of a trade that was there before.
LEMMA ComputeSignalKeeps ==
  ASSUME SignalInv, NEW b \in Bars, ComputeSignal(b)
  PROVE  /\ SignalInv'
         /\ ~inTrade' => signal' = Exit
         /\ inTrade' =>
              \/ signal' = side' /\ (inTrade => side' = side /\ partial' = partial)
                                /\ (~inTrade => ~partial')
              \/ signal' = Partial /\ inTrade /\ side' = side /\ partial'
<1>1. CASE Exits(b)
  BY <1>1, ExitKeeps
<1>2. CASE ~inTrade /\ NoEntry
  BY <1>2, WaitKeeps DEF NoEntry
<1>3. CASE cooldown > 0 /\ CoolsDown
  <2>1. ~inTrade
    BY <1>3 DEF SignalInv, Owing, PauseAfterExit
  <2> QED
    BY <1>3, <2>1, WaitKeeps DEF CoolsDown
<1>4. CASE inTrade /\ ~partial /\ PartialExits
  BY <1>4, PartialKeeps
<1>5. CASE inTrade /\ ~TimeDue(b) /\ Holds(b)
  BY <1>5, HoldKeeps
<1>6. CASE ~inTrade /\ ~(cooldown > 0) /\ EntrySide(b) # 0 /\ Enters(EntrySide(b))
  <2>1. EntrySide(b) \in Sides
    BY <1>6 DEF EntrySide, Sides
  <2> QED
    BY <1>6, <2>1, EntryKeeps
<1> QED
  BY <1>1, <1>2, <1>3, <1>4, <1>5, <1>6, Outcomes DEF Outcome

\* A row that is not computed leaves the generator as it is but for the signal.
LEMMA NotComputedKeeps ==
  ASSUME SignalInv, NotComputed
  PROVE  SignalInv' /\ signal' = Exit
<1>1. SignalType'
  BY DEF SignalInv, SignalType, NotComputed, Exit, Partial
<1>2. Owing' /\ Sided'
  BY DEF SignalInv, Owing, PauseAfterExit, Sided, NotComputed
<1>3. Aging'
  BY DEF SignalInv, Aging, TimeStop, NotComputed
<1> QED
  BY <1>1, <1>2, <1>3 DEF SignalInv, NotComputed

\* The initial state satisfies the invariant.
LEMMA FoldInvInit == Init => FoldInv
<1> SUFFICES ASSUME Init PROVE FoldInv
  OBVIOUS
<1>1. SignalInv
  <2>1. SignalType
    BY DEF Init, SignalInit, SignalType, Exit, Partial
  <2>2. Owing
    BY DEF Init, SignalInit, Owing, PauseAfterExit
  <2>3. Aging /\ Sided
    BY DEF Init, SignalInit, Aging, Sided
  <2> QED
    BY <2>1, <2>2, <2>3 DEF SignalInv
<1>2. SimulationType /\ FoldFollowsSignals
  BY DEF Init, SignalInit, SimulationType, FoldFollowsSignals
<1> QED
  BY <1>1, <1>2 DEF FoldInv

-----------------------------------------------------------------------------
\* The simulation reads a row whose trade is over: it closes its own.
LEMMA ExitIsFollowed ==
  ASSUME FoldInv, NEW small \in BOOLEAN, SimulateRow(signal', small), signal' = Exit
  PROVE  entry' = 0 /\ done' = FALSE
  BY DEF SimulateRow, Sides, Exit, Partial

\* A computed row keeps the simulation beside the generator.
LEMMA RowKeeps ==
  ASSUME FoldInv, NEW b \in Bars, NEW small \in BOOLEAN, Row(b, small)
  PROVE  FoldInv'
<1>1. /\ ComputeSignal(b) /\ SimulateRow(signal', small)
      /\ astray' = (inTrade' /\ (astray \/ (entry = 0 /\ small)))
  BY DEF Row
<1>2. /\ SignalInv'
      /\ ~inTrade' => signal' = Exit
      /\ inTrade' =>
           \/ signal' = side' /\ (inTrade => side' = side /\ partial' = partial)
                             /\ (~inTrade => ~partial')
           \/ signal' = Partial /\ inTrade /\ side' = side /\ partial'
  BY <1>1, ComputeSignalKeeps DEF FoldInv
<1>3. SignalType /\ Sided /\ SignalType' /\ Sided' /\ SimulationType /\ FoldFollowsSignals
  BY <1>2 DEF FoldInv, SignalInv
<1>4. CASE ~inTrade'
  <2>1. entry' = 0 /\ done' = FALSE /\ side' = 0 /\ ~partial'
    BY <1>1, <1>2, <1>3, <1>4, ExitIsFollowed DEF Sided, SignalType
  <2>2. astray' = FALSE
    BY <1>1, <1>4
  <2> QED
    BY <1>2, <2>1, <2>2 DEF FoldInv, SimulationType, FoldFollowsSignals
<1>5. CASE inTrade' /\ signal' = Partial /\ inTrade /\ side' = side /\ partial'
  <2>1. entry' = entry /\ (entry # 0 => done' = TRUE) /\ (entry = 0 => done' = done)
    BY <1>1, <1>5 DEF SimulateRow, Sides, Partial, Exit
  <2>2. astray' \in BOOLEAN /\ (~astray' => ~astray)
    BY <1>1, <1>3, <1>5 DEF SimulationType
  <2>3. side # 0
    BY <1>3, <1>5 DEF Sided
  <2> QED
    BY <1>2, <1>3, <1>5, <2>1, <2>2, <2>3 DEF FoldInv, SimulationType, FoldFollowsSignals
<1>6. CASE /\ inTrade' /\ signal' = side' /\ (inTrade => side' = side /\ partial' = partial)
           /\ (~inTrade => ~partial')
  <2>1. side' \in Sides
    BY <1>3, <1>6 DEF Sided, SignalType, Sides
  <2>2. CASE entry = 0 /\ ~small
    <3>1. entry' = side' /\ done' = FALSE
      BY <1>1, <1>6, <2>1, <2>2 DEF SimulateRow
    <3>2. astray' = astray
      BY <1>1, <1>3, <1>6, <2>2 DEF SimulationType
    <3>3. ~astray => ~inTrade
      BY <1>3, <2>2 DEF Sided, FoldFollowsSignals
    <3> QED
      BY <1>2, <1>3, <1>6, <2>1, <3>1, <3>2, <3>3
      DEF FoldInv, SimulationType, FoldFollowsSignals, Sides
  <2>3. CASE entry = 0 /\ small
    <3>1. entry' = 0 /\ done' = done
      BY <1>1, <1>6, <2>1, <2>3 DEF SimulateRow, Sides, Exit, Partial
    <3>2. astray' = TRUE
      BY <1>1, <1>6, <2>3
    <3> QED
      BY <1>2, <1>3, <3>1, <3>2 DEF FoldInv, SimulationType, FoldFollowsSignals
  <2>4. CASE entry # 0
    <3>1. entry' = entry /\ done' = done
      BY <1>1, <1>6, <2>1, <2>4 DEF SimulateRow, Sides, Exit, Partial
    <3>2. astray' = astray
      BY <1>1, <1>3, <1>6, <2>4 DEF SimulationType
    <3> QED
      BY <1>2, <1>3, <1>6, <2>4, <3>1, <3>2 DEF FoldInv, SimulationType, FoldFollowsSignals
  <2> QED
    BY <2>2, <2>3, <2>4
<1> QED
  BY <1>2, <1>4, <1>5, <1>6

\* Every step keeps the invariant.
LEMMA FoldInvStep == FoldInv /\ [Next]_vars => FoldInv'
<1> SUFFICES ASSUME FoldInv, [Next]_vars PROVE FoldInv'
  OBVIOUS
<1>1. ASSUME NEW b \in Bars, NEW small \in BOOLEAN, Row(b, small) PROVE FoldInv'
  BY <1>1, RowKeeps
<1>2. CASE ColdRow
  <2>1. SignalInv' /\ UNCHANGED <<inTrade, side, partial, entry, done, astray>>
    BY <1>2, NotComputedKeeps DEF FoldInv, ColdRow, NotComputed, foldVars
  <2> QED
    BY <2>1 DEF FoldInv, SimulationType, FoldFollowsSignals
<1>3. CASE BlankRow
  <2>1. SignalInv' /\ UNCHANGED <<inTrade, side, partial>> /\ signal' = Exit
    BY <1>3, NotComputedKeeps DEF FoldInv, BlankRow, NotComputed
  <2>2. entry' = 0 /\ done' = FALSE /\ astray' = inTrade
    BY <1>3, <2>1, ExitIsFollowed DEF BlankRow
  <2>3. inTrade \in BOOLEAN /\ Sided'
    BY <2>1 DEF FoldInv, SignalInv, SignalType
  <2> QED
    BY <2>1, <2>2, <2>3 DEF FoldInv, SimulationType, FoldFollowsSignals, Sided
<1>4. CASE NextFold
  <2>1. SignalType'
    BY <1>4 DEF NextFold, ResetTradeState, SignalType, Exit, Partial
  <2>2. Owing'
    BY <1>4 DEF NextFold, ResetTradeState, Owing, PauseAfterExit
  <2>3. Aging' /\ Sided'
    BY <1>4 DEF NextFold, ResetTradeState, Aging, Sided
  <2>4. SimulationType' /\ FoldFollowsSignals'
    BY <1>4 DEF NextFold, ResetTradeState, SimulationType, FoldFollowsSignals
  <2> QED
    BY <2>1, <2>2, <2>3, <2>4 DEF FoldInv, SignalInv
<1>5. CASE UNCHANGED vars
  <2>1. SignalType' /\ Owing' /\ Aging' /\ Sided'
    BY <1>5 DEF vars, signalVars, FoldInv, SignalInv, SignalType, Owing, PauseAfterExit, Aging,
                Sided
  <2>2. SimulationType' /\ FoldFollowsSignals'
    BY <1>5 DEF vars, signalVars, foldVars, FoldInv, SimulationType, FoldFollowsSignals
  <2> QED
    BY <2>1, <2>2 DEF FoldInv, SignalInv
<1> QED
  BY <1>1, <1>2, <1>3, <1>4, <1>5 DEF Next

-----------------------------------------------------------------------------
(* Profit taking.                                                          *)

Stations == {"wait", "armed", "read", "cycle", "moving", "sent", "rest", "ended"}

SpacedTypes ==
  /\ day \in T!Days /\ events \in Nat /\ day <= events /\ events <= MaxEvents
  /\ clock \in {"before", "at", "after"}
  /\ pc \in [T!Tasks -> Stations]
  /\ cycles \in [T!Tasks -> [T!Days -> Nat]] /\ swallowed \in [T!Tasks -> [T!Days -> Nat]]
  /\ burst \in Nat /\ cooling \in BOOLEAN /\ overlap \in BOOLEAN

\* A day that has not come has no cycle, and today has none but those of swallowed
\* cancellations while a task may still start its own.
CyclesInv ==
  /\ T!OneCyclePerDay
  /\ \A t \in T!Tasks, d \in T!Days : d > day => cycles[t][d] = 0
  /\ \A t \in T!Tasks :
       clock = "before" \/ (clock = "at" /\ pc[t] = "armed")
         => cycles[t][day] <= swallowed[t][day]

OnItsWay(t) == pc[t] = "sent"

\* Unless transfers overlapped, one is on its way at most, and none after one completed.
BurstInv ==
  /\ burst > 0 => cooling
  /\ ~overlap => /\ burst <= 1
                 /\ \A t, u \in T!Tasks : OnItsWay(t) /\ OnItsWay(u) => t = u
                 /\ \A t \in T!Tasks : OnItsWay(t) => burst = 0

SpacedInv == SpacedTypes /\ CyclesInv /\ BurstInv

\* The initial states satisfy the invariant.
LEMMA SpacedInit == T!Init => SpacedInv
<1> USE BooksAssumption DEF T!Init, T!Days, T!Tasks
<1>1. ASSUME T!Init PROVE SpacedTypes
  <2>1. cooling \in BOOLEAN /\ overlap \in BOOLEAN
    BY <1>1, Zenon
  <2>2. /\ cycles \in [T!Tasks -> [T!Days -> Nat]] /\ swallowed \in [T!Tasks -> [T!Days -> Nat]]
        /\ pc \in [T!Tasks -> Stations]
    BY <1>1 DEF Stations
  <2>3. /\ day \in T!Days /\ events \in Nat /\ day <= events /\ events <= MaxEvents
        /\ burst \in Nat
        /\ clock \in {"before", "at", "after"}
    BY <1>1
  <2> QED BY <2>1, <2>2, <2>3 DEF SpacedTypes
<1>2. T!Init => CyclesInv
  BY DEF CyclesInv, T!OneCyclePerDay
<1>3. T!Init => BurstInv
  BY DEF BurstInv, OnItsWay
<1> QED BY <1>1, <1>2, <1>3 DEF SpacedInv

\* A step that starts no cycle, neither arms a task nor moves the clock.
LEMMA NoStart ==
  ASSUME SpacedInv, UNCHANGED <<day, clock, cycles, swallowed>>,
         \A t \in T!Tasks : pc'[t] = "armed" => pc[t] = "armed"
  PROVE  CyclesInv'
  BY DEF SpacedInv, CyclesInv, T!OneCyclePerDay

\* A step that sends and completes nothing.
LEMMA NoSend ==
  ASSUME SpacedInv, UNCHANGED <<cooling, burst, overlap>>,
         \A t \in T!Tasks : OnItsWay(t)' => OnItsWay(t)
  PROVE  BurstInv'
  BY DEF SpacedInv, BurstInv

\* Every step of the tasks, the recorders, the clock and restarts keeps it.
LEMMA SpacedStep == ASSUME SpacedInv, [T!Next]_(T!vars) PROVE SpacedInv'
<1> USE DEF SpacedInv
<1>0. \A t \in T!Tasks : T!At(t, "armed", "read") \/ T!At(t, "wait", "armed") \/ T!At(t, "armed", "wait")
                       \/ T!At(t, "read", "cycle") \/ T!At(t, "rest", "wait") \/ T!At(t, "wait", "read") =>
        /\ pc' \in [T!Tasks -> Stations]
        /\ \A u \in T!Tasks : OnItsWay(u)' => OnItsWay(u)
  BY DEF T!At, SpacedTypes, Stations, OnItsWay
<1>1. ASSUME NEW r \in Recorders, (\E g \in Gains : T!Look(r, g)) \/ T!Insert(r) \/ T!Update(r)
      PROVE  SpacedInv'
  <2>1. UNCHANGED <<day, clock, events, pc, cycles, swallowed, cooling, burst, overlap>>
    BY <1>1 DEF T!Look, T!Insert, T!Update, T!loops, T!account
  <2> QED BY <2>1, NoStart, NoSend DEF SpacedTypes, OnItsWay
<1>2. ASSUME NEW t \in T!Tasks, T!Arm(t) PROVE SpacedInv'
  <2>1. UNCHANGED <<day, clock, events, cycles, swallowed, cooling, burst, overlap>> /\ clock = "before"
    BY <1>2 DEF T!Arm, T!MayArm, T!account
  <2>2. CyclesInv'
    BY <2>1 DEF CyclesInv, T!OneCyclePerDay
  <2> QED BY <1>0, <1>2, <2>1, <2>2, NoSend DEF T!Arm, SpacedTypes
<1>3. ASSUME NEW t \in T!Tasks, T!Start(t) \/ T!Woken(t) PROVE SpacedInv'
  <2>1. /\ UNCHANGED <<day, clock, cooling, burst, overlap>>
        /\ cycles' = [cycles EXCEPT ![t][day] = @ + 1]
    BY <1>3 DEF T!Start, T!Woken, T!Begins, T!account
  <2>2. \/ clock = "at" /\ T!At(t, "armed", "read") /\ UNCHANGED <<swallowed, events>>
        \/ /\ T!At(t, "wait", "read") \/ T!At(t, "armed", "read")
           /\ swallowed' = [swallowed EXCEPT ![t][day] = @ + 1]
           /\ events < MaxEvents /\ events' = events + 1
    BY <1>3 DEF T!Start, T!Woken, T!Event
  <2>3. /\ cycles' \in [T!Tasks -> [T!Days -> Nat]] /\ swallowed' \in [T!Tasks -> [T!Days -> Nat]]
        /\ events' \in Nat /\ day' <= events' /\ events' <= MaxEvents
    <3>1. /\ cycles' \in [T!Tasks -> [T!Days -> Nat]]
          /\ swallowed' \in [T!Tasks -> [T!Days -> Nat]]
      <4>0. /\ day \in T!Days /\ cycles \in [T!Tasks -> [T!Days -> Nat]]
            /\ swallowed \in [T!Tasks -> [T!Days -> Nat]]
        BY DEF SpacedTypes
      <4>1. cycles' \in [T!Tasks -> [T!Days -> Nat]]
        BY ONLY <2>1, <4>0
      <4>2. swallowed' = swallowed \/ swallowed' = [swallowed EXCEPT ![t][day] = @ + 1]
        BY <2>2
      <4>3. [swallowed EXCEPT ![t][day] = @ + 1] \in [T!Tasks -> [T!Days -> Nat]]
        BY ONLY <4>0
      <4>4. swallowed' \in [T!Tasks -> [T!Days -> Nat]]
        BY ONLY <4>0, <4>2, <4>3
      <4> QED BY <4>1, <4>4
    <3>2. events \in Nat /\ day \in Nat /\ day <= events /\ events <= MaxEvents /\ MaxEvents \in Nat
      BY BooksAssumption DEF SpacedTypes, T!Days
    <3>3. day' = day /\ (events' = events \/ (events < MaxEvents /\ events' = events + 1))
      BY <2>1, <2>2
    <3>4. events' \in Nat /\ day' <= events' /\ events' <= MaxEvents
      BY ONLY <3>2, <3>3
    <3> QED BY <3>1, <3>4
  <2>4. CyclesInv'
    <3>1. cycles'[t][day] = cycles[t][day] + 1 /\ pc'[t] = "read"
      BY <2>1, <2>2 DEF SpacedTypes, T!At
    <3>2. \A u \in T!Tasks, d \in T!Days : u # t \/ d # day =>
            cycles'[u][d] = cycles[u][d] /\ swallowed'[u][d] = swallowed[u][d]
      BY <2>1, <2>2 DEF SpacedTypes
    <3>3. \A u \in T!Tasks : u # t => pc'[u] = pc[u]
      BY <2>2 DEF SpacedTypes, T!At
    <3>4. /\ day \in T!Days /\ cycles[t][day] \in Nat /\ swallowed[t][day] \in Nat
          /\ cycles[t][day] <= 1 + swallowed[t][day]
      BY DEF SpacedTypes, CyclesInv, T!OneCyclePerDay
    <3>5. \/ /\ clock = "at" /\ cycles[t][day] <= swallowed[t][day]
             /\ swallowed'[t][day] = swallowed[t][day]
          \/ swallowed'[t][day] = swallowed[t][day] + 1
      BY <2>2 DEF SpacedTypes, CyclesInv, T!At
    <3>6. T!OneCyclePerDay'
      BY <3>1, <3>2, <3>4, <3>5 DEF CyclesInv, T!OneCyclePerDay
    <3>7. \A u \in T!Tasks, d \in T!Days : d > day => cycles'[u][d] = 0
      BY <3>2, <3>4 DEF CyclesInv, T!Days
    <3>8. \A u \in T!Tasks : clock = "before" \/ (clock = "at" /\ pc'[u] = "armed")
            => cycles'[u][day] <= swallowed'[u][day]
      BY <3>1, <3>2, <3>3, <3>4, <3>5 DEF CyclesInv
    <3> QED BY <2>1, <3>6, <3>7, <3>8 DEF CyclesInv
  <2>5. pc' \in [T!Tasks -> Stations] /\ \A u \in T!Tasks : OnItsWay(u)' => OnItsWay(u)
    BY <1>0, <2>2
  <2>6. BurstInv'
    BY <2>1, <2>5, NoSend
  <2> QED BY <2>1, <2>3, <2>4, <2>5, <2>6 DEF SpacedTypes
<1>4. ASSUME NEW t \in T!Tasks, T!Miss(t) \/ T!Summary(t) \/ T!Rested(t) PROVE SpacedInv'
  <2>1. UNCHANGED <<day, clock, events, cycles, swallowed, cooling, burst, overlap>>
    BY <1>4 DEF T!Miss, T!Summary, T!Rested, T!account
  <2>2. T!At(t, "armed", "wait") \/ T!At(t, "read", "cycle") \/ T!At(t, "rest", "wait")
    BY <1>4 DEF T!Miss, T!Summary, T!Rested
  <2>3. \A u \in T!Tasks : pc'[u] = "armed" => pc[u] = "armed"
    BY <2>2 DEF T!At, SpacedTypes
  <2> QED BY <1>0, <2>1, <2>2, <2>3, NoStart, NoSend DEF SpacedTypes
<1>5. \A t \in T!Tasks : T!Return(t) =>
        /\ pc' \in [T!Tasks -> Stations] /\ pc'[t] # "sent" /\ pc'[t] # "armed"
        /\ \A u \in T!Tasks : u # t => pc'[u] = pc[u]
  BY DEF T!Return, SpacedTypes, Stations
<1>6. ASSUME NEW t \in T!Tasks, T!Skip(t) \/ \E a \in {0, amount[t]} : T!Failed(t, a) PROVE SpacedInv'
  <2>1. UNCHANGED <<day, clock, events, cycles, swallowed, cooling, burst, overlap>> /\ T!Return(t)
    BY <1>6 DEF T!Skip, T!Failed, T!account
  <2> QED BY <1>5, <2>1, NoStart, NoSend DEF SpacedTypes, OnItsWay
<1>60. ASSUME NEW t \in T!Tasks, T!Ended(t) \/ \E a \in {0, amount[t]} : T!SendCancelled(t, a)
       PROVE  SpacedInv'
  <2>1. /\ UNCHANGED <<day, clock, cycles, swallowed, cooling, burst, overlap>>
        /\ events < MaxEvents /\ events' = events + 1
    BY <1>60 DEF T!Ended, T!SendCancelled, T!account, T!Event
  <2>2. pc' = [pc EXCEPT ![t] = "ended"]
    BY <1>60 DEF T!Ended, T!SendCancelled, T!At
  <2>3. pc' \in [T!Tasks -> Stations] /\ \A u \in T!Tasks : pc'[u] \in {pc[u], "ended"}
    BY <2>2 DEF SpacedTypes, Stations
  <2>4. events' \in Nat /\ day' <= events' /\ events' <= MaxEvents
    BY <2>1, BooksAssumption DEF SpacedTypes, T!Days
  <2>5. \A u \in T!Tasks : (pc'[u] = "armed" => pc[u] = "armed") /\ (OnItsWay(u)' => OnItsWay(u))
    BY <2>3 DEF OnItsWay
  <2>6. CyclesInv' /\ BurstInv'
    BY <2>1, <2>5, NoStart, NoSend
  <2> QED BY <2>1, <2>3, <2>4, <2>6 DEF SpacedTypes
<1>7. ASSUME NEW t \in T!Tasks, T!Send(t) PROVE SpacedInv'
  <2>1. /\ UNCHANGED <<day, clock, events, cycles, swallowed, cooling, burst>>
        /\ T!At(t, "moving", "sent") /\ ~cooling
    BY <1>7 DEF T!Send, T!Allowed
  <2>2. overlap' = (overlap \/ \E u \in T!Tasks \ {t} : pc[u] = "sent")
    BY <1>7 DEF T!Send
  <2>3. overlap' \in BOOLEAN
    BY <2>2, Zenon
  <2>4. /\ pc' \in [T!Tasks -> Stations] /\ pc'[t] = "sent"
        /\ \A u \in T!Tasks : u # t => pc'[u] = pc[u]
    BY <2>1 DEF T!At, SpacedTypes, Stations
  <2>5. burst = 0
    BY <2>1 DEF BurstInv, SpacedTypes
  <2>6. ~overlap' => \A u \in T!Tasks : OnItsWay(u)' => u = t
    BY <2>2, <2>4 DEF OnItsWay
  <2>7. BurstInv'
    BY <2>1, <2>5, <2>6 DEF BurstInv
  <2>8. CyclesInv'
    BY <2>1, <2>4, NoStart
  <2> QED BY <2>1, <2>3, <2>4, <2>7, <2>8 DEF SpacedTypes
<1>8. ASSUME NEW t \in T!Tasks, T!Completed(t) PROVE SpacedInv'
  <2>1. /\ UNCHANGED <<day, clock, events, cycles, swallowed, overlap>> /\ T!Return(t)
        /\ pc[t] = "sent" /\ cooling' = TRUE /\ burst' = burst + 1
    BY <1>8 DEF T!Completed
  <2>2. ~overlap => burst' = 1 /\ \A u \in T!Tasks : ~OnItsWay(u)'
    BY <1>5, <2>1 DEF BurstInv, OnItsWay
  <2>3. BurstInv'
    BY <2>1, <2>2 DEF BurstInv
  <2>4. CyclesInv'
    BY <1>5, <2>1, NoStart
  <2> QED BY <1>5, <2>1, <2>3, <2>4 DEF SpacedTypes
<1>9. ASSUME NEW s \in Strategies, T!TakeProfit(s) \/ T!Hold(s) PROVE SpacedInv'
  <2>1. UNCHANGED <<day, clock, events, cycles, swallowed, cooling, burst, overlap>>
    BY <1>9 DEF T!TakeProfit, T!Hold, T!account
  <2>2. pc' = pc \/ T!At(T!Allocator, "cycle", "moving")
    BY <1>9 DEF T!TakeProfit, T!Hold
  <2>3. pc' \in [T!Tasks -> Stations] /\ \A u \in T!Tasks : pc'[u] \in {pc[u], "moving"}
    BY <2>2 DEF T!At, SpacedTypes, Stations, T!Tasks
  <2> QED BY <2>1, <2>3, NoStart, NoSend DEF SpacedTypes, OnItsWay
<1>10. CASE T!AllocatorEnds \/ T!Sweep \/ T!NoSweep
  <2>1. UNCHANGED <<day, clock, events, cycles, swallowed, cooling, burst, overlap>>
    BY <1>10 DEF T!AllocatorEnds, T!Sweep, T!NoSweep, T!account
  <2>2. \/ T!At(T!Allocator, "cycle", "rest") \/ T!At(T!Manager, "cycle", "moving")
        \/ T!At(T!Manager, "cycle", "rest")
    BY <1>10 DEF T!AllocatorEnds, T!Sweep, T!NoSweep
  <2>3. pc' \in [T!Tasks -> Stations] /\ \A u \in T!Tasks : pc'[u] \in {pc[u], "moving", "rest"}
    BY <2>2 DEF T!At, SpacedTypes, Stations, T!Tasks
  <2> QED BY <2>1, <2>3, NoStart, NoSend DEF SpacedTypes, OnItsWay
<1>11. CASE T!Cool
  <2>1. /\ UNCHANGED <<day, clock, events, pc, cycles, swallowed>>
        /\ cooling' = FALSE /\ burst' = 0
    BY <1>11 DEF T!Cool, T!loops
  <2>2. overlap' = \E t \in T!Tasks : pc[t] = "sent"
    BY <1>11 DEF T!Cool
  <2>3. overlap' \in BOOLEAN
    BY <2>2, Zenon
  <2>4. BurstInv'
    BY <2>1, <2>2 DEF BurstInv, OnItsWay
  <2>5. CyclesInv'
    BY <2>1, NoStart
  <2> QED BY <2>1, <2>3, <2>4, <2>5 DEF SpacedTypes
<1>12. CASE T!Tick
  <2>1. UNCHANGED <<pc, cycles, swallowed, cooling, burst, overlap>>
    BY <1>12 DEF T!Tick, T!loops, T!account
  <2>2. \/ clock = "before" /\ clock' = "at" /\ UNCHANGED <<day, events>>
        \/ clock = "at" /\ clock' = "after" /\ UNCHANGED <<day, events>>
        \/ /\ clock = "after" /\ clock' = "before" /\ day' = day + 1
           /\ events < MaxEvents /\ events' = events + 1
    BY <1>12 DEF T!Tick, T!Event
  <2>3. /\ day' \in T!Days /\ clock' \in {"before", "at", "after"}
        /\ events' \in Nat /\ day' <= events' /\ events' <= MaxEvents
    BY <2>2, BooksAssumption DEF SpacedTypes, T!Days
  <2>4. CyclesInv'
    <3>1. T!OneCyclePerDay'
      BY <2>1 DEF CyclesInv, T!OneCyclePerDay
    <3>2. day' \in T!Days /\ day \in T!Days /\ (day' = day \/ day' = day + 1)
      BY <2>2, <2>3 DEF SpacedTypes
    <3>3. \A t \in T!Tasks, d \in T!Days : d > day' => cycles'[t][d] = 0
      BY <2>1, <3>2 DEF CyclesInv, T!Days
    <3>4. \A t \in T!Tasks :
            clock' = "before" \/ (clock' = "at" /\ pc'[t] = "armed")
              => cycles'[t][day'] <= swallowed'[t][day']
      <4> SUFFICES ASSUME NEW t \in T!Tasks, clock' = "before" \/ (clock' = "at" /\ pc'[t] = "armed")
                   PROVE  cycles[t][day'] <= swallowed[t][day']
        BY <2>1
      <4>1. swallowed[t][day'] \in Nat
        BY <3>2 DEF SpacedTypes
      <4>2. CASE day' = day
        BY <2>2, <3>2, <4>2 DEF CyclesInv, T!Days
      <4>3. CASE day' = day + 1
        <5>1. cycles[t][day'] = 0
          BY <3>2, <4>3 DEF CyclesInv, T!Days
        <5> QED BY <4>1, <5>1
      <4> QED BY <3>2, <4>2, <4>3
    <3> QED BY <3>1, <3>3, <3>4 DEF CyclesInv
  <2>5. BurstInv'
    BY <2>1, NoSend DEF OnItsWay
  <2> QED BY <2>1, <2>3, <2>4, <2>5 DEF SpacedTypes
<1>13. CASE T!Restart
  <2>1. /\ UNCHANGED <<day, clock, cycles, swallowed>> /\ events < MaxEvents /\ events' = events + 1
        /\ pc' = [t \in T!Tasks |-> "wait"]
        /\ cooling' \in BOOLEAN /\ burst' = 0 /\ overlap' = FALSE
    BY <1>13 DEF T!Restart, T!Event
  <2>2. BurstInv'
    BY <2>1 DEF BurstInv, OnItsWay
  <2>3. CyclesInv'
    BY <2>1, NoStart
  <2>4. cooling' \in BOOLEAN /\ overlap' \in BOOLEAN
    BY <2>1, Zenon
  <2>5. pc' \in [T!Tasks -> Stations]
    BY <2>1 DEF Stations
  <2>6. events' \in Nat /\ day' <= events' /\ events' <= MaxEvents
    <3>1. events \in Nat /\ day \in Nat /\ day <= events /\ MaxEvents \in Nat
      BY BooksAssumption DEF SpacedTypes, T!Days
    <3> QED BY ONLY <2>1, <3>1
  <2>7. SpacedTypes'
    BY ONLY SpacedTypes, <2>1, <2>4, <2>5, <2>6 DEF SpacedTypes
  <2> QED BY <2>2, <2>3, <2>7
<1>14. CASE UNCHANGED T!vars
  <2>1. UNCHANGED <<day, clock, events, pc, cycles, swallowed, cooling, burst, overlap>>
    BY <1>14 DEF T!vars, T!loops, T!account
  <2> QED BY <2>1, NoStart, NoSend DEF SpacedTypes, OnItsWay
<1> HIDE DEF SpacedInv
<1> QED
  BY <1>1, <1>2, <1>3, <1>4, <1>6, <1>60, <1>7, <1>8, <1>9, <1>10, <1>11, <1>12, <1>13, <1>14 DEF T!Next

\* It implies what is promised of the cycles and the transfers.
LEMMA MovesSpaced == SpacedInv => T!OneCyclePerDay /\ T!CooldownUnlessOverlap
  BY DEF SpacedInv, SpacedTypes, CyclesInv, BurstInv, T!CooldownUnlessOverlap

\* The results recorded, what the rows sum up to, and what has been recorded for a day.
Results == [r \in Recorders |-> gain[r].pnl]
RowSums == [w \in SUBSET Recorders |-> SumOf(Results, w)]
Entered(d) == {r \in Recorders : rec[r] = "done" /\ gain[r].date = d}

\* The library's sum over the record()s of a row.
LEMMA ResultSums ==
  ASSUME NEW Q \in SUBSET Recorders
  PROVE  T!MapThenSumSet(LAMBDA r : gain[r].pnl, Q) = SumOf(Results, Q)
<1> DEFINE F(h) == h = [s \in SUBSET Q |-> IF s = {} THEN 0
                          ELSE LET x == CHOOSE x \in s : TRUE IN gain[x].pnl + h[s \ {x}]]
<1>1. IsFiniteSet(Q)
  BY SharesAssumption, FS_Subset
<1>2. PICK k : Sums(k, Results, Q)
  BY <1>1, SumsExist
<1>3. \A h : F(h) <=> Sums(h, Results, Q)
  <2>1. \A s \in SUBSET Q : s # {} => First(s) \in Recorders
    BY FirstIn
  <2> TAKE h
  <2>2. [s \in SUBSET Q |-> IF s = {} THEN 0
           ELSE LET x == CHOOSE x \in s : TRUE IN gain[x].pnl + h[s \ {x}]]
        = [s \in SUBSET Q |-> IF s = {} THEN 0 ELSE Results[First(s)] + h[s \ {First(s)}]]
    BY <2>1 DEF First, Results
  <2> QED BY <2>2 DEF Sums, Adds
<1>4. F(CHOOSE h : F(h))
  <2>1. F(k)
    BY <1>2, <1>3
  <2> HIDE DEF F
  <2> QED BY <2>1, Zenon
<1>5. T!MapThenSumSet(LAMBDA r : gain[r].pnl, Q) = (CHOOSE h : F(h))[Q]
  BY DEF T!MapThenSumSet, T!MapThenFoldSet
<1> DEFINE g == CHOOSE h : F(h)
<1>6. Sums(g, Results, Q) /\ Q \in SUBSET Q
  BY <1>3, <1>4
<1> HIDE DEF g
<1>7. g[Q] = SumOf(Results, Q)
  BY <1>1, <1>6, SumIs
<1> QED BY <1>5, <1>7 DEF g

\* Its sum over the rows of a day.
LEMMA TotalIs ==
  \A d : rowsOf[d] \in SUBSET SUBSET Recorders => T!Total(d) = SumOf(RowSums, rowsOf[d])
<1> SUFFICES ASSUME NEW d, rowsOf[d] \in SUBSET SUBSET Recorders
             PROVE  T!Total(d) = SumOf(RowSums, rowsOf[d])
  OBVIOUS
<1> DEFINE Q == rowsOf[d]
           InRow(w) == T!MapThenSumSet(LAMBDA r : gain[r].pnl, w)
           F(h) == h = [s \in SUBSET Q |-> IF s = {} THEN 0
                          ELSE LET x == CHOOSE x \in s : TRUE IN InRow(x) + h[s \ {x}]]
<1>1. IsFiniteSet(Q)
  BY SharesAssumption, FS_SUBSET, FS_Subset
<1>2. PICK k : Sums(k, RowSums, Q)
  BY <1>1, SumsExist
<1>3. \A h : F(h) <=> Sums(h, RowSums, Q)
  <2>1. \A s \in SUBSET Q : s # {} => First(s) \in SUBSET Recorders
    BY FirstIn
  <2>2. \A w \in SUBSET Recorders : InRow(w) = RowSums[w]
    BY ResultSums DEF RowSums
  <2> HIDE DEF InRow
  <2> TAKE h
  <2>3. [s \in SUBSET Q |-> IF s = {} THEN 0
           ELSE LET x == CHOOSE x \in s : TRUE IN InRow(x) + h[s \ {x}]]
        = [s \in SUBSET Q |-> IF s = {} THEN 0 ELSE RowSums[First(s)] + h[s \ {First(s)}]]
    BY <2>1, <2>2 DEF First
  <2> QED BY <2>3 DEF Sums, Adds
<1>4. F(CHOOSE h : F(h))
  <2>1. F(k)
    BY <1>2, <1>3
  <2> HIDE DEF F
  <2> QED BY <2>1, Zenon
<1>5. T!Total(d) = (CHOOSE h : F(h))[Q]
  BY DEF T!Total, T!MapThenSumSet, T!MapThenFoldSet
<1> DEFINE g == CHOOSE h : F(h)
<1>6. Sums(g, RowSums, Q) /\ Q \in SUBSET Q
  BY <1>3, <1>4
<1> HIDE DEF g
<1>7. g[Q] = SumOf(RowSums, Q)
  BY <1>1, <1>6, SumIs
<1> QED BY <1>5, <1>7 DEF g

TableTypes ==
  /\ rec \in [Recorders -> {"new", "insert", "update", "done"}]
  /\ gain \in [Recorders -> [pnl : Int, date : T!Days]]
  /\ rowsOf \in [T!Days -> SUBSET SUBSET Recorders]
  /\ peak \in [T!Days -> Int]

\* The rows of a day hold what was recorded for it, and add up to it; the day's peak is
\* no less.
TableInv ==
  /\ TableTypes
  /\ \A d \in T!Days :
       /\ \A w \in rowsOf[d] : w \subseteq Entered(d)
       /\ SumOf(RowSums, rowsOf[d]) = SumOf(Results, Entered(d))
       /\ 0 <= peak[d] /\ SumOf(RowSums, rowsOf[d]) <= peak[d]

\* Results and the sums of rows are integers, of finite sets.
LEMMA TableSums ==
  ASSUME TableTypes
  PROVE  /\ \A r \in Recorders : Results[r] \in Int /\ Results[r] = gain[r].pnl
         /\ \A Q \in SUBSET Recorders :
              IsFiniteSet(Q) /\ SumOf(Results, Q) \in Int /\ RowSums[Q] = SumOf(Results, Q)
         /\ \A W \in SUBSET SUBSET Recorders : IsFiniteSet(W) /\ SumOf(RowSums, W) \in Int
         /\ \A d \in T!Days : T!Total(d) = SumOf(RowSums, rowsOf[d])
<1>1. \A r \in Recorders : Results[r] \in Int /\ Results[r] = gain[r].pnl
  BY DEF Results, TableTypes
<1>2. ASSUME NEW Q \in SUBSET Recorders
      PROVE  IsFiniteSet(Q) /\ SumOf(Results, Q) \in Int /\ RowSums[Q] = SumOf(Results, Q)
  <2>1. IsFiniteSet(Q) /\ \A r \in Q : Results[r] \in Int
    BY <1>1, SharesAssumption, FS_Subset
  <2> QED BY <2>1, SumWithout DEF RowSums
<1>3. ASSUME NEW W \in SUBSET SUBSET Recorders PROVE IsFiniteSet(W) /\ SumOf(RowSums, W) \in Int
  <2>1. IsFiniteSet(W) /\ \A w \in W : RowSums[w] \in Int
    BY <1>2, SharesAssumption, FS_SUBSET, FS_Subset
  <2> QED BY <2>1, SumWithout
<1>4. \A d \in T!Days : T!Total(d) = SumOf(RowSums, rowsOf[d])
  BY TotalIs DEF TableTypes
<1> QED BY <1>1, <1>2, <1>3, <1>4

\* The initial states satisfy the invariant.
LEMMA TableInit == T!Init => TableInv
<1> SUFFICES ASSUME T!Init PROVE TableInv
  OBVIOUS
<1> USE DEF T!Init, T!Days
<1>1. TableTypes
  BY BooksAssumption DEF TableTypes
<1>2. \A d \in T!Days : rowsOf[d] = {} /\ Entered(d) = {} /\ peak[d] = 0
  BY DEF Entered
<1>3. SumOf(RowSums, {}) = 0 /\ SumOf(Results, {}) = 0
  BY SumOfNone
<1> HIDE DEF T!Init, T!Days
<1>4. ASSUME NEW d \in T!Days
      PROVE  /\ \A w \in rowsOf[d] : w \subseteq Entered(d)
             /\ SumOf(RowSums, rowsOf[d]) = SumOf(Results, Entered(d))
             /\ 0 <= peak[d] /\ SumOf(RowSums, rowsOf[d]) <= peak[d]
  <2>1. rowsOf[d] = {} /\ Entered(d) = {} /\ peak[d] = 0
    BY <1>2
  <2>2. SumOf(RowSums, rowsOf[d]) = 0 /\ SumOf(Results, Entered(d)) = 0
    BY <1>3, <2>1
  <2> QED BY <2>1, <2>2
<1> QED BY <1>1, <1>4 DEF TableInv

\* record() reads whether the day has rows: its result is not summed yet.
LEMMA LookKeeps ==
  ASSUME TableInv, NEW r \in Recorders, NEW g \in Gains, day \in T!Days, T!Look(r, g)
  PROVE  TableInv'
<1> USE DEF TableInv
<1>1. /\ rec[r] = "new" /\ rec'[r] # "done"
      /\ \A q \in Recorders : q # r => rec'[q] = rec[q] /\ gain'[q] = gain[q]
      /\ rowsOf' = rowsOf /\ peak' = peak
  BY DEF T!Look, TableTypes
<1>2. TableTypes'
  BY SharesAssumption DEF T!Look, TableTypes
<1>3. \A d : Entered(d)' = Entered(d) /\ r \notin Entered(d)
  BY <1>1 DEF Entered
<1>4. \A q \in Recorders : q # r => Results'[q] = Results[q]
  BY <1>1 DEF Results
<1>5. \A Q \in SUBSET Recorders : r \notin Q => SumOf(Results', Q) = SumOf(Results, Q)
  <2> TAKE Q \in SUBSET Recorders
  <2> SUFFICES ASSUME r \notin Q PROVE SumOf(Results', Q) = SumOf(Results, Q)
    OBVIOUS
  <2>1. IsFiniteSet(Q) /\ \A q \in Q : Results'[q] = Results[q]
    BY <1>4, TableSums
  <2> QED BY <2>1, SumOfSame
<1>6. \A Q \in SUBSET Recorders : r \notin Q => RowSums'[Q] = RowSums[Q]
  BY <1>5 DEF RowSums
<1>7. ASSUME NEW d \in T!Days
      PROVE  /\ SumOf(RowSums', rowsOf[d]) = SumOf(RowSums, rowsOf[d])
             /\ SumOf(Results', Entered(d)) = SumOf(Results, Entered(d))
  <2>1. rowsOf[d] \in SUBSET SUBSET Recorders /\ Entered(d) \in SUBSET Recorders
    BY DEF TableTypes, Entered
  <2>2. IsFiniteSet(rowsOf[d]) /\ \A w \in rowsOf[d] : RowSums'[w] = RowSums[w]
    BY <1>3, <1>6, <2>1, TableSums
  <2>3. SumOf(RowSums', rowsOf[d]) = SumOf(RowSums, rowsOf[d])
    BY <2>2, SumOfSame
  <2> QED BY <1>3, <1>5, <2>1, <2>3
<1> QED BY <1>1, <1>2, <1>3, <1>7

\* Writing a result adds it to the rows of its day as to what is recorded.
LEMMA WriteKeeps ==
  ASSUME TableInv, NEW r \in Recorders, T!Insert(r) \/ T!Update(r)
  PROVE  TableInv' /\ \A d \in T!Days : peak[d] <= peak'[d]
<1> USE DEF TableInv
<1>0. PICK e \in T!Days : e = gain[r].date
  BY DEF TableTypes
<1>1. /\ rec[r] \in {"insert", "update"} /\ rec' = [rec EXCEPT ![r] = "done"]
      /\ gain' = gain /\ gain[r].date = e
      /\ peak' = [peak EXCEPT ![e] = IF T!Total(e)' > @ THEN T!Total(e)' ELSE @]
  <2>1. /\ rec[r] \in {"insert", "update"} /\ rec' = [rec EXCEPT ![r] = "done"]
        /\ gain' = gain /\ T!Highest(gain[r].date)
    BY DEF T!Insert, T!Update
  <2>2. gain'[r].date = e
    BY <1>0, <2>1
  <2> QED BY <1>0, <2>1, <2>2 DEF T!Highest
<1>2. Results' = Results /\ RowSums' = RowSums
  BY <1>1 DEF Results, RowSums
<1>3. /\ \A d : d # e => Entered(d)' = Entered(d)
      /\ Entered(e)' = Entered(e) \cup {r} /\ r \notin Entered(e)
  BY <1>1 DEF Entered, TableTypes
<1>4. /\ rowsOf[e] \in SUBSET SUBSET Recorders /\ Entered(e) \in SUBSET Recorders
      /\ \A w \in rowsOf[e] : r \notin w
  BY <1>1, <1>3 DEF TableTypes, Entered
<1>5. Results[r] \in Int /\ SumOf(RowSums, rowsOf[e]) \in Int /\ SumOf(Results, Entered(e)) \in Int
  BY <1>4, TableSums
<1>6. /\ rowsOf' \in [T!Days -> SUBSET SUBSET Recorders]
      /\ \A d \in T!Days : d # e => rowsOf'[d] = rowsOf[d]
      /\ \A w \in rowsOf'[e] : w \subseteq Entered(e)'
      /\ SumOf(RowSums, rowsOf'[e]) = SumOf(RowSums, rowsOf[e]) + Results[r]
  <2>1. CASE T!Insert(r)
    <3>1. rowsOf' = [rowsOf EXCEPT ![e] = @ \cup {{r}}]
      BY <1>0, <2>1 DEF T!Insert
    <3>2. RowSums[{r}] = Results[r]
      <4>1. SumOf(Results, {} \cup {r}) = Results[r] + SumOf(Results, {})
        <5>1. IsFiniteSet({}) /\ r \notin {} /\ \A x \in {} \cup {r} : Results[x] \in Int
          BY FS_EmptySet, TableSums
        <5> QED BY <5>1, SumWith
      <4>2. {} \cup {r} = {r} /\ {r} \in SUBSET Recorders
        OBVIOUS
      <4> QED BY <1>5, <4>1, <4>2, SumOfNone DEF RowSums
    <3>3. SumOf(RowSums, rowsOf[e] \cup {{r}}) = RowSums[{r}] + SumOf(RowSums, rowsOf[e])
      <4>1. /\ IsFiniteSet(rowsOf[e]) /\ {r} \notin rowsOf[e]
            /\ \A w \in rowsOf[e] \cup {{r}} : RowSums[w] \in Int
        BY <1>4, TableSums
      <4> QED BY <4>1, SumWith
    <3> QED BY <1>1, <1>3, <1>4, <1>5, <3>1, <3>2, <3>3 DEF TableTypes
  <2>2. CASE T!Update(r)
    <3>1. PICK w \in rowsOf[e] : rowsOf' = [rowsOf EXCEPT ![e] = (@ \ {w}) \cup {w \cup {r}}]
      BY <1>0, <2>2 DEF T!Update, T!Updated
    <3>2. w \in SUBSET Recorders /\ r \notin w /\ w \cup {r} \in SUBSET Recorders
      BY <1>4
    <3>3. RowSums[w \cup {r}] = Results[r] + RowSums[w]
      <4>1. IsFiniteSet(w) /\ \A x \in w \cup {r} : Results[x] \in Int
        BY <3>2, TableSums
      <4>2. SumOf(Results, w \cup {r}) = Results[r] + SumOf(Results, w)
        BY <3>2, <4>1, SumWith
      <4> QED BY <3>2, <4>2 DEF RowSums
    <3> DEFINE W == rowsOf[e] \ {w}
    <3>4. W \in SUBSET SUBSET Recorders /\ w \cup {r} \notin W
      BY <1>4
    <3>5. IsFiniteSet(W) /\ \A x \in rowsOf[e] \cup {w \cup {r}} : RowSums[x] \in Int
      BY <1>4, <3>2, <3>4, TableSums
    <3>6. SumOf(RowSums, W \cup {w \cup {r}}) = RowSums[w \cup {r}] + SumOf(RowSums, W)
      BY <3>4, <3>5, SumWith
    <3>7. SumOf(RowSums, rowsOf[e]) = RowSums[w] + SumOf(RowSums, W)
      <4>1. IsFiniteSet(rowsOf[e])
        BY <1>4, TableSums
      <4> QED BY <3>5, <4>1, SumWithout
    <3>8. RowSums[w] \in Int /\ SumOf(RowSums, W) \in Int
      BY <3>2, <3>4, TableSums
    <3>9. SumOf(RowSums, W \cup {w \cup {r}}) = SumOf(RowSums, rowsOf[e]) + Results[r]
      BY <1>5, <3>3, <3>6, <3>7, <3>8
    <3> QED BY <1>1, <1>3, <1>4, <3>1, <3>2, <3>9 DEF TableTypes
  <2> QED BY <2>1, <2>2
<1>7. SumOf(Results, Entered(e)') = SumOf(Results, Entered(e)) + Results[r]
  <2>1. IsFiniteSet(Entered(e)) /\ \A x \in Entered(e) \cup {r} : Results[x] \in Int
    BY <1>4, TableSums
  <2>2. SumOf(Results, Entered(e) \cup {r}) = Results[r] + SumOf(Results, Entered(e))
    BY <1>3, <2>1, SumWith
  <2> QED BY <1>3, <1>5, <2>2
<1>8. /\ peak' \in [T!Days -> Int]
      /\ \A d \in T!Days : d # e => peak'[d] = peak[d]
      /\ peak[e] <= peak'[e] /\ SumOf(RowSums, rowsOf'[e]) <= peak'[e]
  <2>1. T!Total(e)' = SumOf(RowSums, rowsOf'[e]) /\ SumOf(RowSums, rowsOf'[e]) \in Int
    <3>1. rowsOf'[e] \in SUBSET SUBSET Recorders
      BY <1>1, <1>6
    <3>2. (\A d : rowsOf[d] \in SUBSET SUBSET Recorders
                   => T!Total(d) = SumOf(RowSums, rowsOf[d]))'
      BY TotalIs, PTL
    <3>3. T!Total(e)' = SumOf(RowSums', rowsOf'[e])
      BY <3>1, <3>2
    <3> QED BY <1>2, <3>1, <3>3, TableSums
  <2> QED BY <1>1, <2>1 DEF TableTypes
<1>9. TableTypes'
  BY <1>1, <1>6, <1>8 DEF TableTypes
<1>10. ASSUME NEW d \in T!Days
       PROVE  /\ \A w \in rowsOf'[d] : w \subseteq Entered(d)'
              /\ SumOf(RowSums, rowsOf'[d]) = SumOf(Results, Entered(d)')
              /\ 0 <= peak'[d] /\ SumOf(RowSums, rowsOf'[d]) <= peak'[d]
  <2>1. CASE d = e
    BY <1>1, <1>5, <1>6, <1>7, <1>8, <2>1 DEF TableTypes
  <2>2. CASE d # e
    BY <1>3, <1>6, <1>8, <2>2
  <2> QED BY <2>1, <2>2
<1>11. \A d \in T!Days : peak[d] <= peak'[d]
  BY <1>8 DEF TableTypes
<1> QED BY <1>2, <1>9, <1>10, <1>11

\* The other steps leave the table as it is.
LEMMA TableStep ==
  ASSUME SpacedInv, TableInv, [T!Next]_(T!vars)
  PROVE  TableInv' /\ \A d \in T!Days : peak[d] <= peak'[d]
<1>1. \A d \in T!Days : peak[d] <= peak[d]
  BY DEF TableInv, TableTypes
<1>2. ASSUME UNCHANGED T!table PROVE TableInv' /\ peak' = peak
  <2>1. UNCHANGED <<rec, gain, rowsOf, peak>>
    BY <1>2 DEF T!table
  <2>2. \A d : Entered(d)' = Entered(d)
    BY <2>1 DEF Entered
  <2>3. Results' = Results /\ RowSums' = RowSums
    BY <2>1 DEF Results, RowSums
  <2> QED BY <2>1, <2>2, <2>3 DEF TableInv, TableTypes
<1>3. ASSUME NEW r \in Recorders, NEW g \in Gains, T!Look(r, g)
      PROVE  TableInv' /\ peak' = peak
  BY <1>3, LookKeeps DEF SpacedInv, SpacedTypes, T!Look
<1>4. \A r \in Recorders :
        T!Insert(r) \/ T!Update(r) => TableInv' /\ \A d \in T!Days : peak[d] <= peak'[d]
  BY WriteKeeps
<1>5. \A t \in T!Tasks :
        T!Arm(t) \/ T!Start(t) \/ T!Woken(t) \/ T!Miss(t) \/ T!Summary(t) \/ T!Rested(t) \/ T!Ended(t)
          => UNCHANGED T!table
  BY DEF T!Arm, T!Start, T!Woken, T!Begins, T!Miss, T!Summary, T!Rested, T!Ended
<1>6. \A t \in T!Tasks :
        (T!Skip(t) \/ T!Send(t) \/ T!Completed(t)
           \/ (\E a \in {0, amount[t]} : T!Failed(t, a) \/ T!SendCancelled(t, a)))
          => UNCHANGED T!table
  BY DEF T!Skip, T!Send, T!Completed, T!Failed, T!SendCancelled
<1>7. \A s \in Strategies : T!TakeProfit(s) \/ T!Hold(s) => UNCHANGED T!table
  BY DEF T!TakeProfit, T!Hold
<1>8. T!AllocatorEnds \/ T!Sweep \/ T!NoSweep \/ T!Cool \/ T!Tick \/ T!Restart => UNCHANGED T!table
  BY DEF T!AllocatorEnds, T!Sweep, T!NoSweep, T!Cool, T!Tick, T!Restart
<1>9. UNCHANGED T!vars => UNCHANGED T!table
  BY DEF T!vars
<1> DEFINE Goal == TableInv' /\ \A d \in T!Days : peak[d] <= peak'[d]
<1>10. UNCHANGED T!table \/ (peak' = peak /\ TableInv') => Goal
  BY <1>1, <1>2
<1>11. ASSUME NEW r \in Recorders, (\E g \in Gains : T!Look(r, g)) \/ T!Insert(r) \/ T!Update(r)
       PROVE  Goal
  <2>1. CASE T!Insert(r) \/ T!Update(r)
    BY <1>4, <2>1
  <2>2. ASSUME NEW g \in Gains, T!Look(r, g) PROVE Goal
    BY <1>3, <1>10, <2>2
  <2> HIDE DEF Goal
  <2> QED BY <1>11, <2>1, <2>2
<1> HIDE DEF Goal
<1>12. ASSUME NEW t \in T!Tasks,
              \/ T!Arm(t) \/ T!Start(t) \/ T!Woken(t) \/ T!Miss(t) \/ T!Summary(t) \/ T!Rested(t)
              \/ T!Ended(t) \/ T!Skip(t) \/ T!Send(t) \/ T!Completed(t)
              \/ \E a \in {0, amount[t]} : T!Failed(t, a) \/ T!SendCancelled(t, a)
       PROVE  Goal
  BY <1>5, <1>6, <1>10, <1>12
<1>13. ASSUME NEW s \in Strategies, T!TakeProfit(s) \/ T!Hold(s) PROVE Goal
  BY <1>7, <1>10, <1>13
<1>14. Goal
  BY <1>8, <1>9, <1>10, <1>11, <1>12, <1>13 DEF T!Next
<1> QED BY <1>14 DEF Goal

\* What the day's rows add up to is what was recorded.
LEMMA TableAddsUp == TableInv => T!NothingLost
<1> SUFFICES ASSUME TableInv, NEW d \in T!Days
    PROVE T!Total(d) = T!MapThenSumSet(LAMBDA r : gain[r].pnl,
                         {r \in Recorders : rec[r] = "done" /\ gain[r].date = d})
  BY DEF T!NothingLost
<1>1. T!Total(d) = SumOf(RowSums, rowsOf[d]) /\ SumOf(RowSums, rowsOf[d]) = SumOf(Results, Entered(d))
  BY TableSums DEF TableInv
<1>2. Entered(d) \in SUBSET Recorders
  BY DEF Entered
<1>3. T!MapThenSumSet(LAMBDA r : gain[r].pnl, Entered(d)) = SumOf(Results, Entered(d))
  BY <1>2, ResultSums
<1> QED BY <1>1, <1>3 DEF Entered

\* A cycle of a task is under way, and whether it carries an amount.
AtWork(t)  == pc[t] \in {"read", "cycle", "moving", "sent"}
Carries(t) == pc[t] \in {"moving", "sent"}

\* The transfers that a cycle of the allocator under way may still make for the day, those
\* of all its cycles on the day, and those it has behind it.
Left(d) ==
  IF ~AtWork(T!Allocator) \/ cycleDay[T!Allocator] # d THEN 0
  ELSE IF pc[T!Allocator] = "read" THEN Cardinality(Strategies)
  ELSE IF Carries(T!Allocator) THEN Cardinality(todo) + 1
  ELSE Cardinality(todo)

Capacity(d) == Cardinality(Strategies) * cycles[T!Allocator][d]
Made(d)     == Capacity(d) - Left(d)

\* The cycles of the manager on the day that are over.
Swept(d) ==
  cycles[T!Manager][d] - (IF AtWork(T!Manager) /\ cycleDay[T!Manager] = d THEN 1 ELSE 0)

\* What a cycle works with is no more than its day's peak, nor is a share of it.
WorkInv ==
  /\ cycles \in [T!Tasks -> [T!Days -> Nat]]
  /\ seen \in [T!Tasks -> Int] /\ amount \in [T!Tasks -> Nat]
  /\ cycleDay \in [T!Tasks -> T!Days] /\ todo \subseteq Strategies
  /\ moved \in [T!Days -> Nat]
  /\ \A t \in T!Tasks :
       /\ AtWork(t) => cycles[t][cycleDay[t]] > 0
       /\ pc[t] \in {"cycle", "moving", "sent"} => seen[t] <= peak[cycleDay[t]]
  /\ Carries(T!Allocator) =>
       /\ todo # Strategies
       /\ 100 * amount[T!Allocator] <= SharePct * peak[cycleDay[T!Allocator]]
  /\ Carries(T!Manager) => 100 * amount[T!Manager] <= 50 * peak[cycleDay[T!Manager]]

\* A day's moves are no more than a share of its peak for each transfer made, and half
\* of it for each sweep.
ShareInv ==
  \A d \in T!Days :
    100 * moved[d] <= Made(d) * (SharePct * peak[d]) + Swept(d) * (50 * peak[d])

TreasuryInv == SpacedInv /\ TableInv /\ WorkInv /\ ShareInv

\* Products grow with their factors.
LEMMA ProductsGrow ==
  /\ \A a, b \in Nat : a * b \in Nat /\ (a + 1) * b = a * b + b
  /\ \A a, b, c \in Nat : a <= b => a * c <= b * c /\ c * a <= c * b
<1>1. ASSUME NEW a \in Nat, NEW b \in Nat PROVE a * b \in Nat /\ (a + 1) * b = a * b + b
  OBVIOUS
<1>2. ASSUME NEW a \in Nat, NEW b \in Nat, NEW c \in Nat, a <= b
      PROVE  a * c <= b * c /\ c * a <= c * b
  <2>1. PICK k \in Nat : b = a + k
    <3>1. b - a \in Nat /\ b = a + (b - a)
      BY <1>2
    <3> QED BY <3>1
  <2>2. b * c = a * c + k * c /\ c * b = c * a + c * k
    BY <2>1
  <2>3. k * c \in Nat /\ c * k \in Nat /\ a * c \in Nat /\ c * a \in Nat
    BY <1>1
  <2> QED BY <2>2, <2>3
<1> QED BY <1>1, <1>2

\* With a share moved for one more transfer or sweep the bound holds as before.
LEMMA ShareAdds ==
  ASSUME NEW a \in Nat, NEW b \in Nat, a <= b, NEW h \in Nat, NEW r \in Nat, h <= r,
         NEW x \in Nat, x = 0 \/ (a + 1 <= b /\ 100 * x <= h)
  PROVE  a * h + 100 * x <= b * r /\ a * h \in Nat /\ b * r \in Nat
<1>1. a * h \in Nat /\ b * r \in Nat /\ b * h \in Nat /\ b * h <= b * r /\ a * h <= b * h
  BY ProductsGrow
<1>2. CASE x = 0
  BY <1>1, <1>2
<1>3. CASE a + 1 <= b /\ 100 * x <= h
  <2>1. (a + 1) * h <= b * h /\ (a + 1) * h = a * h + h
    BY <1>3, ProductsGrow
  <2> QED BY <1>1, <1>3, <2>1
<1> QED BY <1>2, <1>3

\* The strategies can be counted, and those still to look at.
LEMMA Counts ==
  /\ Cardinality(Strategies) \in Nat
  /\ \A S \in SUBSET Strategies :
       /\ Cardinality(S) \in Nat /\ Cardinality(S) <= Cardinality(Strategies)
       /\ S # Strategies => Cardinality(S) < Cardinality(Strategies)
       /\ \A s \in S : Cardinality(S \ {s}) = Cardinality(S) - 1
       /\ S = {} => Cardinality(S) = 0
  BY SharesAssumption, FS_Subset, FS_CardinalityType, FS_RemoveElement, FS_EmptySet

\* What a day's cycles may make, have made and may still make.
MadeCounts ==
  \A d \in T!Days :
    /\ Capacity(d) \in Nat /\ Left(d) \in Nat /\ Made(d) \in Nat /\ Made(d) = Capacity(d) - Left(d)
    /\ Swept(d) \in Nat /\ Swept(d) <= cycles[T!Manager][d]
    /\ AtWork(T!Manager) /\ cycleDay[T!Manager] = d => Swept(d) = cycles[T!Manager][d] - 1
    /\ ~(AtWork(T!Manager) /\ cycleDay[T!Manager] = d) => Swept(d) = cycles[T!Manager][d]

\* A cycle of the allocator makes a transfer for each strategy, one of the manager a sweep.
LEMMA MadeTypes == WorkInv => MadeCounts
<1> SUFFICES ASSUME WorkInv, NEW d \in T!Days
    PROVE  /\ Capacity(d) \in Nat /\ Left(d) \in Nat /\ Made(d) \in Nat /\ Made(d) = Capacity(d) - Left(d)
           /\ Swept(d) \in Nat /\ Swept(d) <= cycles[T!Manager][d]
           /\ AtWork(T!Manager) /\ cycleDay[T!Manager] = d => Swept(d) = cycles[T!Manager][d] - 1
           /\ ~(AtWork(T!Manager) /\ cycleDay[T!Manager] = d) => Swept(d) = cycles[T!Manager][d]
  BY DEF MadeCounts
<1> DEFINE n == Cardinality(Strategies)
           c == cycles[T!Allocator][d]
<1>1. /\ c \in Nat /\ cycles[T!Manager][d] \in Nat /\ todo \in SUBSET Strategies
      /\ AtWork(T!Allocator) /\ cycleDay[T!Allocator] = d => c > 0
      /\ AtWork(T!Manager) /\ cycleDay[T!Manager] = d => cycles[T!Manager][d] > 0
      /\ Carries(T!Allocator) => todo # Strategies
  BY DEF WorkInv, T!Tasks
<1>2. /\ n \in Nat /\ Cardinality(todo) \in Nat /\ Cardinality(todo) <= n
      /\ Carries(T!Allocator) => Cardinality(todo) + 1 <= n
  BY <1>1, Counts
<1>3. Left(d) \in Nat /\ Left(d) <= n /\ (c = 0 => Left(d) = 0)
  BY <1>1, <1>2 DEF Left
<1>4. Capacity(d) \in Nat /\ (c # 0 => n <= Capacity(d))
  <2> HIDE DEF n, c
  <2>1. n * c \in Nat /\ (c # 0 => n * 1 <= n * c) /\ n * 1 = n
    BY <1>1, <1>2, ProductsGrow
  <2> QED BY <2>1 DEF Capacity, n, c
<1>5. Made(d) \in Nat /\ Made(d) = Capacity(d) - Left(d)
  <2> HIDE DEF n, c
  <2> QED BY <1>2, <1>3, <1>4 DEF Made
<1>6. /\ Swept(d) \in Nat /\ Swept(d) <= cycles[T!Manager][d]
      /\ AtWork(T!Manager) /\ cycleDay[T!Manager] = d => Swept(d) = cycles[T!Manager][d] - 1
      /\ ~(AtWork(T!Manager) /\ cycleDay[T!Manager] = d) => Swept(d) = cycles[T!Manager][d]
  BY <1>1 DEF Swept
<1> QED BY <1>3, <1>4, <1>5, <1>6

\* The bound of a day when x was moved by the allocator, and y by the manager.
LEMMA SharesKept ==
  ASSUME TreasuryInv, TableInv', WorkInv', NEW d \in T!Days, peak[d] <= peak'[d],
         NEW x \in Nat, NEW y \in Nat, moved'[d] = moved[d] + x + y,
         Made(d) <= Made(d)', Swept(d) <= Swept(d)',
         x = 0 \/ (Made(d) + 1 <= Made(d)' /\ 100 * x <= SharePct * peak[d]),
         y = 0 \/ (Swept(d) + 1 <= Swept(d)' /\ 100 * y <= 50 * peak[d])
  PROVE  100 * moved'[d] <= Made(d)' * (SharePct * peak'[d]) + Swept(d)' * (50 * peak'[d])
<1>1. Made(d) \in Nat /\ Swept(d) \in Nat
  BY MadeTypes DEF TreasuryInv, MadeCounts
<1>2. Made(d)' \in Nat /\ Swept(d)' \in Nat
  <2>1. (WorkInv => MadeCounts)'
    BY MadeTypes, PTL
  <2> QED BY <2>1 DEF MadeCounts, T!Days
<1>3. peak[d] \in Nat /\ peak'[d] \in Nat /\ moved[d] \in Nat
  BY DEF TreasuryInv, TableInv, TableTypes, WorkInv
<1>4. 100 * moved[d] <= Made(d) * (SharePct * peak[d]) + Swept(d) * (50 * peak[d])
  BY DEF TreasuryInv, ShareInv
<1> DEFINE u == SharePct * peak[d]
           v == 50 * peak[d]
           w == SharePct * peak'[d]
           z == 50 * peak'[d]
<1>5. u \in Nat /\ v \in Nat /\ w \in Nat /\ z \in Nat /\ u <= w /\ v <= z
  BY <1>3, SharesAssumption, ProductsGrow
<1>6. /\ x = 0 \/ (Made(d) + 1 <= Made(d)' /\ 100 * x <= u)
      /\ y = 0 \/ (Swept(d) + 1 <= Swept(d)' /\ 100 * y <= v)
      /\ 100 * moved[d] <= Made(d) * u + Swept(d) * v
  BY <1>4
<1> HIDE DEF u, v, w, z
<1>7. Made(d) * u + 100 * x <= Made(d)' * w /\ Made(d) * u \in Nat /\ Made(d)' * w \in Nat
  BY <1>1, <1>2, <1>5, <1>6, ShareAdds
<1>8. Swept(d) * v + 100 * y <= Swept(d)' * z /\ Swept(d) * v \in Nat /\ Swept(d)' * z \in Nat
  BY <1>1, <1>2, <1>5, <1>6, ShareAdds
<1>9. 100 * moved'[d] <= Made(d)' * w + Swept(d)' * z
  BY <1>3, <1>6, <1>7, <1>8
<1> QED BY <1>9 DEF w, z

\* Steps that move nothing.
LEMMA NothingMoved ==
  ASSUME TreasuryInv, TableInv', WorkInv', moved' = moved,
         \A d \in T!Days : peak[d] <= peak'[d] /\ Made(d) <= Made(d)' /\ Swept(d) <= Swept(d)'
  PROVE  ShareInv'
<1>1. ASSUME NEW d \in T!Days
      PROVE  100 * moved'[d] <= Made(d)' * (SharePct * peak'[d]) + Swept(d)' * (50 * peak'[d])
  <2>1. moved'[d] = moved[d] + 0 + 0
    BY DEF TreasuryInv, WorkInv
  <2> QED BY <2>1, SharesKept
<1> QED BY <1>1 DEF ShareInv, T!Days

\* Peaks grow: what a cycle works with stays below them.
LEMMA PeaksGrow ==
  ASSUME TreasuryInv, TableInv', \A d \in T!Days : peak[d] <= peak'[d],
         UNCHANGED <<T!loops, moved>>
  PROVE  WorkInv' /\ ShareInv'
<1> USE DEF TreasuryInv
<1>1. UNCHANGED <<pc, seen, todo, cycleDay, amount, cycles, moved>>
  BY DEF T!loops
<1>2. \A d \in T!Days : /\ peak[d] \in Nat /\ peak'[d] \in Nat
                        /\ SharePct * peak[d] <= SharePct * peak'[d]
                        /\ SharePct * peak[d] \in Nat /\ SharePct * peak'[d] \in Nat
  BY ProductsGrow, SharesAssumption DEF TableInv, TableTypes, T!Days
<1>3. WorkInv'
  <2>1. \A t \in T!Tasks : seen[t] \in Int /\ amount[t] \in Nat /\ cycleDay[t] \in T!Days
    BY DEF WorkInv
  <2>2. \A t \in T!Tasks :
          pc[t] \in {"cycle", "moving", "sent"} => seen[t] <= peak'[cycleDay[t]]
    BY <1>2, <2>1 DEF WorkInv
  <2>3. Carries(T!Allocator) =>
          100 * amount[T!Allocator] <= SharePct * peak'[cycleDay[T!Allocator]]
    BY <1>2, <2>1 DEF WorkInv, T!Tasks
  <2>4. Carries(T!Manager) => 100 * amount[T!Manager] <= 50 * peak'[cycleDay[T!Manager]]
    BY <1>2, <2>1 DEF WorkInv, T!Tasks
  <2>5. \A t : (AtWork(t)' <=> AtWork(t)) /\ (Carries(t)' <=> Carries(t))
    BY <1>1 DEF AtWork, Carries
  <2>6. T!Allocator' = T!Allocator /\ T!Manager' = T!Manager /\ T!Tasks' = T!Tasks /\ T!Days' = T!Days
    BY DEF T!Allocator, T!Manager, T!Tasks, T!Days
  <2>7. Carries(T!Allocator)' => Carries(T!Allocator)
    BY <1>1 DEF Carries, T!Allocator
  <2>8. Carries(T!Manager)' => Carries(T!Manager)
    BY <1>1 DEF Carries, T!Manager
  <2> QED BY <1>1, <2>2, <2>3, <2>4, <2>5, <2>6, <2>7, <2>8 DEF WorkInv
<1>4. \A d \in T!Days : /\ Made(d)' = Made(d) /\ Swept(d)' = Swept(d)
                        /\ Made(d) <= Made(d) /\ Swept(d) <= Swept(d)
  <2>1. \A d \in T!Days : Made(d)' = Made(d) /\ Swept(d)' = Swept(d)
    BY <1>1 DEF Made, Capacity, Left, Swept, AtWork, Carries
  <2>2. \A d \in T!Days : Made(d) \in Nat /\ Swept(d) \in Nat
    BY MadeTypes DEF MadeCounts
  <2> QED BY <2>1, <2>2
<1> HIDE DEF TreasuryInv
<1> QED BY <1>1, <1>3, <1>4, NothingMoved

\* The two tasks differ.
LEMMA TwoTasks ==
  /\ T!Allocator \in T!Tasks /\ T!Manager \in T!Tasks /\ T!Allocator # T!Manager
  /\ \A t \in T!Tasks : t = T!Allocator \/ t = T!Manager
  BY DEF T!Tasks, T!Allocator, T!Manager

\* The variables of the loops have their types.
LEMMA LoopTypes ==
  ASSUME TreasuryInv
  PROVE  /\ pc \in [T!Tasks -> Stations] /\ seen \in [T!Tasks -> Int]
         /\ amount \in [T!Tasks -> Nat] /\ cycleDay \in [T!Tasks -> T!Days]
         /\ cycles \in [T!Tasks -> [T!Days -> Nat]] /\ day \in T!Days
         /\ todo \in SUBSET Strategies /\ moved \in [T!Days -> Nat]
         /\ \A d \in T!Days : peak[d] \in Nat
  BY DEF TreasuryInv, SpacedInv, SpacedTypes, WorkInv, TableInv, TableTypes

\* Steps that change neither the table nor what is moved.
LEMMA SameTable ==
  ASSUME TreasuryInv, TableInv', WorkInv', peak' = peak, moved' = moved,
         \A d \in T!Days : Made(d) <= Made(d)' /\ Swept(d) <= Swept(d)'
  PROVE  ShareInv'
<1>1. \A d \in T!Days : peak[d] <= peak'[d]
  BY LoopTypes
<1> QED BY <1>1, NothingMoved

\* Steps that make and sweep nothing at all.
LEMMA SameCounts ==
  ASSUME TreasuryInv, TableInv', WorkInv', peak' = peak, moved' = moved,
         \A d \in T!Days : Made(d)' = Made(d) /\ Swept(d)' = Swept(d)
  PROVE  ShareInv'
<1>1. \A d \in T!Days : Made(d) <= Made(d) /\ Swept(d) <= Swept(d)
  <2>1. \A d \in T!Days : Made(d) \in Nat /\ Swept(d) \in Nat
    BY MadeTypes DEF TreasuryInv, MadeCounts
  <2> QED BY <2>1
<1> QED BY <1>1, SameTable

\* Steps that begin no cycle and leave the allocator and the manager no more to do.
LEMMA LessToDo ==
  ASSUME TreasuryInv, TableInv', WorkInv', peak' = peak, moved' = moved, cycles' = cycles,
         \A d \in T!Days : Left(d)' <= Left(d) /\ Swept(d) <= Swept(d)'
  PROVE  ShareInv'
<1>1. ASSUME NEW d \in T!Days PROVE Made(d) <= Made(d)' /\ Swept(d) <= Swept(d)'
  <2>1. /\ Capacity(d) \in Nat /\ Left(d) \in Nat /\ Made(d) = Capacity(d) - Left(d)
    BY MadeTypes DEF TreasuryInv, MadeCounts
  <2>2. /\ Left(d)' \in Nat /\ Made(d)' = Capacity(d)' - Left(d)'
    <3>1. (WorkInv => MadeCounts)'
      BY MadeTypes, PTL
    <3> QED BY <3>1 DEF MadeCounts, T!Days
  <2>3. Capacity(d)' = Capacity(d) /\ Left(d)' <= Left(d) /\ Swept(d) <= Swept(d)'
    BY DEF Capacity
  <2> QED BY ONLY <2>1, <2>2, <2>3
<1> QED BY <1>1, SameTable

\* Waiting, arming and resting: no cycle is under way before or after.
LEMMA WaitingKeeps ==
  ASSUME TreasuryInv, TableInv', peak' = peak, NEW t \in T!Tasks,
         T!Arm(t) \/ T!Miss(t) \/ T!Rested(t)
  PROVE  WorkInv' /\ ShareInv'
<1>1. UNCHANGED <<seen, todo, cycleDay, amount, cycles, moved>>
  BY DEF T!Arm, T!Miss, T!Rested, T!account
<1>2. /\ pc[t] \in {"wait", "armed", "rest"} /\ pc'[t] \in {"wait", "armed", "rest"}
      /\ \A u \in T!Tasks : u # t => pc'[u] = pc[u]
  BY LoopTypes DEF T!Arm, T!Miss, T!Rested, T!At
<1>3. \A u \in T!Tasks :
        /\ AtWork(u)' = AtWork(u) /\ Carries(u)' = Carries(u)
        /\ pc'[u] \in {"cycle", "moving", "sent"} <=> pc[u] \in {"cycle", "moving", "sent"}
        /\ pc'[u] = "read" <=> pc[u] = "read"
  BY <1>2 DEF AtWork, Carries
<1>4. WorkInv'
  BY <1>1, <1>3, TwoTasks DEF TreasuryInv, WorkInv
<1>5. \A d \in T!Days : Made(d)' = Made(d) /\ Swept(d)' = Swept(d)
  BY <1>1, <1>3, TwoTasks DEF Made, Capacity, Left, Swept
<1> QED BY <1>1, <1>4, <1>5, SameCounts DEF TreasuryInv

\* The loop of a task ends: no cycle of it is under way any more.
LEMMA EndedKeeps ==
  ASSUME TreasuryInv, TableInv', peak' = peak, NEW t \in T!Tasks, T!Ended(t)
  PROVE  WorkInv' /\ ShareInv'
<1>1. /\ UNCHANGED <<cycleDay, amount, cycles, moved>>
      /\ todo' \subseteq Strategies /\ (t # T!Allocator => todo' = todo)
  BY LoopTypes DEF T!Ended, T!account
<1>2. /\ pc' = [pc EXCEPT ![t] = "ended"] /\ ~Carries(t)
      /\ seen' = [seen EXCEPT ![t] = 0]
  BY DEF T!Ended, T!At, Carries
<1>3. /\ pc'[t] = "ended" /\ seen' \in [T!Tasks -> Int]
      /\ \A u \in T!Tasks : u # t => pc'[u] = pc[u] /\ seen'[u] = seen[u]
  BY <1>2, LoopTypes
<1>4. /\ ~AtWork(t)' /\ ~Carries(t)'
      /\ \A u \in T!Tasks : u # t => AtWork(u)' = AtWork(u) /\ Carries(u)' = Carries(u)
  BY <1>3 DEF AtWork, Carries
<1>5. WorkInv'
  BY <1>1, <1>3, <1>4, TwoTasks DEF TreasuryInv, WorkInv
<1>6. ASSUME NEW d \in T!Days PROVE Left(d)' <= Left(d) /\ Swept(d) <= Swept(d)'
  <2>1. Left(d) \in Nat /\ Swept(d) \in Nat /\ cycles[T!Manager][d] \in Nat
    BY MadeTypes, LoopTypes, TwoTasks DEF TreasuryInv, MadeCounts
  <2>2. CASE t = T!Allocator
    <3>1. Left(d)' = 0
      BY <1>4, <2>2 DEF Left
    <3>2. Swept(d)' = Swept(d)
      BY <1>1, <1>4, <2>2, TwoTasks DEF Swept
    <3> QED BY <2>1, <3>1, <3>2
  <2>3. CASE t = T!Manager
    <3>1. Left(d)' = Left(d)
      BY <1>1, <1>3, <1>4, <2>3, TwoTasks DEF Left
    <3>2. Swept(d)' = cycles[T!Manager][d] /\ Swept(d) <= cycles[T!Manager][d]
      BY <1>1, <1>4, <2>1, <2>3 DEF Swept
    <3> QED BY <2>1, <3>1, <3>2
  <2> QED BY <2>2, <2>3, TwoTasks
<1> QED BY <1>1, <1>5, <1>6, LessToDo

\* A cycle begins, at its minute or as a cancellation is swallowed: all of it is to do.
LEMMA StartKeeps ==
  ASSUME TreasuryInv, TableInv', peak' = peak, NEW t \in T!Tasks, T!Start(t) \/ T!Woken(t)
  PROVE  WorkInv' /\ ShareInv'
<1>1. /\ UNCHANGED <<seen, todo, amount, moved>>
      /\ cycleDay' = [cycleDay EXCEPT ![t] = day]
      /\ cycles' = [cycles EXCEPT ![t][day] = @ + 1]
  BY DEF T!Start, T!Woken, T!Begins, T!account
<1>2. /\ pc[t] \in {"wait", "armed"} /\ pc'[t] = "read"
      /\ \A u \in T!Tasks : u # t => pc'[u] = pc[u]
  BY LoopTypes DEF T!Start, T!Woken, T!At
<1>4. /\ cycles'[t][day] = cycles[t][day] + 1 /\ cycleDay'[t] = day /\ day \in T!Days
      /\ cycles[t][day] \in Nat
      /\ cycleDay' \in [T!Tasks -> T!Days] /\ cycles' \in [T!Tasks -> [T!Days -> Nat]]
      /\ \A u \in T!Tasks : u # t => cycleDay'[u] = cycleDay[u] /\ cycles'[u] = cycles[u]
      /\ \A d \in T!Days : d # day => cycles'[t][d] = cycles[t][d]
  BY <1>1, LoopTypes
<1>5. ~AtWork(t) /\ AtWork(t)' /\ ~Carries(t)'
  BY <1>2 DEF AtWork, Carries
<1>6. \A u \in T!Tasks : u # t => AtWork(u)' = AtWork(u) /\ Carries(u)' = Carries(u)
  BY <1>2 DEF AtWork, Carries
<1>7. WorkInv'
  <2>1. \A u \in T!Tasks : AtWork(u)' => cycles'[u][cycleDay'[u]] > 0
    BY <1>4, <1>6 DEF TreasuryInv, WorkInv
  <2>2. \A u \in T!Tasks : pc'[u] \in {"cycle", "moving", "sent"}
          => u # t /\ seen[u] <= peak[cycleDay'[u]]
    BY <1>2, <1>4 DEF TreasuryInv, WorkInv
  <2>3. \A u \in T!Tasks : Carries(u)' => u # t /\ Carries(u) /\ cycleDay'[u] = cycleDay[u]
    BY <1>4, <1>5, <1>6
  <2> QED BY <1>1, <1>4, <2>1, <2>2, <2>3, TwoTasks DEF TreasuryInv, WorkInv
<1>8. ASSUME NEW d \in T!Days PROVE Made(d)' = Made(d) /\ Swept(d)' = Swept(d)
  <2>1. /\ cycles[T!Allocator][d] \in Nat /\ cycles[T!Manager][d] \in Nat
        /\ Cardinality(Strategies) \in Nat
    BY LoopTypes, TwoTasks, Counts
  <2>2. CASE t = T!Allocator
    <3>1. Swept(d)' = Swept(d)
      BY <1>4, <1>6, <2>2, TwoTasks DEF Swept
    <3>2. Left(d) = 0
      BY <1>5, <2>2 DEF Left
    <3>3. Left(d)' = IF d = day THEN Cardinality(Strategies) ELSE 0
      BY <1>2, <1>4, <1>5, <2>2 DEF Left
    <3>4. Capacity(d)' = IF d = day THEN Capacity(d) + Cardinality(Strategies) ELSE Capacity(d)
      <4>1. CASE d # day
        BY <1>4, <2>2, <4>1 DEF Capacity
      <4>2. CASE d = day
        <5>1. \A n, c \in Nat : n * (c + 1) = n * c + n
          OBVIOUS
        <5>2. cycles'[T!Allocator][d] = cycles[T!Allocator][d] + 1
          BY <1>4, <2>2, <4>2
        <5> QED BY <2>1, <4>2, <5>1, <5>2 DEF Capacity
      <4> QED BY <4>1, <4>2
    <3>5. Capacity(d) \in Nat
      BY MadeTypes DEF TreasuryInv, MadeCounts
    <3>6. Made(d)' = Capacity(d)' - Left(d)' /\ Made(d) = Capacity(d) - Left(d)
      BY DEF Made
    <3>7. Made(d)' = Made(d)
      BY ONLY <2>1, <3>2, <3>3, <3>4, <3>5, <3>6
    <3> QED BY <3>1, <3>7
  <2>3. CASE t = T!Manager
    <3>1. Made(d)' = Made(d)
      BY <1>1, <1>2, <1>4, <1>6, <2>3, TwoTasks DEF Made, Capacity, Left
    <3>2. Swept(d) = cycles[T!Manager][d]
      BY <1>5, <2>1, <2>3 DEF Swept
    <3>3. Swept(d)' = cycles[T!Manager][d]
      BY <1>4, <1>5, <2>1, <2>3 DEF Swept
    <3> QED BY <3>1, <3>2, <3>3
  <2> QED BY <2>2, <2>3, TwoTasks
<1> QED BY <1>1, <1>7, <1>8, SameCounts

\* A cycle reads what the day's rows add up to, or nothing: the day's peak at most.
LEMMA SummaryKeeps ==
  ASSUME TreasuryInv, TableInv', peak' = peak, NEW t \in T!Tasks, T!Summary(t)
  PROVE  WorkInv' /\ ShareInv'
<1>1. UNCHANGED <<cycleDay, cycles, amount, moved>>
  BY DEF T!Summary, T!account
<1>2. /\ pc[t] = "read" /\ pc'[t] = "cycle"
      /\ \A u \in T!Tasks : u # t => pc'[u] = pc[u]
  BY LoopTypes DEF T!Summary, T!At
<1>3. cycleDay[t] \in T!Days
  BY LoopTypes
<1>4. T!Total(cycleDay[t]) \in Int /\ T!Total(cycleDay[t]) <= peak[cycleDay[t]]
  <2>1. /\ T!Total(cycleDay[t]) = SumOf(RowSums, rowsOf[cycleDay[t]])
        /\ SumOf(RowSums, rowsOf[cycleDay[t]]) \in Int
    BY <1>3, TableSums DEF TreasuryInv, TableInv, TableTypes
  <2> QED BY <1>3, <2>1 DEF TreasuryInv, TableInv
<1>5. PICK p \in {T!Total(cycleDay[t]), 0} : seen' = [seen EXCEPT ![t] = p]
  BY DEF T!Summary
<1>6. /\ seen' \in [T!Tasks -> Int] /\ seen'[t] <= peak[cycleDay[t]]
      /\ \A u \in T!Tasks : u # t => seen'[u] = seen[u]
  BY <1>3, <1>4, <1>5, LoopTypes
<1>7. AtWork(t) /\ AtWork(t)' /\ ~Carries(t)' /\ ~Carries(t)
  BY <1>2 DEF AtWork, Carries
<1>8. \A u \in T!Tasks : u # t => AtWork(u)' = AtWork(u) /\ Carries(u)' = Carries(u)
  BY <1>2 DEF AtWork, Carries
<1>9. todo' = IF t = T!Allocator THEN Strategies ELSE todo
  BY DEF T!Summary
<1>10. WorkInv'
  BY <1>1, <1>2, <1>6, <1>7, <1>8, <1>9, TwoTasks DEF TreasuryInv, WorkInv
<1>11. ASSUME NEW d \in T!Days PROVE Made(d)' = Made(d) /\ Swept(d)' = Swept(d)
  <2>1. Swept(d)' = Swept(d)
    BY <1>1, <1>7, <1>8, TwoTasks DEF Swept
  <2>2. Left(d)' = Left(d) /\ Capacity(d)' = Capacity(d)
    BY <1>1, <1>2, <1>7, <1>8, <1>9, TwoTasks, Counts DEF Left, Capacity
  <2> QED BY <2>1, <2>2 DEF Made
<1> QED BY <1>1, <1>10, <1>11, SameCounts

\* A strategy takes its share of what the cycle read, or is passed over.
LEMMA TakeKeeps ==
  ASSUME TreasuryInv, TableInv', peak' = peak, NEW s \in Strategies,
         T!TakeProfit(s) \/ T!Hold(s)
  PROVE  WorkInv' /\ ShareInv'
<1> DEFINE al == T!Allocator
           p == seen[al]
<1>1. UNCHANGED <<cycleDay, cycles, seen, moved>> /\ s \in todo /\ todo' = todo \ {s}
  BY DEF T!TakeProfit, T!Hold, T!account
<1>2. /\ pc[al] = "cycle" /\ pc'[al] \in {"cycle", "moving"}
      /\ \A u \in T!Tasks : u # al => pc'[u] = pc[u]
  BY LoopTypes, TwoTasks DEF T!TakeProfit, T!Hold, T!At
<1>3. cycleDay[al] \in T!Days /\ p \in Int /\ p <= peak[cycleDay[al]]
  BY <1>2, TwoTasks DEF TreasuryInv, WorkInv
<1>4. /\ amount' \in [T!Tasks -> Nat]
      /\ \A u \in T!Tasks : u # al => amount'[u] = amount[u]
      /\ pc'[al] = "moving" => 100 * amount'[al] <= SharePct * peak[cycleDay[al]]
  <2>1. CASE T!Hold(s)
    BY <2>1, <1>2, LoopTypes DEF T!Hold
  <2>2. CASE T!TakeProfit(s)
    <3>1. p > 0 /\ amount' = [amount EXCEPT ![al] = T!Excess(p)]
      BY <2>2 DEF T!TakeProfit, T!Takes
    <3>2. /\ p \in Nat /\ SharePct \in Nat /\ p * SharePct \in Nat
          /\ p * SharePct <= SharePct * peak[cycleDay[al]]
          /\ SharePct * peak[cycleDay[al]] \in Nat
      <4>1. p \in Nat /\ peak[cycleDay[al]] \in Nat /\ SharePct \in Nat
        BY <1>3, <3>1, LoopTypes, SharesAssumption
      <4>2. p * SharePct = SharePct * p
        BY <4>1
      <4> QED BY <1>3, <4>1, <4>2, ProductsGrow
    <3>3. \A k \in Nat : k \div 100 \in Nat /\ 100 * (k \div 100) <= k
      OBVIOUS
    <3>4. T!Excess(p) \in Nat /\ 100 * T!Excess(p) <= SharePct * peak[cycleDay[al]]
      <4>1. T!Excess(p) = (p * SharePct) \div 100
        BY DEF T!Excess
      <4> HIDE DEF p
      <4>2. T!Excess(p) \in Nat /\ 100 * T!Excess(p) <= p * SharePct
        BY <3>2, <3>3, <4>1
      <4> QED BY <3>2, <4>2
    <3> HIDE DEF p
    <3> QED BY <3>1, <3>4, LoopTypes, TwoTasks
  <2> QED BY <2>1, <2>2
<1>5. AtWork(al) /\ AtWork(al)' /\ ~Carries(al) /\ (Carries(al)' <=> pc'[al] = "moving")
  BY <1>2 DEF AtWork, Carries
<1>6. \A u \in T!Tasks : u # al => AtWork(u)' = AtWork(u) /\ Carries(u)' = Carries(u)
  BY <1>2 DEF AtWork, Carries
<1>7. WorkInv'
  BY <1>1, <1>2, <1>3, <1>4, <1>5, <1>6, TwoTasks DEF TreasuryInv, WorkInv
<1>8. ASSUME NEW d \in T!Days PROVE Left(d)' <= Left(d) /\ Swept(d) <= Swept(d)'
  <2>1. /\ Cardinality(todo') = Cardinality(todo) - 1
        /\ Cardinality(todo) \in Nat /\ Cardinality(Strategies) \in Nat
    BY <1>1, LoopTypes, Counts
  <2>2. Left(d)' <= Left(d)
    BY <1>1, <1>2, <1>5, <2>1, TwoTasks DEF Left
  <2>3. Swept(d)' = Swept(d)
    BY <1>1, <1>6, TwoTasks DEF Swept
  <2>4. Swept(d) \in Nat
    BY MadeTypes DEF TreasuryInv, MadeCounts
  <2> QED BY <2>2, <2>3, <2>4
<1> QED BY <1>1, <1>7, <1>8, LessToDo

\* The other decisions of a cycle: the allocator ends, the manager sweeps or does not.
LEMMA DecideKeeps ==
  ASSUME TreasuryInv, TableInv', peak' = peak, T!AllocatorEnds \/ T!Sweep \/ T!NoSweep
  PROVE  WorkInv' /\ ShareInv'
<1> DEFINE mg == T!Manager
           al == T!Allocator
           p == seen[mg]
<1>1. UNCHANGED <<cycleDay, cycles, moved, todo>>
  BY DEF T!AllocatorEnds, T!Sweep, T!NoSweep, T!account
<1>10. /\ seen' \in [T!Tasks -> Int]
       /\ \A u \in T!Tasks : seen'[u] = seen[u] \/ pc'[u] = "rest"
  BY LoopTypes, TwoTasks DEF T!AllocatorEnds, T!Sweep, T!NoSweep, T!At
<1>2. \/ /\ pc[al] = "cycle" /\ pc'[al] = "rest" /\ todo = {} /\ amount' = amount
         /\ \A u \in T!Tasks : u # al => pc'[u] = pc[u]
      \/ /\ pc[mg] = "cycle" /\ pc'[mg] = "rest" /\ amount' = amount
         /\ \A u \in T!Tasks : u # mg => pc'[u] = pc[u]
      \/ /\ pc[mg] = "cycle" /\ pc'[mg] = "moving"
         /\ T!Sweeps(p) /\ amount' = [amount EXCEPT ![mg] = T!SweepAmount(p)]
         /\ \A u \in T!Tasks : u # mg => pc'[u] = pc[u]
  BY LoopTypes, TwoTasks DEF T!AllocatorEnds, T!Sweep, T!NoSweep, T!At
<1>3. cycleDay[mg] \in T!Days /\ p \in Int /\ (pc[mg] = "cycle" => p <= peak[cycleDay[mg]])
  BY TwoTasks DEF TreasuryInv, WorkInv
<1>4. /\ amount' \in [T!Tasks -> Nat]
      /\ \A u \in T!Tasks : u # mg => amount'[u] = amount[u]
      /\ pc'[mg] = "moving" => 100 * amount'[mg] <= 50 * peak[cycleDay[mg]]
  <2>1. CASE T!Sweeps(p) /\ pc[mg] = "cycle" /\ amount' = [amount EXCEPT ![mg] = T!SweepAmount(p)]
    <3>1. Equity * SweepPct \in Nat
      BY SharesAssumption, ProductsGrow
    <3>2. \A a \in Int, b \in Nat : (a * 100 - b) \div 200 > 0 =>
            /\ (a * 100 - b) \div 200 \in Nat
            /\ 100 * ((a * 100 - b) \div 200) <= 50 * a
      OBVIOUS
    <3>3. T!SweepAmount(p) > 0 /\ T!SweepAmount(p) = (p * 100 - Equity * SweepPct) \div 200
      BY <2>1 DEF T!Sweeps, T!SweepAmount
    <3> HIDE DEF p
    <3>4. T!SweepAmount(p) \in Nat /\ 100 * T!SweepAmount(p) <= 50 * p
      BY <1>3, <3>1, <3>2, <3>3
    <3>5. 50 * p <= 50 * peak[cycleDay[mg]] /\ peak[cycleDay[mg]] \in Nat
      BY <1>3, <2>1, LoopTypes
    <3> QED BY <1>3, <2>1, <3>4, <3>5, LoopTypes, TwoTasks
  <2>2. CASE amount' = amount /\ pc'[mg] \in {pc[mg], "rest"}
    BY <2>2, LoopTypes, TwoTasks DEF TreasuryInv, WorkInv, Carries
  <2> QED BY <1>2, <2>1, <2>2, TwoTasks
<1>5. /\ \A u \in T!Tasks : AtWork(u)' => AtWork(u)
      /\ \A u \in T!Tasks : pc'[u] \in {"cycle", "moving", "sent"} => pc[u] \in {"cycle", "moving", "sent"}
      /\ Carries(al)' = Carries(al)
      /\ Carries(mg)' => Carries(mg) \/ pc'[mg] = "moving"
      /\ Carries(al)' => amount'[al] = amount[al]
  <2>1. \A u \in T!Tasks :
          pc'[u] = pc[u] \/ (pc[u] = "cycle" /\ pc'[u] \in {"rest", "moving"})
    BY <1>2
  <2>2. pc'[al] = pc[al] \/ (pc[al] = "cycle" /\ pc'[al] = "rest")
    BY <1>2, TwoTasks
  <2>3. Carries(al)' = Carries(al) /\ (Carries(al)' => amount'[al] = amount[al])
    BY <2>2, <1>4, TwoTasks DEF Carries
  <2> QED BY <2>1, <2>3, TwoTasks DEF AtWork, Carries
<1>50. Carries(mg)' => 100 * amount'[mg] <= 50 * peak[cycleDay[mg]]
  BY <1>2, <1>4, TwoTasks DEF TreasuryInv, WorkInv, Carries
<1>6. WorkInv'
  <2>1. \A u \in T!Tasks : pc'[u] \in {"cycle", "moving", "sent"} => seen'[u] <= peak[cycleDay[u]]
    BY <1>5, <1>10 DEF TreasuryInv, WorkInv
  <2> QED BY <1>1, <1>4, <1>5, <1>50, <1>10, <2>1, TwoTasks DEF TreasuryInv, WorkInv
<1>7. ASSUME NEW d \in T!Days PROVE Left(d)' <= Left(d) /\ Swept(d) <= Swept(d)'
  <2>1. /\ Left(d) \in Nat /\ Cardinality(todo) \in Nat /\ cycles[mg][d] \in Nat
        /\ todo = {} => Cardinality(todo) = 0
    BY MadeTypes, LoopTypes, Counts, TwoTasks DEF TreasuryInv, MadeCounts
  <2>2. Left(d)' <= Left(d)
    BY <1>1, <1>2, <2>1, TwoTasks DEF Left, AtWork, Carries
  <2>3. Swept(d) <= Swept(d)'
    BY <1>1, <1>5, <2>1, TwoTasks DEF Swept
  <2> QED BY <2>2, <2>3
<1> QED BY <1>1, <1>6, <1>7, LessToDo

\* The transfer of a task is over: its cycle goes on or ends.
Over(t) ==
  /\ pc'[t] \in {"rest", "ended"} \/ (t = T!Allocator /\ pc'[t] = "cycle" /\ seen'[t] = seen[t])
  /\ \A u \in T!Tasks : u # t => pc'[u] = pc[u] /\ amount'[u] = amount[u] /\ seen'[u] = seen[u]
  /\ amount' \in [T!Tasks -> Nat] /\ seen' \in [T!Tasks -> Int]
  /\ todo' \subseteq Strategies /\ (AtWork(T!Allocator)' => todo' = todo)

\* Then the allocator has one more behind it, or all of them, and the manager has swept.
LEMMA TransferEnds ==
  ASSUME TreasuryInv, UNCHANGED <<cycleDay, cycles, peak>>, moved' \in [T!Days -> Nat],
         NEW t \in T!Tasks, Carries(t), Over(t)
  PROVE  /\ WorkInv'
         /\ \A d \in T!Days : Made(d) <= Made(d)' /\ Swept(d) <= Swept(d)'
         /\ t = T!Allocator => Made(cycleDay[t]) + 1 <= Made(cycleDay[t])'
         /\ t = T!Manager => Swept(cycleDay[t]) + 1 <= Swept(cycleDay[t])'
<1> DEFINE al == T!Allocator
           mg == T!Manager
<1>1. /\ pc'[t] \in {"rest", "ended"} \/ (t = al /\ pc'[t] = "cycle" /\ seen'[t] = seen[t])
      /\ \A u \in T!Tasks : u # t => pc'[u] = pc[u] /\ amount'[u] = amount[u] /\ seen'[u] = seen[u]
      /\ amount' \in [T!Tasks -> Nat] /\ seen' \in [T!Tasks -> Int]
      /\ todo' \subseteq Strategies /\ (AtWork(al)' => todo' = todo)
  BY DEF Over
<1>2. \A u \in T!Tasks : u # t => AtWork(u)' = AtWork(u) /\ Carries(u)' = Carries(u)
  BY <1>1 DEF AtWork, Carries
<1>3. /\ AtWork(t) /\ ~Carries(t)' /\ pc[t] # "read" /\ pc'[t] # "read"
      /\ (AtWork(t)' => t = al)
  BY <1>1 DEF AtWork, Carries
<1>4. cycleDay[t] \in T!Days /\ cycles[t][cycleDay[t]] > 0
  BY <1>3, LoopTypes DEF TreasuryInv, WorkInv
<1>5. WorkInv'
  <2>1. \A u \in T!Tasks : AtWork(u)' => cycles[u][cycleDay[u]] > 0
    BY <1>2, <1>4 DEF TreasuryInv, WorkInv
  <2>2. \A u \in T!Tasks : pc'[u] \in {"cycle", "moving", "sent"} => seen'[u] <= peak[cycleDay[u]]
    BY <1>1 DEF TreasuryInv, WorkInv, Carries
  <2>3. \A u \in T!Tasks : Carries(u)' => Carries(u) /\ amount'[u] = amount[u]
    BY <1>1, <1>2, <1>3
  <2>4. /\ cycles' = cycles /\ cycleDay' = cycleDay /\ peak' = peak
        /\ seen' \in [T!Tasks -> Int] /\ amount' \in [T!Tasks -> Nat] /\ todo' \subseteq Strategies
    BY <1>1
  <2>5. /\ Carries(al)' => 100 * amount'[al] <= SharePct * peak[cycleDay[al]]
        /\ Carries(mg)' => 100 * amount'[mg] <= 50 * peak[cycleDay[mg]]
    BY <2>3, TwoTasks DEF TreasuryInv, WorkInv
  <2>6. Carries(al)' => todo' # Strategies
    BY <1>1, <2>3, TwoTasks DEF TreasuryInv, WorkInv, AtWork, Carries
  <2> QED BY <2>1, <2>2, <2>4, <2>5, <2>6, TwoTasks DEF TreasuryInv, WorkInv
<1>6. Cardinality(todo) \in Nat /\ Cardinality(Strategies) \in Nat
  BY LoopTypes, Counts
<1>7. ASSUME NEW d \in T!Days
      PROVE  /\ Made(d) <= Made(d)' /\ Swept(d) <= Swept(d)'
             /\ t = al /\ d = cycleDay[t] => Made(d) + 1 <= Made(d)'
             /\ t = mg /\ d = cycleDay[t] => Swept(d) + 1 <= Swept(d)'
  <2>1. /\ Capacity(d) \in Nat /\ Left(d) \in Nat /\ Made(d) = Capacity(d) - Left(d)
        /\ Swept(d) \in Nat /\ cycles[mg][d] \in Nat
    BY MadeTypes, LoopTypes, TwoTasks DEF TreasuryInv, MadeCounts
  <2>10. Made(d)' = Capacity(d) - Left(d)'
    BY DEF Made, Capacity
  <2>2. CASE t = al
    <3>1. Swept(d)' = Swept(d)
      BY <1>2, <2>2, TwoTasks DEF Swept
    <3>2. /\ cycleDay[t] # d => Left(d)' = 0 /\ Left(d) = 0
          /\ cycleDay[t] = d => Left(d) = Cardinality(todo) + 1
                               /\ Left(d)' \in {0, Cardinality(todo)}
      <4>1. Left(d) = IF cycleDay[t] # d THEN 0 ELSE Cardinality(todo) + 1
        BY <1>3, <2>2 DEF Left
      <4>2. CASE AtWork(al)'
        BY <1>1, <1>3, <4>1, <4>2, <2>2 DEF Left
      <4>3. CASE ~AtWork(al)'
        BY <4>1, <4>3, <2>2 DEF Left
      <4> QED BY <4>2, <4>3
    <3>3. Made(d) <= Made(d)' /\ (cycleDay[t] = d => Made(d) + 1 <= Made(d)')
      BY ONLY <1>6, <2>1, <2>10, <3>2
    <3> QED BY <2>1, <2>2, <3>1, <3>3, TwoTasks
  <2>3. CASE t = mg
    <3>1. Left(d)' = Left(d)
      BY <1>1, <1>2, <2>3, TwoTasks DEF Left
    <3>2. /\ cycleDay[t] # d => Swept(d)' = Swept(d)
          /\ cycleDay[t] = d => Swept(d)' = Swept(d) + 1
      BY <1>3, <2>1, <2>3, TwoTasks DEF Swept
    <3>3. Made(d) <= Made(d)'
      BY ONLY <2>1, <2>10, <3>1
    <3> QED BY <2>1, <2>3, <3>2, <3>3, TwoTasks
  <2> QED BY <2>2, <2>3, TwoTasks
<1> QED BY <1>4, <1>5, <1>7

\* A transfer that is skipped, sent, completed, failed or abandoned.
LEMMA TransferKeeps ==
  ASSUME TreasuryInv, TableInv', peak' = peak, NEW t \in T!Tasks,
         \/ T!Skip(t) \/ T!Send(t) \/ T!Completed(t)
         \/ \E a \in {0, amount[t]} : T!Failed(t, a) \/ T!SendCancelled(t, a)
  PROVE  WorkInv' /\ ShareInv'
<1>1. UNCHANGED <<cycleDay, cycles>>
  BY DEF T!Skip, T!Send, T!Completed, T!Failed, T!SendCancelled
<1>2. CASE T!Send(t)
  <2>1. UNCHANGED <<todo, amount, moved, seen>>
    BY <1>2 DEF T!Send
  <2>2. /\ pc[t] = "moving" /\ pc'[t] = "sent" /\ \A u \in T!Tasks : u # t => pc'[u] = pc[u]
    BY <1>2, LoopTypes DEF T!Send, T!At
  <2>3. \A u \in T!Tasks :
          /\ AtWork(u)' = AtWork(u) /\ Carries(u)' = Carries(u)
          /\ pc'[u] \in {"cycle", "moving", "sent"} <=> pc[u] \in {"cycle", "moving", "sent"}
          /\ pc'[u] = "read" <=> pc[u] = "read"
    BY <2>2 DEF AtWork, Carries
  <2>4. WorkInv'
    BY <1>1, <2>1, <2>3, TwoTasks DEF TreasuryInv, WorkInv
  <2>5. \A d \in T!Days : Made(d)' = Made(d) /\ Swept(d)' = Swept(d)
    BY <1>1, <2>1, <2>3, TwoTasks DEF Made, Capacity, Left, Swept
  <2> QED BY <2>1, <2>4, <2>5, SameCounts
<1>3. CASE ~T!Send(t)
  <2>1. Over(t) /\ Carries(t)
    <3>1. ASSUME T!Return(t), todo' = todo PROVE Over(t)
      <4>1. /\ pc'[t] = (IF t = T!Allocator THEN "cycle" ELSE "rest")
            /\ seen'[t] = (IF t = T!Allocator THEN seen[t] ELSE 0)
            /\ seen' \in [T!Tasks -> Int] /\ amount' \in [T!Tasks -> Nat]
        BY <3>1, LoopTypes DEF T!Return
      <4>2. \A u \in T!Tasks : u # t => pc'[u] = pc[u] /\ amount'[u] = amount[u] /\ seen'[u] = seen[u]
        BY <3>1, LoopTypes DEF T!Return
      <4> QED BY <3>1, <4>1, <4>2, LoopTypes DEF Over
    <3>2. ASSUME \E a \in {0, amount[t]} : T!SendCancelled(t, a) PROVE Over(t)
      <4>1. /\ pc' = [pc EXCEPT ![t] = "ended"] /\ amount' = [amount EXCEPT ![t] = 0]
            /\ seen' = [seen EXCEPT ![t] = 0]
        BY <3>2 DEF T!SendCancelled, T!At
      <4>2. /\ pc'[t] = "ended" /\ seen' \in [T!Tasks -> Int] /\ amount' \in [T!Tasks -> Nat]
            /\ \A u \in T!Tasks : u # t => pc'[u] = pc[u] /\ amount'[u] = amount[u] /\ seen'[u] = seen[u]
        BY <4>1, LoopTypes
      <4>3. /\ todo' \subseteq Strategies
            /\ t = T!Allocator \/ todo' = todo
        BY <3>2, LoopTypes DEF T!SendCancelled
      <4>4. AtWork(T!Allocator)' => todo' = todo
        BY <4>2, <4>3 DEF AtWork
      <4> QED BY <4>2, <4>3, <4>4 DEF Over
    <3>3. (T!Return(t) /\ todo' = todo) \/ \E a \in {0, amount[t]} : T!SendCancelled(t, a)
      BY <1>3 DEF T!Skip, T!Completed, T!Failed
    <3>4. Carries(t)
      BY <1>3 DEF T!Skip, T!Completed, T!Failed, T!SendCancelled, T!At, Carries
    <3> QED BY <3>1, <3>2, <3>3, <3>4
  <2>2. PICK e \in T!Days : e = cycleDay[t]
    BY LoopTypes
  <2>3. PICK a \in {0, amount[t]} : moved' = [moved EXCEPT ![e] = @ + a]
    <3>1. CASE T!Skip(t)
      <4>1. moved' = moved
        BY <3>1 DEF T!Skip, T!account
      <4>2. moved = [moved EXCEPT ![e] = @ + 0]
        BY LoopTypes
      <4> QED BY <4>1, <4>2
    <3>2. CASE T!Completed(t)
      BY <2>2, <3>2 DEF T!Completed
    <3>3. CASE \E a \in {0, amount[t]} : T!Failed(t, a) \/ T!SendCancelled(t, a)
      BY <2>2, <3>3 DEF T!Failed, T!SendCancelled
    <3> QED BY <1>3, <3>1, <3>2, <3>3
  <2>4. a \in Nat /\ moved' \in [T!Days -> Nat]
    BY <2>3, LoopTypes
  <2>5. /\ WorkInv'
        /\ \A d \in T!Days : Made(d) <= Made(d)' /\ Swept(d) <= Swept(d)'
        /\ t = T!Allocator => Made(e) + 1 <= Made(e)'
        /\ t = T!Manager => Swept(e) + 1 <= Swept(e)'
    <3>1. /\ WorkInv'
          /\ \A d \in T!Days : Made(d) <= Made(d)' /\ Swept(d) <= Swept(d)'
          /\ t = T!Allocator => Made(cycleDay[t]) + 1 <= Made(cycleDay[t])'
          /\ t = T!Manager => Swept(cycleDay[t]) + 1 <= Swept(cycleDay[t])'
      BY <1>1, <2>1, <2>4, TransferEnds
    <3>2. Made(cycleDay[t])' = Made(e)' /\ Swept(cycleDay[t])' = Swept(e)'
      BY <1>1, <2>2
    <3> QED BY <2>2, <3>1, <3>2
  <2>6. /\ t = T!Allocator => 100 * a <= SharePct * peak[e]
        /\ t = T!Manager => 100 * a <= 50 * peak[e]
    <3>1. SharePct * peak[e] \in Nat /\ 50 * peak[e] \in Nat
      BY LoopTypes, SharesAssumption, ProductsGrow
    <3> QED BY <2>1, <2>2, <2>3, <3>1 DEF TreasuryInv, WorkInv
  <2>7. ASSUME NEW d \in T!Days
        PROVE  100 * moved'[d] <= Made(d)' * (SharePct * peak'[d]) + Swept(d)' * (50 * peak'[d])
    <3>1. peak[d] <= peak'[d] /\ 0 \in Nat
      BY LoopTypes
    <3>2. CASE d # e
      <4>1. moved'[d] = moved[d] + 0 + 0
        BY <2>3, <3>2, LoopTypes
      <4> QED BY <2>5, <3>1, <4>1, SharesKept
    <3>3. CASE d = e /\ t = T!Allocator
      <4>1. moved'[d] = moved[d] + a + 0
        BY <2>3, <2>4, <3>3, LoopTypes
      <4> QED BY <2>4, <2>5, <2>6, <3>1, <3>3, <4>1, SharesKept
    <3>4. CASE d = e /\ t = T!Manager
      <4>1. moved'[d] = moved[d] + 0 + a
        BY <2>3, <2>4, <3>4, LoopTypes
      <4> QED BY <2>4, <2>5, <2>6, <3>1, <3>4, <4>1, SharesKept
    <3> QED BY <3>2, <3>3, <3>4, TwoTasks
  <2> QED BY <2>5, <2>7 DEF ShareInv, T!Days
<1> QED BY <1>2, <1>3

\* The library's sum of what some of the two tasks have on its way.
LEMMA OnTheWay ==
  ASSUME amount \in [T!Tasks -> Nat], NEW Q \in SUBSET T!Tasks
  PROVE  T!MapThenSumSet(LAMBDA t : amount[t], Q)
           = (IF T!Allocator \in Q THEN amount[T!Allocator] ELSE 0)
             + (IF T!Manager \in Q THEN amount[T!Manager] ELSE 0)
<1> DEFINE F(h) == h = [s \in SUBSET Q |-> IF s = {} THEN 0
                          ELSE LET x == CHOOSE x \in s : TRUE IN amount[x] + h[s \ {x}]]
<1>1. IsFiniteSet(Q) /\ \A x \in Q : amount[x] \in Int
  <2>1. IsFiniteSet({T!Allocator}) /\ IsFiniteSet({T!Manager})
    BY FS_Singleton
  <2>2. IsFiniteSet({T!Allocator} \cup {T!Manager})
    BY <2>1, FS_Union
  <2>3. Q \subseteq {T!Allocator} \cup {T!Manager}
    BY TwoTasks
  <2> QED BY <2>2, <2>3, FS_Subset
<1>2. PICK k : Sums(k, amount, Q)
  BY <1>1, SumsExist
<1>3. \A h : F(h) <=> Sums(h, amount, Q)
  BY DEF Sums, Adds, First
<1>4. F(CHOOSE h : F(h))
  <2>1. F(k)
    BY <1>2, <1>3
  <2> HIDE DEF F
  <2> QED BY <2>1, Zenon
<1>5. T!MapThenSumSet(LAMBDA t : amount[t], Q) = (CHOOSE h : F(h))[Q]
  BY DEF T!MapThenSumSet, T!MapThenFoldSet
<1> DEFINE g == CHOOSE h : F(h)
<1>6. Sums(g, amount, Q) /\ Q \in SUBSET Q
  BY <1>3, <1>4
<1>7. T!MapThenSumSet(LAMBDA t : amount[t], Q) = g[Q]
  BY <1>5
<1> HIDE DEF g, F
<1>8. g[Q] = SumOf(amount, Q)
  BY <1>1, <1>6, SumIs
<1>9. ASSUME NEW t \in Q
      PROVE  SumOf(amount, Q) = amount[t] + SumOf(amount, Q \ {t}) /\ IsFiniteSet(Q \ {t})
  BY <1>1, SumWithout, FS_RemoveElement
<1>10. \A t : SumOf(amount, {t} \ {t}) = 0 /\ SumOf(amount, {}) = 0
  <2>1. \A t : {t} \ {t} = {}
    OBVIOUS
  <2> QED BY <2>1, SumOfNone
<1>11. \A t \in T!Tasks : SumOf(amount, {t}) = amount[t]
  <2> TAKE t \in T!Tasks
  <2>0. IsFiniteSet({t})
    BY FS_Singleton
  <2>1. \A x \in {t} : amount[x] \in Int
    OBVIOUS
  <2>2. SumOf(amount, {t}) = amount[t] + SumOf(amount, {t} \ {t})
    BY <2>0, <2>1, SumWithout
  <2> QED BY <1>10, <2>2
<1>12. CASE Q = {}
  BY <1>7, <1>8, <1>10, <1>12
<1>13. CASE Q = {T!Allocator} \/ Q = {T!Manager}
  BY <1>7, <1>8, <1>11, <1>13, TwoTasks
<1>14. CASE Q = {T!Allocator, T!Manager}
  <2>1. Q \ {T!Allocator} = {T!Manager} /\ T!Allocator \in Q /\ T!Manager \in Q
    BY <1>14, TwoTasks
  <2>2. SumOf(amount, Q) = amount[T!Allocator] + SumOf(amount, Q \ {T!Allocator})
    BY <1>9, <2>1
  <2> QED BY <1>7, <1>8, <1>11, <2>1, <2>2, TwoTasks
<1>15. Q = {} \/ Q = {T!Allocator} \/ Q = {T!Manager} \/ Q = {T!Allocator, T!Manager}
  BY TwoTasks
<1> QED BY <1>12, <1>13, <1>14, <1>15

\* A restart makes some of the transfers on their way, and ends both cycles.
LEMMA RestartKeeps ==
  ASSUME TreasuryInv, TableInv', peak' = peak, T!Restart
  PROVE  WorkInv' /\ ShareInv'
<1> DEFINE al == T!Allocator
           mg == T!Manager
<1>1. PICK S \in SUBSET {t \in T!Tasks : pc[t] = "sent"} :
        moved' = [d \in T!Days |-> moved[d] +
                    T!MapThenSumSet(LAMBDA t : amount[t], {t \in S : cycleDay[t] = d})]
  BY DEF T!Restart
<1>2. /\ pc' = [t \in T!Tasks |-> "wait"] /\ amount' = [t \in T!Tasks |-> 0]
      /\ todo' = {} /\ seen' = [t \in T!Tasks |-> 0] /\ UNCHANGED <<cycleDay, cycles>>
  BY DEF T!Restart
<1> DEFINE x(d) == IF al \in S /\ cycleDay[al] = d THEN amount[al] ELSE 0
           y(d) == IF mg \in S /\ cycleDay[mg] = d THEN amount[mg] ELSE 0
<1>3. ASSUME NEW d \in T!Days
      PROVE  x(d) \in Nat /\ y(d) \in Nat /\ moved'[d] = moved[d] + x(d) + y(d) /\ moved'[d] \in Nat
  <2>1. {t \in S : cycleDay[t] = d} \in SUBSET T!Tasks
    OBVIOUS
  <2>2. T!MapThenSumSet(LAMBDA t : amount[t], {t \in S : cycleDay[t] = d}) = x(d) + y(d)
    BY <2>1, OnTheWay, LoopTypes
  <2>3. x(d) \in Nat /\ y(d) \in Nat /\ moved[d] \in Nat
    BY LoopTypes, TwoTasks
  <2>4. moved'[d] = moved[d] + (x(d) + y(d))
    BY <1>1, <2>2
  <2> HIDE DEF x, y
  <2> QED BY <2>3, <2>4
<1> HIDE DEF x, y
<1>4. moved' \in [T!Days -> Nat]
  BY <1>1, <1>3
<1>5. \A t \in T!Tasks : ~AtWork(t)' /\ ~Carries(t)' /\ pc'[t] = "wait"
  BY <1>2 DEF AtWork, Carries
<1>6. WorkInv'
  BY <1>2, <1>4, <1>5, LoopTypes, TwoTasks DEF WorkInv
<1>7. ASSUME NEW d \in T!Days
      PROVE  /\ Made(d) <= Made(d)' /\ Swept(d) <= Swept(d)'
             /\ x(d) = 0 \/ (Made(d) + 1 <= Made(d)' /\ 100 * x(d) <= SharePct * peak[d])
             /\ y(d) = 0 \/ (Swept(d) + 1 <= Swept(d)' /\ 100 * y(d) <= 50 * peak[d])
  <2>1. /\ Capacity(d) \in Nat /\ Left(d) \in Nat /\ Made(d) = Capacity(d) - Left(d)
        /\ Swept(d) \in Nat /\ Swept(d) <= cycles[mg][d] /\ cycles[mg][d] \in Nat
        /\ AtWork(mg) /\ cycleDay[mg] = d => Swept(d) = cycles[mg][d] - 1
        /\ Cardinality(todo) \in Nat
    BY MadeTypes, LoopTypes, Counts, TwoTasks DEF TreasuryInv, MadeCounts
  <2>2. Made(d)' = Capacity(d)
    <3>1. Left(d)' = 0 /\ Capacity(d)' = Capacity(d)
      BY <1>2, <1>5, TwoTasks DEF Left, Capacity
    <3> QED BY <2>1, <3>1 DEF Made
  <2>3. Swept(d)' = cycles[mg][d]
    BY <1>2, <1>5, <2>1, TwoTasks DEF Swept
  <2>4. Made(d) <= Made(d)' /\ Swept(d) <= Swept(d)'
    BY ONLY <2>1, <2>2, <2>3
  <2>5. ASSUME x(d) # 0 PROVE Made(d) + 1 <= Made(d)' /\ 100 * x(d) <= SharePct * peak[d]
    <3>1. cycleDay[al] = d /\ pc[al] = "sent" /\ x(d) = amount[al]
      BY <2>5 DEF x
    <3>2. AtWork(al) /\ Carries(al)
      BY <3>1 DEF AtWork, Carries
    <3>3. 100 * x(d) <= SharePct * peak[d]
      BY <3>1, <3>2, TwoTasks DEF TreasuryInv, WorkInv
    <3>4. Left(d) = Cardinality(todo) + 1
      BY <3>1, <3>2 DEF Left
    <3>5. Made(d) + 1 <= Made(d)'
      BY ONLY <2>1, <2>2, <3>4
    <3> QED BY <3>3, <3>5
  <2>6. ASSUME y(d) # 0 PROVE Swept(d) + 1 <= Swept(d)' /\ 100 * y(d) <= 50 * peak[d]
    <3>1. cycleDay[mg] = d /\ pc[mg] = "sent" /\ y(d) = amount[mg]
      BY <2>6 DEF y
    <3>2. AtWork(mg) /\ Carries(mg)
      BY <3>1 DEF AtWork, Carries
    <3>3. 100 * y(d) <= 50 * peak[d]
      BY <3>1, <3>2, TwoTasks DEF TreasuryInv, WorkInv
    <3>4. Swept(d) = cycles[mg][d] - 1
      BY <2>1, <3>1, <3>2
    <3>5. Swept(d) + 1 <= Swept(d)'
      BY ONLY <2>1, <2>3, <3>4
    <3> QED BY <3>3, <3>5
  <2> QED BY <2>4, <2>5, <2>6
<1>8. ASSUME NEW d \in T!Days
      PROVE  100 * moved'[d] <= Made(d)' * (SharePct * peak'[d]) + Swept(d)' * (50 * peak'[d])
  <2>1. peak[d] <= peak'[d]
    BY LoopTypes
  <2> QED BY <1>3, <1>6, <1>7, <2>1, SharesKept
<1> QED BY <1>6, <1>8 DEF ShareInv, T!Days

\* The initial states satisfy the invariant: nothing is moved and no cycle has begun.
LEMMA TreasuryInvInit == T!Init => TreasuryInv
<1> SUFFICES ASSUME T!Init PROVE TreasuryInv
  OBVIOUS
<1>1. SpacedInv /\ TableInv
  BY SpacedInit, TableInit
<1>2. /\ pc = [t \in T!Tasks |-> "wait"] /\ seen = [t \in T!Tasks |-> 0]
      /\ cycleDay = [t \in T!Tasks |-> 0] /\ amount = [t \in T!Tasks |-> 0]
      /\ todo = {} /\ moved = [d \in T!Days |-> 0] /\ peak = [d \in T!Days |-> 0]
      /\ cycles = [t \in T!Tasks |-> [d \in T!Days |-> 0]] /\ 0 \in T!Days
  BY BooksAssumption DEF T!Init, T!Days
<1>3. \A t \in T!Tasks : ~AtWork(t) /\ ~Carries(t) /\ pc[t] = "wait"
  BY <1>2 DEF AtWork, Carries
<1>4. WorkInv
  BY <1>2, <1>3, TwoTasks DEF WorkInv
<1>5. ASSUME NEW d \in T!Days
      PROVE  100 * moved[d] <= Made(d) * (SharePct * peak[d]) + Swept(d) * (50 * peak[d])
  <2>1. Made(d) = 0 /\ Swept(d) = 0 /\ moved[d] = 0 /\ peak[d] = 0
    <3>1. Left(d) = 0 /\ cycles[T!Allocator][d] = 0 /\ Swept(d) = 0 /\ moved[d] = 0 /\ peak[d] = 0
      BY <1>2, <1>3, TwoTasks DEF Left, Swept
    <3>2. Cardinality(Strategies) \in Nat
      BY Counts
    <3> QED BY <3>1, <3>2 DEF Made, Capacity
  <2> QED BY <2>1, SharesAssumption
<1> QED BY <1>1, <1>4, <1>5 DEF TreasuryInv, ShareInv

\* Every step of the tasks, the recorders, the clock and restarts keeps it.
LEMMA TreasuryInvStep == ASSUME TreasuryInv, [T!Next]_(T!vars) PROVE TreasuryInv'
<1>1. SpacedInv'
  BY SpacedStep DEF TreasuryInv
<1>2. TableInv' /\ \A d \in T!Days : peak[d] <= peak'[d]
  BY TableStep DEF TreasuryInv
<1> DEFINE Goal == WorkInv' /\ ShareInv'
<1>3. ASSUME NEW r \in Recorders, (\E g \in Gains : T!Look(r, g)) \/ T!Insert(r) \/ T!Update(r)
      PROVE  Goal
  <2>1. UNCHANGED <<T!loops, moved>>
    BY <1>3 DEF T!Look, T!Insert, T!Update, T!account
  <2> QED BY <1>2, <2>1, PeaksGrow
<1>4. ASSUME T!Cool \/ T!Tick \/ UNCHANGED T!vars PROVE Goal
  <2>1. UNCHANGED <<T!loops, moved>>
    BY <1>4 DEF T!Cool, T!Tick, T!vars, T!account
  <2> QED BY <1>2, <2>1, PeaksGrow
<1>5. ASSUME NEW t \in T!Tasks,
             \/ T!Arm(t) \/ T!Miss(t) \/ T!Rested(t)
             \/ T!Start(t) \/ T!Woken(t) \/ T!Summary(t) \/ T!Ended(t)
      PROVE  Goal
  <2>1. peak' = peak
    BY <1>5 DEF T!Arm, T!Start, T!Woken, T!Begins, T!Miss, T!Summary, T!Rested, T!Ended, T!table
  <2> QED BY <1>2, <1>5, <2>1, WaitingKeeps, StartKeeps, SummaryKeeps, EndedKeeps
<1>6. ASSUME NEW t \in T!Tasks,
             \/ T!Skip(t) \/ T!Send(t) \/ T!Completed(t)
             \/ \E a \in {0, amount[t]} : T!Failed(t, a) \/ T!SendCancelled(t, a)
      PROVE  Goal
  <2>1. peak' = peak
    BY <1>6 DEF T!Skip, T!Send, T!Completed, T!Failed, T!SendCancelled, T!table
  <2> QED BY <1>2, <1>6, <2>1, TransferKeeps
<1>7. ASSUME NEW s \in Strategies, T!TakeProfit(s) \/ T!Hold(s) PROVE Goal
  <2>1. peak' = peak
    BY <1>7 DEF T!TakeProfit, T!Hold, T!table
  <2> QED BY <1>2, <1>7, <2>1, TakeKeeps
<1>8. ASSUME T!AllocatorEnds \/ T!Sweep \/ T!NoSweep PROVE Goal
  <2>1. peak' = peak
    BY <1>8 DEF T!AllocatorEnds, T!Sweep, T!NoSweep, T!table
  <2> QED BY <1>2, <1>8, <2>1, DecideKeeps
<1>9. ASSUME T!Restart PROVE Goal
  <2>1. peak' = peak
    BY <1>9 DEF T!Restart, T!table
  <2> QED BY <1>2, <1>9, <2>1, RestartKeeps
<1>10. Goal
  <2> HIDE DEF Goal
  <2> QED BY <1>3, <1>4, <1>5, <1>6, <1>7, <1>8, <1>9 DEF T!Next
<1> QED BY <1>1, <1>2, <1>10 DEF TreasuryInv

\* With every share taken and the half swept in each cycle, a day's moves are half of its
\* peak for each cycle at most.
LEMMA WithinProfit == TreasuryInv => T!TypeOK /\ T!MovedWithinProfit
<1> SUFFICES ASSUME TreasuryInv PROVE T!TypeOK /\ T!MovedWithinProfit
  OBVIOUS
<1>1. T!TypeOK
  BY DEF TreasuryInv, SpacedInv, SpacedTypes, TableInv, TableTypes, WorkInv, Stations, T!TypeOK
<1>2. ASSUME NEW d \in T!Days
      PROVE  2 * moved[d] <= (cycles[T!Allocator][d] + cycles[T!Manager][d]) * peak[d]
  <2> DEFINE n == Cardinality(Strategies)
             p == peak[d]
             u == SharePct * p
             c == cycles[T!Allocator][d]
             e == cycles[T!Manager][d]
             m == Made(d)
             w == Swept(d)
  <2>1. /\ m \in Nat /\ m <= n * c /\ w \in Nat /\ w <= e
        /\ n \in Nat /\ p \in Nat /\ c \in Nat /\ e \in Nat /\ moved[d] \in Nat /\ SharePct \in Nat
    <3>1. /\ Capacity(d) \in Nat /\ Left(d) \in Nat /\ m \in Nat /\ m = Capacity(d) - Left(d)
          /\ w \in Nat /\ w <= e
      BY MadeTypes DEF TreasuryInv, MadeCounts
    <3>2. m <= Capacity(d)
      BY ONLY <3>1
    <3>3. Capacity(d) = n * c
      BY DEF Capacity
    <3>4. /\ n \in Nat /\ p \in Nat /\ c \in Nat /\ e \in Nat /\ moved[d] \in Nat /\ SharePct \in Nat
      BY LoopTypes, Counts, TwoTasks, SharesAssumption
    <3> HIDE DEF n, c, m, w, e, p
    <3> QED BY <3>1, <3>2, <3>3, <3>4
  <2>2. 100 * moved[d] <= m * u + w * (50 * p)
    BY DEF TreasuryInv, ShareInv
  <2>3. n * SharePct <= 50
    BY SharesAssumption
  <2> HIDE DEF n, p, c, e, m, w
  <2>4. u \in Nat /\ 50 * p \in Nat /\ n * c \in Nat /\ n * SharePct \in Nat
    BY <2>1, ProductsGrow
  <2>5. (n * c) * u = c * ((n * SharePct) * p)
    BY <2>1
  <2>6. (n * SharePct) * p <= 50 * p /\ (n * SharePct) * p \in Nat
    BY <2>1, <2>3, <2>4, ProductsGrow
  <2>7. c * ((n * SharePct) * p) <= c * (50 * p)
    BY <2>1, <2>4, <2>6, ProductsGrow
  <2> HIDE DEF u
  <2>8. m * u <= (n * c) * u
    BY <2>1, <2>4, ProductsGrow
  <2>9. w * (50 * p) <= e * (50 * p)
    BY <2>1, <2>4, ProductsGrow
  <2>10. /\ m * u \in Nat /\ w * (50 * p) \in Nat /\ c * (50 * p) \in Nat /\ e * (50 * p) \in Nat
    BY <2>1, <2>4, ProductsGrow
  <2>11. 100 * moved[d] <= c * (50 * p) + e * (50 * p)
    <3>1. m * u <= c * (50 * p)
      BY <2>5, <2>7, <2>8, <2>10, <2>1, <2>4, ProductsGrow
    <3> QED BY <2>1, <2>2, <2>9, <2>10, <3>1
  <2>12. c * (50 * p) + e * (50 * p) = 50 * ((c + e) * p)
    BY <2>1
  <2>13. (c + e) * p \in Nat
    BY <2>1, ProductsGrow
  <2>14. 2 * moved[d] <= (c + e) * p
    BY <2>1, <2>11, <2>12, <2>13
  <2> QED BY <2>14 DEF c, e, p
<1> QED BY <1>1, <1>2 DEF T!MovedWithinProfit

-----------------------------------------------------------------------------
(* Withdrawals.                                                            *)

\* A finite number of operators; None is none of the proposals.
GuardSound == None \notin Proposals /\ IsFiniteSet(Operators)

\* Confirmations of p that are still talking to the exchange.
AtExchange(p) == {c \in Operators \ told : conf[c] = p}

\* p can still be confirmed.
StillOpen(p) == p \in pending /\ row[p] = "pending"

\* What the coroutines hold names recorded proposals.
GuardTypes ==
  /\ row \in [Proposals -> G!Asking \cup G!Recorded]
  /\ sent \in [Proposals -> Nat]
  /\ conf \in [Operators -> Proposals \cup {None}]
  /\ \A p \in pending : p \in Proposals /\ row[p] \in G!Recorded
  /\ \A c \in Operators : conf[c] # None => row[conf[c]] \in G!Recorded
  /\ \A p \in Proposals : sent[p] > 0 => row[p] \in G!Recorded

\* Nothing leads back from the dead: no confirmation holds them, none can start.
DeadInv ==
  \A p \in dead :
    /\ p \in Proposals /\ sent[p] = 0 /\ row[p] \in G!Recorded
    /\ ~StillOpen(p)
    /\ \A c \in Operators : conf[c] # p

\* Without an overlap one confirmation sends, it is the first, and it closes the way.
OnceInv ==
  \A p \in Proposals \ doubled :
    /\ sent[p] <= 1
    /\ \A c, d \in AtExchange(p) : c = d
    /\ sent[p] > 0 => AtExchange(p) = {} /\ ~StillOpen(p)

GuardInv == GuardTypes /\ DeadInv /\ OnceInv

\* A restart may add what was on its way: nothing to a proposal no confirmation holds,
\* and one to a proposal that one confirmation holds.
LEMMA LastSent ==
  ASSUME GuardSound, GuardTypes, G!Restart
  PROVE  /\ sent' \in [Proposals -> Nat]
         /\ \A p \in Proposals : AtExchange(p) = {} => sent'[p] = sent[p]
         /\ \A p \in Proposals : (\A c, d \in AtExchange(p) : c = d) => sent'[p] <= sent[p] + 1
<1>0. \A S : G!Cardinality(S) = Cardinality(S)
  BY DEF G!Cardinality, Cardinality
<1>1. PICK S \in SUBSET (Operators \ told) :
        sent' = [p \in Proposals |-> sent[p] + Cardinality({c \in S : conf[c] = p})]
  BY <1>0 DEF G!Restart
<1>2. ASSUME NEW p \in Proposals
      PROVE  /\ Cardinality({c \in S : conf[c] = p}) \in Nat
             /\ AtExchange(p) = {} => Cardinality({c \in S : conf[c] = p}) = 0
             /\ (\A c, d \in AtExchange(p) : c = d) => Cardinality({c \in S : conf[c] = p}) <= 1
  <2> DEFINE Q == {c \in S : conf[c] = p}
  <2>1. Q \subseteq AtExchange(p) /\ Q \subseteq Operators
    BY DEF AtExchange
  <2>2. Cardinality(Q) \in Nat
    BY <2>1, FS_Subset, FS_CardinalityType DEF GuardSound
  <2>3. Q = {} => Cardinality(Q) = 0
    BY FS_EmptySet
  <2>4. \A c \in Q : Q = {c} => Cardinality(Q) = 1
    BY FS_Singleton
  <2>5. (\A c, d \in AtExchange(p) : c = d) => Q = {} \/ \E c \in Q : Q = {c}
    BY <2>1
  <2> QED BY <2>1, <2>2, <2>3, <2>4, <2>5
<1>3. sent \in [Proposals -> Nat]
  BY DEF GuardTypes
<1> QED BY <1>1, <1>2, <1>3

\* Every step keeps the types of what the coroutines hold.
LEMMA GuardTypesStep == ASSUME GuardSound, GuardTypes, G!Next PROVE GuardTypes'
<1> USE DEF GuardTypes, GuardSound
<1>1. ASSUME NEW a \in Addresses, NEW c \in Chains, G!AddToWhitelist(a, c) PROVE GuardTypes'
  BY <1>1 DEF G!AddToWhitelist, G!rows
<1>2. ASSUME NEW p \in Proposals, NEW r \in G!Request, G!Propose(p, r) PROVE GuardTypes'
  BY <1>2 DEF G!Propose, G!Asking, G!Recorded
<1>3. ASSUME NEW p \in Proposals, G!ReadTotal(p) \/ G!Refuse(p) PROVE GuardTypes'
  BY <1>3 DEF G!ReadTotal, G!Refuse, G!Asking, G!Recorded
<1>4. ASSUME NEW p \in Proposals, G!Record(p) PROVE GuardTypes'
  BY <1>4 DEF G!Record, G!Asking, G!Recorded
<1>5. ASSUME NEW p \in Proposals, G!Reject(p) \/ G!TimeUp(p) PROVE GuardTypes'
  BY <1>5 DEF G!Reject, G!TimeUp, G!Recorded
<1>6. ASSUME NEW c \in Operators, NEW p \in Proposals, G!Confirm(c, p) PROVE GuardTypes'
  BY <1>6 DEF G!Confirm, G!MayConfirm, G!rows
<1>7. ASSUME NEW c \in Operators, NEW status \in {"completed", "failed"},
             NEW times \in {0, 1}, G!Outcome(c, status, times)
      PROVE  GuardTypes'
  BY <1>7 DEF G!Outcome, G!Recorded
<1>8. ASSUME NEW c \in Operators, G!ConfirmEnds(c) PROVE GuardTypes'
  BY <1>8 DEF G!ConfirmEnds, G!rows
<1>9. CASE G!NextDay
  BY <1>9 DEF G!NextDay, G!rows
<1>10. CASE G!Restart
  <2>2. \A p \in Proposals : row[p] \in G!Recorded => row'[p] = row[p]
    BY <1>10 DEF G!Restart, G!Asking, G!Recorded
  <2>3. row' \in [Proposals -> G!Asking \cup G!Recorded]
    BY <1>10 DEF G!Restart, G!Asking
  <2>4. \A p \in Proposals : row[p] \notin G!Recorded => AtExchange(p) = {}
    BY DEF AtExchange, GuardSound
  <2>5. \A p \in Proposals : sent'[p] > 0 => row'[p] \in G!Recorded
    BY <1>10, <2>2, <2>4, LastSent
  <2>6. sent' \in [Proposals -> Nat]
    BY <1>10, LastSent
  <2> QED BY <1>10, <2>3, <2>5, <2>6 DEF G!Restart
<1> HIDE DEF GuardTypes
<1> QED
  BY <1>1, <1>2, <1>3, <1>4, <1>5, <1>6, <1>7, <1>8, <1>9, <1>10
     DEF G!Next, G!Executed, G!NotSent, G!AnswerLost

\* No step sends a dead proposal, or lets a confirmation take it up.
LEMMA DeadStep == ASSUME GuardSound, GuardTypes, DeadInv, G!Next PROVE DeadInv'
<1> USE DEF DeadInv, StillOpen, GuardSound
<1>1. ASSUME NEW a \in Addresses, NEW c \in Chains, G!AddToWhitelist(a, c) PROVE DeadInv'
  BY <1>1 DEF G!AddToWhitelist, G!rows, G!history
<1>2. ASSUME NEW p \in Proposals, NEW r \in G!Request, G!Propose(p, r) PROVE DeadInv'
  BY <1>2 DEF G!Propose, G!history, GuardTypes, G!Asking, G!Recorded
<1>3. ASSUME NEW p \in Proposals, G!ReadTotal(p) \/ G!Refuse(p) PROVE DeadInv'
  BY <1>3 DEF G!ReadTotal, G!Refuse, G!history, GuardTypes, G!Asking, G!Recorded
<1>4. ASSUME NEW p \in Proposals, G!Record(p) PROVE DeadInv'
  BY <1>4 DEF G!Record, GuardTypes, G!Asking, G!Recorded
<1>5. ASSUME NEW p \in Proposals, G!Reject(p) \/ G!TimeUp(p) PROVE DeadInv'
  BY <1>5 DEF G!Reject, G!TimeUp, G!Bury, G!Busy, GuardTypes, G!Recorded
<1>6. ASSUME NEW c \in Operators, NEW p \in Proposals, G!Confirm(c, p) PROVE DeadInv'
  BY <1>6 DEF G!Confirm, G!MayConfirm, G!rows, GuardTypes
<1>7. ASSUME NEW c \in Operators, NEW status \in {"completed", "failed"},
             NEW times \in {0, 1}, G!Outcome(c, status, times)
      PROVE  DeadInv'
  BY <1>7 DEF G!Outcome, G!history, GuardTypes, G!Recorded
<1>8. ASSUME NEW c \in Operators, G!ConfirmEnds(c) PROVE DeadInv'
  BY <1>8 DEF G!ConfirmEnds, G!rows, G!history, GuardTypes
<1>9. CASE G!NextDay
  BY <1>9 DEF G!NextDay, G!rows, G!history
<1>10. CASE G!Restart
  <2>2. \A p \in dead' : p \in Proposals /\ sent[p] = 0 /\ row[p] \in G!Recorded
                        /\ \A c \in Operators : conf[c] # p
    BY <1>10 DEF G!Restart, G!Bury, G!Busy, G!Recorded
  <2>3. \A p \in dead' : sent'[p] = 0
    BY <1>10, <2>2, LastSent DEF AtExchange
  <2>4. \A p \in Proposals : row[p] \in G!Recorded => row'[p] = row[p]
    BY <1>10 DEF G!Restart, G!Asking, G!Recorded
  <2> QED BY <1>10, <2>2, <2>3, <2>4 DEF G!Restart
<1> HIDE DEF DeadInv
<1> QED
  BY <1>1, <1>2, <1>3, <1>4, <1>5, <1>6, <1>7, <1>8, <1>9, <1>10
     DEF G!Next, G!Executed, G!NotSent, G!AnswerLost

\* A second confirmation of a proposal needs an overlap.
LEMMA OnceStep == ASSUME GuardSound, GuardTypes, OnceInv, G!Next PROVE OnceInv'
<1> USE DEF OnceInv, StillOpen, AtExchange, GuardSound
<1>1. ASSUME NEW a \in Addresses, NEW c \in Chains, G!AddToWhitelist(a, c) PROVE OnceInv'
  BY <1>1 DEF G!AddToWhitelist, G!rows, G!history
<1>2. ASSUME NEW p \in Proposals, NEW r \in G!Request, G!Propose(p, r) PROVE OnceInv'
  BY <1>2 DEF G!Propose, G!history, GuardTypes, G!Asking, G!Recorded
<1>3. ASSUME NEW p \in Proposals, G!ReadTotal(p) \/ G!Refuse(p) PROVE OnceInv'
  BY <1>3 DEF G!ReadTotal, G!Refuse, G!history, GuardTypes, G!Asking, G!Recorded
<1>4. ASSUME NEW p \in Proposals, G!Record(p) PROVE OnceInv'
  BY <1>4 DEF G!Record, GuardTypes, G!Asking, G!Recorded
<1>5. ASSUME NEW p \in Proposals, G!Reject(p) \/ G!TimeUp(p) PROVE OnceInv'
  BY <1>5 DEF G!Reject, G!TimeUp, G!Bury, GuardTypes, G!Recorded
<1>6. ASSUME NEW c \in Operators, NEW p \in Proposals, G!Confirm(c, p) PROVE OnceInv'
  BY <1>6 DEF G!Confirm, G!MayConfirm, G!rows, GuardTypes
<1>7. ASSUME NEW c \in Operators, NEW status \in {"completed", "failed"},
             NEW times \in {0, 1}, G!Outcome(c, status, times)
      PROVE  OnceInv'
  <2>1. c \in AtExchange(conf[c]) /\ conf[c] \in Proposals
    BY <1>7 DEF G!Outcome, GuardTypes
  <2> QED BY <1>7, <2>1 DEF G!Outcome, G!history, GuardTypes, G!Recorded
<1>8. ASSUME NEW c \in Operators, G!ConfirmEnds(c) PROVE OnceInv'
  BY <1>8 DEF G!ConfirmEnds, G!rows, G!history, GuardTypes
<1>9. CASE G!NextDay
  BY <1>9 DEF G!NextDay, G!rows, G!history
<1>10. CASE G!Restart
  <2>2. \A p \in Proposals \ doubled : sent'[p] <= 1
    BY <1>10, LastSent DEF GuardTypes
  <2> QED BY <1>10, <2>2 DEF G!Restart
<1> HIDE DEF OnceInv
<1> QED
  BY <1>1, <1>2, <1>3, <1>4, <1>5, <1>6, <1>7, <1>8, <1>9, <1>10
     DEF G!Next, G!Executed, G!NotSent, G!AnswerLost

\* The initial states satisfy the invariant.
LEMMA GuardInvInit == ASSUME GuardSound PROVE G!Init => GuardInv
  BY DEF G!Init, GuardInv, GuardTypes, DeadInv, OnceInv, StillOpen, AtExchange, G!Asking, G!Recorded, GuardSound

\* Every step keeps it.
LEMMA GuardInvStep == ASSUME GuardSound, GuardInv, [G!Next]_(G!vars) PROVE GuardInv'
<1>1. CASE G!Next
  BY <1>1, GuardTypesStep, DeadStep, OnceStep DEF GuardInv
<1>2. CASE UNCHANGED G!vars
  BY <1>2 DEF G!vars, G!rows, G!history, GuardInv, GuardTypes, DeadInv, OnceInv, StillOpen, AtExchange
<1> QED BY <1>1, <1>2

\* It implies what is promised of the confirmations.
LEMMA Confirmed == GuardInv => G!DeadStaysDead /\ G!TwiceNeedsOverlap
  BY DEF GuardInv, GuardTypes, DeadInv, OnceInv, G!DeadStaysDead, G!TwiceNeedsOverlap, G!Busy

\* What the proposals ask for.
Asked == [p \in Proposals |-> ask[p].amount]

\* The library's sum over proposals is the sum of these numbers.
LEMMA AskedSums ==
  ASSUME NEW Q \in SUBSET Proposals
  PROVE  G!MapThenSumSet(LAMBDA p : ask[p].amount, Q) = SumOf(Asked, Q)
<1> DEFINE F(h) == h = [s \in SUBSET Q |-> IF s = {} THEN 0
                          ELSE LET x == CHOOSE x \in s : TRUE IN ask[x].amount + h[s \ {x}]]
<1>1. IsFiniteSet(Q)
  BY RequestsAssumption, FS_Subset
<1>2. PICK k : Sums(k, Asked, Q)
  BY <1>1, SumsExist
<1>3. \A h : F(h) <=> Sums(h, Asked, Q)
  <2>1. \A s \in SUBSET Q : s # {} => First(s) \in Proposals
    BY FirstIn
  <2> TAKE h
  <2>2. [s \in SUBSET Q |-> IF s = {} THEN 0
           ELSE LET x == CHOOSE x \in s : TRUE IN ask[x].amount + h[s \ {x}]]
        = [s \in SUBSET Q |-> IF s = {} THEN 0 ELSE Asked[First(s)] + h[s \ {First(s)}]]
    BY <2>1 DEF First, Asked
  <2> QED BY <2>2 DEF Sums, Adds
<1>4. F(CHOOSE h : F(h))
  <2>1. F(k)
    BY <1>2, <1>3
  <2> HIDE DEF F
  <2> QED BY <2>1, Zenon
<1>5. G!MapThenSumSet(LAMBDA p : ask[p].amount, Q) = (CHOOSE h : F(h))[Q]
  BY DEF G!MapThenSumSet, G!MapThenFoldSet
<1> DEFINE g == CHOOSE h : F(h)
<1>6. Sums(g, Asked, Q) /\ Q \in SUBSET Q
  BY <1>3, <1>4
<1> HIDE DEF g
<1>7. g[Q] = SumOf(Asked, Q)
  BY <1>1, <1>6, SumIs
<1> QED BY <1>5, <1>7 DEF g

\* What was sent, or may still be.
Liable(p) == sent[p] > 0 \/ row[p] = "pending" \/ G!Busy(p)

\* What a day may cost the account.
Due(d) == {p \in Proposals : Liable(p) /\ ask[p].day = d}

\* A day that is not crowded costs its limit at most, and what a proposal was checked
\* against covers everything else that is due.
WithinInv ==
  \A d \in (0 .. MaxEvents) \ crowded :
    /\ SumOf(Asked, Due(d)) <= DailyLimit
    /\ \A p \in Proposals :
         row[p] = "read" /\ ask[p].day = d => SumOf(Asked, Due(d)) <= total[p]

LimitInv == GuardTypes /\ G!TypeOK /\ WithinInv

\* The amounts are numbers, and so are their sums.
LEMMA AskedTypes ==
  ASSUME G!TypeOK
  PROVE  /\ \A p \in Proposals : Asked[p] \in Nat /\ Asked[p] = ask[p].amount
         /\ \A p \in Proposals : ask[p].day \in 0 .. MaxEvents
         /\ \A Q \in SUBSET Proposals : IsFiniteSet(Q) /\ SumOf(Asked, Q) \in Nat
         /\ \A Q \in SUBSET Proposals : \A P \in SUBSET Q : SumOf(Asked, P) <= SumOf(Asked, Q)
<1>1. \A p \in Proposals : Asked[p] \in Nat /\ Asked[p] = ask[p].amount /\ ask[p].day \in 0 .. MaxEvents
  BY RequestsAssumption DEF Asked, G!TypeOK, G!Request
<1>2. \A Q \in SUBSET Proposals : IsFiniteSet(Q)
  BY RequestsAssumption, FS_Subset
<1>3. ASSUME NEW Q \in SUBSET Proposals, NEW P \in SUBSET Q
      PROVE  SumOf(Asked, P) \in Nat /\ SumOf(Asked, P) <= SumOf(Asked, Q)
  <2>1. IsFiniteSet(Q) /\ \A x \in Q : Asked[x] \in Nat
    BY <1>1, <1>2
  <2> QED BY <2>1, SumOfMore
<1> QED BY <1>1, <1>2, <1>3

\* A proposal without a row is not liable.
LEMMA NotLiable == ASSUME GuardTypes, NEW p \in Proposals, row[p] \in G!Asking PROVE ~Liable(p)
<1>1. row[p] \notin G!Recorded /\ row[p] # "pending"
  BY DEF G!Asking, G!Recorded
<1>2. ~(sent[p] > 0)
  BY <1>1 DEF GuardTypes
<1>3. ~G!Busy(p)
  <2>1. \A c \in Operators : conf[c] = p => conf[c] # None
    BY RequestsAssumption, NoneIsNothing
  <2> QED BY <1>1, <2>1 DEF G!Busy, GuardTypes
<1> QED BY <1>1, <1>2, <1>3 DEF Liable

\* A step that makes nothing liable, lets no proposal be checked and changes nothing of
\* those that are.
LEMMA NothingDue ==
  ASSUME G!TypeOK, WithinInv, G!TypeOK',
         crowded \subseteq crowded',
         \A p \in Proposals : Liable(p)' => Liable(p) /\ ask'[p] = ask[p],
         \A p \in Proposals : row'[p] = "read" =>
           row[p] = "read" /\ ask'[p] = ask[p] /\ total'[p] = total[p]
  PROVE  WithinInv'
<1> SUFFICES ASSUME NEW d \in 0 .. MaxEvents, d \notin crowded'
             PROVE  /\ SumOf(Asked', Due(d)') <= DailyLimit
                    /\ \A p \in Proposals : row'[p] = "read" /\ ask'[p].day = d
                         => SumOf(Asked', Due(d)') <= total'[p]
  BY DEF WithinInv
<1>1. /\ SumOf(Asked, Due(d)) <= DailyLimit
      /\ \A p \in Proposals :
           row[p] = "read" /\ ask[p].day = d => SumOf(Asked, Due(d)) <= total[p]
  BY DEF WithinInv
<1>2. Due(d)' \in SUBSET Due(d) /\ Due(d) \in SUBSET Proposals /\ Due(d)' \in SUBSET Proposals
  BY DEF Due
<1>3. \A p \in Due(d)' : Asked'[p] = Asked[p]
  BY DEF Due, Asked
<1>4. SumOf(Asked', Due(d)') = SumOf(Asked, Due(d)')
  <2>1. IsFiniteSet(Due(d)')
    BY <1>2, AskedTypes
  <2> QED BY <1>3, <2>1, SumOfSame
<1>5. /\ SumOf(Asked, Due(d)') <= SumOf(Asked, Due(d))
      /\ SumOf(Asked, Due(d)') \in Nat /\ SumOf(Asked, Due(d)) \in Nat
  BY <1>2, AskedTypes
<1>6. DailyLimit \in Nat /\ \A p \in Proposals : total[p] \in Nat
  BY RequestsAssumption DEF G!TypeOK
<1> QED BY <1>1, <1>4, <1>5, <1>6

\* The initial states satisfy the invariant.
LEMMA LimitInvInit == ASSUME G!Init PROVE G!TypeOK /\ WithinInv
<1> USE DEF G!Init
<1>1. G!Request # {}
  <2>1. PICK a \in Amounts, b \in Addresses, c \in Chains : TRUE
    BY RequestsAssumption
  <2>2. [amount |-> a, address |-> b, chain |-> c, day |-> 0] \in G!Request
    BY BooksAssumption DEF G!Request
  <2> QED BY <2>2
<1>2. (CHOOSE r \in G!Request : TRUE) \in G!Request
  BY <1>1
<1>3. ask \in [Proposals -> G!Request]
  BY <1>2
<1>4. G!TypeOK
  BY <1>3, BooksAssumption DEF G!TypeOK, G!Asking
<1>5. \A p \in Proposals : ~Liable(p) /\ row[p] # "read"
  <2>1. \A p \in Proposals : ~G!Busy(p)
    BY NoneIsNothing DEF G!Busy
  <2> QED BY <2>1 DEF Liable
<1>6. \A d : Due(d) = {}
  BY <1>5 DEF Due
<1>7. WithinInv
  BY <1>5, <1>6, SumOfNone, RequestsAssumption DEF WithinInv
<1> QED BY <1>4, <1>7

\* Every step keeps the types.
LEMMA LimitTypesStep == ASSUME GuardSound, GuardTypes, G!TypeOK, G!Next PROVE G!TypeOK'
<1> USE DEF G!TypeOK
<1>1. ASSUME NEW a \in Addresses, NEW c \in Chains, G!AddToWhitelist(a, c) PROVE G!TypeOK'
  BY <1>1 DEF G!AddToWhitelist, G!rows
<1>2. ASSUME NEW p \in Proposals, NEW r \in G!Request, G!Propose(p, r) PROVE G!TypeOK'
  BY <1>2 DEF G!Propose, G!Asking, G!Recorded
<1>3. ASSUME NEW p \in Proposals, G!ReadTotal(p) PROVE G!TypeOK'
  <2>1. G!TodayWithdrawn(p) \in Nat
    <3>1. {q \in Proposals : G!Counted(p, q)} \in SUBSET Proposals
      OBVIOUS
    <3> QED BY <3>1, AskedSums, AskedTypes DEF G!TodayWithdrawn
  <2> QED BY <1>3, <2>1 DEF G!ReadTotal, G!Asking, G!Recorded
<1>4. ASSUME NEW p \in Proposals, G!Refuse(p) PROVE G!TypeOK'
  BY <1>4 DEF G!Refuse, G!Asking, G!Recorded
<1>5. ASSUME NEW p \in Proposals, G!Record(p) PROVE G!TypeOK'
  <2>1. ask' \in [Proposals -> G!Request]
    BY <1>5 DEF G!Record, G!Request
  <2> QED BY <1>5, <2>1 DEF G!Record, G!Asking, G!Recorded
<1>6. ASSUME NEW p \in Proposals, G!Reject(p) \/ G!TimeUp(p) PROVE G!TypeOK'
  BY <1>6 DEF G!Reject, G!TimeUp, G!Recorded
<1>7. ASSUME NEW c \in Operators, NEW p \in Proposals, G!Confirm(c, p) PROVE G!TypeOK'
  <2>1. p # None
    BY NoneIsNothing
  <2> QED BY <1>7, <2>1 DEF G!Confirm, G!rows
<1>8. ASSUME NEW c \in Operators, G!Executed(c) \/ G!NotSent(c) \/ G!AnswerLost(c)
      PROVE  G!TypeOK'
  BY <1>8 DEF G!Executed, G!NotSent, G!AnswerLost, G!Outcome, G!Recorded, G!history
<1>9. ASSUME NEW c \in Operators, G!ConfirmEnds(c) PROVE G!TypeOK'
  BY <1>9 DEF G!ConfirmEnds, G!rows
<1>10. ASSUME G!NextDay PROVE G!TypeOK'
  BY <1>10, BooksAssumption DEF G!NextDay, G!rows
<1>11. ASSUME G!Restart PROVE G!TypeOK'
  <2>1. sent' \in [Proposals -> Nat]
    BY <1>11, LastSent
  <2> QED BY <1>11, <2>1, BooksAssumption DEF G!Restart, G!Asking, G!Recorded
<1> QED
  BY <1>1, <1>2, <1>3, <1>4, <1>5, <1>6, <1>7, <1>8, <1>9, <1>10, <1>11 DEF G!Next

\* The sum a proposal is checked against is that of all that is due, unless another one
\* is unsettled: what is sent and settled is completed.
LEMMA ChecksAll ==
  ASSUME GuardTypes, G!TypeOK, NEW p \in Proposals, ~Liable(p),
         ask[p].day \notin G!Crowd(p)
  PROVE  SumOf(Asked, Due(ask[p].day)) <= G!TodayWithdrawn(p)
<1> DEFINE Q == {q \in Proposals : G!Counted(p, q)}
<1>1. \A q \in Proposals \ {p} : ask[q].day = ask[p].day => ~G!Unsettled(q)
  BY DEF G!Crowd
<1>2. \A q \in Due(ask[p].day) : q \in Q
  BY <1>1 DEF Due, Liable, G!Unsettled, G!Counted
<1>3. Due(ask[p].day) \in SUBSET Q /\ Q \in SUBSET Proposals
  BY <1>2
<1>4. G!TodayWithdrawn(p) = SumOf(Asked, Q)
  BY <1>3, AskedSums DEF G!TodayWithdrawn
<1> QED BY <1>3, <1>4, AskedTypes

\* Reading the sum keeps the invariant.
LEMMA ReadKeeps ==
  ASSUME LimitInv, G!TypeOK', NEW p \in Proposals, G!ReadTotal(p)
  PROVE  WithinInv'
<1> USE DEF LimitInv
<1>1. row[p] = "asking" /\ ~Liable(p)
  BY NotLiable DEF G!ReadTotal, G!Asking
<1>2. /\ \A q \in Proposals : row'[q] = IF q = p THEN "read" ELSE row[q]
      /\ \A q \in Proposals : total'[q] = IF q = p THEN G!TodayWithdrawn(p) ELSE total[q]
      /\ ask' = ask /\ sent' = sent /\ conf' = conf /\ crowded' = G!Crowd(p)
  BY DEF G!ReadTotal, G!TypeOK
<1>3. \A d : Due(d)' = Due(d)
  BY <1>1, <1>2 DEF Due, Liable, G!Busy
<1>4. Asked' = Asked /\ crowded \subseteq crowded'
  BY <1>2 DEF Asked, G!Crowd
<1>5. ASSUME NEW d \in 0 .. MaxEvents, d \notin crowded', NEW q \in Proposals,
             row'[q] = "read", ask[q].day = d
      PROVE  SumOf(Asked, Due(d)) <= total'[q]
  <2>1. CASE q = p
    BY <1>1, <1>2, <1>5, <2>1, ChecksAll
  <2>2. CASE q # p
    BY <1>2, <1>4, <1>5, <2>2 DEF WithinInv
  <2> QED BY <2>1, <2>2
<1> QED BY <1>2, <1>3, <1>4, <1>5 DEF WithinInv

\* Recording a proposal keeps it: what is due grows by its amount, which was added to
\* the sum it was checked against, and no other proposal of the day is being checked.
LEMMA RecordKeeps ==
  ASSUME LimitInv, G!TypeOK', NEW p \in Proposals, G!Record(p)
  PROVE  WithinInv'
<1> USE DEF LimitInv
<1>1. row[p] = "read" /\ ~Liable(p) /\ total[p] + ask[p].amount <= DailyLimit
  BY NotLiable DEF G!Record, G!Asking, G!WithinLimit
<1>2. /\ \A q \in Proposals : row'[q] = IF q = p THEN "pending" ELSE row[q]
      /\ \A q \in Proposals : q # p => total'[q] = total[q] /\ ask'[q] = ask[q]
      /\ ask'[p].day = date /\ ask'[p].amount = ask[p].amount
      /\ sent' = sent /\ conf' = conf /\ date' = date
      /\ crowded' = IF ask[p].day # date THEN crowded \cup {date} ELSE G!Crowd(p)
  BY DEF G!Record, G!TypeOK, G!Request
<1>3. Asked' = Asked /\ crowded \subseteq crowded'
  BY <1>2 DEF Asked, G!Crowd
<1>4. /\ \A q \in Proposals : q # p => (Liable(q)' <=> Liable(q))
      /\ Liable(p)'
  BY <1>2 DEF Liable, G!Busy
<1>5. ASSUME NEW d \in 0 .. MaxEvents, d \notin crowded', d # date
      PROVE  /\ Due(d)' = Due(d)
             /\ SumOf(Asked, Due(d)) <= DailyLimit
             /\ \A q \in Proposals :
                  row'[q] = "read" /\ ask'[q].day = d => SumOf(Asked, Due(d)) <= total'[q]
  <2>1. Due(d)' = Due(d)
    BY <1>1, <1>2, <1>4, <1>5 DEF Due
  <2> QED BY <1>2, <1>3, <1>5, <2>1 DEF WithinInv
<1>6. ASSUME NEW d \in 0 .. MaxEvents, d = date, d \notin crowded'
      PROVE  /\ SumOf(Asked, Due(d)') <= DailyLimit
             /\ \A q \in Proposals : ~(row'[q] = "read" /\ ask'[q].day = d)
  <2>1. ask[p].day = d /\ d \notin crowded
    BY <1>2, <1>3, <1>6
  <2>2. \A q \in Proposals \ {p} : ask[q].day = d => ~G!Unsettled(q)
    BY <1>2, <1>6, <2>1 DEF G!Crowd
  <2>3. \A q \in Proposals : ~(row'[q] = "read" /\ ask'[q].day = d)
    BY <1>2, <2>2 DEF G!Unsettled
  <2>4. Due(d)' = Due(d) \cup {p} /\ p \notin Due(d)
    <3>1. ~Liable(p) /\ Liable(p)' /\ ask'[p].day = d /\ \A q \in Proposals :
            q # p => (Liable(q)' <=> Liable(q)) /\ ask'[q] = ask[q]
      BY <1>1, <1>2, <1>4, <1>6
    <3>2. Due(d)' = {q \in Proposals : Liable(q)' /\ ask'[q].day = d}
      BY DEF Due
    <3>3. Due(d) = {q \in Proposals : Liable(q) /\ ask[q].day = d}
      BY DEF Due
    <3> QED BY <2>1, <3>1, <3>2, <3>3
  <2>5. Due(d) \in SUBSET Proposals
    BY DEF Due
  <2>6. SumOf(Asked, Due(d) \cup {p}) = Asked[p] + SumOf(Asked, Due(d))
    <3>1. IsFiniteSet(Due(d)) /\ \A x \in Due(d) \cup {p} : Asked[x] \in Int
      BY <2>5, AskedTypes
    <3> QED BY <2>4, <3>1, SumWith
  <2>7. SumOf(Asked, Due(d)) <= total[p]
    BY <1>1, <1>6, <2>1 DEF WithinInv
  <2>8. /\ SumOf(Asked, Due(d)) \in Nat /\ total[p] \in Nat /\ DailyLimit \in Nat
        /\ ask[p].amount \in Nat /\ Asked[p] = ask[p].amount
    BY <2>5, AskedTypes, RequestsAssumption DEF G!TypeOK
  <2> QED BY <1>1, <2>3, <2>4, <2>6, <2>7, <2>8
<1> QED BY <1>3, <1>5, <1>6 DEF WithinInv

\* Every step keeps it; the others make nothing liable.
LEMMA WithinStep == ASSUME GuardSound, LimitInv, G!TypeOK', G!Next PROVE WithinInv'
<1> USE DEF LimitInv, G!TypeOK
<1> DEFINE Calm == /\ crowded \subseteq crowded'
                   /\ \A p \in Proposals : Liable(p)' => Liable(p) /\ ask'[p] = ask[p]
                   /\ \A p \in Proposals : row'[p] = "read" =>
                        row[p] = "read" /\ ask'[p] = ask[p] /\ total'[p] = total[p]
<1>0. Calm => WithinInv'
  <2> HIDE DEF G!TypeOK
  <2> QED BY NothingDue
<1>1. ASSUME NEW a \in Addresses, NEW c \in Chains, G!AddToWhitelist(a, c) PROVE Calm
  BY <1>1 DEF G!AddToWhitelist, G!rows, G!history, Liable, G!Busy
<1>2. ASSUME NEW p \in Proposals, NEW r \in G!Request, G!Propose(p, r) PROVE Calm
  <2>1. ~Liable(p)
    BY <1>2, NotLiable DEF G!Propose, G!Asking
  <2> QED BY <1>2, <2>1 DEF G!Propose, G!history, Liable, G!Busy
<1>3. ASSUME NEW p \in Proposals, G!Refuse(p) PROVE Calm
  BY <1>3 DEF G!Refuse, G!history, Liable, G!Busy
<1>4. ASSUME NEW p \in Proposals, G!Reject(p) \/ G!TimeUp(p) PROVE Calm
  BY <1>4 DEF G!Reject, G!TimeUp, Liable, G!Busy
<1>5. ASSUME NEW c \in Operators, NEW p \in Proposals, G!Confirm(c, p) PROVE Calm
  BY <1>5 DEF G!Confirm, G!rows, G!MayConfirm, Liable, G!Busy
<1>6. ASSUME NEW c \in Operators, G!Executed(c) \/ G!NotSent(c) \/ G!AnswerLost(c)
      PROVE  Calm
  <2>1. /\ \A p \in Proposals : p # conf[c] => sent'[p] = sent[p] /\ row'[p] = row[p]
        /\ row' [conf[c]] \in {"completed", "failed"}
        /\ conf[c] \in Proposals /\ conf' = conf /\ ask' = ask /\ total' = total
        /\ crowded' = crowded
    BY <1>6 DEF G!Executed, G!NotSent, G!AnswerLost, G!Outcome, G!history
  <2>2. Liable(conf[c])
    BY DEF Liable, G!Busy
  <2> QED BY <2>1, <2>2 DEF Liable, G!Busy
<1>7. ASSUME NEW c \in Operators, G!ConfirmEnds(c) PROVE Calm
  <2>1. /\ UNCHANGED <<row, ask, total, sent, crowded>>
        /\ \A p \in Proposals : G!Busy(p)' => G!Busy(p)
    BY <1>7, NoneIsNothing DEF G!ConfirmEnds, G!rows, G!history, G!Busy
  <2> QED BY <2>1 DEF Liable
<1>8. ASSUME G!NextDay PROVE Calm
  BY <1>8 DEF G!NextDay, G!rows, G!history, Liable, G!Busy
<1>9. ASSUME G!Restart PROVE Calm
  <2>1. /\ ask' = ask /\ crowded' = crowded
        /\ \A p \in Proposals : row'[p] # "read" /\ (row'[p] = "pending" => row[p] = "pending")
    BY <1>9 DEF G!Restart, G!Asking
  <2>2. \A p \in Proposals : ~G!Busy(p)'
    BY <1>9, NoneIsNothing DEF G!Restart, G!Busy
  <2>3. \A p \in Proposals : sent'[p] > 0 => sent[p] > 0 \/ G!Busy(p)
    <3>1. \A p \in Proposals : AtExchange(p) = {} => sent'[p] = sent[p]
      BY <1>9, LastSent
    <3> QED BY <3>1 DEF AtExchange, G!Busy
  <2> QED BY <2>1, <2>2, <2>3 DEF Liable
<1>10. ASSUME NEW p \in Proposals, G!ReadTotal(p) \/ G!Record(p) PROVE WithinInv'
  <2> HIDE DEF G!TypeOK
  <2> QED BY <1>10, ReadKeeps, RecordKeeps
<1> HIDE DEF Calm
<1> QED BY <1>0, <1>1, <1>2, <1>3, <1>4, <1>5, <1>6, <1>7, <1>8, <1>9, <1>10 DEF G!Next

\* Every step, then, and standing still keep the whole.
LEMMA LimitInvStep == ASSUME GuardSound, LimitInv, [G!Next]_(G!vars) PROVE LimitInv'
<1>1. CASE G!Next
  <2>1. GuardTypes' /\ G!TypeOK'
    BY <1>1, GuardTypesStep, LimitTypesStep DEF LimitInv
  <2> QED BY <1>1, <2>1, WithinStep DEF LimitInv
<1>2. CASE UNCHANGED G!vars
  <2> USE <1>2 DEF G!vars, G!rows, G!history
  <2>1. GuardTypes' /\ G!TypeOK'
    BY DEF LimitInv, GuardTypes, G!TypeOK, G!Busy
  <2>2. Asked' = Asked /\ \A d : Due(d)' = Due(d)
    BY DEF Asked, Due, Liable, G!Busy
  <2> QED BY <2>1, <2>2 DEF LimitInv, WithinInv
<1> QED BY <1>1, <1>2

\* A day's withdrawals are among what is due.
LEMMA LimitHolds == ASSUME LimitInv PROVE G!TypeOK /\ G!LimitUnlessCrowded
<1> SUFFICES ASSUME NEW d \in (0 .. MaxEvents) \ crowded
    PROVE G!MapThenSumSet(LAMBDA p : ask[p].amount,
            {p \in Proposals : sent[p] > 0 /\ ask[p].day = d}) <= DailyLimit
  BY DEF G!LimitUnlessCrowded, LimitInv
<1> DEFINE Q == {p \in Proposals : sent[p] > 0 /\ ask[p].day = d}
<1>1. Q \in SUBSET Due(d) /\ Due(d) \in SUBSET Proposals /\ Q \in SUBSET Proposals
  BY DEF Due, Liable
<1>2. SumOf(Asked, Q) <= SumOf(Asked, Due(d)) /\ SumOf(Asked, Due(d)) \in Nat
      /\ SumOf(Asked, Q) \in Nat
  BY <1>1, AskedTypes DEF LimitInv
<1>3. SumOf(Asked, Due(d)) <= DailyLimit /\ DailyLimit \in Nat
  BY RequestsAssumption DEF LimitInv, WithinInv
<1>4. G!MapThenSumSet(LAMBDA p : ask[p].amount, Q) = SumOf(Asked, Q)
  BY <1>1, AskedSums
<1> QED BY <1>2, <1>3, <1>4

-----------------------------------------------------------------------------
(* Re-optimisation.                                                        *)

\* What a run that goes on has left in a pair's file, unless one beside it has written.
FileSays(r, p) ==
  config[p] \in {IF found[r][p] \in R!Passed THEN r ELSE before[r][p]} \cup beside[r]

\* Runs that go on at once are beside each other, and the files hold what they found;
\* before a run begins it has found nothing.
CompanyInv ==
  /\ before \in [R!Runs -> [Pairs -> R!Runs \cup {None}]]
  /\ beside \in [R!Runs -> SUBSET R!Runs]
  /\ \A r, q \in R!Runs :
       phase[r] \in R!Going /\ phase[q] \in R!Going /\ q # r => q \in beside[r]
  /\ \A r \in R!Runs, p \in Pairs : phase[r] \in R!Going => FileSays(r, p)
  /\ \A r \in R!Runs, p \in Pairs : phase[r] \notin R!Going => found[r][p] = None

ReportInv == R!TypeOK /\ CompanyInv

\* The initial states satisfy the invariant.
LEMMA ReportInvInit == R!Init => ReportInv
<1>1. ASSUME R!Init PROVE R!TypeOK
  <2>1. flag \in BOOLEAN /\ dry \in BOOLEAN
    BY <1>1, Zenon DEF R!Init
  <2> QED BY <1>1, <2>1 DEF R!Init, R!TypeOK, R!Nothing
<1>2. R!Init => CompanyInv
  BY DEF R!Init, CompanyInv, R!Going, R!Nothing
<1> QED BY <1>1, <1>2 DEF ReportInv

\* A run begins: nothing was found, so that what the files hold is what they held.
LEMMA Begins ==
  ASSUME ReportInv, NEW r \in R!Runs, phase[r] \in {"off", "accepted"}, R!Started(r),
         flag' \in BOOLEAN, dry' \in BOOLEAN
  PROVE  ReportInv'
<1> USE DEF ReportInv, R!TypeOK, CompanyInv
<1> DEFINE others == {q \in R!Runs : phase[q] \in R!Going}
<1>1. /\ UNCHANGED <<found, judged, config>>
      /\ phase' = [phase EXCEPT ![r] = "search"]
      /\ before' = [before EXCEPT ![r] = config]
      /\ beside' = [q \in R!Runs |-> IF q = r THEN others
                                   ELSE IF q \in others THEN beside[q] \cup {r} ELSE beside[q]]
  BY DEF R!Started, R!search
<1>2. R!TypeOK'
  BY <1>1
<1>3. /\ before' \in [R!Runs -> [Pairs -> R!Runs \cup {None}]]
      /\ beside' \in [R!Runs -> SUBSET R!Runs]
  BY <1>1
<1>4. phase[r] \notin R!Going /\ \A p \in Pairs : found[r][p] = None
  BY DEF R!Going
<1>5. ASSUME NEW s \in R!Runs, NEW q \in R!Runs, phase'[s] \in R!Going, phase'[q] \in R!Going, q # s
      PROVE  q \in beside'[s]
  <2>1. CASE s = r
    <3>1. q \in others
      BY <1>1, <1>5, <2>1
    <3> QED BY <1>1, <2>1, <3>1
  <2>2. CASE s # r
    <3>1. s \in others
      BY <1>1, <1>5, <2>2
    <3>2. beside'[s] = beside[s] \cup {r}
      BY <1>1, <2>2, <3>1
    <3>3. q = r \/ phase[q] \in R!Going
      BY <1>1, <1>5
    <3> QED BY <1>5, <3>1, <3>2, <3>3
  <2> QED BY <2>1, <2>2
<1>6. ASSUME NEW s \in R!Runs, NEW p \in Pairs, phase'[s] \in R!Going PROVE FileSays(s, p)'
  <2>1. CASE s = r
    <3>1. None \notin R!Passed
      BY NoneIsNothing DEF R!Passed
    <3>2. found'[r][p] = None /\ before'[r][p] = config[p]
      BY <1>1, <1>4
    <3> QED BY <1>1, <2>1, <3>1, <3>2 DEF FileSays
  <2>2. CASE s # r
    <3>1. phase[s] \in R!Going /\ before'[s] = before[s] /\ beside[s] \subseteq beside'[s]
      BY <1>1, <1>6, <2>2
    <3> QED BY <1>1, <3>1 DEF FileSays
  <2> QED BY <2>1, <2>2
<1>7. \A s \in R!Runs, p \in Pairs : phase'[s] \notin R!Going => found'[s][p] = None
  BY <1>1 DEF R!Going
<1> QED BY <1>2, <1>3, <1>5, <1>6, <1>7

\* A run ends: it has found nothing any more.
LEMMA Ends == ASSUME ReportInv, NEW r \in R!Runs, R!Ended(r) PROVE ReportInv'
<1> USE DEF ReportInv, R!TypeOK, CompanyInv
<1>1. /\ UNCHANGED <<dry, config, before, beside>>
      /\ phase' = [phase EXCEPT ![r] = "done"]
      /\ flag' = IF r \in Manual THEN FALSE ELSE flag
      /\ found' = [found EXCEPT ![r] = R!Nothing] /\ judged' = [judged EXCEPT ![r] = {}]
  BY DEF R!Ended, R!history
<1>2. flag' \in BOOLEAN
  BY <1>1, Zenon
<1>3. R!TypeOK'
  BY <1>1, <1>2 DEF R!Nothing
<1>4. CompanyInv'
  BY <1>1 DEF R!Going, FileSays, R!Nothing
<1> QED BY <1>3, <1>4

\* What is found of other pairs, and by other runs, stays as it is.
SameElsewhere(r, p) ==
  \A s \in R!Runs, q \in Pairs : s # r \/ q # p => found'[s][q] = found[s][q]

\* A run that goes on writes a pair's file: with what it found, for itself and beside the
\* others.
LEMMA Writes ==
  ASSUME ReportInv, NEW r \in R!Runs, NEW p \in Pairs, phase[r] \in R!Going,
         UNCHANGED <<phase, before, beside>>,
         config' = [config EXCEPT ![p] = r], found'[r][p] \in R!Passed, SameElsewhere(r, p)
  PROVE  CompanyInv'
<1> USE DEF ReportInv, R!TypeOK, CompanyInv, SameElsewhere
<1>1. ASSUME NEW s \in R!Runs, NEW q \in Pairs, phase'[s] \in R!Going PROVE FileSays(s, q)'
  <2>1. CASE q # p
    BY <1>1, <2>1 DEF FileSays
  <2>2. CASE q = p /\ s = r
    BY <2>2 DEF FileSays
  <2>3. CASE q = p /\ s # r
    <3>1. r \in beside'[s] /\ config'[q] = r
      BY <1>1, <2>3
    <3> QED BY <3>1 DEF FileSays
  <2> QED BY <2>1, <2>2, <2>3
<1>2. \A s \in R!Runs, q \in Pairs : phase'[s] \notin R!Going => found'[s][q] = None
  OBVIOUS
<1>3. /\ before' \in [R!Runs -> [Pairs -> R!Runs \cup {None}]] /\ beside' \in [R!Runs -> SUBSET R!Runs]
      /\ \A s, q \in R!Runs :
           phase'[s] \in R!Going /\ phase'[q] \in R!Going /\ q # s => q \in beside'[s]
  OBVIOUS
<1> QED BY <1>1, <1>2, <1>3

\* Every step of a run, a search or a judgement keeps it.
LEMMA ReportInvStep == ASSUME ReportInv, [R!Next]_(R!vars) PROVE ReportInv'
<1> USE DEF ReportInv, R!TypeOK, CompanyInv
<1>1. ASSUME NEW r \in Manual, R!Accept(r) PROVE ReportInv'
  BY <1>1 DEF R!Accept, R!search, R!history, R!Going, FileSays, R!Runs
<1>2. ASSUME NEW r \in Manual, NEW d \in BOOLEAN, R!Begin(r, d) PROVE ReportInv'
  <2>1. r \in R!Runs /\ phase[r] = "accepted" /\ R!Started(r)
    BY <1>2 DEF R!Begin, R!Runs
  <2>2. flag' \in BOOLEAN /\ dry' \in BOOLEAN
    BY <1>2, Zenon DEF R!Begin
  <2> HIDE DEF ReportInv
  <2> QED BY <2>1, <2>2, Begins
<1>3. ASSUME NEW r \in Scheduled, R!Schedule(r) PROVE ReportInv'
  <2>1. r \in R!Runs /\ phase[r] = "off" /\ R!Started(r)
    BY <1>3 DEF R!Schedule, R!Runs
  <2>2. flag' \in BOOLEAN /\ dry' \in BOOLEAN
    BY <1>3, Zenon DEF R!Schedule
  <2> HIDE DEF ReportInv
  <2> QED BY <2>1, <2>2, Begins
<1>4. ASSUME NEW r \in R!Runs, NEW p \in Pairs, NEW v \in R!Found, R!OptimizePair(r, p, v)
      PROVE  ReportInv'
  <2>1. /\ UNCHANGED <<flag, dry, phase, judged, before, beside>>
        /\ phase[r] = "search" /\ found[r][p] = None
        /\ found' = [found EXCEPT ![r][p] = v]
        /\ config' = IF v \in R!Passed THEN [config EXCEPT ![p] = r] ELSE config
    BY <1>4 DEF R!OptimizePair, R!WriteIfPassed, R!history
  <2>2. R!TypeOK'
    BY <2>1
  <2>3. found'[r][p] = v /\ phase[r] \in R!Going /\ SameElsewhere(r, p)
    BY <2>1 DEF R!Going, SameElsewhere
  <2>4. CASE v \in R!Passed
    <3>1. config' = [config EXCEPT ![p] = r]
      BY <2>1, <2>4
    <3>2. CompanyInv'
      <4> HIDE DEF ReportInv, CompanyInv
      <4> QED BY <2>1, <2>3, <2>4, <3>1, Writes
    <3> QED BY <2>2, <3>2
  <2>5. CASE v \notin R!Passed
    <3>1. None \notin R!Passed
      BY NoneIsNothing DEF R!Passed
    <3>2. \A s \in R!Runs, q \in Pairs : phase[s] \in R!Going => FileSays(s, q)'
      BY <2>1, <2>3, <2>5, <3>1 DEF FileSays, SameElsewhere
    <3>3. CompanyInv'
      BY <2>1, <2>3, <3>2 DEF SameElsewhere
    <3> QED BY <2>2, <3>3
  <2> QED BY <2>4, <2>5
<1>5. ASSUME NEW r \in R!Runs, R!Searched(r) PROVE ReportInv'
  <2>1. /\ UNCHANGED <<flag, dry, found, config, before, beside>>
        /\ phase[r] = "search" /\ phase' = [phase EXCEPT ![r] = "judge"]
        /\ judged' = [judged EXCEPT ![r] = {p \in Pairs : found[r][p] = "failed"}]
    BY <1>5 DEF R!Searched, R!history
  <2>2. R!TypeOK'
    BY <2>1
  <2>3. CompanyInv'
    BY <2>1 DEF R!Going, FileSays
  <2> QED BY <2>2, <2>3
<1>6. ASSUME NEW r \in R!Runs, NEW p \in Pairs, R!Judge(r, p) PROVE ReportInv'
  <2>1. /\ UNCHANGED <<flag, dry, phase, found, before, beside>>
        /\ phase[r] \in R!Going
        /\ judged' = [judged EXCEPT ![r] = @ \cup {p}]
        /\ config' = config \/ (found[r][p] = "good" /\ config' = [config EXCEPT ![p] = r])
    BY <1>6 DEF R!Judge, R!history, R!Going
  <2>2. R!TypeOK'
    BY <2>1
  <2>3. CASE config' = config
    <3>1. CompanyInv'
      BY <2>1, <2>3 DEF FileSays
    <3> QED BY <2>2, <3>1
  <2>4. CASE found[r][p] = "good" /\ config' = [config EXCEPT ![p] = r]
    <3>1. found'[r][p] \in R!Passed /\ SameElsewhere(r, p)
      BY <2>1, <2>4 DEF R!Passed, SameElsewhere
    <3>2. CompanyInv'
      <4> HIDE DEF ReportInv, CompanyInv
      <4> QED BY <2>1, <2>4, <3>1, Writes
    <3> QED BY <2>2, <3>2
  <2> QED BY <2>1, <2>3, <2>4
<1>7. ASSUME NEW r \in R!Runs, R!Finish(r) \/ R!Fail(r) PROVE ReportInv'
  <2> HIDE DEF ReportInv
  <2> QED BY <1>7, Ends DEF R!Finish, R!Fail
<1>8. CASE UNCHANGED R!vars
  BY <1>8 DEF R!vars, R!search, R!history, R!Going, FileSays
<1> HIDE DEF ReportInv
<1> QED BY <1>1, <1>2, <1>3, <1>4, <1>5, <1>6, <1>7, <1>8 DEF R!Next

\* It implies what is promised of the reports.
LEMMA ReportsTrue == ReportInv => R!TypeOK /\ R!ReportIsTrue
<1> SUFFICES ASSUME ReportInv, NEW r \in R!Runs, phase[r] = "judge", NEW p \in Pairs
    PROVE  /\ found[r][p] = "good" => config[p] \in {r} \cup beside[r]
           /\ found[r][p] \in {"unfit", "failed"} => config[p] \in {before[r][p]} \cup beside[r]
  BY DEF ReportInv, R!TypeOK, R!ReportIsTrue
<1>1. FileSays(r, p)
  BY DEF ReportInv, CompanyInv, R!Going
<1> QED BY <1>1 DEF FileSays, R!Passed

-----------------------------------------------------------------------------
(* The parts side by side.                                                 *)

\* A step of one part leaves the variables of the others as they are.
LEMMA PartsStep ==
  ASSUME [BooksNext]_allVars
  PROVE  /\ [Next]_vars /\ [T!Next]_(T!vars) /\ [G!Next]_(G!vars) /\ [J!Next]_(J!vars)
         /\ [R!Next]_(R!vars) /\ [E!Next]_(E!vars) /\ [A!Next]_(A!vars) /\ [K!Next]_(K!vars)
<1>1. UNCHANGED treasury => UNCHANGED T!vars
  BY DEF treasury, T!vars, T!table, T!loops, T!account
<1>2. UNCHANGED guard => UNCHANGED G!vars
  BY DEF guard, G!vars, G!rows, G!history
<1>3. UNCHANGED jobStore => UNCHANGED J!vars
  BY DEF jobStore, J!vars, J!history
<1>4. UNCHANGED reopt => UNCHANGED R!vars
  BY DEF reopt, R!vars, R!search, R!history
<1>5. UNCHANGED paper => UNCHANGED E!vars
  BY DEF paper, E!vars
<1>6. UNCHANGED alerts => UNCHANGED A!vars
  BY DEF alerts, A!vars, A!history
<1>7. UNCHANGED candles => UNCHANGED K!vars
  BY DEF candles, K!vars
<1>8. CASE BooksNext
  BY <1>1, <1>2, <1>3, <1>4, <1>5, <1>6, <1>7, <1>8 DEF BooksNext
<1>9. CASE UNCHANGED allVars
  BY <1>1, <1>2, <1>3, <1>4, <1>5, <1>6, <1>7, <1>9 DEF allVars
<1> QED BY <1>8, <1>9

\* The invariants of these four parts together.
BooksInv == FoldInv /\ TreasuryInv /\ GuardInv /\ LimitInv /\ ReportInv

\* What the guard is assumed to be given follows from the assumptions on Books.
LEMMA GuardIsSound == GuardSound
  BY NoneIsNothing, BooksAssumption DEF GuardSound

\* The initial states satisfy them all.
LEMMA BooksInvInit == BooksInit => BooksInv
<1> SUFFICES ASSUME BooksInit PROVE BooksInv
  OBVIOUS
<1>1. FoldInv /\ TreasuryInv /\ GuardInv /\ ReportInv
  BY FoldInvInit, TreasuryInvInit, GuardIsSound, GuardInvInit, ReportInvInit DEF BooksInit
<1>2. LimitInv
  BY <1>1, LimitInvInit DEF BooksInit, GuardInv, LimitInv
<1> QED BY <1>1, <1>2 DEF BooksInv

\* A step of one part keeps its own; the others do not move.
LEMMA BooksInvStep == BooksInv /\ [BooksNext]_allVars => BooksInv'
<1> SUFFICES ASSUME BooksInv, [BooksNext]_allVars PROVE BooksInv'
  OBVIOUS
<1> USE PartsStep DEF BooksInv
<1>1. FoldInv'
  BY FoldInvStep
<1>2. TreasuryInv'
  BY TreasuryInvStep
<1>3. GuardInv' /\ LimitInv'
  BY GuardIsSound, GuardInvStep, LimitInvStep
<1>4. ReportInv'
  BY ReportInvStep
<1> QED BY <1>1, <1>2, <1>3, <1>4

\* The invariants of the four parts hold in every state of every behaviour.
THEOREM BooksInvariance == BooksSpec => []BooksInv
  BY BooksInvInit, BooksInvStep, PTL DEF BooksSpec

\* The variables of the generator and of the simulation keep their types
\* (SignalGenerator._reset_trade_state, WalkForwardEngine._simulate_trades).
THEOREM TypeCorrect == BooksSpec => []TypeOK
<1>1. FoldInv => TypeOK
  BY DEF FoldInv, SignalInv, SignalType, SimulationType, TypeOK
<1> QED BY <1>1, BooksInvariance, PTL DEF BooksInv

\* An entry comes no earlier after an exit than the cooldown that exit set, and a trade
\* is never held up by a cooldown (SignalGenerator._compute_signal).
THEOREM EntriesArePaced == BooksSpec => []PauseAfterExit
<1>1. FoldInv => PauseAfterExit
  BY DEF FoldInv, SignalInv, Owing
<1> QED BY <1>1, BooksInvariance, PTL DEF BooksInv

\* The time stop ends every trade whose bars all had a half-life
\* (SignalGenerator._compute_signal).
THEOREM TimeStopEndsTrades == BooksSpec => []TradesTimeOut
<1>1. FoldInv => TradesTimeOut
  <2> SUFFICES ASSUME FoldInv, inTrade, ~unknown PROVE TradesTimeOut
    BY DEF TradesTimeOut
  <2>1. PICK h \in HalfLives : bars <= TimeStop(h) + 1
    BY DEF FoldInv, SignalInv, Aging
  <2>2. TimeStop(h) \in Nat /\ bars \in Nat
    BY BarCounts DEF FoldInv, SignalInv, SignalType
  <2>3. age = bars + (IF partial THEN 1 ELSE 0)
    BY DEF FoldInv, SignalInv, Aging
  <2>4. age <= TimeStop(h) + 1 + (IF partial THEN 1 ELSE 0)
    BY <2>1, <2>2, <2>3
  <2> QED
    BY <2>4 DEF TradesTimeOut
<1> QED BY <1>1, BooksInvariance, PTL DEF BooksInv

\* The trade the simulation books is the one the generator is in
\* (WalkForwardEngine._simulate_trades).
THEOREM SimulationFollows == BooksSpec => []FoldFollowsSignals
<1>1. FoldInv => FoldFollowsSignals
  BY DEF FoldInv
<1> QED BY <1>1, BooksInvariance, PTL DEF BooksInv

\* execution/internal_transfer_manager.py, capital_allocator.py, capital_manager.py:
\* however the two daily tasks, the recorders, the clock and restarts interleave, a task
\* starts one cycle a day at most besides those that a cancellation swallowed by its wait
\* starts, and two transfers complete within one cooldown only if
\* the second was let through while the first was on its way.
THEOREM TransfersAreSpaced == BooksSpec => []MovesAreSpaced
<1>1. BooksInv => MovesAreSpaced
  BY MovesSpaced DEF BooksInv, TreasuryInv, MovesAreSpaced
<1> QED BY <1>1, BooksInvariance, PTL

\* execution/daily_pnl_tracker.py: a day's total is the sum of the results recorded for it,
\* although each record() looks for the day's row in one statement and writes in another,
\* so that two of them may insert a row each.
THEOREM NothingIsLost == BooksSpec => []NothingLost
<1>1. BooksInv => NothingLost
  BY TableAddsUp DEF BooksInv, TreasuryInv, NothingLost
<1> QED BY <1>1, BooksInvariance, PTL

\* execution/capital_allocator.py, capital_manager.py, internal_transfer_manager.py: what
\* the two tasks move to the spot wallet in the cycles of a day, the shares of the strategies
\* and the sweeps together, is at most half of the day's highest profit for each cycle,
\* across restarts, cancellations and lost answers: within that profit when each task had
\* one cycle.
THEOREM MovesStayWithinProfit == BooksSpec => []MovedWithinProfit
<1>1. BooksInv => MovedWithinProfit
  BY WithinProfit DEF BooksInv, MovedWithinProfit
<1> QED BY <1>1, BooksInvariance, PTL

\* execution/withdrawal_guard.py: a proposal that was rejected, had expired or was lost in
\* a restart is never sent, and one is sent twice only if it was confirmed again while the
\* first confirmation was still talking to the exchange.
THEOREM ConfirmedAtMostOnce == BooksSpec => []ConfirmedOnce
<1>1. BooksInv => ConfirmedOnce
  BY Confirmed DEF BooksInv, ConfirmedOnce
<1> QED BY <1>1, BooksInvariance, PTL

\* execution/withdrawal_guard.py: what is withdrawn on a day stays within its limit, unless
\* a proposal of that day was checked while another one was unsettled, or was checked one
\* day and recorded the next.
THEOREM LimitHoldsUnlessCrowded == BooksSpec => []LimitUnlessCrowded
<1>1. BooksInv => LimitUnlessCrowded
  BY LimitHolds DEF BooksInv, LimitUnlessCrowded
<1> QED BY <1>1, BooksInvariance, PTL

\* backtest/auto_reoptimizer.py, param_grid_optimizer.py: what a run reports of a pair can
\* only be belied by a run beside it: the file of a pair it applied holds its parameters,
\* that of an unfit pair or of one whose search raised what it held before, or else what a
\* run beside it has written.
THEOREM ReportsAreTrue == BooksSpec => []ReportIsTrue
<1>1. BooksInv => ReportIsTrue
  BY ReportsTrue DEF BooksInv, ReportIsTrue
<1> QED BY <1>1, BooksInvariance, PTL
=============================================================================
