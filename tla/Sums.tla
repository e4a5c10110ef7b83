-------------------------------- MODULE Sums --------------------------------
(***************************************************************************)
(* Lemmas about sums over finite sets, for the proofs of the components.   *)
(*                                                                         *)
(* The sums of the community modules are recursive functions on the        *)
(* subsets of a set, and the induction theorems of the library cannot be   *)
(* instantiated; what is shown here by induction is shown by looking at a  *)
(* smallest counterexample instead.                                        *)
(***************************************************************************)
EXTENDS Functions, Integers, FiniteSetTheorems, TLAPS

-----------------------------------------------------------------------------
(* Induction. *)

\* Among finite sets of some kind there is one none of whose proper subsets is
\* of that kind.
LEMMA SmallestSubset ==
    ASSUME NEW S, IsFiniteSet(S), NEW Kind \in SUBSET SUBSET S, Kind # {}
    PROVE  \E T \in Kind : \A U \in SUBSET T : U # T => U \notin Kind
  <1>1. FiniteSubsetsOf(S) = SUBSET S
    BY FS_FiniteSubsetsOfFinite
  <1>2. IsWellFoundedOn(StrictSubsetOrdering(S), SUBSET S)
    BY <1>1, FS_StrictSubsetOrderingWellFounded
  <1>3. PICK T \in Kind : \A U \in Kind : <<U, T>> \notin StrictSubsetOrdering(S)
    BY <1>2, WFMin
  <1>4. \A U \in SUBSET T : U # T => U \notin Kind
    BY <1>3 DEF StrictSubsetOrdering
  <1> QED
    BY <1>4
-----------------------------------------------------------------------------
(* The recursion of a sum. *)

\* The element the sum of a set takes first.
Pick(s) == CHOOSE x \in s : TRUE

\* it is the recursive function by which f is summed over the subsets of S.
Sums(f, S, it) ==
    it = [s \in SUBSET S |-> IF s = {} THEN 0 ELSE f[Pick(s)] + it[s \ {Pick(s)}]]

LEMMA PickIn == ASSUME NEW s, s # {} PROVE Pick(s) \in s
  BY DEF Pick

LEMMA SumsUnique ==
    ASSUME NEW S, IsFiniteSet(S), NEW f, NEW a, NEW T \in SUBSET S, NEW b,
           Sums(f, S, a), Sums(f, T, b)
    PROVE  \A s \in SUBSET T : a[s] = b[s]
  <1> DEFINE Kind == {s \in SUBSET T : a[s] # b[s]}
  <1>1. SUFFICES ASSUME Kind # {} PROVE FALSE
    OBVIOUS
  <1>2. PICK s \in Kind : \A u \in SUBSET s : u # s => u \notin Kind
    <2>1. IsFiniteSet(T) /\ Kind \in SUBSET SUBSET T
      BY FS_Subset
    <2> HIDE DEF Kind
    <2> QED
      BY <1>1, <2>1, SmallestSubset
  <1>3. CASE s = {}
    BY <1>3 DEF Sums
  <1>4. CASE s # {}
    <2>1. Pick(s) \in s
      BY <1>4, PickIn
    <2>2. s \ {Pick(s)} \in SUBSET s /\ s \ {Pick(s)} # s
      BY <2>1
    <2>3. a[s \ {Pick(s)}] = b[s \ {Pick(s)}]
      BY <1>2, <2>2
    <2>4. /\ a[s] = f[Pick(s)] + a[s \ {Pick(s)}]
          /\ b[s] = f[Pick(s)] + b[s \ {Pick(s)}]
      BY <1>4 DEF Sums
    <2> QED
      BY <2>3, <2>4
  <1> QED
    BY <1>3, <1>4

LEMMA SumsExist ==
    ASSUME NEW S, IsFiniteSet(S), NEW f
    PROVE  \E it : Sums(f, S, it)
  <1> DEFINE Kind == {s \in SUBSET S : ~ \E it : Sums(f, s, it)}
  <1>1. SUFFICES ASSUME Kind # {} PROVE FALSE
    OBVIOUS
  <1>2. PICK T \in Kind : \A u \in SUBSET T : u # T => u \notin Kind
    <2> HIDE DEF Kind
    <2>1. Kind \in SUBSET SUBSET S
      BY DEF Kind
    <2> QED
      BY <1>1, <2>1, SmallestSubset
  <1> DEFINE It(s) == CHOOSE it : Sums(f, s, it)
             g     == [s \in SUBSET T |->
                         IF s = {} THEN 0
                         ELSE f[Pick(s)] + It(s \ {Pick(s)})[s \ {Pick(s)}]]
  <1>3. ASSUME NEW s \in SUBSET T, s # T PROVE Sums(f, s, It(s)) /\ IsFiniteSet(s)
    <2>1. \E it : Sums(f, s, it)
      BY <1>2, <1>3
    <2> QED
      BY <2>1, FS_Subset
  <1> HIDE DEF It
  <1>4. ASSUME NEW s \in SUBSET T, s # {}
        PROVE  g[s \ {Pick(s)}] = It(s \ {Pick(s)})[s \ {Pick(s)}]
    <2> DEFINE r == s \ {Pick(s)}
    <2>1. r \in SUBSET T /\ r # T
      BY <1>4, PickIn
    <2>2. Sums(f, r, It(r)) /\ IsFiniteSet(r)
      BY <1>3, <2>1
    <2> HIDE DEF r
    <2>3. CASE r = {}
      <3>1. g[r] = 0
        BY <2>1, <2>3
      <3>2. It(r)[r] = 0
        BY <2>2, <2>3 DEF Sums
      <3> QED
        BY <3>1, <3>2 DEF r
    <2>4. CASE r # {}
      <3> DEFINE q == r \ {Pick(r)}
      <3>1. Pick(r) \in r /\ q \in SUBSET r /\ q \in SUBSET T /\ q # T
        BY <2>1, <2>4, PickIn
      <3>2. Sums(f, q, It(q))
        BY <1>3, <3>1
      <3> HIDE DEF q
      <3>3. It(r)[q] = It(q)[q]
        BY <2>2, <3>1, <3>2, SumsUnique
      <3>4. It(r)[r] = f[Pick(r)] + It(r)[q]
        BY <2>2, <2>4 DEF Sums, q
      <3>5. g[r] = f[Pick(r)] + It(q)[q]
        BY <2>1, <2>4 DEF q
      <3> QED
        BY <3>3, <3>4, <3>5 DEF r
    <2> QED
      BY <2>3, <2>4
  <1>5. Sums(f, T, g)
    BY <1>4 DEF Sums
  <1> QED
    BY <1>2, <1>5

LEMMA SumIsLast ==
    ASSUME NEW S, IsFiniteSet(S), NEW f
    PROVE  \E it : Sums(f, S, it) /\ SumFunctionOnSet(f, S) = it[S]
  <1> DEFINE it == CHOOSE it : Sums(f, S, it)
  <1>1. Sums(f, S, it)
    BY SumsExist
  <1>2. SumFunctionOnSet(f, S) = it[S]
    BY DEF SumFunctionOnSet, FoldFunctionOnSet, MapThenFoldSet, Sums, Pick
  <1> QED
    BY <1>1, <1>2
-----------------------------------------------------------------------------
(* Sums. *)

LEMMA SumEmpty == ASSUME NEW f PROVE SumFunctionOnSet(f, {}) = 0
  <1>1. PICK it : Sums(f, {}, it) /\ SumFunctionOnSet(f, {}) = it[{}]
    BY FS_EmptySet, SumIsLast
  <1> QED
    BY <1>1 DEF Sums

\* The sum takes one element first.
LEMMA SumTakes ==
    ASSUME NEW S, IsFiniteSet(S), S # {}, NEW f
    PROVE  SumFunctionOnSet(f, S) = f[Pick(S)] + SumFunctionOnSet(f, S \ {Pick(S)})
  <1> DEFINE T == S \ {Pick(S)}
  <1>1. T \in SUBSET S /\ IsFiniteSet(T)
    BY FS_Subset
  <1>2. PICK a : Sums(f, S, a) /\ SumFunctionOnSet(f, S) = a[S]
    BY SumIsLast
  <1>3. PICK b : Sums(f, T, b) /\ SumFunctionOnSet(f, T) = b[T]
    BY <1>1, SumIsLast
  <1>4. a[T] = b[T]
    BY <1>1, <1>2, <1>3, SumsUnique
  <1>5. a[S] = f[Pick(S)] + a[T]
    BY <1>2 DEF Sums
  <1> QED
    BY <1>2, <1>3, <1>4, <1>5

\* Sums of integers are integers, and it does not matter which element is taken.
LEMMA SumTakesAny ==
    ASSUME NEW S, IsFiniteSet(S), NEW f, \A x \in S : f[x] \in Int
    PROVE  /\ SumFunctionOnSet(f, S) \in Int
           /\ \A x \in S :
                 SumFunctionOnSet(f, S) = f[x] + SumFunctionOnSet(f, S \ {x})
  <1> DEFINE Good(s) ==
               /\ SumFunctionOnSet(f, s) \in Int
               /\ \A x \in s :
                     SumFunctionOnSet(f, s) = f[x] + SumFunctionOnSet(f, s \ {x})
             Kind == {s \in SUBSET S : ~Good(s)}
  <1>1. SUFFICES ASSUME Kind # {} PROVE FALSE
    OBVIOUS
  <1> HIDE DEF Good
  <1>2. PICK T \in Kind : \A u \in SUBSET T : u # T => u \notin Kind
    <2> HIDE DEF Kind
    <2>1. Kind \in SUBSET SUBSET S
      BY DEF Kind
    <2> QED
      BY <1>1, <2>1, SmallestSubset
  <1>3. IsFiniteSet(T) /\ T \in SUBSET S
    BY FS_Subset
  <1>4. ASSUME NEW u \in SUBSET T, u # T PROVE Good(u)
    BY <1>2, <1>3, <1>4
  <1>5. CASE T = {}
    BY <1>2, <1>5, SumEmpty DEF Good
  <1>6. CASE T # {}
    <2> DEFINE p == Pick(T)
    <2>1. p \in T /\ SumFunctionOnSet(f, T) = f[p] + SumFunctionOnSet(f, T \ {p})
      BY <1>3, <1>6, PickIn, SumTakes
    <2> HIDE DEF p
    <2>2. Good(T \ {p}) /\ f[p] \in Int
      BY <1>3, <1>4, <2>1
    <2>3. SumFunctionOnSet(f, T) \in Int
      BY <2>1, <2>2 DEF Good
    <2>4. ASSUME NEW x \in T
          PROVE  SumFunctionOnSet(f, T) = f[x] + SumFunctionOnSet(f, T \ {x})
      <3>1. CASE x = p
        BY <2>1, <3>1
      <3>2. CASE x # p
        <4>1. SumFunctionOnSet(f, T \ {p}) = f[x] + SumFunctionOnSet(f, (T \ {p}) \ {x})
          BY <2>2, <3>2 DEF Good
        <4>2. Good(T \ {x}) /\ p \in T \ {x}
          BY <1>4, <2>1, <3>2
        <4>3. SumFunctionOnSet(f, T \ {x}) = f[p] + SumFunctionOnSet(f, (T \ {x}) \ {p})
          BY <4>2 DEF Good
        <4>4. (T \ {x}) \ {p} = (T \ {p}) \ {x}
          OBVIOUS
        <4>5. Good((T \ {p}) \ {x}) /\ f[x] \in Int
          BY <1>3, <1>4, <2>1, <3>2
        <4> QED
          BY <2>1, <2>2, <4>1, <4>3, <4>4, <4>5 DEF Good
      <3> QED
        BY <3>1, <3>2
    <2> QED
      BY <1>2, <2>3, <2>4 DEF Good
  <1> QED
    BY <1>5, <1>6

\* Functions that agree have the same sum.
LEMMA SumSame ==
    ASSUME NEW S, IsFiniteSet(S), NEW f, NEW g, \A x \in S : f[x] \in Int /\ g[x] = f[x]
    PROVE  SumFunctionOnSet(g, S) = SumFunctionOnSet(f, S)
  <1> DEFINE Good(s) == SumFunctionOnSet(g, s) = SumFunctionOnSet(f, s)
             Kind    == {s \in SUBSET S : ~Good(s)}
  <1>1. SUFFICES ASSUME Kind # {} PROVE FALSE
    BY DEF Good
  <1> HIDE DEF Good
  <1>2. PICK T \in Kind : \A u \in SUBSET T : u # T => u \notin Kind
    <2> HIDE DEF Kind
    <2>1. Kind \in SUBSET SUBSET S
      BY DEF Kind
    <2> QED
      BY <1>1, <2>1, SmallestSubset
  <1>3. IsFiniteSet(T) /\ T \in SUBSET S
    BY FS_Subset
  <1>4. CASE T = {}
    BY <1>2, <1>4, SumEmpty DEF Good
  <1>5. CASE T # {}
    <2>1. PICK p \in T : TRUE
      BY <1>5
    <2>2. Good(T \ {p}) /\ IsFiniteSet(T \ {p})
      BY <1>2, <1>3, FS_Subset
    <2>3. /\ SumFunctionOnSet(f, T) = f[p] + SumFunctionOnSet(f, T \ {p})
          /\ SumFunctionOnSet(g, T) = g[p] + SumFunctionOnSet(g, T \ {p})
      BY <1>3, SumTakesAny
    <2>4. /\ SumFunctionOnSet(f, T \ {p}) \in Int
          /\ SumFunctionOnSet(g, T \ {p}) \in Int
      BY <2>2, SumTakesAny
    <2> QED
      BY <1>2, <1>3, <2>2, <2>3, <2>4 DEF Good
  <1> QED
    BY <1>4, <1>5

\* Sums are monotonic.
LEMMA SumGrows ==
    ASSUME NEW S, IsFiniteSet(S), NEW f, NEW g,
           \A x \in S : f[x] \in Int /\ g[x] \in Int /\ f[x] <= g[x]
    PROVE  SumFunctionOnSet(f, S) <= SumFunctionOnSet(g, S)
  <1> DEFINE Good(s) == SumFunctionOnSet(f, s) <= SumFunctionOnSet(g, s)
             Kind    == {s \in SUBSET S : ~Good(s)}
  <1>1. SUFFICES ASSUME Kind # {} PROVE FALSE
    BY DEF Good
  <1> HIDE DEF Good
  <1>2. PICK T \in Kind : \A u \in SUBSET T : u # T => u \notin Kind
    <2> HIDE DEF Kind
    <2>1. Kind \in SUBSET SUBSET S
      BY DEF Kind
    <2> QED
      BY <1>1, <2>1, SmallestSubset
  <1>3. IsFiniteSet(T) /\ T \in SUBSET S
    BY FS_Subset
  <1>4. CASE T = {}
    BY <1>2, <1>4, SumEmpty DEF Good
  <1>5. CASE T # {}
    <2>1. PICK p \in T : TRUE
      BY <1>5
    <2>2. Good(T \ {p}) /\ IsFiniteSet(T \ {p})
      BY <1>2, <1>3, FS_Subset
    <2>3. /\ SumFunctionOnSet(f, T) = f[p] + SumFunctionOnSet(f, T \ {p})
          /\ SumFunctionOnSet(g, T) = g[p] + SumFunctionOnSet(g, T \ {p})
      BY <1>3, SumTakesAny
    <2>4. /\ SumFunctionOnSet(f, T \ {p}) \in Int
          /\ SumFunctionOnSet(g, T \ {p}) \in Int
      BY <2>2, SumTakesAny
    <2> QED
      BY <1>2, <1>3, <2>2, <2>3, <2>4 DEF Good
  <1> QED
    BY <1>4, <1>5

\* Sums are linear.
LEMMA SumLinear ==
    ASSUME NEW S, IsFiniteSet(S), NEW a \in Int, NEW f, NEW g, NEW h,
           \A x \in S : f[x] \in Int /\ g[x] \in Int /\ h[x] = a * f[x] + g[x]
    PROVE  SumFunctionOnSet(h, S) = a * SumFunctionOnSet(f, S) + SumFunctionOnSet(g, S)
  <1> DEFINE Good(s) == SumFunctionOnSet(h, s) = a * SumFunctionOnSet(f, s) + SumFunctionOnSet(g, s)
             Kind    == {s \in SUBSET S : ~Good(s)}
  <1>1. SUFFICES ASSUME Kind # {} PROVE FALSE
    BY DEF Good
  <1> HIDE DEF Good
  <1>2. PICK T \in Kind : \A u \in SUBSET T : u # T => u \notin Kind
    <2> HIDE DEF Kind
    <2>1. Kind \in SUBSET SUBSET S
      BY DEF Kind
    <2> QED
      BY <1>1, <2>1, SmallestSubset
  <1>3. IsFiniteSet(T) /\ T \in SUBSET S
    BY FS_Subset
  <1>4. CASE T = {}
    BY <1>2, <1>4, SumEmpty DEF Good
  <1>5. CASE T # {}
    <2>1. PICK p \in T : TRUE
      BY <1>5
    <2>2. Good(T \ {p}) /\ IsFiniteSet(T \ {p})
      BY <1>2, <1>3, FS_Subset
    <2>3. /\ SumFunctionOnSet(f, T) = f[p] + SumFunctionOnSet(f, T \ {p})
          /\ SumFunctionOnSet(g, T) = g[p] + SumFunctionOnSet(g, T \ {p})
          /\ SumFunctionOnSet(h, T) = h[p] + SumFunctionOnSet(h, T \ {p})
      BY <1>3, SumTakesAny
    <2>4. /\ SumFunctionOnSet(f, T \ {p}) \in Int
          /\ SumFunctionOnSet(g, T \ {p}) \in Int
          /\ SumFunctionOnSet(h, T \ {p}) \in Int
      BY <2>2, SumTakesAny
    <2>5. f[p] \in Int /\ g[p] \in Int /\ h[p] = a * f[p] + g[p]
      BY <1>3
    <2>6. \A m \in Int, n \in Int : a * (m + n) = a * m + a * n
      OBVIOUS
    <2> QED
      BY <1>2, <1>3, <2>2, <2>3, <2>4, <2>5, <2>6 DEF Good
  <1> QED
    BY <1>4, <1>5

\* The sum of a constant counts the elements.
LEMMA SumConstant ==
    ASSUME NEW S, IsFiniteSet(S), NEW c \in Int, NEW f, \A x \in S : f[x] = c
    PROVE  SumFunctionOnSet(f, S) = c * Cardinality(S)
  <1> DEFINE Good(s) == SumFunctionOnSet(f, s) = c * Cardinality(s)
             Kind    == {s \in SUBSET S : ~Good(s)}
  <1>1. SUFFICES ASSUME Kind # {} PROVE FALSE
    BY DEF Good
  <1> HIDE DEF Good
  <1>2. PICK T \in Kind : \A u \in SUBSET T : u # T => u \notin Kind
    <2> HIDE DEF Kind
    <2>1. Kind \in SUBSET SUBSET S
      BY DEF Kind
    <2> QED
      BY <1>1, <2>1, SmallestSubset
  <1>3. IsFiniteSet(T) /\ T \in SUBSET S
    BY FS_Subset
  <1>4. CASE T = {}
    BY <1>2, <1>4, SumEmpty, FS_EmptySet DEF Good
  <1>5. CASE T # {}
    <2>1. PICK p \in T : TRUE
      BY <1>5
    <2>2. Good(T \ {p}) /\ IsFiniteSet(T \ {p})
      BY <1>2, <1>3, FS_Subset
    <2>3. SumFunctionOnSet(f, T) = f[p] + SumFunctionOnSet(f, T \ {p})
      BY <1>3, SumTakesAny
    <2>4. SumFunctionOnSet(f, T \ {p}) \in Int
      BY <2>2, SumTakesAny
    <2>5. /\ Cardinality(T) \in Nat /\ Cardinality(T \ {p}) = Cardinality(T) - 1
          /\ f[p] = c
      BY <1>3, FS_RemoveElement, FS_CardinalityType
    <2>6. \A n \in Int : c * n = c + c * (n - 1)
      OBVIOUS
    <2> QED
      BY <1>2, <1>3, <2>2, <2>3, <2>4, <2>5, <2>6 DEF Good
  <1> QED
    BY <1>4, <1>5

\* One element more.
LEMMA SumAdds ==
    ASSUME NEW S, IsFiniteSet(S), NEW f, NEW e, e \notin S,
           f[e] \in Int, \A x \in S : f[x] \in Int
    PROVE  SumFunctionOnSet(f, S \cup {e}) = SumFunctionOnSet(f, S) + f[e]
  <1>1. IsFiniteSet(S \cup {e}) /\ (S \cup {e}) \ {e} = S
    BY FS_AddElement
  <1>2. SumFunctionOnSet(f, S \cup {e})
          = f[e] + SumFunctionOnSet(f, (S \cup {e}) \ {e})
    BY <1>1, SumTakesAny
  <1>3. SumFunctionOnSet(f, S) \in Int
    BY SumTakesAny
  <1>4. SumFunctionOnSet(f, S \cup {e}) = f[e] + SumFunctionOnSet(f, S)
    BY <1>1, <1>2, Zenon
  <1> QED
    BY <1>3, <1>4

\* The sum over a set is that over a part and over the rest.
LEMMA SumSplits ==
    ASSUME NEW S, IsFiniteSet(S), NEW f, \A x \in S : f[x] \in Int, NEW P \in SUBSET S
    PROVE  SumFunctionOnSet(f, S) = SumFunctionOnSet(f, P) + SumFunctionOnSet(f, S \ P)
  <1> DEFINE Good(s) ==
               SumFunctionOnSet(f, s)
                 = SumFunctionOnSet(f, s \cap P) + SumFunctionOnSet(f, s \ P)
             Kind    == {s \in SUBSET S : ~Good(s)}
  <1>0. S \cap P = P
    OBVIOUS
  <1>1. SUFFICES ASSUME Kind # {} PROVE FALSE
    BY <1>0 DEF Good
  <1> HIDE DEF Good
  <1>2. PICK T \in Kind : \A u \in SUBSET T : u # T => u \notin Kind
    <2> HIDE DEF Kind
    <2>1. Kind \in SUBSET SUBSET S
      BY DEF Kind
    <2> QED
      BY <1>1, <2>1, SmallestSubset
  <1>3. IsFiniteSet(T) /\ T \in SUBSET S
    BY FS_Subset
  <1>4. CASE T = {}
    <2>1. T \cap P = {} /\ T \ P = {}
      BY <1>4
    <2> QED
      BY <1>2, <1>4, <2>1, SumEmpty DEF Good
  <1>5. CASE T # {}
    <2>1. PICK p \in T : TRUE
      BY <1>5
    <2> DEFINE U == T \ {p}
    <2>2. Good(U) /\ IsFiniteSet(U) /\ U \in SUBSET S
      BY <1>2, <1>3, FS_Subset
    <2>3. SumFunctionOnSet(f, T) = f[p] + SumFunctionOnSet(f, U) /\ f[p] \in Int
      BY <1>3, SumTakesAny
    <2>4. IsFiniteSet(U \cap P) /\ IsFiniteSet(U \ P)
      BY <2>2, FS_Subset
    <2>5. SumFunctionOnSet(f, U \cap P) \in Int /\ SumFunctionOnSet(f, U \ P) \in Int
      BY <2>2, <2>4, SumTakesAny
    <2>6. /\ SumFunctionOnSet(f, U)
                = SumFunctionOnSet(f, U \cap P) + SumFunctionOnSet(f, U \ P)
          /\ SumFunctionOnSet(f, T)
                # SumFunctionOnSet(f, T \cap P) + SumFunctionOnSet(f, T \ P)
      BY <1>2, <2>2 DEF Good
    <2>7. CASE p \in P
      <3>1. T \cap P = (U \cap P) \cup {p} /\ T \ P = U \ P /\ p \notin U \cap P
        BY <2>7
      <3>2. SumFunctionOnSet(f, T \cap P) = SumFunctionOnSet(f, U \cap P) + f[p]
        BY <2>2, <2>3, <2>4, <3>1, SumAdds
      <3>3. SumFunctionOnSet(f, T \ P) = SumFunctionOnSet(f, U \ P)
        BY <3>1, Zenon
      <3> QED
        BY <2>2, <2>3, <2>5, <2>6, <3>2, <3>3
    <2>8. CASE p \notin P
      <3>1. T \cap P = U \cap P /\ T \ P = (U \ P) \cup {p} /\ p \notin U \ P
        BY <2>8
      <3>2. SumFunctionOnSet(f, T \ P) = SumFunctionOnSet(f, U \ P) + f[p]
        BY <2>2, <2>3, <2>4, <3>1, SumAdds
      <3>3. SumFunctionOnSet(f, T \cap P) = SumFunctionOnSet(f, U \cap P)
        BY <3>1, Zenon
      <3> QED
        BY <2>2, <2>3, <2>5, <2>6, <3>2, <3>3
    <2> QED
      BY <2>7, <2>8
  <1> QED
    BY <1>4, <1>5

\* A sum of no negative number is at least each of them.
LEMMA SumCovers ==
    ASSUME NEW S, IsFiniteSet(S), NEW f, \A x \in S : f[x] \in Nat
    PROVE  /\ SumFunctionOnSet(f, S) \in Nat
           /\ \A x \in S : f[x] <= SumFunctionOnSet(f, S)
  <1> DEFINE zero == [x \in S |-> 0]
  <1>1. ASSUME NEW T \in SUBSET S PROVE SumFunctionOnSet(f, T) \in Nat
    <2>1. IsFiniteSet(T) /\ Cardinality(T) \in Nat
      BY FS_Subset, FS_CardinalityType
    <2>2. SumFunctionOnSet(zero, T) = 0 * Cardinality(T)
      BY <2>1, SumConstant
    <2>3. SumFunctionOnSet(zero, T) <= SumFunctionOnSet(f, T)
      <3>1. \A x \in T : zero[x] \in Int /\ f[x] \in Int /\ zero[x] <= f[x]
        OBVIOUS
      <3> HIDE DEF zero
      <3> QED
        BY <2>1, <3>1, SumGrows
    <2>4. SumFunctionOnSet(f, T) \in Int
      BY <2>1, SumTakesAny
    <2> QED
      BY <2>1, <2>2, <2>3, <2>4
  <1>2. ASSUME NEW x \in S PROVE f[x] <= SumFunctionOnSet(f, S)
    <2>1. SumFunctionOnSet(f, S) = f[x] + SumFunctionOnSet(f, S \ {x})
      BY SumTakesAny
    <2>2. SumFunctionOnSet(f, S \ {x}) \in Nat /\ f[x] \in Nat
      BY <1>1
    <2> QED
      BY <2>1, <2>2
  <1> QED
    BY <1>1, <1>2
=============================================================================
