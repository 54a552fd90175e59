--------------------------------- MODULE Sums ---------------------------------
(***************************************************************************)
(* Facts about SumFunctionOnSet, the sum of f[x] over a finite set, that   *)
(* the proofs about paid amounts, order lines and held stock need.  They   *)
(* are proved from the recursive function the community modules define it  *)
(* by.                                                                     *)
(***************************************************************************)
EXTENDS FiniteSetTheorems, TLAPS

\* A set of natural numbers that is not empty has a least element.
LEMMA LeastNumber ==
  ASSUME NEW T \in SUBSET Nat, T # {}
  PROVE  \E n \in T : \A k \in T : n <= k
  <1>1. PICK n \in T : \A k \in T : ~ (<<k, n>> \in OpToRel(<, Nat))
    BY NatLessThanWellFounded, WFMin
  <1>2. ASSUME NEW k \in T  PROVE n <= k
    <2>1. k \in Nat /\ n \in Nat
      OBVIOUS
    <2>2. ~ (k < n)
      BY <1>1, <2>1 DEF OpToRel
    <2> QED
      BY <2>1, <2>2
  <1> QED
    BY <1>2

\* Induction over the natural numbers, for a set instead of a predicate.
LEMMA NatSetInduction ==
  ASSUME NEW Q, 0 \in Q, \A n \in Nat : n \in Q => n + 1 \in Q
  PROVE  Nat \subseteq Q
  <1> SUFFICES ASSUME Nat \ Q # {}  PROVE FALSE
    OBVIOUS
  <1>1. PICK n \in Nat \ Q : \A k \in Nat \ Q : n <= k
    BY LeastNumber
  <1>2. n # 0 /\ n - 1 \in Nat /\ ~ (n <= n - 1) /\ n = (n - 1) + 1
    BY <1>1
  <1>3. n - 1 \in Q
    BY <1>1, <1>2
  <1> QED
    BY <1>1, <1>2, <1>3

-----------------------------------------------------------------------------
(* The recursive function behind the sum.                                  *)

\* What the community modules take from a set, one element at a time.
First(s) == CHOOSE x \in s : TRUE

\* iter is that function, on the subsets of S.
Iterates(f, S, iter) ==
  iter = [s \in SUBSET S |-> IF s = {} THEN 0 ELSE f[First(s)] + iter[s \ {First(s)}]]

LEMMA SumByIteration ==
  ASSUME NEW f, NEW S
  PROVE  SumFunctionOnSet(f, S) = (CHOOSE iter : Iterates(f, S, iter))[S]
  BY DEF SumFunctionOnSet, FoldFunctionOnSet, MapThenFoldSet, Iterates, First

\* The subsets of S of at most n elements.
UpTo(S, n) == {s \in SUBSET S : Cardinality(s) <= n}

\* Such a function exists for a finite set of integers to add.
LEMMA IterationExists ==
  ASSUME NEW S, IsFiniteSet(S), NEW f, \A x \in S : f[x] \in Int
  PROVE  \E iter \in [SUBSET S -> Int] : Iterates(f, S, iter)
  <1> DEFINE Body(g, s) == IF s = {} THEN 0 ELSE f[First(s)] + g[s \ {First(s)}]
             Q == {n \in Nat : \E g \in [UpTo(S, n) -> Int] :
                                 \A s \in UpTo(S, n) : g[s] = Body(g, s)}
  <1>1. \A s \in SUBSET S : IsFiniteSet(s) /\ Cardinality(s) \in Nat
    BY FS_Subset, FS_CardinalityType
  <1>2. \A s \in SUBSET S : s # {} =>
          /\ First(s) \in S /\ s \ {First(s)} \in SUBSET S
          /\ Cardinality(s \ {First(s)}) = Cardinality(s) - 1
    <2> TAKE s \in SUBSET S
    <2> HAVE s # {}
    <2>1. First(s) \in s
      BY DEF First
    <2> QED
      BY <2>1, <1>1, FS_RemoveElement
  <1>3. 0 \in Q
    <2> DEFINE g == [s \in UpTo(S, 0) |-> 0]
    <2>1. \A s \in UpTo(S, 0) : s = {}
      BY <1>1, FS_EmptySet DEF UpTo
    <2>2. g \in [UpTo(S, 0) -> Int] /\ \A s \in UpTo(S, 0) : g[s] = Body(g, s)
      BY <2>1
    <2> HIDE DEF g, Body
    <2> QED
      BY <2>2
  <1>4. ASSUME NEW n \in Nat, n \in Q  PROVE n + 1 \in Q
    <2>1. PICK g \in [UpTo(S, n) -> Int] : \A s \in UpTo(S, n) : g[s] = Body(g, s)
      BY <1>4
    <2> DEFINE h == [s \in UpTo(S, n + 1) |-> Body(g, s)]
    <2>2. \A s \in UpTo(S, n + 1) : s # {} =>
            s \ {First(s)} \in UpTo(S, n) /\ s \ {First(s)} \in UpTo(S, n + 1)
                /\ First(s) \in S
      <3> TAKE s \in UpTo(S, n + 1)
      <3> HAVE s # {}
      <3>1. s \in SUBSET S /\ Cardinality(s) <= n + 1 /\ Cardinality(s) \in Nat
        BY <1>1 DEF UpTo
      <3>2. /\ First(s) \in S /\ s \ {First(s)} \in SUBSET S
            /\ Cardinality(s \ {First(s)}) = Cardinality(s) - 1
        BY <3>1, <1>2
      <3>3. Cardinality(s \ {First(s)}) <= n /\ Cardinality(s \ {First(s)}) <= n + 1
        BY <3>1, <3>2
      <3> QED
        BY <3>2, <3>3 DEF UpTo
    <2>3. h \in [UpTo(S, n + 1) -> Int]
      <3>1. ASSUME NEW s \in UpTo(S, n + 1)  PROVE Body(g, s) \in Int
        <4>1. CASE s = {}
          BY <4>1
        <4>2. CASE s # {}
          <5>1. g[s \ {First(s)}] \in Int /\ f[First(s)] \in Int
            BY <4>2, <2>2
          <5> QED
            BY <5>1
        <4> QED
          BY <4>1, <4>2
      <3> QED
        BY <3>1
    <2>4. ASSUME NEW s \in UpTo(S, n + 1)  PROVE h[s] = Body(h, s)
      <3>1. CASE s = {}
        BY <3>1
      <3>2. CASE s # {}
        <4> DEFINE r == s \ {First(s)}
        <4>1. r \in UpTo(S, n) /\ r \in UpTo(S, n + 1)
          BY <3>2, <2>2
        <4>2. h[r] = Body(g, r) /\ g[r] = Body(g, r)
          BY <4>1, <2>1
        <4>3. h[s] = f[First(s)] + g[r] /\ Body(h, s) = f[First(s)] + h[r]
          BY <3>2
        <4> QED
          BY <4>2, <4>3
      <3> QED
        BY <3>1, <3>2
    <2> HIDE DEF h, Body
    <2>5. \E k \in [UpTo(S, n + 1) -> Int] : \A s \in UpTo(S, n + 1) : k[s] = Body(k, s)
      BY <2>3, <2>4
    <2>6. n + 1 \in Nat
      OBVIOUS
    <2> QED
      BY <2>5, <2>6
  <1> HIDE DEF Q
  <1>5. Nat \subseteq Q
    BY <1>3, <1>4, NatSetInduction
  <1>6. Cardinality(S) \in Q
    BY <1>5, FS_CardinalityType
  <1>7. UpTo(S, Cardinality(S)) = SUBSET S
    BY FS_Subset DEF UpTo
  <1>8. PICK g \in [SUBSET S -> Int] : \A s \in SUBSET S : g[s] = Body(g, s)
    BY <1>6, <1>7 DEF Q
  <1>9. g = [s \in SUBSET S |-> Body(g, s)]
    BY <1>8
  <1> QED
    BY <1>9 DEF Iterates

\* Two of them agree where both are defined and add the same.
LEMMA IterationsAgree ==
  ASSUME NEW S, IsFiniteSet(S), NEW T, S \subseteq T,
         NEW f, NEW g, \A x \in S : f[x] = g[x],
         NEW i, Iterates(f, S, i), NEW k, Iterates(g, T, k)
  PROVE  \A s \in SUBSET S : i[s] = k[s]
  <1> DEFINE Q == {n \in Nat : \A s \in UpTo(S, n) : i[s] = k[s]}
  <1>1. \A s \in SUBSET S : IsFiniteSet(s) /\ Cardinality(s) \in Nat
    BY FS_Subset, FS_CardinalityType
  <1>2. i[{}] = 0 /\ k[{}] = 0
    BY DEF Iterates
  <1>3. 0 \in Q
    <2>1. \A s \in UpTo(S, 0) : s = {}
      BY <1>1, FS_EmptySet DEF UpTo
    <2> QED
      BY <2>1, <1>2
  <1>4. ASSUME NEW n \in Nat, n \in Q  PROVE n + 1 \in Q
    <2> SUFFICES ASSUME NEW s \in UpTo(S, n + 1)  PROVE i[s] = k[s]
      OBVIOUS
    <2>1. CASE s = {}
      BY <2>1, <1>2
    <2>2. CASE s # {}
      <3> DEFINE x == First(s)
                 r == s \ {x}
      <3>1. x \in s
        BY <2>2 DEF First
      <3>2. s \in SUBSET S /\ s \in SUBSET T /\ Cardinality(s) <= n + 1
        BY DEF UpTo
      <3>3. Cardinality(r) = Cardinality(s) - 1 /\ Cardinality(s) \in Nat
        BY <3>1, <3>2, <1>1, FS_RemoveElement
      <3>4. r \in UpTo(S, n)
        BY <3>2, <3>3 DEF UpTo
      <3>5. i[r] = k[r]
        BY <3>4, <1>4
      <3>6. i[s] = f[x] + i[r]
        BY <2>2, <3>2 DEF Iterates
      <3>7. k[s] = g[x] + k[r]
        BY <2>2, <3>2 DEF Iterates
      <3>8. f[x] = g[x]
        BY <3>1, <3>2
      <3> QED
        BY <3>5, <3>6, <3>7, <3>8
    <2> QED
      BY <2>1, <2>2
  <1> HIDE DEF Q
  <1>5. Nat \subseteq Q
    BY <1>3, <1>4, NatSetInduction
  <1> SUFFICES ASSUME NEW s \in SUBSET S  PROVE i[s] = k[s]
    OBVIOUS
  <1>6. Cardinality(s) \in Q /\ s \in UpTo(S, Cardinality(s))
    BY <1>1, <1>5 DEF UpTo
  <1> QED
    BY <1>6 DEF Q

\* The sum is the value such a function has.
LEMMA SumIterates ==
  ASSUME NEW S, IsFiniteSet(S), NEW f, \A x \in S : f[x] \in Int
  PROVE  \E iter \in [SUBSET S -> Int] :
           Iterates(f, S, iter) /\ SumFunctionOnSet(f, S) = iter[S]
  <1> DEFINE iter == CHOOSE i : Iterates(f, S, i)
  <1>1. PICK g \in [SUBSET S -> Int] : Iterates(f, S, g)
    BY IterationExists
  <1>2. Iterates(f, S, iter)
    BY <1>1
  <1>3. SumFunctionOnSet(f, S) = iter[S]
    BY SumByIteration
  <1> HIDE DEF iter
  <1>4. \A s \in SUBSET S : iter[s] = g[s]
    BY <1>1, <1>2, IterationsAgree
  <1>5. iter \in [SUBSET S -> Int]
    <2>1. DOMAIN iter = SUBSET S /\ iter = [s \in SUBSET S |-> iter[s]]
      BY <1>2 DEF Iterates
    <2> QED
      BY <2>1, <1>4
  <1> QED
    BY <1>2, <1>3, <1>5

-----------------------------------------------------------------------------
(* What the proofs use.                                                    *)

\* The sum of integers is an integer; it is 0 for the empty set.
LEMMA SumType ==
  ASSUME NEW S, IsFiniteSet(S), NEW f, \A x \in S : f[x] \in Int
  PROVE  /\ SumFunctionOnSet(f, S) \in Int
         /\ S = {} => SumFunctionOnSet(f, S) = 0
  <1>1. PICK iter \in [SUBSET S -> Int] :
          Iterates(f, S, iter) /\ SumFunctionOnSet(f, S) = iter[S]
    BY SumIterates
  <1> QED
    BY <1>1 DEF Iterates

\* The sum depends only on what the function is on the set.
LEMMA SumSame ==
  ASSUME NEW S, IsFiniteSet(S), NEW f, NEW g,
         \A x \in S : f[x] \in Int /\ f[x] = g[x]
  PROVE  SumFunctionOnSet(f, S) = SumFunctionOnSet(g, S)
  <1>1. PICK i \in [SUBSET S -> Int] :
          Iterates(f, S, i) /\ SumFunctionOnSet(f, S) = i[S]
    BY SumIterates
  <1>2. \A x \in S : g[x] \in Int
    OBVIOUS
  <1>3. PICK k \in [SUBSET S -> Int] :
          Iterates(g, S, k) /\ SumFunctionOnSet(g, S) = k[S]
    BY <1>2, SumIterates
  <1>4. i[S] = k[S]
    BY <1>1, <1>3, IterationsAgree
  <1> QED
    BY <1>1, <1>3, <1>4

\* The element that is chosen first is added to the sum of the others.
LEMMA SumFirst ==
  ASSUME NEW S, IsFiniteSet(S), S # {}, NEW f, \A x \in S : f[x] \in Int
  PROVE  /\ First(S) \in S
         /\ SumFunctionOnSet(f, S) = f[First(S)] + SumFunctionOnSet(f, S \ {First(S)})
  <1> DEFINE R == S \ {First(S)}
  <1>1. PICK i \in [SUBSET S -> Int] :
          Iterates(f, S, i) /\ SumFunctionOnSet(f, S) = i[S]
    BY SumIterates
  <1>2. IsFiniteSet(R) /\ R \subseteq S /\ \A x \in R : f[x] \in Int /\ f[x] = f[x]
    BY FS_RemoveElement
  <1>3. PICK k \in [SUBSET R -> Int] :
          Iterates(f, R, k) /\ SumFunctionOnSet(f, R) = k[R]
    BY <1>2, SumIterates
  <1>4. k[R] = i[R]
    <2> HIDE DEF R
    <2> QED
      BY <1>1, <1>2, <1>3, IterationsAgree
  <1>5. i[S] = f[First(S)] + i[R]
    BY <1>1 DEF Iterates
  <1>6. First(S) \in S
    BY DEF First
  <1> QED
    BY <1>1, <1>3, <1>4, <1>5, <1>6

\* So may any other element be, since integers add in any order.
LEMMA SumRemove ==
  ASSUME NEW S, IsFiniteSet(S), NEW f, \A x \in S : f[x] \in Int
  PROVE  \A y \in S : SumFunctionOnSet(f, S) = f[y] + SumFunctionOnSet(f, S \ {y})
  <1> DEFINE Good(T) == \A y \in T : SumFunctionOnSet(f, T) = f[y] + SumFunctionOnSet(f, T \ {y})
             Q == {n \in Nat : \A T \in UpTo(S, n) : Good(T)}
  <1>1. \A T \in SUBSET S : IsFiniteSet(T) /\ Cardinality(T) \in Nat
    BY FS_Subset, FS_CardinalityType
  <1>2. 0 \in Q
    <2>1. \A T \in UpTo(S, 0) : T = {}
      BY <1>1, FS_EmptySet DEF UpTo
    <2> QED
      BY <2>1
  <1>3. ASSUME NEW n \in Nat, n \in Q  PROVE n + 1 \in Q
    <2> SUFFICES ASSUME NEW T \in UpTo(S, n + 1), NEW y \in T
                 PROVE  SumFunctionOnSet(f, T) = f[y] + SumFunctionOnSet(f, T \ {y})
      OBVIOUS
    <2> DEFINE c == First(T)
    <2>1. T \in SUBSET S /\ IsFiniteSet(T) /\ Cardinality(T) <= n + 1 /\ Cardinality(T) \in Nat
      BY <1>1 DEF UpTo
    <2>2. c \in T /\ SumFunctionOnSet(f, T) = f[c] + SumFunctionOnSet(f, T \ {c})
      BY <2>1, SumFirst
    <2> HIDE DEF c
    <2>3. CASE y = c
      BY <2>2, <2>3
    <2>4. CASE y # c
      <3>1. \A z \in T : T \ {z} \in UpTo(S, n) /\ IsFiniteSet(T \ {z})
        <4> TAKE z \in T
        <4>1. Cardinality(T \ {z}) = Cardinality(T) - 1 /\ IsFiniteSet(T \ {z})
          BY <2>1, FS_RemoveElement
        <4>2. Cardinality(T \ {z}) <= n
          BY <4>1, <2>1
        <4> QED
          BY <4>1, <4>2, <2>1 DEF UpTo
      <3>2. Good(T \ {c}) /\ Good(T \ {y})
        BY <3>1, <2>2, <1>3
      <3>3. /\ SumFunctionOnSet(f, T \ {c}) = f[y] + SumFunctionOnSet(f, (T \ {c}) \ {y})
            /\ SumFunctionOnSet(f, T \ {y}) = f[c] + SumFunctionOnSet(f, (T \ {y}) \ {c})
        BY <3>2, <2>2, <2>4
      <3>4. (T \ {c}) \ {y} = (T \ {y}) \ {c}
        OBVIOUS
      <3>5. SumFunctionOnSet(f, (T \ {c}) \ {y}) \in Int
        <4>1. IsFiniteSet((T \ {c}) \ {y}) /\ \A x \in (T \ {c}) \ {y} : f[x] \in Int
          BY <2>1, <2>2, <3>1, FS_RemoveElement
        <4> QED
          BY <4>1, SumType
      <3>6. f[c] \in Int /\ f[y] \in Int
        BY <2>1, <2>2
      <3> DEFINE a == f[c]
                 b == f[y]
                 r == SumFunctionOnSet(f, (T \ {c}) \ {y})
      <3>7. /\ SumFunctionOnSet(f, T) = a + (b + r)
            /\ SumFunctionOnSet(f, T \ {y}) = a + r
        BY <2>2, <3>3, <3>4
      <3>8. a \in Int /\ b \in Int /\ r \in Int
        BY <3>5, <3>6
      <3> HIDE DEF a, b, r
      <3>9. a + (b + r) = b + (a + r)
        BY <3>8
      <3>10. SumFunctionOnSet(f, T) = b + SumFunctionOnSet(f, T \ {y})
        BY <3>7, <3>9
      <3> QED
        BY <3>10 DEF b
    <2> QED
      BY <2>3, <2>4
  <1> HIDE DEF Q
  <1>4. Nat \subseteq Q
    BY <1>2, <1>3, NatSetInduction
  <1>5. Cardinality(S) \in Q /\ S \in UpTo(S, Cardinality(S))
    BY <1>1, <1>4 DEF UpTo
  <1> QED
    BY <1>5 DEF Q

\* A new element adds its value.
LEMMA SumAdd ==
  ASSUME NEW S, IsFiniteSet(S), NEW y, y \notin S,
         NEW f, \A x \in S \cup {y} : f[x] \in Int
  PROVE  SumFunctionOnSet(f, S \cup {y}) = SumFunctionOnSet(f, S) + f[y]
  <1>1. IsFiniteSet(S \cup {y}) /\ (S \cup {y}) \ {y} = S
    BY FS_AddElement
  <1>2. SumFunctionOnSet(f, S \cup {y}) = f[y] + SumFunctionOnSet(f, S)
    BY <1>1, SumRemove
  <1> DEFINE a == f[y]
             b == SumFunctionOnSet(f, S)
  <1>3. b \in Int /\ a \in Int
    BY SumType
  <1>4. SumFunctionOnSet(f, S \cup {y}) = a + b
    BY <1>2
  <1> HIDE DEF a, b
  <1>5. a + b = b + a
    BY <1>3
  <1> QED
    BY <1>4, <1>5 DEF a, b

\* Induction over the subsets of a finite set, for a set instead of a predicate.
LEMMA FiniteSetInduction ==
  ASSUME NEW S, IsFiniteSet(S), NEW Q, {} \in Q,
         \A T \in SUBSET S : \A x \in S \ T : T \in Q => T \cup {x} \in Q
  PROVE  S \in Q
  <1> DEFINE N == {n \in Nat : \A T \in UpTo(S, n) : T \in Q}
  <1>1. \A T \in SUBSET S : IsFiniteSet(T) /\ Cardinality(T) \in Nat
    BY FS_Subset, FS_CardinalityType
  <1>2. 0 \in N
    <2>1. \A T \in UpTo(S, 0) : T = {}
      BY <1>1, FS_EmptySet DEF UpTo
    <2> QED
      BY <2>1
  <1>3. ASSUME NEW n \in Nat, n \in N  PROVE n + 1 \in N
    <2> SUFFICES ASSUME NEW T \in UpTo(S, n + 1)  PROVE T \in Q
      OBVIOUS
    <2>0. CASE T = {}
      BY <2>0
    <2>1. CASE T # {}
      <3>1. PICK x \in T : TRUE
        BY <2>1
      <3>2. T \in SUBSET S /\ IsFiniteSet(T) /\ Cardinality(T) <= n + 1 /\ Cardinality(T) \in Nat
        BY <1>1 DEF UpTo
      <3>3. Cardinality(T \ {x}) = Cardinality(T) - 1
        BY <3>2, FS_RemoveElement
      <3>4. Cardinality(T \ {x}) <= n
        BY <3>2, <3>3
      <3>5. T \ {x} \in Q
        BY <3>2, <3>4, <1>3 DEF UpTo
      <3>6. (T \ {x}) \cup {x} = T /\ x \in S \ (T \ {x}) /\ T \ {x} \in SUBSET S
        BY <3>2
      <3> QED
        BY <3>5, <3>6
    <2> QED
      BY <2>0, <2>1
  <1> HIDE DEF N
  <1>4. Nat \subseteq N
    BY <1>2, <1>3, NatSetInduction
  <1>5. Cardinality(S) \in N /\ S \in UpTo(S, Cardinality(S))
    BY <1>1, <1>4 DEF UpTo
  <1> QED
    BY <1>5 DEF N

\* The sum over two disjoint sets.
LEMMA SumUnion ==
  ASSUME NEW S, IsFiniteSet(S), NEW T, IsFiniteSet(T), S \cap T = {},
         NEW f, \A x \in S \cup T : f[x] \in Int
  PROVE  SumFunctionOnSet(f, S \cup T) = SumFunctionOnSet(f, S) + SumFunctionOnSet(f, T)
  <1> DEFINE Q == {R \in SUBSET T : SumFunctionOnSet(f, S \cup R)
                                      = SumFunctionOnSet(f, S) + SumFunctionOnSet(f, R)}
  <1>1. {} \in Q
    <2>1. S \cup {} = S /\ SumFunctionOnSet(f, {}) = 0 /\ SumFunctionOnSet(f, S) \in Int
      BY SumType, FS_EmptySet
    <2> QED
      BY <2>1
  <1>2. ASSUME NEW R \in SUBSET T, NEW x \in T \ R, R \in Q  PROVE R \cup {x} \in Q
    <2>1. IsFiniteSet(R) /\ IsFiniteSet(S \cup R)
      BY FS_Subset, FS_Union
    <2>2. SumFunctionOnSet(f, R \cup {x}) = SumFunctionOnSet(f, R) + f[x]
      BY <2>1, SumAdd
    <2>3. SumFunctionOnSet(f, (S \cup R) \cup {x}) = SumFunctionOnSet(f, S \cup R) + f[x]
      <3>1. x \notin S \cup R /\ \A y \in (S \cup R) \cup {x} : f[y] \in Int
        OBVIOUS
      <3> HIDE DEF Q
      <3> QED
        BY <2>1, <3>1, SumAdd
    <2> DEFINE s == SumFunctionOnSet(f, S)
               r == SumFunctionOnSet(f, R)
               v == f[x]
    <2>4. s \in Int /\ r \in Int /\ v \in Int
      BY <2>1, SumType
    <2>5. SumFunctionOnSet(f, S \cup R) = s + r
      BY <1>2
    <2>6. S \cup (R \cup {x}) = (S \cup R) \cup {x} /\ R \cup {x} \in SUBSET T
      OBVIOUS
    <2>7. SumFunctionOnSet(f, S \cup (R \cup {x})) = (s + r) + v
      BY <2>3, <2>5, <2>6
    <2>8. SumFunctionOnSet(f, R \cup {x}) = r + v
      BY <2>2
    <2> HIDE DEF s, r, v
    <2>9. (s + r) + v = s + (r + v)
      BY <2>4
    <2> QED
      BY <2>6, <2>7, <2>8, <2>9 DEF s
  <1> HIDE DEF Q
  <1>3. T \in Q
    BY <1>1, <1>2, FiniteSetInduction
  <1> QED
    BY <1>3 DEF Q

\* Two functions that differ in one place have sums that differ by as much.
LEMMA SumUpdate ==
  ASSUME NEW S, IsFiniteSet(S), NEW y \in S, NEW f, NEW g,
         \A x \in S : f[x] \in Int /\ g[x] \in Int,
         \A x \in S \ {y} : g[x] = f[x]
  PROVE  SumFunctionOnSet(g, S) = SumFunctionOnSet(f, S) + (g[y] - f[y])
  <1>1. IsFiniteSet(S \ {y})
    BY FS_RemoveElement
  <1>2. SumFunctionOnSet(g, S \ {y}) = SumFunctionOnSet(f, S \ {y})
    BY <1>1, SumSame
  <1>3. SumFunctionOnSet(f, S) = f[y] + SumFunctionOnSet(f, S \ {y})
    BY SumRemove
  <1>4. SumFunctionOnSet(g, S) = g[y] + SumFunctionOnSet(g, S \ {y})
    BY SumRemove
  <1> DEFINE r == SumFunctionOnSet(f, S \ {y})
             a == f[y]
             b == g[y]
  <1>5. r \in Int /\ a \in Int /\ b \in Int
    BY <1>1, SumType
  <1>6. SumFunctionOnSet(g, S) = b + r /\ SumFunctionOnSet(f, S) = a + r
    BY <1>2, <1>3, <1>4
  <1> HIDE DEF r, a, b
  <1>7. b + r = (a + r) + (b - a)
    BY <1>5
  <1> QED
    BY <1>6, <1>7 DEF a, b

\* The sum of natural numbers is one, and is 0 if they all are.
LEMMA SumNat ==
  ASSUME NEW S, IsFiniteSet(S), NEW f, \A x \in S : f[x] \in Nat
  PROVE  /\ SumFunctionOnSet(f, S) \in Nat
         /\ SumFunctionOnSet(f, S) > 0 => \E x \in S : f[x] > 0
  <1> DEFINE Good(T) == /\ SumFunctionOnSet(f, T) \in Nat
                        /\ SumFunctionOnSet(f, T) = 0 \/ \E x \in T : f[x] > 0
             Q == {T \in SUBSET S : Good(T)}
  <1>1. {} \in Q
    <2>1. SumFunctionOnSet(f, {}) = 0
      BY SumType, FS_EmptySet
    <2> QED
      BY <2>1
  <1>2. ASSUME NEW T \in SUBSET S, NEW x \in S \ T, T \in Q  PROVE T \cup {x} \in Q
    <2> DEFINE a == SumFunctionOnSet(f, T)
               b == f[x]
    <2>1. a \in Nat /\ b \in Nat /\ (a = 0 \/ \E y \in T : f[y] > 0)
      BY <1>2
    <2>2. SumFunctionOnSet(f, T \cup {x}) = a + b
      <3>1. IsFiniteSet(T) /\ x \notin T /\ \A y \in T \cup {x} : f[y] \in Int
        BY FS_Subset
      <3> HIDE DEF Q
      <3> QED
        BY <3>1, SumAdd
    <2> HIDE DEF a
    <2>3. a + b \in Nat /\ (a + b = 0 \/ \E y \in T \cup {x} : f[y] > 0)
      BY <2>1
    <2> QED
      BY <2>2, <2>3
  <1> HIDE DEF Q
  <1>3. Good(S)
    <2>1. S \in Q
      BY <1>1, <1>2, FiniteSetInduction
    <2> QED
      BY <2>1 DEF Q
  <1> QED
    BY <1>3

\* No term is larger than the sum.
LEMMA SumCovers ==
  ASSUME NEW S, IsFiniteSet(S), NEW f, \A x \in S : f[x] \in Nat, NEW y \in S
  PROVE  f[y] <= SumFunctionOnSet(f, S)
  <1> DEFINE a == f[y]
             b == SumFunctionOnSet(f, S \ {y})
  <1>1. SumFunctionOnSet(f, S) = a + b
    BY SumRemove
  <1>2. a \in Nat /\ b \in Nat
    BY FS_RemoveElement, SumNat
  <1> HIDE DEF a, b
  <1>3. a <= a + b
    BY <1>2
  <1> QED
    BY <1>1, <1>3 DEF a

\* The sum of nothing but zeros.
LEMMA SumZero ==
  ASSUME NEW S, IsFiniteSet(S), NEW f, \A x \in S : f[x] = 0
  PROVE  SumFunctionOnSet(f, S) = 0
  <1>1. SumFunctionOnSet(f, S) \in Nat /\ ~ (SumFunctionOnSet(f, S) > 0)
    BY SumNat
  <1> QED  BY <1>1

\* What holds of the terms holds of the sums.
LEMMA SumLinear ==
  ASSUME NEW S, IsFiniteSet(S), NEW f, NEW g, NEW h, NEW k,
         \A x \in S : /\ f[x] \in Int /\ g[x] \in Int /\ h[x] \in Int /\ k[x] \in Int
                      /\ f[x] + g[x] = h[x] + k[x]
  PROVE  SumFunctionOnSet(f, S) + SumFunctionOnSet(g, S)
           = SumFunctionOnSet(h, S) + SumFunctionOnSet(k, S)
  <1> DEFINE Q == {T \in SUBSET S : SumFunctionOnSet(f, T) + SumFunctionOnSet(g, T)
                                      = SumFunctionOnSet(h, T) + SumFunctionOnSet(k, T)}
  <1>1. \A T \in SUBSET S : IsFiniteSet(T)
    BY FS_Subset
  <1>2. {} \in Q
    <2>1. \A e \in {f, g, h, k} : SumFunctionOnSet(e, {}) = 0
      BY FS_EmptySet, SumZero
    <2> QED  BY <2>1
  <1>3. ASSUME NEW T \in SUBSET S, NEW x \in S \ T, T \in Q  PROVE T \cup {x} \in Q
    <2> DEFINE a(e) == SumFunctionOnSet(e, T)
    <2>1. ASSUME NEW e \in {f, g, h, k}
          PROVE  SumFunctionOnSet(e, T \cup {x}) = a(e) + e[x] /\ a(e) \in Int /\ e[x] \in Int
      <3>1. IsFiniteSet(T) /\ x \notin T /\ \A y \in T \cup {x} : e[y] \in Int
        BY <1>1
      <3>2. a(e) \in Int
        BY <3>1, SumType
      <3> HIDE DEF Q
      <3> QED  BY <3>1, <3>2, SumAdd
    <2>2. a(f) + a(g) = a(h) + a(k) /\ f[x] + g[x] = h[x] + k[x]
      BY <1>3
    <2> HIDE DEF a
    <2>3. /\ a(f) \in Int /\ a(g) \in Int /\ a(h) \in Int /\ a(k) \in Int
          /\ f[x] \in Int /\ g[x] \in Int /\ h[x] \in Int /\ k[x] \in Int
      BY <2>1
    <2>4. (a(f) + f[x]) + (a(g) + g[x]) = (a(h) + h[x]) + (a(k) + k[x])
      BY <2>2, <2>3
    <2>5. T \cup {x} \in SUBSET S
      OBVIOUS
    <2> QED  BY <2>1, <2>4, <2>5
  <1> HIDE DEF Q
  <1>4. S \in Q
    BY <1>2, <1>3, FiniteSetInduction
  <1> QED  BY <1>4 DEF Q

\* The image of a finite set is finite.
LEMMA ImageFinite ==
  ASSUME NEW S, IsFiniteSet(S), NEW row
  PROVE  IsFiniteSet({row[x] : x \in S})
  <1> DEFINE Image(T) == {row[x] : x \in T}
             Q == {T \in SUBSET S : IsFiniteSet(Image(T))}
  <1>1. {} \in Q
    <2>1. Image({}) = {}
      OBVIOUS
    <2> QED
      BY <2>1, FS_EmptySet
  <1>2. ASSUME NEW T \in SUBSET S, NEW x \in S \ T, T \in Q  PROVE T \cup {x} \in Q
    <2>1. Image(T \cup {x}) = Image(T) \cup {row[x]}
      OBVIOUS
    <2>2. IsFiniteSet(Image(T))
      BY <1>2
    <2> DEFINE I == Image(T)
               e == row[x]
    <2> HIDE DEF Q, Image, I, e
    <2>3. IsFiniteSet(I)
      BY <2>2 DEF I
    <2>4. IsFiniteSet(I \cup {e})
      BY <2>3, FS_AddElement
    <2>5. Image(T \cup {x}) = I \cup {e}
      BY <2>1 DEF I, e
    <2> QED
      BY <2>4, <2>5 DEF Q
  <1> HIDE DEF Q
  <1>3. S \in Q
    BY <1>1, <1>2, FiniteSetInduction
  <1> QED
    BY <1>3 DEF Q

\* The sum over rows, one for each element, is that over the elements.
LEMMA SumRows ==
  ASSUME NEW S, IsFiniteSet(S), NEW row, \A x, y \in S : row[x] = row[y] => x = y,
         NEW f, NEW g, \A x \in S : g[x] \in Int /\ f[row[x]] = g[x]
  PROVE  SumFunctionOnSet(f, {row[x] : x \in S}) = SumFunctionOnSet(g, S)
  <1> DEFINE Image(T) == {row[x] : x \in T}
             Q == {T \in SUBSET S : SumFunctionOnSet(f, Image(T)) = SumFunctionOnSet(g, T)}
  <1>1. {} \in Q
    <2>1. Image({}) = {} /\ SumFunctionOnSet(f, {}) = 0 /\ SumFunctionOnSet(g, {}) = 0
      BY SumType, FS_EmptySet
    <2> QED
      BY <2>1
  <1>2. ASSUME NEW T \in SUBSET S, NEW x \in S \ T, T \in Q  PROVE T \cup {x} \in Q
    <2>1. Image(T \cup {x}) = Image(T) \cup {row[x]} /\ row[x] \notin Image(T)
      OBVIOUS
    <2>2. \A r \in Image(T) \cup {row[x]} : f[r] \in Int
      OBVIOUS
    <2>3. IsFiniteSet(T) /\ x \notin T /\ \A y \in T \cup {x} : g[y] \in Int
      BY FS_Subset
    <2>4. IsFiniteSet(Image(T))
      BY <2>3, ImageFinite
    <2>5. SumFunctionOnSet(f, Image(T)) = SumFunctionOnSet(g, T) /\ f[row[x]] = g[x]
      BY <1>2
    <2> HIDE DEF Q, Image
    <2>6. SumFunctionOnSet(f, Image(T) \cup {row[x]}) = SumFunctionOnSet(f, Image(T)) + f[row[x]]
      <3> DEFINE I == Image(T)
                 e == row[x]
      <3>1. IsFiniteSet(I) /\ e \notin I /\ \A r \in I \cup {e} : f[r] \in Int
        BY <2>1, <2>2, <2>4
      <3> HIDE DEF I, e
      <3>2. SumFunctionOnSet(f, I \cup {e}) = SumFunctionOnSet(f, I) + f[e]
        BY <3>1, SumAdd
      <3> QED
        BY <3>2 DEF I, e
    <2>7. SumFunctionOnSet(g, T \cup {x}) = SumFunctionOnSet(g, T) + g[x]
      BY <2>3, SumAdd
    <2>8. SumFunctionOnSet(f, Image(T \cup {x})) = SumFunctionOnSet(g, T \cup {x})
      BY <2>1, <2>5, <2>6, <2>7
    <2> QED
      BY <2>8 DEF Q
  <1> HIDE DEF Q
  <1>3. S \in Q
    BY <1>1, <1>2, FiniteSetInduction
  <1> QED
    BY <1>3 DEF Q

\* The sum over groups is that over all.
LEMMA SumGroups ==
  ASSUME NEW S, IsFiniteSet(S), NEW f, \A x \in S : f[x] \in Int,
         NEW K, IsFiniteSet(K), NEW key, \A x \in S : key[x] \in K
  PROVE  SumFunctionOnSet([k \in K |-> SumFunctionOnSet(f, {x \in S : key[x] = k})], K)
           = SumFunctionOnSet(f, S)
  <1> DEFINE Group(T, k) == {x \in T : key[x] = k}
             Sums(T) == [k \in K |-> SumFunctionOnSet(f, Group(T, k))]
             Q == {T \in SUBSET S : SumFunctionOnSet(Sums(T), K) = SumFunctionOnSet(f, T)}
  <1>1. {} \in Q
    <2>1. \A k \in K : Group({}, k) = {}
      OBVIOUS
    <2>2. SumFunctionOnSet(f, {}) = 0
      BY SumType, FS_EmptySet
    <2>3. \A k \in K : Sums({})[k] = 0
      BY <2>1, <2>2
    <2> HIDE DEF Sums
    <2>4. SumFunctionOnSet(Sums({}), K) = 0
      BY <2>3, SumZero
    <2> QED
      BY <2>2, <2>4
  <1>2. ASSUME NEW T \in SUBSET S, NEW x \in S \ T, T \in Q  PROVE T \cup {x} \in Q
    <2> DEFINE U == T \cup {x}
               y == key[x]
    <2>1. IsFiniteSet(T) /\ IsFiniteSet(U) /\ x \notin T /\ y \in K
      BY FS_Subset, FS_AddElement
    <2>2. \A k \in K : /\ IsFiniteSet(Group(T, k)) /\ IsFiniteSet(Group(U, k))
                       /\ Group(T, k) \in SUBSET S /\ Group(U, k) \in SUBSET S
      BY <2>1, FS_Subset
    <2>3. \A k \in K : Sums(T)[k] = SumFunctionOnSet(f, Group(T, k))
                       /\ Sums(U)[k] = SumFunctionOnSet(f, Group(U, k))
      OBVIOUS
    <2>4. \A k \in K : Sums(T)[k] \in Int /\ Sums(U)[k] \in Int
      <3> SUFFICES ASSUME NEW k \in K
                   PROVE  /\ SumFunctionOnSet(f, Group(T, k)) \in Int
                          /\ SumFunctionOnSet(f, Group(U, k)) \in Int
        BY <2>3
      <3>1. \A z \in Group(T, k) : f[z] \in Int
        BY <2>2
      <3>2. \A z \in Group(U, k) : f[z] \in Int
        BY <2>2
      <3> HIDE DEF Group
      <3> QED
        BY <2>2, <3>1, <3>2, SumType
    <2>5. \A k \in K \ {y} : Group(U, k) = Group(T, k)
      OBVIOUS
    <2>6. Group(U, y) = Group(T, y) \cup {x} /\ x \notin Group(T, y)
      OBVIOUS
    <2>7. \A z \in Group(T, y) \cup {x} : f[z] \in Int
      BY <2>1, <2>2
    <2>8. SumFunctionOnSet(f, T) = SumFunctionOnSet(Sums(T), K)
      BY <1>2
    <2>9. SumFunctionOnSet(f, U) = SumFunctionOnSet(f, T) + f[x]
      <3>1. \A z \in T \cup {x} : f[z] \in Int
        OBVIOUS
      <3> HIDE DEF Q, Sums
      <3> QED
        BY <2>1, <3>1, SumAdd
    <2> HIDE DEF Q, Group, Sums
    <2>10. SumFunctionOnSet(f, Group(U, y)) = SumFunctionOnSet(f, Group(T, y)) + f[x]
      BY <2>1, <2>2, <2>6, <2>7, SumAdd
    <2>11. \A k \in K \ {y} : Sums(U)[k] = Sums(T)[k]
      BY <2>3, <2>5
    <2> HIDE DEF y, U
    <2>12. SumFunctionOnSet(Sums(U), K) = SumFunctionOnSet(Sums(T), K) + (Sums(U)[y] - Sums(T)[y])
      BY <2>1, <2>4, <2>11, SumUpdate
    <2>13. Sums(U)[y] = Sums(T)[y] + f[x]
      BY <2>1, <2>3, <2>10
    <2>14. f[x] \in Int /\ Sums(T)[y] \in Int /\ SumFunctionOnSet(Sums(T), K) \in Int
      BY <2>1, <2>4, SumType
    <2>15. (Sums(T)[y] + f[x]) - Sums(T)[y] = f[x]
      BY <2>14
    <2>16. SumFunctionOnSet(Sums(U), K) = SumFunctionOnSet(f, U)
      BY <2>8, <2>9, <2>12, <2>13, <2>15
    <2>17. U \in SUBSET S
      BY DEF U
    <2> QED
      BY <2>16, <2>17 DEF Q, U
  <1> HIDE DEF Q
  <1>3. S \in Q
    BY <1>1, <1>2, FiniteSetInduction
  <1> QED
    BY <1>3 DEF Q

\* A bound of the terms, times their number, bounds the sum.
LEMMA SumBound ==
  ASSUME NEW S, IsFiniteSet(S), NEW c \in Nat, NEW f, \A x \in S : f[x] \in -c..c
  PROVE  SumFunctionOnSet(f, S) \in -(c * Cardinality(S))..(c * Cardinality(S))
  <1> DEFINE Within(T) == SumFunctionOnSet(f, T) \in -(c * Cardinality(T))..(c * Cardinality(T))
             Q == {T \in SUBSET S : Within(T)}
  <1>1. {} \in Q
    <2>1. SumFunctionOnSet(f, {}) = 0 /\ Cardinality({}) = 0
      BY SumType, FS_EmptySet
    <2> QED
      BY <2>1
  <1>2. ASSUME NEW T \in SUBSET S, NEW x \in S \ T, T \in Q  PROVE T \cup {x} \in Q
    <2> DEFINE a == SumFunctionOnSet(f, T)
               b == f[x]
               n == Cardinality(T)
    <2>1. IsFiniteSet(T) /\ x \notin T /\ \A y \in T \cup {x} : f[y] \in Int
      BY FS_Subset
    <2>2. SumFunctionOnSet(f, T \cup {x}) = a + b
      <3> HIDE DEF Q
      <3> QED
        BY <2>1, SumAdd
    <2>3. Cardinality(T \cup {x}) = n + 1 /\ n \in Nat
      BY <2>1, FS_AddElement, FS_CardinalityType
    <2>4. a \in -(c * n)..(c * n) /\ b \in -c..c
      BY <1>2
    <2> HIDE DEF a, b, n
    <2>5. c * (n + 1) = c * n + c /\ c * n \in Int
      BY <2>3
    <2>6. a + b \in -(c * n + c)..(c * n + c)
      BY <2>4, <2>5
    <2> QED
      BY <2>2, <2>3, <2>5, <2>6
  <1> HIDE DEF Q
  <1>3. S \in Q
    BY <1>1, <1>2, FiniteSetInduction
  <1> QED
    BY <1>3 DEF Q
=============================================================================
