---------------------------- MODULE LinkingProofs ---------------------------
(***************************************************************************)
(* What the linker, the models' pass and the user's verbs guarantee of the *)
(* links on file, for any rows, words, batches, verdicts and runs: IInv    *)
(* is inductive and implies LinksAreSound; of the greedy assignment the    *)
(* lemmas say what it takes of any list of candidates, by induction on the *)
(* list.                                                                   *)
(***************************************************************************)
EXTENDS Linking, FiniteSetTheorems, SequenceTheorems, WellFoundedInduction, TLAPS

-----------------------------------------------------------------------------
(* Numbers                                                                 *)

(* A set of numbers that is not empty has a least one.                     *)
LEMMA LeastNumber ==
  ASSUME NEW S \in SUBSET Nat, S # {}
  PROVE  \E n \in S : \A m \in S : n <= m
<1>1. \E n \in S : \A m \in S : ~ (<<m, n>> \in OpToRel(<, Nat))
  BY NatLessThanWellFounded, WFMin
<1>2. \A m, n \in Nat : <<m, n>> \in OpToRel(<, Nat) <=> m < n
  BY DEF OpToRel
<1>3. PICK n \in S : \A m \in S : ~ (<<m, n>> \in OpToRel(<, Nat))
  BY <1>1
<1>4. \A m \in S : ~ (m < n)
  BY <1>2, <1>3
<1>5. \A m \in S : n <= m
  BY <1>4
<1> QED  BY <1>5

(* A set that holds 0 and the successor of each of its numbers holds all.  *)
LEMMA AllNumbers ==
  ASSUME NEW S \in SUBSET Nat, 0 \in S, \A n \in S : n + 1 \in S
  PROVE  S = Nat
<1>1. SUFFICES ASSUME Nat \ S # {}  PROVE FALSE
  OBVIOUS
<1>2. PICK n \in Nat \ S : \A m \in Nat \ S : n <= m
  BY <1>1, LeastNumber
<1>3. n - 1 \in Nat /\ n - 1 \in S
  BY <1>2
<1> QED  BY <1>2, <1>3

(* A finite set of numbers that is not empty has a greatest one.           *)
LEMMA GreatestNumber ==
  ASSUME NEW S \in SUBSET Nat, S # {}, IsFiniteSet(S)
  PROVE  \E n \in S : \A m \in S : m <= n
<1> DEFINE T == {k \in Nat : \A A \in SUBSET Nat :
                   IsFiniteSet(A) /\ Cardinality(A) = k /\ A # {} => \E n \in A : \A m \in A : m <= n}
<1>1. 0 \in T
  BY FS_EmptySet
<1>2. ASSUME NEW k \in T  PROVE k + 1 \in T
  <2>1. SUFFICES ASSUME NEW A \in SUBSET Nat, IsFiniteSet(A), Cardinality(A) = k + 1, A # {}
                 PROVE  \E n \in A : \A m \in A : m <= n
    BY <1>2
  <2>2. PICK a \in A : TRUE
    BY <2>1
  <2>3. IsFiniteSet(A \ {a}) /\ Cardinality(A \ {a}) = k
    <3>1. k \in Nat
      BY <1>2
    <3>2. IsFiniteSet(A \ {a}) /\ Cardinality(A \ {a}) = Cardinality(A) - 1
      BY ONLY <2>1, <2>2, FS_RemoveElement
    <3> QED  BY ONLY <2>1, <3>1, <3>2
  <2>4. CASE A \ {a} = {}
    BY <2>4, <2>2
  <2>5. CASE A \ {a} # {}
    <3>1. PICK n \in A \ {a} : \A m \in A \ {a} : m <= n
      BY <1>2, <2>3, <2>5
    <3> QED  BY <3>1, <2>2
  <2> QED  BY <2>4, <2>5
<1>3. T = Nat
  <2> HIDE DEF T
  <2> QED  BY <1>1, <1>2, AllNumbers, T \in SUBSET Nat DEF T
<1>4. Cardinality(S) \in T
  BY <1>3, FS_CardinalityType
<1> QED  BY <1>4

-----------------------------------------------------------------------------
(* Sums                                                                    *)

(* The sums of the weights of every set of elements of S                   *)
Sums(sigma, w, S) ==
  /\ sigma \in [SUBSET S -> Nat]
  /\ sigma[{}] = 0
  /\ \A s \in SUBSET S : \A x \in s : sigma[s] = w[x] + sigma[s \ {x}]

(* Sums of a finite set exist.                                             *)
LEMMA SumsExist ==
  ASSUME NEW S, IsFiniteSet(S), NEW w \in [S -> Nat]
  PROVE  \E sigma : Sums(sigma, w, S)
<1> DEFINE T == {k \in Nat : \A A \in SUBSET S :
                   IsFiniteSet(A) /\ Cardinality(A) = k => \E sigma : Sums(sigma, w, A)}
<1>1. 0 \in T
  <2>1. Sums([s \in {{}} |-> 0], w, {})
    BY DEF Sums
  <2> QED  BY <2>1, FS_EmptySet
<1>2. ASSUME NEW k \in T  PROVE k + 1 \in T
  <2>1. SUFFICES ASSUME NEW A \in SUBSET S, IsFiniteSet(A), Cardinality(A) = k + 1
                 PROVE  \E sigma : Sums(sigma, w, A)
    BY <1>2
  <2>2. PICK z \in A : TRUE
    BY <1>2, <2>1, FS_EmptySet
  <2>3. IsFiniteSet(A \ {z}) /\ Cardinality(A \ {z}) = k
    <3>1. k \in Nat
      BY <1>2
    <3>2. IsFiniteSet(A \ {z}) /\ Cardinality(A \ {z}) = Cardinality(A) - 1
      BY ONLY <2>1, <2>2, FS_RemoveElement
    <3> QED  BY ONLY <2>1, <3>1, <3>2
  <2>4. PICK tau : Sums(tau, w, A \ {z})
    BY <1>2, <2>3
  <2> DEFINE sigma == [s \in SUBSET A |-> IF z \in s THEN w[z] + tau[s \ {z}] ELSE tau[s]]
  <2>5. sigma \in [SUBSET A -> Nat] /\ sigma[{}] = 0
    <3>1. tau \in [SUBSET (A \ {z}) -> Nat] /\ tau[{}] = 0
      BY <2>4 DEF Sums
    <3>2. \A s \in SUBSET A : s \ {z} \in SUBSET (A \ {z}) /\ (z \notin s => s \in SUBSET (A \ {z}))
      OBVIOUS
    <3>3. w[z] \in Nat
      BY <2>2
    <3>4. ASSUME NEW s \in SUBSET A  PROVE (IF z \in s THEN w[z] + tau[s \ {z}] ELSE tau[s]) \in Nat
      BY <3>1, <3>2, <3>3
    <3> QED  BY <3>1, <3>4
  <2>6. ASSUME NEW s \in SUBSET A, NEW x \in s  PROVE sigma[s] = w[x] + sigma[s \ {x}]
    <3>1. s \ {x} \in SUBSET A /\ w[x] \in Nat /\ w[z] \in Nat
      BY <2>2, <2>6
    <3>2. CASE x = z
      <4>1. sigma[s] = w[z] + tau[s \ {z}] /\ sigma[s \ {x}] = tau[s \ {x}]
        BY <3>1, <3>2
      <4> QED  BY <4>1, <3>2
    <3>3. CASE x # z /\ z \in s
      <4>1. sigma[s] = w[z] + tau[s \ {z}] /\ sigma[s \ {x}] = w[z] + tau[(s \ {x}) \ {z}]
        BY <3>1, <3>3
      <4>2. s \ {z} \in SUBSET (A \ {z}) /\ x \in s \ {z} /\ (s \ {x}) \ {z} = (s \ {z}) \ {x}
        BY <3>3
      <4>3. tau[s \ {z}] = w[x] + tau[(s \ {x}) \ {z}]
        BY <4>2, <2>4 DEF Sums
      <4>4. (s \ {x}) \ {z} \in SUBSET (A \ {z})
        OBVIOUS
      <4>5. tau[(s \ {x}) \ {z}] \in Nat
        BY <4>4, <2>4 DEF Sums
      <4> HIDE DEF sigma
      <4> QED  BY <4>1, <4>3, <4>5, <3>1
    <3>4. CASE x # z /\ z \notin s
      <4>1. sigma[s] = tau[s] /\ sigma[s \ {x}] = tau[s \ {x}] /\ s \in SUBSET (A \ {z})
        BY <3>1, <3>4
      <4> QED  BY <4>1, <2>4 DEF Sums
    <3> QED  BY <3>2, <3>3, <3>4
  <2>7. Sums(sigma, w, A)
    BY <2>5, <2>6 DEF Sums
  <2> QED  BY <2>7
<1>3. T = Nat
  <2> HIDE DEF T
  <2> QED  BY <1>1, <1>2, AllNumbers, T \in SUBSET Nat DEF T
<1>4. Cardinality(S) \in T
  BY <1>3, FS_CardinalityType
<1> QED  BY <1>4

(* And are what the library's sum of a function is.                        *)
LEMMA SumIs ==
  ASSUME NEW S, IsFiniteSet(S), NEW w \in [S -> Nat], NEW sigma, Sums(sigma, w, S)
  PROVE  SumFunction(w) = sigma[S]
<1> DEFINE Def(g) == [s \in SUBSET S |-> IF s = {} THEN 0
                        ELSE w[CHOOSE x \in s : TRUE] + g[s \ {CHOOSE x \in s : TRUE}]]
           f == CHOOSE g : g = Def(g)
<1>1. SumFunction(w) = f[S]
  BY DEF SumFunction, SumFunctionOnSet, FoldFunctionOnSet, MapThenFoldSet
<1>2. sigma = Def(sigma)
  BY DEF Sums
<1>3. f = Def(f)
  BY <1>2
<1> HIDE DEF f
<1>4. f[{}] = 0 /\ \A s \in SUBSET S : s # {} => \E x \in s : f[s] = w[x] + f[s \ {x}]
  <2>1. \A s \in SUBSET S : f[s] = IF s = {} THEN 0
                        ELSE w[CHOOSE x \in s : TRUE] + f[s \ {CHOOSE x \in s : TRUE}]
    BY <1>3
  <2> QED  BY <2>1
<1>5. SUFFICES ASSUME NEW s0 \in SUBSET S, f[s0] # sigma[s0]  PROVE FALSE
  BY <1>1
<1> DEFINE C == {n \in Nat : \E s \in SUBSET S : f[s] # sigma[s] /\ n = Cardinality(s)}
<1>6. C # {}
  <2>1. Cardinality(s0) \in Nat
    BY FS_Subset, FS_CardinalityType
  <2> QED  BY <1>5, <2>1
<1>7. PICK n \in C : \A m \in C : n <= m
  <2> HIDE DEF C
  <2> QED  BY <1>6, LeastNumber, C \in SUBSET Nat DEF C
<1>8. PICK s \in SUBSET S : f[s] # sigma[s] /\ n = Cardinality(s)
  BY <1>7
<1>9. s # {}
  BY <1>4, <1>8 DEF Sums
<1>10. PICK x \in s : f[s] = w[x] + f[s \ {x}]
  BY <1>4, <1>9
<1>11. f[s \ {x}] # sigma[s \ {x}]
  BY <1>8, <1>10 DEF Sums
<1>12. Cardinality(s \ {x}) = n - 1 /\ Cardinality(s \ {x}) \in Nat
  BY <1>8, <1>10, FS_Subset, FS_RemoveElement, FS_CardinalityType
<1>13. n - 1 \in C
  BY <1>11, <1>12
<1> QED  BY <1>7, <1>13

(* What the runs' sums of cents need: a sum is a number, grows with its    *)
(* set, and takes one element at a time.                                   *)
LEMMA SumFacts ==
  ASSUME NEW S, IsFiniteSet(S), NEW w \in [S -> Nat]
  PROVE  /\ SumFunction(w) \in Nat
         /\ S = {} => SumFunction(w) = 0
         /\ \A x \in S : SumFunction(w) = w[x] + SumFunction([y \in S \ {x} |-> w[y]])
<1>1. PICK sigma : Sums(sigma, w, S)
  BY SumsExist
<1>2. SumFunction(w) = sigma[S]
  BY <1>1, SumIs
<1>3. ASSUME NEW x \in S  PROVE SumFunction([y \in S \ {x} |-> w[y]]) = sigma[S \ {x}]
  <2> DEFINE A == S \ {x}
             v == [y \in A |-> w[y]]
             tau == [s \in SUBSET A |-> sigma[s]]
  <2>1. IsFiniteSet(A) /\ v \in [A -> Nat]
    BY FS_Subset
  <2>2. tau \in [SUBSET A -> Nat] /\ tau[{}] = 0
    BY <1>1 DEF Sums
  <2>3. ASSUME NEW s \in SUBSET A, NEW z \in s  PROVE tau[s] = v[z] + tau[s \ {z}]
    <3>1. s \in SUBSET S /\ s \ {z} \in SUBSET A /\ tau[s] = sigma[s] /\ tau[s \ {z}] = sigma[s \ {z}] /\ v[z] = w[z]
      OBVIOUS
    <3>2. sigma[s] = w[z] + sigma[s \ {z}]
      BY <1>1, <3>1 DEF Sums
    <3> QED  BY <3>1, <3>2
  <2>4. Sums(tau, v, A)
    <3> HIDE DEF tau, v, A
    <3> QED  BY <2>2, <2>3 DEF Sums
  <2>5. SumFunction(v) = tau[A]
    <3> HIDE DEF tau, v, A
    <3> QED  BY <2>1, <2>4, SumIs
  <2> QED  BY <2>5
<1>4. \A x \in S : sigma[S] = w[x] + sigma[S \ {x}]
  BY <1>1 DEF Sums
<1>5. sigma[S] \in Nat /\ (S = {} => sigma[S] = 0)
  BY <1>1 DEF Sums
<1> QED  BY <1>2, <1>3, <1>4, <1>5

(* And so a part of a set sums to no more than the set.                    *)
LEMMA SumMonotone ==
  ASSUME NEW S, IsFiniteSet(S), NEW w \in [S -> Nat], NEW A0 \in SUBSET S
  PROVE  SumFunction([y \in A0 |-> w[y]]) <= SumFunction(w)
<1> DEFINE Part(A) == SumFunction([y \in A |-> w[y]])
           T == {k \in Nat : \A A \in SUBSET S : Cardinality(S \ A) = k => Part(A) <= SumFunction(w)}
<1>1. ASSUME NEW A \in SUBSET S  PROVE Part(A) \in Nat /\ IsFiniteSet(A) /\ IsFiniteSet(S \ A)
  <2>1. IsFiniteSet(A) /\ IsFiniteSet(S \ A) /\ [y \in A |-> w[y]] \in [A -> Nat]
    BY FS_Subset
  <2> QED  BY <2>1, SumFacts
<1>2. 0 \in T
  <2>1. ASSUME NEW A \in SUBSET S, Cardinality(S \ A) = 0  PROVE Part(A) = SumFunction(w)
    <3>1. S \ A = {}
      BY <1>1, <2>1, FS_EmptySet
    <3>2. A = S /\ [y \in S |-> w[y]] = w
      BY <3>1
    <3> QED  BY <3>2
  <2>2. SumFunction(w) \in Nat
    BY SumFacts
  <2> HIDE DEF Part
  <2> QED  BY <2>1, <2>2
<1>3. ASSUME NEW k \in T  PROVE k + 1 \in T
  <2>1. SUFFICES ASSUME NEW A \in SUBSET S, Cardinality(S \ A) = k + 1  PROVE Part(A) <= SumFunction(w)
    BY <1>3
  <2>2. PICK x \in S \ A : TRUE
    BY <1>3, <2>1, FS_EmptySet
  <2> DEFINE B == A \cup {x}
             v == [y \in B |-> w[y]]
  <2>3. Cardinality(S \ B) = k
    <3>1. S \ B = (S \ A) \ {x}
      OBVIOUS
    <3>2. Cardinality((S \ A) \ {x}) = Cardinality(S \ A) - 1
      BY ONLY <1>1, <2>2, FS_RemoveElement
    <3>3. k \in Nat
      BY <1>3
    <3>4. Cardinality((S \ A) \ {x}) = k
      BY ONLY <2>1, <3>2, <3>3
    <3> QED  BY <3>1, <3>4
  <2>4. Part(B) <= SumFunction(w)
    BY <1>3, <2>2, <2>3
  <2>5. Part(B) = w[x] + Part(A)
    <3>1. IsFiniteSet(B) /\ v \in [B -> Nat] /\ x \in B
      BY <1>1, <2>2
    <3>2. SumFunction(v) = v[x] + SumFunction([y \in B \ {x} |-> v[y]])
      <4> HIDE DEF v, B
      <4> QED  BY <3>1, SumFacts
    <3>3. B \ {x} = A /\ v[x] = w[x] /\ [y \in B \ {x} |-> v[y]] = [y \in A |-> w[y]]
      BY <2>2
    <3> QED  BY <3>2, <3>3
  <2>6. Part(A) \in Nat /\ Part(B) \in Nat /\ SumFunction(w) \in Nat /\ w[x] \in Nat
    BY <1>1, <2>2, SumFacts
  <2> HIDE DEF Part, B
  <2> QED  BY <2>4, <2>5, <2>6
<1>4. T = Nat
  <2> HIDE DEF T
  <2> QED  BY <1>2, <1>3, AllNumbers, T \in SUBSET Nat DEF T
<1>5. Cardinality(S \ A0) \in T
  BY <1>1, <1>4, FS_CardinalityType
<1> QED  BY <1>5

-----------------------------------------------------------------------------
(* Orders                                                                  *)

(* How many of S come before c                                             *)
Place(S, R, c) == Cardinality({d \in S : <<d, c>> \in R})

(* In a finite set with a strict total order, each number below its size   *)
(* is the number of elements before exactly one of them.                   *)
LEMMA Ranks ==
  ASSUME NEW S, IsFiniteSet(S), NEW R,
         \A c \in S : <<c, c>> \notin R,
         \A c, d \in S : c # d => <<c, d>> \in R \/ <<d, c>> \in R,
         \A c, d, e \in S : <<c, d>> \in R /\ <<d, e>> \in R => <<c, e>> \in R
  PROVE  /\ \A c \in S : Place(S, R, c) \in Nat /\ Place(S, R, c) < Cardinality(S)
         /\ \A c, d \in S : Place(S, R, c) = Place(S, R, d) => c = d
         /\ \A i \in 1..Cardinality(S) : \E c \in S : Place(S, R, c) = i - 1
<1> DEFINE below(c) == {d \in S : <<d, c>> \in R}
           rank(c) == Cardinality(below(c))
           n == Cardinality(S)
           r == [c \in S |-> rank(c)]
<1>1. n \in Nat
  BY FS_CardinalityType
<1>2. ASSUME NEW c \in S  PROVE IsFiniteSet(below(c)) /\ rank(c) \in Nat /\ rank(c) < n
  <2>1. below(c) \in SUBSET S /\ below(c) # S
    OBVIOUS
  <2> HIDE DEF below
  <2>2. IsFiniteSet(below(c)) /\ Cardinality(below(c)) <= Cardinality(S) /\ Cardinality(below(c)) # Cardinality(S)
    BY <2>1, FS_Subset
  <2>3. rank(c) \in Nat
    BY <2>2, FS_CardinalityType
  <2> QED  BY <1>1, <2>2, <2>3
<1>3. ASSUME NEW c \in S, NEW d \in S, <<c, d>> \in R  PROVE rank(c) < rank(d)
  <2>1. below(c) \in SUBSET below(d) /\ below(c) # below(d)
    BY <1>3
  <2>2. IsFiniteSet(below(d)) /\ rank(c) \in Nat /\ rank(d) \in Nat
    BY <1>2
  <2> HIDE DEF below
  <2> QED  BY <2>1, <2>2, FS_Subset
<1> HIDE DEF below
<1>4. ASSUME NEW c \in S, NEW d \in S, rank(c) = rank(d)  PROVE c = d
  <2>1. SUFFICES ASSUME c # d  PROVE FALSE
    OBVIOUS
  <2>2. rank(c) \in Nat /\ rank(d) \in Nat
    BY <1>2
  <2>3. CASE <<c, d>> \in R
    <3>1. rank(c) < rank(d)
      BY <1>3, <2>3
    <3> HIDE DEF rank
    <3> QED  BY <1>4, <2>2, <3>1
  <2>4. CASE <<d, c>> \in R
    <3>1. rank(d) < rank(c)
      BY <1>3, <2>4
    <3> HIDE DEF rank
    <3> QED  BY <1>4, <2>2, <3>1
  <2> QED  BY <2>1, <2>3, <2>4
<1>5. \A i \in 1..n : \E c \in S : rank(c) = i - 1
  <2> DEFINE U == 0..(n - 1)
  <2>1. r \in Injection(S, U)
    <3>1. r \in [S -> U]
      <4>1. \A c \in S : rank(c) \in U
        BY <1>1, <1>2
      <4> HIDE DEF U
      <4> QED  BY <4>1
    <3>2. \A c, d \in S : r[c] = r[d] => c = d
      BY <1>4
    <3> HIDE DEF r, U
    <3> QED  BY <3>1, <3>2 DEF Injection, IsInjective
  <2>2. IsFiniteSet(U) /\ Cardinality(U) = n
    <3>1. n - 1 \in Int /\ IsFiniteSet(0..(n - 1))
      BY <1>1, FS_Interval
    <3>2. Cardinality(0..(n - 1)) = IF 0 > n - 1 THEN 0 ELSE (n - 1) - 0 + 1
      BY <3>1, FS_Interval
    <3> HIDE DEF n
    <3>3. Cardinality(0..(n - 1)) = n
      BY <1>1, <3>2
    <3> QED  BY <3>1, <3>3
  <2>3. r \in Surjection(S, U)
    <3> HIDE DEF r, U
    <3> QED  BY <2>1, <2>2, FS_Injection
  <2>4. ASSUME NEW i \in 1..n  PROVE \E c \in S : rank(c) = i - 1
    <3>1. i - 1 \in U
      BY <1>1
    <3>2. \E c \in S : r[c] = i - 1
      <4> HIDE DEF r, U
      <4> QED  BY <2>3, <3>1 DEF Surjection
    <3> QED  BY <3>2
  <2> QED  BY <2>4
<1>6. \A c \in S : Place(S, R, c) = rank(c)
  BY DEF Place, below
<1> HIDE DEF rank, n
<1> QED  BY <1>2, <1>4, <1>5, <1>6 DEF n

(* Of finitely many, one comes last by a measure.                          *)
LEMMA LastBy ==
  ASSUME NEW C, IsFiniteSet(C), C # {}, NEW f \in [C -> Nat]
  PROVE  \E p \in C : \A q \in C : f[p] >= f[q]
<1> DEFINE V == {f[p] : p \in C}
<1>1. f \in Surjection(C, V)
  BY DEF Surjection
<1>2. IsFiniteSet(V)
  <2> HIDE DEF V
  <2> QED  BY <1>1, FS_Surjection
<1>3. V \in SUBSET Nat /\ V # {}
  OBVIOUS
<1>4. PICK n \in V : \A m \in V : m <= n
  <2> HIDE DEF V
  <2> QED  BY <1>2, <1>3, GreatestNumber
<1> QED  BY <1>4

-----------------------------------------------------------------------------
(* Scores and candidates                                                   *)
Cands == [src : Txns, tgt : Txns, type : Types, conf : Int, at : Nat \X Nat]
Entries == [src : Txns, tgt : Txns, type : Types, conf : Int]
Projection(c) == [src |-> c.src, tgt |-> c.tgt, type |-> c.type, conf |-> c.conf]

(* What the books say of a row                                             *)
LEMMA RowOf ==
  ASSUME book \in Books, NEW t \in Txns
  PROVE  /\ book[t] \in Row /\ IsFiniteSet(book[t].words)
         /\ book[t].cents \in Nat \ {0} /\ book[t].day \in Nat /\ book[t].rate \in Nat
         /\ book[t].debit \in BOOLEAN
<1>1. book \in [Txns -> Row] /\ IsFiniteSet(book[t].words)
  BY LinkingAssumption
<1> QED  BY <1>1 DEF Row

(* The words name a type of the table, whichever of the strongest counts.  *)
LEMMA NamedType ==
  ASSUME NEW s \in Row, NEW t \in Row, IsFiniteSet(s.words), IsFiniteSet(t.words)
  PROVE  /\ Named(s, t).type \in Types /\ Named(s, t).score \in {15, 60, 100}
         /\ Named(s, t).score = 100 => s.words # {} /\ t.words # {}
<1>1. \A w \in s.words \cup t.words : w.type \in Types /\ w.priority \in Nat
  BY DEF Row
<1>2. CASE Agreeing(s, t) # {}
  <2>1. IsFiniteSet(s.words \X t.words) /\ Agreeing(s, t) \in SUBSET (s.words \X t.words)
    BY FS_Product DEF Agreeing
  <2>2. IsFiniteSet(Agreeing(s, t))
    BY <2>1, FS_Subset
  <2>3. \A p \in Agreeing(s, t) : p[1] \in s.words /\ p[2] \in t.words
    BY <2>1
  <2> DEFINE f == [p \in Agreeing(s, t) |-> p[1].priority + p[2].priority]
  <2>4. f \in [Agreeing(s, t) -> Nat]
    <3>1. \A p \in Agreeing(s, t) : p[1].priority \in Nat /\ p[2].priority \in Nat
      BY <1>1, <2>3
    <3>2. \A p \in Agreeing(s, t) : p[1].priority + p[2].priority \in Nat
      BY <3>1
    <3> QED  BY <3>2
  <2>5. PICK p \in Agreeing(s, t) : \A q \in Agreeing(s, t) : f[p] >= f[q]
    <3> HIDE DEF f
    <3> QED  BY <1>2, <2>2, <2>4, LastBy
  <2>6. \A q \in Agreeing(s, t) : p[1].priority + p[2].priority >= q[1].priority + q[2].priority
    BY <2>5
  <2> DEFINE c == CHOOSE r \in Agreeing(s, t) : \A q \in Agreeing(s, t) :
                      r[1].priority + r[2].priority >= q[1].priority + q[2].priority
  <2>7. c \in Agreeing(s, t)
    BY <2>6
  <2>8. Named(s, t) = [score |-> 100, type |-> c[1].type]
    BY <1>2 DEF Named
  <2> HIDE DEF c
  <2>9. c[1] \in s.words /\ c[2] \in t.words
    BY <2>3, <2>7
  <2> QED  BY <1>1, <2>8, <2>9
<1>3. CASE Agreeing(s, t) = {} /\ s.words \cup t.words # {}
  <2> DEFINE W == s.words \cup t.words
             f == [w \in W |-> w.priority]
  <2>1. IsFiniteSet(W) /\ W # {} /\ f \in [W -> Nat]
    BY <1>1, <1>3, FS_Union
  <2>2. PICK w \in W : \A v \in W : f[w] >= f[v]
    <3> HIDE DEF f, W
    <3> QED  BY <2>1, LastBy
  <2> DEFINE c == CHOOSE r \in W : \A v \in W : r.priority >= v.priority
  <2>3. c \in W
    BY <2>2
  <2>4. Named(s, t) = [score |-> 60, type |-> c.type]
    BY <1>3 DEF Named
  <2> HIDE DEF c
  <2> QED  BY <1>1, <2>3, <2>4
<1>4. CASE Agreeing(s, t) = {} /\ s.words \cup t.words = {}
  <2>1. Named(s, t) = [score |-> 15, type |-> "OTHER"]
    BY <1>4 DEF Named
  <2> QED  BY <2>1 DEF Types
<1> QED  BY <1>2, <1>3, <1>4

(* Each score is one, and an amount in one currency is certain only when   *)
(* it is the same.                                                         *)
LEMMA AmountScoreType ==
  ASSUME NEW s \in Row, NEW t \in Row, NEW rate \in Nat
  PROVE  /\ AmountScore(s, t, rate) \in {0, 60, 78, 80, 85, 95, 98, 100}
         /\ s.currency = t.currency => (AmountScore(s, t, rate) = 100 <=> s.cents = t.cents)
<1>1. s.cents \in Nat /\ t.cents \in Nat
  BY DEF Row
<1>2. Gap(s.cents, t.cents) \in Nat /\ (Gap(s.cents, t.cents) = 0 <=> s.cents = t.cents)
  BY <1>1 DEF Gap
<1>3. SameMoney(s, t) \in {0, 60, 85, 98, 100} /\ (SameMoney(s, t) = 100 <=> s.cents = t.cents)
  <2>1. CASE Gap(s.cents, t.cents) = 0
    BY <1>2, <2>1 DEF SameMoney
  <2>2. CASE Gap(s.cents, t.cents) = 1
    BY <1>2, <2>2 DEF SameMoney
  <2>3. CASE Gap(s.cents, t.cents) \in 2..50
    BY <1>2, <2>3 DEF SameMoney
  <2>4. CASE Gap(s.cents, t.cents) \in 51..200
    BY <1>2, <2>4 DEF SameMoney
  <2>5. CASE Gap(s.cents, t.cents) > 200
    BY <1>2, <2>5 DEF SameMoney
  <2> QED  BY <1>2, <2>1, <2>2, <2>3, <2>4, <2>5
<1>4. Rated(s, t, rate) \in {0, 80, 95}
  <2> DEFINE out == 100 * (IF s.currency = "CAD" THEN Gap(100 * s.cents, rate * t.cents)
                    ELSE Gap(rate * s.cents, 100 * t.cents))
             whole == t.cents * (IF s.currency = "CAD" THEN rate ELSE 100)
             a == 2 * out <= whole
             b == 2 * out > whole /\ out <= 2 * whole
  <2>1. Rated(s, t, rate) = CASE a -> 95 [] b -> 80 [] OTHER -> 0
    BY DEF Rated
  <2>2. ~ (a /\ b)
    <3>1. whole \in Nat /\ out \in Nat
      <4>1. \A m, n \in Nat : m * n \in Nat
        OBVIOUS
      <4>2. \A m, n \in Nat : Gap(m, n) \in Nat
        BY DEF Gap
      <4>3. rate * t.cents \in Nat /\ rate * s.cents \in Nat /\ 100 * s.cents \in Nat /\ 100 * t.cents \in Nat
        BY <1>1, <4>1
      <4>4. (IF s.currency = "CAD" THEN Gap(100 * s.cents, rate * t.cents)
              ELSE Gap(rate * s.cents, 100 * t.cents)) \in Nat
        BY <4>2, <4>3
      <4>5. out \in Nat
        BY <4>1, <4>4
      <4>6. t.cents * rate \in Nat /\ t.cents * 100 \in Nat
        BY <1>1, <4>1
      <4> QED  BY <4>5, <4>6
    <3> HIDE DEF out, whole
    <3> QED  BY <3>1
  <2> HIDE DEF a, b
  <2>3. CASE a
    BY <2>1, <2>2, <2>3
  <2>4. CASE b
    BY <2>1, <2>2, <2>4
  <2>5. CASE ~ a /\ ~ b
    BY <2>1, <2>5
  <2> QED  BY <2>3, <2>4, <2>5
<1>5. Implied(s, t) \in {0, 78}
  BY DEF Implied
<1>6. CASE s.currency = t.currency
  BY <1>3, <1>6 DEF AmountScore
<1>7. CASE s.currency # t.currency /\ rate # 0 /\ Rated(s, t, rate) # 0
  BY <1>4, <1>7 DEF AmountScore
<1>8. CASE s.currency # t.currency /\ ~ (rate # 0 /\ Rated(s, t, rate) # 0)
  BY <1>5, <1>8 DEF AmountScore
<1> QED  BY <1>6, <1>7, <1>8

LEMMA DateScoreType ==
  ASSUME NEW days \in Nat, NEW type \in Types
  PROVE  DateScore(days, type) \in 0..100
<1> DEFINE tiers == DateTiers(type)
           fits == {i \in DOMAIN tiers : days <= tiers[i][1]}
<1>1. DOMAIN tiers \in SUBSET Nat /\ \A i \in DOMAIN tiers : tiers[i][2] \in 0..100
  <2>1. CASE type = "CREDIT_CARD_PAYMENT"
    BY <2>1 DEF DateTiers
  <2>2. CASE type = "FX_CONVERSION"
    BY <2>2 DEF DateTiers
  <2>3. CASE type = "WISE_TRANSFER"
    BY <2>3 DEF DateTiers
  <2>4. CASE type = "REFUND"
    BY <2>4 DEF DateTiers
  <2>5. CASE type \in {"INTERNAL_TRANSFER", "OTHER"}
    BY <2>5 DEF DateTiers
  <2> QED  BY <2>1, <2>2, <2>3, <2>4, <2>5 DEF Types
<1>2. DateScore(days, type) = IF fits = {} THEN 0 ELSE tiers[Min(fits)][2]
  BY DEF DateScore
<1>3. ASSUME fits # {}  PROVE Min(fits) \in DOMAIN tiers
  <2>1. fits \in SUBSET Nat
    BY <1>1
  <2>2. \E n \in fits : \A m \in fits : n <= m
    <3> HIDE DEF fits
    <3> QED  BY <1>3, <2>1, LeastNumber
  <2>3. Min(fits) \in fits
    BY <2>2 DEF Min
  <2> QED  BY <2>3
<1> HIDE DEF fits, tiers
<1> QED  BY <1>1, <1>2, <1>3

LEMMA PairScoreType ==
  ASSUME NEW s \in Row, NEW t \in Row, NEW type \in Types
  PROVE  /\ PairScore(s, t, type) \in {0, 50, 100}
         /\ {s.account, t.account} \in ValidPairs(type) => PairScore(s, t, type) = 100
<1>1. CASE {s.account, t.account} \in ValidPairs(type)
  BY <1>1 DEF PairScore
<1>2. CASE {s.account, t.account} \notin ValidPairs(type)
           /\ \E other \in Types : {s.account, t.account} \in ValidPairs(other)
  BY <1>2 DEF PairScore
<1>3. CASE {s.account, t.account} \notin ValidPairs(type)
           /\ ~ \E other \in Types : {s.account, t.account} \in ValidPairs(other)
  BY <1>3 DEF PairScore
<1> QED  BY <1>1, <1>2, <1>3

(* What Candidate weighs                                                   *)
Rate(x, y) == IF book[x].rate # 0 THEN book[x].rate ELSE book[y].rate
Type(x, y) ==
  IF Rate(x, y) # 0 /\ book[x].currency # book[y].currency
       /\ Named(book[x], book[y]).type # "WISE_TRANSFER"
  THEN "FX_CONVERSION" ELSE Named(book[x], book[y]).type
Days(x, y) == Gap(book[x].day, book[y].day)
Weighed(x, y) ==
  45 * AmountScore(book[x], book[y], Rate(x, y)) + 25 * DateScore(Days(x, y), Type(x, y))
    + 20 * Named(book[x], book[y]).score + 10 * PairScore(book[x], book[y], Type(x, y))
Confidence(x, y) ==
  Adjusted(book[x], book[y], Type(x, y), AmountScore(book[x], book[y], Rate(x, y)),
           Named(book[x], book[y]).score, PairScore(book[x], book[y], Type(x, y)), Weighed(x, y))
TheCandidate(x, y) ==
  [src |-> IF book[x].debit THEN x ELSE y, tgt |-> IF book[x].debit THEN y ELSE x,
   type |-> Type(x, y), conf |-> Confidence(x, y), at |-> <<x, y>>]

LEMMA CandidateIs ==
  ASSUME NEW x, NEW y
  PROVE  Candidate(x, y) = IF Weighed(x, y) < 5500 \/ Days(x, y) > Window(Type(x, y)) THEN {}
                           ELSE {TheCandidate(x, y)}
BY DEF Candidate, TheCandidate, Weighed, Days, Type, Rate, Confidence

LEMMA Weights ==
  ASSUME book \in Books, NEW x \in Txns, NEW y \in Txns
  PROVE  /\ Type(x, y) \in Types /\ Days(x, y) \in Nat /\ Rate(x, y) \in Nat
         /\ Weighed(x, y) \in Nat
         /\ Weighed(x, y) >= 45 * AmountScore(book[x], book[y], Rate(x, y))
              + 20 * Named(book[x], book[y]).score + 10 * PairScore(book[x], book[y], Type(x, y))
<1>1. book[x] \in Row /\ book[y] \in Row /\ IsFiniteSet(book[x].words) /\ IsFiniteSet(book[y].words)
  BY RowOf
<1>2. Named(book[x], book[y]).type \in Types /\ Named(book[x], book[y]).score \in {15, 60, 100}
  BY <1>1, NamedType
<1>3. Type(x, y) \in Types
  BY <1>2 DEF Type, Types
<1>4. Days(x, y) \in Nat /\ Rate(x, y) \in Nat
  <2>1. book[x].day \in Nat /\ book[y].day \in Nat /\ book[x].rate \in Nat /\ book[y].rate \in Nat
    BY RowOf
  <2> QED  BY <2>1 DEF Days, Rate, Gap
<1>5. AmountScore(book[x], book[y], Rate(x, y)) \in Nat
  <2>1. AmountScore(book[x], book[y], Rate(x, y)) \in {0, 60, 78, 80, 85, 95, 98, 100}
    BY <1>1, <1>4, AmountScoreType
  <2> QED  BY <2>1
<1>6. DateScore(Days(x, y), Type(x, y)) \in Nat
  <2>1. DateScore(Days(x, y), Type(x, y)) \in 0..100
    BY <1>3, <1>4, DateScoreType
  <2> QED  BY <2>1
<1>7. PairScore(book[x], book[y], Type(x, y)) \in Nat
  <2>1. PairScore(book[x], book[y], Type(x, y)) \in {0, 50, 100}
    BY <1>1, <1>3, PairScoreType
  <2> QED  BY <2>1
<1>8. Named(book[x], book[y]).score \in Nat
  BY <1>2
<1>9. \A a, b, c, d \in Nat : /\ 45 * a + 25 * b + 20 * c + 10 * d \in Nat
                              /\ 45 * a + 25 * b + 20 * c + 10 * d >= 45 * a + 20 * c + 10 * d
  OBVIOUS
<1> QED  BY <1>3, <1>4, <1>5, <1>6, <1>7, <1>8, <1>9 DEF Weighed

(* The linker's confidence in a pair: never its own line when the amounts  *)
(* of one currency differ, never under it when the pair is certain.        *)
LEMMA ConfidenceIs ==
  ASSUME book \in Books, NEW x \in Txns, NEW y \in Txns
  PROVE  /\ Confidence(x, y) \in Int
         /\ book[x].currency = book[y].currency /\ book[x].cents # book[y].cents
              => Confidence(x, y) <= 8500
         /\ CertainPair(x, y) => Confidence(x, y) >= AutoApprove
<1> DEFINE amount == AmountScore(book[x], book[y], Rate(x, y))
           words == Named(book[x], book[y]).score
           accounts == PairScore(book[x], book[y], Type(x, y))
           weighed == Weighed(x, y)
           sure == Type(x, y) \in Certain /\ amount = 100 /\ words = 100 /\ accounts = 100
           miss == book[x].currency = book[y].currency /\ amount < 100
<1>1. book[x] \in Row /\ book[y] \in Row
  BY RowOf
<1>2. weighed \in Nat /\ Rate(x, y) \in Nat /\ Type(x, y) \in Types
  BY Weights
<1>3. Confidence(x, y) = CASE sure -> Larger(weighed, AutoApprove) [] miss -> Smaller(weighed, 8500)
                           [] OTHER -> weighed
  BY DEF Confidence, Adjusted
<1>4. ~ (sure /\ miss)
  OBVIOUS
<1>5. amount \in {0, 60, 78, 80, 85, 95, 98, 100}
      /\ (book[x].currency = book[y].currency => (amount = 100 <=> book[x].cents = book[y].cents))
  BY <1>1, <1>2, AmountScoreType
<1>6. CertainPair(x, y) => sure
  <2>1. SUFFICES ASSUME CertainPair(x, y)  PROVE sure
    OBVIOUS
  <2>2. Type(x, y) = Named(book[x], book[y]).type
    BY <2>1 DEF CertainPair, Type
  <2>3. words = 100 /\ Type(x, y) \in Certain
    BY <2>1, <2>2 DEF CertainPair
  <2>4. amount = 100
    BY <1>5, <2>1 DEF CertainPair
  <2>5. accounts = 100
    BY <1>1, <1>2, <2>1, <2>2, PairScoreType DEF CertainPair
  <2> QED  BY <2>3, <2>4, <2>5
<1>7. book[x].currency = book[y].currency /\ book[x].cents # book[y].cents => miss
  BY <1>5
<1> HIDE DEF sure, miss, weighed, amount, words, accounts
<1>8. CASE sure
  <2>1. Confidence(x, y) = Larger(weighed, AutoApprove)
    BY <1>3, <1>4, <1>8
  <2> QED  BY <1>2, <1>4, <1>7, <1>8, <2>1 DEF Larger, AutoApprove
<1>9. CASE miss
  <2>1. Confidence(x, y) = Smaller(weighed, 8500)
    BY <1>3, <1>4, <1>9
  <2> QED  BY <1>2, <1>4, <1>6, <1>9, <2>1 DEF Smaller
<1>10. CASE ~ sure /\ ~ miss
  <2>1. Confidence(x, y) = weighed
    BY <1>3, <1>10
  <2> QED  BY <1>2, <1>6, <1>7, <1>10, <2>1
<1> QED  BY <1>8, <1>9, <1>10

(* A candidate joins its two rows, the debit to the credit.                *)
LEMMA CandidateFacts ==
  ASSUME book \in Books, NEW x \in Txns, NEW y \in Txns, Opposite(x, y), NEW c \in Candidate(x, y)
  PROVE  /\ c \in Cands /\ c = TheCandidate(x, y) /\ c.at = <<x, y>>
         /\ {c.src, c.tgt} = {x, y} /\ c.src # c.tgt
         /\ c.type = Type(x, y) /\ c.conf = Confidence(x, y)
<1>1. c = TheCandidate(x, y)
  BY CandidateIs
<1>2. x # y /\ x \in Nat /\ y \in Nat
  BY LinkingAssumption DEF Opposite
<1>3. Type(x, y) \in Types /\ Confidence(x, y) \in Int
  BY Weights, ConfidenceIs
<1>4. <<x, y>> \in Nat \X Nat
  BY <1>2
<1> QED  BY <1>1, <1>2, <1>3, <1>4 DEF TheCandidate, Cands

(* A certain pair is a candidate, and of a type that takes both rows.      *)
LEMMA CertainIsCandidate ==
  ASSUME book \in Books, NEW x \in Txns, NEW y \in Txns, CertainPair(x, y)
  PROVE  /\ TheCandidate(x, y) \in Candidate(x, y) /\ ~ FansOut(Type(x, y))
         /\ book[x].words # {} /\ book[y].words # {}
<1>1. book[x] \in Row /\ book[y] \in Row /\ IsFiniteSet(book[x].words) /\ IsFiniteSet(book[y].words)
  BY RowOf
<1>2. Type(x, y) = Named(book[x], book[y]).type
  BY DEF CertainPair, Type
<1>3. Days(x, y) <= Window(Type(x, y))
  BY <1>2 DEF CertainPair, Days
<1>4. AmountScore(book[x], book[y], Rate(x, y)) = 100
  BY <1>1, Weights, AmountScoreType DEF CertainPair
<1>5. PairScore(book[x], book[y], Type(x, y)) = 100
  BY <1>1, <1>2, Weights, PairScoreType DEF CertainPair
<1>6. Named(book[x], book[y]).score = 100
  BY DEF CertainPair
<1>7. Weighed(x, y) \in Nat /\ Weighed(x, y) >= 45 * 100 + 20 * 100 + 10 * 100
  BY <1>4, <1>5, <1>6, Weights
<1>8. Days(x, y) \in Nat /\ Window(Type(x, y)) \in Nat
  <2>1. Type(x, y) \in Types
    BY Weights
  <2>2. \A type \in Types : Window(type) \in Nat
    BY DEF Types, Window
  <2> QED  BY <2>1, <2>2, Weights
<1>9. ~ (Weighed(x, y) < 5500) /\ ~ (Days(x, y) > Window(Type(x, y)))
  BY <1>3, <1>7, <1>8
<1>10. Type(x, y) \in Certain
  BY <1>2 DEF CertainPair
<1> QED  BY <1>1, <1>6, <1>9, <1>10, CandidateIs, NamedType DEF Certain, FansOut

-----------------------------------------------------------------------------
(* The list of candidates, best first                                      *)

(* A ranking lists every element of its set, and nothing else.             *)
LEMMA BestLists ==
  ASSUME NEW C \in SUBSET Cands, IsFiniteSet(C), \A c, d \in C : c.at = d.at => c = d
  PROVE  /\ Best(C) \in Seq(C)
         /\ \A c \in C : \E i \in 1..Len(Best(C)) : Best(C)[i] = c
<1> DEFINE R == {p \in C \X C : Surer(p[1], p[2])}
           n == Cardinality(C)
           rank(c) == Cardinality({d \in C : Surer(d, c)})
<1>1. \A c, d \in C : <<c, d>> \in R <=> Surer(c, d)
  OBVIOUS
<1>2. \A c \in C : c.conf \in Int /\ c.at[1] \in Nat /\ c.at[2] \in Nat /\ c.at = <<c.at[1], c.at[2]>>
  BY DEF Cands
<1>3. \A c \in C : ~ Surer(c, c)
  BY <1>2 DEF Surer, Earlier
<1>4. \A c, d \in C : c # d => Surer(c, d) \/ Surer(d, c)
  <2>1. SUFFICES ASSUME NEW c \in C, NEW d \in C, c # d  PROVE Surer(c, d) \/ Surer(d, c)
    OBVIOUS
  <2>2. c.at[1] # d.at[1] \/ c.at[2] # d.at[2]
    BY <1>2, <2>1
  <2> QED  BY <1>2, <2>2 DEF Surer, Earlier
<1>5. \A c, d, e \in C : Surer(c, d) /\ Surer(d, e) => Surer(c, e)
  BY <1>2 DEF Surer, Earlier
<1>6. \A c \in C : {d \in C : <<d, c>> \in R} = {d \in C : Surer(d, c)}
  BY <1>1
<1>7. /\ \A c \in C : rank(c) \in Nat /\ rank(c) < n
      /\ \A c, d \in C : rank(c) = rank(d) => c = d
      /\ \A i \in 1..n : \E c \in C : rank(c) = i - 1
  <2>1. /\ \A c \in C : <<c, c>> \notin R
        /\ \A c, d \in C : c # d => <<c, d>> \in R \/ <<d, c>> \in R
        /\ \A c, d, e \in C : <<c, d>> \in R /\ <<d, e>> \in R => <<c, e>> \in R
    BY <1>1, <1>3, <1>4, <1>5
  <2> HIDE DEF R
  <2>2. /\ \A c \in C : Place(C, R, c) \in Nat /\ Place(C, R, c) < Cardinality(C)
        /\ \A c, d \in C : Place(C, R, c) = Place(C, R, d) => c = d
        /\ \A i \in 1..Cardinality(C) : \E c \in C : Place(C, R, c) = i - 1
    BY <2>1, Ranks
  <2>3. \A c \in C : Place(C, R, c) = rank(c)
    BY <1>6 DEF Place
  <2> HIDE DEF rank
  <2> QED  BY <2>2, <2>3
<1>8. n \in Nat
  BY FS_CardinalityType
<1>9. Best(C) = [i \in 1..n |-> CHOOSE c \in C : rank(c) = i - 1]
  BY DEF Best, ByRank
<1> HIDE DEF rank, n
<1>10. \A i \in 1..n : Best(C)[i] \in C /\ rank(Best(C)[i]) = i - 1
  <2>1. SUFFICES ASSUME NEW i \in 1..n  PROVE Best(C)[i] \in C /\ rank(Best(C)[i]) = i - 1
    OBVIOUS
  <2>2. Best(C)[i] = CHOOSE c \in C : rank(c) = i - 1
    BY <1>9
  <2>3. \E c \in C : rank(c) = i - 1
    BY <1>7
  <2> QED  BY <2>2, <2>3
<1>11. Best(C) \in Seq(C) /\ Len(Best(C)) = n
  <2>1. Best(C) \in [1..n -> C]
    BY <1>9, <1>10
  <2> QED  BY <1>8, <2>1
<1>12. ASSUME NEW c \in C  PROVE \E i \in 1..n : Best(C)[i] = c
  <2>1. rank(c) + 1 \in 1..n
    BY <1>7, <1>8
  <2>2. rank(Best(C)[rank(c) + 1]) = rank(c)
    <3>1. rank(Best(C)[rank(c) + 1]) = (rank(c) + 1) - 1 /\ rank(c) \in Nat
      BY <1>7, <1>10, <2>1
    <3> QED  BY <3>1
  <2>3. Best(C)[rank(c) + 1] = c
    BY <1>7, <1>10, <2>1, <2>2
  <2> QED  BY <2>1, <2>3
<1> QED  BY <1>11, <1>12

LEMMA RankedLists ==
  ASSUME NEW C \in SUBSET (Nat \X Nat), IsFiniteSet(C), \A p \in C : Promise(p[1], p[2]) \in Int
  PROVE  Ranked(C) \in Seq(C)
<1> DEFINE R == {p \in C \X C : Likelier(p[1], p[2])}
           n == Cardinality(C)
           rank(c) == Cardinality({d \in C : Likelier(d, c)})
<1>1. \A c, d \in C : <<c, d>> \in R <=> Likelier(c, d)
  OBVIOUS
<1>2. \A c \in C : c[1] \in Nat /\ c[2] \in Nat /\ c = <<c[1], c[2]>>
  OBVIOUS
<1>3. \A c \in C : ~ Likelier(c, c)
  BY <1>2 DEF Likelier, Earlier
<1>4. \A c, d \in C : c # d => Likelier(c, d) \/ Likelier(d, c)
  <2>1. SUFFICES ASSUME NEW c \in C, NEW d \in C, c # d  PROVE Likelier(c, d) \/ Likelier(d, c)
    OBVIOUS
  <2>2. c[1] # d[1] \/ c[2] # d[2]
    BY <1>2, <2>1
  <2> QED  BY <1>2, <2>2 DEF Likelier, Earlier
<1>5. \A c, d, e \in C : Likelier(c, d) /\ Likelier(d, e) => Likelier(c, e)
  BY <1>2 DEF Likelier, Earlier
<1>6. \A c \in C : {d \in C : <<d, c>> \in R} = {d \in C : Likelier(d, c)}
  BY <1>1
<1>7. \A i \in 1..n : \E c \in C : rank(c) = i - 1
  <2>1. /\ \A c \in C : <<c, c>> \notin R
        /\ \A c, d \in C : c # d => <<c, d>> \in R \/ <<d, c>> \in R
        /\ \A c, d, e \in C : <<c, d>> \in R /\ <<d, e>> \in R => <<c, e>> \in R
    BY <1>1, <1>3, <1>4, <1>5
  <2> HIDE DEF R
  <2>2. \A i \in 1..Cardinality(C) : \E c \in C : Place(C, R, c) = i - 1
    BY <2>1, Ranks
  <2>3. \A c \in C : Place(C, R, c) = rank(c)
    BY <1>6 DEF Place
  <2> HIDE DEF rank
  <2> QED  BY <2>2, <2>3
<1>8. n \in Nat
  BY FS_CardinalityType
<1>9. Ranked(C) = [i \in 1..n |-> CHOOSE c \in C : rank(c) = i - 1]
  BY DEF Ranked, ByRank
<1> HIDE DEF rank, n
<1>10. \A i \in 1..n : (CHOOSE c \in C : rank(c) = i - 1) \in C
  BY <1>7
<1>11. Ranked(C) \in [1..n -> C]
  BY <1>9, <1>10
<1> QED  BY <1>8, <1>11

-----------------------------------------------------------------------------
(* Cents                                                                   *)
Legs(S, t) == {l \in S : l.src = t /\ Capped(l)}
Total(S) == SumFunction([l \in S |-> book[l.tgt].cents])

LEMMA TotalOf ==
  ASSUME book \in Books, NEW S, IsFiniteSet(S), \A l \in S : l.tgt \in Txns
  PROVE  /\ Total(S) \in Nat /\ Total({}) = 0
         /\ \A l \in S : Total(S) = book[l.tgt].cents + Total(S \ {l})
         /\ \A A \in SUBSET S : Total(A) <= Total(S) /\ Total(A) \in Nat
<1> DEFINE w == [l \in S |-> book[l.tgt].cents]
<1>1. w \in [S -> Nat]
  BY RowOf
<1>2. \A A \in SUBSET S : [y \in A |-> w[y]] = [l \in A |-> book[l.tgt].cents] /\ [y \in A |-> w[y]] \in [A -> Nat]
  BY <1>1
<1>3. Total(S) = SumFunction(w) /\ \A A \in SUBSET S : Total(A) = SumFunction([y \in A |-> w[y]])
  BY <1>2 DEF Total
<1>4. \A l \in S : w[l] = book[l.tgt].cents
  OBVIOUS
<1> HIDE DEF w
<1>5. \A A \in SUBSET S : IsFiniteSet(A)
  BY FS_Subset
<1>6. \A A \in SUBSET S : Total(A) \in Nat
  BY <1>2, <1>3, <1>5, SumFacts
<1>7. Total({}) = 0
  <2>1. [y \in {} |-> w[y]] \in [{} -> Nat]
    OBVIOUS
  <2>2. SumFunction([y \in {} |-> w[y]]) = 0
    BY <2>1, SumFacts, FS_EmptySet
  <2> QED  BY <1>3, <2>2
<1>8. ASSUME NEW l \in S  PROVE Total(S) = book[l.tgt].cents + Total(S \ {l})
  <2>1. SumFunction(w) = w[l] + SumFunction([y \in S \ {l} |-> w[y]])
    BY <1>1, SumFacts
  <2>2. Total(S \ {l}) = SumFunction([y \in S \ {l} |-> w[y]])
    BY <1>3
  <2> QED  BY <1>3, <1>4, <2>1, <2>2
<1>9. \A A \in SUBSET S : Total(A) <= Total(S)
  BY <1>1, <1>3, SumMonotone
<1> QED  BY <1>6, <1>7, <1>8, <1>9

-----------------------------------------------------------------------------
(* The greedy assignment                                                   *)
Taken(acc) == {acc.taken[i] : i \in DOMAIN acc.taken}
OnePlace(k, l) == Pair(k) \cap Pair(l) # {} => k.type = "REFUND" /\ l.type = "REFUND" /\ k.src = l.src
Apart(seq) ==
  \A i, j \in DOMAIN seq : i # j => OnePlace(seq[i], seq[j]) /\ seq[i].tgt # seq[j].tgt

AccType ==
  [taken : Seq(Entries), used : SUBSET Txns, anchors : SUBSET Txns, claimed : [Txns -> Nat]]
Placed(acc) ==
  /\ acc.used \cup acc.anchors = UNION {Pair(e) : e \in Taken(acc)}
  /\ \A e \in Taken(acc) : e.tgt \in acc.used /\ e.src \in (IF FansOut(e.type) THEN acc.anchors ELSE acc.used)
  /\ Apart(acc.taken)
Claims(acc) ==
  /\ IsFiniteSet(Taken(acc))
  /\ \A t \in Txns : acc.claimed[t] = Total(Legs(Taken(acc), t)) /\ acc.claimed[t] <= book[t].cents + 1
GreedyInv(acc, r, n) ==
  /\ acc \in AccType /\ Placed(acc) /\ Claims(acc)
  /\ \A e \in Taken(acc) : \E i \in 1..n : e = Projection(r[i])
  /\ \A i \in 1..n : ~ FansOut(r[i].type) => Pair(r[i]) \cap (acc.used \cup acc.anchors) # {}

(* The assignment goes through its list once.                              *)
LEMMA GreedyRun ==
  ASSUME NEW C, NEW r \in Seq(C)
  PROVE  \E acc : /\ acc[0] = Nothing
                  /\ \A n \in 1..Len(r) : acc[n] = Take(acc[n - 1], r[n])
                  /\ Greedy(r) = acc[Len(r)].taken
<1> DEFINE Def(g, k) == [n \in 0..k |-> IF n = 0 THEN Nothing ELSE Take(g[n - 1], r[n])]
           T == {k \in Nat : \E g : g = Def(g, k)}
           f == CHOOSE g : g = Def(g, Len(r))
<1>1. 0 \in T
  <2>1. [n \in 0..0 |-> Nothing] = Def([n \in 0..0 |-> Nothing], 0)
    OBVIOUS
  <2> QED  BY <2>1
<1>2. ASSUME NEW k \in T  PROVE k + 1 \in T
  <2>1. PICK g : g = Def(g, k)
    BY <1>2
  <2>2. k \in Nat
    BY <1>2
  <2> DEFINE h == [n \in 0..(k + 1) |-> IF n = k + 1 THEN Take(g[k], r[k + 1]) ELSE g[n]]
  <2>3. \A n \in 0..k : g[n] = IF n = 0 THEN Nothing ELSE Take(g[n - 1], r[n])
    BY <2>1
  <2>4. ASSUME NEW n \in 0..(k + 1)
        PROVE  h[n] = IF n = 0 THEN Nothing ELSE Take(h[n - 1], r[n])
    <3>1. CASE n = 0
      BY <2>2, <2>3, <3>1
    <3>2. CASE n = k + 1
      <4>1. h[n] = Take(g[k], r[k + 1]) /\ h[n - 1] = g[k] /\ n # 0
        BY <2>2, <3>2
      <4> QED  BY <3>2, <4>1
    <3>3. CASE n # 0 /\ n # k + 1
      <4>1. h[n] = g[n] /\ h[n - 1] = g[n - 1] /\ n \in 0..k
        BY <2>2, <3>3
      <4> QED  BY <2>3, <3>3, <4>1
    <3> QED  BY <3>1, <3>2, <3>3
  <2>5. h = Def(h, k + 1)
    <3>1. h = [n \in 0..(k + 1) |-> h[n]]
      OBVIOUS
    <3> HIDE DEF h
    <3> QED  BY <2>4, <3>1
  <2> HIDE DEF h, Def
  <2>6. \E g1 : g1 = Def(g1, k + 1)
    BY <2>5
  <2> QED  BY <2>2, <2>6
<1>3. T = Nat
  <2> HIDE DEF T
  <2> QED  BY <1>1, <1>2, AllNumbers, T \in SUBSET Nat DEF T
<1>4. Len(r) \in Nat
  OBVIOUS
<1>5. f = Def(f, Len(r))
  BY <1>3, <1>4
<1>6. Greedy(r) = f[Len(r)].taken
  BY DEF Greedy
<1> HIDE DEF f
<1>7. \A n \in 0..Len(r) : f[n] = IF n = 0 THEN Nothing ELSE Take(f[n - 1], r[n])
  BY <1>5
<1>8. f[0] = Nothing /\ \A n \in 1..Len(r) : f[n] = Take(f[n - 1], r[n])
  <2>1. 0 \in 0..Len(r) /\ \A n \in 1..Len(r) : n \in 0..Len(r) /\ n # 0
    BY <1>4
  <2> QED  BY <1>7, <2>1
<1> QED  BY <1>6, <1>8

(* It begins with nothing taken,                                           *)
LEMMA GreedyFirst ==
  ASSUME book \in Books, NEW r
  PROVE  GreedyInv(Nothing, r, 0)
<1>1. Nothing \in AccType /\ Taken(Nothing) = {}
  BY DEF Nothing, AccType, Taken
<1>2. Placed(Nothing)
  <2>1. Nothing.used = {} /\ Nothing.anchors = {} /\ Nothing.taken = <<>> /\ DOMAIN Nothing.taken = {}
    BY DEF Nothing
  <2>2. Apart(Nothing.taken)
    BY <2>1 DEF Apart
  <2>3. UNION {Pair(e) : e \in Taken(Nothing)} = {}
    BY <1>1
  <2> QED  BY <1>1, <2>1, <2>2, <2>3 DEF Placed
<1>3. Claims(Nothing)
  <2>1. IsFiniteSet(Taken(Nothing)) /\ \A t \in Txns : Legs(Taken(Nothing), t) = {}
    BY <1>1, FS_EmptySet DEF Legs
  <2>2. Total({}) = 0
    BY TotalOf, FS_EmptySet
  <2>3. \A t \in Txns : Nothing.claimed[t] = 0 /\ 0 <= book[t].cents + 1
    BY RowOf DEF Nothing
  <2> QED  BY <2>1, <2>2, <2>3 DEF Claims
<1>4. \A i \in 1..0 : FALSE
  OBVIOUS
<1> QED  BY <1>1, <1>2, <1>3, <1>4 DEF GreedyInv

(* and each candidate keeps the rows apart and the charges covered.        *)
LEMMA GreedyStep ==
  ASSUME book \in Books, NEW r \in Seq(Cands), NEW n \in Nat, n + 1 <= Len(r),
         r[n + 1].src # r[n + 1].tgt, NEW acc, GreedyInv(acc, r, n)
  PROVE  GreedyInv(Take(acc, r[n + 1]), r, n + 1)
<1> DEFINE c == r[n + 1]
           e == Projection(c)
           new == [taken |-> Append(acc.taken, e),
                   used |-> acc.used \cup {c.tgt} \cup (IF FansOut(c.type) THEN {} ELSE {c.src}),
                   anchors |-> acc.anchors \cup (IF FansOut(c.type) THEN {c.src} ELSE {}),
                   claimed |-> IF Capped(c) THEN [acc.claimed EXCEPT ![c.src] = @ + book[c.tgt].cents]
                               ELSE acc.claimed]
<1>1. c \in Cands
  <2>1. n + 1 \in 1..Len(r)
    OBVIOUS
  <2> QED  BY <2>1
<1>2. acc \in AccType /\ Placed(acc) /\ Claims(acc)
      /\ (\A d \in Taken(acc) : \E i \in 1..n : d = Projection(r[i]))
      /\ (\A i \in 1..n : ~ FansOut(r[i].type) => Pair(r[i]) \cap (acc.used \cup acc.anchors) # {})
  BY DEF GreedyInv
<1>3. c.src # c.tgt /\ \A i \in 1..(n + 1) : i \in 1..n \/ i = n + 1
  OBVIOUS
<1>4. Take(acc, c) = IF Free(acc, c) /\ Fits(acc, c) THEN new ELSE acc
  BY DEF Take, Projection
<1> HIDE DEF c
<1>5. e \in Entries /\ e.src = c.src /\ e.tgt = c.tgt /\ e.type = c.type /\ Pair(e) = {c.src, c.tgt}
      /\ (Capped(e) <=> Capped(c)) /\ c.src \in Txns /\ c.tgt \in Txns
  BY <1>1 DEF Cands, Entries, Projection, Pair, Capped
<1>6. acc.taken \in Seq(Entries) /\ acc.used \in SUBSET Txns /\ acc.anchors \in SUBSET Txns
      /\ acc.claimed \in [Txns -> Nat]
  BY <1>2 DEF AccType
<1>7. CASE ~ (Free(acc, c) /\ Fits(acc, c))
  <2>1. Take(acc, c) = acc
    BY <1>4, <1>7
  <2>2. \A d \in Taken(acc) : \E i \in 1..(n + 1) : d = Projection(r[i])
    <3>1. \A i \in 1..n : i \in 1..(n + 1)
      OBVIOUS
    <3> QED  BY <1>2, <3>1
  <2>3. ~ FansOut(c.type) => Pair(c) \cap (acc.used \cup acc.anchors) # {}
    BY <1>7 DEF Free, Fits, Capped, Pair
  <2>4. \A i \in 1..(n + 1) : ~ FansOut(r[i].type) => Pair(r[i]) \cap (acc.used \cup acc.anchors) # {}
    BY <1>2, <1>3, <2>3 DEF c
  <2> QED  BY <1>2, <2>1, <2>2, <2>4 DEF GreedyInv, c
<1>8. CASE Free(acc, c) /\ Fits(acc, c)
  <2> HIDE DEF e
  <2>1. Take(acc, c) = new
    BY <1>4, <1>8
  <2>2. new.taken = Append(acc.taken, e) /\ new.claimed =
           (IF Capped(c) THEN [acc.claimed EXCEPT ![c.src] = @ + book[c.tgt].cents] ELSE acc.claimed)
        /\ new.used = acc.used \cup {c.tgt} \cup (IF FansOut(c.type) THEN {} ELSE {c.src})
        /\ new.anchors = acc.anchors \cup (IF FansOut(c.type) THEN {c.src} ELSE {})
    OBVIOUS
  <2>3. new.taken \in Seq(Entries) /\ DOMAIN new.taken = DOMAIN acc.taken \cup {Len(acc.taken) + 1}
        /\ (\A i \in DOMAIN acc.taken : new.taken[i] = acc.taken[i] /\ i # Len(acc.taken) + 1)
        /\ new.taken[Len(acc.taken) + 1] = e
    BY <1>5, <1>6, <2>2
  <2>4. new \in AccType
    <3>1. new.used \in SUBSET Txns /\ new.anchors \in SUBSET Txns
      BY <1>5, <1>6
    <3>2. new.claimed \in [Txns -> Nat]
      <4>1. book[c.tgt].cents \in Nat /\ acc.claimed[c.src] \in Nat
        BY <1>5, <1>6, RowOf
      <4>2. acc.claimed[c.src] + book[c.tgt].cents \in Nat
        BY <4>1
      <4> QED  BY <1>5, <1>6, <2>2, <4>2
    <3> QED  BY <2>3, <3>1, <3>2 DEF AccType
  <2> HIDE DEF new
  <2>5. Taken(new) = Taken(acc) \cup {e}
    BY <2>3 DEF Taken
  <2>6. e \notin Taken(acc) /\ \A d \in Taken(acc) : c.tgt \notin Pair(d) /\ d.tgt # c.tgt
    <3>1. \A d \in Taken(acc) : Pair(d) \in SUBSET (acc.used \cup acc.anchors)
      BY <1>2 DEF Placed
    <3>2. c.tgt \notin acc.used \cup acc.anchors
      BY <1>8 DEF Free
    <3> QED  BY <1>5, <3>1, <3>2 DEF Pair
  <2>7. ASSUME NEW d \in Taken(acc)  PROVE OnePlace(d, e) /\ OnePlace(e, d)
    <3>1. SUFFICES ASSUME c.src \in Pair(d)
                   PROVE  d.type = "REFUND" /\ e.type = "REFUND" /\ d.src = e.src
      BY <1>5, <2>6 DEF OnePlace
    <3>2. c.src \notin acc.used /\ (c.src \in acc.anchors => FansOut(c.type))
      BY <1>8 DEF Free
    <3>3. c.src = d.src
      BY <1>2, <3>1, <3>2 DEF Pair, Placed
    <3>4. FansOut(d.type) /\ c.src \in acc.anchors
      BY <1>2, <3>2, <3>3 DEF Placed
    <3> QED  BY <1>5, <3>2, <3>3, <3>4 DEF FansOut
  <2>8. Placed(new)
    <3>1. new.used \cup new.anchors = acc.used \cup acc.anchors \cup Pair(e)
      BY <1>5, <2>2
    <3>2. new.used \cup new.anchors = UNION {Pair(d) : d \in Taken(new)}
      <4>1. UNION {Pair(d) : d \in Taken(new)} = (UNION {Pair(d) : d \in Taken(acc)}) \cup Pair(e)
        BY <2>5
      <4>2. acc.used \cup acc.anchors = UNION {Pair(d) : d \in Taken(acc)}
        BY <1>2 DEF Placed
      <4> QED  BY <3>1, <4>1, <4>2
    <3>3. \A d \in Taken(new) : d.tgt \in new.used
                                /\ d.src \in (IF FansOut(d.type) THEN new.anchors ELSE new.used)
      BY <1>2, <1>5, <2>2, <2>5 DEF Placed
    <3>4. Apart(new.taken)
      <4>1. SUFFICES ASSUME NEW i \in DOMAIN new.taken, NEW j \in DOMAIN new.taken, i # j
                     PROVE  OnePlace(new.taken[i], new.taken[j]) /\ new.taken[i].tgt # new.taken[j].tgt
        BY DEF Apart
      <4>2. CASE i \in DOMAIN acc.taken /\ j \in DOMAIN acc.taken
        BY <1>2, <2>3, <4>1, <4>2 DEF Placed, Apart
      <4>3. CASE i \in DOMAIN acc.taken /\ j = Len(acc.taken) + 1
        <5>1. new.taken[i] \in Taken(acc) /\ new.taken[j] = e
          BY <2>3, <4>3 DEF Taken
        <5> QED  BY <1>5, <2>6, <2>7, <5>1
      <4>4. CASE i = Len(acc.taken) + 1 /\ j \in DOMAIN acc.taken
        <5>1. new.taken[j] \in Taken(acc) /\ new.taken[i] = e
          BY <2>3, <4>4 DEF Taken
        <5> QED  BY <1>5, <2>6, <2>7, <5>1
      <4> QED  BY <2>3, <4>1, <4>2, <4>3, <4>4
    <3> QED  BY <3>2, <3>3, <3>4 DEF Placed
  <2>9. Claims(new)
    <3>1. IsFiniteSet(Taken(new)) /\ \A d \in Taken(new) : d.tgt \in Txns
      <4>1. \A d \in Taken(acc) : d \in Entries
        BY <1>6 DEF Taken
      <4>2. IsFiniteSet(Taken(acc) \cup {e})
        BY <1>2, FS_AddElement DEF Claims
      <4> QED  BY <1>5, <2>5, <4>1, <4>2 DEF Entries
    <3>2. SUFFICES ASSUME NEW t \in Txns
                   PROVE  new.claimed[t] = Total(Legs(Taken(new), t)) /\ new.claimed[t] <= book[t].cents + 1
      BY <3>1 DEF Claims
    <3>3. acc.claimed[t] = Total(Legs(Taken(acc), t)) /\ acc.claimed[t] <= book[t].cents + 1
      BY <1>2 DEF Claims
    <3>4. CASE c.src = t /\ Capped(c)
      <4>1. Legs(Taken(new), t) = Legs(Taken(acc), t) \cup {e} /\ e \notin Legs(Taken(acc), t)
        BY <1>5, <2>5, <2>6, <3>4 DEF Legs
      <4>2. IsFiniteSet(Legs(Taken(new), t)) /\ \A d \in Legs(Taken(new), t) : d.tgt \in Txns
        BY <3>1, FS_Subset DEF Legs
      <4>3. Legs(Taken(new), t) \ {e} = Legs(Taken(acc), t) /\ e \in Legs(Taken(new), t)
        BY <4>1
      <4>4. Total(Legs(Taken(new), t)) = book[e.tgt].cents + Total(Legs(Taken(acc), t))
        BY <4>2, <4>3, TotalOf
      <4>5. new.claimed[t] = acc.claimed[t] + book[c.tgt].cents
        BY <1>5, <1>6, <2>2, <3>4
      <4>6. acc.claimed[t] + book[c.tgt].cents <= book[t].cents + 1
        BY <1>8, <3>4 DEF Fits
      <4>7. acc.claimed[t] \in Nat /\ book[c.tgt].cents \in Nat
        BY <1>5, <1>6, RowOf
      <4> QED  BY <1>5, <3>3, <4>4, <4>5, <4>6, <4>7
    <3>5. CASE ~ (c.src = t /\ Capped(c))
      <4>1. Legs(Taken(new), t) = Legs(Taken(acc), t)
        BY <1>5, <2>5, <3>5 DEF Legs
      <4>2. new.claimed[t] = acc.claimed[t]
        BY <1>5, <1>6, <2>2, <3>5
      <4> QED  BY <3>3, <4>1, <4>2
    <3> QED  BY <3>4, <3>5
  <2>10. \A d \in Taken(new) : \E i \in 1..(n + 1) : d = Projection(r[i])
    <3>1. n + 1 \in 1..(n + 1) /\ \A i \in 1..n : i \in 1..(n + 1)
      OBVIOUS
    <3>2. e = Projection(r[n + 1])
      BY DEF e, c
    <3> QED  BY <1>2, <2>5, <3>1, <3>2
  <2>11. \A i \in 1..(n + 1) : ~ FansOut(r[i].type) => Pair(r[i]) \cap (new.used \cup new.anchors) # {}
    <3>1. c.tgt \in new.used /\ acc.used \in SUBSET new.used /\ acc.anchors \in SUBSET new.anchors
      BY <2>2
    <3>2. Pair(c) \cap (new.used \cup new.anchors) # {}
      BY <3>1 DEF Pair
    <3>3. \A i \in 1..n : ~ FansOut(r[i].type) => Pair(r[i]) \cap (new.used \cup new.anchors) # {}
      BY <1>2, <3>1
    <3> QED  BY <1>3, <3>2, <3>3 DEF c
  <2> QED  BY <2>1, <2>4, <2>8, <2>9, <2>10, <2>11 DEF GreedyInv, c
<1> QED  BY <1>7, <1>8

(* So whatever the candidates: what is taken are some of them, no row      *)
(* twice but for the refunds of one charge, those within the charge, and a *)
(* candidate that is no refund finds a row of its own taken.               *)
LEMMA GreedyFacts ==
  ASSUME book \in Books, NEW r \in Seq(Cands), \A i \in 1..Len(r) : r[i].src # r[i].tgt
  PROVE  LET todo == Greedy(r)
             S == {todo[i] : i \in DOMAIN todo}
         IN /\ todo \in Seq(Entries) /\ IsFiniteSet(S) /\ Apart(todo)
            /\ \A e \in S : \E i \in 1..Len(r) : e = Projection(r[i])
            /\ \A t \in Txns : Total(Legs(S, t)) <= book[t].cents + 1
            /\ \A i \in 1..Len(r) : ~ FansOut(r[i].type) => Pair(r[i]) \cap UNION {Pair(e) : e \in S} # {}
<1>1. PICK acc : /\ acc[0] = Nothing
                 /\ \A n \in 1..Len(r) : acc[n] = Take(acc[n - 1], r[n])
                 /\ Greedy(r) = acc[Len(r)].taken
  BY GreedyRun
<1> DEFINE T == {n \in Nat : n <= Len(r) => GreedyInv(acc[n], r, n)}
<1>2. 0 \in T
  BY <1>1, GreedyFirst
<1>3. ASSUME NEW n \in T  PROVE n + 1 \in T
  <2>1. n \in Nat /\ Len(r) \in Nat
    BY <1>3
  <2>2. SUFFICES ASSUME n + 1 <= Len(r)  PROVE GreedyInv(acc[n + 1], r, n + 1)
    BY <2>1
  <2>3. n + 1 \in 1..Len(r) /\ (n + 1) - 1 = n /\ n <= Len(r)
    BY <2>1, <2>2
  <2>4. acc[n + 1] = Take(acc[n], r[n + 1])
    BY <1>1, <2>3
  <2>5. GreedyInv(acc[n], r, n)
    BY <1>3, <2>3
  <2> QED  BY <2>1, <2>2, <2>3, <2>4, <2>5, GreedyStep
<1>4. T = Nat
  <2> HIDE DEF T
  <2> QED  BY <1>2, <1>3, AllNumbers, T \in SUBSET Nat DEF T
<1>5. GreedyInv(acc[Len(r)], r, Len(r))
  <2>1. Len(r) \in T /\ Len(r) <= Len(r)
    BY <1>4
  <2> QED  BY <2>1
<1> DEFINE last == acc[Len(r)]
<1>6. Taken(last) = {Greedy(r)[i] : i \in DOMAIN Greedy(r)} /\ Greedy(r) = last.taken
  BY <1>1 DEF Taken
<1> HIDE DEF last, T
<1>7. last \in AccType /\ Placed(last) /\ Claims(last)
      /\ (\A e \in Taken(last) : \E i \in 1..Len(r) : e = Projection(r[i]))
      /\ (\A i \in 1..Len(r) : ~ FansOut(r[i].type) => Pair(r[i]) \cap (last.used \cup last.anchors) # {})
  BY <1>5 DEF GreedyInv, last
<1>8. Greedy(r) \in Seq(Entries) /\ IsFiniteSet(Taken(last)) /\ Apart(Greedy(r))
  BY <1>6, <1>7 DEF AccType, Placed, Claims
<1>9. \A t \in Txns : Total(Legs(Taken(last), t)) <= book[t].cents + 1
  BY <1>7 DEF Claims
<1>10. last.used \cup last.anchors = UNION {Pair(e) : e \in Taken(last)}
  BY <1>7 DEF Placed
<1> QED  BY <1>6, <1>7, <1>8, <1>9, <1>10

-----------------------------------------------------------------------------
(* The inductive invariant                                                 *)
Machine == {l \in links : l.by # "MANUAL"}
Todo == {run.todo[i] : i \in DOMAIN run.todo}
LinkRecords ==
  [src : Txns, tgt : Txns, type : Types, by : {"linking", "storing", "MANUAL"}, run : Nat, nth : Nat,
   status : {"AUTO_APPROVED", "PENDING_REVIEW", "USER_APPROVED", "USER_REJECTED"}]

(* A link is made of two rows on file, and known by the number of links    *)
(* before it and its target; what is made by hand is decided.              *)
LinkRows ==
  /\ IsFiniteSet(links)
  /\ \A l \in links : /\ l \in LinkRecords /\ l.src # l.tgt /\ l.nth < Cardinality(links)
                      /\ l.by = "MANUAL" => l.status \in {"USER_APPROVED", "USER_REJECTED"}
                      /\ l.by # "MANUAL" => l.run <= runs
  /\ \A k, l \in links : k.nth = l.nth /\ k.tgt = l.tgt => k = l

(* Rows on file that no run has linked to each other, whatever the user    *)
(* made of the link since                                                  *)
Unspent(x, y) ==
  /\ x \in booked /\ y \in booked /\ x # y
  /\ \A k \in Machine : Pair(k) # {x, y}

(* Where the run stands, and the pairs it has put to the models            *)
Steps ==
  /\ run = [at |-> run.at, seen |-> run.seen, mine |-> run.mine, todo |-> run.todo,
            batches |-> run.batches, replies |-> run.replies]
  /\ run.seen \subseteq booked /\ run.mine \subseteq booked
  /\ run.todo \in Seq(Entries) /\ run.batches \in Seq(Seq(Txns \X Txns))
  /\ run.at \in {"idle", "matching", "asking"} => run.todo = <<>>
  /\ run.at # "asking" => run.batches = <<>> /\ run.replies = <<>>
  /\ DOMAIN run.replies = DOMAIN run.batches
  /\ \A i \in DOMAIN run.batches :
       run.replies[i] \in {<<"open">>, <<"failed">>} \cup {<<"said", v>> : v \in Verdicts(run.batches[i])}
Asked ==
  \A i \in DOMAIN run.batches : \A k \in DOMAIN run.batches[i] :
    LET p == run.batches[i][k]
    IN Unspent(p[1], p[2]) /\ \A l \in Undecided : Pair(l) \cap {p[1], p[2]} = {}

(* What the run is about to store                                          *)
Warranted(e) ==
  \E x, y \in booked : Opposite(x, y) /\ \E c \in Candidate(x, y) : e = Projection(c)
Due ==
  /\ IsFiniteSet(Todo) /\ Apart(run.todo)
  /\ \A e \in Todo : /\ Unspent(e.src, e.tgt)
                     /\ run.at = "linking" => Warranted(e)
                     /\ \A k \in Undecided : OnePlace(k, e) /\ (Pair(k) \cap Pair(e) # {} => k.run = runs)
Caps ==
  \A t \in Txns : Total(Legs(Undecided, t)) + Total(Legs(Todo, t)) <= book[t].cents + 1

IInv ==
  /\ LinkTypeOK /\ LinkRows /\ Steps /\ Asked /\ Due /\ Caps
  /\ OneLinkEach /\ MismatchIsReviewed /\ CertainIsApproved /\ LinkedHasALink

LEMMA InitIInv == LinkInit => IInv
<1> SUFFICES ASSUME LinkInit  PROVE IInv
  OBVIOUS
<1>1. book \in Books /\ booked = {} /\ status = [t \in Txns |-> "none"] /\ links = {} /\ run = Idle /\ runs = 0
  BY DEF LinkInit
<1>2. run.at = "idle" /\ run.seen = {} /\ run.mine = {} /\ run.todo = <<>> /\ run.batches = <<>>
      /\ run.replies = <<>> /\ DOMAIN run.batches = {} /\ DOMAIN run.todo = {} /\ DOMAIN run.replies = {}
  BY <1>1 DEF Idle
<1>3. Undecided = {} /\ Todo = {} /\ Machine = {}
  BY <1>1, <1>2 DEF Undecided, Todo, Machine
<1>4. LinkTypeOK
  BY <1>1, <1>2, LinkingAssumption DEF LinkTypeOK
<1>5. LinkRows
  BY <1>1, FS_EmptySet DEF LinkRows
<1>6. Steps
  <2>1. run = [at |-> run.at, seen |-> run.seen, mine |-> run.mine, todo |-> run.todo,
               batches |-> run.batches, replies |-> run.replies]
    BY <1>1 DEF Idle
  <2> QED  BY <1>2, <2>1 DEF Steps
<1>7. Asked /\ Due
  BY <1>2, <1>3, FS_EmptySet DEF Asked, Due, Apart
<1>8. Caps
  <2>1. \A t \in Txns : Legs({}, t) = {}
    BY DEF Legs
  <2>2. Total({}) = 0
    BY <1>1, TotalOf, FS_EmptySet
  <2>3. \A t \in Txns : 0 + 0 <= book[t].cents + 1
    BY <1>1, RowOf
  <2> QED  BY <1>3, <2>1, <2>2, <2>3 DEF Caps
<1>9. OneLinkEach /\ MismatchIsReviewed /\ CertainIsApproved /\ LinkedHasALink
  BY <1>1, <1>3 DEF OneLinkEach, MismatchIsReviewed, CertainIsApproved, LinkedHasALink
<1> QED  BY <1>4, <1>5, <1>6, <1>7, <1>8, <1>9 DEF IInv

(* The legs of the links nobody decided on are finitely many.              *)
LEMMA LegsFacts ==
  ASSUME IInv, NEW t
  PROVE  /\ book \in Books
         /\ IsFiniteSet(Undecided) /\ IsFiniteSet(Legs(Undecided, t)) /\ IsFiniteSet(Legs(Todo, t))
         /\ \A l \in Legs(Undecided, t) : l.tgt \in Txns
         /\ \A l \in Legs(Todo, t) : l.tgt \in Txns
         /\ \A e \in Todo : e \in Entries
<1>1. book \in Books /\ IsFiniteSet(links) /\ IsFiniteSet(Todo) /\ \A l \in links : l \in LinkRecords
  BY DEF IInv, LinkTypeOK, LinkRows, Due
<1>2. Undecided \in SUBSET links /\ Legs(Undecided, t) \in SUBSET links /\ Legs(Todo, t) \in SUBSET Todo
  BY DEF Undecided, Legs
<1>3. \A e \in Todo : e \in Entries
  BY DEF IInv, Steps, Todo
<1> QED  BY <1>1, <1>2, <1>3, FS_Subset DEF Entries, LinkRecords

(* The charges stay covered when there is less on them.                    *)
LEMMA CapsShrink ==
  ASSUME IInv, book' = book, Undecided' \in SUBSET Undecided, Todo' \in SUBSET Todo
  PROVE  Caps'
<1>1. SUFFICES ASSUME NEW t \in Txns
               PROVE  (Total(Legs(Undecided, t)) + Total(Legs(Todo, t)) <= book[t].cents + 1)'
  BY DEF Caps
<1>2. Total(Legs(Undecided, t)) + Total(Legs(Todo, t)) <= book[t].cents + 1
  BY DEF IInv, Caps
<1> DEFINE A == Legs(Undecided, t)'
           B == Legs(Todo, t)'
<1>3. A \in SUBSET Legs(Undecided, t) /\ B \in SUBSET Legs(Todo, t)
  BY DEF Legs, Capped
<1>4. /\ Total(A) <= Total(Legs(Undecided, t)) /\ Total(A) \in Nat /\ Total(Legs(Undecided, t)) \in Nat
      /\ Total(B) <= Total(Legs(Todo, t)) /\ Total(B) \in Nat /\ Total(Legs(Todo, t)) \in Nat
  <2> HIDE DEF A, B
  <2> QED  BY <1>3, LegsFacts, TotalOf
<1>5. Total(Legs(Undecided, t))' = Total(A) /\ Total(Legs(Todo, t))' = Total(B)
  BY DEF Total
<1>6. book[t].cents \in Nat /\ (book[t].cents)' = book[t].cents
  BY LegsFacts, RowOf
<1> HIDE DEF A, B
<1>7. Total(A) + Total(B) <= book[t].cents + 1
  BY <1>2, <1>4, <1>6
<1> QED  BY <1>5, <1>6, <1>7

(* What the run holds stays good while it stands where it is and no new    *)
(* link is its own.                                                        *)
LEMMA RunStands ==
  ASSUME IInv, book' = book, booked \subseteq booked', run' = run, runs' = runs,
         Undecided' \in SUBSET Undecided,
         \A k \in Machine' : \E j \in Machine : Pair(j) = Pair(k)
  PROVE  Steps' /\ Asked' /\ Due' /\ Caps'
<1>1. Steps /\ Asked /\ Due
  BY DEF IInv
<1>2. ASSUME NEW x, NEW y, Unspent(x, y)  PROVE Unspent(x, y)'
  <2>1. \A k \in Machine' : Pair(k) # {x, y}
    BY <1>2 DEF Unspent
  <2>2. (\A k \in Machine : Pair(k) # {x, y})'
    BY <2>1 DEF Pair
  <2>3. x \in booked' /\ y \in booked' /\ x # y
    BY <1>2 DEF Unspent
  <2> QED  BY <2>2, <2>3 DEF Unspent
<1>3. Steps'
  BY <1>1 DEF Steps, Verdicts
<1>4. Asked'
  <2>1. SUFFICES ASSUME NEW i \in DOMAIN run.batches, NEW k \in DOMAIN run.batches[i]
                 PROVE  /\ Unspent(run.batches[i][k][1], run.batches[i][k][2])'
                        /\ \A l \in Undecided' : Pair(l) \cap {run.batches[i][k][1], run.batches[i][k][2]} = {}
    BY DEF Asked, Pair
  <2>2. /\ Unspent(run.batches[i][k][1], run.batches[i][k][2])
        /\ \A l \in Undecided : Pair(l) \cap {run.batches[i][k][1], run.batches[i][k][2]} = {}
    BY <1>1 DEF Asked
  <2> QED  BY <1>2, <2>2
<1>5. Todo' = Todo
  BY DEF Todo
<1>6. Due'
  <2>1. IsFiniteSet(Todo') /\ Apart(run'.todo)
    BY <1>1, <1>5 DEF Due
  <2>2. ASSUME NEW e \in Todo
        PROVE  /\ Unspent(e.src, e.tgt)'
               /\ run.at = "linking" => Warranted(e)'
               /\ \A k \in Undecided' : OnePlace(k, e) /\ (Pair(k) \cap Pair(e) # {} => k.run = runs)
    <3>1. /\ Unspent(e.src, e.tgt)
          /\ run.at = "linking" => Warranted(e)
          /\ \A k \in Undecided : OnePlace(k, e) /\ (Pair(k) \cap Pair(e) # {} => k.run = runs)
      BY <1>1 DEF Due
    <3>2. ASSUME Warranted(e)  PROVE Warranted(e)'
      <4>1. PICK x \in booked, y \in booked : Opposite(x, y) /\ \E c \in Candidate(x, y) : e = Projection(c)
        BY <3>2 DEF Warranted
      <4>2. Opposite(x, y)'
        BY <4>1 DEF Opposite
      <4>4. Candidate(x, y)' = Candidate(x, y)
        BY DEF Candidate
      <4>3. x \in booked' /\ y \in booked'
        BY <4>1
      <4> QED  BY <4>1, <4>2, <4>3, <4>4 DEF Warranted, Projection
    <3> QED  BY <1>2, <3>1, <3>2
  <2>3. (/\ IsFiniteSet(Todo) /\ Apart(run.todo))'
    BY <2>1 DEF Apart, OnePlace, Pair
  <2> QED  BY <1>5, <2>2, <2>3 DEF Due, OnePlace, Pair
<1>7. Caps'
  BY <1>5, CapsShrink
<1> QED  BY <1>3, <1>4, <1>6, <1>7

(* The links on file stay in order while none is added or decided on.      *)
LEMMA LinksStand ==
  ASSUME IInv, book' = book, links' = links, runs' \in Nat, runs <= runs'
  PROVE  LinkRows' /\ OneLinkEach' /\ MismatchIsReviewed' /\ CertainIsApproved'
         /\ Undecided' = Undecided /\ Machine' = Machine /\ Live' = Live
<1>1. LinkRows /\ OneLinkEach /\ MismatchIsReviewed /\ CertainIsApproved /\ runs \in Nat
  BY LinkingAssumption DEF IInv, LinkTypeOK
<1>2. Undecided' = Undecided /\ Machine' = Machine /\ Live' = Live
  BY DEF Undecided, Machine, Live
<1>3. LinkRows'
  <2>1. ASSUME NEW l \in links, l.by # "MANUAL"  PROVE l.run <= runs'
    <3>1. l.run \in Nat /\ l.run <= runs
      BY <1>1, <2>1 DEF LinkRows, LinkRecords
    <3> QED  BY <1>1, <3>1
  <2> QED  BY <1>1, <2>1 DEF LinkRows
<1>4. OneLinkEach'
  BY <1>1, <1>2 DEF OneLinkEach, Pair
<1>5. MismatchIsReviewed'
  BY <1>1 DEF MismatchIsReviewed
<1>6. \A x, y : CertainPair(x, y)' = CertainPair(x, y)
  BY DEF CertainPair, Opposite
<1>7. CertainIsApproved'
  BY <1>1, <1>6 DEF CertainIsApproved
<1> QED  BY <1>2, <1>3, <1>4, <1>5, <1>7

(* A run that holds nothing owes nothing.                                  *)
LEMMA RunRests ==
  ASSUME IInv, book' = book, booked' = booked, links' = links, runs' = runs,
         run'.at \in {"idle", "matching"},
         run' = [at |-> run'.at, seen |-> run'.seen, mine |-> run'.mine, todo |-> <<>>,
                 batches |-> <<>>, replies |-> <<>>],
         run'.seen \subseteq booked, run'.mine \subseteq booked
  PROVE  Steps' /\ Asked' /\ Due' /\ Caps'
<1>1. run'.todo = <<>> /\ run'.batches = <<>> /\ run'.replies = <<>>
  OBVIOUS
<1>2. DOMAIN run'.todo = {} /\ DOMAIN run'.batches = {} /\ DOMAIN run'.replies = {}
  BY <1>1
<1>3. Todo' = {} /\ Undecided' = Undecided
  BY <1>2 DEF Todo, Undecided
<1>4. Steps'
  BY <1>1, <1>2 DEF Steps
<1>5. Asked'
  BY <1>2 DEF Asked
<1>6. Due'
  BY <1>2, <1>3, FS_EmptySet DEF Due, Apart
<1>7. Caps'
  BY <1>3, CapsShrink
<1> QED  BY <1>4, <1>5, <1>6, <1>7

Statuses == {"none", "UNMATCHED", "MATCHED", "LINKED", "IGNORED"}

LEMMA ArriveStep ==
  ASSUME IInv, NEW t \in Txns, Arrive(t)
  PROVE  IInv'
<1>1. /\ booked' = booked \cup {t} /\ status' = [status EXCEPT ![t] = "UNMATCHED"]
      /\ book' = book /\ links' = links /\ run' = run /\ runs' = runs
  BY DEF Arrive
<1>2. LinkTypeOK /\ LinkedHasALink /\ runs \in Nat
  BY LinkingAssumption DEF IInv, LinkTypeOK
<1>3. LinkRows' /\ OneLinkEach' /\ MismatchIsReviewed' /\ CertainIsApproved' /\ Undecided' = Undecided
      /\ Machine' = Machine
  BY <1>1, <1>2, LinksStand
<1>4. Steps' /\ Asked' /\ Due' /\ Caps'
  BY <1>1, <1>3, RunStands
<1>5. LinkTypeOK'
  BY <1>1, <1>2 DEF LinkTypeOK
<1>6. LinkedHasALink'
  <2>1. \A u \in Txns : status'[u] = "LINKED" => status[u] = "LINKED"
    BY <1>1, <1>2 DEF LinkTypeOK
  <2> QED  BY <1>1, <1>2, <2>1 DEF LinkedHasALink, Explained
<1> QED  BY <1>3, <1>4, <1>5, <1>6 DEF IInv

LEMMA ProvedStep ==
  ASSUME IInv, NEW t \in Txns, Proved(t)
  PROVE  IInv'
<1>1. /\ status' = [status EXCEPT ![t] = "MATCHED"]
      /\ book' = book /\ booked' = booked /\ links' = links /\ run' = run /\ runs' = runs
  BY DEF Proved
<1>2. LinkTypeOK /\ LinkedHasALink /\ runs \in Nat
  BY LinkingAssumption DEF IInv, LinkTypeOK
<1>3. LinkRows' /\ OneLinkEach' /\ MismatchIsReviewed' /\ CertainIsApproved' /\ Undecided' = Undecided
      /\ Machine' = Machine
  BY <1>1, <1>2, LinksStand
<1>4. Steps' /\ Asked' /\ Due' /\ Caps'
  BY <1>1, <1>3, RunStands
<1>5. LinkTypeOK'
  BY <1>1, <1>2 DEF LinkTypeOK
<1>6. LinkedHasALink'
  <2>1. \A u \in Txns : status'[u] = "LINKED" => status[u] = "LINKED"
    BY <1>1, <1>2 DEF LinkTypeOK
  <2> QED  BY <1>1, <1>2, <2>1 DEF LinkedHasALink, Explained
<1> QED  BY <1>3, <1>4, <1>5, <1>6 DEF IInv

LEMMA SetAsideStep ==
  ASSUME IInv, NEW scoped \in BOOLEAN, SetAside(scoped)
  PROVE  IInv'
<1>1. /\ status' = [t \in Txns |-> IF t \in Evident THEN "IGNORED" ELSE status[t]]
      /\ run' = (IF scoped THEN Idle ELSE [run EXCEPT !.at = "matching"])
      /\ run.at = "linking" /\ run.todo = <<>>
      /\ book' = book /\ booked' = booked /\ links' = links /\ runs' = runs
  BY DEF SetAside
<1>2. LinkTypeOK /\ LinkedHasALink /\ Steps /\ runs \in Nat
  BY LinkingAssumption DEF IInv, LinkTypeOK
<1>3. LinkRows' /\ OneLinkEach' /\ MismatchIsReviewed' /\ CertainIsApproved'
  BY <1>1, <1>2, LinksStand
<1>4. /\ run'.at \in {"idle", "matching"}
      /\ run' = [at |-> run'.at, seen |-> run'.seen, mine |-> run'.mine, todo |-> <<>>,
                 batches |-> <<>>, replies |-> <<>>]
      /\ run'.seen \subseteq booked /\ run'.mine \subseteq booked
  <2>1. CASE scoped
    BY <1>1, <2>1 DEF Idle
  <2>2. CASE ~ scoped
    <3>1. run.batches = <<>> /\ run.todo = <<>>
      BY <1>1, <1>2 DEF Steps
    <3>2. run.replies = <<>>
      BY <1>1, <1>2 DEF Steps
    <3> QED  BY <1>1, <1>2, <2>2, <3>1, <3>2 DEF Steps
  <2> QED  BY <2>1, <2>2
<1>5. Steps' /\ Asked' /\ Due' /\ Caps'
  BY <1>1, <1>4, RunRests
<1>6. LinkTypeOK'
  BY <1>1, <1>2, <1>4 DEF LinkTypeOK
<1>7. LinkedHasALink'
  BY <1>1, <1>2 DEF LinkedHasALink, Explained
<1> QED  BY <1>3, <1>5, <1>6, <1>7 DEF IInv

LEMMA FinishStep ==
  ASSUME IInv, Finish
  PROVE  IInv'
<1>1. /\ run' = Idle /\ book' = book /\ booked' = booked /\ links' = links /\ runs' = runs /\ status' = status
  BY DEF Finish
<1>2. LinkTypeOK /\ LinkedHasALink /\ runs \in Nat
  BY LinkingAssumption DEF IInv, LinkTypeOK
<1>3. LinkRows' /\ OneLinkEach' /\ MismatchIsReviewed' /\ CertainIsApproved'
  BY <1>1, <1>2, LinksStand
<1>4. Steps' /\ Asked' /\ Due' /\ Caps'
  BY <1>1, RunRests DEF Idle
<1>5. LinkTypeOK'
  BY <1>1, <1>2 DEF LinkTypeOK, Idle
<1>6. LinkedHasALink'
  BY <1>1, <1>2 DEF LinkedHasALink, Explained
<1> QED  BY <1>3, <1>4, <1>5, <1>6 DEF IInv

(* The next link of the list                                               *)
LEMMA StoreLinkStep ==
  ASSUME IInv, StoreLink
  PROVE  IInv'
<1> DEFINE e == Head(run.todo)
           l == StoredAs(e, run.at)
           mine == run.mine \cup (IF Acceptable(e) THEN Pair(e) ELSE {})
<1>1. /\ run.at \in {"linking", "storing"} /\ run.todo # <<>>
      /\ run' = [run EXCEPT !.todo = Tail(@), !.mine = mine]
      /\ book' = book /\ booked' = booked /\ runs' = runs
      /\ IF Acceptable(e) THEN Inserted({l}) ELSE UNCHANGED <<links, status>>
  BY DEF StoreLink
<1>2. LinkTypeOK /\ LinkRows /\ Steps /\ Asked /\ Due /\ Caps
      /\ OneLinkEach /\ MismatchIsReviewed /\ CertainIsApproved /\ LinkedHasALink /\ runs \in Nat
  BY LinkingAssumption DEF IInv, LinkTypeOK
<1>3. run.todo \in Seq(Entries) /\ run.mine \subseteq booked /\ run.batches = <<>> /\ run.replies = <<>>
      /\ run = [at |-> run.at, seen |-> run.seen, mine |-> run.mine, todo |-> run.todo,
                batches |-> run.batches, replies |-> run.replies]
  BY <1>1, <1>2 DEF Steps
<1>4. /\ run'.at = run.at /\ run'.todo = Tail(run.todo) /\ run'.mine = mine /\ run'.seen = run.seen
      /\ run'.batches = <<>> /\ run'.replies = <<>>
      /\ run' = [at |-> run'.at, seen |-> run'.seen, mine |-> run'.mine, todo |-> run'.todo,
                 batches |-> run'.batches, replies |-> run'.replies]
  <2> HIDE DEF mine
  <2> QED  BY <1>1, <1>3
<1>5. /\ e = run.todo[1] /\ 1 \in DOMAIN run.todo /\ e \in Entries
      /\ run'.todo \in Seq(Entries)
      /\ \A i \in DOMAIN run'.todo : i + 1 \in DOMAIN run.todo /\ run'.todo[i] = run.todo[i + 1] /\ i + 1 # 1
      /\ \A i, j \in DOMAIN run'.todo : i # j => i + 1 # j + 1
  BY <1>1, <1>3, <1>4
<1> HIDE DEF e
<1>6. e \in Todo /\ Todo' \in SUBSET Todo /\ \A d \in Todo' : d # e /\ OnePlace(e, d) /\ e.tgt # d.tgt
  <2>1. e \in Todo
    BY <1>5 DEF Todo
  <2>2. ASSUME NEW i \in DOMAIN run'.todo
        PROVE  run'.todo[i] \in Todo /\ OnePlace(e, run'.todo[i]) /\ e.tgt # run'.todo[i].tgt
    BY <1>2, <1>5 DEF Due, Apart, Todo
  <2>3. Todo' = {run'.todo[i] : i \in DOMAIN run'.todo}
    BY DEF Todo
  <2> QED  BY <2>1, <2>2, <2>3
<1>7. Unspent(e.src, e.tgt) /\ (run.at = "linking" => Warranted(e))
      /\ \A k \in Undecided : OnePlace(k, e) /\ (Pair(k) \cap Pair(e) # {} => k.run = runs)
  BY <1>2, <1>6 DEF Due
<1>8. e.src \in booked /\ e.tgt \in booked /\ e.src # e.tgt /\ Pair(e) = {e.src, e.tgt}
      /\ e.src \in Txns /\ e.tgt \in Txns /\ e.type \in Types /\ e.conf \in Int
  BY <1>5, <1>7 DEF Unspent, Pair, Entries
<1>9. Steps' /\ Asked'
  <2>1. mine \subseteq booked
    BY <1>3, <1>8
  <2>2. DOMAIN run'.batches = {} /\ DOMAIN run'.replies = {} /\ run'.batches \in Seq(Seq(Txns \X Txns))
    BY <1>4
  <2>3. run'.seen \subseteq booked' /\ run'.mine \subseteq booked'
    BY <1>1, <1>2, <1>4, <2>1 DEF Steps
  <2>4. run'.at \notin {"idle", "matching", "asking"}
    BY <1>1, <1>4
  <2>5. Asked'
    BY <2>2 DEF Asked
  <2>6. Steps'
    BY <1>4, <1>5, <2>2, <2>3, <2>4 DEF Steps
  <2> QED  BY <2>5, <2>6
<1>10. IsFiniteSet(Todo') /\ Apart(run'.todo)
  <2>1. IsFiniteSet(Todo')
    BY <1>2, <1>6, FS_Subset DEF Due
  <2>2. Apart(run'.todo)
    BY <1>2, <1>5 DEF Due, Apart
  <2> QED  BY <2>1, <2>2
<1>11. CASE ~ Acceptable(e)
  <2>1. links' = links /\ status' = status
    BY <1>1, <1>11
  <2>2. LinkRows' /\ OneLinkEach' /\ MismatchIsReviewed' /\ CertainIsApproved' /\ Undecided' = Undecided
        /\ Machine' = Machine
    BY <1>1, <1>2, <2>1, LinksStand
  <2>3. LinkTypeOK' /\ LinkedHasALink'
    BY <1>1, <1>2, <1>4, <2>1 DEF LinkTypeOK, LinkedHasALink, Explained, Pair
  <2>4. Caps'
    BY <1>1, <1>6, <2>2, CapsShrink
  <2>5. ASSUME NEW d \in Todo'
        PROVE  /\ Unspent(d.src, d.tgt)' /\ (run'.at = "linking" => Warranted(d)')
               /\ \A k \in Undecided' : OnePlace(k, d) /\ (Pair(k) \cap Pair(d) # {} => k.run = runs')
    <3>1. /\ Unspent(d.src, d.tgt) /\ (run.at = "linking" => Warranted(d))
          /\ \A k \in Undecided : OnePlace(k, d) /\ (Pair(k) \cap Pair(d) # {} => k.run = runs)
      BY <1>2, <1>6 DEF Due
    <3>2. Unspent(d.src, d.tgt)'
      BY <1>1, <2>2, <3>1 DEF Unspent, Pair
    <3>3. Warranted(d)' = Warranted(d)
      BY <1>1 DEF Warranted, Opposite, Candidate, Projection
    <3> QED  BY <1>1, <1>4, <2>2, <3>1, <3>2, <3>3
  <2>6. Due'
    BY <1>10, <2>5 DEF Due, Apart, OnePlace, Pair
  <2> QED  BY <1>9, <2>2, <2>3, <2>4, <2>6 DEF IInv
<1>12. CASE Acceptable(e)
  <2>1. Inserted({l})
    BY <1>1, <1>12
  <2>2. links' = links \cup {l}
    BY <2>1 DEF Inserted
  <2>3. Cardinality(links) \in Nat /\ IsFiniteSet(links) /\ \A k \in links : k \in LinkRecords /\ k.nth < Cardinality(links)
    BY <1>2, FS_CardinalityType DEF LinkRows
  <2>4. /\ l.src = e.src /\ l.tgt = e.tgt /\ l.type = e.type /\ l.by = run.at /\ l.run = runs
        /\ l.nth = Cardinality(links) /\ Pair(l) = Pair(e)
        /\ l.status = (IF e.conf >= DbApprove THEN "AUTO_APPROVED" ELSE "PENDING_REVIEW")
        /\ l \in LinkRecords
    BY <1>1, <1>2, <1>8, <2>3 DEF StoredAs, Pair, LinkRecords
  <2> HIDE DEF l
  <2>5. l \notin links /\ l.by # "MANUAL" /\ l.status \in {"AUTO_APPROVED", "PENDING_REVIEW"}
    BY <1>1, <2>3, <2>4
  <2>6. IsFiniteSet(links') /\ Cardinality(links') = Cardinality(links) + 1
    BY <2>2, <2>3, <2>5, FS_AddElement
  <2>7. Undecided' = Undecided \cup {l} /\ Machine' = Machine \cup {l}
    BY <2>2, <2>5 DEF Undecided, Machine
  <2>8. LinkRows'
    <3>1. ASSUME NEW k \in links'
          PROVE  /\ k \in LinkRecords /\ k.src # k.tgt /\ k.nth < Cardinality(links')
                 /\ k.by = "MANUAL" => k.status \in {"USER_APPROVED", "USER_REJECTED"}
                 /\ k.by # "MANUAL" => k.run <= runs'
      <4>1. CASE k \in links
        <5>1. k.nth \in Nat /\ k.nth < Cardinality(links)
          BY <2>3, <4>1 DEF LinkRecords
        <5>2. k.nth < Cardinality(links')
          BY <2>3, <2>6, <5>1
        <5> QED  BY <1>1, <1>2, <4>1, <5>2 DEF LinkRows
      <4>2. CASE k = l
        BY <1>1, <1>2, <1>8, <2>3, <2>4, <2>5, <2>6, <4>2
      <4> QED  BY <2>2, <4>1, <4>2
    <3>2. ASSUME NEW k \in links', NEW m \in links', k.nth = m.nth, k.tgt = m.tgt  PROVE k = m
      <4>1. \A j \in links : j.nth # l.nth
        BY <2>3, <2>4 DEF LinkRecords
      <4> QED  BY <1>2, <2>2, <3>2, <4>1 DEF LinkRows
    <3> QED  BY <2>6, <3>1, <3>2 DEF LinkRows
  <2>9. OneLinkEach'
    <3>1. \A k \in Undecided : Pair(k) \cap Pair(l) # {}
             => k.type = "REFUND" /\ l.type = "REFUND" /\ k.src = l.src /\ k.run = l.run
      BY <1>7, <2>4 DEF OnePlace
    <3>2. ASSUME NEW k \in Undecided', NEW m \in Undecided', k # m, Pair(k) \cap Pair(m) # {}
          PROVE  k.type = "REFUND" /\ m.type = "REFUND" /\ k.src = m.src /\ k.run = m.run
      <4>1. CASE k \in Undecided /\ m \in Undecided
        BY <1>2, <3>2, <4>1 DEF OneLinkEach
      <4>2. CASE k \in Undecided /\ m = l
        BY <3>1, <3>2, <4>2
      <4>3. CASE k = l /\ m \in Undecided
        BY <3>1, <3>2, <4>3
      <4> QED  BY <2>7, <3>2, <4>1, <4>2, <4>3
    <3> QED  BY <3>2 DEF OneLinkEach, Pair
  <2>10. ASSUME run.at = "linking"
         PROVE  /\ book[l.src].currency = book[l.tgt].currency /\ book[l.src].cents # book[l.tgt].cents
                     => l.status # "AUTO_APPROVED"
                /\ CertainPair(l.src, l.tgt) \/ CertainPair(l.tgt, l.src) => l.status # "PENDING_REVIEW"
    <3>1. PICK x \in booked, y \in booked : Opposite(x, y) /\ \E c \in Candidate(x, y) : e = Projection(c)
      BY <1>7, <2>10 DEF Warranted
    <3>2. PICK c \in Candidate(x, y) : e = Projection(c)
      BY <3>1
    <3>3. x \in Txns /\ y \in Txns /\ book \in Books
      BY <1>2 DEF LinkTypeOK
    <3>4. {c.src, c.tgt} = {x, y} /\ c.conf = Confidence(x, y)
      BY <3>1, <3>2, <3>3, CandidateFacts
    <3>5. {l.src, l.tgt} = {x, y} /\ e.conf = Confidence(x, y)
      BY <2>4, <3>2, <3>4 DEF Projection
    <3>6. /\ Confidence(x, y) \in Int
          /\ book[x].currency = book[y].currency /\ book[x].cents # book[y].cents => Confidence(x, y) <= 8500
          /\ CertainPair(x, y) => Confidence(x, y) >= AutoApprove
      BY <3>3, ConfidenceIs
    <3>7. CertainPair(l.src, l.tgt) \/ CertainPair(l.tgt, l.src) => CertainPair(x, y)
      <4>1. \A u, v : CertainPair(u, v) => u < v
        BY DEF CertainPair, Opposite
      <4>2. x < y /\ x \in Nat /\ y \in Nat
        BY <3>1, <3>3, LinkingAssumption DEF Opposite
      <4>3. ~ CertainPair(y, x)
        BY <4>1, <4>2
      <4>4. (l.src = x /\ l.tgt = y) \/ (l.src = y /\ l.tgt = x)
        BY <1>8, <2>4, <3>5
      <4> QED  BY <4>3, <4>4
    <3>8. (l.src = x /\ l.tgt = y) \/ (l.src = y /\ l.tgt = x)
      BY <1>8, <2>4, <3>5
    <3> QED  BY <2>4, <3>5, <3>6, <3>7, <3>8 DEF AutoApprove, DbApprove
  <2>11. MismatchIsReviewed'
    <3>1. l.by = "linking" => run.at = "linking"
      BY <2>4
    <3> QED  BY <1>1, <1>2, <2>2, <2>10, <3>1 DEF MismatchIsReviewed
  <2>12. CertainIsApproved'
    <3>1. l.by = "linking" => run.at = "linking"
      BY <2>4
    <3>2. \A x, y : CertainPair(x, y)' = CertainPair(x, y)
      BY <1>1 DEF CertainPair, Opposite
    <3> QED  BY <1>2, <2>2, <2>10, <3>1, <3>2 DEF CertainIsApproved
  <2>13. status' = [t \in Txns |-> IF t \in Pair(l) /\ status[t] \in {"UNMATCHED", "IGNORED"}
                                   THEN "LINKED" ELSE status[t]]
    BY <2>1 DEF Inserted
  <2>14. LinkedHasALink'
    <3>1. SUFFICES ASSUME NEW t \in Txns, status'[t] = "LINKED"  PROVE Explained(t, links')
      BY DEF LinkedHasALink, Explained, Pair
    <3>2. CASE t \in Pair(l)
      BY <2>2, <2>5, <3>2 DEF Explained
    <3>3. CASE t \notin Pair(l)
      <4>1. status[t] = "LINKED"
        BY <2>13, <3>1, <3>3
      <4> QED  BY <1>2, <2>2, <4>1 DEF LinkedHasALink, Explained
    <3> QED  BY <3>2, <3>3
  <2>15. LinkTypeOK'
    <3>1. status' \in [Txns -> {"none", "UNMATCHED", "MATCHED", "LINKED", "IGNORED"}]
      BY <1>2, <2>13 DEF LinkTypeOK
    <3>2. l.run \in 0..MaxRuns
      BY <1>2, <2>4 DEF LinkTypeOK
    <3>3. \A k \in links' : /\ k.src \in booked /\ k.tgt \in booked /\ k.type \in Types
                      /\ k.by \in {"linking", "storing", "MANUAL"} /\ k.run \in 0..MaxRuns
                      /\ k.status \in {"AUTO_APPROVED", "PENDING_REVIEW", "USER_APPROVED", "USER_REJECTED"}
      BY <1>2, <1>8, <2>2, <2>4, <2>5, <3>2 DEF LinkTypeOK, LinkRecords
    <3> QED  BY <1>1, <1>2, <1>4, <3>1, <3>3 DEF LinkTypeOK
  <2>16. ASSUME NEW d \in Todo'
         PROVE  /\ Unspent(d.src, d.tgt)' /\ (run'.at = "linking" => Warranted(d)')
                /\ \A k \in Undecided' : OnePlace(k, d) /\ (Pair(k) \cap Pair(d) # {} => k.run = runs')
    <3>1. /\ Unspent(d.src, d.tgt) /\ (run.at = "linking" => Warranted(d))
          /\ \A k \in Undecided : OnePlace(k, d) /\ (Pair(k) \cap Pair(d) # {} => k.run = runs)
      BY <1>2, <1>6 DEF Due
    <3>2. Pair(l) # {d.src, d.tgt}
      <4>1. SUFFICES ASSUME Pair(l) = {d.src, d.tgt}  PROVE FALSE
        OBVIOUS
      <4>2. Pair(e) = Pair(d) /\ Pair(e) \cap Pair(d) # {}
        BY <1>8, <2>4, <4>1 DEF Pair
      <4>3. e.src = d.src /\ e.tgt # d.tgt
        BY <1>6, <4>2 DEF OnePlace
      <4>4. d.src # d.tgt
        BY <3>1 DEF Unspent
      <4> QED  BY <1>8, <4>2, <4>3, <4>4 DEF Pair
    <3>3. Unspent(d.src, d.tgt)'
      <4>1. \A k \in Machine' : Pair(k) # {d.src, d.tgt}
        BY <2>7, <3>1, <3>2 DEF Unspent
      <4> QED  BY <1>1, <3>1, <4>1 DEF Unspent, Pair
    <3>4. Warranted(d)' = Warranted(d)
      BY <1>1 DEF Warranted, Opposite, Candidate, Projection
    <3>5. OnePlace(l, d) /\ l.run = runs
      BY <1>6, <2>4 DEF OnePlace
    <3> QED  BY <1>1, <1>4, <2>7, <3>1, <3>3, <3>4, <3>5
  <2>17. Due'
    BY <1>10, <2>16 DEF Due, Apart, OnePlace, Pair
  <2>18. Caps'
    <3>1. SUFFICES ASSUME NEW t \in Txns
                   PROVE  (Total(Legs(Undecided, t)) + Total(Legs(Todo, t)) <= book[t].cents + 1)'
      BY DEF Caps
    <3> DEFINE A == Legs(Undecided, t)
               A1 == {k \in Undecided' : k.src = t /\ Capped(k)}
               B == Legs(Todo, t)
               B1 == {k \in Todo' : k.src = t /\ Capped(k)}
    <3>2. Total(Legs(Undecided, t))' = Total(A1) /\ Total(Legs(Todo, t))' = Total(B1)
      <4>1. Legs(Undecided, t)' = A1 /\ Legs(Todo, t)' = B1
        BY <1>1 DEF Legs, Capped
      <4> HIDE DEF A1, B1
      <4> QED  BY <1>1, <4>1 DEF Total
    <3>3. Total(A) + Total(B) <= book[t].cents + 1 /\ book[t].cents \in Nat /\ book' = book
      BY <1>1, <1>2, RowOf DEF Caps, LinkTypeOK
    <3>4. /\ book \in Books /\ IsFiniteSet(A) /\ IsFiniteSet(B)
          /\ (\A k \in A : k.tgt \in Txns) /\ (\A k \in B : k.tgt \in Txns)
      BY LegsFacts
    <3>5. Total(A) \in Nat /\ Total(B) \in Nat /\ \A D \in SUBSET B : Total(D) <= Total(B) /\ Total(D) \in Nat
      <4> HIDE DEF A, B
      <4> QED  BY <3>4, TotalOf
    <3>6. B1 \in SUBSET B
      BY <1>6 DEF Legs
    <3>7. Capped(l) <=> Capped(e)
      BY <2>4 DEF Capped
    <3>8. CASE l.src = t /\ Capped(l)
      <4>1. A1 = A \cup {l} /\ l \notin A
        BY <2>5, <2>7, <3>8 DEF Legs, Undecided
      <4>2. IsFiniteSet(A1) /\ (\A k \in A1 : k.tgt \in Txns) /\ l \in A1 /\ A1 \ {l} = A
        BY <1>8, <2>4, <3>4, <4>1, FS_AddElement
      <4>3. Total(A1) = book[l.tgt].cents + Total(A)
        <5> HIDE DEF A, A1
        <5> QED  BY <3>4, <4>2, TotalOf
      <4>4. e \in B /\ B1 \in SUBSET (B \ {e})
        BY <1>6, <2>4, <3>7, <3>8 DEF Legs
      <4>5. Total(B) = book[e.tgt].cents + Total(B \ {e})
        <5> HIDE DEF B
        <5> QED  BY <3>4, <4>4, TotalOf
      <4>6. Total(B1) <= Total(B \ {e}) /\ Total(B1) \in Nat /\ Total(B \ {e}) \in Nat
        <5>1. IsFiniteSet(B \ {e}) /\ \A k \in B \ {e} : k.tgt \in Txns
          BY <3>4, FS_Subset
        <5> HIDE DEF B, B1
        <5> QED  BY <3>4, <4>4, <5>1, TotalOf
      <4>7. book[e.tgt].cents \in Nat /\ book[l.tgt].cents = book[e.tgt].cents
        BY <1>8, <2>4, <3>4, RowOf
      <4> HIDE DEF A, A1, B, B1
      <4>8. Total(A1) + Total(B1) <= book[t].cents + 1
        BY <3>3, <3>5, <4>3, <4>5, <4>6, <4>7
      <4> QED  BY <3>2, <3>3, <4>8
    <3>9. CASE ~ (l.src = t /\ Capped(l))
      <4>1. A1 = A
        BY <2>7, <3>9 DEF Legs
      <4> HIDE DEF A, A1, B, B1
      <4>2. Total(A1) + Total(B1) <= book[t].cents + 1
        BY <3>3, <3>5, <3>6, <4>1
      <4> QED  BY <3>2, <3>3, <4>2
    <3> QED  BY <3>8, <3>9
  <2> QED  BY <1>9, <2>8, <2>9, <2>11, <2>12, <2>14, <2>15, <2>17, <2>18 DEF IInv
<1> QED  BY <1>11, <1>12

(* What a fresh assignment puts on the run's list                          *)
LEMMA Assigned ==
  ASSUME IInv, book' = book, booked' = booked, links' = links,
         NEW C \in SUBSET Cands, IsFiniteSet(C), \A c, d \in C : c.at = d.at => c = d,
         \A c \in C : Unspent(c.src, c.tgt) /\ \A l \in Undecided : Pair(l) \cap {c.src, c.tgt} = {},
         run'.todo = Greedy(Best(C))
  PROVE  /\ run'.todo \in Seq(Entries) /\ IsFiniteSet(Todo') /\ Apart(run'.todo) /\ Caps'
         /\ \A e \in Todo' : /\ Unspent(e.src, e.tgt)' /\ (\E c \in C : e = Projection(c))
                             /\ \A k \in Undecided' : Pair(k) \cap Pair(e) = {}
         /\ \A c \in C : ~ FansOut(c.type) => Pair(c) \cap UNION {Pair(e) : e \in Todo'} # {}
<1> DEFINE r == Best(C)
<1>1. r \in Seq(C) /\ \A c \in C : \E i \in 1..Len(r) : r[i] = c
  BY BestLists
<1> HIDE DEF r
<1>2. r \in Seq(Cands) /\ \A i \in 1..Len(r) : r[i] \in C
  BY <1>1
<1>3. \A i \in 1..Len(r) : r[i].src # r[i].tgt
  BY <1>2 DEF Unspent
<1>4. book \in Books
  BY DEF IInv, LinkTypeOK
<1>5. Todo' = {Greedy(r)[i] : i \in DOMAIN Greedy(r)} /\ run'.todo = Greedy(r)
  BY DEF Todo, r
<1>6. /\ run'.todo \in Seq(Entries) /\ IsFiniteSet(Todo') /\ Apart(run'.todo)
      /\ \A e \in Todo' : \E i \in 1..Len(r) : e = Projection(r[i])
      /\ \A t \in Txns : Total(Legs(Todo', t)) <= book[t].cents + 1
      /\ \A i \in 1..Len(r) : ~ FansOut(r[i].type) => Pair(r[i]) \cap UNION {Pair(e) : e \in Todo'} # {}
  BY <1>2, <1>3, <1>4, <1>5, GreedyFacts
<1>7. Undecided' = Undecided /\ Machine' = Machine
  BY DEF Undecided, Machine
<1>8. ASSUME NEW e \in Todo'
      PROVE  /\ Unspent(e.src, e.tgt)' /\ (\E c \in C : e = Projection(c))
             /\ \A k \in Undecided' : Pair(k) \cap Pair(e) = {}
  <2>1. PICK c \in C : e = Projection(c)
    BY <1>2, <1>6
  <2>2. e.src = c.src /\ e.tgt = c.tgt
    BY <2>1 DEF Projection
  <2>3. Unspent(e.src, e.tgt)'
    BY <1>7, <2>2 DEF Unspent, Pair
  <2> QED  BY <1>7, <2>1, <2>2, <2>3 DEF Pair
<1>9. Caps'
  <2>1. SUFFICES ASSUME NEW t \in Txns
                 PROVE  (Total(Legs(Undecided, t)) + Total(Legs(Todo, t)) <= book[t].cents + 1)'
    BY DEF Caps
  <2> DEFINE A == Legs(Undecided, t)
             B == Legs(Todo', t)
  <2>2. Total(Legs(Undecided, t))' = Total(A) /\ Total(Legs(Todo, t))' = Total(B)
    <3>1. Legs(Undecided, t)' = A /\ Legs(Todo, t)' = B
      BY <1>7 DEF Legs, Capped
    <3> HIDE DEF A, B
    <3> QED  BY <3>1 DEF Total
  <2>3. Total(A) + Total(Legs(Todo, t)) <= book[t].cents + 1
    BY DEF IInv, Caps
  <2>4. IsFiniteSet(A) /\ IsFiniteSet(Legs(Todo, t)) /\ (\A k \in A : k.tgt \in Txns)
        /\ (\A k \in Legs(Todo, t) : k.tgt \in Txns)
    BY LegsFacts
  <2>5. Total(A) \in Nat /\ Total(Legs(Todo, t)) \in Nat /\ Total({}) = 0
    <3> HIDE DEF A
    <3> QED  BY <1>4, <2>4, TotalOf
  <2>6. IsFiniteSet(B) /\ \A k \in B : k.tgt \in Txns
    <3>1. \A k \in Todo' : k \in Entries
      BY <1>5, <1>6
    <3> QED  BY <1>6, <3>1, FS_Subset DEF Legs, Entries
  <2>7. Total(B) \in Nat /\ Total(B) <= book[t].cents + 1
    <3> HIDE DEF B
    <3>1. Total(B) \in Nat
      BY <1>4, <2>6, TotalOf
    <3> QED  BY <1>6, <3>1 DEF B
  <2>8. A = {} \/ B = {}
    <3>1. SUFFICES ASSUME NEW k \in A, NEW e \in B  PROVE FALSE
      OBVIOUS
    <3>2. k \in Undecided' /\ e \in Todo' /\ t \in Pair(k) /\ t \in Pair(e)
      BY <1>7 DEF Legs, Pair
    <3> QED  BY <1>8, <3>2
  <2>9. (book[t].cents)' = book[t].cents /\ book[t].cents \in Nat
    BY <1>4, RowOf
  <2> HIDE DEF A, B
  <2>10. Total(A) + Total(B) <= book[t].cents + 1
    <3>1. CASE A = {}
      <4>1. Total(A) = 0
        BY <2>5, <3>1
      <4> QED  BY <2>7, <2>9, <4>1
    <3>2. CASE B = {}
      <4>1. Total(B) = 0
        BY <2>5, <3>2
      <4> QED  BY <2>3, <2>5, <2>9, <4>1
    <3> QED  BY <2>8, <3>1, <3>2
  <2> QED  BY <2>2, <2>9, <2>10
<1>10. ASSUME NEW c \in C, ~ FansOut(c.type)  PROVE Pair(c) \cap UNION {Pair(e) : e \in Todo'} # {}
  <2>1. PICK i \in 1..Len(r) : r[i] = c
    BY <1>1
  <2> QED  BY <1>6, <1>10, <2>1
<1> QED  BY <1>6, <1>8, <1>9, <1>10

(* The candidates of a run                                                 *)
Found == UNION {Candidate(p[1], p[2]) : p \in Pairs(Transferable)}

LEMMA FoundFacts ==
  ASSUME IInv
  PROVE  /\ Found \in SUBSET Cands /\ IsFiniteSet(Found) /\ \A c, d \in Found : c.at = d.at => c = d
         /\ \A c \in Found : /\ Unspent(c.src, c.tgt) /\ \A l \in Undecided : Pair(l) \cap {c.src, c.tgt} = {}
                             /\ Warranted(Projection(c))
<1>1. book \in Books /\ booked \subseteq Txns /\ LinkRows
  BY DEF IInv, LinkTypeOK
<1>2. \A p \in Pairs(Transferable) :
        /\ p[1] \in booked /\ p[2] \in booked /\ p[1] \notin LinkedRows /\ p[2] \notin LinkedRows
        /\ Opposite(p[1], p[2]) /\ {p[1], p[2]} \notin Refused
  BY DEF Pairs, Transferable, Pool
<1>3. \A c \in Found : \E p \in Pairs(Transferable) : c \in Candidate(p[1], p[2])
  BY DEF Found
<1>4. ASSUME NEW c \in Found
      PROVE  \E x, y \in booked \ LinkedRows :
               /\ Opposite(x, y) /\ {x, y} \notin Refused /\ c \in Candidate(x, y)
               /\ c \in Cands /\ c = TheCandidate(x, y) /\ c.at = <<x, y>>
               /\ {c.src, c.tgt} = {x, y} /\ c.src # c.tgt
  <2>1. PICK p \in Pairs(Transferable) : c \in Candidate(p[1], p[2])
    BY <1>3
  <2>2. p[1] \in Txns /\ p[2] \in Txns /\ Opposite(p[1], p[2])
    BY <1>1, <1>2
  <2>3. c \in Cands /\ c = TheCandidate(p[1], p[2]) /\ c.at = <<p[1], p[2]>>
        /\ {c.src, c.tgt} = {p[1], p[2]} /\ c.src # c.tgt
    BY <1>1, <2>1, <2>2, CandidateFacts
  <2> QED  BY <1>2, <2>1, <2>3
<1>5. Found \in SUBSET Cands
  BY <1>4
<1>6. \A c, d \in Found : c.at = d.at => c = d
  <2>1. SUFFICES ASSUME NEW c \in Found, NEW d \in Found, c.at = d.at  PROVE c = d
    OBVIOUS
  <2>2. PICK x \in booked, y \in booked : c = TheCandidate(x, y) /\ c.at = <<x, y>>
    BY <1>4
  <2>3. PICK u \in booked, v \in booked : d = TheCandidate(u, v) /\ d.at = <<u, v>>
    BY <1>4
  <2>4. x = u /\ y = v
    BY <2>1, <2>2, <2>3
  <2> QED  BY <2>2, <2>3, <2>4
<1>7. IsFiniteSet(Found)
  <2> DEFINE f == [c \in Found |-> c.at]
  <2>1. ASSUME NEW c \in Found  PROVE c.at \in Txns \X Txns
    <3>1. PICK x \in booked, y \in booked : c.at = <<x, y>>
      BY <1>4
    <3> QED  BY <1>1, <3>1
  <2>2. f \in Injection(Found, Txns \X Txns)
    BY <1>6, <2>1 DEF Injection, IsInjective
  <2>3. IsFiniteSet(Txns \X Txns)
    BY LinkingAssumption, FS_Product
  <2> HIDE DEF f
  <2> QED  BY <2>2, <2>3, FS_Injection
<1>8. ASSUME NEW c \in Found
      PROVE  /\ Unspent(c.src, c.tgt) /\ \A l \in Undecided : Pair(l) \cap {c.src, c.tgt} = {}
             /\ Warranted(Projection(c))
  <2>1. PICK x \in booked \ LinkedRows, y \in booked \ LinkedRows :
               /\ Opposite(x, y) /\ {x, y} \notin Refused /\ c \in Candidate(x, y)
               /\ {c.src, c.tgt} = {x, y} /\ c.src # c.tgt
    BY <1>4
  <2>2. \A l \in Live : x \notin Pair(l) /\ y \notin Pair(l)
    BY DEF LinkedRows
  <2>3. \A l \in Undecided : l \in Live
    BY DEF Undecided, Live
  <2>4. \A l \in links \ Live : Pair(l) # {x, y}
    BY <2>1 DEF Refused, Live
  <2>5. Unspent(c.src, c.tgt)
    <3>1. \A k \in Machine : Pair(k) # {x, y}
      BY <2>2, <2>4 DEF Machine
    <3> QED  BY <2>1, <3>1 DEF Unspent
  <2>6. Warranted(Projection(c))
    BY <2>1 DEF Warranted
  <2> QED  BY <2>1, <2>2, <2>3, <2>5, <2>6
<1> QED  BY <1>5, <1>6, <1>7, <1>8

LEMMA BeginStep ==
  ASSUME IInv, Begin
  PROVE  IInv'
<1>1. /\ run.at = "idle" /\ runs < MaxRuns /\ runs' = runs + 1
      /\ run' = [Idle EXCEPT !.at = "linking", !.seen = {t \in booked : status[t] = "UNMATCHED"},
                             !.todo = Greedy(Best(Found))]
      /\ book' = book /\ booked' = booked /\ status' = status /\ links' = links
  BY DEF Begin, Found
<1>2. LinkTypeOK /\ LinkedHasALink /\ runs \in Nat
  BY LinkingAssumption DEF IInv, LinkTypeOK
<1>3. /\ run'.at = "linking" /\ run'.seen \subseteq booked /\ run'.mine = {} /\ run'.batches = <<>>
      /\ run'.replies = <<>> /\ run'.todo = Greedy(Best(Found))
      /\ run' = [at |-> run'.at, seen |-> run'.seen, mine |-> run'.mine, todo |-> run'.todo,
                 batches |-> run'.batches, replies |-> run'.replies]
  BY <1>1 DEF Idle
<1>4. runs' \in 0..MaxRuns /\ runs' \in Nat /\ runs <= runs'
  BY <1>1, <1>2, LinkingAssumption
<1>5. LinkRows' /\ OneLinkEach' /\ MismatchIsReviewed' /\ CertainIsApproved'
  BY <1>1, <1>4, LinksStand
<1>6. /\ run'.todo \in Seq(Entries) /\ IsFiniteSet(Todo') /\ Apart(run'.todo) /\ Caps'
      /\ \A e \in Todo' : /\ Unspent(e.src, e.tgt)' /\ (\E c \in Found : e = Projection(c))
                          /\ \A k \in Undecided' : Pair(k) \cap Pair(e) = {}
  BY <1>1, <1>3, FoundFacts, Assigned
<1>7. Steps' /\ Asked'
  <2>1. DOMAIN run'.batches = {} /\ DOMAIN run'.replies = {} /\ run'.batches \in Seq(Seq(Txns \X Txns))
    BY <1>3
  <2>2. Asked'
    BY <2>1 DEF Asked
  <2>3. Steps'
    BY <1>1, <1>3, <1>6, <2>1 DEF Steps
  <2> QED  BY <2>2, <2>3
<1>8. Due'
  <2>1. ASSUME NEW e \in Todo'  PROVE Warranted(e)'
    <3>1. Warranted(e)
      BY <1>6, FoundFacts
    <3> QED  BY <1>1, <3>1 DEF Warranted, Opposite, Candidate, Projection
  <2>2. ASSUME NEW e \in Todo'
        PROVE  \A k \in Undecided' : OnePlace(k, e) /\ (Pair(k) \cap Pair(e) # {} => k.run = runs')
    BY <1>6 DEF OnePlace
  <2> QED  BY <1>6, <2>1, <2>2 DEF Due, Apart, OnePlace, Pair
<1>9. LinkTypeOK'
  BY <1>1, <1>2, <1>3, <1>4 DEF LinkTypeOK
<1>10. LinkedHasALink'
  BY <1>1, <1>2 DEF LinkedHasALink, Explained, Pair
<1> QED  BY <1>5, <1>6, <1>7, <1>8, <1>9, <1>10 DEF IInv

(* A stretch of a list holds what the list holds.                          *)
LEMMA Stretch ==
  ASSUME NEW S, NEW seq \in Seq(S), NEW m \in Nat \ {0}, NEW n \in Nat, n <= Len(seq)
  PROVE  SubSeq(seq, m, n) \in Seq(S)
<1>1. \A i \in m..n : seq[i] \in S
  OBVIOUS
<1> QED  BY <1>1, SubSeqProperties

LEMMA BatchedLists ==
  ASSUME NEW S, NEW seq \in Seq(S)
  PROVE  Batched(seq) \in Seq(Seq(S))
<1> DEFINE n == (Len(seq) + BatchSize - 1) \div BatchSize
           part(i) == SubSeq(seq, (i - 1) * BatchSize + 1, Smaller(i * BatchSize, Len(seq)))
<1>1. BatchSize \in Nat \ {0} /\ Len(seq) \in Nat
  BY LinkingAssumption
<1>2. n \in Nat
  BY <1>1
<1>3. ASSUME NEW i \in 1..n  PROVE part(i) \in Seq(S)
  <2>1. i \in Nat /\ i - 1 \in Nat
    BY <1>2
  <2>2. \A a, b \in Nat : a * b \in Nat
    OBVIOUS
  <2>3. (i - 1) * BatchSize \in Nat /\ i * BatchSize \in Nat
    BY <1>1, <2>1, <2>2
  <2>4. (i - 1) * BatchSize + 1 \in Nat \ {0}
    BY <2>3
  <2>5. Smaller(i * BatchSize, Len(seq)) \in Nat /\ Smaller(i * BatchSize, Len(seq)) <= Len(seq)
    BY <1>1, <2>3 DEF Smaller
  <2> QED  BY <2>4, <2>5, Stretch
<1>4. Batched(seq) = [i \in 1..n |-> part(i)]
  BY DEF Batched
<1> HIDE DEF n, part
<1> QED  BY <1>2, <1>3, <1>4

(* A pair's promise is a number.                                           *)
LEMMA PromiseType ==
  ASSUME book \in Books, NEW x \in Txns, NEW y \in Txns
  PROVE  Promise(x, y) \in Int
<1> DEFINE s == book[x]
           t == book[y]
           big == Larger(s.cents, t.cents)
           small == Smaller(s.cents, t.cents)
           ratio == (100 * big) \div small
           money == CASE s.currency = t.currency -> 100 - (100 * Gap(s.cents, t.cents)) \div big
                      [] s.currency # t.currency /\ ratio \in 120..155 -> 100 - (50 * Gap(1000 * ratio, 137500)) \div 17500
                      [] OTHER -> 30
           near == (30 * 100 * (21 - Gap(s.day, t.day))) \div 21
           accounts == IF {s.account, t.account} \in {{"CAD", "CreditCard"}, {"USD", "CreditCard"}, {"CAD", "USD"},
                                             {"CAD", "Wise"}, {"USD", "Wise"}} THEN 100 ELSE 50
<1>1. s.cents \in Nat \ {0} /\ t.cents \in Nat \ {0} /\ s.day \in Nat /\ t.day \in Nat
  BY RowOf
<1>2. big \in Nat \ {0} /\ small \in Nat \ {0}
  BY <1>1 DEF Larger, Smaller
<1>3. \A a \in Int, b \in Nat \ {0} : a \div b \in Int
  OBVIOUS
<1>4. Gap(s.cents, t.cents) \in Int /\ Gap(s.day, t.day) \in Int
  BY <1>1 DEF Gap
<1> DEFINE a1 == 100 * big
           a2 == 100 * Gap(s.cents, t.cents)
           a3 == 50 * Gap(1000 * ratio, 137500)
           a4 == 30 * 100 * (21 - Gap(s.day, t.day))
<1>5. a1 \in Int /\ a2 \in Int /\ a4 \in Int
  BY <1>2, <1>4
<1>6. ratio \in Int
  <2> HIDE DEF a1, big, small
  <2> QED  BY <1>2, <1>3, <1>5 DEF a1
<1>7. a3 \in Int
  <2>1. \A a \in Int : Gap(1000 * a, 137500) \in Int
    BY DEF Gap
  <2>2. \A a \in Int : 50 * a \in Int
    OBVIOUS
  <2> HIDE DEF ratio
  <2> QED  BY <1>6, <2>1, <2>2
<1>8. money \in Int
  <2>1. a2 \div big \in Int
    <3> HIDE DEF a2, big
    <3> QED  BY <1>2, <1>3, <1>5
  <2>2. a3 \div 17500 \in Int
    <3>1. 17500 \in Nat \ {0}
      OBVIOUS
    <3> HIDE DEF a3
    <3> QED  BY <1>3, <1>7, <3>1
  <2>3. money = CASE s.currency = t.currency -> 100 - a2 \div big
                  [] s.currency # t.currency /\ ratio \in 120..155 -> 100 - a3 \div 17500
                  [] OTHER -> 30
    OBVIOUS
  <2> HIDE DEF money, a2, a3, big, ratio
  <2>4. CASE s.currency = t.currency
    <3>1. money = 100 - a2 \div big
      BY <2>3, <2>4
    <3> QED  BY <2>1, <3>1
  <2>5. CASE s.currency # t.currency /\ ratio \in 120..155
    <3>1. money = 100 - a3 \div 17500
      BY <2>3, <2>5
    <3> QED  BY <2>2, <3>1
  <2>6. CASE s.currency # t.currency /\ ratio \notin 120..155
    <3>1. money = 30
      BY <2>3, <2>6
    <3> QED  BY <3>1
  <2> QED  BY <2>4, <2>5, <2>6
<1>9. near \in Int
  <2>1. 21 \in Nat \ {0}
    OBVIOUS
  <2> HIDE DEF a4
  <2>2. a4 \div 21 \in Int
    BY <1>3, <1>5, <2>1
  <2> QED  BY <2>2 DEF a4
<1>10. accounts \in Int
  OBVIOUS
<1>11. Promise(x, y) = 50 * money + near + 20 * accounts
  BY DEF Promise
<1> HIDE DEF money, near, accounts
<1> QED  BY <1>8, <1>9, <1>10, <1>11

(* The batches are made of pairs that may be asked about.                  *)
LEMMA ShownAreAskable ==
  ASSUME IInv
  PROVE  LET ranked == Ranked(Askable)
         IN Batched(SubSeq(ranked, 1, Smaller(MaxPairs, Len(ranked)))) \in Seq(Seq(Askable))
<1> DEFINE ranked == Ranked(Askable)
           batches == Batched(SubSeq(ranked, 1, Smaller(MaxPairs, Len(ranked))))
<1>1. book \in Books /\ booked \in SUBSET Txns /\ Txns \in SUBSET Nat /\ IsFiniteSet(Txns)
  BY LinkingAssumption DEF IInv, LinkTypeOK
<1>2. Askable \in SUBSET (booked \X booked)
  BY DEF Askable, Pairs
<1>3. ranked \in Seq(Askable)
  <2>1. Askable \in SUBSET (Nat \X Nat)
    BY <1>1, <1>2
  <2>2. IsFiniteSet(Askable)
    <3>1. IsFiniteSet(Txns \X Txns) /\ Askable \in SUBSET (Txns \X Txns)
      BY <1>1, <1>2, FS_Product
    <3> QED  BY <3>1, FS_Subset
  <2>3. ASSUME NEW p \in Askable  PROVE Promise(p[1], p[2]) \in Int
    <3>1. p[1] \in Txns /\ p[2] \in Txns
      BY <1>1, <1>2
    <3> QED  BY <1>1, <3>1, PromiseType
  <2> QED  BY <2>1, <2>2, <2>3, RankedLists
<1>4. batches \in Seq(Seq(Askable))
  <2> DEFINE n == Smaller(MaxPairs, Len(ranked))
  <2>1. n \in Nat /\ n <= Len(ranked)
    <3>1. Len(ranked) \in Nat /\ MaxPairs \in Nat
      BY <1>3, LinkingAssumption
    <3> HIDE DEF ranked
    <3> QED  BY <3>1 DEF Smaller
  <2>2. SubSeq(ranked, 1, n) \in Seq(Askable)
    <3>1. 1 \in Nat \ {0}
      OBVIOUS
    <3> HIDE DEF ranked, n
    <3> QED  BY <1>3, <2>1, <3>1, Stretch
  <2> HIDE DEF ranked, n
  <2> QED  BY <2>2, BatchedLists DEF n
<1> QED  BY <1>4

LEMMA AskStep ==
  ASSUME IInv, Ask
  PROVE  IInv'
<1> DEFINE ranked == Ranked(Askable)
           batches == Batched(SubSeq(ranked, 1, Smaller(MaxPairs, Len(ranked))))
<1>1. /\ run.at = "matching"
      /\ run' = [run EXCEPT !.at = "asking", !.batches = batches, !.replies = [i \in DOMAIN batches |-> <<"open">>]]
      /\ book' = book /\ booked' = booked /\ status' = status /\ links' = links /\ runs' = runs
  BY DEF Ask
<1>2. LinkTypeOK /\ LinkedHasALink /\ Steps /\ Due /\ runs \in Nat
  BY LinkingAssumption DEF IInv, LinkTypeOK
<1>3. book \in Books /\ booked \in SUBSET Txns /\ Txns \in SUBSET Nat /\ IsFiniteSet(Txns)
  BY <1>2, LinkingAssumption DEF LinkTypeOK
<1>4. Askable \in SUBSET (booked \X booked)
  BY DEF Askable, Pairs
<1>6. batches \in Seq(Seq(Askable))
  BY ShownAreAskable
<1> HIDE DEF batches
<1>7. /\ run'.at = "asking" /\ run'.seen = run.seen /\ run'.mine = run.mine /\ run'.todo = <<>>
      /\ run'.batches = batches /\ run'.replies = [i \in DOMAIN batches |-> <<"open">>]
      /\ run' = [at |-> run'.at, seen |-> run'.seen, mine |-> run'.mine, todo |-> run'.todo,
                 batches |-> run'.batches, replies |-> run'.replies]
  BY <1>1, <1>2 DEF Steps
<1>8. \A i \in DOMAIN batches : \A k \in DOMAIN batches[i] : batches[i][k] \in Askable
  <2>1. \A i \in DOMAIN batches : batches[i] \in Seq(Askable)
    BY <1>6
  <2> QED  BY <2>1
<1>9. LinkRows' /\ OneLinkEach' /\ MismatchIsReviewed' /\ CertainIsApproved' /\ Undecided' = Undecided
      /\ Machine' = Machine
  BY <1>1, <1>2, LinksStand
<1>10. Steps'
  <2>1. batches \in Seq(Seq(Txns \X Txns))
    <3>1. Askable \in SUBSET (Txns \X Txns)
      BY <1>3, <1>4
    <3>2. Seq(Seq(Askable)) \in SUBSET Seq(Seq(Txns \X Txns))
      <4>1. Seq(Askable) \in SUBSET Seq(Txns \X Txns)
        BY <3>1
      <4> QED  BY <4>1
    <3> QED  BY <1>6, <3>2
  <2>2. <<>> \in Seq(Entries)
    OBVIOUS
  <2> QED  BY <1>1, <1>2, <1>7, <2>1, <2>2 DEF Steps
<1>11. ASSUME NEW p \in Askable
       PROVE  Unspent(p[1], p[2]) /\ \A l \in Undecided : Pair(l) \cap {p[1], p[2]} = {}
  <2>1. /\ p[1] \in booked /\ p[2] \in booked /\ p[1] \notin LinkedRows /\ p[2] \notin LinkedRows
        /\ Opposite(p[1], p[2]) /\ {p[1], p[2]} \notin Refused
    BY DEF Askable, Pairs
  <2>2. p[1] # p[2]
    BY <1>3, <2>1 DEF Opposite
  <2>3. \A l \in Live : p[1] \notin Pair(l) /\ p[2] \notin Pair(l)
    BY <2>1 DEF LinkedRows
  <2>4. \A l \in links \ Live : Pair(l) # {p[1], p[2]}
    BY <2>1 DEF Refused, Live
  <2>5. \A k \in Machine : Pair(k) # {p[1], p[2]}
    BY <2>3, <2>4 DEF Machine
  <2> QED  BY <2>1, <2>2, <2>3, <2>5 DEF Unspent, Undecided, Live
<1>12. Asked'
  <2>1. ASSUME NEW p \in Askable
        PROVE  /\ p[1] \in booked' /\ p[2] \in booked' /\ p[1] # p[2]
               /\ \A k \in Machine' : {k.src, k.tgt} # {p[1], p[2]}
               /\ \A l \in Undecided' : {l.src, l.tgt} \cap {p[1], p[2]} = {}
    BY <1>1, <1>9, <1>11 DEF Unspent, Pair
  <2>2. \A i \in DOMAIN run'.batches : \A k \in DOMAIN run'.batches[i] : run'.batches[i][k] \in Askable
    BY <1>7, <1>8
  <2> QED  BY <2>1, <2>2 DEF Asked, Unspent, Pair
<1>13. Due' /\ Caps'
  <2>1. DOMAIN run'.todo = {}
    BY <1>7
  <2>2. Todo' = {}
    BY <2>1 DEF Todo
  <2>3. Due'
    BY <2>1, <2>2, FS_EmptySet DEF Due, Apart
  <2> QED  BY <1>1, <1>9, <2>2, <2>3, CapsShrink
<1>14. LinkTypeOK'
  BY <1>1, <1>2, <1>7 DEF LinkTypeOK
<1>15. LinkedHasALink'
  BY <1>1, <1>2 DEF LinkedHasALink, Explained, Pair
<1> QED  BY <1>9, <1>10, <1>12, <1>13, <1>14, <1>15 DEF IInv

LEMMA AnswerStep ==
  ASSUME IInv, NEW i \in DOMAIN run.replies, Answer(i)
  PROVE  IInv'
<1>1. PICK reply \in {<<"failed">>} \cup {<<"said", v>> : v \in Verdicts(run.batches[i])} :
        run' = [run EXCEPT !.replies[i] = reply]
  BY DEF Answer
<1>2. /\ run.at = "asking" /\ book' = book /\ booked' = booked /\ status' = status /\ links' = links /\ runs' = runs
  BY DEF Answer
<1>3. LinkTypeOK /\ LinkedHasALink /\ Steps /\ Asked /\ Due /\ runs \in Nat
  BY LinkingAssumption DEF IInv, LinkTypeOK
<1>4. /\ run'.at = "asking" /\ run'.seen = run.seen /\ run'.mine = run.mine /\ run'.todo = run.todo
      /\ run'.batches = run.batches /\ run'.replies = [run.replies EXCEPT ![i] = reply]
      /\ run' = [at |-> run'.at, seen |-> run'.seen, mine |-> run'.mine, todo |-> run'.todo,
                 batches |-> run'.batches, replies |-> run'.replies]
  BY <1>1, <1>2, <1>3 DEF Steps
<1>5. LinkRows' /\ OneLinkEach' /\ MismatchIsReviewed' /\ CertainIsApproved' /\ Undecided' = Undecided
      /\ Machine' = Machine
  BY <1>2, <1>3, LinksStand
<1>6. Steps'
  <2>1. DOMAIN run'.replies = DOMAIN run'.batches /\ DOMAIN run.replies = DOMAIN run.batches
    BY <1>3, <1>4 DEF Steps
  <2>2. ASSUME NEW j \in DOMAIN run.batches
        PROVE  run'.replies[j] \in {<<"open">>, <<"failed">>} \cup {<<"said", v>> : v \in Verdicts(run.batches[j])}
    <3>1. CASE j = i
      BY <1>4, <2>1, <3>1
    <3>2. CASE j # i
      <4>1. run'.replies[j] = run.replies[j]
        BY <1>4, <2>1, <3>2
      <4> QED  BY <1>3, <4>1 DEF Steps
    <3> QED  BY <3>1, <3>2
  <2> QED  BY <1>2, <1>3, <1>4, <2>1, <2>2 DEF Steps, Verdicts
<1>7. Asked'
  <2>1. ASSUME NEW j \in DOMAIN run.batches, NEW k \in DOMAIN run.batches[j], NEW p, p = run.batches[j][k]
        PROVE  /\ p[1] \in booked' /\ p[2] \in booked' /\ p[1] # p[2]
               /\ \A m \in Machine' : {m.src, m.tgt} # {p[1], p[2]}
               /\ \A l \in Undecided' : {l.src, l.tgt} \cap {p[1], p[2]} = {}
    <3>1. Unspent(p[1], p[2]) /\ \A l \in Undecided : Pair(l) \cap {p[1], p[2]} = {}
      BY <1>3, <2>1 DEF Asked
    <3> QED  BY <1>2, <1>5, <3>1 DEF Unspent, Pair
  <2>2. \A j \in DOMAIN run'.batches : \A k \in DOMAIN run'.batches[j] :
          LET p == run'.batches[j][k]
          IN /\ p[1] \in booked' /\ p[2] \in booked' /\ p[1] # p[2]
             /\ \A m \in Machine' : {m.src, m.tgt} # {p[1], p[2]}
             /\ \A l \in Undecided' : {l.src, l.tgt} \cap {p[1], p[2]} = {}
    BY <1>4, <2>1
  <2> QED  BY <2>2 DEF Asked, Unspent, Pair
<1>8. Todo' = Todo /\ Todo = {}
  <2>1. DOMAIN run.todo = {}
    BY <1>2, <1>3 DEF Steps
  <2> QED  BY <1>4, <2>1 DEF Todo
<1>9. Due' /\ Caps'
  <2>1. DOMAIN run'.todo = {}
    BY <1>2, <1>3, <1>4 DEF Steps
  <2>2. Due'
    BY <1>8, <2>1, FS_EmptySet DEF Due, Apart
  <2> QED  BY <1>2, <1>5, <1>8, <2>2, CapsShrink
<1>10. LinkTypeOK'
  BY <1>2, <1>3, <1>4 DEF LinkTypeOK
<1>11. LinkedHasALink'
  BY <1>2, <1>3 DEF LinkedHasALink, Explained, Pair
<1> QED  BY <1>5, <1>6, <1>7, <1>9, <1>10, <1>11 DEF IInv

(* What the models said of a pair                                          *)
Joined(i, k) ==
  LET p == run.batches[i][k]
      v == run.replies[i][2][k]
  IN [src |-> IF book[p[1]].debit THEN p[1] ELSE p[2], tgt |-> IF book[p[1]].debit THEN p[2] ELSE p[1],
      type |-> v.type, conf |-> 95 * v.factor, at |-> <<i, k>>]

LEMMA HeardFacts ==
  ASSUME IInv, run.at = "asking", \A i \in DOMAIN run.replies : run.replies[i] # <<"open">>
  PROVE  LET all == UNION {Heard(i) : i \in DOMAIN run.replies}
         IN /\ all \in SUBSET Cands /\ IsFiniteSet(all) /\ \A c, d \in all : c.at = d.at => c = d
            /\ \A c \in all : Unspent(c.src, c.tgt) /\ \A l \in Undecided : Pair(l) \cap {c.src, c.tgt} = {}
<1> DEFINE all == UNION {Heard(i) : i \in DOMAIN run.replies}
           size(i) == Len(run.batches[i])
<1>1. Steps /\ Asked
  BY DEF IInv
<1>2. /\ DOMAIN run.replies = 1..Len(run.batches) /\ DOMAIN run.batches = 1..Len(run.batches)
      /\ Len(run.batches) \in Nat
      /\ \A i \in DOMAIN run.batches : run.batches[i] \in Seq(Txns \X Txns)
  BY <1>1 DEF Steps
<1>3. ASSUME NEW i \in DOMAIN run.replies
      PROVE  /\ size(i) \in Nat /\ DOMAIN run.batches[i] = 1..size(i)
             /\ Heard(i) = {} \/ /\ Heard(i) = {Joined(i, k) : k \in 1..size(i)}
                                 /\ run.replies[i][2] \in Verdicts(run.batches[i])
  <2>1. size(i) \in Nat /\ DOMAIN run.batches[i] = 1..size(i)
    BY <1>2
  <2>2. run.replies[i] = <<"failed">> \/ \E v \in Verdicts(run.batches[i]) : run.replies[i] = <<"said", v>>
    BY <1>1, <1>2 DEF Steps
  <2>3. CASE run.replies[i] = <<"failed">>
    BY <2>1, <2>3 DEF Heard
  <2>4. CASE \E v \in Verdicts(run.batches[i]) : run.replies[i] = <<"said", v>>
    <3>1. run.replies[i] # <<"failed">> /\ run.replies[i][2] \in Verdicts(run.batches[i])
      BY <2>4
    <3>2. Heard(i) = {Joined(i, k) : k \in 1..size(i)}
      BY <2>1, <3>1 DEF Heard, Joined
    <3> QED  BY <2>1, <3>1, <3>2
  <2> QED  BY <2>2, <2>3, <2>4
<1>4. ASSUME NEW i \in DOMAIN run.replies, NEW k \in 1..size(i), run.replies[i][2] \in Verdicts(run.batches[i])
      PROVE  /\ Joined(i, k) \in Cands /\ Joined(i, k).at = <<i, k>>
             /\ {Joined(i, k).src, Joined(i, k).tgt} = {run.batches[i][k][1], run.batches[i][k][2]}
             /\ Joined(i, k).src # Joined(i, k).tgt
             /\ Unspent(Joined(i, k).src, Joined(i, k).tgt)
             /\ \A l \in Undecided : Pair(l) \cap {Joined(i, k).src, Joined(i, k).tgt} = {}
  <2> DEFINE p == run.batches[i][k]
             v == run.replies[i][2][k]
  <2>1. p \in Txns \X Txns /\ i \in DOMAIN run.batches /\ k \in DOMAIN run.batches[i]
    BY <1>2, <1>3
  <2>2. Unspent(p[1], p[2]) /\ \A l \in Undecided : Pair(l) \cap {p[1], p[2]} = {}
    BY <1>1, <2>1 DEF Asked
  <2>3. v \in [factor : Factors, type : {"REFUND", "OTHER"}]
    <3>1. run.replies[i][2] \in [1..size(i) -> [factor : Factors, type : {"REFUND", "OTHER"}]]
      BY <1>4 DEF Verdicts
    <3> QED  BY <3>1
  <2>4. v.type \in Types /\ v.factor \in Int
    <3> HIDE DEF v
    <3>1. v.type \in {"REFUND", "OTHER"} /\ v.factor \in Factors
      BY <2>3
    <3>2. v.factor \in 0..100
      BY <3>1, LinkingAssumption
    <3>3. v.type \in Types
      BY <3>1 DEF Types
    <3>4. \A n \in 0..100 : n \in Int
      OBVIOUS
    <3>5. v.factor \in Int
      BY ONLY <3>2, <3>4
    <3> QED  BY <3>3, <3>5
  <2>5. 95 * v.factor \in Int
    BY <2>4
  <2>6. i \in Nat /\ k \in Nat
    BY <1>2, <1>3
  <2> DEFINE a == IF book[p[1]].debit THEN p[1] ELSE p[2]
             b == IF book[p[1]].debit THEN p[2] ELSE p[1]
  <2>7. Joined(i, k) = [src |-> a, tgt |-> b, type |-> v.type, conf |-> 95 * v.factor, at |-> <<i, k>>]
    BY DEF Joined
  <2>8. a \in Txns /\ b \in Txns /\ {a, b} = {p[1], p[2]}
    BY <2>1
  <2>9. Unspent(a, b) /\ a # b
    BY <2>2, <2>8 DEF Unspent
  <2> HIDE DEF a, b, p, v
  <2>10. Joined(i, k).src = a /\ Joined(i, k).tgt = b /\ Joined(i, k).at = <<i, k>>
    BY <2>7
  <2>11. Joined(i, k) \in Cands
    BY <2>4, <2>5, <2>6, <2>7, <2>8 DEF Cands
  <2> QED  BY <2>2, <2>8, <2>9, <2>10, <2>11 DEF p
<1>5. ASSUME NEW c \in all
      PROVE  \E i \in DOMAIN run.replies : \E k \in 1..size(i) :
               c = Joined(i, k) /\ c \in Heard(i) /\ run.replies[i][2] \in Verdicts(run.batches[i])
  <2>1. PICK i \in DOMAIN run.replies : c \in Heard(i)
    OBVIOUS
  <2> QED  BY <1>3, <2>1
<1>6. IsFiniteSet(all)
  <2>1. ASSUME NEW i \in DOMAIN run.replies  PROVE IsFiniteSet(Heard(i))
    <3>1. CASE Heard(i) = {}
      BY <3>1, FS_EmptySet
    <3>2. CASE Heard(i) # {}
      <4> DEFINE n == size(i)
                 f == [k \in 1..n |-> Joined(i, k)]
      <4>1. Heard(i) = {Joined(i, k) : k \in 1..n} /\ n \in Nat
        BY <1>3, <3>2
      <4>2. f \in Surjection(1..n, Heard(i))
        BY <4>1 DEF Surjection
      <4>3. 1 \in Int /\ n \in Int
        BY <4>1
      <4>4. IsFiniteSet(1..n)
        <5> HIDE DEF n
        <5> QED  BY <4>3, FS_Interval
      <4> HIDE DEF f, n
      <4> QED  BY <4>2, <4>4, FS_Surjection
    <3> QED  BY <3>1, <3>2
  <2> DEFINE D == DOMAIN run.replies
             F == {Heard(i) : i \in D}
             h == [i \in D |-> Heard(i)]
  <2>2. h \in Surjection(D, F)
    BY DEF Surjection
  <2>3. IsFiniteSet(D)
    <3>1. 1 \in Int /\ Len(run.batches) \in Int
      BY <1>2
    <3>2. IsFiniteSet(1..Len(run.batches))
      BY <3>1, FS_Interval
    <3> QED  BY <1>2, <3>2
  <2>4. IsFiniteSet(F)
    <3> HIDE DEF D, F, h
    <3> QED  BY <2>2, <2>3, FS_Surjection
  <2>5. \A A \in F : IsFiniteSet(A)
    BY <2>1
  <2>6. IsFiniteSet(UNION F)
    <3> HIDE DEF F
    <3> QED  BY <2>4, <2>5, FS_UNION
  <2> QED  BY <2>6
<1>7. ASSUME NEW c \in all, NEW d \in all, c.at = d.at  PROVE c = d
  <2>1. PICK i \in DOMAIN run.replies : \E k \in 1..size(i) :
               c = Joined(i, k) /\ run.replies[i][2] \in Verdicts(run.batches[i])
    BY <1>5
  <2>2. PICK k \in 1..size(i) : c = Joined(i, k) /\ run.replies[i][2] \in Verdicts(run.batches[i])
    BY <2>1
  <2>3. PICK j \in DOMAIN run.replies : \E m \in 1..size(j) :
               d = Joined(j, m) /\ run.replies[j][2] \in Verdicts(run.batches[j])
    BY <1>5
  <2>4. PICK m \in 1..size(j) : d = Joined(j, m) /\ run.replies[j][2] \in Verdicts(run.batches[j])
    BY <2>3
  <2>5. c.at = <<i, k>> /\ d.at = <<j, m>>
    BY <1>4, <2>2, <2>4
  <2>6. i = j /\ k = m
    <3>1. <<i, k>> = <<j, m>>
      BY <1>7, <2>5
    <3> QED  BY ONLY <3>1
  <2> QED  BY <2>2, <2>4, <2>6
<1>8. ASSUME NEW c \in all
      PROVE  c \in Cands /\ Unspent(c.src, c.tgt) /\ \A l \in Undecided : Pair(l) \cap {c.src, c.tgt} = {}
  <2>1. PICK i \in DOMAIN run.replies : \E k \in 1..size(i) :
               c = Joined(i, k) /\ run.replies[i][2] \in Verdicts(run.batches[i])
    BY <1>5
  <2>2. PICK k \in 1..size(i) : c = Joined(i, k) /\ run.replies[i][2] \in Verdicts(run.batches[i])
    BY <2>1
  <2> QED  BY <1>4, <2>2
<1> QED  BY <1>6, <1>7, <1>8

LEMMA AssignStep ==
  ASSUME IInv, Assign
  PROVE  IInv'
<1> DEFINE all == UNION {Heard(i) : i \in DOMAIN run.replies}
           heard == {c \in all : c.conf >= 95 * 55}
<1>1. /\ run.at = "asking" /\ \A i \in DOMAIN run.replies : run.replies[i] # <<"open">>
      /\ run' = [run EXCEPT !.at = "storing", !.todo = Greedy(Best(heard)), !.batches = <<>>, !.replies = <<>>]
      /\ book' = book /\ booked' = booked /\ status' = status /\ links' = links /\ runs' = runs
  BY DEF Assign
<1>2. LinkTypeOK /\ LinkedHasALink /\ Steps /\ runs \in Nat
  BY LinkingAssumption DEF IInv, LinkTypeOK
<1>3. heard \in SUBSET Cands /\ IsFiniteSet(heard) /\ (\A c, d \in heard : c.at = d.at => c = d)
      /\ \A c \in heard : Unspent(c.src, c.tgt) /\ \A l \in Undecided : Pair(l) \cap {c.src, c.tgt} = {}
  <2>1. all \in SUBSET Cands /\ IsFiniteSet(all) /\ (\A c, d \in all : c.at = d.at => c = d)
        /\ \A c \in all : Unspent(c.src, c.tgt) /\ \A l \in Undecided : Pair(l) \cap {c.src, c.tgt} = {}
    BY <1>1, HeardFacts
  <2>2. heard \in SUBSET all
    OBVIOUS
  <2> HIDE DEF all, heard
  <2> QED  BY <2>1, <2>2, FS_Subset
<1> HIDE DEF heard
<1>4. /\ run'.at = "storing" /\ run'.seen = run.seen /\ run'.mine = run.mine /\ run'.todo = Greedy(Best(heard))
      /\ run'.batches = <<>> /\ run'.replies = <<>>
      /\ run' = [at |-> run'.at, seen |-> run'.seen, mine |-> run'.mine, todo |-> run'.todo,
                 batches |-> run'.batches, replies |-> run'.replies]
  BY <1>1, <1>2 DEF Steps
<1>5. /\ run'.todo \in Seq(Entries) /\ IsFiniteSet(Todo') /\ Apart(run'.todo) /\ Caps'
      /\ \A e \in Todo' : /\ Unspent(e.src, e.tgt)' /\ (\E c \in heard : e = Projection(c))
                          /\ \A k \in Undecided' : Pair(k) \cap Pair(e) = {}
  BY <1>1, <1>3, <1>4, Assigned
<1>6. LinkRows' /\ OneLinkEach' /\ MismatchIsReviewed' /\ CertainIsApproved'
  BY <1>1, <1>2, LinksStand
<1>7. Steps' /\ Asked'
  <2>1. DOMAIN run'.batches = {} /\ DOMAIN run'.replies = {} /\ run'.batches \in Seq(Seq(Txns \X Txns))
    BY <1>4
  <2>2. Asked'
    BY <2>1 DEF Asked
  <2>3. run'.seen \subseteq booked' /\ run'.mine \subseteq booked'
    BY <1>1, <1>2, <1>4 DEF Steps
  <2>4. Steps'
    BY <1>4, <1>5, <2>1, <2>3 DEF Steps
  <2> QED  BY <2>2, <2>4
<1>8. Due'
  <2>1. ASSUME NEW e \in Todo'
        PROVE  \A k \in Undecided' : OnePlace(k, e) /\ (Pair(k) \cap Pair(e) # {} => k.run = runs')
    BY <1>5 DEF OnePlace
  <2>2. run'.at # "linking"
    BY <1>4
  <2> QED  BY <1>5, <2>1, <2>2 DEF Due, Apart, OnePlace, Pair
<1>9. LinkTypeOK'
  BY <1>1, <1>2, <1>4 DEF LinkTypeOK
<1>10. LinkedHasALink'
  BY <1>1, <1>2 DEF LinkedHasALink, Explained, Pair
<1> QED  BY <1>5, <1>6, <1>7, <1>8, <1>9, <1>10 DEF IInv

(* A decision of the user changes the status of links on file, and makes   *)
(* none.                                                                   *)
LEMMA Decided ==
  ASSUME IInv, NEW S \in SUBSET links, NEW st \in {"USER_APPROVED", "USER_REJECTED"},
         links' = Stamped(S, st), book' = book, booked' = booked, run' = run, runs' = runs
  PROVE  /\ LinkRows' /\ Steps' /\ Asked' /\ Due' /\ Caps'
         /\ OneLinkEach' /\ MismatchIsReviewed' /\ CertainIsApproved'
         /\ \A l \in links' : l.run \in 0..MaxRuns /\ l.src \in booked /\ l.tgt \in booked
         /\ Cardinality(links') = Cardinality(links)
<1> DEFINE stamp(l) == IF l \in S THEN [l EXCEPT !.status = st] ELSE l
           f == [l \in links |-> stamp(l)]
<1>1. LinkRows /\ OneLinkEach /\ MismatchIsReviewed /\ CertainIsApproved /\ runs \in Nat
      /\ \A l \in links : l.run \in 0..MaxRuns /\ l.src \in booked /\ l.tgt \in booked
  BY LinkingAssumption DEF IInv, LinkTypeOK
<1>2. links' = {stamp(l) : l \in links}
  BY DEF Stamped
<1>3. ASSUME NEW l \in links
      PROVE  /\ stamp(l) \in LinkRecords /\ stamp(l).src = l.src /\ stamp(l).tgt = l.tgt
             /\ stamp(l).type = l.type /\ stamp(l).by = l.by /\ stamp(l).run = l.run /\ stamp(l).nth = l.nth
             /\ stamp(l).status = (IF l \in S THEN st ELSE l.status)
  <2>1. l \in LinkRecords
    BY <1>1 DEF LinkRows
  <2>2. CASE l \in S
    BY <2>1, <2>2 DEF LinkRecords
  <2>3. CASE l \notin S
    BY <2>1, <2>3
  <2> QED  BY <2>2, <2>3
<1> HIDE DEF stamp
<1>4. \A k, l \in links : stamp(k).nth = stamp(l).nth /\ stamp(k).tgt = stamp(l).tgt => k = l
  BY <1>1, <1>3 DEF LinkRows
<1>5. IsFiniteSet(links') /\ Cardinality(links') = Cardinality(links)
  <2>1. f \in Surjection(links, links')
    BY <1>2 DEF Surjection
  <2>2. f \in Injection(links, links')
    <3>1. \A k, l \in links : f[k] = f[l] => k = l
      BY <1>4
    <3>2. f \in [links -> links']
      BY <1>2
    <3> HIDE DEF f
    <3> QED  BY <3>1, <3>2 DEF Injection, IsInjective
  <2>3. IsFiniteSet(links)
    BY <1>1 DEF LinkRows
  <2> HIDE DEF f
  <2> QED  BY <2>1, <2>2, <2>3, FS_Surjection
<1>6. LinkRows'
  <2>1. ASSUME NEW l \in links
        PROVE  /\ stamp(l) \in LinkRecords /\ stamp(l).src # stamp(l).tgt /\ stamp(l).nth < Cardinality(links')
               /\ stamp(l).by = "MANUAL" => stamp(l).status \in {"USER_APPROVED", "USER_REJECTED"}
               /\ stamp(l).by # "MANUAL" => stamp(l).run <= runs'
    BY <1>1, <1>3, <1>5 DEF LinkRows
  <2>2. \A k, l \in links' : k.nth = l.nth /\ k.tgt = l.tgt => k = l
    BY <1>2, <1>4
  <2>3. \A l \in links' : \E k \in links : l = stamp(k)
    BY <1>2
  <2> QED  BY <1>5, <2>1, <2>2, <2>3 DEF LinkRows
<1>7. Undecided' \in SUBSET Undecided
  <2>1. ASSUME NEW l \in links, stamp(l) \in Undecided'  PROVE l \notin S /\ stamp(l) = l /\ l \in Undecided
    <3>1. stamp(l).status \in {"AUTO_APPROVED", "PENDING_REVIEW"}
      BY <2>1 DEF Undecided
    <3>2. l \notin S
      BY <1>3, <3>1
    <3>3. stamp(l) = l
      BY <3>2 DEF stamp
    <3> QED  BY <3>1, <3>2, <3>3 DEF Undecided
  <2>2. \A l \in Undecided' : \E k \in links : l = stamp(k)
    BY <1>2 DEF Undecided
  <2> QED  BY <2>1, <2>2
<1>8. \A k \in Machine' : \E j \in Machine : Pair(j) = Pair(k)
  <2>1. ASSUME NEW l \in links, stamp(l).by # "MANUAL"  PROVE l \in Machine /\ Pair(l) = Pair(stamp(l))
    BY <1>3, <2>1 DEF Machine, Pair
  <2>2. \A k \in Machine' : k.by # "MANUAL" /\ \E l \in links : k = stamp(l)
    BY <1>2 DEF Machine
  <2> QED  BY <2>1, <2>2
<1>9. Steps' /\ Asked' /\ Due' /\ Caps'
  BY <1>7, <1>8, RunStands
<1>10. OneLinkEach'
  <2>1. \A k, l \in Undecided' : k # l /\ Pair(k) \cap Pair(l) # {}
    => k.type = "REFUND" /\ l.type = "REFUND" /\ k.src = l.src /\ k.run = l.run
    BY <1>1, <1>7 DEF OneLinkEach
  <2> QED  BY <2>1 DEF OneLinkEach, Pair
<1>11. MismatchIsReviewed'
  <2>1. ASSUME NEW l \in links, stamp(l).status \notin {"USER_APPROVED", "USER_REJECTED"}
        PROVE  stamp(l) = l
    BY <1>3, <2>1 DEF stamp
  <2>2. \A l \in links' : \E k \in links : l = stamp(k)
    BY <1>2
  <2>3. \A l \in links' : l.status \in {"AUTO_APPROVED", "PENDING_REVIEW"} => l \in links
    BY <2>1, <2>2
  <2> QED  BY <1>1, <2>3 DEF MismatchIsReviewed
<1>12. CertainIsApproved'
  <2>1. ASSUME NEW l \in links, stamp(l).status \notin {"USER_APPROVED", "USER_REJECTED"}
        PROVE  stamp(l) = l
    BY <1>3, <2>1 DEF stamp
  <2>2. \A l \in links' : \E k \in links : l = stamp(k)
    BY <1>2
  <2>3. \A l \in links' : l.status \in {"AUTO_APPROVED", "PENDING_REVIEW"} => l \in links
    BY <2>1, <2>2
  <2>4. \A x, y : CertainPair(x, y)' = CertainPair(x, y)
    BY DEF CertainPair, Opposite
  <2> QED  BY <1>1, <2>3, <2>4 DEF CertainIsApproved
<1>13. \A l \in links' : l.run \in 0..MaxRuns /\ l.src \in booked /\ l.tgt \in booked
  <2>1. \A l \in links' : \E k \in links : l = stamp(k)
    BY <1>2
  <2> QED  BY <1>1, <1>3, <2>1
<1> QED  BY <1>5, <1>6, <1>9, <1>10, <1>11, <1>12, <1>13

LEMMA DecidedTypes ==
  ASSUME IInv, LinkRows', \A l \in links' : l.run \in 0..MaxRuns /\ l.src \in booked /\ l.tgt \in booked,
         book' = book, booked' = booked, run' = run, runs' = runs, status' \in [Txns -> Statuses]
  PROVE  LinkTypeOK'
<1>1. LinkTypeOK
  BY DEF IInv
<1>2. \A l \in links' : l.type \in Types /\ l.by \in {"linking", "storing", "MANUAL"}
           /\ l.status \in {"AUTO_APPROVED", "PENDING_REVIEW", "USER_APPROVED", "USER_REJECTED"}
  BY DEF LinkRows, LinkRecords
<1> QED  BY <1>1, <1>2 DEF LinkTypeOK, Statuses

LEMMA UnlinkStep ==
  ASSUME IInv, NEW S \in SUBSET links, Unlink(S)
  PROVE  IInv'
<1>1. /\ links' = Stamped(S, "USER_REJECTED")
      /\ status' = Resync(status, links', UNION {Pair(l) : l \in S})
      /\ book' = book /\ booked' = booked /\ run' = run /\ runs' = runs
  BY DEF Unlink, Verb
<1>2. /\ LinkRows' /\ Steps' /\ Asked' /\ Due' /\ Caps'
      /\ OneLinkEach' /\ MismatchIsReviewed' /\ CertainIsApproved'
      /\ \A l \in links' : l.run \in 0..MaxRuns /\ l.src \in booked /\ l.tgt \in booked
  BY <1>1, Decided
<1>3. LinkTypeOK /\ LinkedHasALink
  BY DEF IInv
<1> DEFINE rows == UNION {Pair(l) : l \in S}
<1>4. ASSUME NEW t \in Txns
      PROVE  status'[t] \in Statuses
             /\ (status'[t] = "LINKED" => Explained(t, links') \/ (t \notin rows /\ status[t] = "LINKED"))
  <2>1. status'[t] = CASE t \in rows /\ status[t] = "IGNORED" /\ Explained(t, links') -> "LINKED"
                       [] t \in rows /\ status[t] \in {"LINKED", "UNMATCHED"} ->
                            IF Explained(t, links') THEN "LINKED" ELSE "UNMATCHED"
                       [] OTHER -> status[t]
    BY <1>1 DEF Resync
  <2>2. status[t] \in Statuses
    BY <1>3 DEF LinkTypeOK, Statuses
  <2>3. CASE t \in rows /\ status[t] = "IGNORED" /\ Explained(t, links')
    <3>1. status'[t] = "LINKED"
      BY <2>1, <2>3
    <3> QED  BY <2>3, <3>1 DEF Statuses
  <2>4. CASE t \in rows /\ status[t] \in {"LINKED", "UNMATCHED"}
    <3>1. status'[t] = IF Explained(t, links') THEN "LINKED" ELSE "UNMATCHED"
      BY <2>1, <2>4
    <3> QED  BY <3>1 DEF Statuses
  <2>5. CASE /\ ~ (t \in rows /\ status[t] = "IGNORED" /\ Explained(t, links'))
             /\ ~ (t \in rows /\ status[t] \in {"LINKED", "UNMATCHED"})
    <3>1. status'[t] = status[t]
      BY <2>1, <2>5
    <3> QED  BY <2>2, <2>5, <3>1
  <2> QED  BY <2>3, <2>4, <2>5
<1>5. status' \in [Txns -> Statuses]
  <2>1. status' = [t \in Txns |-> status'[t]]
    BY <1>1 DEF Resync
  <2> QED  BY <1>4, <2>1
<1>6. LinkTypeOK'
  BY <1>1, <1>2, <1>5, DecidedTypes
<1>7. LinkedHasALink'
  <2>1. SUFFICES ASSUME NEW t \in Txns, status'[t] = "LINKED"  PROVE Explained(t, links')
    BY DEF LinkedHasALink, Explained, Pair
  <2>2. CASE t \notin rows /\ status[t] = "LINKED"
    <3>1. PICK l \in links : t \in Pair(l) /\ l.status # "USER_REJECTED"
      BY <1>3, <2>2 DEF LinkedHasALink, Explained
    <3>2. l \notin S
      BY <2>2, <3>1
    <3>3. l \in links'
      BY <1>1, <3>2 DEF Stamped
    <3> QED  BY <3>1, <3>3 DEF Explained
  <2> QED  BY <1>4, <2>1, <2>2
<1> QED  BY <1>2, <1>6, <1>7 DEF IInv

LEMMA ApproveStep ==
  ASSUME IInv, NEW l \in links, Approve(l)
  PROVE  IInv'
<1>1. /\ links' = Stamped({l}, "USER_APPROVED") /\ status' = status
      /\ book' = book /\ booked' = booked /\ run' = run /\ runs' = runs
  BY DEF Approve, Verb
<1>2. /\ LinkRows' /\ Steps' /\ Asked' /\ Due' /\ Caps'
      /\ OneLinkEach' /\ MismatchIsReviewed' /\ CertainIsApproved'
      /\ \A k \in links' : k.run \in 0..MaxRuns /\ k.src \in booked /\ k.tgt \in booked
  BY <1>1, Decided
<1>3. LinkTypeOK /\ LinkedHasALink /\ LinkRows
  BY DEF IInv
<1>4. LinkTypeOK'
  BY <1>1, <1>2, <1>3, DecidedTypes DEF LinkTypeOK, Statuses
<1>5. LinkedHasALink'
  <2>1. SUFFICES ASSUME NEW t \in Txns, status[t] = "LINKED"  PROVE Explained(t, links')
    BY <1>1 DEF LinkedHasALink, Explained, Pair
  <2>2. PICK k \in links : t \in Pair(k) /\ k.status # "USER_REJECTED"
    BY <1>3, <2>1 DEF LinkedHasALink, Explained
  <2>3. CASE k # l
    <3>1. k \in links'
      BY <1>1, <2>3 DEF Stamped
    <3> QED  BY <2>2, <3>1 DEF Explained
  <2>4. CASE k = l
    <3> DEFINE m == [l EXCEPT !.status = "USER_APPROVED"]
    <3>1. m \in links'
      BY <1>1 DEF Stamped
    <3>2. l \in LinkRecords
      BY <1>3 DEF LinkRows
    <3>3. m.src = l.src /\ m.tgt = l.tgt /\ m.status = "USER_APPROVED"
      BY <3>2 DEF LinkRecords
    <3>4. t \in Pair(m) /\ m.status # "USER_REJECTED"
      BY <2>2, <2>4, <3>3 DEF Pair
    <3> QED  BY <3>1, <3>4 DEF Explained
  <2> QED  BY <2>3, <2>4
<1> QED  BY <1>2, <1>4, <1>5 DEF IInv

LEMMA LinkByHandStep ==
  ASSUME IInv, NEW x \in Txns, NEW S \in SUBSET Txns, LinkByHand(x, S)
  PROVE  IInv' /\ \A l \in links' : l \in links \/ l.by = "MANUAL"
<1> DEFINE hand(t) == StoredAs([src |-> x, tgt |-> t, type |-> "OTHER", conf |-> 10000], "MANUAL")
           rows == {hand(t) : t \in S}
           f == [t \in S |-> hand(t)]
<1>1. /\ x \in booked /\ S \subseteq booked \ {x} /\ S # {}
      /\ links' = links \cup rows
      /\ status' = [t \in Txns |-> IF t \in UNION {Pair(l) : l \in rows} /\ status[t] \in {"UNMATCHED", "IGNORED"}
                                   THEN "LINKED" ELSE status[t]]
      /\ book' = book /\ booked' = booked /\ run' = run /\ runs' = runs
  BY DEF LinkByHand, Verb, Inserted
<1>2. LinkTypeOK /\ LinkedHasALink /\ LinkRows /\ OneLinkEach /\ MismatchIsReviewed /\ CertainIsApproved /\ runs \in Nat
  BY LinkingAssumption DEF IInv, LinkTypeOK
<1>3. IsFiniteSet(links) /\ Cardinality(links) \in Nat
  BY <1>2, FS_CardinalityType DEF LinkRows
<1>4. ASSUME NEW t \in S
      PROVE  /\ hand(t).src = x /\ hand(t).tgt = t /\ hand(t).type = "OTHER" /\ hand(t).by = "MANUAL"
             /\ hand(t).run = runs /\ hand(t).nth = Cardinality(links) /\ hand(t).status = "USER_APPROVED"
             /\ hand(t) \in LinkRecords /\ t # x
  BY <1>1, <1>2, <1>3 DEF StoredAs, LinkRecords, Types
<1> HIDE DEF hand
<1>5. \A l \in rows : \E t \in S : l = hand(t)
  OBVIOUS
<1>6. \A l \in links : l \in LinkRecords /\ l.nth < Cardinality(links) /\ l.nth \in Nat
  BY <1>2 DEF LinkRows, LinkRecords
<1>7. rows \cap links = {} /\ rows # {}
  <2>1. \A l \in rows : l.nth = Cardinality(links)
    BY <1>4, <1>5
  <2> HIDE DEF rows
  <2>2. rows \cap links = {}
    BY <1>3, <1>6, <2>1
  <2>3. rows # {}
    BY <1>1 DEF rows
  <2> QED  BY <2>2, <2>3
<1>8. IsFiniteSet(links') /\ Cardinality(links') \in Nat /\ Cardinality(links') > Cardinality(links)
  <2>1. IsFiniteSet(S)
    BY LinkingAssumption, FS_Subset
  <2>2. f \in Surjection(S, rows)
    BY DEF Surjection
  <2>3. IsFiniteSet(rows)
    <3> HIDE DEF rows, f
    <3> QED  BY <2>1, <2>2, FS_Surjection
  <2> HIDE DEF rows
  <2>4. IsFiniteSet(links')
    BY <1>1, <1>3, <2>3, FS_Union
  <2>5. links \in SUBSET links' /\ links # links'
    BY <1>1, <1>7
  <2>6. Cardinality(links) <= Cardinality(links') /\ Cardinality(links) # Cardinality(links')
        /\ Cardinality(links') \in Nat
    BY <2>4, <2>5, FS_Subset, FS_CardinalityType
  <2> QED  BY <1>3, <2>4, <2>6
<1>9. Undecided' = Undecided /\ Machine' = Machine
  <2>1. \A l \in rows : l.by = "MANUAL" /\ l.status = "USER_APPROVED"
    BY <1>4, <1>5
  <2> HIDE DEF rows
  <2> QED  BY <1>1, <2>1 DEF Undecided, Machine
<1>10. Steps' /\ Asked' /\ Due' /\ Caps'
  BY <1>1, <1>9, RunStands
<1>11. LinkRows'
  <2>1. ASSUME NEW l \in links'
        PROVE  /\ l \in LinkRecords /\ l.src # l.tgt /\ l.nth < Cardinality(links')
               /\ l.by = "MANUAL" => l.status \in {"USER_APPROVED", "USER_REJECTED"}
               /\ l.by # "MANUAL" => l.run <= runs'
    <3>1. CASE l \in links
      <4>1. l.nth < Cardinality(links')
        BY <1>3, <1>6, <1>8, <3>1
      <4> QED  BY <1>1, <1>2, <3>1, <4>1 DEF LinkRows
    <3>2. CASE l \in rows
      <4>1. PICK t \in S : l = hand(t)
        BY <1>5, <3>2
      <4> QED  BY <1>4, <1>8, <4>1
    <3> QED  BY <1>1, <3>1, <3>2
  <2>2. ASSUME NEW k \in links', NEW l \in links', k.nth = l.nth, k.tgt = l.tgt  PROVE k = l
    <3>1. \A m \in rows : m.nth = Cardinality(links) /\ m = hand(m.tgt)
      BY <1>4, <1>5
    <3> HIDE DEF rows
    <3>2. CASE k \in links /\ l \in links
      BY <1>2, <2>2, <3>2 DEF LinkRows
    <3>3. CASE k \in rows /\ l \in rows
      BY <2>2, <3>1, <3>3
    <3>4. CASE (k \in rows /\ l \in links) \/ (k \in links /\ l \in rows)
      BY <1>3, <1>6, <2>2, <3>1, <3>4
    <3> QED  BY <1>1, <3>2, <3>3, <3>4
  <2> QED  BY <1>8, <2>1, <2>2 DEF LinkRows
<1>12. \A l \in links' : l \in links \/ l.by = "MANUAL"
  BY <1>1, <1>4, <1>5
<1>13. OneLinkEach'
  BY <1>2, <1>9 DEF OneLinkEach, Pair
<1>14. MismatchIsReviewed'
  BY <1>1, <1>2, <1>12 DEF MismatchIsReviewed
<1>15. CertainIsApproved'
  <2>1. \A a, b : CertainPair(a, b)' = CertainPair(a, b)
    BY <1>1 DEF CertainPair, Opposite
  <2> QED  BY <1>2, <1>12, <2>1 DEF CertainIsApproved
<1>16. LinkedHasALink'
  <2>1. SUFFICES ASSUME NEW t \in Txns, status'[t] = "LINKED"  PROVE Explained(t, links')
    BY DEF LinkedHasALink, Explained, Pair
  <2>2. CASE t \in UNION {Pair(l) : l \in rows}
    <3>1. PICK l \in rows : t \in Pair(l)
      BY <2>2
    <3>2. l.status = "USER_APPROVED"
      BY <1>4, <1>5
    <3> QED  BY <1>1, <3>1, <3>2 DEF Explained
  <2>3. CASE t \notin UNION {Pair(l) : l \in rows}
    <3>1. status[t] = "LINKED"
      BY <1>1, <2>1, <2>3
    <3> HIDE DEF rows
    <3> QED  BY <1>1, <1>2, <3>1 DEF LinkedHasALink, Explained
  <2> QED  BY <2>2, <2>3
<1>17. LinkTypeOK'
  <2>1. status' \in [Txns -> Statuses]
    <3> HIDE DEF rows
    <3> QED  BY <1>1, <1>2 DEF LinkTypeOK, Statuses
  <2>2. ASSUME NEW l \in links'  PROVE l.run \in 0..MaxRuns /\ l.src \in booked /\ l.tgt \in booked
    <3>1. CASE l \in links
      BY <1>2, <3>1 DEF LinkTypeOK
    <3>2. CASE l \in rows
      <4>1. PICK t \in S : l = hand(t)
        BY <1>5, <3>2
      <4>2. l.run = runs /\ l.src = x /\ l.tgt = t
        BY <1>4, <4>1
      <4> QED  BY <1>1, <1>2, <4>2 DEF LinkTypeOK
    <3> QED  BY <1>1, <3>1, <3>2
  <2> QED  BY <1>1, <1>11, <2>1, <2>2, DecidedTypes
<1> QED  BY <1>10, <1>11, <1>12, <1>13, <1>14, <1>15, <1>16, <1>17 DEF IInv

(* The invariant is inductive.                                             *)
LEMMA StepIInv == IInv /\ [LinkNext]_linking => IInv'
<1> SUFFICES ASSUME IInv, [LinkNext]_linking  PROVE IInv'
  OBVIOUS
<1>1. ASSUME NEW t \in Txns, Arrive(t) \/ Proved(t)  PROVE IInv'
  BY <1>1, ArriveStep, ProvedStep
<1>2. ASSUME Begin \/ StoreLink \/ SetAside(TRUE) \/ SetAside(FALSE) \/ Ask \/ Assign \/ Finish  PROVE IInv'
  BY <1>2, BeginStep, StoreLinkStep, SetAsideStep, AskStep, AssignStep, FinishStep
<1>3. ASSUME NEW i \in DOMAIN run.replies, Answer(i)  PROVE IInv'
  BY <1>3, AnswerStep
<1>4. ASSUME NEW l \in Live, Unlink({l}) \/ Unlink({k \in Live : FansOut(k.type) /\ k.src = l.src /\ k.run = l.run})
      PROVE  IInv'
  <2>1. {l} \in SUBSET links /\ {k \in Live : FansOut(k.type) /\ k.src = l.src /\ k.run = l.run} \in SUBSET links
    BY DEF Live
  <2> QED  BY <1>4, <2>1, UnlinkStep
<1>5. ASSUME NEW l \in links, Approve(l)  PROVE IInv'
  BY <1>5, ApproveStep
<1>6. ASSUME NEW x \in Txns, NEW S \in SUBSET Txns, LinkByHand(x, S)  PROVE IInv'
  BY <1>6, LinkByHandStep
<1>7. CASE UNCHANGED linking
  <2>1. book' = book /\ booked' = booked /\ links' = links /\ run' = run /\ runs' = runs /\ status' = status
    BY <1>7 DEF linking
  <2>2. runs \in Nat
    BY LinkingAssumption DEF IInv, LinkTypeOK
  <2>3. LinkRows' /\ OneLinkEach' /\ MismatchIsReviewed' /\ CertainIsApproved' /\ Undecided' = Undecided
        /\ Machine' = Machine
    BY <2>1, <2>2, LinksStand
  <2>4. Steps' /\ Asked' /\ Due' /\ Caps'
    BY <2>1, <2>3, RunStands
  <2>5. LinkTypeOK' /\ LinkedHasALink'
    BY <2>1 DEF IInv, LinkTypeOK, LinkedHasALink, Explained, Pair
  <2> QED  BY <2>3, <2>4, <2>5 DEF IInv
<1> QED  BY <1>1, <1>2, <1>3, <1>4, <1>5, <1>6, <1>7 DEF LinkNext

-----------------------------------------------------------------------------
(* What the models' pass stores was put to a model, and only pairs that    *)
(* join are.                                                               *)
Near ==
  /\ \A i \in DOMAIN run.batches : \A k \in DOMAIN run.batches[i] :
       Opposite(run.batches[i][k][1], run.batches[i][k][2]) /\ Plausible(run.batches[i][k][1], run.batches[i][k][2])
  /\ run.at = "storing" => \A e \in Todo : Joins(e.src, e.tgt)
  /\ AnswersArePlausible

(* Which of the two rows comes first makes no difference to the amounts.   *)
LEMMA PlausibleEitherWay ==
  ASSUME book \in Books, NEW x \in Txns, NEW y \in Txns, Plausible(x, y)
  PROVE  Plausible(y, x)
<1>1. book[x].day \in Nat /\ book[y].day \in Nat /\ book[x].cents \in Nat /\ book[y].cents \in Nat
  BY RowOf
<1>2. \A a, b \in Nat : Gap(a, b) = Gap(b, a) /\ Larger(a, b) = Larger(b, a) /\ Smaller(a, b) = Smaller(b, a)
  BY DEF Gap, Larger, Smaller
<1>3. /\ Gap(book[x].day, book[y].day) = Gap(book[y].day, book[x].day)
      /\ Gap(book[x].cents, book[y].cents) = Gap(book[y].cents, book[x].cents)
      /\ Larger(book[x].cents, book[y].cents) = Larger(book[y].cents, book[x].cents)
      /\ Smaller(book[x].cents, book[y].cents) = Smaller(book[y].cents, book[x].cents)
  BY <1>1, <1>2
<1> QED  BY <1>3 DEF Plausible

(* A pair put to a model joins, from the row the money left.               *)
LEMMA ShownJoins ==
  ASSUME IInv, Near, NEW i \in DOMAIN run.batches, NEW k \in DOMAIN run.batches[i]
  PROVE  Joins(Joined(i, k).src, Joined(i, k).tgt)
<1> DEFINE x == run.batches[i][k][1]
           y == run.batches[i][k][2]
<1>1. book \in Books /\ x \in Txns /\ y \in Txns
  <2>1. run.batches \in Seq(Seq(Txns \X Txns))
    BY DEF IInv, Steps
  <2>2. run.batches[i] \in Seq(Txns \X Txns)
    BY <2>1
  <2>3. run.batches[i][k] \in Txns \X Txns
    BY <2>2
  <2> QED  BY <2>3 DEF IInv, LinkTypeOK
<1>2. Opposite(x, y) /\ Plausible(x, y)
  BY DEF Near
<1>3. book[x].debit \in BOOLEAN /\ book[y].debit \in BOOLEAN
  BY <1>1, RowOf
<1>4. Plausible(y, x)
  BY <1>1, <1>2, PlausibleEitherWay
<1>5. Joined(i, k).src = IF book[x].debit THEN x ELSE y
  BY DEF Joined
<1>6. Joined(i, k).tgt = IF book[x].debit THEN y ELSE x
  BY DEF Joined
<1> HIDE DEF x, y
<1>7. CASE book[x].debit
  BY <1>2, <1>3, <1>5, <1>6, <1>7 DEF Joins, Opposite
<1>8. CASE ~ book[x].debit
  BY <1>2, <1>3, <1>4, <1>5, <1>6, <1>8 DEF Joins, Opposite
<1> QED  BY <1>7, <1>8

LEMMA HeardJoins ==
  ASSUME IInv, Near, run.at = "asking", \A i \in DOMAIN run.replies : run.replies[i] # <<"open">>
  PROVE  \A c \in UNION {Heard(i) : i \in DOMAIN run.replies} : Joins(c.src, c.tgt)
<1>1. SUFFICES ASSUME NEW i \in DOMAIN run.replies, NEW c \in Heard(i)
               PROVE  Joins(c.src, c.tgt)
  OBVIOUS
<1>2. i \in DOMAIN run.batches
  BY DEF IInv, Steps
<1>3. PICK k \in DOMAIN run.batches[i] : c = Joined(i, k)
  BY DEF Heard, Joined
<1> QED  BY <1>2, <1>3, ShownJoins

(* The pass puts to the models only pairs that are plausible.              *)
LEMMA AskNear ==
  ASSUME IInv, Near, Ask
  PROVE  Near'
<1> DEFINE ranked == Ranked(Askable)
           batches == Batched(SubSeq(ranked, 1, Smaller(MaxPairs, Len(ranked))))
<1>1. /\ run' = [run EXCEPT !.at = "asking", !.batches = batches, !.replies = [i \in DOMAIN batches |-> <<"open">>]]
      /\ book' = book /\ links' = links
  BY DEF Ask
<1>2. batches \in Seq(Seq(Askable))
  BY ShownAreAskable
<1> HIDE DEF batches
<1>3. run'.at = "asking" /\ run'.batches = batches
  BY <1>1 DEF IInv, Steps
<1>4. \A i \in DOMAIN batches : \A k \in DOMAIN batches[i] : batches[i][k] \in Askable
  <2>1. \A i \in DOMAIN batches : batches[i] \in Seq(Askable)
    BY <1>2
  <2> QED  BY <2>1
<1>5. \A p \in Askable : Opposite(p[1], p[2]) /\ Plausible(p[1], p[2])
  BY DEF Askable, Pairs
<1>6. \A x, y : (Opposite(x, y) => Opposite(x, y)') /\ (Plausible(x, y) => Plausible(x, y)') /\ (Joins(x, y) => Joins(x, y)')
  BY <1>1 DEF Opposite, Plausible, Joins
<1>7. AnswersArePlausible'
  BY <1>1, <1>6 DEF Near, AnswersArePlausible
<1>8. \A i \in DOMAIN run'.batches : \A k \in DOMAIN run'.batches[i] :
        (Opposite(run.batches[i][k][1], run.batches[i][k][2]) /\ Plausible(run.batches[i][k][1], run.batches[i][k][2]))'
  BY <1>3, <1>4, <1>5, <1>6
<1> QED  BY <1>3, <1>7, <1>8 DEF Near

(* What it then stores is on a pair it asked about.                        *)
LEMMA AssignNear ==
  ASSUME IInv, Near, Assign
  PROVE  Near'
<1> DEFINE all == UNION {Heard(i) : i \in DOMAIN run.replies}
           heard == {c \in all : c.conf >= 95 * 55}
<1>1. /\ run.at = "asking" /\ \A i \in DOMAIN run.replies : run.replies[i] # <<"open">>
      /\ run' = [run EXCEPT !.at = "storing", !.todo = Greedy(Best(heard)), !.batches = <<>>, !.replies = <<>>]
      /\ book' = book /\ booked' = booked /\ links' = links
  BY DEF Assign
<1>2. /\ all \in SUBSET Cands /\ IsFiniteSet(all) /\ (\A c, d \in all : c.at = d.at => c = d)
      /\ \A c \in all : Unspent(c.src, c.tgt) /\ \A l \in Undecided : Pair(l) \cap {c.src, c.tgt} = {}
  BY <1>1, HeardFacts
<1>3. \A c \in all : Joins(c.src, c.tgt)
  BY <1>1, HeardJoins
<1> HIDE DEF all
<1>4. heard \in SUBSET all
  OBVIOUS
<1> HIDE DEF heard
<1>5. /\ heard \in SUBSET Cands /\ IsFiniteSet(heard) /\ (\A c, d \in heard : c.at = d.at => c = d)
      /\ \A c \in heard : Unspent(c.src, c.tgt) /\ \A l \in Undecided : Pair(l) \cap {c.src, c.tgt} = {}
  BY <1>2, <1>4, FS_Subset
<1>6. run'.at = "storing" /\ run'.todo = Greedy(Best(heard)) /\ run'.batches = <<>>
  BY <1>1 DEF IInv, Steps
<1>7. \A e \in Todo' : \E c \in heard : e = Projection(c)
  BY <1>1, <1>5, <1>6, Assigned
<1>8. \A e \in Todo' : Joins(e.src, e.tgt)
  BY <1>3, <1>4, <1>7 DEF Projection
<1>9. \A x, y : Joins(x, y) => Joins(x, y)'
  BY <1>1 DEF Plausible, Joins
<1>10. AnswersArePlausible'
  BY <1>1, <1>9 DEF Near, AnswersArePlausible
<1>11. DOMAIN run'.batches = {}
  BY <1>6
<1> QED  BY <1>8, <1>9, <1>10, <1>11 DEF Near

LEMMA StoreNear ==
  ASSUME IInv, Near, StoreLink
  PROVE  Near'
<1> DEFINE e == Head(run.todo)
<1>1. /\ run.todo # <<>> /\ run.todo \in Seq(Entries) /\ run.at \in {"linking", "storing"}
      /\ run'.at = run.at /\ run'.batches = run.batches /\ run'.todo = Tail(run.todo)
      /\ book' = book
  BY DEF StoreLink, IInv, Steps
<1>2. e \in Todo
  <2>1. e = run.todo[1] /\ 1 \in DOMAIN run.todo
    BY <1>1
  <2> QED  BY <2>1 DEF Todo
<1>3. links' = links \/ links' = links \cup {StoredAs(e, run.at)}
  BY DEF StoreLink, Inserted
<1>4. Todo' \subseteq Todo
  <2>1. \A i \in DOMAIN Tail(run.todo) : i + 1 \in DOMAIN run.todo /\ Tail(run.todo)[i] = run.todo[i + 1]
    BY <1>1
  <2> QED  BY <1>1, <2>1 DEF Todo
<1>5. \A x, y : (Opposite(x, y) => Opposite(x, y)') /\ (Plausible(x, y) => Plausible(x, y)') /\ (Joins(x, y) => Joins(x, y)')
  BY <1>1 DEF Opposite, Plausible, Joins
<1>6. ASSUME NEW l \in links', l.by = "storing"  PROVE Joins(l.src, l.tgt)
  <2>1. CASE l \in links
    BY <1>6, <2>1 DEF Near, AnswersArePlausible
  <2>2. CASE l \notin links
    <3>1. l = StoredAs(e, run.at)
      BY <1>3, <2>2
    <3> HIDE DEF e
    <3>2. l.src = e.src /\ l.tgt = e.tgt /\ l.by = run.at
      BY <3>1 DEF StoredAs
    <3> QED  BY <1>2, <1>6, <3>2 DEF Near
  <2> QED  BY <2>1, <2>2
<1>7. AnswersArePlausible'
  BY <1>5, <1>6 DEF AnswersArePlausible
<1>8. run'.at = "storing" => \A d \in Todo' : Joins(d.src, d.tgt)'
  BY <1>1, <1>4, <1>5 DEF Near
<1>9. \A i \in DOMAIN run'.batches : \A k \in DOMAIN run'.batches[i] :
        (Opposite(run.batches[i][k][1], run.batches[i][k][2]) /\ Plausible(run.batches[i][k][1], run.batches[i][k][2]))'
  BY <1>1, <1>5 DEF Near
<1> QED  BY <1>7, <1>8, <1>9 DEF Near

LEMMA StepNear ==
  ASSUME IInv, Near, [LinkNext]_linking
  PROVE  Near'
<1>1. book' = book
  <2>1. CASE UNCHANGED linking
    BY <2>1 DEF linking
  <2>2. CASE \E t \in Txns : Arrive(t) \/ Proved(t)
    BY <2>2 DEF Arrive, Proved
  <2>3. CASE Begin \/ StoreLink \/ SetAside(TRUE) \/ SetAside(FALSE) \/ Ask \/ Assign \/ Finish
    BY <2>3 DEF Begin, StoreLink, SetAside, Ask, Assign, Finish
  <2>4. CASE \E i \in DOMAIN run.replies : Answer(i)
    BY <2>4 DEF Answer
  <2>5. CASE \/ \E l \in Live : Unlink({l}) \/ Unlink({k \in Live : FansOut(k.type) /\ k.src = l.src /\ k.run = l.run})
             \/ \E l \in links : Approve(l)
             \/ \E x \in Txns, S \in SUBSET Txns : Cardinality(S) <= 2 /\ LinkByHand(x, S)
    BY <2>5 DEF Unlink, Approve, LinkByHand, Verb
  <2> QED  BY <2>1, <2>2, <2>3, <2>4, <2>5 DEF LinkNext
<1>2. \A x, y : (Opposite(x, y) => Opposite(x, y)') /\ (Plausible(x, y) => Plausible(x, y)') /\ (Joins(x, y) => Joins(x, y)')
  BY <1>1 DEF Opposite, Plausible, Joins
<1>3. ASSUME run'.batches = run.batches,
             run'.at = "storing" => run.at = "storing" /\ run'.todo = run.todo,
             \A l \in links' : l.by = "storing" => \E k \in links : k.by = "storing" /\ k.src = l.src /\ k.tgt = l.tgt
      PROVE  Near'
  <2>1. AnswersArePlausible'
    <3>1. \A l \in links' : l.by = "storing" => Joins(l.src, l.tgt)
      BY <1>3 DEF Near, AnswersArePlausible
    <3> QED  BY <1>2, <3>1 DEF AnswersArePlausible
  <2>2. run'.at = "storing" => \A e \in Todo' : Joins(e.src, e.tgt)'
    BY <1>2, <1>3 DEF Near, Todo
  <2>3. \A i \in DOMAIN run'.batches : \A k \in DOMAIN run'.batches[i] :
          (Opposite(run.batches[i][k][1], run.batches[i][k][2]) /\ Plausible(run.batches[i][k][1], run.batches[i][k][2]))'
    BY <1>2, <1>3 DEF Near
  <2> QED  BY <2>1, <2>2, <2>3 DEF Near
<1>4. ASSUME NEW S \in SUBSET links, NEW st, links' = Stamped(S, st), run' = run  PROVE Near'
  <2>1. ASSUME NEW l \in links', l.by = "storing"
        PROVE  \E k \in links : k.by = "storing" /\ k.src = l.src /\ k.tgt = l.tgt
    <3>1. CASE l \in links
      BY <2>1, <3>1
    <3>2. CASE l \notin links
      <4>1. PICK k \in S : l = [k EXCEPT !.status = st]
        BY <1>4, <3>2 DEF Stamped
      <4>2. k \in LinkRecords /\ k \in links
        BY <4>1 DEF IInv, LinkRows
      <4>3. l.src = k.src /\ l.tgt = k.tgt /\ l.by = k.by
        BY <4>1, <4>2 DEF LinkRecords
      <4> QED  BY <2>1, <4>2, <4>3
    <3> QED  BY <3>1, <3>2
  <2> QED  BY <1>3, <1>4, <2>1
<1>5. CASE UNCHANGED linking
  BY <1>3, <1>5 DEF linking
<1>6. ASSUME NEW t \in Txns, Arrive(t) \/ Proved(t)  PROVE Near'
  <2>1. links' = links /\ run' = run
    BY <1>6 DEF Arrive, Proved
  <2> QED  BY <1>3, <2>1
<1>7. ASSUME Begin  PROVE Near'
  <2>1. links' = links /\ run'.at = "linking" /\ run'.batches = <<>> /\ run.batches = <<>>
    BY <1>7 DEF Begin, Idle, IInv, Steps
  <2> QED  BY <1>3, <2>1
<1>8. ASSUME SetAside(TRUE) \/ SetAside(FALSE) \/ Finish  PROVE Near'
  <2>1. links' = links
    BY <1>8 DEF SetAside, Finish
  <2>2. run.at # "asking" /\ run.batches = <<>>
    BY <1>8 DEF SetAside, Finish, IInv, Steps
  <2>3. run'.at # "storing" /\ run'.batches = <<>>
    <3>1. run' = Idle \/ (run' = [run EXCEPT !.at = "matching"])
      BY <1>8 DEF SetAside, Finish
    <3> QED  BY <2>2, <3>1 DEF Idle, IInv, Steps
  <2> QED  BY <1>3, <2>1, <2>2, <2>3
<1>9. ASSUME NEW i \in DOMAIN run.replies, Answer(i)  PROVE Near'
  <2>1. links' = links /\ run'.at = run.at /\ run'.batches = run.batches /\ run.at = "asking"
    BY <1>9 DEF Answer, IInv, Steps
  <2> QED  BY <1>3, <2>1
<1>10. ASSUME NEW l \in Live, Unlink({l}) \/ Unlink({k \in Live : FansOut(k.type) /\ k.src = l.src /\ k.run = l.run})
       PROVE  Near'
  <2>1. {l} \in SUBSET links /\ {k \in Live : FansOut(k.type) /\ k.src = l.src /\ k.run = l.run} \in SUBSET links
    BY DEF Live
  <2>2. run' = run /\ \E S \in SUBSET links : links' = Stamped(S, "USER_REJECTED")
    BY <1>10, <2>1 DEF Unlink, Verb
  <2> QED  BY <1>4, <2>2
<1>11. ASSUME NEW l \in links, Approve(l)  PROVE Near'
  <2>1. run' = run /\ links' = Stamped({l}, "USER_APPROVED") /\ {l} \in SUBSET links
    BY <1>11 DEF Approve, Verb
  <2> QED  BY <1>4, <2>1
<1>12. ASSUME NEW x \in Txns, NEW S \in SUBSET Txns, LinkByHand(x, S)  PROVE Near'
  <2>1. \A l \in links' : l \in links \/ l.by = "MANUAL"
    BY <1>12, LinkByHandStep
  <2>2. run' = run
    BY <1>12 DEF LinkByHand, Verb
  <2>3. \A l \in links' : l.by = "storing" => l \in links
    BY <2>1
  <2> QED  BY <1>3, <2>2, <2>3
<1> QED  BY <1>5, <1>6, <1>7, <1>8, <1>9, <1>10, <1>11, <1>12, AskNear, AssignNear, StoreNear DEF LinkNext

(* And it implies that the links are sound.                                *)
LEMMA IInvSound == IInv /\ Near => LinksAreSound
<1> SUFFICES ASSUME IInv, Near  PROVE LinksAreSound
  OBVIOUS
<1>1. RefundsWithinCharge
  <2>1. SUFFICES ASSUME NEW t \in booked
                 PROVE  Total({l \in Undecided : l.src = t /\ l.type = "REFUND"
                                 /\ book[l.tgt].currency = book[t].currency}) <= book[t].cents + 1
    BY DEF RefundsWithinCharge, Total
  <2>2. t \in Txns /\ book \in Books
    BY DEF IInv, LinkTypeOK
  <2>3. {l \in Undecided : l.src = t /\ l.type = "REFUND" /\ book[l.tgt].currency = book[t].currency}
          = Legs(Undecided, t)
    BY DEF Legs, Capped, FansOut
  <2>4. Total(Legs(Undecided, t)) + Total(Legs(Todo, t)) <= book[t].cents + 1
    BY <2>2 DEF IInv, Caps
  <2>5. /\ IsFiniteSet(Legs(Undecided, t)) /\ IsFiniteSet(Legs(Todo, t))
        /\ (\A l \in Legs(Undecided, t) : l.tgt \in Txns) /\ \A l \in Legs(Todo, t) : l.tgt \in Txns
    BY LegsFacts
  <2>6. Total(Legs(Undecided, t)) \in Nat /\ Total(Legs(Todo, t)) \in Nat /\ book[t].cents \in Nat
    BY <2>2, <2>5, TotalOf, RowOf
  <2>7. Total(Legs(Undecided, t)) <= book[t].cents + 1
    BY <2>4, <2>6
  <2> QED  BY <2>3, <2>7
<1> QED  BY <1>1 DEF IInv, Near, LinksAreSound

-----------------------------------------------------------------------------
(* What the runs link is sound, for any rows and any number of runs: of    *)
(* the links nobody decided on, no row is in two but for the refunds of    *)
(* one charge, which stay within it; what the deterministic linker finds   *)
(* with amounts of one currency differing waits for the user, and what it  *)
(* finds certain does not; what a model's word links is near in date and   *)
(* amount; and a row that reads as linked is explained by a link.          *)
THEOREM LinksAreSoundHolds == LinkSpec => []LinksAreSound
<1>1. LinkInit => IInv /\ Near
  <2>1. LinkInit => Near
    <3> SUFFICES ASSUME LinkInit  PROVE Near
      OBVIOUS
    <3>1. links = {} /\ run.at = "idle" /\ run.batches = <<>>
      BY DEF LinkInit, Idle
    <3> QED  BY <3>1 DEF Near, AnswersArePlausible
  <2> QED  BY <2>1, InitIInv
<1>2. (IInv /\ Near) /\ [LinkNext]_linking => (IInv /\ Near)'
  BY StepIInv, StepNear
<1>3. IInv /\ Near => LinksAreSound
  BY IInvSound
<1> QED  BY <1>1, <1>2, <1>3, PTL DEF LinkSpec

(* A link a run made and the user took back is never made again by a run,  *)
(* whatever was read before it was taken back.                             *)
THEOREM RefusedStaysUnlinkedHolds == LinkSpec => RefusedStaysUnlinked
<1> DEFINE Stays == \A l \in links' : l.nth >= Cardinality(links) /\ l.by # "MANUAL" =>
              ~ \E k \in links : k.by # "MANUAL" /\ k.status = "USER_REJECTED" /\ Pair(k) = Pair(l)
<1>1. LinkInit => IInv
  BY InitIInv
<1>2. IInv /\ [LinkNext]_linking => IInv'
  BY StepIInv
<1>3. IInv /\ [LinkNext]_linking => [Stays]_linking
  <2> SUFFICES ASSUME IInv, LinkNext  PROVE Stays
    OBVIOUS
  <2>1. Cardinality(links) \in Nat /\ \A l \in links : l.nth \in Nat /\ l.nth < Cardinality(links)
    BY FS_CardinalityType DEF IInv, LinkRows, LinkRecords
  <2>2. ASSUME \A l \in links' : l \in links \/ l.by = "MANUAL"  PROVE Stays
    BY <2>1, <2>2
  <2>3. ASSUME NEW S \in SUBSET links, NEW st, links' = Stamped(S, st)  PROVE Stays
    <3>1. ASSUME NEW l \in links'  PROVE l.nth < Cardinality(links) /\ l.nth \in Nat
      <4>1. CASE l \in links
        BY <2>1, <4>1
      <4>2. CASE l \notin links
        <5>1. PICK k \in S : l = [k EXCEPT !.status = st]
          BY <2>3, <4>2 DEF Stamped
        <5>2. k \in LinkRecords /\ k \in links
          BY <5>1 DEF IInv, LinkRows
        <5>3. l.nth = k.nth
          BY <5>1, <5>2 DEF LinkRecords
        <5> QED  BY <2>1, <5>2, <5>3
      <4> QED  BY <4>1, <4>2
    <3> QED  BY <2>1, <3>1
  <2>4. ASSUME StoreLink  PROVE Stays
    <3> DEFINE e == Head(run.todo)
    <3>1. run.todo # <<>> /\ run.todo \in Seq(Entries) /\ Due
      BY <2>4 DEF StoreLink, IInv, Steps
    <3>2. e \in Todo
      <4>1. e = run.todo[1] /\ 1 \in DOMAIN run.todo
        BY <3>1
      <4> QED  BY <4>1 DEF Todo
    <3>3. links' = links \/ links' = links \cup {StoredAs(e, run.at)}
      BY <2>4 DEF StoreLink, Inserted
    <3>4. \A k \in Machine : Pair(k) # {e.src, e.tgt}
      BY <3>1, <3>2 DEF Due, Unspent
    <3>5. Pair(StoredAs(e, run.at)) = {e.src, e.tgt}
      BY DEF StoredAs, Pair
    <3>6. ASSUME NEW l \in links', l.nth >= Cardinality(links), l.by # "MANUAL"
          PROVE  \A k \in Machine : Pair(k) # Pair(l)
      <4>1. l \notin links
        BY <2>1, <3>6
      <4>2. l = StoredAs(e, run.at)
        BY <3>3, <3>6, <4>1
      <4> HIDE DEF e
      <4> QED  BY <3>4, <3>5, <4>2
    <3> HIDE DEF e
    <3> QED  BY <3>6 DEF Machine
  <2>5. CASE links' = links
    BY <2>2, <2>5
  <2>6. ASSUME NEW t \in Txns, Arrive(t) \/ Proved(t)  PROVE links' = links
    BY <2>6 DEF Arrive, Proved
  <2>7. ASSUME Begin \/ SetAside(TRUE) \/ SetAside(FALSE) \/ Ask \/ Assign \/ Finish  PROVE links' = links
    BY <2>7 DEF Begin, SetAside, Ask, Assign, Finish
  <2>8. ASSUME NEW i \in DOMAIN run.replies, Answer(i)  PROVE links' = links
    BY <2>8 DEF Answer
  <2>9. ASSUME NEW l \in Live, Unlink({l}) \/ Unlink({k \in Live : FansOut(k.type) /\ k.src = l.src /\ k.run = l.run})
        PROVE  \E S \in SUBSET links : links' = Stamped(S, "USER_REJECTED")
    <3>1. {l} \in SUBSET links /\ {k \in Live : FansOut(k.type) /\ k.src = l.src /\ k.run = l.run} \in SUBSET links
      BY DEF Live
    <3> QED  BY <2>9, <3>1 DEF Unlink
  <2>10. ASSUME NEW l \in links, Approve(l)  PROVE links' = Stamped({l}, "USER_APPROVED") /\ {l} \in SUBSET links
    BY <2>10 DEF Approve
  <2>11. ASSUME NEW x \in Txns, NEW S \in SUBSET Txns, LinkByHand(x, S)
         PROVE  \A l \in links' : l \in links \/ l.by = "MANUAL"
    BY <2>11, LinkByHandStep
  <2> HIDE DEF Stays
  <2>12. CASE \E t \in Txns : Arrive(t) \/ Proved(t)
    BY <2>5, <2>6, <2>12
  <2>13. CASE Begin \/ SetAside(TRUE) \/ SetAside(FALSE) \/ Ask \/ Assign \/ Finish
    BY <2>5, <2>7, <2>13
  <2>14. CASE \E i \in DOMAIN run.replies : Answer(i)
    BY <2>5, <2>8, <2>14
  <2>15. CASE \E l \in Live : Unlink({l}) \/ Unlink({k \in Live : FansOut(k.type) /\ k.src = l.src /\ k.run = l.run})
    BY <2>3, <2>9, <2>15
  <2>16. CASE \E l \in links : Approve(l)
    BY <2>3, <2>10, <2>16
  <2>17. CASE \E x \in Txns, S \in SUBSET Txns : Cardinality(S) <= 2 /\ LinkByHand(x, S)
    BY <2>2, <2>11, <2>17
  <2> QED  BY <2>4, <2>12, <2>13, <2>14, <2>15, <2>16, <2>17 DEF LinkNext
<1> QED  BY <1>1, <1>2, <1>3, PTL DEF LinkSpec, RefusedStaysUnlinked

(* A run that begins takes up every certain pair with both legs free: one  *)
(* of its legs at least is on the list it stores, whatever else the list   *)
(* holds.                                                                  *)
THEOREM LegsFindEachOtherHolds == LinkSpec => LegsFindEachOther
<1> DEFINE Finds == run.at = "idle" /\ run'.at = "linking" =>
       \A x, y \in booked :
          CertainPair(x, y) /\ {x, y} \notin Refused /\ {x, y} \cap LinkedRows = {}
          /\ {status[x], status[y]} \subseteq {"UNMATCHED", "IGNORED"}
            => {x, y} \cap UNION {Pair(run'.todo[i]) : i \in DOMAIN run'.todo} # {}
<1>1. LinkInit => IInv
  BY InitIInv
<1>2. IInv /\ [LinkNext]_linking => IInv'
  BY StepIInv
<1>3. IInv /\ [LinkNext]_linking => [Finds]_linking
  <2> SUFFICES ASSUME IInv, LinkNext, run.at = "idle", run'.at = "linking", NEW x \in booked, NEW y \in booked,
                      CertainPair(x, y), {x, y} \notin Refused, {x, y} \cap LinkedRows = {},
                      {status[x], status[y]} \subseteq {"UNMATCHED", "IGNORED"}
               PROVE  {x, y} \cap UNION {Pair(run'.todo[i]) : i \in DOMAIN run'.todo} # {}
    OBVIOUS
  <2>1. Begin
    <3>1. run' # run
      OBVIOUS
    <3>2. \A t \in Txns : ~ Arrive(t) /\ ~ Proved(t)
      BY <3>1 DEF Arrive, Proved
    <3>3. ~ StoreLink /\ ~ SetAside(TRUE) /\ ~ SetAside(FALSE) /\ ~ Ask /\ ~ Assign /\ ~ Finish
      BY DEF StoreLink, SetAside, Ask, Assign, Finish
    <3>4. \A i \in DOMAIN run.replies : ~ Answer(i)
      BY DEF Answer
    <3>5. \A S : ~ Unlink(S)
      BY <3>1 DEF Unlink, Verb
    <3>6. \A l \in links : ~ Approve(l)
      BY <3>1 DEF Approve, Verb
    <3>7. \A u, S : ~ LinkByHand(u, S)
      BY <3>1 DEF LinkByHand, Verb
    <3> QED  BY <3>2, <3>3, <3>4, <3>5, <3>6, <3>7 DEF LinkNext
  <2>2. x \in Txns /\ y \in Txns /\ book \in Books
    BY DEF IInv, LinkTypeOK
  <2> DEFINE c == TheCandidate(x, y)
  <2>3. c \in Candidate(x, y) /\ ~ FansOut(Type(x, y)) /\ book[x].words # {} /\ book[y].words # {}
    BY <2>2, CertainIsCandidate
  <2>4. Opposite(x, y)
    BY DEF CertainPair
  <2>5. {c.src, c.tgt} = {x, y} /\ c.type = Type(x, y)
    BY <2>2, <2>3, <2>4, CandidateFacts
  <2>6. c \in Found
    <3>1. x \in Transferable /\ y \in Transferable
      BY <2>3 DEF Transferable, Pool
    <3>2. <<x, y>> \in Pairs(Transferable)
      BY <2>4, <3>1 DEF Pairs
    <3> QED  BY <2>3, <3>2 DEF Found
  <2>7. run'.todo = Greedy(Best(Found)) /\ book' = book /\ booked' = booked /\ links' = links
    BY <2>1 DEF Begin, Found, Idle
  <2>8. \A d \in Found : ~ FansOut(d.type) => Pair(d) \cap UNION {Pair(e) : e \in Todo'} # {}
    BY <2>7, FoundFacts, Assigned
  <2> HIDE DEF c
  <2>9. Pair(c) \cap UNION {Pair(e) : e \in Todo'} # {}
    BY <2>3, <2>5, <2>6, <2>8
  <2>10. UNION {Pair(e) : e \in Todo'} = UNION {Pair(run'.todo[i]) : i \in DOMAIN run'.todo}
    BY DEF Todo
  <2> QED  BY <2>5, <2>9, <2>10 DEF Pair
<1> QED  BY <1>1, <1>2, <1>3, PTL DEF LinkSpec, LegsFindEachOther
=============================================================================
