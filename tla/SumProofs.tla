-------------------------------- MODULE SumProofs --------------------------------
(***************************************************************************)
(* Sums over finite sets.  MapThenSumSet is defined by recursion over the  *)
(* subsets of its set; the lemmas here derive from that what the proofs    *)
(* about quantities and prices need: a sum exists, is a number, can be     *)
(* taken in any order, and adds up over disjoint sets, over the parts of a *)
(* set, and by rows as by columns.  The induction is by a smallest         *)
(* counterexample.                                                         *)
(*                                                                         *)
(* What is summed is a function w on the members.  A sum that is written   *)
(* with a LAMBDA is Total of the function with the same values.            *)
(***************************************************************************)
EXTENDS Integers, FiniteSets, FiniteSetTheorems, TLAPS

Pick(s) == CHOOSE x \in s : TRUE

\* f adds up w over every subset of S.
Adds(w, f, S) ==
  f = [s \in SUBSET S |->
         IF s = {} THEN 0 ELSE w[Pick(s)] + f[s \ {Pick(s)}]]

\* What AddsEqual and AddsStep say of such a function.
Equal(f, g, T) == \A s \in SUBSET T : f[s] = g[s]
Numbers(w, S) == \A m \in S : w[m] \in Int
TakesAny(w, f, S) ==
  \A s \in SUBSET S : f[s] \in Int /\ \A x \in s : f[s] = w[x] + f[s \ {x}]

\* The sum of w over S.
Total(w, S) == (CHOOSE f : Adds(w, f, S))[S]

LEMMA PickIn == \A s : s # {} => Pick(s) \in s
BY DEF Pick

\* Induction on the subsets of a finite set: G is all of them when a subset is in G as
\* soon as its proper subsets are.
LEMMA SubsetInduction ==
  ASSUME NEW S, IsFiniteSet(S), NEW G,
         \A T \in SUBSET S : (\A U \in SUBSET T : U # T => U \in G) => T \in G
  PROVE  \A T \in SUBSET S : T \in G
<1> DEFINE bad == {T \in SUBSET S : T \notin G}
<1>1. SUFFICES ASSUME bad # {} PROVE FALSE
  OBVIOUS
<1>2. IsWellFoundedOn(StrictSubsetOrdering(S), FiniteSubsetsOf(S)) /\ bad \subseteq FiniteSubsetsOf(S)
  BY FS_StrictSubsetOrderingWellFounded, FS_FiniteSubsetsOfFinite
<1>3. PICK T \in bad : \A U \in bad : ~(<<U, T>> \in StrictSubsetOrdering(S))
  <2> HIDE DEF bad
  <2> QED
    BY <1>1, <1>2, WFMin
<1>4. \A U \in SUBSET T : U # T => U \in G
  BY <1>3 DEF StrictSubsetOrdering
<1> QED
  BY <1>3, <1>4

LEMMA AddsEqual ==
  ASSUME NEW w, NEW S, IsFiniteSet(S), NEW T, T \subseteq S, NEW f, NEW g, Adds(w, f, S), Adds(w, g, T)
  PROVE  Equal(f, g, T)
<1> DEFINE G == {s \in SUBSET T : f[s] = g[s]}
<1>1. IsFiniteSet(T)
  BY FS_Subset
<1>2. ASSUME NEW s \in SUBSET T, \A u \in SUBSET s : u # s => u \in G PROVE s \in G
  <2>1. CASE s = {}
    BY <2>1 DEF Adds
  <2>2. CASE s # {}
    <3>1. Pick(s) \in s
      BY <2>2, PickIn
    <3>2. f[s \ {Pick(s)}] = g[s \ {Pick(s)}]
      BY <1>2, <3>1
    <3>3. f[s] = w[Pick(s)] + f[s \ {Pick(s)}] /\ g[s] = w[Pick(s)] + g[s \ {Pick(s)}]
      BY <2>2 DEF Adds
    <3> QED
      BY <3>2, <3>3
  <2> QED
    BY <2>1, <2>2
<1> HIDE DEF G
<1>3. \A s \in SUBSET T : s \in G
  BY <1>1, <1>2, SubsetInduction
<1> QED
  BY <1>3 DEF G, Equal

LEMMA AddsExists ==
  ASSUME NEW w, NEW S, IsFiniteSet(S)
  PROVE  \E f : Adds(w, f, S)
<1> DEFINE G == {s \in SUBSET S : \E f : Adds(w, f, s)}
<1>1. ASSUME NEW s \in SUBSET S, \A u \in SUBSET s : u # s => u \in G PROVE s \in G
  <2>1. CASE s = {}
    <3> DEFINE f == [u \in SUBSET {} |-> 0]
    <3>1. Adds(w, f, {})
      BY DEF Adds
    <3> QED
      BY <2>1, <3>1
  <2>2. CASE s # {}
    <3> DEFINE h(u) == CHOOSE f : Adds(w, f, u)
               g == [u \in SUBSET s |-> IF u = s THEN w[Pick(s)] + h(s \ {Pick(s)})[s \ {Pick(s)}]
                                                 ELSE h(u)[u]]
    <3>0. IsFiniteSet(s)
      BY FS_Subset
    <3>1. \A u \in SUBSET s : u # s => Adds(w, h(u), u)
      BY <1>1
    <3>2. ASSUME NEW u \in SUBSET s, u # s, u # {}
          PROVE  h(u)[u] = w[Pick(u)] + h(u \ {Pick(u)})[u \ {Pick(u)}]
      <4>0. Pick(u) \in u /\ u \ {Pick(u)} \in SUBSET u /\ u \ {Pick(u)} # s
        BY <3>2, PickIn
      <4>1. Adds(w, h(u), u) /\ Adds(w, h(u \ {Pick(u)}), u \ {Pick(u)}) /\ IsFiniteSet(u)
        <5> HIDE DEF h
        <5>1. IsFiniteSet(u)
          BY <3>0, FS_Subset
        <5>2. u \ {Pick(u)} \in SUBSET s
          BY <4>0
        <5> QED
          BY <3>1, <3>2, <4>0, <5>1, <5>2
      <4>2. h(u)[u] = w[Pick(u)] + h(u)[u \ {Pick(u)}]
        BY <3>2, <4>1 DEF Adds
      <4>3. h(u)[u \ {Pick(u)}] = h(u \ {Pick(u)})[u \ {Pick(u)}]
        <5> HIDE DEF h
        <5> QED
          BY <4>0, <4>1, AddsEqual DEF Equal
      <4> QED
        BY <4>2, <4>3
    <3>3. s # {} => h({})[{}] = 0
      BY <3>1, <2>2 DEF Adds
    <3> HIDE DEF h
    <3>4. \A u \in SUBSET s : g[u] = IF u = {} THEN 0 ELSE w[Pick(u)] + g[u \ {Pick(u)}]
      <4> SUFFICES ASSUME NEW u \in SUBSET s
                   PROVE  g[u] = IF u = {} THEN 0 ELSE w[Pick(u)] + g[u \ {Pick(u)}]
        OBVIOUS
      <4>1. CASE u = {}
        BY <2>2, <3>3, <4>1
      <4>2. CASE u # {}
        <5>1. Pick(u) \in u
          BY <4>2, PickIn
        <5>2. g[u \ {Pick(u)}] = h(u \ {Pick(u)})[u \ {Pick(u)}]
          BY <5>1
        <5> QED
          BY <3>2, <4>2, <5>2
      <4> QED
        BY <4>1, <4>2
    <3>5. Adds(w, g, s)
      <4> DEFINE k == [u \in SUBSET s |-> IF u = {} THEN 0 ELSE w[Pick(u)] + g[u \ {Pick(u)}]]
      <4>1. DOMAIN g = SUBSET s /\ DOMAIN k = SUBSET s /\ \A u \in SUBSET s : g[u] = k[u]
        BY <3>4
      <4>2. g = k
        <5>1. g = [u \in SUBSET s |-> g[u]] /\ k = [u \in SUBSET s |-> k[u]]
          OBVIOUS
        <5> HIDE DEF g, k
        <5> QED
          BY <4>1, <5>1
      <4> QED
        BY <4>2 DEF Adds
    <3> QED
      BY <3>5
  <2> QED
    BY <2>1, <2>2
<1> HIDE DEF G
<1>2. \A s \in SUBSET S : s \in G
  BY <1>1, SubsetInduction
<1> QED
  BY <1>2 DEF G

\* A sum is a number, and each member can be taken first.
LEMMA AddsStep ==
  ASSUME NEW w, NEW S, IsFiniteSet(S), Numbers(w, S), NEW f, Adds(w, f, S)
  PROVE  TakesAny(w, f, S)
<1> DEFINE G == {s \in SUBSET S : f[s] \in Int /\ \A x \in s : f[s] = w[x] + f[s \ {x}]}
<1>1. ASSUME NEW s \in SUBSET S, \A u \in SUBSET s : u # s => u \in G PROVE s \in G
  <2>1. CASE s = {}
    BY <2>1 DEF Adds
  <2>2. CASE s # {}
    <3> DEFINE c == Pick(s)
    <3>1. c \in s /\ w[c] \in Int /\ f[s] = w[c] + f[s \ {c}]
      BY <2>2, PickIn DEF Adds, Numbers
    <3>2. s \ {c} \in G
      BY <1>1, <3>1
    <3>3. f[s] \in Int
      BY <3>1, <3>2
    <3>4. ASSUME NEW x \in s, x # c PROVE f[s] = w[x] + f[s \ {x}]
      <4>1. x \in s \ {c} /\ c \in s \ {x} /\ s \ {x} \in G /\ w[x] \in Int
        BY <1>1, <3>1, <3>4 DEF Numbers
      <4>2. (s \ {c}) \ {x} \in G /\ (s \ {c}) \ {x} = (s \ {x}) \ {c}
        BY <1>1, <3>1
      <4>3. f[s \ {c}] = w[x] + f[(s \ {c}) \ {x}]
        BY <3>2, <4>1
      <4>4. f[s \ {x}] = w[c] + f[(s \ {c}) \ {x}]
        BY <4>1, <4>2
      <4>5. f[(s \ {c}) \ {x}] \in Int
        BY <4>2
      <4> QED
        BY <3>1, <4>1, <4>3, <4>4, <4>5
    <3> QED
      BY <3>1, <3>3, <3>4
  <2> QED
    BY <2>1, <2>2
<1> HIDE DEF G
<1>2. \A s \in SUBSET S : s \in G
  BY <1>1, SubsetInduction
<1> QED
  BY <1>2 DEF G, TakesAny

\* What a sum is: nothing is left to choose but which member is taken first.
LEMMA TotalAdds ==
  ASSUME NEW w, NEW S, IsFiniteSet(S), NEW f, Adds(w, f, S), NEW T \in SUBSET S
  PROVE  Total(w, T) = f[T]
<1> DEFINE g == CHOOSE h : Adds(w, h, T)
<1>1. IsFiniteSet(T)
  BY FS_Subset
<1>2. Adds(w, g, T)
  BY <1>1, AddsExists
<1>3. Total(w, T) = g[T]
  BY DEF Total
<1> HIDE DEF g
<1>4. Equal(f, g, T)
  BY <1>2, AddsEqual
<1> QED
  BY <1>3, <1>4 DEF Equal

\* The sum of nothing is zero; a sum is a number, and each member can be taken first.
LEMMA TotalStep ==
  ASSUME NEW w, NEW S, IsFiniteSet(S), Numbers(w, S)
  PROVE  /\ Total(w, {}) = 0
         /\ Total(w, S) \in Int
         /\ \A x \in S : Total(w, S) = w[x] + Total(w, S \ {x})
<1>1. PICK f : Adds(w, f, S)
  BY AddsExists
<1>2. \A T \in SUBSET S : Total(w, T) = f[T]
  BY <1>1, TotalAdds
<1>3. TakesAny(w, f, S)
  BY <1>1, AddsStep
<1>4. f[{}] = 0
  BY <1>1 DEF Adds
<1>5. \A x \in S : S \ {x} \in SUBSET S
  OBVIOUS
<1> QED
  BY <1>2, <1>3, <1>4, <1>5 DEF TakesAny

\* A member taken in adds itself; the sum over two disjoint sets is that of both.
LEMMA TotalUnion ==
  ASSUME NEW w, NEW S, IsFiniteSet(S), Numbers(w, S),
         NEW T, IsFiniteSet(T), Numbers(w, T), S \cap T = {}
  PROVE  Total(w, S \cup T) = Total(w, S) + Total(w, T)
<1> DEFINE G == {R \in SUBSET T : Total(w, S \cup R) = Total(w, S) + Total(w, R)}
<1>1. ASSUME NEW R \in SUBSET T, \A U \in SUBSET R : U # R => U \in G PROVE R \in G
  <2>0. Total(w, {}) = 0 /\ Total(w, S) \in Int
    BY TotalStep
  <2>1. CASE R = {}
    BY <2>0, <2>1
  <2>2. CASE R # {}
    <3>1. PICK x \in R : TRUE
      BY <2>2
    <3>2. IsFiniteSet(R) /\ IsFiniteSet(S \cup R) /\ IsFiniteSet(R \ {x})
      BY FS_Subset, FS_Union
    <3>3. Numbers(w, R) /\ Numbers(w, S \cup R) /\ Numbers(w, R \ {x}) /\ w[x] \in Int
      BY <3>1 DEF Numbers
    <3>4. (S \cup R) \ {x} = S \cup (R \ {x})
      BY <3>1
    <3>5. Total(w, S \cup R) = w[x] + Total(w, S \cup (R \ {x}))
      BY <3>1, <3>2, <3>3, <3>4, TotalStep
    <3>6. Total(w, R) = w[x] + Total(w, R \ {x})
      BY <3>1, <3>2, <3>3, TotalStep
    <3>7. Total(w, S \cup (R \ {x})) = Total(w, S) + Total(w, R \ {x})
      BY <1>1, <3>1
    <3>8. Total(w, R \ {x}) \in Int
      BY <3>1, <3>2, <3>3, TotalStep
    <3> QED
      BY <2>0, <3>3, <3>5, <3>6, <3>7, <3>8
  <2> QED
    BY <2>1, <2>2
<1> HIDE DEF G
<1>2. \A R \in SUBSET T : R \in G
  BY <1>1, SubsetInduction
<1> QED
  BY <1>2 DEF G

\* A sum depends on the values of the members only.
LEMMA TotalSame ==
  ASSUME NEW S, IsFiniteSet(S), NEW v, NEW w, \A m \in S : v[m] = w[m]
  PROVE  Total(v, S) = Total(w, S)
<1>1. PICK f : Adds(w, f, S)
  BY AddsExists
<1>2. Adds(v, f, S)
  <2>1. \A s \in SUBSET S : s # {} => v[Pick(s)] = w[Pick(s)]
    BY PickIn
  <2> QED
    BY <1>1, <2>1 DEF Adds
<1> QED
  BY <1>1, <1>2, TotalAdds

\* A sum of natural numbers is one.
LEMMA TotalNat ==
  ASSUME NEW w, NEW S, IsFiniteSet(S), \A m \in S : w[m] \in Nat
  PROVE  Total(w, S) \in Nat
<1> DEFINE G == {R \in SUBSET S : Total(w, R) \in Nat}
<1>1. ASSUME NEW R \in SUBSET S, \A U \in SUBSET R : U # R => U \in G PROVE R \in G
  <2>0. IsFiniteSet(R) /\ Numbers(w, R)
    BY FS_Subset DEF Numbers
  <2>1. CASE R = {}
    BY <2>0, <2>1, TotalStep
  <2>2. CASE R # {}
    <3>1. PICK x \in R : TRUE
      BY <2>2
    <3>2. Total(w, R) = w[x] + Total(w, R \ {x})
      BY <2>0, TotalStep
    <3>3. Total(w, R \ {x}) \in Nat /\ w[x] \in Nat
      BY <1>1, <3>1
    <3> QED
      BY <3>2, <3>3
  <2> QED
    BY <2>1, <2>2
<1> HIDE DEF G
<1>2. \A R \in SUBSET S : R \in G
  BY <1>1, SubsetInduction
<1> QED
  BY <1>2 DEF G

\* A part of natural numbers sums up to no more than the whole.
LEMMA TotalPart ==
  ASSUME NEW w, NEW S, IsFiniteSet(S), \A m \in S : w[m] \in Nat, NEW T \in SUBSET S
  PROVE  Total(w, T) <= Total(w, S)
<1>1. IsFiniteSet(T) /\ IsFiniteSet(S \ T)
  BY FS_Subset
<1>2. Numbers(w, T) /\ Numbers(w, S \ T) /\ T \cap (S \ T) = {} /\ T \cup (S \ T) = S
  BY DEF Numbers
<1>3. Total(w, S) = Total(w, T) + Total(w, S \ T)
  BY <1>1, <1>2, TotalUnion
<1>4. Total(w, T) \in Nat /\ Total(w, S \ T) \in Nat
  BY <1>1, TotalNat
<1> QED
  BY <1>3, <1>4

\* A sum is the sum of the sums over its parts.
LEMMA TotalParts ==
  ASSUME NEW J, IsFiniteSet(J), NEW F, NEW w, NEW S, IsFiniteSet(S), Numbers(w, S),
         S = UNION {F[j] : j \in J},
         \A i, j \in J : i # j => F[i] \cap F[j] = {},
         NEW g, \A j \in J : g[j] = Total(w, F[j])
  PROVE  Total(w, S) = Total(g, J)
<1> DEFINE All(K) == UNION {F[j] : j \in K}
           G == {K \in SUBSET J : Total(w, All(K)) = Total(g, K)}
<1>0. \A R \in SUBSET S : IsFiniteSet(R) /\ Numbers(w, R)
  BY FS_Subset DEF Numbers
<1>1. \A K \in SUBSET J : All(K) \subseteq S
  OBVIOUS
<1>2. \A j \in J : F[j] \subseteq S /\ g[j] \in Int
  BY <1>0, TotalStep
<1>3. ASSUME NEW K \in SUBSET J, \A L \in SUBSET K : L # K => L \in G PROVE K \in G
  <2>0. IsFiniteSet(K) /\ Numbers(g, K)
    BY <1>2, FS_Subset DEF Numbers
  <2>1. CASE K = {}
    <3>1. All(K) = {}
      BY <2>1
    <3>2. Total(w, {}) = 0 /\ Total(g, {}) = 0
      BY <2>0, TotalStep
    <3> HIDE DEF All
    <3> QED
      BY <2>1, <3>1, <3>2
  <2>2. CASE K # {}
    <3>1. PICK j \in K : TRUE
      BY <2>2
    <3> DEFINE L == K \ {j}
    <3>2. L \in SUBSET K /\ L # K
      BY <3>1
    <3>3. Total(w, All(L)) = Total(g, L)
      BY <1>3, <3>2
    <3>4. All(K) = All(L) \cup F[j] /\ All(L) \cap F[j] = {}
      BY <3>1
    <3>5. All(L) \in SUBSET S /\ F[j] \in SUBSET S
      BY <1>1, <1>2, <3>1
    <3>6. Total(g, K) = g[j] + Total(g, L)
      BY <2>0, <3>1, TotalStep
    <3>7. Total(w, All(L)) \in Int /\ g[j] = Total(w, F[j]) /\ g[j] \in Int
      BY <1>0, <1>2, <3>1, <3>5, TotalStep
    <3> HIDE DEF All, L
    <3>8. Total(w, All(K)) = Total(w, All(L)) + Total(w, F[j])
      <4>1. /\ IsFiniteSet(All(L)) /\ Numbers(w, All(L))
            /\ IsFiniteSet(F[j]) /\ Numbers(w, F[j])
        BY <1>0, <3>5
      <4> QED
        BY <3>4, <4>1, TotalUnion
    <3>9. Total(w, All(K)) = Total(g, K)
      BY <3>3, <3>6, <3>7, <3>8
    <3> QED
      BY <3>9
  <2> QED
    BY <2>1, <2>2
<1> HIDE DEF G
<1>4. \A K \in SUBSET J : K \in G
  BY <1>3, SubsetInduction
<1> QED
  BY <1>4 DEF G

\* The sum of two values at each member is the sum of two sums.
LEMMA TotalPlus ==
  ASSUME NEW S, IsFiniteSet(S), NEW a, Numbers(a, S), NEW b, Numbers(b, S),
         NEW c, \A m \in S : c[m] = a[m] + b[m]
  PROVE  Total(c, S) = Total(a, S) + Total(b, S)
<1> DEFINE G == {R \in SUBSET S : Total(c, R) = Total(a, R) + Total(b, R)}
<1>1. ASSUME NEW R \in SUBSET S, \A U \in SUBSET R : U # R => U \in G PROVE R \in G
  <2>0. IsFiniteSet(R) /\ Numbers(a, R) /\ Numbers(b, R) /\ Numbers(c, R)
    BY FS_Subset DEF Numbers
  <2>1. CASE R = {}
    BY <2>0, <2>1, TotalStep
  <2>2. CASE R # {}
    <3>1. PICK x \in R : TRUE
      BY <2>2
    <3>2. /\ Total(a, R) = a[x] + Total(a, R \ {x})
          /\ Total(b, R) = b[x] + Total(b, R \ {x})
          /\ Total(c, R) = c[x] + Total(c, R \ {x})
      BY <2>0, TotalStep
    <3>3. Total(c, R \ {x}) = Total(a, R \ {x}) + Total(b, R \ {x})
      BY <1>1, <3>1
    <3>4. IsFiniteSet(R \ {x}) /\ Numbers(a, R \ {x}) /\ Numbers(b, R \ {x})
      BY <2>0, FS_Subset DEF Numbers
    <3>5. Total(a, R \ {x}) \in Int /\ Total(b, R \ {x}) \in Int /\ a[x] \in Int /\ b[x] \in Int
      BY <3>1, <3>4, TotalStep, <2>0 DEF Numbers
    <3>6. Total(c, R) = Total(a, R) + Total(b, R)
      BY <3>1, <3>2, <3>3, <3>5
    <3> QED
      BY <3>6
  <2> QED
    BY <2>1, <2>2
<1> HIDE DEF G
<1>2. \A R \in SUBSET S : R \in G
  BY <1>1, SubsetInduction
<1> QED
  BY <1>2 DEF G

\* A table by rows with what each comes to, and by columns with what each comes to
ByRows(w, r, S, T) == \A s \in S : Numbers(w[s], T) /\ r[s] = Total(w[s], T)
ByColumns(w, v, c, S, T) ==
  \A t \in T : c[t] = Total(v[t], S) /\ \A s \in S : v[t][s] = w[s][t]

\* A table of numbers has the same sum by rows and by columns.
LEMMA TotalSwap ==
  ASSUME NEW S, IsFiniteSet(S), NEW T, IsFiniteSet(T), NEW w,
         NEW r, ByRows(w, r, S, T), NEW v, NEW c, ByColumns(w, v, c, S, T)
  PROVE  Total(r, S) = Total(c, T)
<1> USE DEF ByRows, ByColumns
<1> DEFINE column(t) == [s \in S |-> w[s][t]]
           d(K) == [t \in T |-> Total(column(t), K)]
           G == {K \in SUBSET S : Total(r, K) = Total(d(K), T)}
<1>0. \A K \in SUBSET S : IsFiniteSet(K) /\ \A t \in T : Numbers(column(t), K)
  BY FS_Subset DEF Numbers
<1>1. \A s \in S : r[s] \in Int
  BY TotalStep
<1>2. \A K \in SUBSET S : Numbers(d(K), T)
  <2> SUFFICES ASSUME NEW K \in SUBSET S, NEW t \in T PROVE Total(column(t), K) \in Int
    BY DEF Numbers
  <2> HIDE DEF column
  <2> QED
    BY <1>0, TotalStep
<1>3. ASSUME NEW K \in SUBSET S, \A L \in SUBSET K : L # K => L \in G PROVE K \in G
  <2>0. IsFiniteSet(K) /\ Numbers(r, K)
    BY <1>1, FS_Subset DEF Numbers
  <2>1. CASE K = {}
    <3>1. Total(r, K) = 0
      BY <2>0, <2>1, TotalStep
    <3>2. \A t \in T : d(K)[t] = 0
      <4> TAKE t \in T
      <4>1. Numbers(column(t), {}) /\ IsFiniteSet({})
        BY FS_EmptySet DEF Numbers
      <4>2. Total(column(t), {}) = 0
        <5> HIDE DEF column
        <5> QED
          BY <4>1, TotalStep
      <4> QED
        BY <2>1, <4>2
    <3> HIDE DEF d
    <3>3. Numbers(d(K), T) /\ \A t \in T : d(K)[t] = d(K)[t] + d(K)[t]
      BY <1>2, <3>2
    <3>4. Total(d(K), T) = Total(d(K), T) + Total(d(K), T)
      BY <3>3, TotalPlus
    <3>5. Total(d(K), T) \in Int
      BY <3>3, TotalStep
    <3>6. \A n \in Int : n = n + n => n = 0
      OBVIOUS
    <3>7. Total(d(K), T) = 0
      <4> DEFINE n == Total(d(K), T)
      <4>1. n \in Int /\ n = n + n
        BY <3>4, <3>5
      <4> HIDE DEF n
      <4>2. n = 0
        BY <3>6, <4>1
      <4> QED
        BY <4>2 DEF n
    <3> QED
      BY <3>1, <3>7
  <2>2. CASE K # {}
    <3>1. PICK x \in K : TRUE
      BY <2>2
    <3> DEFINE L == K \ {x}
    <3>2. L \in SUBSET K /\ L # K /\ L \in SUBSET S
      BY <3>1
    <3>3. Total(r, L) = Total(d(L), T)
      BY <1>3, <3>2
    <3>4. Total(r, K) = r[x] + Total(r, L)
      BY <2>0, <3>1, TotalStep
    <3>5. \A t \in T : d(K)[t] = w[x][t] + d(L)[t]
      <4> TAKE t \in T
      <4>1. Total(column(t), K) = column(t)[x] + Total(column(t), L)
        <5>1. IsFiniteSet(K) /\ Numbers(column(t), K)
          BY <1>0
        <5> HIDE DEF column, d, G
        <5> QED
          BY <3>1, <5>1, TotalStep
      <4>2. column(t)[x] = w[x][t]
        BY <3>1
      <4> HIDE DEF column, L
      <4> QED
        BY <4>1, <4>2
    <3>6. Numbers(w[x], T) /\ Numbers(d(L), T)
      BY <1>2, <3>1, <3>2
    <3> HIDE DEF d, L
    <3>7. Total(d(K), T) = Total(w[x], T) + Total(d(L), T)
      BY <3>5, <3>6, TotalPlus
    <3>8. r[x] = Total(w[x], T)
      BY <3>1
    <3>9. Total(r, K) = Total(d(K), T)
      BY <3>3, <3>4, <3>7, <3>8
    <3> QED
      BY <3>9
  <2> QED
    BY <2>1, <2>2
<1> HIDE DEF G
<1>4. Total(r, S) = Total(d(S), T)
  <2>1. \A K \in SUBSET S : K \in G
    BY <1>3, SubsetInduction
  <2> QED
    BY <2>1 DEF G
<1>5. \A t \in T : d(S)[t] = c[t]
  <2> TAKE t \in T
  <2>1. \A s \in S : column(t)[s] = v[t][s]
    OBVIOUS
  <2>2. d(S)[t] = Total(column(t), S)
    OBVIOUS
  <2> HIDE DEF column, d
  <2>3. Total(column(t), S) = Total(v[t], S)
    BY <2>1, TotalSame
  <2> QED
    BY <2>2, <2>3
<1> HIDE DEF d
<1>6. Total(d(S), T) = Total(c, T)
  BY <1>5, TotalSame
<1> QED
  BY <1>4, <1>6
=============================================================================
