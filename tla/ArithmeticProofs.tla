------------------------- MODULE ArithmeticProofs -------------------------
(*****************************************************************************)
(* Proofs for the two components that are about numbers: SecureRecovery,     *)
(* where masks cancel in a ring and a key is shared by a polynomial over a   *)
(* field, and Partitioning, where samples are dealt and allocated by largest *)
(* remainders.                                                               *)
(* Both rest on what sums over finite sets are, which comes first.           *)
(*****************************************************************************)
EXTENDS SecureRecovery, Partitioning, FiniteSetTheorems, WellFoundedInduction, TLAPS

-----------------------------------------------------------------------------
(*****************************************************************************)
(* Quotients and remainders, induction over numbers and over finite sets.    *)
(*****************************************************************************)

(* What quotient and remainder are.                                         *)
LEMMA DivMod ==
  ASSUME NEW a \in Int, NEW n \in Nat, n # 0
  PROVE  /\ a % n \in 0 .. (n - 1)
         /\ a \div n \in Int
         /\ a = n * (a \div n) + (a % n)
  OBVIOUS

(* Quotient and remainder are unique. *)
LEMMA ModIs ==
  ASSUME NEW n \in Nat, n # 0, NEW a \in Int, NEW q \in Int, NEW r \in 0 .. (n - 1), a = n * q + r
  PROVE  a % n = r
<1>1. PICK p \in Int, s \in 0 .. (n - 1) : p = a \div n /\ s = a % n /\ a = n * p + s
  BY DivMod
<1>2. n * q + r = n * p + s
  BY <1>1
<1>3. \A x, y \in Int : x <= y - 1 => n * x <= n * y - n
  <2> TAKE x, y \in Int
  <2> HAVE x <= y - 1
  <2>1. PICK d \in Nat : y = x + 1 + d
    <3>1. y - x - 1 \in Nat
      OBVIOUS
    <3> QED
      BY <3>1
  <2>2. n * y = n * x + n + n * d
    BY <2>1
  <2>3. n * d >= 0
    OBVIOUS
  <2>4. n * x \in Int /\ n * y \in Int /\ n * d \in Int
    OBVIOUS
  <2> QED
    BY <2>2, <2>3, <2>4
<1>4. ~(p <= q - 1) /\ ~(q <= p - 1)
  <2>1. n * p \in Int /\ n * q \in Int
    OBVIOUS
  <2>2. (p <= q - 1 => n * p <= n * q - n) /\ (q <= p - 1 => n * q <= n * p - n)
    BY <1>3
  <2> QED
    BY <1>2, <2>1, <2>2
<1>5. p = q
  BY <1>4
<1> QED
  BY <1>1, <1>2, <1>5

(* Multiples of the modulus do not count.                                   *)
LEMMA ModMultiple ==
  ASSUME NEW n \in Nat, n # 0, NEW a \in Int, NEW k \in Int
  PROVE  (a + n * k) % n = a % n
<1>1. PICK q \in Int, r \in 0 .. (n - 1) : r = a % n /\ a = n * q + r
  BY DivMod
<1>2. a + n * k = n * (q + k) + r
  BY <1>1
<1>3. a + n * k \in Int /\ q + k \in Int
  OBVIOUS
<1> HIDE <1>1
<1>4. (a + n * k) % n = r
  BY <1>2, <1>3, ModIs
<1> QED
  BY <1>1, <1>4

(* What is below the modulus is its own remainder.                          *)
LEMMA ModSmall ==
  ASSUME NEW n \in Nat, n # 0, NEW a \in 0 .. (n - 1)
  PROVE  a % n = a
<1>1. a = n * 0 + a
  OBVIOUS
<1> QED
  BY <1>1, ModIs

(* Reducing a summand, as every step of the ring arithmetic does, changes nothing. *)
LEMMA ModPlus ==
  ASSUME NEW n \in Nat, n # 0, NEW a \in Int, NEW b \in Int
  PROVE  /\ ((a % n) + b) % n = (a + b) % n
         /\ (a + (b % n)) % n = (a + b) % n
         /\ ((a % n) + (b % n)) % n = (a + b) % n
<1>1. \A x, y \in Int : ((x % n) + y) % n = (x + y) % n
  <2> TAKE x, y \in Int
  <2>1. PICK q \in Int, r \in 0 .. (n - 1) : r = x % n /\ x = n * q + r
    BY DivMod
  <2>2. x + y = (r + y) + n * q
    BY <2>1
  <2>3. r + y \in Int
    OBVIOUS
  <2>4. ((r + y) + n * q) % n = (r + y) % n
    BY <2>3, ModMultiple
  <2> QED
    BY <2>1, <2>2, <2>4
<1>2. a % n \in Int /\ b % n \in Int
  OBVIOUS
<1>3. (a + (b % n)) % n = (a + b) % n
  <2>1. a + (b % n) = (b % n) + a /\ a + b = b + a
    BY <1>2
  <2> QED
    BY <1>1, <2>1
<1> QED
  BY <1>1, <1>2, <1>3

(* Neither does reducing a factor.                                          *)
LEMMA ModTimes ==
  ASSUME NEW n \in Nat, n # 0, NEW a \in Int, NEW b \in Int
  PROVE  /\ ((a % n) * b) % n = (a * b) % n
         /\ (a * (b % n)) % n = (a * b) % n
<1>1. \A x, y \in Int : ((x % n) * y) % n = (x * y) % n
  <2> TAKE x, y \in Int
  <2>1. PICK q \in Int, r \in 0 .. (n - 1) : r = x % n /\ x = n * q + r
    BY DivMod
  <2>2. x * y = r * y + n * (q * y)
    BY <2>1
  <2>3. r * y \in Int /\ q * y \in Int
    OBVIOUS
  <2>4. (r * y + n * (q * y)) % n = (r * y) % n
    BY <2>3, ModMultiple
  <2> QED
    BY <2>1, <2>2, <2>4
<1>2. b % n \in Int /\ a * (b % n) = (b % n) * a /\ a * b = b * a
  OBVIOUS
<1> QED
  BY <1>1, <1>2

(* Induction over the numbers, for a set of them.                           *)
LEMMA SetInduction ==
  ASSUME NEW S, 0 \in S, \A n \in Nat : n \in S => n + 1 \in S
  PROVE  Nat \subseteq S
<1> DEFINE T == Nat \ S
<1> SUFFICES ASSUME T # {} PROVE FALSE
  OBVIOUS
<1>1. PICK x \in T : \A y \in T : ~(<<y, x>> \in OpToRel(<, Nat))
  <2>1. IsWellFoundedOn(OpToRel(<, Nat), Nat)
    BY NatLessThanWellFounded
  <2>2. T \subseteq Nat
    OBVIOUS
  <2> QED
    BY <2>1, <2>2, WFMin
<1>2. \A y \in T : ~(y < x)
  BY <1>1 DEF OpToRel
<1>3. x - 1 \in Nat /\ x - 1 < x
  OBVIOUS
<1>4. x - 1 \in S
  BY <1>2, <1>3
<1> QED
  BY <1>3, <1>4

(* A finite set without one of its members.                                 *)
LEMMA RemoveOne ==
  ASSUME NEW T, IsFiniteSet(T), NEW x \in T, NEW n \in Nat, Cardinality(T) = n + 1
  PROVE  IsFiniteSet(T \ {x}) /\ Cardinality(T \ {x}) = n
<1>1. IsFiniteSet(T \ {x}) /\ Cardinality(T \ {x}) = Cardinality(T) - 1
  BY FS_RemoveElement
<1>2. (n + 1) - 1 = n
  OBVIOUS
<1> QED
  BY <1>1, <1>2

(* Induction over the subsets of a finite set: what holds of {}, and of T    *)
(* with one more element if it holds of T, holds of the set.                 *)
LEMMA SubsetInduction ==
  ASSUME NEW S, IsFiniteSet(S), NEW W, {} \in W,
         \A T \in SUBSET S, x \in S : T \in W /\ x \notin T => T \cup {x} \in W
  PROVE  S \in W
<1> DEFINE Numbers == {n \in Nat : \A T \in SUBSET S : Cardinality(T) = n => T \in W}
<1>1. 0 \in Numbers
  BY FS_Subset, FS_EmptySet
<1>2. ASSUME NEW n \in Nat, n \in Numbers PROVE n + 1 \in Numbers
  <2> SUFFICES ASSUME NEW T \in SUBSET S, Cardinality(T) = n + 1 PROVE T \in W
    OBVIOUS
  <2>1. IsFiniteSet(T)
    BY FS_Subset
  <2>2. PICK x : x \in T
    BY <2>1, FS_EmptySet
  <2>3. Cardinality(T \ {x}) = n /\ T \ {x} \in SUBSET S
    BY <2>1, <2>2, RemoveOne
  <2>4. T \ {x} \in W /\ T = (T \ {x}) \cup {x}
    BY <1>2, <2>2, <2>3
  <2> QED
    BY <2>2, <2>3, <2>4
<1> HIDE DEF Numbers
<1>3. Nat \subseteq Numbers
  BY <1>1, <1>2, SetInduction
<1>4. Cardinality(S) \in Numbers
  BY <1>3, FS_CardinalityType
<1> QED
  BY <1>4 DEF Numbers

(* The element a fold takes first, and what it sums up to. *)
Taken(s) == CHOOSE x \in s : TRUE
Step(F, g, s) == IF s = {} THEN 0 ELSE g[Taken(s)] + F[s \ {Taken(s)}]
Sums(F, g, S) == F = [s \in SUBSET S |-> Step(F, g, s)]

(* There is a function that sums g over every subset of S. *)
LEMMA SumsExist ==
  ASSUME NEW S, IsFiniteSet(S), NEW g
  PROVE  \E F : Sums(F, g, S)
<1> DEFINE Below(n) == {s \in SUBSET S : Cardinality(s) <= n}
           Numbers == {n \in Nat : \E F : \A s \in Below(n) : F[s] = Step(F, g, s)}
           Filled(G) == [s \in SUBSET S |-> Step(G, g, s)]
<1>0. \A s \in SUBSET S : IsFiniteSet(s) /\ Cardinality(s) \in Nat /\ Cardinality(s) <= Cardinality(S)
  BY FS_Subset, FS_CardinalityType
<1>1. 0 \in Numbers
  <2> DEFINE F == [s \in SUBSET S |-> 0]
  <2>1. \A s \in Below(0) : s = {}
    BY <1>0, FS_EmptySet
  <2>2. \A s \in Below(0) : F[s] = Step(F, g, s)
    BY <2>1 DEF Step
  <2> QED
    BY <2>2
<1>2. ASSUME NEW n \in Nat, n \in Numbers PROVE n + 1 \in Numbers
  <2>1. PICK F : \A s \in Below(n) : F[s] = Step(F, g, s)
    BY <1>2
  <2>2. ASSUME NEW s \in Below(n + 1) PROVE Filled(F)[s] = Step(Filled(F), g, s)
    <3>1. CASE s = {}
      BY <3>1 DEF Step
    <3>2. CASE s # {}
      <4>1. Taken(s) \in s
        BY <3>2 DEF Taken
      <4>2. s \ {Taken(s)} \in Below(n)
        BY <4>1, <1>0, FS_RemoveElement
      <4>3. F[s \ {Taken(s)}] = Filled(F)[s \ {Taken(s)}]
        BY <4>2, <2>1
      <4> QED
        BY <4>3, <3>2 DEF Step
    <3> QED
      BY <3>1, <3>2
  <2>3. \A s \in Below(n + 1) : Filled(F)[s] = Step(Filled(F), g, s)
    BY <2>2
  <2> HIDE DEF Filled, Below
  <2> QED
    BY <2>3
<1>3. Nat \subseteq Numbers
  <2> HIDE DEF Numbers
  <2> QED
    BY <1>1, <1>2, SetInduction
<1>4. PICK F : \A s \in Below(Cardinality(S)) : F[s] = Step(F, g, s)
  BY <1>3, <1>0
<1>5. \A s \in SUBSET S : Filled(F)[s] = F[s]
  BY <1>4, <1>0
<1>6. \A s \in SUBSET S : s # {} => s \ {Taken(s)} \in SUBSET S
  OBVIOUS
<1>7. \A s \in SUBSET S : Step(F, g, s) = Step(Filled(F), g, s)
  <2> HIDE DEF Filled
  <2> QED
    BY <1>5, <1>6 DEF Step
<1>8. Sums(Filled(F), g, S)
  <2>1. Filled(F) = [s \in SUBSET S |-> Step(Filled(F), g, s)]
    <3> DEFINE G == Filled(F)
    <3>1. G = [s \in SUBSET S |-> Step(F, g, s)] /\ \A s \in SUBSET S : Step(F, g, s) = Step(G, g, s)
      BY <1>7
    <3> HIDE DEF G
    <3> QED
      BY <3>1 DEF G
  <2> QED
    BY <2>1 DEF Sums
<1> QED
  BY <1>8

(* SumFunctionOnSet is the table's entry for the whole set.                 *)
LEMMA SumIsTotal ==
  ASSUME NEW S, IsFiniteSet(S), NEW g
  PROVE  \E F : Sums(F, g, S) /\ SumFunctionOnSet(g, S) = F[S]
<1> DEFINE F == CHOOSE F : Sums(F, g, S)
<1>1. Sums(F, g, S)
  BY SumsExist
<1>2. SumFunctionOnSet(g, S) = F[S]
  BY DEF SumFunctionOnSet, FoldFunctionOnSet, MapThenFoldSet, Sums, Step, Taken
<1> QED
  BY <1>1, <1>2

(* What a fold's definition says, without the function it is defined by. *)
LEMMA SumDefinition ==
  ASSUME NEW S, IsFiniteSet(S), NEW g
  PROVE  SumFunctionOnSet(g, S) =
           IF S = {} THEN 0 ELSE g[Taken(S)] + SumFunctionOnSet(g, S \ {Taken(S)})
<1>1. PICK F : Sums(F, g, S) /\ SumFunctionOnSet(g, S) = F[S]
  BY SumIsTotal
<1>2. F[S] = Step(F, g, S)
  BY <1>1 DEF Sums
<1>3. CASE S = {}
  BY <1>1, <1>2, <1>3 DEF Step
<1>4. CASE S # {}
  <2> DEFINE R == S \ {Taken(S)}
  <2>1. R \subseteq S /\ IsFiniteSet(R)
    BY FS_Subset
  <2>2. PICK G : Sums(G, g, R) /\ SumFunctionOnSet(g, R) = G[R]
    BY <2>1, SumIsTotal
  <2> DEFINE Numbers == {n \in Nat : \A s \in SUBSET R : Cardinality(s) = n => F[s] = G[s]}
  <2>3. \A s \in SUBSET R : F[s] = Step(F, g, s) /\ G[s] = Step(G, g, s)
    BY <1>1, <2>1, <2>2 DEF Sums
  <2>4. 0 \in Numbers
    BY <2>1, <2>3, FS_Subset, FS_EmptySet DEF Step
  <2>5. ASSUME NEW n \in Nat, n \in Numbers PROVE n + 1 \in Numbers
    <3> SUFFICES ASSUME NEW s \in SUBSET R, Cardinality(s) = n + 1 PROVE F[s] = G[s]
      OBVIOUS
    <3>1. IsFiniteSet(s) /\ s # {}
      BY <2>1, FS_Subset, FS_EmptySet
    <3>2. Taken(s) \in s
      BY <3>1 DEF Taken
    <3>3. Cardinality(s \ {Taken(s)}) = n
      BY <3>1, <3>2, RemoveOne
    <3>4. F[s \ {Taken(s)}] = G[s \ {Taken(s)}]
      BY <2>5, <3>3
    <3> QED
      BY <2>3, <3>1, <3>4 DEF Step
  <2>6. Nat \subseteq Numbers
    <3> HIDE DEF Numbers
    <3> QED
      BY <2>4, <2>5, SetInduction
  <2>7. F[R] = G[R]
    BY <2>1, <2>6, FS_CardinalityType
  <2> QED
    BY <1>1, <1>2, <1>4, <2>2, <2>7 DEF Step
<1> QED
  BY <1>3, <1>4

(* A sum of integers is an integer.                                         *)
LEMMA SumInt ==
  ASSUME NEW S, IsFiniteSet(S), NEW g, \A x \in S : g[x] \in Int
  PROVE  SumFunctionOnSet(g, S) \in Int
<1> DEFINE Numbers == {n \in Nat : \A s \in SUBSET S : Cardinality(s) = n => SumFunctionOnSet(g, s) \in Int}
<1>0. \A s \in SUBSET S : IsFiniteSet(s)
  BY FS_Subset
<1>1. 0 \in Numbers
  <2>1. \A s \in SUBSET S : Cardinality(s) = 0 => s = {}
    BY <1>0, FS_EmptySet
  <2>2. SumFunctionOnSet(g, {}) = 0
    BY SumDefinition, FS_EmptySet
  <2> QED
    BY <2>1, <2>2
<1>2. ASSUME NEW n \in Nat, n \in Numbers PROVE n + 1 \in Numbers
  <2> SUFFICES ASSUME NEW s \in SUBSET S, Cardinality(s) = n + 1 PROVE SumFunctionOnSet(g, s) \in Int
    OBVIOUS
  <2>1. IsFiniteSet(s) /\ s # {}
    BY <1>0, FS_EmptySet
  <2>2. Taken(s) \in s
    BY <2>1 DEF Taken
  <2>3. Cardinality(s \ {Taken(s)}) = n
    BY <2>1, <2>2, RemoveOne
  <2>4. SumFunctionOnSet(g, s \ {Taken(s)}) \in Int
    BY <1>2, <2>3
  <2>5. SumFunctionOnSet(g, s) = g[Taken(s)] + SumFunctionOnSet(g, s \ {Taken(s)})
    BY <2>1, SumDefinition
  <2> QED
    BY <2>2, <2>4, <2>5
<1>3. Nat \subseteq Numbers
  <2> HIDE DEF Numbers
  <2> QED
    BY <1>1, <1>2, SetInduction
<1> QED
  BY <1>3, FS_CardinalityType

(* The order in which a fold takes the elements does not matter. *)
LEMMA SumRemove ==
  ASSUME NEW S, IsFiniteSet(S), NEW g, \A x \in S : g[x] \in Int, NEW y \in S
  PROVE  SumFunctionOnSet(g, S) = g[y] + SumFunctionOnSet(g, S \ {y})
<1> DEFINE Sum(s) == SumFunctionOnSet(g, s)
           Numbers == {n \in Nat : \A s \in SUBSET S : Cardinality(s) = n =>
                                \A x \in s : Sum(s) = g[x] + Sum(s \ {x})}
<1>0. \A s \in SUBSET S : IsFiniteSet(s) /\ Sum(s) \in Int
  BY FS_Subset, SumInt
<1>1. 0 \in Numbers
  BY <1>0, FS_EmptySet
<1>2. ASSUME NEW n \in Nat, n \in Numbers PROVE n + 1 \in Numbers
  <2> SUFFICES ASSUME NEW s \in SUBSET S, Cardinality(s) = n + 1, NEW x \in s
               PROVE  Sum(s) = g[x] + Sum(s \ {x})
    OBVIOUS
  <2> DEFINE p == Taken(s)
  <2>1. p \in s /\ IsFiniteSet(s)
    BY <1>0 DEF Taken
  <2>2. Sum(s) = g[p] + Sum(s \ {p})
    BY <2>1, SumDefinition
  <2> HIDE DEF p
  <2>3. CASE p = x
    BY <2>2, <2>3
  <2>4. CASE p # x
    <3>1. Cardinality(s \ {p}) = n /\ Cardinality(s \ {x}) = n
      BY <2>1, RemoveOne
    <3>2. x \in s \ {p} /\ p \in s \ {x} /\ s \ {p} \in SUBSET S /\ s \ {x} \in SUBSET S
      BY <2>1, <2>4
    <3>3. Sum(s \ {p}) = g[x] + Sum((s \ {p}) \ {x}) /\ Sum(s \ {x}) = g[p] + Sum((s \ {x}) \ {p})
      <4> HIDE DEF Sum
      <4> QED
        BY <1>2, <3>1, <3>2
    <3>4. (s \ {p}) \ {x} = (s \ {x}) \ {p} /\ (s \ {x}) \ {p} \in SUBSET S
      OBVIOUS
    <3>5. Sum((s \ {x}) \ {p}) \in Int /\ g[x] \in Int /\ g[p] \in Int
      BY <1>0, <2>1, <3>4
    <3>6. \A a, b, c \in Int : a + (b + c) = b + (a + c)
      OBVIOUS
    <3> HIDE DEF Sum
    <3>7. Sum(s) = g[p] + (g[x] + Sum((s \ {x}) \ {p}))
      BY <2>2, <3>3, <3>4
    <3>8. Sum(s \ {x}) = g[p] + Sum((s \ {x}) \ {p})
      BY <3>3
    <3> QED
      BY <3>5, <3>6, <3>7, <3>8
  <2> QED
    BY <2>3, <2>4
<1>3. Nat \subseteq Numbers
  <2> HIDE DEF Numbers
  <2> QED
    BY <1>1, <1>2, SetInduction
<1> QED
  BY <1>3, FS_CardinalityType

(* The sum over no members.                                                 *)
LEMMA SumEmpty == \A g : SumFunctionOnSet(g, {}) = 0
  BY SumDefinition, FS_EmptySet

(* The sum with one member more.                                            *)
LEMMA SumAdd ==
  ASSUME NEW T, IsFiniteSet(T), NEW x, x \notin T,
         NEW g, \A y \in T \cup {x} : g[y] \in Int
  PROVE  SumFunctionOnSet(g, T \cup {x}) = g[x] + SumFunctionOnSet(g, T)
<1>1. IsFiniteSet(T \cup {x})
  BY FS_AddElement
<1>2. (T \cup {x}) \ {x} = T
  OBVIOUS
<1> QED
  BY <1>1, <1>2, SumRemove

(* Equal terms have equal sums.                                             *)
LEMMA SumEqual ==
  ASSUME NEW S, IsFiniteSet(S), NEW f, NEW g,
         \A x \in S : f[x] \in Int /\ f[x] = g[x]
  PROVE  SumFunctionOnSet(f, S) = SumFunctionOnSet(g, S)
<1> DEFINE W == {T \in SUBSET S : SumFunctionOnSet(f, T) = SumFunctionOnSet(g, T)}
<1>0. \A T \in SUBSET S : IsFiniteSet(T) /\ SumFunctionOnSet(f, T) \in Int /\ SumFunctionOnSet(g, T) \in Int
  BY FS_Subset, SumInt
<1>1. {} \in W
  BY SumEmpty
<1>2. ASSUME NEW T \in SUBSET S, NEW x \in S, T \in W, x \notin T PROVE T \cup {x} \in W
  <2>1. SumFunctionOnSet(f, T \cup {x}) = f[x] + SumFunctionOnSet(f, T)
    BY <1>0, <1>2, SumAdd
  <2>2. SumFunctionOnSet(g, T \cup {x}) = g[x] + SumFunctionOnSet(g, T)
    BY <1>0, <1>2, SumAdd
  <2> QED
    BY <1>0, <1>2, <2>1, <2>2
<1> HIDE DEF W
<1>3. S \in W
  BY <1>1, <1>2, SubsetInduction
<1> QED
  BY <1>3 DEF W

(* The sum of termwise sums.                                                *)
LEMMA SumPlus ==
  ASSUME NEW S, IsFiniteSet(S), NEW f, NEW g, NEW h,
         \A x \in S : f[x] \in Int /\ g[x] \in Int /\ h[x] \in Int /\ h[x] = f[x] + g[x]
  PROVE  SumFunctionOnSet(h, S) = SumFunctionOnSet(f, S) + SumFunctionOnSet(g, S)
<1> DEFINE W == {T \in SUBSET S : SumFunctionOnSet(h, T) = SumFunctionOnSet(f, T) + SumFunctionOnSet(g, T)}
<1>0. \A T \in SUBSET S : IsFiniteSet(T) /\ SumFunctionOnSet(f, T) \in Int /\ SumFunctionOnSet(g, T) \in Int /\ SumFunctionOnSet(h, T) \in Int
  BY FS_Subset, SumInt
<1>1. {} \in W
  BY SumEmpty
<1>2. ASSUME NEW T \in SUBSET S, NEW x \in S, T \in W, x \notin T PROVE T \cup {x} \in W
  <2>1. SumFunctionOnSet(f, T \cup {x}) = f[x] + SumFunctionOnSet(f, T)
    BY <1>0, <1>2, SumAdd
  <2>2. SumFunctionOnSet(g, T \cup {x}) = g[x] + SumFunctionOnSet(g, T)
    BY <1>0, <1>2, SumAdd
  <2>3. SumFunctionOnSet(h, T \cup {x}) = h[x] + SumFunctionOnSet(h, T)
    BY <1>0, <1>2, SumAdd
  <2> QED
    BY <1>0, <1>2, <2>1, <2>2, <2>3
<1> HIDE DEF W
<1>3. S \in W
  BY <1>1, <1>2, SubsetInduction
<1> QED
  BY <1>3 DEF W

(* A common factor.                                                         *)
LEMMA SumTimes ==
  ASSUME NEW S, IsFiniteSet(S), NEW a \in Int, NEW f, NEW h,
         \A x \in S : f[x] \in Int /\ h[x] \in Int /\ h[x] = a * f[x]
  PROVE  SumFunctionOnSet(h, S) = a * SumFunctionOnSet(f, S)
<1> DEFINE W == {T \in SUBSET S : SumFunctionOnSet(h, T) = a * SumFunctionOnSet(f, T)}
<1>0. \A T \in SUBSET S : IsFiniteSet(T) /\ SumFunctionOnSet(f, T) \in Int /\ SumFunctionOnSet(h, T) \in Int
  BY FS_Subset, SumInt
<1>1. {} \in W
  BY SumEmpty
<1>2. ASSUME NEW T \in SUBSET S, NEW x \in S, T \in W, x \notin T PROVE T \cup {x} \in W
  <2>1. SumFunctionOnSet(f, T \cup {x}) = f[x] + SumFunctionOnSet(f, T)
    BY <1>0, <1>2, SumAdd
  <2>2. SumFunctionOnSet(h, T \cup {x}) = h[x] + SumFunctionOnSet(h, T)
    BY <1>0, <1>2, SumAdd
  <2>3. \A b, c \in Int : a * (b + c) = a * b + a * c
    OBVIOUS
  <2> QED
    BY <1>0, <1>2, <2>1, <2>2, <2>3
<1> HIDE DEF W
<1>3. S \in W
  BY <1>1, <1>2, SubsetInduction
<1> QED
  BY <1>3 DEF W

(* Smaller terms have a smaller sum.                                        *)
LEMMA SumMonotone ==
  ASSUME NEW S, IsFiniteSet(S), NEW f, NEW g,
         \A x \in S : f[x] \in Int /\ g[x] \in Int /\ f[x] <= g[x]
  PROVE  SumFunctionOnSet(f, S) <= SumFunctionOnSet(g, S)
<1> DEFINE W == {T \in SUBSET S : SumFunctionOnSet(f, T) <= SumFunctionOnSet(g, T)}
<1>0. \A T \in SUBSET S : IsFiniteSet(T) /\ SumFunctionOnSet(f, T) \in Int /\ SumFunctionOnSet(g, T) \in Int
  BY FS_Subset, SumInt
<1>1. {} \in W
  BY SumEmpty
<1>2. ASSUME NEW T \in SUBSET S, NEW x \in S, T \in W, x \notin T PROVE T \cup {x} \in W
  <2>1. SumFunctionOnSet(f, T \cup {x}) = f[x] + SumFunctionOnSet(f, T)
    BY <1>0, <1>2, SumAdd
  <2>2. SumFunctionOnSet(g, T \cup {x}) = g[x] + SumFunctionOnSet(g, T)
    BY <1>0, <1>2, SumAdd
  <2> QED
    BY <1>0, <1>2, <2>1, <2>2
<1> HIDE DEF W
<1>3. S \in W
  BY <1>1, <1>2, SubsetInduction
<1> QED
  BY <1>3 DEF W

(* Equal terms are counted.                                                 *)
LEMMA SumConstant ==
  ASSUME NEW S, IsFiniteSet(S), NEW a \in Int, NEW f,
         \A x \in S : f[x] = a
  PROVE  SumFunctionOnSet(f, S) = a * Cardinality(S)
<1> DEFINE W == {T \in SUBSET S : SumFunctionOnSet(f, T) = a * Cardinality(T)}
<1>4. \A x \in S : f[x] \in Int
  OBVIOUS
<1>0. \A T \in SUBSET S : IsFiniteSet(T) /\ SumFunctionOnSet(f, T) \in Int
  BY <1>4, FS_Subset, SumInt
<1>1. {} \in W
  BY SumEmpty, FS_EmptySet
<1>2. ASSUME NEW T \in SUBSET S, NEW x \in S, T \in W, x \notin T PROVE T \cup {x} \in W
  <2>1. SumFunctionOnSet(f, T \cup {x}) = f[x] + SumFunctionOnSet(f, T)
    BY <1>0, <1>2, <1>4, SumAdd
  <2>2. Cardinality(T \cup {x}) = Cardinality(T) + 1 /\ Cardinality(T) \in Nat
    BY <1>0, <1>2, FS_AddElement, FS_CardinalityType
  <2>3. \A n \in Nat : a * (n + 1) = a + a * n
    OBVIOUS
  <2> QED
    BY <1>0, <1>2, <2>1, <2>2, <2>3
<1> HIDE DEF W
<1>3. S \in W
  BY <1>1, <1>2, SubsetInduction
<1> QED
  BY <1>3 DEF W

(* A sum of natural numbers is one.                                         *)
LEMMA SumNat ==
  ASSUME NEW S, IsFiniteSet(S), NEW f, \A x \in S : f[x] \in Nat
  PROVE  SumFunctionOnSet(f, S) \in Nat
<1> DEFINE z == [x \in S |-> 0]
<1>1. SumFunctionOnSet(z, S) = 0 * Cardinality(S)
  BY SumConstant
<1>2. SumFunctionOnSet(z, S) <= SumFunctionOnSet(f, S)
  BY SumMonotone
<1>3. Cardinality(S) \in Nat /\ SumFunctionOnSet(f, S) \in Int
  BY FS_CardinalityType, SumInt
<1>4. \A n \in Nat : 0 * n = 0
  OBVIOUS
<1> HIDE DEF z
<1> QED
  BY <1>1, <1>2, <1>3, <1>4

(* No summand is larger than the sum. *)
LEMMA SumMember ==
  ASSUME NEW S, IsFiniteSet(S), NEW f, \A x \in S : f[x] \in Nat, NEW y \in S
  PROVE  f[y] <= SumFunctionOnSet(f, S)
<1>1. IsFiniteSet(S \ {y})
  BY FS_Subset
<1>2. SumFunctionOnSet(f, S \ {y}) \in Nat
  BY <1>1, SumNat
<1>3. SumFunctionOnSet(f, S) = f[y] + SumFunctionOnSet(f, S \ {y})
  BY SumRemove
<1> QED
  BY <1>2, <1>3

(* The sum over two disjoint sets.                                          *)
LEMMA SumUnion ==
  ASSUME NEW S, IsFiniteSet(S), NEW R, IsFiniteSet(R), R \cap S = {},
         NEW f, \A x \in R \cup S : f[x] \in Int
  PROVE  SumFunctionOnSet(f, R \cup S) = SumFunctionOnSet(f, R) + SumFunctionOnSet(f, S)
<1> DEFINE W == {T \in SUBSET S : SumFunctionOnSet(f, R \cup T)
                                    = SumFunctionOnSet(f, R) + SumFunctionOnSet(f, T)}
<1>0. ASSUME NEW T \in SUBSET S
      PROVE  /\ IsFiniteSet(T) /\ IsFiniteSet(R \cup T)
             /\ SumFunctionOnSet(f, T) \in Int /\ SumFunctionOnSet(f, R \cup T) \in Int
  <2>1. IsFiniteSet(T) /\ IsFiniteSet(R \cup T)
    BY FS_Subset, FS_Union
  <2> QED
    BY <2>1, SumInt
<1>5. SumFunctionOnSet(f, R) \in Int
  BY SumInt
<1>1. {} \in W
  <2>1. R \cup {} = R
    OBVIOUS
  <2> QED
    BY <2>1, <1>5, SumEmpty
<1>2. ASSUME NEW T \in SUBSET S, NEW x \in S, T \in W, x \notin T PROVE T \cup {x} \in W
  <2>1. SumFunctionOnSet(f, T \cup {x}) = f[x] + SumFunctionOnSet(f, T)
    BY <1>0, <1>2, SumAdd
  <2>2. R \cup (T \cup {x}) = (R \cup T) \cup {x} /\ x \notin R \cup T
    BY <1>2
  <2>3. SumFunctionOnSet(f, (R \cup T) \cup {x}) = f[x] + SumFunctionOnSet(f, R \cup T)
    BY <1>0, <2>2, SumAdd
  <2>4. SumFunctionOnSet(f, R \cup (T \cup {x})) = f[x] + SumFunctionOnSet(f, R \cup T)
    BY <2>2, <2>3
  <2>5. SumFunctionOnSet(f, R \cup T) = SumFunctionOnSet(f, R) + SumFunctionOnSet(f, T)
    BY <1>2
  <2>6. f[x] \in Int /\ SumFunctionOnSet(f, T) \in Int
    BY <1>0
  <2>7. \A a, b, c \in Int : a + (b + c) = b + (a + c)
    OBVIOUS
  <2>8. SumFunctionOnSet(f, R \cup (T \cup {x})) = SumFunctionOnSet(f, R) + SumFunctionOnSet(f, T \cup {x})
    BY <1>5, <2>1, <2>4, <2>5, <2>6, <2>7
  <2> QED
    BY <2>8
<1> HIDE DEF W
<1>3. S \in W
  BY <1>1, <1>2, SubsetInduction
<1> QED
  BY <1>3 DEF W

(* What is nothing outside T sums up to as much on T alone. *)
LEMMA SumOnSubset ==
  ASSUME NEW S, IsFiniteSet(S), NEW T \in SUBSET S, NEW f, \A x \in S : f[x] \in Int,
         \A x \in S \ T : f[x] = 0
  PROVE  SumFunctionOnSet(f, S) = SumFunctionOnSet(f, T)
<1>1. IsFiniteSet(T) /\ IsFiniteSet(S \ T)
  BY FS_Subset
<1>2. SumFunctionOnSet(f, S \ T) = 0 * Cardinality(S \ T)
  BY <1>1, SumConstant
<1>3. T \cup (S \ T) = S /\ T \cap (S \ T) = {}
  OBVIOUS
<1>4. SumFunctionOnSet(f, T \cup (S \ T)) = SumFunctionOnSet(f, T) + SumFunctionOnSet(f, S \ T)
  BY <1>1, SumUnion
<1>5. SumFunctionOnSet(f, T) \in Int /\ Cardinality(S \ T) \in Nat
  BY <1>1, SumInt, FS_CardinalityType
<1>6. \A n \in Nat : 0 * n = 0
  OBVIOUS
<1>7. SumFunctionOnSet(f, S \ T) = 0
  BY <1>2, <1>5, <1>6
<1>8. SumFunctionOnSet(f, S) = SumFunctionOnSet(f, T) + SumFunctionOnSet(f, S \ T)
  BY <1>3, <1>4
<1> QED
  BY <1>5, <1>7, <1>8

(* The sum of a set's characteristic function is its size. *)
LEMMA SumCounts ==
  ASSUME NEW S, IsFiniteSet(S), NEW T \in SUBSET S, NEW f,
         \A x \in S : f[x] = IF x \in T THEN 1 ELSE 0
  PROVE  SumFunctionOnSet(f, S) = Cardinality(T)
<1>1. IsFiniteSet(T)
  BY FS_Subset
<1>2. SumFunctionOnSet(f, S) = SumFunctionOnSet(f, T)
  BY SumOnSubset
<1>3. SumFunctionOnSet(f, T) = 1 * Cardinality(T)
  BY <1>1, SumConstant
<1> QED
  BY <1>1, <1>2, <1>3, FS_CardinalityType

(* Rows first or columns first: the same sum. *)
LEMMA SumSwap ==
  ASSUME NEW R, IsFiniteSet(R), NEW S, IsFiniteSet(S),
         NEW m, \A x \in R, y \in S : m[x][y] \in Int
  PROVE  SumFunctionOnSet([x \in R |-> SumFunctionOnSet(m[x], S)], R)
           = SumFunctionOnSet([y \in S |-> SumFunctionOnSet([x \in R |-> m[x][y]], R)], S)
<1> DEFINE row(T) == [x \in R |-> SumFunctionOnSet(m[x], T)]
           col == [y \in S |-> SumFunctionOnSet([x \in R |-> m[x][y]], R)]
           W == {T \in SUBSET S : SumFunctionOnSet(row(T), R) = SumFunctionOnSet(col, T)}
<1>0. ASSUME NEW T \in SUBSET S
      PROVE  /\ IsFiniteSet(T)
             /\ \A x \in R : row(T)[x] \in Int
             /\ SumFunctionOnSet(row(T), R) \in Int
  <2>1. IsFiniteSet(T)
    BY FS_Subset
  <2>2. \A x \in R : row(T)[x] \in Int
    BY <2>1, SumInt
  <2> HIDE DEF row
  <2> QED
    BY <2>1, <2>2, SumInt
<1>4. \A y \in S : col[y] = SumFunctionOnSet([x \in R |-> m[x][y]], R) /\ col[y] \in Int
  <2> SUFFICES ASSUME NEW y \in S PROVE SumFunctionOnSet([x \in R |-> m[x][y]], R) \in Int
    OBVIOUS
  <2> DEFINE c == [x \in R |-> m[x][y]]
  <2>1. \A x \in R : c[x] \in Int
    OBVIOUS
  <2> HIDE DEF c
  <2> QED
    BY <2>1, SumInt DEF c
<1>1. {} \in W
  <2>1. \A x \in R : row({})[x] = 0
    BY SumEmpty
  <2>2. SumFunctionOnSet(row({}), R) = 0 * Cardinality(R)
    <3> HIDE DEF row
    <3> QED
      BY <2>1, SumConstant
  <2>3. Cardinality(R) \in Nat /\ \A n \in Nat : 0 * n = 0
    BY FS_CardinalityType
  <2> HIDE DEF row, col
  <2> QED
    BY <2>2, <2>3, SumEmpty
<1>2. ASSUME NEW T \in SUBSET S, NEW y \in S, T \in W, y \notin T PROVE T \cup {y} \in W
  <2> DEFINE c == [x \in R |-> m[x][y]]
  <2>1. \A x \in R : c[x] \in Int /\ c[x] = m[x][y]
    OBVIOUS
  <2>2. ASSUME NEW x \in R PROVE row(T \cup {y})[x] = row(T)[x] + c[x]
    <3>1. SumFunctionOnSet(m[x], T \cup {y}) = m[x][y] + SumFunctionOnSet(m[x], T)
      BY <1>0, <1>2, SumAdd
    <3>2. row(T)[x] = SumFunctionOnSet(m[x], T) /\ row(T)[x] \in Int
      BY <1>0
    <3>3. row(T \cup {y})[x] = SumFunctionOnSet(m[x], T \cup {y})
      OBVIOUS
    <3> HIDE DEF row
    <3> QED
      BY <2>1, <3>1, <3>2, <3>3
  <2>3. col[y] = SumFunctionOnSet(c, R)
    OBVIOUS
  <2>4. T \cup {y} \in SUBSET S
    OBVIOUS
  <2>5. SumFunctionOnSet(row(T \cup {y}), R) = SumFunctionOnSet(row(T), R) + SumFunctionOnSet(c, R)
    <3>1. \A x \in R : row(T)[x] \in Int /\ row(T \cup {y})[x] \in Int
      BY <1>0, <2>4
    <3> HIDE DEF row, c
    <3> QED
      BY <2>1, <2>2, <3>1, SumPlus
  <2>6. SumFunctionOnSet(col, T \cup {y}) = col[y] + SumFunctionOnSet(col, T)
    <3> HIDE DEF col
    <3> QED
      BY <1>0, <1>2, <1>4, SumAdd
  <2>7. SumFunctionOnSet(row(T), R) = SumFunctionOnSet(col, T) /\ SumFunctionOnSet(row(T), R) \in Int
    BY <1>0, <1>2
  <2>8. col[y] \in Int
    BY <1>4
  <2> HIDE DEF row, col, c
  <2> QED
    BY <2>3, <2>4, <2>5, <2>6, <2>7, <2>8
<1> HIDE DEF W
<1>3. S \in W
  BY <1>1, <1>2, SubsetInduction
<1> QED
  BY <1>3 DEF W

(* A sum may be taken of the remainders of its summands.                     *)
LEMMA SumOfRemainders ==
  ASSUME NEW S, IsFiniteSet(S), NEW n \in Nat, n # 0,
         NEW f, NEW g, \A x \in S : g[x] \in Int /\ f[x] = g[x] % n
  PROVE  SumFunctionOnSet(f, S) % n = SumFunctionOnSet(g, S) % n
<1> DEFINE W == {T \in SUBSET S : SumFunctionOnSet(f, T) % n = SumFunctionOnSet(g, T) % n}
<1>4. \A x \in S : f[x] \in Int
  <2> TAKE x \in S
  <2>1. g[x] % n \in 0 .. (n - 1)
    BY DivMod
  <2> QED
    BY <2>1
<1>0. \A T \in SUBSET S : IsFiniteSet(T) /\ SumFunctionOnSet(f, T) \in Int /\ SumFunctionOnSet(g, T) \in Int
  BY <1>4, FS_Subset, SumInt
<1>1. {} \in W
  BY SumEmpty
<1>2. ASSUME NEW T \in SUBSET S, NEW x \in S, T \in W, x \notin T PROVE T \cup {x} \in W
  <2> DEFINE F == SumFunctionOnSet(f, T)
             G == SumFunctionOnSet(g, T)
  <2>1. SumFunctionOnSet(f, T \cup {x}) = f[x] + F
    BY <1>0, <1>2, <1>4, SumAdd
  <2>2. SumFunctionOnSet(g, T \cup {x}) = g[x] + G
    BY <1>0, <1>2, SumAdd
  <2>3. F \in Int /\ G \in Int /\ g[x] \in Int /\ F % n = G % n
    BY <1>0, <1>2
  <2> HIDE DEF F, G
  <2>4. (f[x] + F) % n = (g[x] + F) % n
    BY <2>3, ModPlus
  <2>5. (g[x] + F) % n = (g[x] + (F % n)) % n /\ (g[x] + G) % n = (g[x] + (G % n)) % n
    BY <2>3, ModPlus
  <2>6. (f[x] + F) % n = (g[x] + G) % n
    BY <2>3, <2>4, <2>5
  <2> QED
    BY <2>1, <2>2, <2>6
<1> HIDE DEF W
<1>3. S \in W
  BY <1>1, <1>2, SubsetInduction
<1> QED
  BY <1>3 DEF W

(* A sum over what h makes of S is a sum over S.                             *)
LEMMA SumOfImage ==
  ASSUME NEW S, IsFiniteSet(S), NEW h, \A x, y \in S : h[x] = h[y] => x = y,
         NEW f, NEW g, \A x \in S : f[x] \in Int /\ f[x] = g[h[x]]
  PROVE  SumFunctionOnSet(g, {h[x] : x \in S}) = SumFunctionOnSet(f, S)
<1> DEFINE image(T) == {h[x] : x \in T}
           W == {T \in SUBSET S : IsFiniteSet(image(T))
                                  /\ SumFunctionOnSet(g, image(T)) = SumFunctionOnSet(f, T)}
<1>1. {} \in W
  <2>1. image({}) = {}
    OBVIOUS
  <2> QED
    BY <2>1, SumEmpty, FS_EmptySet
<1>2. ASSUME NEW T \in SUBSET S, NEW x \in S, T \in W, x \notin T PROVE T \cup {x} \in W
  <2>1. image(T \cup {x}) = image(T) \cup {h[x]} /\ h[x] \notin image(T)
    BY <1>2
  <2>2. IsFiniteSet(T) /\ IsFiniteSet(image(T)) /\ IsFiniteSet(image(T) \cup {h[x]})
    BY <1>2, FS_Subset, FS_AddElement
  <2>3. \A y \in image(T) \cup {h[x]} : g[y] \in Int
    OBVIOUS
  <2> HIDE DEF image
  <2>4. SumFunctionOnSet(g, image(T) \cup {h[x]}) = g[h[x]] + SumFunctionOnSet(g, image(T))
    BY <2>1, <2>2, <2>3, SumAdd
  <2>5. SumFunctionOnSet(f, T \cup {x}) = f[x] + SumFunctionOnSet(f, T)
    BY <1>2, <2>2, SumAdd
  <2>6. SumFunctionOnSet(g, image(T)) = SumFunctionOnSet(f, T) /\ f[x] = g[h[x]]
    BY <1>2
  <2>7. SumFunctionOnSet(g, image(T \cup {x})) = SumFunctionOnSet(f, T \cup {x})
    BY <2>1, <2>4, <2>5, <2>6
  <2> QED
    BY <2>1, <2>2, <2>7
<1> HIDE DEF W
<1>3. S \in W
  BY <1>1, <1>2, SubsetInduction
<1> QED
  BY <1>3 DEF W

(* The sum of the negatives.                                                *)
LEMMA SumOfNegatives ==
  ASSUME NEW S, IsFiniteSet(S), NEW f, NEW h,
         \A x \in S : f[x] \in Int /\ h[x] \in Int /\ h[x] = -f[x]
  PROVE  SumFunctionOnSet(h, S) = -SumFunctionOnSet(f, S)
<1> DEFINE z == [x \in S |-> 0]
<1>1. \A x \in S : z[x] = 0 /\ z[x] = f[x] + h[x]
  OBVIOUS
<1> HIDE DEF z
<1>2. SumFunctionOnSet(z, S) = SumFunctionOnSet(f, S) + SumFunctionOnSet(h, S)
  BY <1>1, SumPlus
<1>3. SumFunctionOnSet(z, S) = 0 * Cardinality(S)
  BY <1>1, SumConstant
<1>4. Cardinality(S) \in Nat /\ SumFunctionOnSet(f, S) \in Int /\ SumFunctionOnSet(h, S) \in Int
  BY FS_CardinalityType, SumInt
<1>5. \A n \in Nat : 0 * n = 0
  OBVIOUS
<1> QED
  BY <1>2, <1>3, <1>4, <1>5

(* What one gives another takes: the sum over all pairs is nothing.          *)
LEMMA SumOfOpposites ==
  ASSUME NEW S, IsFiniteSet(S), NEW m,
         \A x, y \in S : m[x][y] \in Int /\ m[x][y] + m[y][x] = 0
  PROVE  SumFunctionOnSet([x \in S |-> SumFunctionOnSet(m[x], S)], S) = 0
<1> DEFINE row == [x \in S |-> SumFunctionOnSet(m[x], S)]
           col == [y \in S |-> SumFunctionOnSet([x \in S |-> m[x][y]], S)]
<1>1. \A x \in S : row[x] \in Int
  BY SumInt
<1>2. ASSUME NEW y \in S PROVE col[y] = -row[y] /\ col[y] \in Int
  <2> DEFINE c == [x \in S |-> m[x][y]]
  <2>1. \A x \in S : c[x] \in Int /\ m[y][x] \in Int /\ c[x] = -m[y][x]
    <3> TAKE x \in S
    <3>1. c[x] = m[x][y] /\ m[x][y] \in Int /\ m[y][x] \in Int /\ m[x][y] + m[y][x] = 0
      OBVIOUS
    <3>2. \A u, v \in Int : u + v = 0 => u = -v
      OBVIOUS
    <3>3. m[x][y] = -m[y][x]
      BY <3>1, <3>2
    <3> HIDE DEF c
    <3> QED
      BY <3>1, <3>3
  <2>2. col[y] = SumFunctionOnSet(c, S) /\ row[y] = SumFunctionOnSet(m[y], S)
    OBVIOUS
  <2> HIDE DEF c, row, col
  <2>3. SumFunctionOnSet(c, S) = -SumFunctionOnSet(m[y], S)
    BY <2>1, SumOfNegatives
  <2> QED
    BY <1>1, <2>2, <2>3
<1>3. SumFunctionOnSet(row, S) = SumFunctionOnSet(col, S)
  BY SumSwap
<1> HIDE DEF row, col
<1>4. SumFunctionOnSet(col, S) = -SumFunctionOnSet(row, S)
  BY <1>1, <1>2, SumOfNegatives
<1>5. SumFunctionOnSet(row, S) \in Int
  BY <1>1, SumInt
<1>6. SumFunctionOnSet(row, S) = 0
  BY <1>3, <1>4, <1>5
<1> QED
  BY <1>6 DEF row

-----------------------------------------------------------------------------
(*****************************************************************************)
(* SecureRecovery: masks, encodings and the range of the ring.               *)
(*****************************************************************************)
(* p's side of the masks it shares with peers. *)
MaskSum(p, peers, s) ==
  SumFunction([q \in peers |-> Signed(p, q, PairMask(input[p].key, input[q].key, s))])

(* p's update passes the checks of the handshake. *)
Valid(p) == WeightValid(p) /\ Encodable(p)

(* The cohort is finite and has at least three clients.                     *)
LEMMA PartiesFinite == IsFiniteSet(Parties) /\ Cardinality(Parties) = N /\ N \in Nat /\ N >= 3
<1>1. N \in Nat /\ N >= 3
  BY CohortAssumption
<1> QED
  BY <1>1, FS_Interval DEF Parties

(* Half the ring, where encoded values turn negative.                       *)
LEMMA RingHalves == Ring \in Nat /\ Ring # 0 /\ Ring \div 2 \in Nat /\ Ring = 2 * (Ring \div 2)
<1>1. Ring \in Nat /\ Ring # 0 /\ Ring % 2 = 0
  BY RingAssumption
<1>2. Ring = 2 * (Ring \div 2) + (Ring % 2)
  BY <1>1
<1> QED
  BY <1>1, <1>2

(* A pair's mask is the same seen from either side.                         *)
LEMMA MaskType ==
  ASSUME input \in Inputs, NEW p \in Parties, NEW q \in Parties, NEW s \in Streams
  PROVE  /\ PairMask(input[p].key, input[q].key, s) \in Int
         /\ PairMask(input[p].key, input[q].key, s) = PairMask(input[q].key, input[p].key, s)
<1>1. input[p].key \in 1..(Field - 1) /\ input[q].key \in 1..(Field - 1)
  BY InputsAssumption
<1>2. Ring \in Nat
  BY RingAssumption
<1> QED
  BY <1>1, <1>2, MaskAssumption

(* What one of a pair adds the other one subtracts: over the whole cohort     *)
(* the masks come to nothing.                                                 *)
LEMMA MasksCancel ==
  ASSUME input \in Inputs, NEW s \in Streams
  PROVE  /\ \A p \in Parties : MaskSum(p, Parties \ {p}, s) \in Int
         /\ SumFunctionOnSet([p \in Parties |-> MaskSum(p, Parties \ {p}, s)], Parties) = 0
<1> DEFINE a == [p \in Parties |-> [q \in Parties |->
                   IF p = q THEN 0 ELSE Signed(p, q, PairMask(input[p].key, input[q].key, s))]]
           total == [p \in Parties |-> SumFunctionOnSet(a[p], Parties)]
           sides == [p \in Parties |-> MaskSum(p, Parties \ {p}, s)]
<1>0. Parties \subseteq Int
  BY PartiesFinite DEF Parties
<1>1. \A p, q \in Parties : a[p][q] \in Int /\ a[p][q] + a[q][p] = 0
  <2> TAKE p, q \in Parties
  <2>1. CASE p = q
    <3>1. a[p][q] = 0 /\ a[q][p] = 0
      BY <2>1
    <3> HIDE DEF a
    <3> QED
      BY <3>1
  <2>2. CASE p # q
    <3> DEFINE k == PairMask(input[p].key, input[q].key, s)
               l == PairMask(input[q].key, input[p].key, s)
    <3>1. a[p][q] = Signed(p, q, k) /\ a[q][p] = Signed(q, p, l)
      BY <2>2
    <3>2. k \in Int /\ k = l
      BY MaskType
    <3> HIDE DEF a, k, l
    <3> QED
      BY <3>1, <3>2, <2>2, <1>0 DEF Signed
  <2> QED
    BY <2>1, <2>2
<1>2. SumFunctionOnSet(total, Parties) = 0
  <2> HIDE DEF a
  <2> QED
    BY <1>1, PartiesFinite, SumOfOpposites
<1>3. ASSUME NEW p \in Parties PROVE sides[p] = total[p] /\ sides[p] \in Int
  <2> DEFINE peers == Parties \ {p}
             b == [q \in peers |-> Signed(p, q, PairMask(input[p].key, input[q].key, s))]
  <2>1. IsFiniteSet(peers) /\ peers \in SUBSET Parties
    BY PartiesFinite, FS_Subset
  <2>2. \A q \in Parties : a[p][q] \in Int
    BY <1>1
  <2>3. \A q \in Parties \ peers : a[p][q] = 0
    OBVIOUS
  <2>4. \A q \in peers : b[q] = a[p][q]
    OBVIOUS
  <2>5. sides[p] = SumFunctionOnSet(b, peers)
    BY DEF MaskSum, SumFunction
  <2>6. total[p] = SumFunctionOnSet(a[p], Parties)
    OBVIOUS
  <2> HIDE DEF a, b, peers, sides, total
  <2>7. SumFunctionOnSet(a[p], Parties) = SumFunctionOnSet(a[p], peers)
    BY <2>1, <2>2, <2>3, PartiesFinite, SumOnSubset
  <2>8. SumFunctionOnSet(b, peers) = SumFunctionOnSet(a[p], peers)
    <3>1. \A q \in peers : b[q] \in Int /\ b[q] = a[p][q]
      BY <2>1, <2>2, <2>4
    <3> QED
      BY <2>1, <3>1, SumEqual
  <2>9. SumFunctionOnSet(b, peers) \in Int
    <3>1. \A q \in peers : b[q] \in Int
      BY <2>1, <2>2, <2>4
    <3> QED
      BY <2>1, <3>1, SumInt
  <2> QED
    BY <2>5, <2>6, <2>7, <2>8, <2>9
<1>4. SumFunctionOnSet(sides, Parties) = SumFunctionOnSet(total, Parties)
  <2> HIDE DEF sides, total
  <2> QED
    BY <1>3, PartiesFinite, SumEqual
<1>5. \A p \in Parties : MaskSum(p, Parties \ {p}, s) \in Int
  BY <1>3
<1> QED
  BY <1>2, <1>4, <1>5

(* Multiplying an inequality by a natural number.                           *)
LEMMA TimesMonotone ==
  ASSUME NEW a \in Int, NEW b \in Int, a <= b, NEW c \in Nat
  PROVE  a * c <= b * c /\ c * a <= c * b
<1>1. PICK e \in Nat : b = a + e
  <2>1. b - a \in Nat /\ b = a + (b - a)
    OBVIOUS
  <2> QED
    BY <2>1
<1>2. b * c = a * c + e * c /\ e * c >= 0 /\ a * c \in Int /\ e * c \in Int
  BY <1>1
<1>3. c * a = a * c /\ c * b = b * c
  OBVIOUS
<1> QED
  BY <1>2, <1>3

(* The worst that a session's profile admits, and what a sum of it decodes to. *)
LEMMA EncodedBounded ==
  ASSUME input \in Inputs, maxWeight \in MaxWeights, NEW p \in Parties, NEW s \in Streams, Valid(p)
  PROVE  /\ Encoded(p)[s] \in Int
         /\ (Magnitude + 1) * maxWeight \in Nat
         /\ Encoded(p)[s] <= (Magnitude + 1) * maxWeight
         /\ -((Magnitude + 1) * maxWeight) <= Encoded(p)[s]
<1> DEFINE d == input[p].delta
           c == input[p].count
           i == input[p].indicator
           B == (Magnitude + 1) * maxWeight
<1>1. Magnitude \in Nat /\ maxWeight \in Nat
  BY ProfileAssumption
<1>2. d \in Int /\ c \in Int /\ i \in {0, 1}
  BY InputsAssumption
<1>3. c \in 1..maxWeight /\ d <= Magnitude /\ -d <= Magnitude
  BY <1>1, <1>2 DEF Valid, WeightValid, Encodable, Encodes, Absolute
<1>4. s \in {"tensor", "weight", "indicator"}
  BY DEF Streams
<1>5. Encoded(p)["tensor"] = d * c /\ Encoded(p)["weight"] = c /\ Encoded(p)["indicator"] = i
  BY DEF Encoded
<1> HIDE DEF d, c, i
<1>6. B \in Nat /\ B = Magnitude * maxWeight + maxWeight /\ Magnitude * maxWeight \in Nat
  BY <1>1
<1>7. d * c \in Int /\ d * c <= Magnitude * maxWeight /\ -(d * c) <= Magnitude * maxWeight
  <2> DEFINE u == d * c
             v == Magnitude * c
             w == Magnitude * maxWeight
  <2>1. c \in Nat /\ c <= maxWeight /\ -d \in Int
    BY <1>1, <1>2, <1>3
  <2>2. d * c <= Magnitude * c /\ (-d) * c <= Magnitude * c /\ Magnitude * c <= Magnitude * maxWeight
    BY <1>1, <1>2, <1>3, <2>1, TimesMonotone
  <2>3. (-d) * c = -(d * c)
    BY <1>2, <2>1
  <2>4. u \in Int /\ v \in Int /\ w \in Int /\ u <= v /\ -u <= v /\ v <= w
    BY <1>1, <1>2, <2>1, <2>2, <2>3
  <2> HIDE DEF u, v, w
  <2>5. u \in Int /\ u <= w /\ -u <= w
    BY <2>4
  <2> QED
    BY <2>5 DEF u, w
<1> HIDE DEF B
<1>8. Encoded(p)[s] = d * c \/ Encoded(p)[s] = c \/ Encoded(p)[s] = i
  BY <1>4, <1>5
<1>9. /\ c \in Int /\ i \in Int /\ c <= B /\ -B <= c /\ i <= B /\ -B <= i
      /\ d * c <= B /\ -B <= d * c
  BY <1>1, <1>2, <1>3, <1>6, <1>7
<1>10. Encoded(p)[s] \in Int /\ B \in Nat /\ Encoded(p)[s] <= B /\ -B <= Encoded(p)[s]
  BY <1>6, <1>7, <1>8, <1>9
<1> QED
  BY <1>10 DEF B

(* No sum of a cohort's updates wraps: the ring gives it back.               *)
LEMMA NothingWraps ==
  ASSUME input \in Inputs, maxWeight \in MaxWeights, DomainSafe(maxWeight),
         NEW S \in SUBSET Parties, \A p \in S : Valid(p), NEW s \in Streams
  PROVE  /\ SumFunctionOnSet([p \in S |-> Encoded(p)[s]], S) \in Int
         /\ SignedValue(SumFunctionOnSet([p \in S |-> Encoded(p)[s]], S) % Ring)
              = SumFunctionOnSet([p \in S |-> Encoded(p)[s]], S)
<1> DEFINE B == (Magnitude + 1) * maxWeight
           e == [p \in S |-> Encoded(p)[s]]
           top == [p \in S |-> B]
           low == [p \in S |-> -B]
           x == SumFunctionOnSet(e, S)
           H == Ring \div 2
<1>1. IsFiniteSet(S) /\ Cardinality(S) \in Nat /\ Cardinality(S) <= N
  BY PartiesFinite, FS_Subset, FS_CardinalityType
<1>2. B \in Nat
  <2>1. Magnitude \in Nat /\ maxWeight \in Nat
    BY ProfileAssumption
  <2> QED
    BY <2>1
<1>3. \A p \in S : e[p] \in Int /\ e[p] <= top[p] /\ low[p] <= e[p] /\ top[p] = B /\ low[p] = -B
  BY EncodedBounded
<1>4. Margin \in Nat /\ N \in Nat
  BY ProfileAssumption, PartiesFinite
<1>5. B * N + Margin < H - 1
  BY DEF DomainSafe
<1> HIDE DEF B, e, top, low
<1>6. B * Cardinality(S) \in Nat /\ B * Cardinality(S) <= B * N /\ B * N \in Nat
  BY <1>1, <1>2, <1>4, TimesMonotone
<1> DEFINE c == B * Cardinality(S)
           d == B * N
<1>7. x \in Int /\ x <= c /\ -c <= x
  <2>1. x \in Int
    BY <1>1, <1>3, SumInt
  <2>2. \A p \in S : top[p] \in Int /\ low[p] \in Int
    BY <1>2, <1>3
  <2>3. x <= SumFunctionOnSet(top, S) /\ SumFunctionOnSet(low, S) <= x
    BY <1>1, <1>3, <2>2, SumMonotone
  <2>4. SumFunctionOnSet(top, S) = B * Cardinality(S)
    BY <1>1, <1>2, <1>3, SumConstant
  <2>5. -B \in Int
    BY <1>2
  <2>6. SumFunctionOnSet(low, S) = (-B) * Cardinality(S)
    BY <1>1, <1>3, <2>5, SumConstant
  <2>7. (-B) * Cardinality(S) = -(B * Cardinality(S))
    BY <1>1, <1>2
  <2>8. SumFunctionOnSet(top, S) = c /\ SumFunctionOnSet(low, S) = -c
    BY <2>4, <2>6, <2>7
  <2> HIDE DEF x, c
  <2> QED
    BY <2>1, <2>3, <2>8
<1>8. H \in Nat /\ Ring = 2 * H /\ Ring \in Nat /\ Ring # 0
  BY RingHalves
<1>12. c \in Nat /\ c <= d /\ d \in Nat /\ d + Margin < H - 1
  BY <1>5, <1>6
<1> HIDE DEF x, H, c, d
<1>9. -(H - 1) < x /\ x < H - 1
  BY <1>4, <1>7, <1>8, <1>12
<1>10. CASE x >= 0
  <2>1. x \in 0..(Ring - 1) /\ ~(x > H - 1)
    BY <1>7, <1>8, <1>9, <1>10
  <2>2. x % Ring = x
    BY <1>8, <2>1, ModSmall
  <2>3. SignedValue(x % Ring) = x
    BY <2>1, <2>2 DEF SignedValue, H
  <2> QED
    BY <1>7, <2>3 DEF x, e
<1>11. CASE x < 0
  <2>1. x + Ring \in 0..(Ring - 1) /\ x + Ring > H - 1 /\ x + Ring * 1 = x + Ring
    BY <1>7, <1>8, <1>9, <1>11
  <2>2. (x + Ring) % Ring = x + Ring
    BY <1>8, <2>1, ModSmall
  <2>3. (x + Ring * 1) % Ring = x % Ring
    <3>1. 1 \in Int
      OBVIOUS
    <3> QED
      BY <1>7, <1>8, <3>1, ModMultiple
  <2>4. x % Ring = x + Ring
    BY <2>1, <2>2, <2>3
  <2>5. SignedValue(x % Ring) = (x + Ring) - Ring
    BY <2>1, <2>4 DEF SignedValue, H
  <2>6. SignedValue(x % Ring) = x
    BY <1>7, <1>8, <2>5
  <2> QED
    BY <1>7, <2>6 DEF x, e
<1> QED
  BY <1>7, <1>10, <1>11 DEF x, e

-----------------------------------------------------------------------------
(*****************************************************************************)
(* SecureRecovery: polynomials over the field, and what too few shares tell. *)
(*****************************************************************************)
(* Terms with equal remainders have sums with equal remainders.             *)
LEMMA SumCongruent ==
  ASSUME NEW S, IsFiniteSet(S), NEW n \in Nat, n # 0, NEW f, NEW g,
         \A x \in S : f[x] \in Int /\ g[x] \in Int /\ f[x] % n = g[x] % n
  PROVE  SumFunctionOnSet(f, S) % n = SumFunctionOnSet(g, S) % n
<1> DEFINE r == [x \in S |-> f[x] % n]
<1>1. \A x \in S : r[x] = f[x] % n /\ r[x] = g[x] % n
  OBVIOUS
<1> HIDE DEF r
<1>2. SumFunctionOnSet(r, S) % n = SumFunctionOnSet(f, S) % n
  BY <1>1, SumOfRemainders
<1>3. SumFunctionOnSet(r, S) % n = SumFunctionOnSet(g, S) % n
  BY <1>1, SumOfRemainders
<1> QED
  BY <1>2, <1>3

(* What the secret sharing needs of the field and the threshold.            *)
LEMMA FieldFacts ==
  /\ Field \in Nat /\ Field > 1 /\ Field # 0
  /\ Threshold \in Nat /\ Threshold >= 2
  /\ 1..Threshold \subseteq Nat /\ IsFiniteSet(1..Threshold)
<1>1. N \in Nat /\ N >= 3
  BY PartiesFinite
<1>2. Field \in Nat /\ Field > N /\ Threshold \in 2..(N - 1)
  BY FieldAssumption, ThresholdAssumption
<1>3. IsFiniteSet(1..Threshold)
  BY <1>1, <1>2, FS_Interval
<1> QED
  BY <1>1, <1>2, <1>3

(* The loop's powers. *)
LEMMA PowersAre ==
  ASSUME NEW x \in Int
  PROVE  /\ Powers(x)[1] = 1
         /\ \A i \in 2..Threshold : Powers(x)[i] = (Powers(x)[i - 1] * x) % Field
         /\ \A i \in 1..Threshold : Powers(x)[i] \in Int
<1> DEFINE Value(power, i) == IF i = 1 THEN 1 ELSE (power[i - 1] * x) % Field
           Filled(power) == [i \in 1..Threshold |-> Value(power, i)]
           Numbers == {n \in Nat : \E power : \A i \in 1..Threshold : i <= n => power[i] = Value(power, i)}
<1>0. Threshold \in Nat /\ Threshold >= 2 /\ Field \in Nat /\ Field # 0
  BY FieldFacts
<1>1. 0 \in Numbers
  <2>1. \A i \in 1..Threshold : ~(i <= 0)
    OBVIOUS
  <2> QED
    BY <2>1
<1>2. ASSUME NEW n \in Nat, n \in Numbers PROVE n + 1 \in Numbers
  <2>1. PICK power : \A i \in 1..Threshold : i <= n => power[i] = Value(power, i)
    BY <1>2
  <2>2. ASSUME NEW i \in 1..Threshold, i <= n + 1 PROVE Filled(power)[i] = Value(Filled(power), i)
    <3>1. CASE i = 1
      BY <3>1
    <3>2. CASE i # 1
      <4>1. i - 1 \in 1..Threshold /\ i - 1 <= n
        BY <1>0, <2>2, <3>2
      <4>2. power[i - 1] = Filled(power)[i - 1]
        BY <2>1, <4>1
      <4> QED
        BY <3>2, <4>2
    <3> QED
      BY <3>1, <3>2
  <2>3. \A i \in 1..Threshold : i <= n + 1 => Filled(power)[i] = Value(Filled(power), i)
    BY <2>2
  <2> HIDE DEF Filled, Value
  <2> QED
    BY <2>3
<1>3. Threshold \in Numbers
  <2> HIDE DEF Numbers
  <2> QED
    BY <1>0, <1>1, <1>2, SetInduction
<1>4. PICK p : \A i \in 1..Threshold : p[i] = Value(p, i)
  BY <1>0, <1>3
<1> DEFINE q == Filled(p)
<1>5. \A i \in 1..Threshold : q[i] = p[i]
  BY <1>4
<1>6. \A i \in 1..Threshold : Value(q, i) = Value(p, i)
  <2> TAKE i \in 1..Threshold
  <2>1. CASE i = 1
    BY <2>1
  <2>2. CASE i # 1
    <3>1. i - 1 \in 1..Threshold
      BY <1>0, <2>2
    <3>2. q[i - 1] = p[i - 1]
      BY <1>5, <3>1
    <3> HIDE DEF q
    <3> QED
      BY <2>2, <3>2
  <2> QED
    BY <2>1, <2>2
<1>7. q = [i \in 1..Threshold |-> Value(q, i)]
  <2>1. q = [i \in 1..Threshold |-> Value(p, i)]
    OBVIOUS
  <2> HIDE DEF q, Value
  <2> QED
    BY <1>6, <2>1
<1> HIDE DEF q
<1> DEFINE Chosen == CHOOSE power : power = [i \in 1..Threshold |-> Value(power, i)]
<1>8. Powers(x) = Chosen
  BY DEF Powers
<1>9. Chosen = [i \in 1..Threshold |-> Value(Chosen, i)]
  <2>1. \E power : power = [i \in 1..Threshold |-> Value(power, i)]
    BY <1>7
  <2> HIDE DEF Value
  <2> QED
    BY <2>1
<1> HIDE DEF Chosen
<1>10. \A i \in 1..Threshold : Powers(x)[i] = Value(Powers(x), i)
  BY <1>8, <1>9
<1>11. Powers(x)[1] = 1 /\ \A i \in 2..Threshold : Powers(x)[i] = (Powers(x)[i - 1] * x) % Field
  BY <1>0, <1>10
<1> DEFINE Ints == {n \in Nat : n \in 1..Threshold => Powers(x)[n] \in Int}
<1>12. 0 \in Ints
  OBVIOUS
<1>13. ASSUME NEW n \in Nat, n \in Ints PROVE n + 1 \in Ints
  <2> SUFFICES ASSUME n + 1 \in 1..Threshold PROVE Powers(x)[n + 1] \in Int
    OBVIOUS
  <2>1. CASE n = 0
    BY <2>1, <1>11
  <2>2. CASE n # 0
    <3>1. n \in 1..Threshold /\ n + 1 \in 2..Threshold /\ (n + 1) - 1 = n
      BY <1>0, <2>2
    <3>2. Powers(x)[n] \in Int /\ Powers(x)[n + 1] = (Powers(x)[n] * x) % Field
      BY <1>11, <1>13, <3>1
    <3>3. Powers(x)[n] * x \in Int
      BY <3>2
    <3>4. (Powers(x)[n] * x) % Field \in 0..(Field - 1)
      BY <1>0, <3>3, DivMod
    <3> QED
      BY <1>0, <3>2, <3>4
  <2> QED
    BY <2>1, <2>2
<1>14. Nat \subseteq Ints
  <2> HIDE DEF Ints
  <2> QED
    BY <1>12, <1>13, SetInduction
<1> QED
  BY <1>0, <1>11, <1>14

(* A polynomial's value at x. *)
Terms(c, x) == [i \in 1..Threshold |-> c[i] * Powers(x)[i]]

(* A polynomial's value is the remainder of the sum of its terms.           *)
LEMMA AtIs ==
  ASSUME NEW x \in Int, NEW c, \A i \in 1..Threshold : c[i] \in Int
  PROVE  /\ \A i \in 1..Threshold : Terms(c, x)[i] \in Int /\ Terms(c, x)[i] = c[i] * Powers(x)[i]
         /\ SumFunctionOnSet(Terms(c, x), 1..Threshold) \in Int
         /\ At(c, x) = SumFunctionOnSet(Terms(c, x), 1..Threshold) % Field
         /\ At(c, x) \in 0..(Field - 1)
<1>1. \A i \in 1..Threshold : Terms(c, x)[i] \in Int /\ Terms(c, x)[i] = c[i] * Powers(x)[i]
  BY PowersAre DEF Terms
<1>2. SumFunctionOnSet(Terms(c, x), 1..Threshold) \in Int
  BY <1>1, FieldFacts, SumInt
<1>3. At(c, x) = SumFunctionOnSet(Terms(c, x), 1..Threshold) % Field
  BY DEF At, SumFunction, Terms
<1> QED
  BY <1>1, <1>2, <1>3, FieldFacts, DivMod

(* c times 1 - u x, as long as the degree allows it. *)
Factored(c, u) == [i \in 1..Threshold |-> (c[i] - (IF i = 1 THEN 0 ELSE u * c[i - 1])) % Field]

(* The product's coefficients are in the field.                             *)
LEMMA FactoredType ==
  ASSUME NEW c, \A i \in 1..Threshold : c[i] \in Int, NEW u \in Int, NEW i \in 1..Threshold
  PROVE  Factored(c, u)[i] \in 0..(Field - 1)
<1>1. (IF i = 1 THEN 0 ELSE u * c[i - 1]) \in Int
  <2>1. CASE i = 1
    BY <2>1
  <2>2. CASE i # 1
    <3>1. i - 1 \in 1..Threshold
      BY <2>2, FieldFacts
    <3> QED
      BY <3>1, <2>2
  <2> QED
    BY <2>1, <2>2
<1> DEFINE d == IF i = 1 THEN 0 ELSE u * c[i - 1]
<1>2. Factored(c, u)[i] = (c[i] - d) % Field
  BY DEF Factored
<1>3. d \in Int /\ c[i] \in Int
  BY <1>1
<1> HIDE DEF d
<1>4. c[i] - d \in Int
  BY <1>3
<1> QED
  BY <1>2, <1>4, FieldFacts, DivMod

(* The product's value is the product of the values.                        *)
LEMMA AtFactored ==
  ASSUME NEW c, \A i \in 1..Threshold : c[i] \in Int, c[Threshold] = 0, NEW u \in Int, NEW x \in Int
  PROVE  At(Factored(c, u), x) = (At(c, x) * (1 - u * x)) % Field
<1> DEFINE I == 1..Threshold
           P == Powers(x)
           g == Terms(c, x)
           f == Terms(Factored(c, u), x)
           h == [i \in I |-> IF i = 1 THEN 0 ELSE c[i - 1] * P[i]]
           k == [i \in I |-> g[i] - u * h[i]]
           G == SumFunctionOnSet(g, I)
           H == SumFunctionOnSet(h, I)
<1>0. /\ IsFiniteSet(I) /\ Field \in Nat /\ Field # 0 /\ Threshold \in Nat /\ Threshold >= 2
      /\ \A i \in I : P[i] \in Int
  BY FieldFacts, PowersAre
<1>1. \A i \in I : g[i] \in Int /\ g[i] = c[i] * P[i]
  BY AtIs
<1>2. At(c, x) = G % Field /\ G \in Int
  BY AtIs
<1>3. \A i \in I : Factored(c, u)[i] \in Int
  BY FactoredType
<1>4. \A i \in I : f[i] \in Int /\ f[i] = Factored(c, u)[i] * P[i]
  BY <1>3, AtIs
<1>5. At(Factored(c, u), x) = SumFunctionOnSet(f, I) % Field
  BY <1>3, AtIs
<1>6. \A i \in I : h[i] \in Int
  <2> TAKE i \in I
  <2>1. CASE i = 1
    BY <2>1
  <2>2. CASE i # 1
    <3>1. i - 1 \in I
      BY <2>2, <1>0
    <3> QED
      BY <3>1, <2>2, <1>0
  <2> QED
    BY <2>1, <2>2
<1>7. ASSUME NEW i \in I PROVE k[i] \in Int /\ f[i] % Field = k[i] % Field
  <2> DEFINE d == IF i = 1 THEN 0 ELSE u * c[i - 1]
  <2>1. Factored(c, u)[i] = (c[i] - d) % Field
    BY DEF Factored
  <2>2. d \in Int /\ d * P[i] = u * h[i] /\ c[i] \in Int /\ P[i] \in Int
    <3>1. CASE i = 1
      <4>1. d = 0 /\ h[i] = 0 /\ P[i] \in Int /\ 0 * P[i] = 0 /\ u * 0 = 0
        BY <3>1, <1>0
      <4> HIDE DEF d, h
      <4> QED
        BY <4>1
    <3>2. CASE i # 1
      <4>1. i - 1 \in I
        BY <3>2, <1>0
      <4>2. d = u * c[i - 1] /\ h[i] = c[i - 1] * P[i] /\ c[i - 1] \in Int /\ P[i] \in Int
        BY <3>2, <4>1, <1>0
      <4> HIDE DEF d, h, P
      <4>3. (u * c[i - 1]) * P[i] = u * (c[i - 1] * P[i])
        BY <4>2
      <4> QED
        BY <4>2, <4>3
    <3> QED
      BY <3>1, <3>2
  <2>3. k[i] = g[i] - u * h[i] /\ h[i] \in Int /\ g[i] \in Int /\ g[i] = c[i] * P[i]
    BY <1>1, <1>6
  <2>4. f[i] = Factored(c, u)[i] * P[i]
    BY <1>4
  <2> HIDE DEF d, k, h, g, f, P
  <2>5. k[i] \in Int
    BY <2>3
  <2>6. (c[i] - d) * P[i] = k[i]
    <3>1. (c[i] - d) * P[i] = c[i] * P[i] - d * P[i]
      BY <2>2
    <3> QED
      BY <2>2, <2>3, <3>1
  <2>7. c[i] - d \in Int
    BY <2>2
  <2>8. (((c[i] - d) % Field) * P[i]) % Field = ((c[i] - d) * P[i]) % Field
    BY <1>0, <2>2, <2>7, ModTimes
  <2> QED
    BY <2>1, <2>4, <2>5, <2>6, <2>8
<1>8. SumFunctionOnSet(f, I) % Field = SumFunctionOnSet(k, I) % Field
  <2>1. \A i \in I : f[i] \in Int /\ k[i] \in Int /\ f[i] % Field = k[i] % Field
    BY <1>4, <1>7
  <2> HIDE DEF f, k, I
  <2> QED
    BY <1>0, <2>1, SumCongruent
<1>9. H \in Int /\ SumFunctionOnSet(k, I) = G - u * H
  <2> DEFINE m == [i \in I |-> u * h[i]]
  <2>1. \A i \in I : m[i] \in Int /\ m[i] = u * h[i]
    BY <1>6
  <2>2. \A i \in I : k[i] \in Int /\ k[i] = g[i] - u * h[i]
    BY <1>7
  <2> HIDE DEF m, k, h, g, I
  <2>3. H \in Int /\ SumFunctionOnSet(m, I) \in Int /\ SumFunctionOnSet(k, I) \in Int
    BY <1>0, <1>6, <2>1, <2>2, SumInt
  <2>4. SumFunctionOnSet(m, I) = u * H
    BY <1>0, <1>6, <2>1, SumTimes
  <2>5. \A i \in I : g[i] = k[i] + m[i]
    <3> TAKE i \in I
    <3>1. k[i] \in Int /\ m[i] \in Int /\ g[i] \in Int /\ k[i] = g[i] - m[i]
      BY <1>1, <2>1, <2>2
    <3> QED
      BY <3>1
  <2>6. G = SumFunctionOnSet(k, I) + SumFunctionOnSet(m, I)
    BY <1>0, <1>1, <2>1, <2>2, <2>5, SumPlus
  <2>7. SumFunctionOnSet(k, I) = G - SumFunctionOnSet(m, I)
    <3> HIDE DEF G
    <3> QED
      BY <1>2, <2>3, <2>6
  <2> QED
    BY <2>3, <2>4, <2>7
<1>10. H % Field = (x * G) % Field
  <2> DEFINE J == 1..(Threshold - 1)
             next == [j \in J |-> j + 1]
             low == [j \in J |-> h[j + 1]]
             up == [j \in J |-> x * g[j]]
             K == {next[j] : j \in J}
  <2>1. K = I \ {1}
    <3>1. \A j \in J : j + 1 \in I \ {1}
      BY <1>0
    <3>2. \A i \in I \ {1} : i - 1 \in J /\ (i - 1) + 1 = i
      BY <1>0
    <3> QED
      BY <3>1, <3>2
  <2>2. IsFiniteSet(J) /\ J \in SUBSET I /\ I \ J = {Threshold}
    <3>1. 1 \in Int /\ Threshold - 1 \in Int
      BY <1>0
    <3>2. IsFiniteSet(1..(Threshold - 1))
      BY <3>1, FS_Interval
    <3>3. J \in SUBSET I /\ I \ J = {Threshold}
      BY <1>0
    <3> QED
      BY <3>2, <3>3
  <2>3. H = SumFunctionOnSet(h, I \ {1})
    <3>1. 1 \in I /\ h[1] = 0
      BY <1>0
    <3>2. I \ {1} \in SUBSET I /\ \A i \in I \ (I \ {1}) : h[i] = 0
      BY <3>1
    <3> HIDE DEF h, I
    <3> QED
      BY <1>0, <1>6, <3>2, SumOnSubset
  <2>4. SumFunctionOnSet(h, K) = SumFunctionOnSet(low, J)
    <3>1. \A j \in J : next[j] = j + 1 /\ low[j] = h[j + 1] /\ j + 1 \in I
      BY <1>0
    <3>2. \A j, l \in J : next[j] = next[l] => j = l
      BY <3>1
    <3>3. \A j \in J : low[j] \in Int /\ low[j] = h[next[j]]
      BY <3>1, <1>6
    <3> HIDE DEF next, low, h, J, I
    <3> QED
      BY <2>2, <3>2, <3>3, SumOfImage
  <2>5. ASSUME NEW j \in J PROVE /\ low[j] \in Int /\ up[j] \in Int
                                 /\ low[j] % Field = up[j] % Field
    <3>1. j + 1 \in I /\ j + 1 # 1 /\ (j + 1) - 1 = j /\ j \in I /\ j + 1 \in 2..Threshold
      BY <1>0
    <3>2. low[j] = c[j] * P[j + 1] /\ up[j] = x * g[j]
      BY <3>1
    <3>3. P[j + 1] = (P[j] * x) % Field /\ P[j] \in Int /\ c[j] \in Int /\ g[j] = c[j] * P[j]
      BY <3>1, <1>1, PowersAre
    <3>4. low[j] \in Int /\ up[j] \in Int
      BY <3>1, <1>1, <1>6
    <3> HIDE DEF low, up, g, P, h
    <3>5. P[j] * x \in Int
      BY <3>3
    <3>6. (c[j] * ((P[j] * x) % Field)) % Field = (c[j] * (P[j] * x)) % Field
      BY <1>0, <3>3, <3>5, ModTimes
    <3>7. c[j] * (P[j] * x) = x * (c[j] * P[j])
      BY <3>3
    <3> QED
      BY <3>2, <3>3, <3>4, <3>6, <3>7
  <2>6. SumFunctionOnSet(low, J) % Field = SumFunctionOnSet(up, J) % Field
    <3> HIDE DEF low, up, J
    <3> QED
      BY <1>0, <2>2, <2>5, SumCongruent
  <2>7. SumFunctionOnSet(up, J) = x * SumFunctionOnSet(g, J)
    <3>1. \A j \in J : g[j] \in Int /\ up[j] \in Int /\ up[j] = x * g[j]
      BY <1>1, <2>2, <2>5
    <3> HIDE DEF up, g, J
    <3> QED
      BY <2>2, <3>1, SumTimes
  <2>8. SumFunctionOnSet(g, I) = SumFunctionOnSet(g, J)
    <3>1. g[Threshold] = 0
      <4>1. Threshold \in I /\ P[Threshold] \in Int
        BY <1>0
      <4>2. g[Threshold] = 0 * P[Threshold]
        BY <4>1, <1>1
      <4> HIDE DEF g, P
      <4> QED
        BY <4>1, <4>2
    <3>2. \A i \in I \ J : g[i] = 0
      BY <2>2, <3>1
    <3> HIDE DEF g, I, J
    <3> QED
      BY <1>0, <1>1, <2>2, <3>2, SumOnSubset
  <2> HIDE DEF low, up, K, J, I, h, g
  <2> QED
    BY <2>1, <2>3, <2>4, <2>6, <2>7, <2>8
<1> HIDE DEF G, H, f, g, h, k, I, P
<1>11. At(Factored(c, u), x) = (G - u * H) % Field
  BY <1>5, <1>8, <1>9
<1>12. (G - u * H) % Field = (G - u * (x * G)) % Field
  <2>1. u * H \in Int /\ x * G \in Int /\ u * (x * G) \in Int /\ -u \in Int
    BY <1>2, <1>9
  <2>2. ((-u) * (H % Field)) % Field = ((-u) * H) % Field
    BY <1>0, <1>9, <2>1, ModTimes
  <2>3. ((-u) * ((x * G) % Field)) % Field = ((-u) * (x * G)) % Field
    BY <1>0, <2>1, ModTimes
  <2>4. (-u) * H \in Int /\ (-u) * (x * G) \in Int
    BY <1>9, <2>1
  <2>5. (G + (-u) * H) % Field = (G + (((-u) * H) % Field)) % Field
    BY <1>0, <1>2, <2>4, ModPlus
  <2>6. (G + (-u) * (x * G)) % Field = (G + (((-u) * (x * G)) % Field)) % Field
    BY <1>0, <1>2, <2>4, ModPlus
  <2>7. G - u * H = G + (-u) * H /\ G - u * (x * G) = G + (-u) * (x * G)
    BY <1>2, <1>9, <2>1
  <2> QED
    BY <1>10, <2>2, <2>3, <2>5, <2>6, <2>7
<1>13. G - u * (x * G) = G * (1 - u * x) /\ 1 - u * x \in Int
  BY <1>2
<1>14. (G * (1 - u * x)) % Field = ((G % Field) * (1 - u * x)) % Field
  BY <1>0, <1>2, <1>13, ModTimes
<1> QED
  BY <1>2, <1>11, <1>12, <1>13, <1>14

(* A sum with a multiple, multiplied.                                       *)
LEMMA Distributes ==
  ASSUME NEW a \in Int, NEW b \in Int, NEW d \in Int, NEW m \in Int
  PROVE  (a + m * b) * d = a * d + m * (b * d)
<1>1. m * b \in Int /\ (m * b) * d = m * (b * d)
  OBVIOUS
<1>2. \A x \in Int : (a + x) * d = a * d + x * d
  OBVIOUS
<1> QED
  BY <1>1, <1>2

(* A factor that vanishes makes the product vanish.                         *)
LEMMA Root ==
  ASSUME NEW a \in Int, NEW u \in Int, NEW x \in Int, (u * x) % Field = 1
  PROVE  (a * (1 - u * x)) % Field = 0
<1> DEFINE p == u * x
<1>1. p \in Int /\ p % Field = 1
  OBVIOUS
<1> HIDE DEF p
<1>2. PICK q \in Int : p = Field * q + 1
  <2>1. Field \in Nat /\ Field # 0
    BY FieldFacts
  <2>2. p \div Field \in Int /\ p = Field * (p \div Field) + (p % Field)
    BY <1>1, <2>1, DivMod
  <2> QED
    BY <1>1, <2>2
<1>3. a * (1 - p) = 0 + Field * (a * (-q))
  <2>1. Field \in Int
    BY FieldFacts
  <2>2. 1 - p = Field * (-q)
    BY <1>2, <2>1
  <2>3. a * (Field * (-q)) = Field * (a * (-q)) /\ Field * (a * (-q)) \in Int
    BY <2>1
  <2> QED
    BY <2>2, <2>3
<1>4. a * (-q) \in Int /\ 0 \in Int
  BY <1>2
<1>5. (a * (1 - p)) % Field = 0 % Field
  <2> DEFINE t == a * (-q)
  <2>1. Field \in Nat /\ Field # 0
    BY FieldFacts
  <2>2. t \in Int /\ 0 \in Int /\ a * (1 - p) = 0 + Field * t
    BY <1>3, <1>4
  <2> HIDE DEF t
  <2>3. (0 + Field * t) % Field = 0 % Field
    BY <2>1, <2>2, ModMultiple
  <2> QED
    BY <2>2, <2>3
<1>6. 0 % Field = 0
  BY FieldFacts
<1> QED
  BY <1>5, <1>6 DEF p

(* A polynomial of the constant term 1 that is 0 at every point of a set, and *)
(* of the degree that takes.                                                  *)
Vanishes(z, T) ==
  /\ z \in [1..Threshold -> 0..(Field - 1)] /\ z[1] = 1
  /\ \A i \in 1..Threshold : i > Cardinality(T) + 1 => z[i] = 0
  /\ \A x \in T : At(z, x) = 0

(* Fewer points than the threshold are the zeros of a polynomial that is 1 at 0. *)
LEMMA ZeroPolynomial ==
  ASSUME NEW A, IsFiniteSet(A), A \subseteq 1..(Field - 1), Cardinality(A) < Threshold
  PROVE  \E z : Vanishes(z, A)
<1> DEFINE W == {T \in SUBSET A : \E z : Vanishes(z, T)}
<1>0. /\ Field \in Nat /\ Field > 1 /\ Field # 0 /\ Threshold \in Nat /\ Threshold >= 2
      /\ Cardinality(A) \in Nat
  BY FieldFacts, FS_CardinalityType
<1>1. {} \in W
  <2> DEFINE z == [i \in 1..Threshold |-> IF i = 1 THEN 1 ELSE 0]
  <2>1. z \in [1..Threshold -> 0..(Field - 1)] /\ z[1] = 1
    BY <1>0
  <2>2. \A i \in 1..Threshold : i > Cardinality({}) + 1 => z[i] = 0
    BY FS_EmptySet
  <2>3. Vanishes(z, {})
    BY <2>1, <2>2 DEF Vanishes
  <2> QED
    BY <2>3
<1>2. ASSUME NEW T \in SUBSET A, NEW x \in A, T \in W, x \notin T
      PROVE  T \cup {x} \in W
  <2>1. PICK z : Vanishes(z, T)
    BY <1>2
  <2>2. /\ IsFiniteSet(T) /\ Cardinality(T) \in Nat /\ Cardinality(T \cup {x}) = Cardinality(T) + 1
        /\ Cardinality(T \cup {x}) < Threshold
    <3>1. IsFiniteSet(T) /\ IsFiniteSet(T \cup {x}) /\ T \cup {x} \in SUBSET A
      BY FS_Subset
    <3>2. Cardinality(T) \in Nat /\ Cardinality(T \cup {x}) = Cardinality(T) + 1
      BY <3>1, <1>2, FS_AddElement, FS_CardinalityType
    <3>3. Cardinality(T \cup {x}) <= Cardinality(A)
      BY <3>1, FS_Subset
    <3> QED
      BY <1>0, <3>1, <3>2, <3>3
  <2>3. PICK u \in 1..(Field - 1) : (u * x) % Field = 1
    BY FieldAssumption
  <2>4. /\ \A i \in 1..Threshold : z[i] \in Int
        /\ z[1] = 1 /\ z[Threshold] = 0
        /\ \A i \in 1..Threshold : i > Cardinality(T) + 1 => z[i] = 0
    <3>1. Threshold \in 1..Threshold /\ Threshold > Cardinality(T) + 1
      BY <1>0, <2>2
    <3>2. \A i \in 1..Threshold : z[i] \in 0..(Field - 1)
      BY <2>1 DEF Vanishes
    <3> QED
      BY <1>0, <2>1, <3>1, <3>2 DEF Vanishes
  <2>5. u \in Int /\ x \in Int /\ \A y \in T : y \in Int
    BY <1>0
  <2> DEFINE w == Factored(z, u)
  <2>6. w \in [1..Threshold -> 0..(Field - 1)]
    <3>1. \A i \in 1..Threshold : w[i] \in 0..(Field - 1)
      BY <2>4, <2>5, FactoredType
    <3> QED
      BY <3>1 DEF Factored
  <2>7. w[1] = 1
    <3>1. 1 \in 1..Threshold
      BY <1>0
    <3>2. w[1] = (1 - 0) % Field
      BY <3>1, <2>4 DEF Factored
    <3> QED
      BY <3>2, <1>0
  <2>8. ASSUME NEW i \in 1..Threshold, i > Cardinality(T \cup {x}) + 1
        PROVE  w[i] = 0
    <3>1. i # 1 /\ i - 1 \in 1..Threshold /\ i - 1 > Cardinality(T) + 1 /\ i > Cardinality(T) + 1
      BY <1>0, <2>2, <2>8
    <3>2. z[i] = 0 /\ z[i - 1] = 0
      BY <3>1, <2>4
    <3>3. w[i] = (0 - u * 0) % Field
      BY <3>1, <3>2 DEF Factored
    <3>4. 0 - u * 0 = 0 /\ 0 % Field = 0
      BY <1>0, <2>5
    <3> QED
      BY <3>3, <3>4
  <2>9. ASSUME NEW y \in T \cup {x}
        PROVE  At(w, y) = 0
    <3>1. At(w, y) = (At(z, y) * (1 - u * y)) % Field
      BY <2>4, <2>5, AtFactored
    <3>2. CASE y \in T
      <4>1. At(z, y) = 0
        BY <2>1, <3>2 DEF Vanishes
      <4>2. 1 - u * y \in Int
        BY <2>5, <3>2
      <4>3. 0 * (1 - u * y) = 0 /\ 0 % Field = 0
        BY <4>2, <1>0
      <4> QED
        BY <3>1, <4>1, <4>3
    <3>3. CASE y = x
      <4>1. At(z, x) \in Int
        <5>1. At(z, x) \in 0..(Field - 1)
          BY <2>4, <2>5, AtIs
        <5> QED
          BY <5>1
      <4> QED
        BY <3>1, <3>3, <4>1, <2>3, <2>5, Root
    <3> QED
      BY <3>2, <3>3
  <2> HIDE DEF w
  <2>10. Vanishes(w, T \cup {x})
    BY <2>6, <2>7, <2>8, <2>9 DEF Vanishes
  <2> QED
    BY <2>10
<1> HIDE DEF W
<1>3. A \in W
  BY <1>1, <1>2, SubsetInduction
<1> QED
  BY <1>3 DEF W

(* Fewer points than the threshold leave every key possible.                  *)
LEMMA AnyKeyFits ==
  ASSUME NEW A, IsFiniteSet(A), A \subseteq 1..(Field - 1), Cardinality(A) < Threshold,
         NEW c \in [1..Threshold -> 0..(Field - 1)], NEW key \in 1..(Field - 1)
  PROVE  \E d \in [1..Threshold -> 0..(Field - 1)] :
           d[1] = key /\ \A x \in A : At(d, x) = At(c, x)
<1>0. /\ Field \in Nat /\ Field > 1 /\ Field # 0 /\ Threshold \in Nat /\ Threshold >= 2
      /\ IsFiniteSet(1..Threshold) /\ 1 \in 1..Threshold
  BY FieldFacts
<1>1. PICK z : Vanishes(z, A)
  BY ZeroPolynomial
<1>2. /\ \A i \in 1..Threshold : c[i] \in Int /\ z[i] \in Int
      /\ z[1] = 1 /\ key \in Int /\ \A x \in A : x \in Int /\ At(z, x) = 0
  <2>1. \A i \in 1..Threshold : c[i] \in 0..(Field - 1) /\ z[i] \in 0..(Field - 1)
    BY <1>1 DEF Vanishes
  <2> QED
    BY <2>1, <1>0, <1>1 DEF Vanishes
<1> DEFINE e == key - c[1]
           d == [i \in 1..Threshold |-> (c[i] + e * z[i]) % Field]
<1>3. e \in Int /\ c[1] + e = key
  BY <1>0, <1>2
<1> HIDE DEF e
<1>4. \A i \in 1..Threshold : e * z[i] \in Int
  BY <1>2, <1>3
<1>5. ASSUME NEW i \in 1..Threshold
      PROVE  d[i] = (c[i] + e * z[i]) % Field /\ d[i] \in 0..(Field - 1)
  <2> DEFINE b == e * z[i]
  <2>1. b \in Int /\ c[i] \in Int
    BY <1>2, <1>4
  <2> HIDE DEF b
  <2>2. c[i] + b \in Int
    BY <2>1
  <2>3. (c[i] + b) % Field \in 0..(Field - 1)
    BY <1>0, <2>2, DivMod
  <2> QED
    BY <2>3 DEF b
<1>6. d \in [1..Threshold -> 0..(Field - 1)]
  BY <1>5
<1>7. d[1] = key
  <2>1. e * 1 = e /\ key \in 0..(Field - 1)
    BY <1>0, <1>3
  <2>2. d[1] = key % Field
    BY <1>0, <1>2, <1>3, <1>5, <2>1
  <2> QED
    BY <2>1, <2>2, <1>0, ModSmall
<1> HIDE DEF d
<1>8. ASSUME NEW x \in A
      PROVE  At(d, x) = At(c, x)
  <2> DEFINE f == Terms(d, x)
             g == Terms(c, x)
             h == Terms(z, x)
             m == [i \in 1..Threshold |-> e * h[i]]
             k == [i \in 1..Threshold |-> g[i] + m[i]]
             I == 1..Threshold
             G == SumFunctionOnSet(g, I)
             H == SumFunctionOnSet(h, I)
  <2>1. \A i \in 1..Threshold : d[i] \in Int
    <3> TAKE i \in 1..Threshold
    <3>1. d[i] \in 0..(Field - 1)
      BY <1>5
    <3> QED
      BY <3>1
  <2>2. /\ \A i \in 1..Threshold : /\ f[i] \in Int /\ f[i] = d[i] * Powers(x)[i]
                                   /\ g[i] \in Int /\ g[i] = c[i] * Powers(x)[i]
                                   /\ h[i] \in Int /\ h[i] = z[i] * Powers(x)[i]
        /\ G \in Int /\ H \in Int
        /\ At(d, x) = SumFunctionOnSet(f, I) % Field
        /\ At(c, x) = G % Field /\ At(z, x) = H % Field
    BY <1>2, <2>1, AtIs
  <2>3. \A i \in 1..Threshold : Powers(x)[i] \in Int
    BY <1>2, PowersAre
  <2>4. \A i \in 1..Threshold : m[i] \in Int /\ m[i] = e * h[i]
    BY <2>2, <1>3
  <2>5. \A i \in 1..Threshold : k[i] \in Int /\ k[i] = g[i] + m[i]
    BY <2>2, <2>4
  <2> HIDE DEF f, g, h, m, k
  <2>6. ASSUME NEW i \in 1..Threshold
        PROVE  f[i] % Field = k[i] % Field
    <3> DEFINE b == c[i] + e * z[i]
               p == Powers(x)[i]
    <3>1. b \in Int /\ p \in Int /\ e * z[i] \in Int
      BY <1>2, <1>4, <2>3
    <3>2. b * p = c[i] * p + e * (z[i] * p)
      <4>1. c[i] \in Int /\ z[i] \in Int /\ e \in Int
        BY <1>2, <1>3
      <4> DEFINE u == c[i]
                 v == z[i]
      <4>2. u \in Int /\ v \in Int /\ b = u + e * v
        BY <4>1
      <4> HIDE DEF b, p, u, v
      <4>3. (u + e * v) * p = u * p + e * (v * p)
        BY <3>1, <4>1, <4>2, Distributes
      <4>4. b * p = u * p + e * (v * p)
        BY <4>2, <4>3
      <4> QED
        BY <4>4 DEF u, v
    <3>3. f[i] = (b % Field) * p
      BY <1>5, <2>2
    <3>4. k[i] = c[i] * p + e * (z[i] * p)
      BY <2>2, <2>4, <2>5
    <3> HIDE DEF b, p
    <3>5. ((b % Field) * p) % Field = (b * p) % Field
      BY <1>0, <3>1, ModTimes
    <3> QED
      BY <3>2, <3>3, <3>4, <3>5
  <2> IsFiniteSet(I)
    BY <1>0
  <2>a. \A i \in I : /\ f[i] \in Int /\ k[i] \in Int /\ f[i] % Field = k[i] % Field
                    /\ m[i] \in Int /\ h[i] \in Int /\ m[i] = e * h[i]
                    /\ g[i] \in Int /\ k[i] = g[i] + m[i]
    BY <2>2, <2>4, <2>5, <2>6
  <2> HIDE DEF I
  <2>7. SumFunctionOnSet(f, I) % Field = SumFunctionOnSet(k, I) % Field
    BY <1>0, <2>a, SumCongruent
  <2>8. SumFunctionOnSet(m, I) = e * H
    BY <1>3, <2>a, SumTimes
  <2>9. SumFunctionOnSet(k, I) = G + SumFunctionOnSet(m, I)
    BY <2>a, SumPlus
  <2> HIDE DEF G, H
  <2>10. e * H \in Int /\ (e * H) % Field = 0
    <3>1. H % Field = 0 /\ H \in Int
      BY <1>2, <2>2
    <3>2. (e * (H % Field)) % Field = (e * H) % Field
      BY <1>0, <1>3, <3>1, ModTimes
    <3>3. e * 0 = 0 /\ 0 % Field = 0
      BY <1>0, <1>3
    <3>4. e * H \in Int
      BY <1>3, <3>1
    <3> QED
      BY <3>1, <3>2, <3>3, <3>4
  <2> DEFINE b == e * H
  <2>11. b \in Int /\ b % Field = 0 /\ SumFunctionOnSet(k, I) = G + b
    BY <2>8, <2>9, <2>10
  <2> HIDE DEF b
  <2>12. (G + (b % Field)) % Field = (G + b) % Field
    BY <1>0, <2>2, <2>11, ModPlus
  <2>13. G + 0 = G
    BY <2>2
  <2> QED
    BY <2>2, <2>7, <2>11, <2>12, <2>13
<1> QED
  BY <1>6, <1>7, <1>8

(***************************************************************************)
(* The session's invariant.                                                *)
(***************************************************************************)

ShareTyped(s) ==
  /\ s.owner \in Parties /\ s.holder \in Parties \ {s.owner}
  /\ s.index = ShareIndex(s.owner, s.holder)
  /\ s.generation \in 1..sharing[s.owner]

ShareOn(c, s) == s.value = At(c, s.index)

(* All shares of a generation, relayed or handed in, lie on one polynomial.   *)
OnePolynomial(o, g) ==
  \E c \in [1..Threshold -> 0..(Field - 1)] :
    \A s \in relays \cup submitted : s.owner = o /\ s.generation = g => ShareOn(c, s)

SharesOK ==
  /\ IsFiniteSet(submitted) /\ sharing \in [Parties -> Nat]
  /\ \A s \in relays \cup submitted : ShareTyped(s)
  /\ \A o \in Parties, g \in Nat : OnePolynomial(o, g)

(* A session past its opening has a safe profile.                             *)
SessionOK == session \notin {"COHORT_FORMING", "FAILED"} => DomainSafe(maxWeight)

(* What the coordinator has of p is p's masked update, and that was valid.    *)
UpdatesOK ==
  /\ updates = [p \in Parties |-> updates[p]]
  /\ \A p \in Parties : updates[p] # NoUpdate => updates[p] = MaskedUpdate(p) /\ Valid(p)

(* A rebuilt key is that of the one participant missing, or of one that has   *)
(* come in since.                                                             *)
KeyOK == recovered # 0 => \E o \in Parties : Missing \subseteq {o} /\ recovered = input[o].key

RecoveryInvariant ==
  /\ input \in Inputs /\ maxWeight \in MaxWeights
  /\ SessionOK /\ UpdatesOK /\ KeyOK /\ SharesOK
  /\ AggregateIsExact

(* A masked update is the encoded one plus the client's masks.              *)
LEMMA MaskedValue ==
  ASSUME input \in Inputs, NEW p \in Parties, NEW s \in Streams, Valid(p)
  PROVE  /\ Encoded(p)[s] \in Int
         /\ MaskSum(p, Parties \ {p}, s) \in Int
         /\ MaskedUpdate(p)[s] = (Encoded(p)[s] + MaskSum(p, Parties \ {p}, s)) % Ring
         /\ MaskedUpdate(p)[s] \in 0..(Ring - 1)
<1>1. MaskSum(p, Parties \ {p}, s) \in Int
  BY MasksCancel
<1>2. Encoded(p)[s] \in Int
  <2>1. input[p].delta \in Int /\ input[p].count \in Int /\ input[p].indicator \in Int
    BY InputsAssumption
  <2> QED
    BY <2>1 DEF Encoded, Streams
<1>3. MaskedUpdate(p)[s] = (Encoded(p)[s] + MaskSum(p, Parties \ {p}, s)) % Ring
  BY DEF MaskedUpdate, Masked, MaskSum
<1> DEFINE a == Encoded(p)[s] + MaskSum(p, Parties \ {p}, s)
<1>4. a \in Int
  BY <1>1, <1>2
<1> HIDE DEF a
<1>5. a % Ring \in 0..(Ring - 1)
  BY <1>4, RingHalves, DivMod
<1> QED
  BY <1>1, <1>2, <1>3, <1>5 DEF a

(* A masked update is never taken for a missing one.                        *)
LEMMA MaskedIsUpdate ==
  ASSUME input \in Inputs, NEW p \in Parties, Valid(p)
  PROVE  MaskedUpdate(p) # NoUpdate
<1>1. "tensor" \in Streams
  BY DEF Streams
<1>2. MaskedUpdate(p)["tensor"] \in 0..(Ring - 1)
  BY <1>1, MaskedValue
<1>3. NoUpdate["tensor"] = -1
  BY DEF NoUpdate
<1> QED
  BY <1>2, <1>3, RingHalves

(* The masked updates of some participants sum to what they encode and to     *)
(* the masks they used, in the ring.                                          *)
LEMMA SumOfMasked ==
  ASSUME input \in Inputs, NEW S \in SUBSET Parties, NEW s \in Streams,
         \A p \in S : updates[p] = MaskedUpdate(p) /\ Valid(p)
  PROVE  /\ SumFunctionOnSet([p \in S |-> Encoded(p)[s]], S) \in Int
         /\ SumFunctionOnSet([p \in S |-> MaskSum(p, Parties \ {p}, s)], S) \in Int
         /\ SumOfUpdates(S)[s] =
              (SumFunctionOnSet([p \in S |-> Encoded(p)[s]], S)
                 + SumFunctionOnSet([p \in S |-> MaskSum(p, Parties \ {p}, s)], S)) % Ring
<1> DEFINE e == [p \in S |-> Encoded(p)[s]]
           m == [p \in S |-> MaskSum(p, Parties \ {p}, s)]
           f == [p \in S |-> updates[p][s]]
           g == [p \in S |-> e[p] + m[p]]
<1>1. IsFiniteSet(S) /\ Ring \in Nat /\ Ring # 0
  BY PartiesFinite, FS_Subset, RingHalves
<1>2. SumOfUpdates(S)[s] = SumFunctionOnSet(f, S) % Ring
  BY DEF SumOfUpdates, SumFunction
<1>3. \A p \in S : e[p] \in Int /\ m[p] \in Int
  BY MaskedValue
<1>4. \A p \in S : g[p] \in Int /\ g[p] = e[p] + m[p]
  BY <1>3
<1>5. \A p \in S : f[p] = g[p] % Ring
  BY MaskedValue
<1> HIDE DEF e, m, f, g
<1>6. SumFunctionOnSet(f, S) % Ring = SumFunctionOnSet(g, S) % Ring
  BY <1>1, <1>4, <1>5, SumOfRemainders
<1>7. SumFunctionOnSet(g, S) = SumFunctionOnSet(e, S) + SumFunctionOnSet(m, S)
  BY <1>1, <1>3, <1>4, SumPlus
<1>8. SumFunctionOnSet(e, S) \in Int /\ SumFunctionOnSet(m, S) \in Int
  BY <1>1, <1>3, SumInt
<1> QED
  BY <1>2, <1>6, <1>7, <1>8 DEF e, m

(* The whole cohort: its masks cancel.                                        *)
LEMMA WholeCohortExact ==
  ASSUME input \in Inputs, NEW s \in Streams,
         \A p \in Parties : updates[p] = MaskedUpdate(p) /\ Valid(p)
  PROVE  SumOfUpdates(Parties)[s] = SumFunctionOnSet([p \in Parties |-> Encoded(p)[s]], Parties) % Ring
<1> DEFINE E == SumFunctionOnSet([p \in Parties |-> Encoded(p)[s]], Parties)
           M == SumFunctionOnSet([p \in Parties |-> MaskSum(p, Parties \ {p}, s)], Parties)
<1>1. M = 0
  BY MasksCancel
<1>2. E \in Int /\ SumOfUpdates(Parties)[s] = (E + M) % Ring
  BY SumOfMasked
<1> HIDE DEF E, M
<1>3. E + 0 = E
  BY <1>2
<1>4. SumOfUpdates(Parties)[s] = E % Ring
  BY <1>1, <1>2, <1>3
<1> QED
  BY <1>4 DEF E

(* All but one: its key makes up for the masks the others had with it.        *)
LEMMA DropoutExact ==
  ASSUME input \in Inputs, NEW s \in Streams, NEW o \in Parties,
         \A p \in Parties \ {o} : updates[p] = MaskedUpdate(p) /\ Valid(p)
  PROVE  Add(SumOfUpdates(Parties \ {o}), Correction(o, input[o].key, Parties \ {o}))[s]
           = SumFunctionOnSet([p \in Parties \ {o} |-> Encoded(p)[s]], Parties \ {o}) % Ring
<1> DEFINE S == Parties \ {o}
           E == SumFunctionOnSet([p \in S |-> Encoded(p)[s]], S)
           sides == [p \in Parties |-> MaskSum(p, Parties \ {p}, s)]
           rest == [p \in S |-> MaskSum(p, Parties \ {p}, s)]
           M == SumFunctionOnSet(rest, S)
           own == MaskSum(o, Parties \ {o}, s)
<1>1. IsFiniteSet(Parties) /\ IsFiniteSet(S) /\ S \in SUBSET Parties /\ Ring \in Nat /\ Ring # 0
  BY PartiesFinite, FS_RemoveElement, RingHalves
<1>2. E \in Int /\ M \in Int /\ SumOfUpdates(S)[s] = (E + M) % Ring
  BY <1>1, SumOfMasked
<1>3. \A p \in Parties : sides[p] \in Int
  BY MasksCancel
<1>4. SumFunctionOnSet(sides, Parties) = 0
  BY MasksCancel
<1>5. \A p \in S : rest[p] \in Int /\ rest[p] = sides[p]
  BY <1>3
<1>6. own \in Int /\ sides[o] = own
  BY <1>3
<1>7. Add(SumOfUpdates(S), Correction(o, input[o].key, S))[s] = (SumOfUpdates(S)[s] + ((0 + own) % Ring)) % Ring
  BY DEF Add, Correction, Masked, MaskSum
<1> HIDE DEF sides, rest, own, E, S
<1>8. SumFunctionOnSet(sides, Parties) = sides[o] + SumFunctionOnSet(sides, Parties \ {o})
  BY <1>1, <1>3, SumRemove
<1>9. SumFunctionOnSet(rest, S) = SumFunctionOnSet(sides, S)
  BY <1>1, <1>5, SumEqual
<1>10. own + M = 0
  BY <1>4, <1>6, <1>8, <1>9 DEF S
<1> HIDE DEF M
<1>11. SumOfUpdates(S)[s] = (E + M) % Ring /\ E + M \in Int /\ 0 + own = own
  BY <1>2, <1>6
<1>12. (((E + M) % Ring) + (own % Ring)) % Ring = ((E + M) + own) % Ring
  BY <1>1, <1>6, <1>11, ModPlus
<1>13. (E + M) + own = E
  BY <1>2, <1>6, <1>10
<1>14. Add(SumOfUpdates(S), Correction(o, input[o].key, S))[s] = E % Ring
  BY <1>7, <1>11, <1>12, <1>13
<1> QED
  BY <1>14 DEF E, S

(* The invariant holds when a session is formed.                            *)
LEMMA RecoveryInit == Init => RecoveryInvariant
<1> SUFFICES ASSUME Init PROVE RecoveryInvariant
  OBVIOUS
<1>1. input \in Inputs /\ maxWeight \in MaxWeights /\ SessionOK /\ KeyOK /\ AggregateIsExact
  BY DEF Init, SessionOK, KeyOK, AggregateIsExact
<1>2. UpdatesOK
  BY DEF Init, UpdatesOK
<1>3. SharesOK
  <2>1. 1..Threshold \subseteq Nat /\ Field \in Nat /\ Field > 1
    BY FieldFacts
  <2> DEFINE c == [i \in 1..Threshold |-> 0]
  <2>2. c \in [1..Threshold -> 0..(Field - 1)]
    BY <2>1
  <2>3. relays \cup submitted = {} /\ sharing \in [Parties -> Nat]
    BY DEF Init
  <2>4. IsFiniteSet(submitted)
    BY FS_EmptySet DEF Init
  <2>5. \A o \in Parties, g \in Nat : OnePolynomial(o, g)
    BY <2>2, <2>3 DEF OnePolynomial
  <2> QED
    BY <2>3, <2>4, <2>5 DEF SharesOK
<1> QED
  BY <1>1, <1>2, <1>3 DEF RecoveryInvariant

(* Shares that are dropped leave the others on their polynomials.           *)
LEMMA FewerShares ==
  ASSUME SharesOK, relays' \cup submitted' \subseteq relays \cup submitted,
         IsFiniteSet(submitted'), UNCHANGED sharing
  PROVE  SharesOK'
<1>1. \A s \in relays' \cup submitted' : ShareTyped(s)'
  BY DEF SharesOK, ShareTyped
<1>2. ASSUME NEW o \in Parties, NEW g \in Nat
      PROVE  OnePolynomial(o, g)'
  <2>1. OnePolynomial(o, g)
    BY DEF SharesOK
  <2>2. PICK c \in [1..Threshold -> 0..(Field - 1)] :
          \A s \in relays \cup submitted : s.owner = o /\ s.generation = g => ShareOn(c, s)
    BY <2>1 DEF OnePolynomial
  <2>3. \A s \in relays' \cup submitted' : s.owner = o /\ s.generation = g => ShareOn(c, s)
    BY <2>2
  <2> QED
    BY <2>3 DEF OnePolynomial, ShareOn
<1> QED
  BY <1>1, <1>2 DEF SharesOK

(* Steps that leave the input alone keep the session's part of the invariant. *)
LEMMA KeptSession ==
  ASSUME RecoveryInvariant, UNCHANGED <<input, maxWeight>>,
         session \in {"COHORT_FORMING", "FAILED"} => session' = session
  PROVE  input' \in Inputs /\ maxWeight' \in MaxWeights /\ SessionOK'
  BY DEF RecoveryInvariant, SessionOK, DomainSafe

(* Steps that leave the updates alone keep theirs.                          *)
LEMMA KeptUpdates ==
  ASSUME RecoveryInvariant, UNCHANGED <<input, maxWeight, updates>>
  PROVE  UpdatesOK'
<1>1. \A p \in Parties : (Valid(p) <=> Valid(p)') /\ MaskedUpdate(p)' = MaskedUpdate(p)
  BY DEF Valid, WeightValid, Encodable, MaskedUpdate, Masked, Encoded
<1> QED
  BY <1>1 DEF RecoveryInvariant, UpdatesOK

(* A recovered key may be kept or forgotten.                                *)
LEMMA KeptKey ==
  ASSUME RecoveryInvariant, UNCHANGED <<input, updates>>, recovered' \in {0, recovered}
  PROVE  KeyOK'
<1>1. Missing' = Missing
  BY DEF Missing, Contributors
<1>2. KeyOK
  BY DEF RecoveryInvariant
<1> QED
  BY <1>1, <1>2 DEF KeyOK

(* A result that is not touched stays exact.                                *)
LEMMA KeptResult ==
  ASSUME RecoveryInvariant, UNCHANGED <<input, result>>
  PROVE  AggregateIsExact'
  BY DEF RecoveryInvariant, AggregateIsExact, Encoded

(* Steps that leave the shares alone keep theirs.                           *)
LEMMA KeptShares ==
  ASSUME RecoveryInvariant, UNCHANGED <<relays, submitted, sharing>>
  PROVE  SharesOK'
  BY FewerShares DEF RecoveryInvariant, SharesOK

(* A client that shares its key again puts its shares on a new polynomial.  *)
LEMMA ShareKeyKeepsShares ==
  ASSUME RecoveryInvariant, NEW p \in Parties, ShareKey(p)
  PROVE  SharesOK'
<1> DEFINE k == sharing[p] + 1
<1>0. input \in Inputs /\ SharesOK
  BY DEF RecoveryInvariant
<1>1. PICK poly \in Polynomials(input[p].key) : relays' = relays \cup Sealed(poly, p, k)
  BY DEF ShareKey
<1>2. /\ sharing' = [sharing EXCEPT ![p] = @ + 1] /\ submitted' = submitted
      /\ sharing \in [Parties -> Nat] /\ k \in Nat /\ k \in 1..k
  BY <1>0 DEF ShareKey, collector, SharesOK
<1>3. poly \in [1..Threshold -> 0..(Field - 1)]
  <2>1. input[p].key \in 0..(Field - 1)
    BY <1>0, InputsAssumption, FieldFacts
  <2>2. Coefficients \subseteq 0..(Field - 1) /\ Threshold \in Nat
    BY FieldAssumption, FieldFacts
  <2>3. PICK c \in [1..(Threshold - 1) -> Coefficients] :
          poly = [i \in 1..Threshold |-> IF i = 1 THEN input[p].key ELSE c[i - 1]]
    BY <1>1 DEF Polynomials
  <2>4. \A i \in 1..Threshold : i # 1 => i - 1 \in 1..(Threshold - 1)
    BY <2>2
  <2>5. \A i \in 1..Threshold : i # 1 => c[i - 1] \in 0..(Field - 1)
    BY <2>2, <2>3, <2>4
  <2> QED
    BY <2>1, <2>3, <2>5
<1>4. sharing' \in [Parties -> Nat] /\ IsFiniteSet(submitted')
  BY <1>0, <1>2 DEF SharesOK
<1>5. ASSUME NEW s \in Sealed(poly, p, k)
      PROVE  /\ s.owner = p /\ s.holder \in Parties \ {p} /\ s.generation = k
             /\ s.index = ShareIndex(p, s.holder) /\ ShareOn(poly, s)
  BY DEF Sealed, ShareOf, ShareOn
<1>6. ASSUME NEW s \in relays' \cup submitted'
      PROVE  ShareTyped(s)'
  <2>1. CASE s \in relays \cup submitted
    <3>1. ShareTyped(s)
      BY <2>1, <1>0 DEF SharesOK
    <3>2. sharing[s.owner] \in Nat /\ sharing'[s.owner] \in Nat /\ sharing[s.owner] <= sharing'[s.owner]
      BY <1>2, <3>1 DEF ShareTyped
    <3>3. 1..sharing[s.owner] \subseteq 1..sharing'[s.owner]
      BY <3>2
    <3> QED
      BY <3>1, <3>3 DEF ShareTyped
  <2>2. CASE s \in Sealed(poly, p, k)
    <3>1. sharing'[p] = k
      BY <1>2
    <3> QED
      BY <2>2, <1>2, <1>5, <3>1 DEF ShareTyped
  <2> QED
    BY <1>1, <1>2, <2>1, <2>2
<1>7. ASSUME NEW o \in Parties, NEW g \in Nat
      PROVE  OnePolynomial(o, g)'
  <2>1. CASE o = p /\ g = k
    <3>1. ASSUME NEW s \in relays \cup submitted, s.owner = p
          PROVE  s.generation # k
      <4>1. s.generation \in 1..sharing[p]
        BY <3>1, <1>0 DEF SharesOK, ShareTyped
      <4> QED
        BY <4>1, <1>2
    <3>2. \A s \in relays' \cup submitted' : s.owner = o /\ s.generation = g => ShareOn(poly, s)
      BY <2>1, <3>1, <1>1, <1>2, <1>5
    <3> QED
      BY <1>3, <3>2 DEF OnePolynomial, ShareOn
  <2>2. CASE ~(o = p /\ g = k)
    <3>1. PICK c \in [1..Threshold -> 0..(Field - 1)] :
            \A s \in relays \cup submitted : s.owner = o /\ s.generation = g => ShareOn(c, s)
      BY <1>0 DEF SharesOK, OnePolynomial
    <3>2. \A s \in relays' \cup submitted' : s.owner = o /\ s.generation = g => ShareOn(c, s)
      BY <2>2, <3>1, <1>1, <1>2, <1>5
    <3> QED
      BY <3>2 DEF OnePolynomial, ShareOn
  <2> QED
    BY <2>1, <2>2
<1> QED
  BY <1>4, <1>6, <1>7 DEF SharesOK

(* The updates a collector stores are the masked ones of valid clients.     *)
LEMMA SubmitUpdateKeeps ==
  ASSUME RecoveryInvariant, NEW p \in Parties, SubmitUpdate(p)
  PROVE  UpdatesOK' /\ KeyOK'
<1>0. input \in Inputs /\ UpdatesOK /\ KeyOK /\ UNCHANGED <<input, maxWeight, recovered>>
  BY DEF RecoveryInvariant, SubmitUpdate, collector
<1>1. CASE ~(WeightValid(p) /\ Encodable(p))
  <2>1. UNCHANGED updates
    BY <1>1 DEF SubmitUpdate
  <2> QED
    BY <1>0, <2>1, KeptUpdates, KeptKey
<1>2. CASE WeightValid(p) /\ Encodable(p)
  <2>1. updates' = [updates EXCEPT ![p] = MaskedUpdate(p)]
    BY <1>2 DEF SubmitUpdate
  <2>2. Valid(p) /\ MaskedUpdate(p) # NoUpdate
    BY <1>0, <1>2, MaskedIsUpdate DEF Valid
  <2>3. \A q \in Parties : (Valid(q) <=> Valid(q)') /\ MaskedUpdate(q)' = MaskedUpdate(q)
    BY <1>0 DEF Valid, WeightValid, Encodable, MaskedUpdate, Masked, Encoded
  <2>4. updates = [q \in Parties |-> updates[q]]
    BY <1>0 DEF UpdatesOK
  <2>5. updates' = [q \in Parties |-> IF q = p THEN MaskedUpdate(p) ELSE updates[q]]
    BY <2>1, <2>4
  <2>6. updates' = [q \in Parties |-> updates'[q]]
    BY <2>5
  <2>7. \A q \in Parties : updates'[q] # NoUpdate => updates'[q] = MaskedUpdate(q) /\ Valid(q)
    BY <1>0, <2>2, <2>5 DEF UpdatesOK
  <2>8. UpdatesOK'
    BY <2>3, <2>6, <2>7 DEF UpdatesOK
  <2>9. Missing' \subseteq Missing
    BY <2>2, <2>5 DEF Missing, Contributors
  <2>10. KeyOK'
    BY <1>0, <2>9 DEF KeyOK
  <2> QED
    BY <2>8, <2>10
<1> QED
  BY <1>1, <1>2

(* A share is stored as it was sealed, and enough of them give the key.     *)
LEMMA SubmitShareKeeps ==
  ASSUME RecoveryInvariant, NEW h \in Parties, SubmitShare(h)
  PROVE  SharesOK' /\ KeyOK'
<1>1. PICK s \in relays :
        /\ Bound(s) /\ submitted' = submitted \cup {s}
        /\ recovered' \in {recovered, input[s.owner].key}
        /\ UNCHANGED <<input, updates, relays, sharing>>
  BY DEF SubmitShare, parties
<1>2. SharesOK /\ KeyOK
  BY DEF RecoveryInvariant
<1>3. IsFiniteSet(submitted')
  BY <1>1, <1>2, FS_AddElement DEF SharesOK
<1>4. SharesOK'
  BY <1>1, <1>2, <1>3, FewerShares
<1>5. s.owner \in Parties /\ Missing = {s.owner} /\ Missing' = Missing
  BY <1>1, <1>2 DEF SharesOK, ShareTyped, Bound, Missing, Contributors
<1>6. KeyOK'
  BY <1>1, <1>2, <1>5 DEF KeyOK
<1> QED
  BY <1>4, <1>6

(* The sum a collector releases is that of what its clients encoded.        *)
LEMMA AggregateKeeps ==
  ASSUME RecoveryInvariant, Aggregate
  PROVE  AggregateIsExact'
<1>0. /\ input \in Inputs /\ maxWeight \in MaxWeights /\ DomainSafe(maxWeight) /\ UpdatesOK /\ KeyOK
      /\ input' = input
  BY DEF RecoveryInvariant, Aggregate, SessionOK
<1>1. \A p \in Contributors : updates[p] = MaskedUpdate(p) /\ Valid(p)
  BY <1>0 DEF UpdatesOK, Contributors
<1>2. ASSUME NEW s \in Streams
      PROVE  result'.sums[s] = SumFunction([p \in result'.from |-> Encoded(p)[s]])
  <2>1. CASE Missing = {} /\ result' = [from |-> Parties, sums |-> Decoded(SumOfUpdates(Parties))]
    <3>1. Contributors = Parties
      BY <2>1 DEF Missing, Contributors
    <3>2. SumOfUpdates(Parties)[s] = SumFunctionOnSet([p \in Parties |-> Encoded(p)[s]], Parties) % Ring
      BY <1>0, <1>1, <3>1, WholeCohortExact
    <3>3. SignedValue(SumFunctionOnSet([p \in Parties |-> Encoded(p)[s]], Parties) % Ring)
            = SumFunctionOnSet([p \in Parties |-> Encoded(p)[s]], Parties)
      BY <1>0, <1>1, <3>1, NothingWraps
    <3>4. result'.sums[s] = SignedValue(SumOfUpdates(Parties)[s]) /\ result'.from = Parties
      BY <2>1 DEF Decoded
    <3> QED
      BY <3>2, <3>3, <3>4 DEF SumFunction
  <2>2. CASE \E o \in Missing :
               /\ Missing = {o} /\ recovered # 0
               /\ result' = [from |-> Contributors,
                             sums |-> Decoded(Add(SumOfUpdates(Contributors),
                                                  Correction(o, recovered, Contributors)))]
    <3>1. PICK o \in Missing :
               /\ Missing = {o} /\ recovered # 0
               /\ result' = [from |-> Contributors,
                             sums |-> Decoded(Add(SumOfUpdates(Contributors),
                                                  Correction(o, recovered, Contributors)))]
      BY <2>2
    <3>2. o \in Parties /\ Contributors = Parties \ {o}
      BY <3>1 DEF Missing, Contributors
    <3>3. recovered = input[o].key
      BY <1>0, <3>1 DEF KeyOK
    <3>4. \A p \in Parties \ {o} : updates[p] = MaskedUpdate(p) /\ Valid(p)
      BY <1>1, <3>2
    <3>5. Add(SumOfUpdates(Parties \ {o}), Correction(o, input[o].key, Parties \ {o}))[s]
            = SumFunctionOnSet([p \in Parties \ {o} |-> Encoded(p)[s]], Parties \ {o}) % Ring
      BY <1>0, <3>2, <3>4, DropoutExact
    <3>6. SignedValue(SumFunctionOnSet([p \in Parties \ {o} |-> Encoded(p)[s]], Parties \ {o}) % Ring)
            = SumFunctionOnSet([p \in Parties \ {o} |-> Encoded(p)[s]], Parties \ {o})
      BY <1>0, <3>4, NothingWraps
    <3>7. /\ result'.sums[s] = SignedValue(Add(SumOfUpdates(Parties \ {o}),
                                               Correction(o, input[o].key, Parties \ {o}))[s])
          /\ result'.from = Parties \ {o}
      BY <3>1, <3>2, <3>3 DEF Decoded
    <3> QED
      BY <3>5, <3>6, <3>7 DEF SumFunction
  <2> QED
    BY <2>1, <2>2 DEF Aggregate
<1> QED
  BY <1>0, <1>2 DEF AggregateIsExact, Encoded

(* Every step of a session keeps the invariant.                             *)
LEMMA RecoveryNext == RecoveryInvariant /\ [Next]_vars => RecoveryInvariant'
<1> SUFFICES ASSUME RecoveryInvariant, [Next]_vars PROVE RecoveryInvariant'
  OBVIOUS
<1> USE DEF parties, collector, bounds
<1>1. ASSUME NEW p \in Parties, Advertise(p) \/ Die(p)
      PROVE  RecoveryInvariant'
  BY <1>1, KeptSession, KeptUpdates, KeptKey, KeptShares, KeptResult DEF RecoveryInvariant, Advertise, Die
<1>2. ASSUME NEW p \in Parties, ShareKey(p)
      PROVE  RecoveryInvariant'
  BY <1>2, KeptSession, KeptUpdates, KeptKey, ShareKeyKeepsShares, KeptResult DEF RecoveryInvariant, ShareKey
<1>3. ASSUME NEW p \in Parties, SubmitUpdate(p)
      PROVE  RecoveryInvariant'
  BY <1>3, KeptSession, SubmitUpdateKeeps, KeptShares, KeptResult DEF RecoveryInvariant, SubmitUpdate
<1>4. ASSUME NEW p \in Parties, SubmitShare(p)
      PROVE  RecoveryInvariant'
  BY <1>4, KeptSession, KeptUpdates, SubmitShareKeeps, KeptResult DEF RecoveryInvariant, SubmitShare
<1>5. CASE OpenSession
  <2>1. input' \in Inputs /\ maxWeight' \in MaxWeights /\ SessionOK'
    BY <1>5 DEF OpenSession, RecoveryInvariant, SessionOK, DomainSafe
  <2> QED
    BY <1>5, <2>1, KeptUpdates, KeptKey, KeptShares, KeptResult DEF RecoveryInvariant, OpenSession
<1>6. CASE FreezeCohort \/ OpenCollection \/ Complete \/ Abort
  BY <1>6, KeptSession, KeptUpdates, KeptKey, KeptShares, KeptResult
     DEF RecoveryInvariant, FreezeCohort, OpenCollection, Complete, Abort
<1>7. CASE ExpireRelay
  <2>1. SharesOK'
    BY <1>7, FewerShares DEF ExpireRelay, RecoveryInvariant, SharesOK
  <2> QED
    BY <1>7, <2>1, KeptSession, KeptUpdates, KeptKey, KeptResult DEF RecoveryInvariant, ExpireRelay
<1>8. CASE PersistReceipts
  BY <1>8, KeptSession, KeptUpdates, KeptKey, KeptShares, KeptResult DEF RecoveryInvariant, PersistReceipts
<1>9. CASE Restart
  <2>1. SharesOK'
    BY <1>9, FewerShares, FS_EmptySet DEF Restart, RecoveryInvariant
  <2> QED
    BY <1>9, <2>1, KeptSession, KeptUpdates, KeptKey, KeptResult DEF RecoveryInvariant, Restart
<1>10. CASE Aggregate
  BY <1>10, KeptSession, KeptUpdates, KeptKey, KeptShares, AggregateKeeps DEF RecoveryInvariant, Aggregate
<1>11. CASE UNCHANGED vars
  BY <1>11, KeptSession, KeptUpdates, KeptKey, KeptShares, KeptResult DEF RecoveryInvariant, vars
<1> QED
  BY <1>1, <1>2, <1>3, <1>4, <1>5, <1>6, <1>7, <1>8, <1>9, <1>10, <1>11 DEF Next, Party

(* The invariant of the session: what the coordinator holds of the            *)
(* participants, the shares and the rebuilt key are what they were made as,   *)
(* and the aggregate is exact.                                                *)
THEOREM RecoveryInvariance == Spec => []RecoveryInvariant
  BY RecoveryInit, RecoveryNext, PTL DEF Spec

(* AggregateIsExact of every cohort, threshold, field, ring and mask: the     *)
(* decoded sum is the sum of the contributors' encoded updates.               *)
THEOREM AggregateExact == Spec => []AggregateIsExact
<1>1. RecoveryInvariant => AggregateIsExact
  BY DEF RecoveryInvariant
<1> QED
  BY <1>1, RecoveryInvariance, PTL

(* Below the threshold, what was relayed fits every key.                    *)
LEMMA InvariantHidesTheKey == RecoveryInvariant => SharesHideTheKey
<1> SUFFICES ASSUME RecoveryInvariant, NEW o \in Parties,
                    \A g \in 1..Generations :
                      Cardinality({s \in submitted : s.owner = o /\ s.generation = g}) < Threshold,
                    NEW key \in 1..(Field - 1), NEW g \in 1..Generations
             PROVE  \E c \in [1..Threshold -> 0..(Field - 1)] :
                      /\ c[1] = key
                      /\ \A s \in submitted :
                           s.owner = o /\ s.generation = g => At(c, s.index) = s.value
  BY DEF SharesHideTheKey
<1> DEFINE S == {s \in submitted : s.owner = o /\ s.generation = g}
           A == {s.index : s \in S}
<1>1. SharesOK
  BY DEF RecoveryInvariant
<1>2. Cardinality(S) < Threshold
  OBVIOUS
<1>3. IsFiniteSet(S)
  BY <1>1, FS_Subset DEF SharesOK
<1>4. IsFiniteSet(A) /\ Cardinality(A) <= Cardinality(S)
  <2> DEFINE f == [s \in S |-> s.index]
  <2>1. f \in Surjection(S, A)
    <3>1. f \in [S -> A] /\ \A x \in A : \E s \in S : f[s] = x
      OBVIOUS
    <3> HIDE DEF f, S, A
    <3> QED
      BY <3>1 DEF Surjection
  <2> HIDE DEF f, S, A
  <2> QED
    BY <1>3, <2>1, FS_Surjection
<1>5. Cardinality(A) < Threshold
  BY <1>2, <1>3, <1>4, FS_CardinalityType, FieldFacts
<1>6. A \subseteq 1..(Field - 1)
  <2> SUFFICES ASSUME NEW s \in S PROVE s.index \in 1..(Field - 1)
    OBVIOUS
  <2>1. s.owner \in Parties /\ s.holder \in Parties \ {s.owner} /\ s.index = ShareIndex(s.owner, s.holder)
    BY <1>1 DEF SharesOK, ShareTyped
  <2>2. N \in Nat /\ Field \in Nat /\ N < Field
    BY PartiesFinite, FieldAssumption
  <2> QED
    BY <2>1, <2>2 DEF Parties, ShareIndex
<1>7. g \in Nat
  OBVIOUS
<1>8. PICK c \in [1..Threshold -> 0..(Field - 1)] :
        \A s \in relays \cup submitted : s.owner = o /\ s.generation = g => ShareOn(c, s)
  BY <1>1, <1>7 DEF SharesOK, OnePolynomial
<1>9. PICK d \in [1..Threshold -> 0..(Field - 1)] : d[1] = key /\ \A x \in A : At(d, x) = At(c, x)
  BY <1>4, <1>5, <1>6, AnyKeyFits
<1>10. \A s \in submitted : s.owner = o /\ s.generation = g => At(d, s.index) = s.value
  BY <1>8, <1>9 DEF ShareOn
<1> QED
  BY <1>9, <1>10

(* SharesHideTheKey of every cohort, threshold and prime field: fewer shares  *)
(* than the threshold leave every key possible.                               *)
THEOREM KeyHidden == Spec => []SharesHideTheKey
  BY InvariantHidesTheKey, RecoveryInvariance, PTL

-----------------------------------------------------------------------------
(***************************************************************************)
(* Greatest elements.                                                      *)
(***************************************************************************)

(* A finite set in a total preorder, given by its pairs, has a greatest      *)
(* element.                                                                  *)
LEMMA GreatestExists ==
  ASSUME NEW S, IsFiniteSet(S), S # {}, NEW R,
         \A x, y \in S : <<x, y>> \in R \/ <<y, x>> \in R,
         \A x, y, z \in S : <<x, y>> \in R /\ <<y, z>> \in R => <<x, z>> \in R
  PROVE  \E x \in S : \A y \in S : <<y, x>> \in R
<1> DEFINE W == {T \in SUBSET S : T = {} \/ \E x \in T : \A y \in T : <<y, x>> \in R}
<1>1. {} \in W
  OBVIOUS
<1>2. ASSUME NEW T \in SUBSET S, NEW u \in S, T \in W, u \notin T
      PROVE  T \cup {u} \in W
  <2>1. T \cup {u} \in SUBSET S /\ <<u, u>> \in R
    OBVIOUS
  <2>2. CASE T = {}
    BY <2>1, <2>2
  <2>3. CASE T # {}
    <3>1. PICK x \in T : \A y \in T : <<y, x>> \in R
      BY <1>2, <2>3
    <3>2. CASE <<u, x>> \in R
      <4>1. \A y \in T \cup {u} : <<y, x>> \in R
        BY <3>1, <3>2
      <4> QED
        BY <2>1, <3>1, <4>1
    <3>3. CASE <<x, u>> \in R
      <4>1. \A y \in T \cup {u} : <<y, u>> \in R
        BY <2>1, <3>1, <3>3
      <4> QED
        BY <2>1, <4>1
    <3> QED
      BY <3>2, <3>3
  <2> QED
    BY <2>2, <2>3
<1> HIDE DEF W
<1>3. S \in W
  BY <1>1, <1>2, SubsetInduction
<1> QED
  BY <1>3 DEF W

(* By two numbers, the second one to break ties, the smaller third last.     *)
LEMMA LargestExists ==
  ASSUME NEW S, IsFiniteSet(S), S # {}, NEW f, NEW g, NEW h,
         \A x \in S : f[x] \in Int /\ g[x] \in Int /\ h[x] \in Int
  PROVE  \E x \in S : \A y \in S :
            \/ f[y] < f[x]
            \/ f[y] = f[x] /\ (g[y] < g[x] \/ (g[y] = g[x] /\ h[y] <= h[x]))
<1> DEFINE Below(y, x) ==
            \/ f[y] < f[x]
            \/ f[y] = f[x] /\ (g[y] < g[x] \/ (g[y] = g[x] /\ h[y] <= h[x]))
           R == {p \in S \X S : Below(p[1], p[2])}
<1>1. \A x, y \in S : <<x, y>> \in R <=> Below(x, y)
  OBVIOUS
<1>2. \A x, y \in S : Below(x, y) \/ Below(y, x)
  OBVIOUS
<1>3. \A x, y, z \in S : Below(x, y) /\ Below(y, z) => Below(x, z)
  OBVIOUS
<1> HIDE DEF R, Below
<1>4. \E x \in S : \A y \in S : <<y, x>> \in R
  BY <1>1, <1>2, <1>3, GreatestExists
<1>5. \E x \in S : \A y \in S : Below(y, x)
  BY <1>1, <1>4
<1> QED
  BY <1>5 DEF Below

(* The maximum of a finite set of numbers.                                  *)
LEMMA MaxExists ==
  ASSUME NEW S, IsFiniteSet(S), S # {}, S \subseteq Int
  PROVE  Max(S) \in S /\ \A y \in S : y <= Max(S)
<1> DEFINE f == [x \in S |-> x]
<1>1. \A x \in S : f[x] \in Int /\ f[x] = x
  OBVIOUS
<1> HIDE DEF f
<1>2. PICK x \in S : \A y \in S :
            \/ f[y] < f[x]
            \/ f[y] = f[x] /\ (f[y] < f[x] \/ (f[y] = f[x] /\ f[y] <= f[x]))
  <2>1. \A x \in S : f[x] \in Int /\ f[x] \in Int /\ f[x] \in Int
    BY <1>1
  <2>2. \E x \in S : \A y \in S :
            \/ f[y] < f[x]
            \/ f[y] = f[x] /\ (f[y] < f[x] \/ (f[y] = f[x] /\ f[y] <= f[x]))
    BY <2>1, LargestExists, ZenonT(60)
  <2> QED
    BY <2>2
<1>3. \A y \in S : x >= y
  BY <1>1, <1>2
<1>4. Max(S) \in S /\ \A y \in S : Max(S) >= y
  BY <1>3 DEF Max
<1> QED
  BY <1>4

(* The maximum of two numbers.                                              *)
LEMMA MaxOfTwo ==
  ASSUME NEW a \in Int, NEW b \in Int
  PROVE  Max({a, b}) = IF a >= b THEN a ELSE b
<1>1. IsFiniteSet({a, b}) /\ {a, b} # {} /\ {a, b} \subseteq Int
  <2>1. IsFiniteSet({a} \cup {b})
    BY FS_Singleton, FS_AddElement
  <2>2. {a} \cup {b} = {a, b}
    OBVIOUS
  <2> QED
    BY <2>1, <2>2
<1>2. Max({a, b}) \in {a, b} /\ \A y \in {a, b} : y <= Max({a, b})
  BY <1>1, MaxExists
<1> QED
  BY <1>2

(* The minimum of two numbers.                                              *)
LEMMA MinOfTwo ==
  ASSUME NEW a \in Int, NEW b \in Int
  PROVE  Min({a, b}) = IF a <= b THEN a ELSE b
<1> DEFINE m == IF a <= b THEN a ELSE b
<1>1. m \in {a, b} /\ \A y \in {a, b} : m =< y
  OBVIOUS
<1>2. Min({a, b}) \in {a, b} /\ \A y \in {a, b} : Min({a, b}) =< y
  BY <1>1 DEF Min
<1> QED
  BY <1>2

-----------------------------------------------------------------------------
(***************************************************************************)
(* Partitioning: what is dealt, and its types.                             *)
(***************************************************************************)

Deals == [Classes -> [Clients -> Nat]]

(* The clients and the classes are finite sets of numbers.                  *)
LEMMA PartitionFacts ==
  /\ NumClients \in Nat /\ NumClients # 0 /\ NumClasses \in Nat /\ NumClasses # 0
  /\ MinPartitionSize \in Nat /\ MinPartitionSize # 0
  /\ ClassesPerClient \in Nat /\ ClassesPerClient # 0
  /\ IsFiniteSet(Clients) /\ Cardinality(Clients) = NumClients /\ Clients \subseteq Nat /\ 0 \in Clients
  /\ IsFiniteSet(Classes) /\ Cardinality(Classes) = NumClasses /\ Classes \subseteq Nat /\ 0 \in Classes
<1>1. /\ NumClients \in Nat /\ NumClients # 0 /\ NumClasses \in Nat /\ NumClasses # 0
      /\ MinPartitionSize \in Nat /\ MinPartitionSize # 0
      /\ ClassesPerClient \in 1..NumClasses
  BY PartitionAssumption
<1>2. 0 \in Int /\ NumClients - 1 \in Int /\ NumClasses - 1 \in Int
  BY <1>1
<1>3. IsFiniteSet(Clients) /\ Cardinality(Clients) = NumClients
  BY <1>1, <1>2, FS_Interval DEF Clients
<1>4. IsFiniteSet(Classes) /\ Cardinality(Classes) = NumClasses
  BY <1>1, <1>2, FS_Interval DEF Classes
<1> QED
  BY <1>1, <1>3, <1>4 DEF Clients, Classes

(* What a client and a class hold are sums of natural numbers.              *)
LEMMA DealSums ==
  ASSUME NEW deal \in Deals
  PROVE  /\ \A c \in Clients : HeldBy(deal, c) \in Nat
         /\ \A c \in Clients : HeldBy(deal, c) = SumFunctionOnSet([k \in Classes |-> deal[k][c]], Classes)
         /\ \A k \in Classes : SumFunction(deal[k]) \in Nat
         /\ \A k \in Classes : SumFunction(deal[k]) = SumFunctionOnSet(deal[k], Clients)
         /\ \A k \in Classes, c \in Clients : deal[k][c] \in Nat /\ deal[k][c] <= HeldBy(deal, c)
<1>1. \A k \in Classes, c \in Clients : deal[k][c] \in Nat
  BY DEF Deals
<1>2. \A k \in Classes : SumFunction(deal[k]) = SumFunctionOnSet(deal[k], Clients)
  BY DEF Deals, SumFunction
<1>3. \A k \in Classes : SumFunctionOnSet(deal[k], Clients) \in Nat
  BY <1>1, PartitionFacts, SumNat
<1>4. ASSUME NEW c \in Clients
      PROVE  /\ HeldBy(deal, c) = SumFunctionOnSet([k \in Classes |-> deal[k][c]], Classes)
             /\ HeldBy(deal, c) \in Nat
             /\ \A k \in Classes : deal[k][c] <= HeldBy(deal, c)
  <2> DEFINE f == [k \in Classes |-> deal[k][c]]
  <2>1. HeldBy(deal, c) = SumFunctionOnSet(f, Classes)
    BY DEF HeldBy, SumFunction
  <2>2. \A k \in Classes : f[k] \in Nat /\ f[k] = deal[k][c]
    BY <1>1
  <2> HIDE DEF f
  <2>3. SumFunctionOnSet(f, Classes) \in Nat
    BY <2>2, PartitionFacts, SumNat
  <2>4. \A k \in Classes : f[k] <= SumFunctionOnSet(f, Classes)
    BY <2>2, PartitionFacts, SumMember
  <2> QED
    BY <2>1, <2>2, <2>3, <2>4 DEF f
<1> QED
  BY <1>1, <1>2, <1>3, <1>4

(* What the clients hold together is what the classes add up to.             *)
LEMMA DealTotal ==
  ASSUME NEW deal \in Deals
  PROVE  SumFunctionOnSet([c \in Clients |-> HeldBy(deal, c)], Clients)
           = SumFunctionOnSet([k \in Classes |-> SumFunction(deal[k])], Classes)
<1>1. \A k \in Classes, c \in Clients : deal[k][c] \in Int
  BY DEF Deals
<1>2. SumFunctionOnSet([k \in Classes |-> SumFunctionOnSet(deal[k], Clients)], Classes)
        = SumFunctionOnSet([c \in Clients |-> SumFunctionOnSet([k \in Classes |-> deal[k][c]], Classes)], Clients)
  BY <1>1, PartitionFacts, SumSwap
<1>3. [k \in Classes |-> SumFunctionOnSet(deal[k], Clients)] = [k \in Classes |-> SumFunction(deal[k])]
  BY DealSums
<1>4. [c \in Clients |-> SumFunctionOnSet([k \in Classes |-> deal[k][c]], Classes)]
        = [c \in Clients |-> HeldBy(deal, c)]
  BY DealSums
<1> QED
  BY <1>2, <1>3, <1>4

(* A sum of which one term changes.                                          *)
LEMMA SumChange ==
  ASSUME NEW S, IsFiniteSet(S), NEW f, NEW g, \A x \in S : f[x] \in Int /\ g[x] \in Int,
         NEW y \in S, \A x \in S \ {y} : g[x] = f[x]
  PROVE  SumFunctionOnSet(g, S) = SumFunctionOnSet(f, S) + g[y] - f[y]
<1>1. IsFiniteSet(S \ {y})
  BY FS_RemoveElement
<1>2. SumFunctionOnSet(g, S) = g[y] + SumFunctionOnSet(g, S \ {y})
  BY SumRemove
<1>3. SumFunctionOnSet(f, S) = f[y] + SumFunctionOnSet(f, S \ {y})
  BY SumRemove
<1>4. SumFunctionOnSet(g, S \ {y}) = SumFunctionOnSet(f, S \ {y})
  BY <1>1, SumEqual
<1>5. SumFunctionOnSet(f, S \ {y}) \in Int
  BY <1>1, SumInt
<1> QED
  BY <1>2, <1>3, <1>4, <1>5

(* new is deal with a sample of the class k moved from the donor to c.      *)
Moved(new, deal, k, donor, c) ==
  /\ new \in Deals
  /\ new[k][donor] = deal[k][donor] - 1
  /\ new[k][c] = deal[k][c] + 1
  /\ \A e \in Clients : e # donor /\ e # c => new[k][e] = deal[k][e]
  /\ \A l \in Classes : l # k => new[l] = deal[l]

(* The update of a table that a repair makes moves one sample.              *)
LEMMA MoveIs ==
  ASSUME NEW deal \in Deals, NEW k \in Classes, NEW donor \in Clients, NEW c \in Clients,
         donor # c, deal[k][donor] # 0,
         NEW new, new = [deal EXCEPT ![k][donor] = @ - 1, ![k][c] = @ + 1]
  PROVE  Moved(new, deal, k, donor, c)
<1>0. \A l \in Classes, e \in Clients : deal[l][e] \in Nat
  BY DEF Deals
<1> DEFINE row == [deal[k] EXCEPT ![donor] = @ - 1]
           last == [row EXCEPT ![c] = @ + 1]
<1>1. new = [l \in Classes |-> IF l = k THEN last ELSE deal[l]]
  BY DEF Deals
<1>2. row = [e \in Clients |-> IF e = donor THEN deal[k][e] - 1 ELSE deal[k][e]]
  BY DEF Deals
<1>3. last = [e \in Clients |-> IF e = c THEN row[e] + 1 ELSE row[e]]
  BY <1>2
<1> HIDE DEF row, last
<1>4. \A e \in Clients : row[e] \in Nat /\ row[e] = IF e = donor THEN deal[k][e] - 1 ELSE deal[k][e]
  BY <1>0, <1>2
<1>5. \A e \in Clients : last[e] \in Nat /\ last[e] = IF e = c THEN row[e] + 1 ELSE row[e]
  BY <1>3, <1>4
<1>6. last \in [Clients -> Nat]
  BY <1>3, <1>5
<1>7. new \in Deals
  BY <1>1, <1>6 DEF Deals
<1>8. new[k] = last
  BY <1>1
<1> QED
  BY <1>1, <1>4, <1>5, <1>7, <1>8 DEF Moved

(* Moving a sample changes what two clients hold and no class.              *)
LEMMA MoveSums ==
  ASSUME NEW deal \in Deals, NEW k \in Classes, NEW donor \in Clients, NEW c \in Clients,
         donor # c, NEW new, Moved(new, deal, k, donor, c)
  PROVE  /\ HeldBy(new, donor) = HeldBy(deal, donor) - 1
         /\ HeldBy(new, c) = HeldBy(deal, c) + 1
         /\ \A e \in Clients : e # donor /\ e # c => HeldBy(new, e) = HeldBy(deal, e)
         /\ \A l \in Classes : SumFunction(new[l]) = SumFunction(deal[l])
<1>1. /\ new \in Deals /\ new[k][donor] = deal[k][donor] - 1 /\ new[k][c] = deal[k][c] + 1
      /\ \A e \in Clients : e # donor /\ e # c => new[k][e] = deal[k][e]
      /\ \A l \in Classes : l # k => new[l] = deal[l]
  BY DEF Moved
<1>2. \A l \in Classes, e \in Clients : deal[l][e] \in Nat /\ new[l][e] \in Nat
  BY <1>1 DEF Deals
<1>3. ASSUME NEW e \in Clients
      PROVE  HeldBy(new, e) = HeldBy(deal, e) + new[k][e] - deal[k][e] /\ HeldBy(deal, e) \in Nat
  <2> DEFINE f == [l \in Classes |-> deal[l][e]]
             g == [l \in Classes |-> new[l][e]]
  <2>1. \A l \in Classes : /\ f[l] \in Int /\ f[l] = deal[l][e]
                           /\ g[l] \in Int /\ g[l] = new[l][e]
    BY <1>2
  <2>2. /\ HeldBy(deal, e) = SumFunctionOnSet(f, Classes) /\ HeldBy(deal, e) \in Nat
        /\ HeldBy(new, e) = SumFunctionOnSet(g, Classes)
    BY <1>1, DealSums
  <2> HIDE DEF f, g
  <2>3. \A l \in Classes \ {k} : g[l] = f[l]
    BY <1>1, <2>1
  <2>4. SumFunctionOnSet(g, Classes) = SumFunctionOnSet(f, Classes) + g[k] - f[k]
    <3>1. \A l \in Classes : f[l] \in Int /\ g[l] \in Int
      BY <2>1
    <3>2. IsFiniteSet(Classes)
      BY PartitionFacts
    <3> QED
      BY <2>3, <3>1, <3>2, SumChange
  <2> QED
    BY <2>1, <2>2, <2>4
<1>4. \A e \in Clients : new[k][e] \in Nat /\ deal[k][e] \in Nat
  BY <1>2
<1>5. ASSUME NEW l \in Classes
      PROVE  SumFunction(new[l]) = SumFunction(deal[l])
  <2>1. /\ SumFunction(deal[l]) = SumFunctionOnSet(deal[l], Clients) /\ SumFunction(deal[l]) \in Nat
        /\ SumFunction(new[l]) = SumFunctionOnSet(new[l], Clients)
    BY <1>1, DealSums
  <2>2. CASE l # k
    BY <1>1, <2>1, <2>2
  <2>3. CASE l = k
    <3> DEFINE d == deal[k]
               n == new[k]
               row == [e \in Clients |-> IF e = donor THEN d[e] - 1 ELSE d[e]]
    <3>1. \A e \in Clients : d[e] \in Int /\ n[e] \in Int
      BY <1>4
    <3>2. n[donor] = d[donor] - 1 /\ n[c] = d[c] + 1 /\ \A e \in Clients : e # donor /\ e # c => n[e] = d[e]
      BY <1>1
    <3> HIDE DEF d, n
    <3>3. \A e \in Clients : row[e] \in Int /\ row[e] = IF e = donor THEN d[e] - 1 ELSE d[e]
      BY <3>1
    <3> HIDE DEF row
    <3>a. IsFiniteSet(Clients)
      BY PartitionFacts
    <3>b. \A e \in Clients : d[e] \in Int /\ n[e] \in Int /\ row[e] \in Int
      BY <3>1, <3>3
    <3>c. \A e \in Clients \ {donor} : row[e] = d[e]
      BY <3>3
    <3>4. SumFunctionOnSet(row, Clients) = SumFunctionOnSet(d, Clients) + row[donor] - d[donor]
      BY <3>a, <3>b, <3>c, SumChange
    <3>5. \A e \in Clients \ {c} : n[e] = row[e]
      BY <3>2, <3>3
    <3>6. SumFunctionOnSet(n, Clients) = SumFunctionOnSet(row, Clients) + n[c] - row[c]
      BY <3>a, <3>b, <3>5, SumChange
    <3>7. row[donor] = d[donor] - 1 /\ row[c] = d[c] /\ d[donor] \in Int /\ d[c] \in Int
      BY <3>1, <3>3
    <3>8. SumFunctionOnSet(d, Clients) \in Int
      BY <3>1, PartitionFacts, SumInt
    <3>9. SumFunctionOnSet(n, Clients) = SumFunctionOnSet(d, Clients)
      BY <3>2, <3>4, <3>6, <3>7, <3>8
    <3> QED
      BY <2>1, <2>3, <3>9 DEF d, n
  <2> QED
    BY <2>2, <2>3
<1> QED
  BY <1>1, <1>3, <1>4, <1>5

(***************************************************************************)
(* Largest remainders.                                                     *)
(***************************************************************************)

Weights(counts) == IF SumFunction(counts) = 0 THEN Uniform ELSE counts

(* The shares by which a class is split: the samples trained on, or one for each client. *)
LEMMA WeightsFacts ==
  ASSUME NEW counts \in [Clients -> Nat]
  PROVE  /\ Weights(counts) \in [Clients -> Nat]
         /\ SumFunction(Weights(counts)) = SumFunctionOnSet(Weights(counts), Clients)
         /\ SumFunction(Weights(counts)) \in Nat /\ SumFunction(Weights(counts)) # 0
         /\ \/ Weights(counts) = counts
            \/ \A d \in Clients : counts[d] = 0
<1>1. Uniform \in [Clients -> Nat] /\ \A c \in Clients : Uniform[c] = 1
  BY DEF Uniform
<1>2. SumFunctionOnSet(Uniform, Clients) = NumClients
  <2>1. SumFunctionOnSet(Uniform, Clients) = 1 * Cardinality(Clients)
    BY <1>1, PartitionFacts, SumConstant, 1 \in Int
  <2> QED
    BY <2>1, PartitionFacts
<1>3. \A c \in Clients : counts[c] \in Nat
  OBVIOUS
<1>4. SumFunction(counts) = SumFunctionOnSet(counts, Clients)
  BY DEF SumFunction
<1>5. SumFunctionOnSet(counts, Clients) \in Nat
  BY <1>3, PartitionFacts, SumNat
<1>6. CASE SumFunction(counts) = 0
  <2>1. Weights(counts) = Uniform
    BY <1>6 DEF Weights
  <2>2. \A d \in Clients : counts[d] <= SumFunctionOnSet(counts, Clients)
    BY <1>3, PartitionFacts, SumMember
  <2>3. \A d \in Clients : counts[d] = 0
    BY <1>3, <1>4, <1>6, <2>2
  <2>4. SumFunction(Uniform) = SumFunctionOnSet(Uniform, Clients)
    BY <1>1 DEF SumFunction
  <2> QED
    BY <1>1, <1>2, <2>1, <2>3, <2>4, PartitionFacts
<1>7. CASE SumFunction(counts) # 0
  <2>1. Weights(counts) = counts
    BY <1>7 DEF Weights
  <2> QED
    BY <1>4, <1>5, <1>7, <2>1
<1> QED
  BY <1>6, <1>7

(* The whole parts and what they leave.                                      *)
WholePart(n, w, W) == [c \in Clients |-> (w[c] * n) \div W]
Remainder(n, w, W) == [c \in Clients |-> (w[c] * n) % W]

(* Whole parts and remainders together are the class.                       *)
LEMMA RemaindersAre ==
  ASSUME NEW n \in Nat, NEW w \in [Clients -> Nat],
         NEW W \in Nat, W = SumFunctionOnSet(w, Clients), W # 0
  PROVE  LET q == WholePart(n, w, W)
             r == Remainder(n, w, W)
         IN  /\ \A c \in Clients : /\ q[c] \in Nat /\ r[c] \in 0..(W - 1)
                                   /\ w[c] \in Nat /\ w[c] * n \in Nat /\ w[c] * n = W * q[c] + r[c]
             /\ SumFunctionOnSet(q, Clients) \in Nat /\ SumFunctionOnSet(r, Clients) \in Nat
             /\ n * W = W * SumFunctionOnSet(q, Clients) + SumFunctionOnSet(r, Clients)
<1> DEFINE q == WholePart(n, w, W)
           r == Remainder(n, w, W)
           a == [c \in Clients |-> n * w[c]]
           b == [c \in Clients |-> W * q[c]]
<1>0. IsFiniteSet(Clients)
  BY PartitionFacts
<1>1. ASSUME NEW c \in Clients
      PROVE  /\ q[c] \in Nat /\ r[c] \in 0..(W - 1)
             /\ w[c] \in Nat /\ w[c] * n \in Nat /\ w[c] * n = W * q[c] + r[c]
  <2> DEFINE p == w[c] * n
  <2>1. p \in Nat /\ p \in Int
    OBVIOUS
  <2>2. q[c] = p \div W /\ r[c] = p % W
    BY DEF WholePart, Remainder
  <2> HIDE DEF p, q, r
  <2>3. /\ p % W \in 0..(W - 1) /\ p \div W \in Int /\ p = W * (p \div W) + (p % W)
    BY <2>1, DivMod
  <2>4. p \div W \in Nat
    BY <2>1
  <2> QED
    BY <2>1, <2>2, <2>3, <2>4 DEF p
<1> HIDE DEF q, r
<1>2. \A c \in Clients : w[c] \in Int /\ a[c] \in Int /\ a[c] = n * w[c]
  OBVIOUS
<1>3. \A c \in Clients : q[c] \in Int /\ b[c] \in Int /\ b[c] = W * q[c]
  BY <1>1
<1>4. \A c \in Clients : b[c] \in Int /\ r[c] \in Int /\ a[c] \in Int /\ a[c] = b[c] + r[c]
  <2> TAKE c \in Clients
  <2> DEFINE p == w[c] * n
             s == W * q[c]
  <2>1. w[c] \in Nat /\ p \in Nat /\ q[c] \in Nat /\ r[c] \in Int /\ p = s + r[c]
    BY <1>1
  <2>2. a[c] = p
    OBVIOUS
  <2>3. b[c] = s /\ s \in Int
    BY <2>1
  <2> HIDE DEF p, s, a, b
  <2> QED
    BY <2>1, <2>2, <2>3
<1> HIDE DEF a, b
<1>5. SumFunctionOnSet(a, Clients) = n * W
  BY <1>0, <1>2, SumTimes, n \in Int
<1>6. SumFunctionOnSet(b, Clients) = W * SumFunctionOnSet(q, Clients)
  BY <1>0, <1>3, SumTimes, W \in Int
<1>7. SumFunctionOnSet(a, Clients) = SumFunctionOnSet(b, Clients) + SumFunctionOnSet(r, Clients)
  BY <1>0, <1>4, SumPlus
<1>8. SumFunctionOnSet(q, Clients) \in Nat
  BY <1>0, <1>1, SumNat
<1>9. SumFunctionOnSet(r, Clients) \in Nat
  <2>1. \A c \in Clients : r[c] \in Nat
    BY <1>1
  <2> QED
    BY <1>0, <2>1, SumNat
<1> QED
  BY <1>1, <1>5, <1>6, <1>7, <1>8, <1>9 DEF q, r

(* A column the largest remainders make: those in favoured, which are as     *)
(* many as the whole parts leave samples over, have one more, and nobody     *)
(* else has a larger remainder.                                              *)
LargestRemainders(column, favoured, n, w, W) ==
  /\ favoured \in SUBSET Clients /\ IsFiniteSet(favoured)
  /\ column = [c \in Clients |-> WholePart(n, w, W)[c] + (IF c \in favoured THEN 1 ELSE 0)]
  /\ Cardinality(favoured) = n - SumFunctionOnSet(WholePart(n, w, W), Clients)
  /\ \A c \in favoured, d \in Clients \ favoured : Remainder(n, w, W)[c] >= Remainder(n, w, W)[d]

(* _largest_remainder_allocation makes such a column.                       *)
LEMMA AllocationIs ==
  ASSUME NEW n \in Nat, NEW counts \in [Clients -> Nat], NEW column \in Allocations(n, counts)
  PROVE  \E favoured :
           LargestRemainders(column, favoured, n, Weights(counts), SumFunction(Weights(counts)))
<1> DEFINE w == Weights(counts)
           W == SumFunction(w)
           q == WholePart(n, w, W)
           r == Remainder(n, w, W)
<1>1. SumFunction(q) = SumFunctionOnSet(q, Clients)
  BY DEF SumFunction, WholePart
<1>2. PICK favoured \in kSubset(n - SumFunction(q), Clients) :
         /\ \A c \in favoured, d \in Clients \ favoured : r[c] >= r[d]
         /\ column = [c \in Clients |-> q[c] + (IF c \in favoured THEN 1 ELSE 0)]
  BY DEF Allocations, Weights, WholePart, Remainder
<1> HIDE DEF q, r, W, w
<1>3. favoured \in SUBSET Clients /\ Cardinality(favoured) = n - SumFunction(q)
  BY <1>2 DEF kSubset
<1>4. IsFiniteSet(favoured)
  BY <1>3, PartitionFacts, FS_Subset
<1> QED
  BY <1>1, <1>2, <1>3, <1>4 DEF LargestRemainders, q, r, W, w

(* A column made by largest remainders deals every sample.                  *)
LEMMA AllocationSum ==
  ASSUME NEW n \in Nat, NEW w \in [Clients -> Nat],
         NEW W \in Nat, W = SumFunctionOnSet(w, Clients), W # 0,
         NEW column, NEW favoured, LargestRemainders(column, favoured, n, w, W)
  PROVE  /\ column \in [Clients -> Nat]
         /\ SumFunctionOnSet(column, Clients) = n
         /\ W * Cardinality(favoured) = SumFunctionOnSet(Remainder(n, w, W), Clients)
<1> DEFINE q == WholePart(n, w, W)
           r == Remainder(n, w, W)
           b == [c \in Clients |-> IF c \in favoured THEN 1 ELSE 0]
<1>0. IsFiniteSet(Clients)
  BY PartitionFacts
<1>1. /\ favoured \in SUBSET Clients /\ IsFiniteSet(favoured)
      /\ column = [c \in Clients |-> q[c] + b[c]]
      /\ Cardinality(favoured) = n - SumFunctionOnSet(q, Clients)
  BY DEF LargestRemainders
<1>2. /\ \A c \in Clients : q[c] \in Nat
      /\ SumFunctionOnSet(q, Clients) \in Nat /\ SumFunctionOnSet(r, Clients) \in Nat
      /\ n * W = W * SumFunctionOnSet(q, Clients) + SumFunctionOnSet(r, Clients)
  BY RemaindersAre
<1>3. \A c \in Clients : b[c] \in Int /\ b[c] = IF c \in favoured THEN 1 ELSE 0
  OBVIOUS
<1> HIDE DEF q, r, b
<1>4. \A c \in Clients : column[c] \in Nat /\ column[c] = q[c] + b[c]
  BY <1>1, <1>2, <1>3
<1>5. column \in [Clients -> Nat]
  BY <1>1, <1>4
<1>6. SumFunctionOnSet(b, Clients) = Cardinality(favoured)
  BY <1>0, <1>1, <1>3, SumCounts
<1>7. SumFunctionOnSet(column, Clients) = SumFunctionOnSet(q, Clients) + SumFunctionOnSet(b, Clients)
  <2>1. \A c \in Clients : q[c] \in Int /\ b[c] \in Int /\ column[c] \in Int /\ column[c] = q[c] + b[c]
    BY <1>2, <1>3, <1>4
  <2> QED
    BY <1>0, <2>1, SumPlus
<1>8. SumFunctionOnSet(column, Clients) = n
  BY <1>1, <1>2, <1>6, <1>7
<1>9. W * Cardinality(favoured) = SumFunctionOnSet(r, Clients)
  <2> DEFINE Q == SumFunctionOnSet(q, Clients)
             X == SumFunctionOnSet(r, Clients)
             m == Cardinality(favoured)
  <2>1. Q \in Nat /\ X \in Nat /\ m = n - Q /\ n * W = W * Q + X
    BY <1>1, <1>2
  <2> HIDE DEF Q, X, m
  <2>2. W * m = W * n - W * Q
    BY <2>1
  <2>3. W * n = n * W /\ W * n \in Int /\ W * Q \in Int
    BY <2>1
  <2>4. W * m = X
    BY <2>1, <2>2, <2>3
  <2> QED
    BY <2>4 DEF X, m
<1> QED
  BY <1>5, <1>8, <1>9 DEF r

(* Nobody gets a sample by rounding who has no share in the class.           *)
LEMMA AllocationGivesOwn ==
  ASSUME NEW n \in Nat, NEW w \in [Clients -> Nat],
         NEW W \in Nat, W = SumFunctionOnSet(w, Clients), W # 0,
         NEW column, NEW favoured, LargestRemainders(column, favoured, n, w, W),
         NEW c \in Clients, w[c] = 0
  PROVE  column[c] = 0
<1> DEFINE q == WholePart(n, w, W)
           r == Remainder(n, w, W)
<1>0. IsFiniteSet(Clients)
  BY PartitionFacts
<1>1. /\ favoured \in SUBSET Clients /\ IsFiniteSet(favoured)
      /\ column = [d \in Clients |-> q[d] + (IF d \in favoured THEN 1 ELSE 0)]
      /\ \A d \in favoured, e \in Clients \ favoured : r[d] >= r[e]
  BY DEF LargestRemainders
<1>2. \A d \in Clients : q[d] \in Nat /\ r[d] \in 0..(W - 1)
  BY RemaindersAre
<1>3. q[c] = 0 /\ r[c] = 0
  <2>1. q[c] = 0 \div W /\ r[c] = 0 % W
    BY DEF WholePart, Remainder
  <2>2. 0 % W = 0 /\ 0 = W * (0 \div W) + (0 % W) /\ 0 \div W \in Int
    BY ModSmall, DivMod
  <2>3. 0 \div W = 0
    <3> DEFINE y == 0 \div W
    <3>1. y \in Int /\ W * y = 0
      BY <2>2
    <3> HIDE DEF y
    <3>2. ~(1 <= y)
      BY <3>1, TimesMonotone, W * 1 = W, 1 \in Int
    <3>3. ~(y <= -1)
      BY <3>1, TimesMonotone, W * (-1) = -W, -1 \in Int
    <3> QED
      BY <3>1, <3>2, <3>3 DEF y
  <2> QED
    BY <2>1, <2>2, <2>3
<1>4. W * Cardinality(favoured) = SumFunctionOnSet(r, Clients)
  BY AllocationSum
<1> HIDE DEF q, r
<1>5. ASSUME c \in favoured PROVE FALSE
  <2> DEFINE F == favoured \ {c}
             top == [d \in F |-> W]
             m == Cardinality(favoured)
  <2>1. \A d \in Clients \ favoured : r[d] = 0
    BY <1>1, <1>2, <1>3, <1>5
  <2>2. \A d \in Clients : r[d] \in Int
    BY <1>2
  <2>3. SumFunctionOnSet(r, Clients) = SumFunctionOnSet(r, favoured)
    BY <1>0, <1>1, <2>1, <2>2, SumOnSubset
  <2>4. SumFunctionOnSet(r, favoured) = r[c] + SumFunctionOnSet(r, favoured \ {c})
    BY <1>1, <1>5, <2>2, SumRemove
  <2>5. IsFiniteSet(F) /\ Cardinality(F) = m - 1 /\ m \in Nat
    BY <1>1, <1>5, FS_RemoveElement, FS_CardinalityType
  <2>6. \A d \in F : r[d] \in Int /\ top[d] \in Int /\ r[d] <= top[d] /\ top[d] = W
    BY <1>1, <1>2
  <2> HIDE DEF top
  <2>7. SumFunctionOnSet(r, F) <= SumFunctionOnSet(top, F)
    BY <2>5, <2>6, SumMonotone
  <2>8. SumFunctionOnSet(top, F) = W * Cardinality(F)
    BY <2>5, <2>6, SumConstant, W \in Int
  <2>9. SumFunctionOnSet(r, F) \in Int
    BY <2>5, <2>6, SumInt
  <2> HIDE DEF m
  <2>10. W * (m - 1) = W * m - W /\ W * m \in Int
    BY <2>5
  <2>11. SumFunctionOnSet(r, F) = W * m
    BY <1>3, <1>4, <2>3, <2>4, <2>9 DEF m
  <2>12. SumFunctionOnSet(r, F) <= W * (m - 1)
    BY <2>5, <2>7, <2>8
  <2> QED
    BY <2>10, <2>11, <2>12
<1> QED
  BY <1>1, <1>3, <1>5

(* A split of n and how far each client's part of it is from its share w[c] of *)
(* the W shares.                                                             *)
Gaps(split, n, w, W) ==
  [c \in Clients |-> LET d == split[c] * W - w[c] * n IN IF d < 0 THEN -d ELSE d]

(* One client's part: with a price of W - 2t on every sample, taking one more *)
(* than the whole part exactly when the remainder is at least t is best.      *)
LEMMA OneMoreOrNot ==
  ASSUME NEW W \in Nat, W # 0, NEW r \in 0..(W - 1), NEW t \in 0..W, NEW b \in {0, 1},
         b = 1 => r >= t, b = 0 => r <= t,
         NEW x \in Int
  PROVE  LET far(e) == IF e < 0 THEN -e ELSE e
         IN  far(b * W - r) - b * (W - 2 * t) <= far(x * W - r) - x * (W - 2 * t)
<1> DEFINE far(e) == IF e < 0 THEN -e ELSE e
           y == x * W
           z == x * t
<1>1. y \in Int /\ z \in Int /\ x * (W - 2 * t) = y - 2 * z
  <2>1. x * (W - 2 * t) = x * W - 2 * (x * t)
    OBVIOUS
  <2> QED
    BY <2>1
<1>2. x <= -1 => z >= y /\ y <= -W
  <2>1. ASSUME x <= -1 PROVE z >= y /\ y <= -W
    <3>1. x * (W - t) <= (-1) * (W - t)
      BY <2>1, TimesMonotone, -1 \in Int, W - t \in Nat
    <3>2. x * (W - t) = y - z /\ (-1) * (W - t) = t - W
      OBVIOUS
    <3>3. x * W <= (-1) * W
      BY <2>1, TimesMonotone, -1 \in Int, W \in Nat
    <3>4. (-1) * W = -W
      OBVIOUS
    <3> QED
      BY <1>1, <3>1, <3>2, <3>3, <3>4
  <2> QED
    BY <2>1
<1>3. x >= 2 => z >= t /\ y >= 2 * W
  <2>1. ASSUME 2 <= x PROVE z >= t /\ y >= 2 * W
    <3>1. 1 * t <= x * t
      BY <2>1, TimesMonotone, 1 \in Int, t \in Nat
    <3>2. 2 * W <= x * W
      BY <2>1, TimesMonotone, 2 \in Int, W \in Nat
    <3> QED
      BY <3>1, <3>2
  <2> QED
    BY <2>1
<1>4. (x = 0 => y = 0 /\ z = 0) /\ (x = 1 => y = W /\ z = t)
  OBVIOUS
<1>5. \/ b = 0 /\ b * W = 0 /\ b * (W - 2 * t) = 0
      \/ b = 1 /\ b * W = W /\ b * (W - 2 * t) = W - 2 * t
  <2>1. 0 * W = 0 /\ 0 * (W - 2 * t) = 0 /\ 1 * W = W /\ 1 * (W - 2 * t) = W - 2 * t
    OBVIOUS
  <2> QED
    BY <2>1
<1> HIDE DEF y, z
<1>6. far(b * W - r) - b * (W - 2 * t) <= far(y - r) - (y - 2 * z)
  BY <1>1, <1>2, <1>3, <1>4, <1>5
<1> QED
  BY <1>1, <1>6 DEF y

(* No other split comes closer than the largest remainders.                  *)
LEMMA Closest ==
  ASSUME NEW n \in Nat, NEW w \in [Clients -> Nat],
         NEW W \in Nat, W = SumFunctionOnSet(w, Clients), W # 0,
         NEW column, NEW favoured, LargestRemainders(column, favoured, n, w, W),
         NEW other \in [Clients -> Nat], SumFunctionOnSet(other, Clients) = n
  PROVE  SumFunctionOnSet(Gaps(column, n, w, W), Clients)
           <= SumFunctionOnSet(Gaps(other, n, w, W), Clients)
<1> DEFINE q == WholePart(n, w, W)
           r == Remainder(n, w, W)
           b == [c \in Clients |-> IF c \in favoured THEN 1 ELSE 0]
           x == [c \in Clients |-> other[c] - q[c]]
           far(e) == IF e < 0 THEN -e ELSE e
<1>0. IsFiniteSet(Clients)
  BY PartitionFacts
<1>1. /\ favoured \in SUBSET Clients /\ IsFiniteSet(favoured)
      /\ column = [c \in Clients |-> q[c] + b[c]]
      /\ \A c \in favoured, d \in Clients \ favoured : r[c] >= r[d]
  BY DEF LargestRemainders
<1>2. \A c \in Clients : /\ q[c] \in Nat /\ r[c] \in 0..(W - 1)
                         /\ w[c] \in Nat /\ w[c] * n \in Nat /\ w[c] * n = W * q[c] + r[c]
  BY RemaindersAre
<1>3. column \in [Clients -> Nat] /\ SumFunctionOnSet(column, Clients) = n
  BY AllocationSum
<1> HIDE DEF q, r
<1>4. \A c \in Clients : /\ b[c] \in {0, 1} /\ b[c] = IF c \in favoured THEN 1 ELSE 0
                         /\ x[c] \in Int /\ other[c] \in Nat /\ other[c] = q[c] + x[c]
                         /\ column[c] \in Nat /\ column[c] = q[c] + b[c]
  BY <1>1, <1>2, <1>3
<1> HIDE DEF b, x
<1>5. PICK t \in 0..W : /\ \A c \in favoured : r[c] >= t
                        /\ \A c \in Clients \ favoured : r[c] <= t
  <2>1. CASE favoured = {}
    <3>1. W \in 0..W /\ \A c \in Clients \ favoured : r[c] <= W
      BY <1>2
    <3> QED
      BY <2>1, <3>1
  <2>2. CASE favoured # {}
    <3> DEFINE f == [c \in Clients |-> -r[c]]
    <3>1. \A c \in favoured : f[c] \in Int /\ f[c] = -r[c]
      BY <1>1, <1>2
    <3> HIDE DEF f
    <3>2. PICK c \in favoured : \A d \in favoured :
              \/ f[d] < f[c]
              \/ f[d] = f[c] /\ (f[d] < f[c] \/ (f[d] = f[c] /\ f[d] <= f[c]))
      <4>1. IsFiniteSet(favoured)
        BY <1>1
      <4>2. \A c \in favoured : f[c] \in Int
        BY <3>1
      <4> QED
        BY <2>2, <4>1, <4>2, LargestExists
    <3>3. \A d \in favoured : r[d] >= r[c]
      BY <1>1, <1>2, <3>1, <3>2
    <3>4. r[c] \in 0..W
      BY <1>1, <1>2
    <3> QED
      BY <1>1, <3>3, <3>4
  <2> QED
    BY <2>1, <2>2
<1> DEFINE p == W - 2 * t
           gc == Gaps(column, n, w, W)
           go == Gaps(other, n, w, W)
           bp == [c \in Clients |-> (-p) * b[c]]
           xp == [c \in Clients |-> (-p) * x[c]]
           lhs == [c \in Clients |-> gc[c] + bp[c]]
           rhs == [c \in Clients |-> go[c] + xp[c]]
<1>6. ASSUME NEW c \in Clients
      PROVE  /\ gc[c] \in Int /\ gc[c] = far(b[c] * W - r[c])
             /\ go[c] \in Int /\ go[c] = far(x[c] * W - r[c])
  <2> DEFINE s == w[c] * n
             u == W * q[c]
             yb == b[c] * W
             yx == x[c] * W
             zc == column[c] * W
             zo == other[c] * W
  <2>1. gc[c] = far(zc - s) /\ go[c] = far(zo - s)
    BY DEF Gaps
  <2>2. s \in Int /\ r[c] \in Int /\ s = u + r[c] /\ u \in Int
    BY <1>2
  <2>3. b[c] \in Int /\ x[c] \in Int /\ q[c] \in Int /\ column[c] = q[c] + b[c] /\ other[c] = q[c] + x[c]
    BY <1>2, <1>4
  <2>4. zc = u + yb /\ yb \in Int
    BY <2>3
  <2>5. zo = u + yx /\ yx \in Int
    BY <2>3
  <2> HIDE DEF s, u, yb, yx, zc, zo, gc, go
  <2>6. zc - s = yb - r[c] /\ zo - s = yx - r[c]
    BY <2>2, <2>4, <2>5
  <2>7. yb - r[c] \in Int /\ yx - r[c] \in Int
    BY <2>2, <2>4, <2>5
  <2> QED
    BY <2>1, <2>6, <2>7 DEF yb, yx
<1>7. ASSUME NEW c \in Clients
      PROVE  far(b[c] * W - r[c]) - b[c] * p <= far(x[c] * W - r[c]) - x[c] * p
  <2> DEFINE bc == b[c]
             xc == x[c]
             rc == r[c]
  <2>1. /\ rc \in 0..(W - 1) /\ bc \in {0, 1} /\ xc \in Int
        /\ (bc = 1 => rc >= t) /\ (bc = 0 => rc <= t)
    BY <1>2, <1>4, <1>5
  <2> HIDE DEF bc, xc, rc
  <2>2. far(bc * W - rc) - bc * (W - 2 * t) <= far(xc * W - rc) - xc * (W - 2 * t)
    BY <2>1, OneMoreOrNot
  <2> QED
    BY <2>2 DEF bc, xc, rc
<1>8. p \in Int /\ -p \in Int
  OBVIOUS
<1> HIDE DEF p, gc, go, far
<1>9. \A c \in Clients : /\ bp[c] \in Int /\ bp[c] = (-p) * b[c] /\ b[c] \in Int
                         /\ xp[c] \in Int /\ xp[c] = (-p) * x[c] /\ x[c] \in Int
  BY <1>4, <1>8
<1>10. ASSUME NEW c \in Clients
       PROVE  /\ lhs[c] \in Int /\ lhs[c] = gc[c] + bp[c] /\ bp[c] \in Int /\ gc[c] \in Int
              /\ rhs[c] \in Int /\ rhs[c] = go[c] + xp[c] /\ xp[c] \in Int /\ go[c] \in Int
              /\ lhs[c] <= rhs[c]
  <2> DEFINE yb == b[c] * p
             yx == x[c] * p
  <2>1. bp[c] = -yb /\ xp[c] = -yx /\ yb \in Int /\ yx \in Int
    BY <1>8, <1>9
  <2>2. lhs[c] = gc[c] + bp[c] /\ rhs[c] = go[c] + xp[c]
    OBVIOUS
  <2>3. gc[c] - yb <= go[c] - yx /\ gc[c] \in Int /\ go[c] \in Int
    BY <1>6, <1>7
  <2> HIDE DEF yb, yx, bp, xp, lhs, rhs
  <2> QED
    BY <2>1, <2>2, <2>3
<1> HIDE DEF bp, xp, lhs, rhs
<1>11. SumFunctionOnSet(lhs, Clients) <= SumFunctionOnSet(rhs, Clients)
  BY <1>0, <1>10, SumMonotone
<1>12. SumFunctionOnSet(lhs, Clients) = SumFunctionOnSet(gc, Clients) + SumFunctionOnSet(bp, Clients)
  BY <1>0, <1>10, SumPlus
<1>13. SumFunctionOnSet(rhs, Clients) = SumFunctionOnSet(go, Clients) + SumFunctionOnSet(xp, Clients)
  BY <1>0, <1>10, SumPlus
<1>14. SumFunctionOnSet(b, Clients) = SumFunctionOnSet(x, Clients)
  <2>1. \A c \in Clients : b[c] \in Int /\ q[c] \in Int /\ column[c] \in Int /\ column[c] = q[c] + b[c]
    BY <1>2, <1>4, <1>9
  <2>2. SumFunctionOnSet(column, Clients) = SumFunctionOnSet(q, Clients) + SumFunctionOnSet(b, Clients)
    BY <1>0, <2>1, SumPlus
  <2>3. \A c \in Clients : x[c] \in Int /\ q[c] \in Int /\ other[c] \in Int /\ other[c] = q[c] + x[c]
    BY <1>2, <1>4, <1>9
  <2>4. SumFunctionOnSet(other, Clients) = SumFunctionOnSet(q, Clients) + SumFunctionOnSet(x, Clients)
    BY <1>0, <2>3, SumPlus
  <2>5. SumFunctionOnSet(b, Clients) \in Int /\ SumFunctionOnSet(x, Clients) \in Int /\ SumFunctionOnSet(q, Clients) \in Int
    <3>1. \A c \in Clients : b[c] \in Int
      BY <2>1
    <3>2. \A c \in Clients : x[c] \in Int
      BY <2>3
    <3>3. \A c \in Clients : q[c] \in Int
      BY <2>3
    <3> QED
      BY <1>0, <3>1, <3>2, <3>3, SumInt
  <2> QED
    BY <1>3, <2>2, <2>4, <2>5
<1>15. SumFunctionOnSet(bp, Clients) = (-p) * SumFunctionOnSet(b, Clients)
  BY <1>0, <1>8, <1>9, SumTimes
<1>16. SumFunctionOnSet(xp, Clients) = (-p) * SumFunctionOnSet(x, Clients)
  BY <1>0, <1>8, <1>9, SumTimes
<1>17. SumFunctionOnSet(bp, Clients) \in Int
  BY <1>0, <1>9, SumInt
<1>18. SumFunctionOnSet(gc, Clients) \in Int
  BY <1>0, <1>10, SumInt
<1>19. SumFunctionOnSet(go, Clients) \in Int
  BY <1>0, <1>10, SumInt
<1>20. SumFunctionOnSet(xp, Clients) = SumFunctionOnSet(bp, Clients)
  BY <1>14, <1>15, <1>16
<1> QED
  BY <1>11, <1>12, <1>13, <1>17, <1>18, <1>19, <1>20 DEF gc, go

(* Every split comes no closer than an allocation does.                      *)
LEMMA AllocationClosest ==
  ASSUME NEW n \in Nat, NEW counts \in [Clients -> Nat],
         NEW column \in Allocations(n, counts), NEW other \in Splits(n)
  PROVE  Distance(column, counts, n) <= Distance(other, counts, n)
<1> DEFINE w == Weights(counts)
           W == SumFunction(w)
<1>1. /\ w \in [Clients -> Nat] /\ W = SumFunctionOnSet(w, Clients) /\ W \in Nat /\ W # 0
  BY WeightsFacts
<1>2. PICK favoured : LargestRemainders(column, favoured, n, w, W)
  BY AllocationIs
<1>3. other \in [Clients -> Nat] /\ SumFunctionOnSet(other, Clients) = n
  BY DEF Splits, SumFunction
<1>4. ASSUME NEW split PROVE Distance(split, counts, n) = SumFunctionOnSet(Gaps(split, n, w, W), Clients)
  <2>1. Distance(split, counts, n) = SumFunction(Gaps(split, n, w, W))
    BY DEF Distance, Gaps, Weights
  <2>2. SumFunction(Gaps(split, n, w, W)) = SumFunctionOnSet(Gaps(split, n, w, W), Clients)
    BY DEF Gaps, SumFunction
  <2> QED
    BY <2>1, <2>2
<1> HIDE DEF w, W
<1>5. SumFunctionOnSet(Gaps(column, n, w, W), Clients) <= SumFunctionOnSet(Gaps(other, n, w, W), Clients)
  BY <1>1, <1>2, <1>3, Closest
<1> QED
  BY <1>4, <1>5

(* An allocation deals the whole class, and to those it is theirs.           *)
LEMMA AllocationDeals ==
  ASSUME NEW n \in Nat, NEW counts \in [Clients -> Nat], NEW column \in Allocations(n, counts)
  PROVE  /\ column \in [Clients -> Nat]
         /\ SumFunction(column) = n
         /\ \A c \in Clients : column[c] # 0 /\ counts[c] = 0 => \A d \in Clients : counts[d] = 0
<1> DEFINE w == Weights(counts)
           W == SumFunction(w)
<1>1. /\ w \in [Clients -> Nat] /\ W = SumFunctionOnSet(w, Clients) /\ W \in Nat /\ W # 0
      /\ w = counts \/ \A d \in Clients : counts[d] = 0
  BY WeightsFacts
<1>2. PICK favoured : LargestRemainders(column, favoured, n, w, W)
  BY AllocationIs
<1> HIDE DEF w, W
<1>3. column \in [Clients -> Nat] /\ SumFunctionOnSet(column, Clients) = n
  BY <1>1, <1>2, AllocationSum
<1>4. SumFunction(column) = n
  BY <1>3 DEF SumFunction
<1>5. \A c \in Clients : w[c] = 0 => column[c] = 0
  BY <1>1, <1>2, AllocationGivesOwn
<1> QED
  BY <1>1, <1>3, <1>4, <1>5

-----------------------------------------------------------------------------
(***************************************************************************)
(* The inductive invariant of Partitioning.                                *)
(***************************************************************************)

PartitionTypes ==
  /\ runtime \in {"root", "platform"}
  /\ strategy \in Strategies
  /\ samples \in TrainingSets /\ heldOut \in [Classes -> Nat]
  /\ phase \in {"sizes", "deal", "refused", "manifest", "allocate", "repair", "done", "failed"}
  /\ train \in Deals /\ evaluation \in Deals
  /\ phase \in {"allocate", "repair", "done", "failed"} => runtime = "root"
  /\ runtime = "root" => heldOut \in EvaluationSets

(* What has been dealt of the training set is whole classes.                 *)
Dealing ==
  /\ phase \in {"sizes", "deal"} => evaluation = NoSamples
  /\ phase = "sizes" => todo = Classes
  /\ phase = "deal" => /\ todo \subseteq Classes
                       /\ strategy # "pathological"
                       /\ \A k \in Classes \ todo : SumFunction(train[k]) = samples[k]

(* The classes visited are allocated by largest remainders.                  *)
Allocating ==
  phase = "allocate" =>
    /\ todo \subseteq Classes
    /\ \A k \in todo : evaluation[k] = [c \in Clients |-> 0]
    /\ \A k \in Classes \ todo : evaluation[k] \in Allocations(heldOut[k], train[k])

(* Who tests on a class of somebody else does so because nobody trains on it, *)
(* or has been given its only sample when there was none of its own to give.  *)
OwnClasses ==
  \A c \in Clients, k \in Classes :
    evaluation[k][c] > 0 /\ train[k][c] = 0 =>
        \/ \A d \in Clients : train[k][d] = 0
        \/ /\ HeldBy(evaluation, c) = 1
           /\ \A d \in Donors(c), l \in Classes : evaluation[l][d] > 0 => train[l][c] = 0

(* Repairs move samples and only the clients still to visit have none.       *)
Repairing ==
  /\ phase # "failed"
  /\ phase = "repair" => todo = Empty
  /\ phase \in {"repair", "done"} =>
       /\ \A k \in Classes : SumFunction(evaluation[k]) = heldOut[k]
       /\ OwnClasses

PartitionInvariant ==
  PartitionTypes /\ Dealing /\ TrainingIsDealt /\ Allocating /\ Repairing

(* The properties follow.                                                    *)
LEMMA InvariantTested == PartitionInvariant => TestedAsTrained
<1> SUFFICES ASSUME PartitionInvariant, phase = "allocate", NEW k \in Classes \ todo,
                    NEW other \in Splits(heldOut[k])
             PROVE  Distance(evaluation[k], train[k], heldOut[k])
                      <= Distance(other, train[k], heldOut[k])
  BY DEF TestedAsTrained
<1>1. heldOut[k] \in Nat /\ train[k] \in [Clients -> Nat]
  BY DEF PartitionInvariant, PartitionTypes, Deals
<1>2. evaluation[k] \in Allocations(heldOut[k], train[k])
  BY DEF PartitionInvariant, Allocating
<1> QED
  BY <1>1, <1>2, AllocationClosest

(* Everyone is tested when the repairs are through.                         *)
LEMMA InvariantEveryone == PartitionInvariant => EveryoneIsTested
BY DEF PartitionInvariant, Repairing, OwnClasses, EveryoneIsTested

(***************************************************************************)
(* The evaluation set: the choices of a repair.                            *)
(***************************************************************************)

(* With as many samples as clients and a client without any, another has two. *)
LEMMA DonorExists ==
  ASSUME PartitionInvariant, phase = "repair", NEW c \in Clients, HeldBy(evaluation, c) = 0
  PROVE  Donors(c) # {}
<1> SUFFICES ASSUME Donors(c) = {} PROVE FALSE
  OBVIOUS
<1> DEFINE f == [d \in Clients |-> HeldBy(evaluation, d)]
           g == [d \in Clients |-> IF d \in Clients \ {c} THEN 1 ELSE 0]
<1>0. IsFiniteSet(Clients) /\ Cardinality(Clients) = NumClients /\ NumClients \in Nat
  BY PartitionFacts
<1>1. /\ evaluation \in Deals /\ runtime = "root" /\ heldOut \in EvaluationSets
      /\ heldOut \in [Classes -> Nat]
      /\ \A k \in Classes : SumFunction(evaluation[k]) = heldOut[k]
  BY DEF PartitionInvariant, PartitionTypes, Repairing
<1>2. \A d \in Clients : f[d] \in Nat /\ f[d] = HeldBy(evaluation, d)
  BY <1>1, DealSums
<1>3. \A d \in Clients : g[d] \in Nat /\ g[d] = IF d \in Clients \ {c} THEN 1 ELSE 0
  OBVIOUS
<1>4. SumFunctionOnSet(f, Clients) = SumFunctionOnSet([k \in Classes |-> SumFunction(evaluation[k])], Classes)
  BY <1>1, DealTotal
<1> HIDE DEF f, g
<1>5. \A d \in Clients : f[d] \in Int /\ g[d] \in Int /\ f[d] <= g[d]
  BY <1>2, <1>3 DEF Donors
<1>6. SumFunctionOnSet(f, Clients) <= SumFunctionOnSet(g, Clients)
  BY <1>0, <1>5, SumMonotone
<1>7. SumFunctionOnSet(g, Clients) = Cardinality(Clients \ {c})
  BY <1>0, <1>3, SumCounts
<1>8. Cardinality(Clients \ {c}) = NumClients - 1
  BY <1>0, FS_RemoveElement
<1>9. [k \in Classes |-> SumFunction(evaluation[k])] = heldOut
  BY <1>1
<1>10. SumFunctionOnSet(heldOut, Classes) = SumFunction(heldOut)
  BY <1>1 DEF SumFunction
<1>11. SumFunction(heldOut) >= NumClients
  BY <1>1, PartitionAssumption
<1>12. SumFunctionOnSet(f, Clients) \in Int
  BY <1>0, <1>5, SumInt
<1> QED
  BY <1>0, <1>4, <1>6, <1>7, <1>8, <1>9, <1>10, <1>11, <1>12

(* The largest holder is one of those that can give a sample.               *)
LEMMA LargestIs ==
  ASSUME evaluation \in Deals, NEW c \in Clients, Donors(c) # {}
  PROVE  Largest(c) \in Donors(c)
<1> DEFINE f == [d \in Clients |-> HeldBy(evaluation, d)]
           g == [d \in Clients |-> d]
<1>1. Donors(c) \subseteq Clients /\ IsFiniteSet(Donors(c))
  <2>1. Donors(c) \subseteq Clients
    BY DEF Donors
  <2> QED
    BY <2>1, PartitionFacts, FS_Subset
<1>2. \A d \in Donors(c) : f[d] \in Int /\ g[d] \in Int /\ f[d] = HeldBy(evaluation, d) /\ g[d] = d
  <2>1. \A d \in Clients : d \in Int
    BY PartitionFacts
  <2>2. \A d \in Clients : HeldBy(evaluation, d) \in Nat
    BY DealSums
  <2> QED
    BY <1>1, <2>1, <2>2
<1> HIDE DEF f, g
<1>3. PICK d \in Donors(c) : \A e \in Donors(c) :
         f[e] < f[d] \/ (f[e] = f[d] /\ (g[e] < g[d] \/ (g[e] = g[d] /\ g[e] <= g[d])))
  <2>1. \A d \in Donors(c) : f[d] \in Int /\ g[d] \in Int
    BY <1>2
  <2>2. IsFiniteSet(Donors(c))
    BY <1>1
  <2> QED
    BY <2>1, <2>2, LargestExists
<1>4. \A e \in Donors(c) :
        \/ HeldBy(evaluation, e) < HeldBy(evaluation, d)
        \/ HeldBy(evaluation, e) = HeldBy(evaluation, d) /\ e <= d
  BY <1>2, <1>3
<1> QED
  BY <1>4 DEF Largest

(* The largest holder of a class is one of those that can give a sample of it. *)
LEMMA LargestOfIs ==
  ASSUME evaluation \in Deals, NEW c \in Clients, NEW k \in Classes, DonorsOf(c, k) # {}
  PROVE  LargestOf(c, k) \in DonorsOf(c, k)
<1> DEFINE f == [d \in Clients |-> evaluation[k][d]]
           g == [d \in Clients |-> HeldBy(evaluation, d)]
           h == [d \in Clients |-> d]
           S == DonorsOf(c, k)
<1>1. S \subseteq Clients /\ IsFiniteSet(S)
  <2>1. S \subseteq Clients
    BY DEF DonorsOf, Donors
  <2> QED
    BY <2>1, PartitionFacts, FS_Subset
<1>2. \A d \in S : /\ f[d] \in Int /\ f[d] = evaluation[k][d]
                   /\ g[d] \in Int /\ g[d] = HeldBy(evaluation, d)
                   /\ h[d] \in Int /\ h[d] = d
  <2>1. \A d \in Clients : d \in Int
    BY PartitionFacts
  <2>2. \A d \in Clients : HeldBy(evaluation, d) \in Nat /\ evaluation[k][d] \in Nat
    BY DealSums
  <2> QED
    BY <1>1, <2>1, <2>2
<1> HIDE DEF f, g, h
<1>3. PICK d \in S : \A e \in S :
         f[e] < f[d] \/ (f[e] = f[d] /\ (g[e] < g[d] \/ (g[e] = g[d] /\ h[e] <= h[d])))
  <2>1. \A d \in S : f[d] \in Int /\ g[d] \in Int /\ h[d] \in Int
    BY <1>2
  <2>2. IsFiniteSet(S) /\ S # {}
    BY <1>1
  <2> HIDE DEF S
  <2> QED
    BY <2>1, <2>2, LargestExists
<1>4. \A e \in S :
        \/ evaluation[k][e] < evaluation[k][d]
        \/ /\ evaluation[k][e] = evaluation[k][d]
           /\ \/ HeldBy(evaluation, e) < HeldBy(evaluation, d)
              \/ HeldBy(evaluation, e) = HeldBy(evaluation, d) /\ e <= d
  BY <1>2, <1>3
<1> QED
  BY <1>4 DEF LargestOf

(* Who holds a sample holds one of its last class.                           *)
LEMMA LastClassIs ==
  ASSUME evaluation \in Deals, NEW d \in Clients, HeldBy(evaluation, d) # 0
  PROVE  LastClass(d) \in Classes /\ evaluation[LastClass(d)][d] > 0
<1> DEFINE S == {k \in Classes : evaluation[k][d] > 0}
           f == [k \in Classes |-> evaluation[k][d]]
<1>1. IsFiniteSet(S)
  BY PartitionFacts, FS_Subset
<1>2. \A k \in Classes : evaluation[k][d] \in Nat
  BY DEF Deals
<1>3. S # {}
  <2> SUFFICES ASSUME S = {} PROVE FALSE
    OBVIOUS
  <2>1. \A k \in Classes : f[k] = 0
    BY <1>2
  <2>2. HeldBy(evaluation, d) = SumFunctionOnSet(f, Classes)
    BY DealSums
  <2> HIDE DEF f
  <2>3. SumFunctionOnSet(f, Classes) = 0 * Cardinality(Classes)
    BY <2>1, PartitionFacts, SumConstant, 0 \in Int
  <2>4. 0 * Cardinality(Classes) = 0
    BY PartitionFacts
  <2> QED
    BY <2>2, <2>3, <2>4
<1>4. S \subseteq Int
  <2>1. \A k \in Classes : k \in Int
    BY PartitionFacts
  <2> QED
    BY <2>1
<1> HIDE DEF S
<1>5. Max(S) \in S
  BY <1>1, <1>3, <1>4, MaxExists
<1> QED
  BY <1>5 DEF S, LastClass

(* A client prefers no class only if nobody can spare one it trains on.       *)
LEMMA PreferredNone ==
  ASSUME train \in Deals, NEW c \in Clients, Preferred(c) = {}
  PROVE  \A k \in Classes : train[k][c] > 0 => DonorsOf(c, k) = {}
<1> DEFINE S == {k \in Classes : train[k][c] > 0 /\ DonorsOf(c, k) # {}}
           f == [k \in Classes |-> train[k][c]]
           g == [k \in Classes |-> -k]
<1> SUFFICES ASSUME S # {} PROVE FALSE
  OBVIOUS
<1>1. IsFiniteSet(S) /\ S \subseteq Classes
  BY PartitionFacts, FS_Subset
<1>2. \A k \in Classes : f[k] \in Int /\ f[k] = train[k][c] /\ g[k] \in Int /\ g[k] = -k /\ k \in Nat
  BY PartitionFacts DEF Deals
<1>3. Preferred(c) = {k \in S : \A l \in S :
          train[l][c] < train[k][c] \/ (train[l][c] = train[k][c] /\ k <= l)}
  BY DEF Preferred
<1> HIDE DEF f, g, S
<1>4. PICK k \in S : \A l \in S :
         f[l] < f[k] \/ (f[l] = f[k] /\ (g[l] < g[k] \/ (g[l] = g[k] /\ g[l] <= g[k])))
  <2>1. \A k \in S : f[k] \in Int /\ g[k] \in Int
    BY <1>1, <1>2
  <2>2. IsFiniteSet(S)
    BY <1>1
  <2> QED
    BY <2>1, <2>2, LargestExists
<1>5. \A l \in S : train[l][c] < train[k][c] \/ (train[l][c] = train[k][c] /\ k <= l)
  <2> TAKE l \in S
  <2>1. l \in Classes /\ k \in Classes
    BY <1>1
  <2> QED
    BY <1>2, <1>4, <2>1
<1> QED
  BY <1>3, <1>5

(***************************************************************************)
(* The steps keep the invariant: the evaluation set.                       *)
(***************************************************************************)

Used == {"allocate", "repair", "done", "failed", "manifest"}

(* A deal once in use is not touched again.                                  *)
LEMMA KeptTraining ==
  ASSUME TrainingIsDealt, phase \in Used, UNCHANGED <<given, train>>
  PROVE  TrainingIsDealt'
<1>1. /\ runtime' = runtime /\ strategy' = strategy /\ samples' = samples /\ train' = train
      /\ phase \in {"allocate", "repair", "done", "failed", "manifest"}
  BY DEF given, Used
<1>2. EnoughForAll(train)' <=> EnoughForAll(train)
  BY <1>1 DEF EnoughForAll, HeldBy
<1> QED
  BY <1>1, <1>2 DEF TrainingIsDealt

(* Steps on the evaluation set keep the types.                              *)
LEMMA KeptTypes ==
  ASSUME PartitionTypes, UNCHANGED <<given, train>>, evaluation' \in Deals,
         phase' \in {"allocate", "repair", "done", "failed"}, runtime = "root"
  PROVE  PartitionTypes'
BY DEF PartitionTypes, given, Deals, Classes, Clients, Strategies

(* Allocating a class keeps the invariant.                                  *)
LEMMA AllocateClassKeeps ==
  ASSUME PartitionInvariant, NEW k \in Classes, AllocateClass(k)
  PROVE  PartitionInvariant'
<1>1. /\ PartitionTypes /\ TrainingIsDealt /\ Allocating /\ Repairing
      /\ train \in Deals /\ evaluation \in Deals /\ heldOut \in [Classes -> Nat] /\ runtime = "root"
      /\ phase = "allocate" /\ phase' = phase /\ k \in todo /\ todo' = todo \ {k}
      /\ UNCHANGED <<given, train>>
  BY DEF PartitionInvariant, PartitionTypes, AllocateClass, IsNext
<1>2. PICK column \in Allocations(heldOut[k], train[k]) : evaluation' = [evaluation EXCEPT ![k] = column]
  BY DEF AllocateClass
<1>3. column \in [Clients -> Nat]
  <2>1. heldOut[k] \in Nat /\ train[k] \in [Clients -> Nat]
    BY <1>1 DEF Deals
  <2> QED
    BY <2>1, AllocationDeals
<1>4. /\ evaluation' \in Deals /\ evaluation'[k] = column
      /\ \A l \in Classes : l # k => evaluation'[l] = evaluation[l]
  BY <1>1, <1>2, <1>3 DEF Deals
<1>5. PartitionTypes'
  BY <1>1, <1>4, KeptTypes
<1>6. TrainingIsDealt'
  BY <1>1, KeptTraining DEF Used
<1>7. Dealing' /\ Repairing'
  BY <1>1 DEF Dealing, Repairing
<1>8. Allocating'
  <2>1. heldOut' = heldOut /\ train' = train
    BY <1>1 DEF given
  <2>2. todo' \subseteq Classes /\ \A l \in todo' : evaluation'[l] = [c \in Clients |-> 0]
    BY <1>1, <1>4 DEF Allocating
  <2>3. \A l \in Classes \ todo' : evaluation'[l] \in Allocations(heldOut[l], train[l])
    BY <1>1, <1>2, <1>4 DEF Allocating
  <2>4. \A l \in Classes \ todo' : evaluation'[l] \in Allocations(heldOut'[l], train'[l])
    BY <2>1, <2>3
  <2> QED
    BY <2>2, <2>4 DEF Allocating, Clients
<1> QED
  BY <1>5, <1>6, <1>7, <1>8 DEF PartitionInvariant

(* When every class is allocated, every sample is, and to those who train on its class. *)
LEMMA BeginRepairKeeps ==
  ASSUME PartitionInvariant, BeginRepair
  PROVE  PartitionInvariant'
<1>1. /\ PartitionTypes /\ TrainingIsDealt /\ Allocating /\ Repairing
      /\ train \in Deals /\ evaluation \in Deals /\ heldOut \in [Classes -> Nat] /\ runtime = "root"
      /\ phase = "allocate" /\ phase' = "repair" /\ todo = {} /\ todo' = Empty
      /\ UNCHANGED <<given, train, evaluation>>
  BY DEF PartitionInvariant, PartitionTypes, BeginRepair
<1>2. PartitionTypes'
  BY <1>1, KeptTypes
<1>3. TrainingIsDealt'
  BY <1>1, KeptTraining DEF Used
<1>4. Dealing' /\ Allocating'
  BY <1>1 DEF Dealing, Allocating
<1>5. ASSUME NEW k \in Classes
      PROVE  /\ SumFunction(evaluation[k]) = heldOut[k]
             /\ \A c \in Clients : evaluation[k][c] > 0 /\ train[k][c] = 0 => \A d \in Clients : train[k][d] = 0
  <2>1. evaluation[k] \in Allocations(heldOut[k], train[k])
    BY <1>1 DEF Allocating
  <2>2. heldOut[k] \in Nat /\ train[k] \in [Clients -> Nat]
    BY <1>1 DEF Deals
  <2>3. /\ SumFunction(evaluation[k]) = heldOut[k]
        /\ \A c \in Clients : evaluation[k][c] # 0 /\ train[k][c] = 0 => \A d \in Clients : train[k][d] = 0
    BY <2>1, <2>2, AllocationDeals
  <2> QED
    BY <2>3
<1>6. OwnClasses
  BY <1>5 DEF OwnClasses
<1>7. /\ evaluation' = evaluation /\ train' = train /\ heldOut' = heldOut
      /\ Empty' = Empty /\ (OwnClasses' <=> OwnClasses)
  <2>1. evaluation' = evaluation /\ train' = train /\ heldOut' = heldOut
    BY <1>1 DEF given
  <2>2. Empty' = Empty
    BY <2>1 DEF Empty, HeldBy
  <2>3. OwnClasses' <=> OwnClasses
    BY <2>1 DEF OwnClasses, Donors, HeldBy
  <2> QED
    BY <2>1, <2>2, <2>3
<1>8. Repairing'
  BY <1>1, <1>5, <1>6, <1>7 DEF Repairing
<1> QED
  BY <1>2, <1>3, <1>4, <1>8 DEF PartitionInvariant

(* A client without samples is given one by a client with more than one, of a *)
(* class of its own if anybody has one to give.                               *)
LEMMA MoveKeeps ==
  ASSUME PartitionInvariant, phase = "repair", NEW c \in todo,
         NEW k \in Classes, NEW donor \in Donors(c), evaluation[k][donor] > 0,
         train[k][c] > 0 \/ Preferred(c) = {}, Move(k, donor, c),
         UNCHANGED <<given, train, phase>>, todo' = todo \ {c}
  PROVE  PartitionInvariant'
<1>1. /\ PartitionTypes /\ TrainingIsDealt /\ Repairing
      /\ train \in Deals /\ evaluation \in Deals /\ runtime = "root"
      /\ todo = Empty /\ OwnClasses
      /\ \A l \in Classes : SumFunction(evaluation[l]) = heldOut[l]
      /\ train' = train /\ heldOut' = heldOut /\ phase' = "repair"
  BY DEF PartitionInvariant, PartitionTypes, Repairing, given
<1>2. /\ c \in Clients /\ HeldBy(evaluation, c) = 0
      /\ donor \in Clients /\ donor # c /\ HeldBy(evaluation, donor) > 1
  BY <1>1 DEF Empty, Donors
<1> DEFINE before == evaluation
<1>3. PICK after : after = evaluation' /\ Moved(after, before, k, donor, c)
  <2>1. evaluation' = [before EXCEPT ![k][donor] = @ - 1, ![k][c] = @ + 1]
    BY DEF Move
  <2>2. before[k][donor] # 0
    OBVIOUS
  <2> QED
    BY <1>1, <1>2, <2>1, <2>2, MoveIs
<1>4. /\ before \in Deals /\ after \in Deals
      /\ HeldBy(after, donor) = HeldBy(before, donor) - 1
      /\ HeldBy(after, c) = HeldBy(before, c) + 1
      /\ \A e \in Clients : e # donor /\ e # c => HeldBy(after, e) = HeldBy(before, e)
      /\ \A l \in Classes : SumFunction(after[l]) = SumFunction(before[l])
  BY <1>1, <1>2, <1>3, MoveSums DEF Moved
<1>5. /\ \A e \in Clients : HeldBy(before, e) \in Nat
      /\ \A l \in Classes, e \in Clients : /\ before[l][e] \in Nat /\ after[l][e] \in Nat
                                           /\ train[l][e] \in Nat
                                           /\ before[l][e] <= HeldBy(before, e)
  BY <1>1, <1>4, DealSums
<1>6. /\ \A l \in Classes, e \in Clients : e # c => after[l][e] <= before[l][e]
      /\ \A l \in Classes : l # k => after[l][c] = 0
  BY <1>2, <1>3, <1>5 DEF Moved
<1>7. PartitionTypes'
  BY <1>1, <1>3, <1>4, KeptTypes
<1>8. TrainingIsDealt'
  BY <1>1, KeptTraining DEF Used
<1>9. Dealing' /\ Allocating'
  BY <1>1 DEF Dealing, Allocating
<1>10. Empty' = Empty \ {c}
  <2>1. Empty' = {e \in Clients : HeldBy(after, e) = 0}
    BY <1>3 DEF Empty, HeldBy
  <2>2. Empty = {e \in Clients : HeldBy(before, e) = 0}
    BY DEF Empty
  <2> HIDE DEF before
  <2> QED
    BY <1>2, <1>4, <1>5, <2>1, <2>2 DEF before
<1> DEFINE Owners(deal, e) == {d \in Clients \ {e} : HeldBy(deal, d) > 1}
<1>11. \A e \in Clients : Owners(after, e) \subseteq Owners(before, e) \ {c}
  BY <1>2, <1>4, <1>5
<1>12. ASSUME NEW e \in Clients, NEW l \in Classes, after[l][e] > 0, train[l][e] = 0
       PROVE  \/ \A d \in Clients : train[l][d] = 0
              \/ /\ HeldBy(after, e) = 1
                 /\ \A d \in Owners(after, e), m \in Classes : after[m][d] > 0 => train[m][e] = 0
  <2>1. CASE e = c
    <3>1. l = k /\ Preferred(c) = {}
      BY <1>6, <1>12, <2>1
    <3>2. \A m \in Classes : train[m][c] > 0 => DonorsOf(c, m) = {}
      BY <1>1, <1>2, <3>1, PreferredNone
    <3>3. HeldBy(after, c) = 1
      BY <1>2, <1>4
    <3>4. ASSUME NEW d \in Owners(after, c), NEW m \in Classes, after[m][d] > 0
          PROVE  train[m][c] = 0
      <4>1. d \in Clients /\ d # c /\ d \in Donors(c)
        BY <1>2, <1>11 DEF Donors
      <4>2. before[m][d] > 0
        BY <1>5, <1>6, <3>4, <4>1
      <4>3. d \in DonorsOf(c, m)
        BY <4>1, <4>2 DEF DonorsOf
      <4> QED
        BY <1>2, <1>5, <3>2, <4>3
    <3> QED
      BY <2>1, <3>3, <3>4
  <2>2. CASE e # c
    <3>1. before[l][e] > 0
      BY <1>5, <1>6, <1>12, <2>2
    <3>2. \/ \A d \in Clients : train[l][d] = 0
          \/ /\ HeldBy(before, e) = 1
             /\ \A d \in Donors(e), m \in Classes : before[m][d] > 0 => train[m][e] = 0
      BY <1>1, <1>12, <3>1 DEF OwnClasses
    <3>3. ASSUME HeldBy(before, e) = 1,
                 \A d \in Donors(e), m \in Classes : before[m][d] > 0 => train[m][e] = 0
          PROVE  /\ HeldBy(after, e) = 1
                 /\ \A d \in Owners(after, e), m \in Classes : after[m][d] > 0 => train[m][e] = 0
      <4>1. HeldBy(after, e) = 1
        BY <1>2, <1>4, <2>2, <3>3
      <4>2. ASSUME NEW d \in Owners(after, e), NEW m \in Classes, after[m][d] > 0
            PROVE  train[m][e] = 0
        <5>1. d \in Clients /\ d # c /\ d \in Donors(e)
          BY <1>11 DEF Donors
        <5>2. before[m][d] > 0
          BY <1>5, <1>6, <4>2, <5>1
        <5> QED
          BY <3>3, <5>1, <5>2
      <4> QED
        BY <4>1, <4>2
    <3> QED
      BY <3>2, <3>3
  <2> QED
    BY <2>1, <2>2
<1>13. OwnClasses'
  <2>1. \A e \in Clients : HeldBy(evaluation, e)' = HeldBy(after, e) /\ Donors(e)' = Owners(after, e)
    BY <1>3 DEF Donors, HeldBy, Clients
  <2> HIDE DEF Owners, before
  <2> QED
    BY <1>1, <1>3, <1>12, <2>1 DEF OwnClasses
<1>14. \A l \in Classes : SumFunction(evaluation'[l]) = heldOut'[l]
  BY <1>1, <1>3, <1>4
<1>15. Repairing'
  BY <1>1, <1>10, <1>13, <1>14 DEF Repairing
<1> QED
  BY <1>7, <1>8, <1>9, <1>15 DEF PartitionInvariant

(* One turn of _repair_empty_evaluation_clients keeps the invariant and does not fail. *)
LEMMA RepairKeeps ==
  ASSUME PartitionInvariant, NEW c \in Clients, Repair(c)
  PROVE  PartitionInvariant'
<1>1. /\ phase = "repair" /\ c \in todo /\ todo' = todo \ {c} /\ UNCHANGED <<given, train>>
      /\ evaluation \in Deals /\ train \in Deals /\ todo = Empty
  BY DEF PartitionInvariant, PartitionTypes, Repairing, Repair, IsNext
<1>2. HeldBy(evaluation, c) = 0
  BY <1>1 DEF Empty
<1>3. Donors(c) # {}
  BY <1>1, <1>2, DonorExists
<1>4. CASE \E k \in Preferred(c) : Move(k, LargestOf(c, k), c) /\ UNCHANGED phase
  <2>1. PICK k \in Preferred(c) : Move(k, LargestOf(c, k), c) /\ UNCHANGED phase
    BY <1>4
  <2>2. k \in Classes /\ train[k][c] > 0 /\ DonorsOf(c, k) # {}
    BY DEF Preferred
  <2>3. LargestOf(c, k) \in DonorsOf(c, k)
    BY <1>1, <2>2, LargestOfIs
  <2>4. LargestOf(c, k) \in Donors(c) /\ evaluation[k][LargestOf(c, k)] > 0
    BY <2>3 DEF DonorsOf
  <2> QED
    BY <1>1, <2>1, <2>2, <2>4, MoveKeeps
<1>5. CASE /\ Preferred(c) = {} /\ Donors(c) # {}
           /\ Move(LastClass(Largest(c)), Largest(c), c)
           /\ UNCHANGED phase
  <2>1. Largest(c) \in Donors(c)
    BY <1>1, <1>3, LargestIs
  <2>2. Largest(c) \in Clients /\ HeldBy(evaluation, Largest(c)) > 1
    BY <2>1 DEF Donors
  <2>3. HeldBy(evaluation, Largest(c)) \in Nat
    BY <1>1, <2>2, DealSums
  <2>4. LastClass(Largest(c)) \in Classes /\ evaluation[LastClass(Largest(c))][Largest(c)] > 0
    BY <1>1, <2>2, <2>3, LastClassIs
  <2> QED
    BY <1>1, <1>5, <2>1, <2>4, MoveKeeps
<1> QED
  BY <1>3, <1>4, <1>5 DEF Repair

(* The last check passes.                                                   *)
LEMMA ReturnKeeps ==
  ASSUME PartitionInvariant, Return
  PROVE  PartitionInvariant'
<1>1. /\ PartitionTypes /\ TrainingIsDealt /\ Repairing /\ runtime = "root" /\ evaluation \in Deals
      /\ phase = "repair" /\ todo = {} /\ todo = Empty /\ OwnClasses
      /\ \A k \in Classes : SumFunction(evaluation[k]) = heldOut[k]
      /\ UNCHANGED <<given, train, evaluation>>
  BY DEF PartitionInvariant, PartitionTypes, Repairing, Return
<1>2. phase' = "done"
  BY <1>1 DEF Return
<1>3. PartitionTypes'
  BY <1>1, <1>2, KeptTypes
<1>4. TrainingIsDealt'
  BY <1>1, KeptTraining DEF Used
<1>5. Dealing' /\ Allocating'
  BY <1>2 DEF Dealing, Allocating
<1>6. evaluation' = evaluation /\ train' = train /\ heldOut' = heldOut
  BY <1>1 DEF given
<1>7. OwnClasses' <=> OwnClasses
  BY <1>6 DEF OwnClasses, Donors, HeldBy
<1>8. Repairing'
  BY <1>1, <1>2, <1>6, <1>7 DEF Repairing
<1> QED
  BY <1>3, <1>4, <1>5, <1>8 DEF PartitionInvariant

(***************************************************************************)
(* The steps keep the invariant: dealing the training set.                 *)
(***************************************************************************)

(* An empty deal is a deal.                                                 *)
LEMMA NoSamplesDealt == NoSamples \in Deals
BY DEF NoSamples, Deals

(* The invariant holds before anything is dealt.                            *)
LEMMA PartitionInitial == PartitionInit => PartitionInvariant
<1> SUFFICES ASSUME PartitionInit PROVE PartitionInvariant
  OBVIOUS
<1>1. samples \in TrainingSets /\ heldOut \in [Classes -> Nat] /\ (runtime = "root" => heldOut \in EvaluationSets)
  <2>1. EvaluationSets \subseteq [Classes -> Nat]
    BY PartitionAssumption
  <2>2. [k \in Classes |-> 0] \in [Classes -> Nat]
    OBVIOUS
  <2> QED
    BY <2>1, <2>2 DEF PartitionInit
<1> QED
  BY <1>1, NoSamplesDealt
  DEF PartitionInit, PartitionInvariant, PartitionTypes, Dealing, TrainingIsDealt, Allocating, Repairing

(* Choosing sizes keeps the invariant.                                      *)
LEMMA ChooseSizesKeeps ==
  ASSUME PartitionInvariant, ChooseSizes
  PROVE  PartitionInvariant'
<1>1. /\ PartitionTypes /\ Dealing /\ phase = "sizes" /\ phase' = "deal" /\ strategy # "pathological"
      /\ todo = Classes /\ evaluation = NoSamples
      /\ UNCHANGED <<given, todo, train, evaluation>>
  BY DEF PartitionInvariant, Dealing, ChooseSizes
<1>2. /\ runtime' = runtime /\ strategy' = strategy /\ samples' = samples /\ heldOut' = heldOut
      /\ train' = train /\ evaluation' = evaluation /\ todo' = todo
  BY <1>1 DEF given
<1>3. PartitionTypes'
  BY <1>1, <1>2 DEF PartitionTypes, Deals, Classes, Clients, Strategies
<1>4. Dealing'
  BY <1>1, <1>2 DEF Dealing, NoSamples, Classes, Clients
<1>5. TrainingIsDealt' /\ Allocating' /\ Repairing'
  BY <1>1 DEF TrainingIsDealt, Allocating, Repairing
<1> QED
  BY <1>3, <1>4, <1>5 DEF PartitionInvariant

(* Dealing a class keeps the invariant.                                     *)
LEMMA DealClassKeeps ==
  ASSUME PartitionInvariant, NEW k \in Classes, DealClass(k)
  PROVE  PartitionInvariant'
<1>1. /\ PartitionTypes /\ Dealing /\ phase = "deal" /\ phase' = "deal" /\ k \in todo
      /\ train \in Deals /\ todo' = todo \ {k}
      /\ runtime' = runtime /\ strategy' = strategy /\ samples' = samples /\ heldOut' = heldOut
      /\ evaluation' = evaluation
  BY DEF PartitionInvariant, PartitionTypes, DealClass, IsNext, given
<1>2. PICK column \in Splits(samples[k]) : train' = [train EXCEPT ![k] = column]
  BY DEF DealClass
<1>3. column \in [Clients -> Nat] /\ SumFunction(column) = samples[k]
  BY <1>2 DEF Splits
<1>4. /\ train' \in Deals /\ train'[k] = column
      /\ \A l \in Classes : l # k => train'[l] = train[l]
  BY <1>1, <1>2, <1>3 DEF Deals
<1>5. PartitionTypes'
  BY <1>1, <1>4 DEF PartitionTypes, Deals, Classes, Clients, Strategies
<1>6. Dealing'
  <2>1. /\ todo \subseteq Classes /\ strategy # "pathological" /\ evaluation = NoSamples
        /\ \A l \in Classes \ todo : SumFunction(train[l]) = samples[l]
    BY <1>1 DEF Dealing
  <2>2. \A l \in Classes \ todo' : SumFunction(train'[l]) = samples'[l]
    BY <1>1, <1>3, <1>4, <2>1
  <2> QED
    BY <1>1, <2>1, <2>2 DEF Dealing, NoSamples, Classes, Clients
<1>7. TrainingIsDealt' /\ Allocating' /\ Repairing'
  BY <1>1 DEF TrainingIsDealt, Allocating, Repairing
<1> QED
  BY <1>5, <1>6, <1>7 DEF PartitionInvariant

(* Accepting a deal, drawing again or refusing it keeps the invariant.      *)
LEMMA AcceptDealKeeps ==
  ASSUME PartitionInvariant, AcceptDeal
  PROVE  PartitionInvariant'
<1>1. /\ PartitionTypes /\ Dealing /\ phase = "deal" /\ todo = {} /\ train \in Deals
      /\ runtime' = runtime /\ strategy' = strategy /\ samples' = samples /\ heldOut' = heldOut
      /\ evaluation' = evaluation /\ evaluation = NoSamples /\ strategy # "pathological"
      /\ \A k \in Classes : SumFunction(train[k]) = samples[k]
  BY DEF PartitionInvariant, PartitionTypes, Dealing, AcceptDeal, given
<1>2. CASE EnoughForAll(train) /\ phase' = AfterTraining /\ todo' = Classes /\ UNCHANGED train
  <2>1. phase' \in {"allocate", "manifest"} /\ (phase' = "allocate" => runtime = "root")
    BY <1>2 DEF AfterTraining
  <2>2. PartitionTypes'
    BY <1>1, <1>2, <2>1 DEF PartitionTypes, Deals, Classes, Clients, Strategies
  <2>3. Dealing' /\ Repairing'
    BY <2>1 DEF Dealing, Repairing
  <2>4. TrainingIsDealt'
    <3>1. EnoughForAll(train)' <=> EnoughForAll(train)
      BY <1>2 DEF EnoughForAll, HeldBy
    <3> QED
      BY <1>1, <1>2, <3>1 DEF TrainingIsDealt
  <2>5. Allocating'
    <3>1. \A k \in Classes : evaluation'[k] = [c \in Clients |-> 0]
      BY <1>1 DEF NoSamples
    <3> QED
      BY <1>2, <3>1 DEF Allocating, Classes, Clients
  <2> QED
    BY <2>2, <2>3, <2>4, <2>5 DEF PartitionInvariant
<1>3. CASE todo' = Classes /\ train' = NoSamples /\ UNCHANGED phase
  <2>1. PartitionTypes'
    BY <1>1, <1>3, NoSamplesDealt DEF PartitionTypes, Deals, Classes, Clients, Strategies
  <2>2. Dealing'
    BY <1>1, <1>3 DEF Dealing, NoSamples, Classes, Clients
  <2>3. TrainingIsDealt' /\ Allocating' /\ Repairing'
    BY <1>1, <1>3 DEF TrainingIsDealt, Allocating, Repairing
  <2> QED
    BY <2>1, <2>2, <2>3 DEF PartitionInvariant
<1>4. CASE phase' = "refused" /\ UNCHANGED <<todo, train>>
  <2>1. PartitionTypes'
    BY <1>1, <1>4 DEF PartitionTypes, Deals, Classes, Clients, Strategies
  <2>2. Dealing' /\ TrainingIsDealt' /\ Allocating' /\ Repairing'
    BY <1>4 DEF Dealing, TrainingIsDealt, Allocating, Repairing
  <2> QED
    BY <2>1, <2>2 DEF PartitionInvariant
<1> QED
  BY <1>2, <1>3, <1>4 DEF AcceptDeal

(* A pathological deal that satisfies the minimum is used at once.           *)
LEMMA DealtAtOnceKeeps ==
  ASSUME PartitionInvariant, phase = "sizes", strategy = "pathological",
         UNCHANGED <<given, todo, evaluation>>, train' \in Deals,
         \/ phase' = "refused"
         \/ /\ phase' = IF runtime = "root" THEN "allocate" ELSE "manifest"
            /\ EnoughForAll(train)',
         \A k \in Classes : \/ SumFunction(train'[k]) = samples[k]
                            \/ runtime = "platform" /\ train'[k] = [c \in Clients |-> 0],
         \A c \in Clients :
             LET seen == Cardinality({k \in Classes : train'[k][c] > 0})
             IN \/ runtime = "platform" /\ seen <= ClassesPerClient
                \/ runtime = "root" /\ seen <= 2 * ClassesPerClient
                \/ /\ runtime = "root"
                   /\ \E k \in Classes : samples[k] * NumShards < SumFunction(samples)
  PROVE  PartitionInvariant'
<1>1. /\ PartitionTypes /\ Dealing /\ todo = Classes /\ evaluation = NoSamples
      /\ runtime' = runtime /\ strategy' = strategy /\ samples' = samples /\ heldOut' = heldOut
      /\ evaluation' = evaluation /\ todo' = todo /\ runtime \in {"root", "platform"}
  BY DEF PartitionInvariant, PartitionTypes, Dealing, given
<1>2. /\ phase' \in {"allocate", "manifest", "refused"} /\ (phase' = "allocate" => runtime = "root")
  BY <1>1
<1>3. PartitionTypes'
  BY <1>1, <1>2 DEF PartitionTypes, Deals, Classes, Clients, Strategies
<1>4. Dealing' /\ Repairing'
  BY <1>2 DEF Dealing, Repairing
<1>5. Allocating'
  <2>1. \A k \in Classes : evaluation'[k] = [c \in Clients |-> 0]
    BY <1>1 DEF NoSamples
  <2> QED
    BY <1>1, <2>1 DEF Allocating, Classes, Clients
<1>6. TrainingIsDealt'
  <2>1. CASE phase' = "refused"
    BY <2>1 DEF TrainingIsDealt
  <2>2. CASE EnoughForAll(train)'
    <3>1. \A k \in Classes : \/ SumFunction(train'[k]) = samples'[k]
                             \/ /\ runtime' = "platform" /\ strategy' = "pathological"
                                /\ train'[k] = [c \in Clients |-> 0]
      BY <1>1
    <3>2. \A c \in Clients :
             LET seen == Cardinality({k \in Classes : train'[k][c] > 0})
             IN \/ runtime' = "platform" /\ seen <= ClassesPerClient
                \/ runtime' = "root" /\ seen <= 2 * ClassesPerClient
                \/ /\ runtime' = "root"
                   /\ \E k \in Classes : samples'[k] * NumShards < SumFunction(samples')
      BY <1>1
    <3> QED
      BY <2>2, <3>1, <3>2 DEF TrainingIsDealt, Classes, Clients, NumShards
  <2> QED
    BY <2>1, <2>2
<1> QED
  BY <1>3, <1>4, <1>5, <1>6 DEF PartitionInvariant

(***************************************************************************)
(* Even parts.                                                             *)
(***************************************************************************)

(* The parts np.array_split makes add up.                                    *)
LEMMA ArraySplitSum ==
  ASSUME NEW n \in Nat, NEW h \in Nat, h # 0
  PROVE  LET I == 0..(h - 1)
         IN  /\ IsFiniteSet(I) /\ Cardinality(I) = h
             /\ \A i \in I : ArraySplit(n, h)[i] \in Nat
             /\ SumFunctionOnSet(ArraySplit(n, h), I) = n
<1> DEFINE I == 0..(h - 1)
           q == n \div h
           r == n % h
           R == 0..(r - 1)
           f == [i \in I |-> q]
           g == [i \in I |-> IF i \in R THEN 1 ELSE 0]
           a == ArraySplit(n, h)
<1>0. n \in Int
  OBVIOUS
<1>1. r \in 0..(h - 1) /\ q \in Int /\ n = h * q + r
  BY <1>0, DivMod
<1>2. q \in Nat
  OBVIOUS
<1>3. IsFiniteSet(I) /\ Cardinality(I) = h
  BY 0 \in Int, h - 1 \in Int, FS_Interval
<1> HIDE DEF q, r
<1>4. Cardinality(R) = r /\ R \subseteq I
  <2>1. 0 \in Int /\ r - 1 \in Int
    BY <1>1
  <2>2. Cardinality(R) = r
    BY <1>1, <2>1, FS_Interval
  <2> QED
    BY <1>1, <2>2
<1>5. \A i \in I : a[i] = q + (IF i < r THEN 1 ELSE 0)
  BY DEF ArraySplit, q, r
<1>6. \A i \in I : i \in R <=> i < r
  BY <1>1
<1>7. \A i \in I : /\ f[i] = q /\ f[i] \in Int
                   /\ g[i] = (IF i \in R THEN 1 ELSE 0) /\ g[i] \in Int
                   /\ a[i] = f[i] + g[i] /\ a[i] \in Int /\ a[i] \in Nat
  BY <1>2, <1>5, <1>6
<1> HIDE DEF a, f, g, I, R
<1>8. SumFunctionOnSet(a, I) = SumFunctionOnSet(f, I) + SumFunctionOnSet(g, I)
  BY <1>3, <1>7, SumPlus
<1>9. SumFunctionOnSet(f, I) = q * Cardinality(I)
  BY <1>1, <1>3, <1>7, SumConstant
<1>10. SumFunctionOnSet(g, I) = Cardinality(R)
  BY <1>3, <1>4, <1>7, SumCounts
<1>11. q * h = h * q /\ h * q \in Int
  BY <1>1
<1>12. SumFunctionOnSet(a, I) = n
  BY <1>1, <1>3, <1>4, <1>8, <1>9, <1>10, <1>11
<1> QED
  BY <1>3, <1>7, <1>12 DEF a, I

(* h pairs the members of S with those of T.                                 *)
Pairs(h, S, T) ==
  /\ \A x, y \in S : h[x] = h[y] => x = y
  /\ \A x \in S : h[x] \in T
  /\ \A y \in T : \E x \in S : y = h[x]

(* Paired terms have equal sums.                                            *)
LEMMA SumOfPaired ==
  ASSUME NEW S, IsFiniteSet(S), NEW T, NEW h, Pairs(h, S, T),
         NEW f, NEW g, \A x \in S : f[x] \in Int /\ f[x] = g[h[x]]
  PROVE  SumFunctionOnSet(g, T) = SumFunctionOnSet(f, S)
<1> DEFINE image == {h[x] : x \in S}
<1>1. SumFunctionOnSet(g, image) = SumFunctionOnSet(f, S)
  <2>1. \A x, y \in S : h[x] = h[y] => x = y
    BY DEF Pairs
  <2> QED
    BY <2>1, SumOfImage
<1>2. image = T
  BY DEF Pairs
<1> QED
  BY <1>1, <1>2

(* Paired finite sets are equally large.                                    *)
LEMMA PairedCardinality ==
  ASSUME NEW S, IsFiniteSet(S), NEW T, IsFiniteSet(T), NEW h, Pairs(h, S, T)
  PROVE  Cardinality(T) = Cardinality(S)
<1>1. PICK f, g : f = [x \in S |-> 1] /\ g = [y \in T |-> 1]
  OBVIOUS
<1>2. \A x \in S : f[x] \in Int /\ f[x] = g[h[x]]
  BY <1>1 DEF Pairs
<1>3. SumFunctionOnSet(g, T) = SumFunctionOnSet(f, S)
  BY <1>2, SumOfPaired
<1>4. \A x \in S : f[x] = IF x \in S THEN 1 ELSE 0
  BY <1>1
<1>5. \A y \in T : g[y] = IF y \in T THEN 1 ELSE 0
  BY <1>1
<1>6. SumFunctionOnSet(f, S) = Cardinality(S)
  BY <1>4, SumCounts
<1>7. SumFunctionOnSet(g, T) = Cardinality(T)
  BY <1>5, SumCounts
<1> QED
  BY <1>3, <1>6, <1>7

(* Numbering the members of a set of numbers from the smallest.              *)
Below(H, c) == {d \in H : d < c}

(* Counting the smaller members numbers a set of numbers without a gap.     *)
LEMMA RanksAre ==
  ASSUME NEW H, H \subseteq Nat, IsFiniteSet(H), NEW rank,
         \A c \in H : rank[c] = Cardinality(Below(H, c))
  PROVE  Pairs(rank, H, 0..(Cardinality(H) - 1))
<1> DEFINE below(c) == Below(H, c)
           h == Cardinality(H)
           image == {rank[c] : c \in H}
           I == 0..(h - 1)
<1>1. h \in Nat
  BY FS_CardinalityType
<1>2. \A c \in H : /\ IsFiniteSet(below(c)) /\ Cardinality(below(c)) \in Nat
                   /\ rank[c] = Cardinality(below(c))
  <2>1. \A c \in H : IsFiniteSet(below(c))
    BY FS_Subset DEF Below
  <2> QED
    BY <2>1, FS_CardinalityType
<1>3. \A c, d \in H : c < d => rank[c] < rank[d]
  <2> TAKE c, d \in H
  <2> HAVE c < d
  <2>1. below(c) \subseteq below(d) /\ c \in below(d) /\ c \notin below(c)
    <3>1. \A e \in H : e \in Int
      OBVIOUS
    <3>2. \A e \in H : e < c => e < d
      BY <3>1
    <3>3. ~(c < c)
      BY <3>1
    <3> QED
      BY <3>2, <3>3 DEF Below
  <2>2. Cardinality(below(c)) < Cardinality(below(d))
    <3>1. below(c) \in SUBSET below(d) /\ below(c) # below(d)
      BY <2>1
    <3>2. IsFiniteSet(below(d))
      BY <1>2
    <3> HIDE DEF below
    <3>3. Cardinality(below(c)) <= Cardinality(below(d)) /\ (Cardinality(below(c)) = Cardinality(below(d)) => below(c) = below(d))
      BY <3>1, <3>2, FS_Subset
    <3>4. Cardinality(below(c)) \in Nat /\ Cardinality(below(d)) \in Nat
      BY <1>2
    <3> QED
      BY <3>1, <3>3, <3>4
  <2> QED
    BY <1>2, <2>2
<1>4. \A c, d \in H : rank[c] = rank[d] => c = d
  <2> TAKE c, d \in H
  <2>1. c \in Nat /\ d \in Nat /\ rank[c] \in Nat /\ rank[d] \in Nat
    BY <1>2
  <2>2. (c < d => rank[c] < rank[d]) /\ (d < c => rank[d] < rank[c])
    BY <1>3
  <2> QED
    BY <2>1, <2>2
<1>5. \A c \in H : rank[c] \in I
  <2> TAKE c \in H
  <2>1. below(c) \subseteq H /\ c \notin below(c) /\ below(c) # H
    BY DEF Below
  <2>2. below(c) \in SUBSET H
    BY <2>1
  <2> HIDE DEF below
  <2>3. Cardinality(below(c)) <= h /\ (Cardinality(below(c)) = h => below(c) = H)
    BY <2>2, FS_Subset
  <2>4. rank[c] \in Nat /\ rank[c] < h
    BY <1>1, <1>2, <2>1, <2>3
  <2> QED
    BY <1>1, <2>4
<1>6. IsFiniteSet(I) /\ Cardinality(I) = h
  BY <1>1, 0 \in Int, h - 1 \in Int, FS_Interval
<1>7. image \in SUBSET I /\ IsFiniteSet(image)
  <2>1. image \in SUBSET I
    BY <1>5
  <2> HIDE DEF image, I
  <2> QED
    BY <1>6, <2>1, FS_Subset
<1>8. Cardinality(image) = h
  <2>1. Pairs(rank, H, image)
    BY <1>4 DEF Pairs
  <2>2. IsFiniteSet(image)
    BY <1>7
  <2> HIDE DEF image
  <2> QED
    BY <2>1, <2>2, PairedCardinality
<1>9. image = I
  <2> HIDE DEF image, I, h
  <2> QED
    BY <1>6, <1>7, <1>8, FS_Subset
<1>10. \A i \in I : \E c \in H : i = rank[c]
  BY <1>9
<1> QED
  BY <1>4, <1>5, <1>10 DEF Pairs

(* A class is dealt whole to those who drew it.                              *)
LEMMA DrawnColumn ==
  ASSUME NEW n \in Nat, NEW H, H \subseteq Clients, NEW column,
         column = [c \in Clients |-> IF c \in H
                                     THEN ArraySplit(n, Cardinality(H))[Cardinality({d \in H : d < c})]
                                     ELSE 0]
  PROVE  /\ column \in [Clients -> Nat]
         /\ H # {} => SumFunction(column) = n
         /\ \A c \in Clients : column[c] > 0 => c \in H
<1> DEFINE h == Cardinality(H)
           a == ArraySplit(n, h)
           rank == [c \in H |-> Cardinality({d \in H : d < c})]
           I == 0..(h - 1)
           f == [c \in H |-> a[rank[c]]]
<1>1. IsFiniteSet(Clients) /\ Clients \subseteq Nat /\ IsFiniteSet(H)
  <2>1. IsFiniteSet(Clients) /\ Clients \subseteq Nat
    BY PartitionFacts
  <2> QED
    BY <2>1, FS_Subset
<1>2. h \in Nat /\ (H # {} => h # 0)
  BY <1>1, FS_CardinalityType, FS_EmptySet
<1>3. \A c \in Clients : column[c] = IF c \in H THEN a[rank[c]] ELSE 0
  OBVIOUS
<1>4. CASE H = {}
  <2>1. column = [c \in Clients |-> 0]
    BY <1>4
  <2> HIDE DEF h, a, rank, I, f
  <2> QED
    BY <1>4, <2>1
<1>5. CASE H # {}
  <2>1. IsFiniteSet(I) /\ (\A i \in I : a[i] \in Nat) /\ SumFunctionOnSet(a, I) = n
    <3>1. h # 0
      BY <1>2, <1>5
    <3> HIDE DEF h
    <3> QED
      BY <1>2, <3>1, ArraySplitSum
  <2>2. Pairs(rank, H, I) /\ \A c \in H : rank[c] \in I
    <3>1. H \subseteq Nat /\ IsFiniteSet(H)
      BY <1>1
    <3>2. \A c \in H : rank[c] = Cardinality(Below(H, c))
      BY DEF Below
    <3> HIDE DEF rank
    <3>3. Pairs(rank, H, I)
      BY <3>1, <3>2, RanksAre
    <3> QED
      BY <3>3 DEF Pairs
  <2>3. \A c \in H : f[c] = a[rank[c]]
    OBVIOUS
  <2> HIDE DEF h, a, rank, I, f
  <2>4. \A c \in H : rank[c] \in I
    BY <2>2
  <2>5. \A c \in H : f[c] \in Nat
    BY <2>1, <2>3, <2>4
  <2>6. \A c \in Clients : column[c] \in Nat /\ (c \in H => column[c] = f[c]) /\ (c \notin H => column[c] = 0)
    BY <1>3, <2>3, <2>5
  <2>7. column \in [Clients -> Nat]
    BY <2>6
  <2>8. SumFunctionOnSet(a, I) = SumFunctionOnSet(f, H)
    <3>1. \A c \in H : f[c] \in Int /\ f[c] = a[rank[c]]
      BY <2>3, <2>5
    <3>2. IsFiniteSet(H)
      BY <1>1
    <3>3. Pairs(rank, H, I)
      BY <2>2
    <3> QED
      BY <3>1, <3>2, <3>3, SumOfPaired
  <2>9. SumFunctionOnSet(column, Clients) = SumFunctionOnSet(column, H)
    <3>1. \A c \in Clients : column[c] \in Int
      BY <2>6
    <3>2. \A c \in Clients \ H : column[c] = 0
      BY <2>6
    <3>3. H \in SUBSET Clients
      OBVIOUS
    <3> QED
      BY <1>1, <3>1, <3>2, <3>3, SumOnSubset
  <2>10. SumFunctionOnSet(column, H) = SumFunctionOnSet(f, H)
    <3>1. \A c \in H : column[c] \in Int /\ column[c] = f[c]
      BY <2>5, <2>6
    <3> QED
      BY <1>1, <3>1, SumEqual
  <2>11. SumFunction(column) = SumFunctionOnSet(column, Clients)
    BY <2>7 DEF SumFunction
  <2>12. SumFunction(column) = n
    BY <2>1, <2>2, <2>8, <2>9, <2>10, <2>11
  <2>13. \A c \in Clients : column[c] > 0 => c \in H
    BY <2>6
  <2> QED
    BY <2>7, <2>12, <2>13
<1> QED
  BY <1>4, <1>5

(* create_pathological_partition keeps the invariant.                       *)
LEMMA DealDrawnClassesKeeps ==
  ASSUME PartitionInvariant, DealDrawnClasses
  PROVE  PartitionInvariant'
<1>1. /\ phase = "sizes" /\ strategy = "pathological" /\ runtime = "platform"
      /\ UNCHANGED <<given, todo, sizes, evaluation>>
      /\ phase' = IF EnoughForAll(train') THEN "manifest" ELSE "refused"
  BY DEF DealDrawnClasses
<1>2. PICK drawn \in [Clients -> kSubset(ClassesPerClient, Classes)] :
          train' = [k \in Classes |->
                       LET holders == {c \in Clients : k \in drawn[c]}
                       IN [c \in Clients |->
                             IF c \in holders
                             THEN ArraySplit(samples[k], Cardinality(holders))
                                      [Cardinality({d \in holders : d < c})]
                             ELSE 0]]
  BY DEF DealDrawnClasses
<1>3. \A k \in Classes : samples[k] \in Nat
  <2>1. samples \in TrainingSets
    BY DEF PartitionInvariant, PartitionTypes
  <2>2. TrainingSets \subseteq [Classes -> Nat]
    BY PartitionAssumption
  <2> QED
    BY <2>1, <2>2
<1>4. ASSUME NEW k \in Classes
      PROVE  /\ train'[k] \in [Clients -> Nat]
             /\ SumFunction(train'[k]) = samples[k] \/ train'[k] = [c \in Clients |-> 0]
             /\ \A c \in Clients : train'[k][c] > 0 => k \in drawn[c]
  <2> DEFINE H == {c \in Clients : k \in drawn[c]}
  <2>1. PICK column : column = train'[k]
    OBVIOUS
  <2>2. column = [c \in Clients |-> IF c \in H
                                    THEN ArraySplit(samples[k], Cardinality(H))[Cardinality({d \in H : d < c})]
                                    ELSE 0]
    BY <1>2, <2>1
  <2>3. H \subseteq Clients /\ samples[k] \in Nat /\ \A c \in H : k \in drawn[c]
    BY <1>3
  <2> HIDE DEF H
  <2>4. /\ column \in [Clients -> Nat]
        /\ H # {} => SumFunction(column) = samples[k]
        /\ \A c \in Clients : column[c] > 0 => c \in H
    BY <2>2, <2>3, DrawnColumn
  <2>5. H = {} => column = [c \in Clients |-> 0]
    BY <2>2
  <2> QED
    BY <2>1, <2>3, <2>4, <2>5
<1>5. train' \in Deals
  <2>1. train' = [k \in Classes |-> train'[k]]
    BY <1>2
  <2> QED
    BY <1>4, <2>1 DEF Deals
<1>6. ASSUME NEW c \in Clients
      PROVE  Cardinality({k \in Classes : train'[k][c] > 0}) <= ClassesPerClient
  <2> DEFINE seen == {k \in Classes : train'[k][c] > 0}
  <2>1. drawn[c] \in SUBSET Classes /\ Cardinality(drawn[c]) = ClassesPerClient
    BY DEF kSubset
  <2>2. seen \in SUBSET drawn[c]
    BY <1>4
  <2> HIDE DEF seen
  <2>3. IsFiniteSet(drawn[c])
    BY <2>1, PartitionFacts, FS_Subset
  <2>4. Cardinality(seen) <= Cardinality(drawn[c])
    BY <2>2, <2>3, FS_Subset
  <2> QED
    BY <2>1, <2>4 DEF seen
<1>7. EnoughForAll(train)' <=> EnoughForAll(train')
  BY DEF EnoughForAll, HeldBy, Classes, Clients
<1>8. \/ phase' = "refused"
      \/ phase' = (IF runtime = "root" THEN "allocate" ELSE "manifest") /\ EnoughForAll(train)'
  BY <1>1, <1>7
<1>9. \A k \in Classes : \/ SumFunction(train'[k]) = samples[k]
                         \/ runtime = "platform" /\ train'[k] = [c \in Clients |-> 0]
  BY <1>1, <1>4
<1>10. \A c \in Clients :
             LET seen == Cardinality({k \in Classes : train'[k][c] > 0})
             IN \/ runtime = "platform" /\ seen <= ClassesPerClient
                \/ runtime = "root" /\ seen <= 2 * ClassesPerClient
                \/ /\ runtime = "root"
                   /\ \E k \in Classes : samples[k] * NumShards < SumFunction(samples)
  BY <1>1, <1>6
<1>11. UNCHANGED <<given, todo, evaluation>>
  BY <1>1
<1> QED
  BY <1>1, <1>5, <1>8, <1>9, <1>10, <1>11, DealtAtOnceKeeps

(***************************************************************************)
(* Shards.                                                                 *)
(***************************************************************************)

(* Differences of consecutive terms add up to that of the last and the first. *)
LEMMA Telescopes ==
  ASSUME NEW n \in Nat, NEW F, \A i \in 0..n : F[i] \in Int,
         NEW f, \A i \in 0..(n - 1) : f[i] = F[i + 1] - F[i]
  PROVE  SumFunctionOnSet(f, 0..(n - 1)) = F[n] - F[0]
<1> DEFINE W == {m \in Nat : m <= n => SumFunctionOnSet(f, 0..(m - 1)) = F[m] - F[0]}
<1>1. 0 \in W
  <2>1. 0..(0 - 1) = {}
    OBVIOUS
  <2>2. F[0] \in Int
    OBVIOUS
  <2> QED
    BY <2>1, <2>2, SumEmpty
<1>2. \A m \in Nat : m \in W => m + 1 \in W
  <2> SUFFICES ASSUME NEW m \in Nat, m \in W, m + 1 <= n
               PROVE  SumFunctionOnSet(f, 0..((m + 1) - 1)) = F[m + 1] - F[0]
    OBVIOUS
  <2> DEFINE I == 0..(m - 1)
  <2>1. SumFunctionOnSet(f, I) = F[m] - F[0]
    OBVIOUS
  <2>2. 0..((m + 1) - 1) = I \cup {m} /\ m \notin I
    OBVIOUS
  <2>3. IsFiniteSet(I)
    BY 0 \in Int, m - 1 \in Int, FS_Interval
  <2>4. \A i \in I \cup {m} : f[i] \in Int
    <3> SUFFICES ASSUME NEW i \in I \cup {m} PROVE f[i] \in Int
      OBVIOUS
    <3>1. i \in 0..(n - 1) /\ i \in 0..n /\ i + 1 \in 0..n
      OBVIOUS
    <3>2. F[i] \in Int /\ F[i + 1] \in Int /\ f[i] = F[i + 1] - F[i]
      BY <3>1
    <3> QED
      BY <3>2
  <2>5. f[m] = F[m + 1] - F[m] /\ F[m] \in Int /\ F[m + 1] \in Int /\ F[0] \in Int
    OBVIOUS
  <2> HIDE DEF I, W
  <2>6. SumFunctionOnSet(f, I \cup {m}) = f[m] + SumFunctionOnSet(f, I)
    BY <2>2, <2>3, <2>4, SumAdd
  <2>7. SumFunctionOnSet(f, I \cup {m}) = F[m + 1] - F[0]
    BY <2>1, <2>5, <2>6
  <2> QED
    BY <2>2, <2>7
<1> HIDE DEF W
<1>3. n \in W
  BY <1>1, <1>2, SetInduction
<1> QED
  BY <1>3 DEF W

(* A part of natural numbers adds up to no more than the whole.             *)
LEMMA SumOfPart ==
  ASSUME NEW S, IsFiniteSet(S), NEW T \in SUBSET S, NEW f, \A x \in S : f[x] \in Nat
  PROVE  SumFunctionOnSet(f, T) \in Nat /\ SumFunctionOnSet(f, T) <= SumFunctionOnSet(f, S)
<1>1. PICK R : R = S \ T
  OBVIOUS
<1>2. IsFiniteSet(T) /\ IsFiniteSet(R)
  BY <1>1, FS_Subset, R \in SUBSET S
<1>3. T \cap R = {} /\ S = T \cup R
  BY <1>1
<1>4. \A x \in T \cup R : f[x] \in Int
  BY <1>3
<1>5. SumFunctionOnSet(f, T \cup R) = SumFunctionOnSet(f, T) + SumFunctionOnSet(f, R)
  BY <1>2, <1>3, <1>4, SumUnion
<1>6. SumFunctionOnSet(f, T) \in Nat
  BY <1>2, SumNat
<1>7. SumFunctionOnSet(f, R) \in Nat
  <2>1. \A x \in R : f[x] \in Nat
    BY <1>1
  <2> QED
    BY <1>2, <2>1, SumNat
<1> HIDE <1>1
<1>8. SumFunctionOnSet(f, S) = SumFunctionOnSet(f, T) + SumFunctionOnSet(f, R)
  BY <1>3, <1>5
<1> QED
  BY <1>6, <1>7, <1>8

(* Where the shards begin.                                                   *)
LEMMA ShardStarts ==
  ASSUME SumFunction(samples) \in Nat
  PROVE  LET total == SumFunction(samples)
             q == total \div NumShards
             r == total % NumShards
         IN  /\ NumShards \in Nat /\ NumShards # 0
             /\ q \in Nat /\ r \in 0..(NumShards - 1) /\ total = NumShards * q + r
             /\ \A s \in 0..NumShards : ShardStart(s) \in Nat
             /\ ShardStart(0) = 0 /\ ShardStart(NumShards) = total
             /\ \A s \in Shards : ShardStart(s + 1) = ShardStart(s) + q + (IF s < r THEN 1 ELSE 0)
<1> DEFINE total == SumFunction(samples)
           q == total \div NumShards
           r == total % NumShards
           n == NumShards
<1>1. n \in Nat /\ n # 0
  <2>1. NumClients \in Nat /\ NumClients # 0 /\ ClassesPerClient \in Nat /\ ClassesPerClient # 0
    BY PartitionFacts
  <2>2. \A x, y \in Nat : x # 0 /\ y # 0 => x * y \in Nat /\ x * y # 0
    OBVIOUS
  <2> QED
    BY <2>1, <2>2 DEF NumShards
<1>2. q \in Int /\ r \in 0..(n - 1) /\ total = n * q + r
  <2>1. total \in Int
    OBVIOUS
  <2> HIDE DEF n
  <2> QED
    BY <1>1, <2>1, DivMod DEF n
<1>3. q \in Nat
  <2> SUFFICES ASSUME q <= -1 PROVE FALSE
    BY <1>2
  <2>1. n * q <= n * (-1)
    BY <1>1, <1>2, TimesMonotone, -1 \in Int
  <2>2. n * (-1) = -n /\ n * q \in Int
    BY <1>1, <1>2
  <2> HIDE DEF q, r, n, total
  <2>3. total \in Nat
    BY DEF total
  <2> QED
    BY <1>1, <1>2, <2>1, <2>2, <2>3
<1> HIDE DEF q, r, n, total
<1>4. \A s \in Nat : Min({s, r}) = IF s <= r THEN s ELSE r
  BY <1>2, MinOfTwo
<1>5. \A s \in Nat : ShardStart(s) = s * q + (IF s <= r THEN s ELSE r)
  BY <1>4 DEF ShardStart, total, q, r, n
<1>6. \A s \in Nat : ShardStart(s) \in Nat
  <2> TAKE s \in Nat
  <2>1. s * q \in Nat
    BY <1>3
  <2> QED
    BY <1>2, <1>5, <2>1
<1>7. ShardStart(0) = 0
  <2>1. 0 * q = 0
    BY <1>3
  <2> QED
    BY <1>2, <1>5, <2>1
<1>8. ShardStart(n) = total
  <2>1. n * q \in Nat
    BY <1>1, <1>3
  <2> QED
    BY <1>1, <1>2, <1>5, <2>1
<1>9. \A s \in Nat : ShardStart(s + 1) = ShardStart(s) + q + (IF s < r THEN 1 ELSE 0)
  <2> TAKE s \in Nat
  <2>1. s * q \in Nat /\ (s + 1) * q = s * q + q
    BY <1>3
  <2>2. ShardStart(s + 1) = (s + 1) * q + (IF s + 1 <= r THEN s + 1 ELSE r)
    BY <1>5
  <2> QED
    BY <1>2, <1>3, <1>5, <2>1, <2>2
<1>10. \A s \in Shards : s \in Nat
  BY <1>1 DEF Shards, n
<1>11. \A s \in 0..n : s \in Nat
  BY <1>1
<1> QED
  BY <1>1, <1>2, <1>3, <1>6, <1>7, <1>8, <1>9, <1>10, <1>11 DEF q, r, n, total

(* Where the classes begin in the set sorted by label.                       *)
LEMMA ClassStarts ==
  ASSUME samples \in [Classes -> Nat]
  PROVE  /\ SumFunction(samples) \in Nat
         /\ ClassStart(0) = 0
         /\ \A k \in Nat : k <= NumClasses =>
                ClassStart(k) \in Nat /\ ClassStart(k) <= SumFunction(samples)
         /\ \A k \in Classes : ClassStart(k + 1) = ClassStart(k) + samples[k]
         /\ \A k, l \in Nat : k <= l /\ l <= NumClasses => ClassStart(k) <= ClassStart(l)
<1>1. IsFiniteSet(Classes) /\ NumClasses \in Nat
  BY PartitionFacts
<1>2. SumFunction(samples) = SumFunctionOnSet(samples, Classes)
  BY DEF SumFunction
<1>3. \A k \in Classes : samples[k] \in Nat
  OBVIOUS
<1>4. \A k \in Nat : k <= NumClasses => 0..(k - 1) \in SUBSET Classes
  BY <1>1 DEF Classes
<1>5. \A k \in Nat : IsFiniteSet(0..(k - 1))
  BY 0 \in Int, FS_Interval
<1>6. SumFunction(samples) \in Nat
  BY <1>1, <1>2, <1>3, SumNat
<1>7. ASSUME NEW k \in Nat, k <= NumClasses
      PROVE  ClassStart(k) \in Nat /\ ClassStart(k) <= SumFunction(samples)
  <2>1. 0..(k - 1) \in SUBSET Classes
    BY <1>4, <1>7
  <2>2. /\ SumFunctionOnSet(samples, 0..(k - 1)) \in Nat
        /\ SumFunctionOnSet(samples, 0..(k - 1)) <= SumFunctionOnSet(samples, Classes)
    BY <1>1, <1>3, <2>1, SumOfPart
  <2> QED
    BY <1>2, <2>2 DEF ClassStart
<1>8. ClassStart(0) = 0
  <2>1. 0..(0 - 1) = {}
    OBVIOUS
  <2> QED
    BY <2>1, SumEmpty DEF ClassStart
<1>9. ASSUME NEW k \in Classes PROVE ClassStart(k + 1) = ClassStart(k) + samples[k]
  <2>1. k \in Nat /\ k + 1 <= NumClasses
    BY <1>1 DEF Classes
  <2> DEFINE I == 0..(k - 1)
  <2>2. 0..((k + 1) - 1) = I \cup {k} /\ k \notin I
    BY <2>1
  <2>3. IsFiniteSet(I) /\ \A x \in I \cup {k} : samples[x] \in Int
    <3>1. I \subseteq Classes
      BY <1>1, <1>4, <2>1
    <3> QED
      BY <1>3, <1>5, <2>1, <3>1
  <2> HIDE DEF I
  <2>4. SumFunctionOnSet(samples, I \cup {k}) = samples[k] + SumFunctionOnSet(samples, I)
    BY <2>2, <2>3, SumAdd
  <2>5. ClassStart(k + 1) = SumFunctionOnSet(samples, I \cup {k}) /\ ClassStart(k) = SumFunctionOnSet(samples, I)
    BY <2>2 DEF ClassStart, I
  <2>6. ClassStart(k) \in Nat /\ samples[k] \in Nat
    BY <1>1, <1>3, <1>7, <2>1
  <2> QED
    BY <2>4, <2>5, <2>6
<1>10. ASSUME NEW k \in Nat, NEW l \in Nat, k <= l, l <= NumClasses
       PROVE  ClassStart(k) <= ClassStart(l)
  <2>1. 0..(l - 1) \subseteq Classes
    BY <1>4, <1>10
  <2>2. 0..(k - 1) \in SUBSET (0..(l - 1))
    BY <1>10
  <2>3. IsFiniteSet(0..(l - 1)) /\ \A x \in 0..(l - 1) : samples[x] \in Nat
    BY <1>3, <1>5, <2>1
  <2>4. SumFunctionOnSet(samples, 0..(k - 1)) <= SumFunctionOnSet(samples, 0..(l - 1))
    BY <2>2, <2>3, SumOfPart
  <2> QED
    BY <2>4 DEF ClassStart
<1> QED
  BY <1>6, <1>7, <1>8, <1>9, <1>10

(* How much of a class lies before a place of the sorted set.                *)
Before(k, x) ==
  IF x <= ClassStart(k) THEN ClassStart(k) ELSE IF x <= ClassStart(k + 1) THEN x ELSE ClassStart(k + 1)

(* What a shard holds of a class lies between the shard's two ends.         *)
LEMMA InShardIs ==
  ASSUME samples \in [Classes -> Nat], NEW s \in Shards, NEW k \in Classes
  PROVE  /\ InShard(s, k) \in Nat
         /\ Before(k, ShardStart(s)) \in Int /\ Before(k, ShardStart(s + 1)) \in Int
         /\ InShard(s, k) = Before(k, ShardStart(s + 1)) - Before(k, ShardStart(s))
         /\ InShard(s, k) > 0 => /\ ClassStart(k) < ShardStart(s + 1)
                                 /\ ClassStart(k + 1) > ShardStart(s)
<1> DEFINE b == ShardStart(s)
           e == ShardStart(s + 1)
           u == ClassStart(k)
           v == ClassStart(k + 1)
<1>1. k \in Nat /\ k + 1 \in Nat /\ k <= NumClasses /\ k + 1 <= NumClasses
  <2>1. NumClasses \in Nat
    BY PartitionFacts
  <2> QED
    BY <2>1 DEF Classes
<1>2. u \in Nat /\ v \in Nat /\ u <= v
  <2>1. k <= k + 1
    BY <1>1
  <2> QED
    BY <1>1, <2>1, ClassStarts
<1>3. SumFunction(samples) \in Nat
  BY ClassStarts
<1>4. b \in Nat /\ e \in Nat /\ b <= e
  <2> DEFINE q == SumFunction(samples) \div NumShards
             r == SumFunction(samples) % NumShards
  <2>1. /\ NumShards \in Nat /\ q \in Nat /\ r \in Int
        /\ \A x \in 0..NumShards : ShardStart(x) \in Nat
        /\ e = b + q + (IF s < r THEN 1 ELSE 0)
    <3>1. NumShards \in Nat /\ q \in Nat /\ r \in 0..(NumShards - 1)
      BY <1>3, ShardStarts
    <3>2. \A x \in 0..NumShards : ShardStart(x) \in Nat
      BY <1>3, ShardStarts
    <3>3. \A t \in Shards : ShardStart(t + 1) = ShardStart(t) + q + (IF t < r THEN 1 ELSE 0)
      BY <1>3, ShardStarts
    <3> HIDE DEF q, r
    <3>4. e = b + q + (IF s < r THEN 1 ELSE 0)
      BY <3>3
    <3> QED
      BY <3>1, <3>2, <3>4
  <2> HIDE DEF q, r, b, e
  <2>2. s \in 0..NumShards /\ s + 1 \in 0..NumShards
    <3>1. NumShards \in Nat
      BY <2>1
    <3> QED
      BY <3>1 DEF Shards
  <2>3. b \in Nat /\ e \in Nat
    BY <2>1, <2>2 DEF b, e
  <2> QED
    BY <2>1, <2>3
<1>5. Min({e, v}) = (IF e <= v THEN e ELSE v) /\ Max({b, u}) = (IF b >= u THEN b ELSE u)
  BY <1>2, <1>4, MinOfTwo, MaxOfTwo
<1> DEFINE d == (IF e <= v THEN e ELSE v) - (IF b >= u THEN b ELSE u)
<1>6. InShard(s, k) = Max({0, d})
  BY <1>5 DEF InShard
<1>7. d \in Int
  BY <1>2, <1>4
<1> HIDE DEF b, e, u, v
<1>8. InShard(s, k) = IF 0 >= d THEN 0 ELSE d
  BY <1>6, <1>7, MaxOfTwo, 0 \in Int DEF d
<1>9. /\ Before(k, ShardStart(s)) = IF b <= u THEN u ELSE IF b <= v THEN b ELSE v
      /\ Before(k, ShardStart(s + 1)) = IF e <= u THEN u ELSE IF e <= v THEN e ELSE v
  BY DEF Before, b, e, u, v
<1>10. /\ InShard(s, k) \in Nat
       /\ Before(k, ShardStart(s)) \in Int /\ Before(k, ShardStart(s + 1)) \in Int
       /\ InShard(s, k) = Before(k, ShardStart(s + 1)) - Before(k, ShardStart(s))
       /\ InShard(s, k) > 0 => u < e /\ v > b
  BY <1>2, <1>4, <1>8, <1>9
<1> QED
  BY <1>10 DEF b, e, u, v

(* The shards hold every class whole.                                        *)
LEMMA ShardsCover ==
  ASSUME samples \in [Classes -> Nat], NEW k \in Classes, NEW f,
         \A s \in Shards : f[s] = InShard(s, k)
  PROVE  SumFunctionOnSet(f, Shards) = samples[k]
<1> DEFINE F == [x \in Nat |-> Before(k, ShardStart(x))]
           total == SumFunction(samples)
<1>1. k \in Nat /\ k + 1 \in Nat /\ k <= NumClasses /\ k + 1 <= NumClasses /\ 0 <= k
  <2>1. NumClasses \in Nat
    BY PartitionFacts
  <2> QED
    BY <2>1 DEF Classes
<1>2. /\ total \in Nat /\ ClassStart(k) \in Nat /\ ClassStart(k + 1) \in Nat
      /\ ClassStart(k + 1) <= total /\ ClassStart(k + 1) = ClassStart(k) + samples[k]
      /\ ClassStart(k) <= total
  BY <1>1, ClassStarts
<1>3. /\ NumShards \in Nat /\ ShardStart(0) = 0 /\ ShardStart(NumShards) = total
      /\ \A s \in 0..NumShards : ShardStart(s) \in Nat
  BY <1>2, ShardStarts
<1>4. /\ \A x \in 0..NumShards : F[x] \in Int
      /\ F[NumShards] = ClassStart(k + 1) /\ F[0] = ClassStart(k)
  <2>1. \A x \in 0..NumShards : F[x] = Before(k, ShardStart(x)) /\ ShardStart(x) \in Nat
    BY <1>3
  <2>2. \A y \in Nat : Before(k, y) \in Int
    BY <1>2 DEF Before
  <2>3. Before(k, total) = ClassStart(k + 1) /\ Before(k, 0) = ClassStart(k)
    BY <1>2 DEF Before
  <2>4. 0 \in 0..NumShards /\ NumShards \in 0..NumShards
    BY <1>3
  <2> QED
    BY <1>3, <2>1, <2>2, <2>3, <2>4
<1>5. \A i \in 0..(NumShards - 1) : f[i] = F[i + 1] - F[i]
  <2> TAKE i \in 0..(NumShards - 1)
  <2>1. i \in Shards /\ i \in Nat /\ i + 1 \in Nat
    BY <1>3 DEF Shards
  <2>2. F[i] = Before(k, ShardStart(i)) /\ F[i + 1] = Before(k, ShardStart(i + 1))
    BY <2>1
  <2>3. f[i] = Before(k, ShardStart(i + 1)) - Before(k, ShardStart(i))
    BY <2>1, InShardIs
  <2> QED
    BY <2>2, <2>3
<1> HIDE DEF F
<1>6. SumFunctionOnSet(f, 0..(NumShards - 1)) = F[NumShards] - F[0]
  BY <1>3, <1>4, <1>5, Telescopes
<1>7. samples[k] \in Nat
  OBVIOUS
<1> QED
  BY <1>2, <1>4, <1>6, <1>7 DEF Shards

(* A class no smaller than a shard does not fit between two others.          *)
LEMMA ShardTouchesTwo ==
  ASSUME samples \in [Classes -> Nat], NEW s \in Shards,
         \A k \in Classes : ~(samples[k] * NumShards < SumFunction(samples))
  PROVE  LET touched == {k \in Classes : InShard(s, k) > 0}
         IN  IsFiniteSet(touched) /\ Cardinality(touched) <= 2
<1> DEFINE touched == {k \in Classes : InShard(s, k) > 0}
           total == SumFunction(samples)
           q == total \div NumShards
           r == total % NumShards
           n == NumShards
<1>1. IsFiniteSet(Classes) /\ NumClasses \in Nat /\ \A k \in Classes : k \in Nat /\ k \in Int
  BY PartitionFacts
<1>2. IsFiniteSet(touched) /\ touched \subseteq Classes
  <2>1. touched \in SUBSET Classes
    OBVIOUS
  <2> HIDE DEF touched
  <2> QED
    BY <1>1, <2>1, FS_Subset
<1>3. total \in Nat
  BY ClassStarts
<1>4. /\ n \in Nat /\ n # 0 /\ q \in Nat /\ r \in 0..(n - 1) /\ total = n * q + r
      /\ ShardStart(s) \in Nat /\ ShardStart(s + 1) \in Nat
      /\ ShardStart(s + 1) = ShardStart(s) + q + (IF s < r THEN 1 ELSE 0)
  <2>1. /\ n \in Nat /\ n # 0 /\ q \in Nat /\ r \in 0..(n - 1) /\ total = n * q + r
        /\ \A x \in 0..n : ShardStart(x) \in Nat
        /\ ShardStart(s + 1) = ShardStart(s) + q + (IF s < r THEN 1 ELSE 0)
    BY <1>3, ShardStarts
  <2>2. s \in 0..n /\ s + 1 \in 0..n /\ s \in Nat
    BY <2>1 DEF Shards
  <2> HIDE DEF q, r, total, n
  <2> QED
    BY <2>1, <2>2
<1>5. \A k \in Classes : ~(samples[k] * n < total) /\ samples[k] \in Nat
  OBVIOUS
<1> HIDE DEF q, r, n, total
<1>6. ASSUME NEW k \in Classes
      PROVE  samples[k] >= ShardStart(s + 1) - ShardStart(s)
  <2> DEFINE m == samples[k]
  <2>1. m \in Nat /\ ~(m * n < total)
    BY <1>5
  <2> HIDE DEF m
  <2>2. n * q = q * n /\ q * n \in Int /\ m * n \in Int
    BY <1>4, <2>1
  <2>3. ~(m <= q - 1)
    <3>1. ASSUME m <= q - 1 PROVE FALSE
      <4>1. m * n <= (q - 1) * n
        BY <1>4, <2>1, <3>1, TimesMonotone, q - 1 \in Int
      <4>2. (q - 1) * n = q * n - n
        BY <1>4
      <4> QED
        BY <1>4, <2>1, <2>2, <4>1, <4>2
    <3> QED
      BY <3>1
  <2>4. ~(r > 0 /\ m <= q)
    <3>1. ASSUME m <= q, r > 0 PROVE FALSE
      <4>1. m * n <= q * n
        BY <1>4, <2>1, <3>1, TimesMonotone
      <4> QED
        BY <1>4, <2>1, <2>2, <3>1, <4>1
    <3> QED
      BY <3>1
  <2>5. s \in Int /\ 0 <= s
    BY <1>4 DEF Shards, n
  <2> QED
    BY <1>4, <2>1, <2>3, <2>4, <2>5 DEF m
<1>7. ASSUME touched = {} PROVE Cardinality(touched) <= 2
  <2> HIDE DEF touched
  <2> QED
    BY <1>7, FS_EmptySet
<1>8. ASSUME touched # {} PROVE Cardinality(touched) <= 2
  <2> DEFINE f == [k \in Classes |-> -k]
  <2>1. \A k \in touched : f[k] \in Int /\ f[k] = -k
    BY <1>1, <1>2
  <2> HIDE DEF f
  <2>2. PICK a \in touched : \A k \in touched :
            f[k] < f[a] \/ (f[k] = f[a] /\ (f[k] < f[a] \/ (f[k] = f[a] /\ f[k] <= f[a])))
    <3>1. \A k \in touched : f[k] \in Int
      BY <2>1
    <3> HIDE DEF touched
    <3> QED
      BY <1>2, <1>8, <3>1, LargestExists
  <2>3. a \in Classes /\ a \in Nat /\ \A k \in touched : a <= k
    <3>1. a \in Classes /\ \A k \in touched : k \in Int
      BY <1>1, <1>2
    <3> HIDE DEF touched
    <3> QED
      BY <1>1, <2>1, <2>2, <3>1
  <2>4. ASSUME NEW k \in touched PROVE k \in {a, a + 1}
    <3> SUFFICES ASSUME a + 2 <= k PROVE FALSE
      <4>1. k \in Int /\ a <= k /\ a \in Int
        BY <1>1, <1>2, <2>3
      <4> HIDE DEF touched
      <4> QED
        BY <4>1
    <3>1. k \in Classes /\ k \in Nat /\ InShard(s, k) > 0 /\ InShard(s, a) > 0 /\ k < NumClasses
      BY <1>1, <1>2 DEF Classes
    <3>2. a + 1 \in Classes /\ a + 2 \in Nat /\ a + 2 <= k /\ k <= NumClasses /\ a + 1 \in Nat /\ a + 1 <= NumClasses
          /\ a + 2 <= NumClasses
      BY <1>1, <2>3, <3>1 DEF Classes
    <3>3. ClassStart(k) < ShardStart(s + 1) /\ ClassStart(a + 1) > ShardStart(s)
      BY <2>3, <3>1, InShardIs
    <3>4. /\ ClassStart(a + 2) <= ClassStart(k)
          /\ ClassStart(k) \in Nat /\ ClassStart(a + 1) \in Nat /\ ClassStart(a + 2) \in Nat
      BY <3>1, <3>2, ClassStarts
    <3>5. ClassStart((a + 1) + 1) = ClassStart(a + 1) + samples[a + 1]
      BY <3>2, ClassStarts
    <3>6. (a + 1) + 1 = a + 2
      BY <2>3
    <3>7. samples[a + 1] >= ShardStart(s + 1) - ShardStart(s) /\ samples[a + 1] \in Nat
      BY <1>5, <1>6, <3>2
    <3> HIDE DEF touched
    <3> QED
      BY <1>4, <3>3, <3>4, <3>5, <3>6, <3>7
  <2>5. touched \in SUBSET ({a} \cup {a + 1})
    BY <2>4
  <2>6. IsFiniteSet({a} \cup {a + 1}) /\ Cardinality({a} \cup {a + 1}) <= 2
    <3>1. IsFiniteSet({a}) /\ Cardinality({a}) = 1
      BY FS_Singleton
    <3>2. /\ IsFiniteSet({a} \cup {a + 1})
          /\ Cardinality({a} \cup {a + 1}) = IF a + 1 \in {a} THEN Cardinality({a}) ELSE Cardinality({a}) + 1
      BY <3>1, FS_AddElement
    <3> QED
      BY <3>1, <3>2
  <2> HIDE DEF touched
  <2>7. Cardinality(touched) <= Cardinality({a} \cup {a + 1}) /\ Cardinality(touched) \in Nat
    BY <1>2, <2>5, <2>6, FS_Subset, FS_CardinalityType
  <2>8. Cardinality({a} \cup {a + 1}) \in Nat
    BY <2>6, FS_CardinalityType
  <2> QED
    BY <2>6, <2>7, <2>8
<1> QED
  BY <1>2, <1>7, <1>8

(* Finitely many sets of at most two members each.                           *)
LEMMA UnionOfPairs ==
  ASSUME NEW S, IsFiniteSet(S), NEW U, \A s \in S : IsFiniteSet(U[s]) /\ Cardinality(U[s]) <= 2,
         NEW R, \A x \in R : \E s \in S : x \in U[s]
  PROVE  IsFiniteSet(R) /\ Cardinality(R) <= 2 * Cardinality(S)
<1> DEFINE Joined(T) == UNION {U[s] : s \in T}
           W == {T \in SUBSET S : IsFiniteSet(T) /\ IsFiniteSet(Joined(T))
                                  /\ Cardinality(Joined(T)) <= 2 * Cardinality(T)}
<1>1. {} \in W
  <2>1. Joined({}) = {}
    OBVIOUS
  <2>2. IsFiniteSet({}) /\ Cardinality({}) = 0
    BY FS_EmptySet
  <2> HIDE DEF Joined
  <2> QED
    BY <2>1, <2>2
<1>2. ASSUME NEW T \in SUBSET S, NEW s \in S, T \in W, s \notin T
      PROVE  T \cup {s} \in W
  <2>1. Joined(T \cup {s}) = Joined(T) \cup U[s]
    OBVIOUS
  <2> HIDE DEF Joined
  <2>2. IsFiniteSet(T) /\ IsFiniteSet(Joined(T)) /\ Cardinality(Joined(T)) <= 2 * Cardinality(T)
    BY <1>2
  <2>3. IsFiniteSet(U[s]) /\ Cardinality(U[s]) <= 2
    OBVIOUS
  <2>4. IsFiniteSet(T \cup {s}) /\ Cardinality(T \cup {s}) = Cardinality(T) + 1
    BY <1>2, <2>2, FS_AddElement
  <2>5. /\ IsFiniteSet(Joined(T) \cup U[s])
        /\ Cardinality(Joined(T) \cup U[s])
             = Cardinality(Joined(T)) + Cardinality(U[s]) - Cardinality(Joined(T) \cap U[s])
    BY <2>2, <2>3, FS_Union
  <2>6. Cardinality(Joined(T) \cap U[s]) \in Nat
    <3>1. Joined(T) \cap U[s] \in SUBSET U[s]
      OBVIOUS
    <3>2. IsFiniteSet(Joined(T) \cap U[s])
      BY <2>3, <3>1, FS_Subset
    <3> QED
      BY <3>2, FS_CardinalityType
  <2>7. Cardinality(T) \in Nat /\ Cardinality(Joined(T)) \in Nat /\ Cardinality(U[s]) \in Nat
    BY <2>2, <2>3, FS_CardinalityType
  <2>8. Cardinality(Joined(T \cup {s})) <= 2 * Cardinality(T \cup {s})
    <3>1. PICK a, b, d, t : /\ a = Cardinality(Joined(T)) /\ b = Cardinality(U[s])
                            /\ d = Cardinality(Joined(T) \cap U[s]) /\ t = Cardinality(T)
      OBVIOUS
    <3>2. Cardinality(Joined(T \cup {s})) = a + b - d
      BY <2>1, <2>5, <3>1
    <3>3. Cardinality(T \cup {s}) = t + 1
      BY <2>4, <3>1
    <3>4. a \in Nat /\ b \in Nat /\ d \in Nat /\ t \in Nat /\ a <= 2 * t /\ b <= 2
      BY <2>2, <2>3, <2>6, <2>7, <3>1
    <3>5. a + b - d <= 2 * (t + 1)
      BY <3>4
    <3> QED
      BY <3>2, <3>3, <3>5
  <2>9. T \cup {s} \in SUBSET S
    OBVIOUS
  <2> QED
    BY <2>1, <2>4, <2>5, <2>8, <2>9
<1> HIDE DEF W
<1>3. S \in W
  BY <1>1, <1>2, SubsetInduction
<1>4. IsFiniteSet(Joined(S)) /\ Cardinality(Joined(S)) <= 2 * Cardinality(S)
  BY <1>3 DEF W
<1>5. R \in SUBSET Joined(S)
  OBVIOUS
<1> HIDE DEF Joined
<1>6. IsFiniteSet(R) /\ Cardinality(R) <= Cardinality(Joined(S))
  BY <1>4, <1>5, FS_Subset
<1>7. Cardinality(R) \in Nat /\ Cardinality(Joined(S)) \in Nat /\ Cardinality(S) \in Nat
  BY <1>4, <1>6, FS_CardinalityType
<1> QED
  BY <1>4, <1>6, <1>7

(* The sum of a table by rows and by columns.                                *)
Transposed(t, m, R, S) == \A x \in R, y \in S : m[x][y] \in Int /\ t[y][x] = m[x][y]
SumsOfRows(rows, m, R, S) == \A x \in R : rows[x] = SumFunctionOnSet(m[x], S)

(* The sum of the rows' sums is that of the columns' sums.                  *)
LEMMA SumTransposed ==
  ASSUME NEW R, IsFiniteSet(R), NEW S, IsFiniteSet(S),
         NEW m, NEW t, Transposed(t, m, R, S),
         NEW rows, SumsOfRows(rows, m, R, S),
         NEW columns, SumsOfRows(columns, t, S, R)
  PROVE  SumFunctionOnSet(rows, R) = SumFunctionOnSet(columns, S)
<1>1. \A x \in R, y \in S : m[x][y] \in Int
  BY DEF Transposed
<1>2. PICK a : a = [x \in R |-> SumFunctionOnSet(m[x], S)]
  OBVIOUS
<1>3. PICK b : b = [y \in S |-> SumFunctionOnSet([x \in R |-> m[x][y]], R)]
  OBVIOUS
<1>4. SumFunctionOnSet(a, R) = SumFunctionOnSet(b, S)
  BY <1>1, <1>2, <1>3, SumSwap
<1>5. \A x \in R : a[x] \in Int /\ rows[x] = a[x]
  <2> TAKE x \in R
  <2>1. SumFunctionOnSet(m[x], S) \in Int
    BY <1>1, SumInt
  <2> QED
    BY <1>2, <2>1 DEF SumsOfRows
<1>6. \A y \in S : b[y] \in Int /\ columns[y] = b[y]
  <2> TAKE y \in S
  <2>1. PICK g : g = [x \in R |-> m[x][y]]
    OBVIOUS
  <2>2. \A x \in R : g[x] \in Int /\ g[x] = t[y][x]
    BY <2>1 DEF Transposed
  <2>3. SumFunctionOnSet(g, R) \in Int
    BY <2>2, SumInt
  <2>4. SumFunctionOnSet(g, R) = SumFunctionOnSet(t[y], R)
    BY <2>2, SumEqual
  <2>5. b[y] = SumFunctionOnSet(g, R)
    BY <1>3, <2>1
  <2>6. columns[y] = SumFunctionOnSet(t[y], R)
    BY DEF SumsOfRows
  <2> QED
    BY <2>3, <2>4, <2>5, <2>6
<1>7. SumFunctionOnSet(a, R) = SumFunctionOnSet(rows, R)
  BY <1>5, SumEqual
<1>8. SumFunctionOnSet(b, S) = SumFunctionOnSet(columns, S)
  BY <1>6, SumEqual
<1> QED
  BY <1>4, <1>7, <1>8

(* Summing over the owners what each one's shards hold counts every shard    *)
(* once.                                                                     *)
LEMMA OwnersHoldAll ==
  ASSUME NEW f, \A s \in Shards : f[s] \in Nat, NEW owner \in [Shards -> Clients],
         NEW column,
         column = [c \in Clients |-> SumFunction([s \in {t \in Shards : owner[t] = c} |-> f[s]])]
  PROVE  /\ column \in [Clients -> Nat]
         /\ SumFunction(column) = SumFunctionOnSet(f, Shards)
         /\ \A c \in Clients : column[c] > 0 => \E s \in Shards : owner[s] = c /\ f[s] > 0
<1> DEFINE owned(c) == {t \in Shards : owner[t] = c}
           m == [c \in Clients |-> [s \in Shards |-> IF owner[s] = c THEN f[s] ELSE 0]]
           rows == [c \in Clients |-> SumFunctionOnSet(m[c], Shards)]
           t == [s \in Shards |-> [c \in Clients |-> m[c][s]]]
           columns == [s \in Shards |-> SumFunctionOnSet([c \in Clients |-> m[c][s]], Clients)]
<1>0. IsFiniteSet(Shards) /\ IsFiniteSet(Clients)
  <2>1. NumShards \in Int
    BY PartitionFacts DEF NumShards
  <2>2. IsFiniteSet(0..(NumShards - 1))
    BY <2>1, 0 \in Int, NumShards - 1 \in Int, FS_Interval
  <2> QED
    BY <2>2, PartitionFacts DEF Shards
<1>1. \A c \in Clients, s \in Shards : m[c][s] \in Nat /\ m[c][s] = IF owner[s] = c THEN f[s] ELSE 0
  OBVIOUS
<1>2. \A c \in Clients : rows[c] = SumFunctionOnSet(m[c], Shards)
  OBVIOUS
<1>3. \A s \in Shards : columns[s] = SumFunctionOnSet([c \in Clients |-> m[c][s]], Clients)
  OBVIOUS
<1>4. SumFunctionOnSet(rows, Clients) = SumFunctionOnSet(columns, Shards)
  <2>1. \A c \in Clients, s \in Shards : m[c][s] \in Int
    BY <1>1
  <2>2. IsFiniteSet(Shards)
    BY <1>0
  <2>3. IsFiniteSet(Clients)
    BY <1>0
  <2> HIDE DEF m
  <2>4. Transposed(t, m, Clients, Shards)
    <3>1. \A c \in Clients, s \in Shards : t[s][c] = m[c][s]
      OBVIOUS
    <3> HIDE DEF m, t
    <3> QED
      BY <2>1, <3>1 DEF Transposed
  <2>5. SumsOfRows(rows, m, Clients, Shards)
    BY <1>2 DEF SumsOfRows
  <2>6. SumsOfRows(columns, t, Shards, Clients)
    BY <1>3 DEF SumsOfRows
  <2> HIDE DEF m, t, rows, columns
  <2> QED
    BY <2>2, <2>3, <2>4, <2>5, <2>6, SumTransposed
<1> HIDE DEF m, rows, columns
<1>5. ASSUME NEW c \in Clients
      PROVE  /\ column[c] \in Nat /\ column[c] = rows[c]
             /\ column[c] > 0 => \E s \in Shards : owner[s] = c /\ f[s] > 0
  <2> DEFINE mine == [s \in owned(c) |-> f[s]]
  <2>1. owned(c) \in SUBSET Shards
    OBVIOUS
  <2>2. IsFiniteSet(owned(c))
    BY <1>0, <2>1, FS_Subset
  <2>3. column[c] = SumFunction(mine)
    OBVIOUS
  <2>4. SumFunction(mine) = SumFunctionOnSet(mine, owned(c))
    BY DEF SumFunction
  <2>5. \A s \in owned(c) : mine[s] \in Nat /\ mine[s] = f[s] /\ owner[s] = c /\ s \in Shards /\ m[c][s] = f[s]
    BY <1>1
  <2>6. \A s \in Shards \ owned(c) : m[c][s] = 0
    BY <1>1
  <2> HIDE DEF mine, owned
  <2>7. SumFunctionOnSet(mine, owned(c)) \in Nat
    BY <2>2, <2>5, SumNat
  <2>8. SumFunctionOnSet(m[c], Shards) = SumFunctionOnSet(m[c], owned(c))
    <3>1. \A s \in Shards : m[c][s] \in Int
      BY <1>1
    <3> QED
      BY <1>0, <2>1, <2>6, <3>1, SumOnSubset
  <2>9. SumFunctionOnSet(mine, owned(c)) = SumFunctionOnSet(m[c], owned(c))
    <3>1. \A s \in owned(c) : mine[s] \in Int /\ mine[s] = m[c][s]
      BY <2>5
    <3> QED
      BY <2>2, <3>1, SumEqual
  <2>10. ASSUME column[c] > 0 PROVE \E s \in Shards : owner[s] = c /\ f[s] > 0
    <3> SUFFICES ASSUME \A s \in owned(c) : f[s] = 0 PROVE FALSE
      BY <2>5
    <3>1. \A s \in owned(c) : mine[s] = 0
      BY <2>5
    <3>2. SumFunctionOnSet(mine, owned(c)) = 0 * Cardinality(owned(c))
      BY <2>2, <3>1, SumConstant, 0 \in Int
    <3>3. 0 * Cardinality(owned(c)) = 0
      BY <2>2, FS_CardinalityType
    <3> QED
      BY <2>3, <2>4, <2>10, <3>2, <3>3
  <2> QED
    BY <1>2, <2>3, <2>4, <2>7, <2>8, <2>9, <2>10
<1>6. ASSUME NEW s \in Shards PROVE columns[s] = f[s]
  <2> DEFINE g == [c \in Clients |-> m[c][s]]
  <2>1. owner[s] \in Clients
    OBVIOUS
  <2>2. \A c \in Clients : g[c] \in Int /\ g[c] = IF owner[s] = c THEN f[s] ELSE 0
    BY <1>1
  <2>3. columns[s] = SumFunctionOnSet(g, Clients)
    BY <1>3
  <2> HIDE DEF g
  <2>4. SumFunctionOnSet(g, Clients) = g[owner[s]] + SumFunctionOnSet(g, Clients \ {owner[s]})
    BY <1>0, <2>1, <2>2, SumRemove
  <2>5. IsFiniteSet(Clients \ {owner[s]})
    BY <1>0, FS_RemoveElement
  <2>6. \A c \in Clients \ {owner[s]} : g[c] = 0
    BY <2>2
  <2>7. SumFunctionOnSet(g, Clients \ {owner[s]}) = 0 * Cardinality(Clients \ {owner[s]})
    BY <2>5, <2>6, SumConstant, 0 \in Int
  <2>8. 0 * Cardinality(Clients \ {owner[s]}) = 0
    BY <2>5, FS_CardinalityType
  <2>9. g[owner[s]] = f[s] /\ f[s] \in Nat
    BY <2>1, <2>2
  <2> QED
    BY <2>3, <2>4, <2>7, <2>8, <2>9
<1>7. column \in [Clients -> Nat]
  BY <1>5
<1>8. SumFunction(column) = SumFunctionOnSet(column, Clients)
  BY <1>7 DEF SumFunction
<1>9. SumFunctionOnSet(column, Clients) = SumFunctionOnSet(rows, Clients)
  <2>1. \A c \in Clients : column[c] \in Int /\ column[c] = rows[c]
    BY <1>5
  <2> QED
    BY <1>0, <2>1, SumEqual
<1>10. SumFunctionOnSet(f, Shards) = SumFunctionOnSet(columns, Shards)
  <2>1. \A s \in Shards : f[s] \in Int /\ f[s] = columns[s]
    BY <1>6
  <2> QED
    BY <1>0, <2>1, SumEqual
<1> QED
  BY <1>4, <1>5, <1>7, <1>8, <1>9, <1>10

(* partition_pathological keeps the invariant.                              *)
LEMMA DealShardsKeeps ==
  ASSUME PartitionInvariant, DealShards
  PROVE  PartitionInvariant'
<1>1. /\ phase = "sizes" /\ strategy = "pathological" /\ runtime = "root"
      /\ UNCHANGED <<given, todo, sizes, evaluation>>
      /\ phase' = IF EnoughForAll(train') THEN "allocate" ELSE "refused"
  BY DEF DealShards
<1>2. PICK owner \in [Shards -> Clients] :
           /\ \A c \in Clients : Cardinality({s \in Shards : owner[s] = c}) = ClassesPerClient
           /\ train' = [k \in Classes |-> [c \in Clients |->
                          SumFunction([s \in {t \in Shards : owner[t] = c} |-> InShard(s, k)])]]
  BY DEF DealShards
<1>3. samples \in [Classes -> Nat]
  <2>1. samples \in TrainingSets
    BY DEF PartitionInvariant, PartitionTypes
  <2>2. TrainingSets \subseteq [Classes -> Nat]
    BY PartitionAssumption
  <2> QED
    BY <2>1, <2>2
<1>4. ASSUME NEW k \in Classes
      PROVE  /\ train'[k] \in [Clients -> Nat]
             /\ SumFunction(train'[k]) = samples[k]
             /\ \A c \in Clients : train'[k][c] > 0 => \E s \in Shards : owner[s] = c /\ InShard(s, k) > 0
  <2>1. PICK column, f : column = train'[k] /\ f = [s \in Shards |-> InShard(s, k)]
    OBVIOUS
  <2>2. \A s \in Shards : f[s] \in Nat /\ f[s] = InShard(s, k)
    BY <1>3, <2>1, InShardIs
  <2>3. column = [c \in Clients |-> SumFunction([s \in {t \in Shards : owner[t] = c} |-> f[s]])]
    <3>1. \A c \in Clients : [s \in {t \in Shards : owner[t] = c} |-> InShard(s, k)]
                               = [s \in {t \in Shards : owner[t] = c} |-> f[s]]
      BY <2>2
    <3>2. column = [c \in Clients |-> SumFunction([s \in {t \in Shards : owner[t] = c} |-> InShard(s, k)])]
      BY <1>2, <2>1
    <3> QED
      BY <3>1, <3>2
  <2>4. /\ column \in [Clients -> Nat]
        /\ SumFunction(column) = SumFunctionOnSet(f, Shards)
        /\ \A c \in Clients : column[c] > 0 => \E s \in Shards : owner[s] = c /\ f[s] > 0
    BY <2>2, <2>3, OwnersHoldAll
  <2>5. SumFunctionOnSet(f, Shards) = samples[k]
    BY <1>3, <2>2, ShardsCover
  <2> HIDE <2>3
  <2> QED
    BY <2>1, <2>2, <2>4, <2>5
<1>5. train' \in Deals
  <2>1. train' = [k \in Classes |-> train'[k]]
    BY <1>2
  <2> QED
    BY <1>4, <2>1 DEF Deals
<1>6. ASSUME NEW c \in Clients, \A k \in Classes : ~(samples[k] * NumShards < SumFunction(samples))
      PROVE  Cardinality({k \in Classes : train'[k][c] > 0}) <= 2 * ClassesPerClient
  <2> DEFINE S == {s \in Shards : owner[s] = c}
             U == [s \in S |-> {k \in Classes : InShard(s, k) > 0}]
             R == {k \in Classes : train'[k][c] > 0}
  <2>1. Cardinality(S) = ClassesPerClient
    BY <1>2
  <2>2. \A s \in S : /\ s \in Shards /\ U[s] = {k \in Classes : InShard(s, k) > 0}
    OBVIOUS
  <2>3. \A k \in R : \E s \in S : k \in U[s]
    BY <1>4
  <2>4. IsFiniteSet(S)
    <3>1. NumShards \in Int
      BY PartitionFacts DEF NumShards
    <3>2. IsFiniteSet(0..(NumShards - 1))
      BY <3>1, 0 \in Int, NumShards - 1 \in Int, FS_Interval
    <3>3. S \in SUBSET (0..(NumShards - 1))
      BY DEF Shards
    <3> HIDE DEF S
    <3> QED
      BY <3>2, <3>3, FS_Subset
  <2>5. \A s \in S : IsFiniteSet(U[s]) /\ Cardinality(U[s]) <= 2
    <3> TAKE s \in S
    <3>1. s \in Shards /\ U[s] = {k \in Classes : InShard(s, k) > 0}
      BY <2>2
    <3> HIDE DEF U, S
    <3>2. IsFiniteSet({k \in Classes : InShard(s, k) > 0}) /\ Cardinality({k \in Classes : InShard(s, k) > 0}) <= 2
      BY <1>3, <1>6, <3>1, ShardTouchesTwo
    <3> QED
      BY <3>1, <3>2
  <2> HIDE DEF S, U, R
  <2>6. Cardinality(R) <= 2 * Cardinality(S)
    BY <2>3, <2>4, <2>5, UnionOfPairs
  <2> QED
    BY <2>1, <2>6 DEF R
<1>7. EnoughForAll(train)' <=> EnoughForAll(train')
  BY DEF EnoughForAll, HeldBy, Classes, Clients
<1>8. \/ phase' = "refused"
      \/ phase' = (IF runtime = "root" THEN "allocate" ELSE "manifest") /\ EnoughForAll(train)'
  BY <1>1, <1>7
<1>9. \A k \in Classes : \/ SumFunction(train'[k]) = samples[k]
                         \/ runtime = "platform" /\ train'[k] = [c \in Clients |-> 0]
  BY <1>4
<1>10. \A c \in Clients :
             LET seen == Cardinality({k \in Classes : train'[k][c] > 0})
             IN \/ runtime = "platform" /\ seen <= ClassesPerClient
                \/ runtime = "root" /\ seen <= 2 * ClassesPerClient
                \/ /\ runtime = "root"
                   /\ \E k \in Classes : samples[k] * NumShards < SumFunction(samples)
  BY <1>1, <1>6
<1>11. UNCHANGED <<given, todo, evaluation>>
  BY <1>1
<1> QED
  BY <1>1, <1>5, <1>8, <1>9, <1>10, <1>11, DealtAtOnceKeeps

(***************************************************************************)
(* Theorems about Partitioning.                                            *)
(***************************************************************************)

(* So does a step that changes nothing.                                     *)
LEMMA PartitionStutters ==
  ASSUME PartitionInvariant, UNCHANGED partitionVars
  PROVE  PartitionInvariant'
<1>1. /\ runtime' = runtime /\ strategy' = strategy /\ samples' = samples /\ heldOut' = heldOut
      /\ phase' = phase /\ todo' = todo /\ train' = train /\ evaluation' = evaluation
  BY DEF partitionVars, given
<1>2. /\ PartitionTypes /\ Dealing /\ TrainingIsDealt /\ Allocating /\ Repairing
  BY DEF PartitionInvariant
<1>3. PartitionTypes'
  BY <1>1, <1>2 DEF PartitionTypes, Deals, Classes, Clients, Strategies
<1>4. Dealing'
  BY <1>1, <1>2 DEF Dealing, NoSamples, Classes, Clients
<1>5. TrainingIsDealt'
  <2>1. CASE phase \in Used
    <3>1. UNCHANGED <<given, train>>
      BY DEF partitionVars
    <3> QED
      BY <1>2, <2>1, <3>1, KeptTraining
  <2>2. CASE phase \notin Used
    BY <1>1, <2>2 DEF TrainingIsDealt, Used
  <2> QED
    BY <2>1, <2>2
<1>6. Allocating'
  <2>1. phase' = "allocate" => \A k \in Classes \ todo' : evaluation'[k] \in Allocations(heldOut'[k], train'[k])
    BY <1>1, <1>2 DEF Allocating
  <2>2. phase' = "allocate" => todo' \subseteq Classes /\ \A k \in todo' : evaluation'[k] = [c \in Clients |-> 0]
    BY <1>1, <1>2 DEF Allocating
  <2> QED
    BY <2>1, <2>2 DEF Allocating, Clients
<1>7. Repairing'
  <2>1. Empty' = Empty
    BY <1>1 DEF Empty, HeldBy
  <2>2. OwnClasses' <=> OwnClasses
    BY <1>1 DEF OwnClasses, Donors, HeldBy
  <2> QED
    BY <1>1, <1>2, <2>1, <2>2 DEF Repairing
<1> QED
  BY <1>3, <1>4, <1>5, <1>6, <1>7 DEF PartitionInvariant

(* The inductive invariant of data/partitioner.py and its platform twin.      *)
THEOREM PartitionInvariance == PartitionSpec => []PartitionInvariant
<1>1. PartitionInit => PartitionInvariant
  BY PartitionInitial
<1>2. PartitionInvariant /\ [PartitionNext]_partitionVars => PartitionInvariant'
  <2> SUFFICES ASSUME PartitionInvariant, [PartitionNext]_partitionVars
               PROVE  PartitionInvariant'
    OBVIOUS
  <2>1. CASE ChooseSizes
    BY <2>1, ChooseSizesKeeps
  <2>2. ASSUME NEW k \in Classes, DealClass(k) PROVE PartitionInvariant'
    BY <2>2, DealClassKeeps
  <2>3. CASE AcceptDeal
    BY <2>3, AcceptDealKeeps
  <2>4. CASE DealShards
    BY <2>4, DealShardsKeeps
  <2>5. CASE DealDrawnClasses
    BY <2>5, DealDrawnClassesKeeps
  <2>6. ASSUME NEW k \in Classes, AllocateClass(k) PROVE PartitionInvariant'
    BY <2>6, AllocateClassKeeps
  <2>7. CASE BeginRepair
    BY <2>7, BeginRepairKeeps
  <2>8. ASSUME NEW c \in Clients, Repair(c) PROVE PartitionInvariant'
    BY <2>8, RepairKeeps
  <2>9. CASE Return
    BY <2>9, ReturnKeeps
  <2>10. CASE UNCHANGED partitionVars
    BY <2>10, PartitionStutters
  <2> QED
    BY <2>1, <2>2, <2>3, <2>4, <2>5, <2>6, <2>7, <2>8, <2>9, <2>10 DEF PartitionNext
<1> QED
  BY <1>1, <1>2, PTL DEF PartitionSpec

(* Whatever the sizes and the draws, a deal that is used gives every client   *)
(* its minimum and every sample to one client, and a pathological one few     *)
(* classes.                                                                   *)
THEOREM TrainingCorrect == PartitionSpec => []TrainingIsDealt
<1>1. PartitionInvariant => TrainingIsDealt
  BY DEF PartitionInvariant
<1> QED
  BY <1>1, PartitionInvariance, PTL

(* Largest remainders come closest to the training proportions, for any       *)
(* number of clients and samples.                                             *)
THEOREM TestedCorrect == PartitionSpec => []TestedAsTrained
BY PartitionInvariance, InvariantTested, PTL

(* The repair always succeeds and gives a client a class it does not train on *)
(* only when it must.                                                         *)
THEOREM EveryoneCorrect == PartitionSpec => []EveryoneIsTested
BY PartitionInvariance, InvariantEveryone, PTL

=============================================================================
