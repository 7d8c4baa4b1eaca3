---------------------------------- MODULE Lists --------------------------------
(* Facts about numbers and lists that the proofs of several modules need.       *)
EXTENDS Integers, SequencesExt, FiniteSetTheorems, WellFoundedInduction, TLAPS

--------------------------------------------------------------------------------
(* Induction over the natural numbers, for sets: every set of them has a least. *)

(* A set of natural numbers that is not empty has a least member. *)
LEMMA LeastNat ==
    ASSUME NEW T, T \subseteq Nat, T # {}
    PROVE  \E n \in T : \A m \in T : n =< m
<1> DEFINE R == {p \in Nat \X Nat : p[1] < p[2]}
<1>1. IsWellFoundedOn(R, Nat)
  BY NatLessThanWellFounded, Zenon DEF OpToRel
<1> HIDE DEF R
<1>2. PICK n \in T : \A m \in T : ~(<<m, n>> \in R)
  BY <1>1, WFMin, Zenon
<1> USE DEF R
<1>3. \A m \in T : ~(m < n)
  BY <1>2
<1> QED
  BY <1>3

(* A set that has zero and with each number the next has all of them. *)
LEMMA NatInSet ==
    ASSUME NEW S, 0 \in S, \A n \in Nat : n \in S => n + 1 \in S
    PROVE  Nat \subseteq S
<1> DEFINE T == Nat \ S
<1> SUFFICES ASSUME T # {} PROVE FALSE
  OBVIOUS
<1>1. PICK n \in T : \A m \in T : n =< m
  <2>1. T \subseteq Nat
    OBVIOUS
  <2> HIDE DEF T
  <2> QED
    BY <2>1, LeastNat, Zenon
<1>2. n # 0 /\ n \in Nat
  OBVIOUS
<1>3. n - 1 \in Nat /\ n - 1 \notin T
  BY <1>1, <1>2
<1> QED
  BY <1>3, <1>2

(* What is computed step by step from a start. *)
IteratedSteps(f, n, D, a, G) ==
    /\ f \in [0..n -> D] /\ f[0] = a
    /\ \A i \in 1..n : f[i] = G[<<i, f[i - 1]>>]

LEMMA Iterated ==
    ASSUME NEW n \in Nat, NEW D, NEW a \in D, NEW G, \A i \in 1..n : \A d \in D : G[<<i, d>>] \in D
    PROVE  \E f : IteratedSteps(f, n, D, a, G)
<1> DEFINE Computed(f, k) == f[0] = a /\ \A i \in 1..k : f[i] = G[<<i, f[i - 1]>>]
           S == {k \in Nat : k =< n => \E f \in [0..k -> D] : Computed(f, k)}
<1>1. 0 \in S
  <2> DEFINE f == [i \in 0..0 |-> a]
  <2>1. f \in [0..0 -> D] /\ Computed(f, 0)
    OBVIOUS
  <2> HIDE DEF f, Computed
  <2> QED
    BY <2>1
<1>2. ASSUME NEW k \in Nat, k \in S PROVE k + 1 \in S
  <2> SUFFICES ASSUME k + 1 =< n PROVE \E f \in [0..(k + 1) -> D] : Computed(f, k + 1)
    OBVIOUS
  <2>1. PICK g \in [0..k -> D] : Computed(g, k)
    BY <1>2
  <2> DEFINE next == G[<<k + 1, g[k]>>]
             f == [i \in 0..(k + 1) |-> IF i = k + 1 THEN next ELSE g[i]]
  <2>2. next \in D
    <3>1. k + 1 \in 1..n /\ g[k] \in D
      BY <2>1
    <3> QED
      BY <3>1
  <2>3. f \in [0..(k + 1) -> D]
    <3> HIDE DEF next
    <3> QED
      BY <2>1, <2>2
  <2>4. f[k + 1] = next /\ \A i \in 0..k : f[i] = g[i]
    OBVIOUS
  <2> HIDE DEF f
  <2>5. ASSUME NEW i \in 1..(k + 1) PROVE f[i] = G[<<i, f[i - 1]>>]
    <3>1. CASE i = k + 1
      <4>1. i - 1 = k /\ f[k] = g[k]
        BY <2>4, <3>1
      <4> QED
        BY <2>4, <3>1, <4>1
    <3>2. CASE i # k + 1
      <4>1. i \in 1..k /\ i \in 0..k /\ i - 1 \in 0..k
        BY <3>2
      <4> QED
        BY <2>1, <2>4, <4>1
    <3> QED
      BY <3>1, <3>2
  <2>6. f[0] = a
    BY <2>1, <2>4
  <2> QED
    BY <2>3, <2>5, <2>6
<1> HIDE DEF S, Computed
<1>3. n \in S
  BY <1>1, <1>2, NatInSet
<1> QED
  BY <1>3 DEF S, Computed, IteratedSteps

(* It stays in what the start is in and no step leaves. *)
LEMMA IteratedIn ==
    ASSUME NEW n \in Nat, NEW D, NEW f, f[0] \in D,
           \A i \in 1..n : f[i - 1] \in D => f[i] \in D
    PROVE  \A i \in 0..n : f[i] \in D
<1> DEFINE S == {k \in Nat : k =< n => f[k] \in D}
<1>1. 0 \in S
  OBVIOUS
<1>2. ASSUME NEW k \in Nat, k \in S PROVE k + 1 \in S
  <2>1. k + 1 =< n => k + 1 \in 1..n /\ (k + 1) - 1 = k
    OBVIOUS
  <2> QED
    BY <1>2, <2>1
<1> HIDE DEF S
<1>3. Nat \subseteq S
  BY <1>1, <1>2, NatInSet
<1> QED
  BY <1>3 DEF S

--------------------------------------------------------------------------------
(* Lists without repetition.                                                    *)

(* A list is empty if it has no members. *)
LEMMA EmptyList ==
    ASSUME NEW S, NEW s \in Seq(S)
    PROVE  /\ s = <<>> <=> ToSet(s) = {}
           /\ ToSet(s) \subseteq S
           /\ s # <<>> => Head(s) \in ToSet(s)
<1>1. DOMAIN s = 1..Len(s) /\ Len(s) \in Nat
  OBVIOUS
<1>2. s # <<>> => 1 \in DOMAIN s /\ Head(s) = s[1]
  BY <1>1
<1>3. s = <<>> => DOMAIN s = {}
  OBVIOUS
<1>4. \A i \in DOMAIN s : s[i] \in S
  OBVIOUS
<1> QED
  BY <1>2, <1>3, <1>4 DEF ToSet

(* A new member goes behind the others. *)
LEMMA ListGrows ==
    ASSUME NEW S, NEW s \in Seq(S), NEW e \in S, IsInjective(s), e \notin ToSet(s)
    PROVE  LET t == Append(s, e) IN t \in Seq(S) /\ IsInjective(t) /\ ToSet(t) = ToSet(s) \cup {e}
<1> DEFINE t == Append(s, e)
<1>1. /\ DOMAIN s = 1..Len(s) /\ Len(s) \in Nat
      /\ t \in Seq(S) /\ DOMAIN t = 1..(Len(s) + 1)
      /\ \A i \in 1..Len(s) : t[i] = s[i]
      /\ t[Len(s) + 1] = e
  OBVIOUS
<1> HIDE DEF t
<1>2. /\ \A i \in DOMAIN t : i = Len(s) + 1 \/ i \in DOMAIN s
      /\ \A i \in DOMAIN s : i \in DOMAIN t
      /\ Len(s) + 1 \in DOMAIN t
  BY <1>1
<1>3. ToSet(t) = ToSet(s) \cup {e}
  BY <1>1, <1>2, Zenon DEF ToSet
<1>4. \A i, j \in DOMAIN t : t[i] = t[j] => i = j
  <2>1. \A i \in DOMAIN s : s[i] # e
    BY DEF ToSet
  <2>2. \A i, j \in DOMAIN s : s[i] = s[j] => i = j
    BY DEF IsInjective
  <2> QED
    BY <1>1, <1>2, <2>1, <2>2
<1>5. t \in Seq(S) /\ IsInjective(t) /\ ToSet(t) = ToSet(s) \cup {e}
  BY <1>1, <1>3, <1>4 DEF IsInjective
<1> QED
  BY <1>5 DEF t

(* A new member goes in front of the others. *)
LEMMA ListPrefixed ==
    ASSUME NEW S, NEW s \in Seq(S), NEW e \in S, IsInjective(s), e \notin ToSet(s)
    PROVE  LET u == <<e>> \o s IN u \in Seq(S) /\ IsInjective(u) /\ ToSet(u) = ToSet(s) \cup {e}
<1> DEFINE u == <<e>> \o s
<1>1. /\ DOMAIN s = 1..Len(s) /\ Len(s) \in Nat
      /\ u \in Seq(S) /\ DOMAIN u = 1..(Len(s) + 1)
      /\ \A i \in 1..Len(s) : u[i + 1] = s[i]
      /\ u[1] = e
  OBVIOUS
<1> HIDE DEF u
<1>2. /\ \A i \in DOMAIN u : i \in Int /\ (i = 1 \/ (i - 1 \in DOMAIN s /\ u[i] = s[i - 1]))
      /\ \A i \in DOMAIN s : i + 1 \in DOMAIN u
      /\ 1 \in DOMAIN u
  <2>1. \A i \in DOMAIN u : i \in Int /\ (i = 1 \/ (i - 1 \in DOMAIN s /\ (i - 1) + 1 = i))
    BY <1>1
  <2>2. \A i \in DOMAIN s : i + 1 \in DOMAIN u
    BY <1>1
  <2>3. 1 \in DOMAIN u
    BY <1>1
  <2> QED
    BY <1>1, <2>1, <2>2, <2>3
<1>3. ToSet(u) = ToSet(s) \cup {e}
  <2>1. ASSUME NEW i \in DOMAIN u PROVE u[i] \in ToSet(s) \cup {e}
    BY <1>1, <1>2 DEF ToSet
  <2>2. ASSUME NEW i \in DOMAIN s PROVE s[i] \in ToSet(u)
    <3>1. i + 1 \in DOMAIN u /\ u[i + 1] = s[i]
      BY <1>1, <1>2
    <3> QED
      BY <3>1 DEF ToSet
  <2>3. e \in ToSet(u)
    BY <1>1, <1>2 DEF ToSet
  <2> QED
    BY <2>1, <2>2, <2>3 DEF ToSet
<1>4. ASSUME NEW i \in DOMAIN u, NEW j \in DOMAIN u, u[i] = u[j] PROVE i = j
  <2>1. \A k \in DOMAIN s : s[k] # e
    BY DEF ToSet
  <2>2. \A k, l \in DOMAIN s : s[k] = s[l] => k = l
    BY DEF IsInjective
  <2>3. /\ i = 1 \/ (i - 1 \in DOMAIN s /\ u[i] = s[i - 1])
        /\ j = 1 \/ (j - 1 \in DOMAIN s /\ u[j] = s[j - 1])
        /\ i \in Int /\ j \in Int
    BY <1>2
  <2>4. (i = 1 /\ j = 1) \/ (i - 1 \in DOMAIN s /\ j - 1 \in DOMAIN s /\ s[i - 1] = s[j - 1])
    BY <1>1, <1>4, <2>1, <2>3
  <2>5. i = j \/ i - 1 = j - 1
    BY <2>2, <2>4, Zenon
  <2> QED
    BY <2>3, <2>5
<1>5. u \in Seq(S) /\ IsInjective(u) /\ ToSet(u) = ToSet(s) \cup {e}
  BY <1>1, <1>3, <1>4 DEF IsInjective
<1> QED
  BY <1>5 DEF u

(* The first member is taken off. *)
LEMMA ListShrinks ==
    ASSUME NEW S, NEW s \in Seq(S), s # <<>>, IsInjective(s)
    PROVE  /\ Tail(s) \in Seq(S) /\ IsInjective(Tail(s))
           /\ ToSet(Tail(s)) = ToSet(s) \ {Head(s)}
<1> DEFINE t == Tail(s)
<1>1. /\ DOMAIN s = 1..Len(s) /\ Len(s) \in Nat /\ Len(s) >= 1
      /\ t \in Seq(S) /\ DOMAIN t = 1..(Len(s) - 1)
      /\ \A i \in 1..(Len(s) - 1) : t[i] = s[i + 1]
      /\ Head(s) = s[1] /\ 1 \in DOMAIN s
  OBVIOUS
<1> HIDE DEF t
<1>2. \A i \in DOMAIN t : i + 1 \in DOMAIN s /\ i + 1 # 1 /\ i \in Int /\ t[i] = s[i + 1]
  BY <1>1
<1>3. \A i \in DOMAIN s : i # 1 => i - 1 \in DOMAIN t /\ t[i - 1] = s[i]
  <2>1. \A i \in DOMAIN s : i # 1 => i - 1 \in DOMAIN t /\ (i - 1) + 1 = i
    BY <1>1
  <2> QED
    BY <1>1, <2>1
<1>4. \A i, j \in DOMAIN s : s[i] = s[j] => i = j
  BY DEF IsInjective
<1>5. IsInjective(t)
  <2> SUFFICES ASSUME NEW i \in DOMAIN t, NEW j \in DOMAIN t, t[i] = t[j] PROVE i = j
    BY DEF IsInjective
  <2>1. i + 1 = j + 1
    BY <1>2, <1>4
  <2> QED
    BY <1>2, <2>1
<1>6. ToSet(t) \subseteq ToSet(s) \ {Head(s)}
  <2> SUFFICES ASSUME NEW i \in DOMAIN t PROVE t[i] \in ToSet(s) /\ t[i] # s[1]
    BY <1>1 DEF ToSet
  <2> QED
    BY <1>1, <1>2, <1>4 DEF ToSet
<1>7. ToSet(s) \ {Head(s)} \subseteq ToSet(t)
  <2> SUFFICES ASSUME NEW i \in DOMAIN s, s[i] # s[1] PROVE s[i] \in ToSet(t)
    BY <1>1 DEF ToSet
  <2> QED
    BY <1>3 DEF ToSet
<1> USE DEF t
<1> QED
  BY <1>1, <1>5, <1>6, <1>7
================================================================================
