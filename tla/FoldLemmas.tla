------------------------------ MODULE FoldLemmas ------------------------------
(***************************************************************************)
(* Induction over a range of numbers, and what it shows of FoldLeft: the   *)
(* fold over a sequence goes through its prefixes.  FoldLeft(op, base, q)  *)
(* is g[DOMAIN q], g being a function on the sets of indices that takes    *)
(* the largest index off.  FoldExists says that there is such a function;  *)
(* on 1 .. k, by MaxOfPrefix, it takes off k.  Metering_proofs uses them   *)
(* for the sum of a store's counts, TelemetryPipeline_proofs for the       *)
(* history that the FRAM continues.                                        *)
(***************************************************************************)
EXTENDS Integers, SequencesExt, WellFoundedInduction, TLAPS

LEMMA NatInductionOnSet ==
  ASSUME NEW T, 0 \in T, \A n \in Nat : n \in T => n + 1 \in T
  PROVE  Nat \subseteq T
<1> DEFINE Less == {ss \in Nat \X Nat : ss[1] < ss[2]}
<1>1. \A x, y \in Nat : <<x, y>> \in Less <=> x < y
  OBVIOUS
<1>2. IsWellFoundedOn(Less, Nat)
  BY NatLessThanWellFounded DEF OpToRel
<1> HIDE DEF Less
<1>3. SUFFICES ASSUME Nat \ T # {} PROVE FALSE
  OBVIOUS
<1>4. PICK x \in Nat \ T : \A y \in Nat \ T : ~(<<y, x>> \in Less)
  <2>1. Nat \ T \subseteq Nat
    OBVIOUS
  <2> QED BY <1>2, <1>3, <2>1, WFMin
<1>5. x # 0 /\ x - 1 \in Nat /\ x - 1 < x
  BY <1>4
<1>6. x - 1 \in T
  BY <1>1, <1>4, <1>5
<1> QED BY <1>4, <1>5, <1>6

LEMMA RangeInduction ==
  ASSUME NEW n \in Nat, NEW T, 0 \in T, \A k \in 0 .. n - 1 : k \in T => k + 1 \in T
  PROVE  0 .. n \subseteq T
<1> DEFINE U == T \cup {k \in Nat : k > n}
<1>1. 0 \in U
  OBVIOUS
<1>2. ASSUME NEW k \in Nat, k \in U PROVE k + 1 \in U
  <2>1. CASE k < n
    <3>1. k \in 0 .. n - 1 /\ k \in T
      BY <1>2, <2>1
    <3> QED BY <3>1
  <2>2. CASE k >= n
    <3>1. k + 1 \in Nat /\ k + 1 > n
      BY <2>2
    <3> QED BY <3>1
  <2> QED BY <2>1, <2>2
<1> HIDE DEF U
<1>3. Nat \subseteq U
  BY <1>1, <1>2, NatInductionOnSet
<1> QED BY <1>3 DEF U

\* Sets of indices have a maximum.
LEMMA MaxOfIndices ==
  ASSUME NEW n \in Nat, NEW s \in SUBSET (1 .. n), s # {}
  PROVE  Max(s) \in s /\ \A y \in s : y <= Max(s)
<1> DEFINE T == {k \in 0 .. n : \A u \in SUBSET (1 .. k) :
                   u # {} => \E x \in u : \A y \in u : x >= y}
<1>1. 0 \in T
  <2>1. 1 .. 0 = {} /\ 0 \in 0 .. n
    OBVIOUS
  <2> QED BY <2>1
<1>2. ASSUME NEW k \in 0 .. n - 1, k \in T PROVE k + 1 \in T
  <2>1. ASSUME NEW u \in SUBSET (1 .. k + 1), u # {}
        PROVE  \E x \in u : \A y \in u : x >= y
    <3>1. CASE k + 1 \in u
      <4>1. \A y \in u : k + 1 >= y
        OBVIOUS
      <4> QED BY <3>1, <4>1
    <3>2. CASE k + 1 \notin u
      <4>1. u \in SUBSET (1 .. k)
        BY <3>2
      <4> QED BY <1>2, <2>1, <4>1
    <3> QED BY <3>1, <3>2
  <2>2. k + 1 \in 0 .. n
    OBVIOUS
  <2> QED BY <2>1, <2>2
<1>3. n \in T
  <2> HIDE DEF T
  <2>1. 0 .. n \subseteq T
    BY <1>1, <1>2, RangeInduction
  <2> QED BY <2>1
<1>4. \E x \in s : \A y \in s : x >= y
  BY <1>3
<1>5. Max(s) \in s /\ \A y \in s : Max(s) >= y
  BY <1>4 DEF Max
<1> QED BY <1>5

LEMMA MaxOfPrefix ==
  ASSUME NEW k \in Nat, k > 0
  PROVE  Max(1 .. k) = k /\ (1 .. k) \ {Max(1 .. k)} = 1 .. k - 1
<1>1. /\ 1 .. k \in SUBSET (1 .. k) /\ k \in 1 .. k /\ 1 .. k # {}
  OBVIOUS
<1>2. Max(1 .. k) \in 1 .. k /\ \A y \in 1 .. k : y <= Max(1 .. k)
  BY <1>1, MaxOfIndices
<1>3. Max(1 .. k) = k
  BY <1>1, <1>2
<1> QED BY <1>3

\* A function on the sets of indices up to n that takes off the largest.
TakesOffMax(g, n, base, step) ==
  g = [s \in SUBSET (1 .. n) |->
         IF s = {} THEN base ELSE step[<<g[s \ {Max(s)}], Max(s)>>]]

LEMMA FoldExists ==
  ASSUME NEW n \in Nat, NEW A, NEW base \in A, NEW step \in [A \X (1 .. n) -> A]
  PROVE  \E g \in [SUBSET (1 .. n) -> A] : TakesOffMax(g, n, base, step)
<1> DEFINE T == {k \in 0 .. n : \E g \in [SUBSET (1 .. k) -> A] : TakesOffMax(g, k, base, step)}
<1>1. 0 \in T
  <2> DEFINE g == [s \in SUBSET (1 .. 0) |-> base]
  <2>1. g \in [SUBSET (1 .. 0) -> A]
    OBVIOUS
  <2>2. \A s \in SUBSET (1 .. 0) : s = {}
    OBVIOUS
  <2>3. TakesOffMax(g, 0, base, step)
    BY <2>2 DEF TakesOffMax
  <2> QED BY <2>1, <2>3
<1>2. ASSUME NEW k \in 0 .. n - 1, k \in T PROVE k + 1 \in T
  <2>1. PICK g \in [SUBSET (1 .. k) -> A] : TakesOffMax(g, k, base, step)
    BY <1>2
  <2> DEFINE h == [s \in SUBSET (1 .. k + 1) |->
                     IF k + 1 \in s THEN step[<<g[s \ {k + 1}], k + 1>>] ELSE g[s]]
  <2>2. k \in Nat /\ k + 1 \in Nat /\ k + 1 \in 1 .. n /\ k + 1 \in 0 .. n
    OBVIOUS
  <2>3. \A s \in SUBSET (1 .. k + 1) :
          s \ {k + 1} \in SUBSET (1 .. k) /\ (k + 1 \notin s => s \in SUBSET (1 .. k))
    BY <2>2
  <2>4. h \in [SUBSET (1 .. k + 1) -> A]
    BY <2>2, <2>3
  <2>5. ASSUME NEW s \in SUBSET (1 .. k + 1)
        PROVE  h[s] = IF s = {} THEN base ELSE step[<<h[s \ {Max(s)}], Max(s)>>]
    <3>1. CASE s = {}
      <4>1. k + 1 \notin s /\ {} \in SUBSET (1 .. k) /\ h[s] = g[{}]
        BY <3>1
      <4>2. g[{}] = base
        BY <2>1, <4>1 DEF TakesOffMax
      <4> QED BY <3>1, <4>1, <4>2
    <3>2. CASE s # {} /\ k + 1 \in s
      <4>1. Max(s) = k + 1
        <5>1. Max(s) \in s /\ \A y \in s : y <= Max(s)
          BY <2>2, <3>2, MaxOfIndices
        <5>2. Max(s) \in 1 .. k + 1 /\ k + 1 <= Max(s)
          BY <3>2, <5>1
        <5> QED BY <2>2, <5>2
      <4>2. s \ {k + 1} \in SUBSET (1 .. k + 1) /\ k + 1 \notin s \ {k + 1}
        OBVIOUS
      <4>3. h[s \ {k + 1}] = g[s \ {k + 1}]
        BY <4>2
      <4> QED BY <3>2, <4>1, <4>3
    <3>3. CASE s # {} /\ k + 1 \notin s
      <4>1. s \in SUBSET (1 .. k)
        BY <2>3, <3>3
      <4>2. Max(s) \in s
        BY <2>2, <3>3, <4>1, MaxOfIndices
      <4>3. g[s] = step[<<g[s \ {Max(s)}], Max(s)>>]
        BY <2>1, <3>3, <4>1 DEF TakesOffMax
      <4>4. s \ {Max(s)} \in SUBSET (1 .. k + 1) /\ k + 1 \notin s \ {Max(s)}
        BY <3>3
      <4>5. h[s \ {Max(s)}] = g[s \ {Max(s)}] /\ h[s] = g[s]
        BY <3>3, <4>4
      <4> QED BY <3>3, <4>3, <4>5
    <3> QED BY <3>1, <3>2, <3>3
  <2> HIDE DEF h
  <2>6. TakesOffMax(h, k + 1, base, step)
    BY <2>4, <2>5 DEF TakesOffMax
  <2> QED BY <2>2, <2>4, <2>6
<1> HIDE DEF T
<1>3. n \in T
  <2>1. 0 .. n \subseteq T
    BY <1>1, <1>2, RangeInduction
  <2> QED BY <2>1
<1> QED BY <1>3 DEF T

===============================================================================
