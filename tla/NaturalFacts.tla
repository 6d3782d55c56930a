---------------------------- MODULE NaturalFacts ----------------------------
(***************************************************************************)
(* Facts about naturals the proofs share: the least element of a set,      *)
(* induction (over a set, which the provers can instantiate, where the     *)
(* library's theorem is over an operator), quotients and remainders, sums  *)
(* over sets of positions, and folds.                                      *)
(***************************************************************************)
EXTENDS Integers, WellFoundedInduction, TLAPS

\* A set of naturals that is not empty has a least element.
LEMMA LeastNatural ==
    ASSUME NEW T \in SUBSET Nat, T # {}
    PROVE  \E x \in T : \A y \in T : x <= y
<1> DEFINE R == OpToRel(<, Nat)
<1>1. IsWellFoundedOn(R, Nat)
  BY NatLessThanWellFounded, Zenon
<1>2. \A x, y \in Nat : x < y => <<x, y>> \in R
  BY DEF OpToRel
<1> HIDE DEF R
<1>3. PICK x \in T : \A y \in T : ~ (<<y, x>> \in R)
  BY <1>1, WFMin
<1>4. \A y \in T : ~(y < x) /\ y \in Nat /\ x \in Nat
  BY <1>2, <1>3
<1> QED
  BY <1>3, <1>4

\* A set that holds 0 and with n also n + 1 holds every natural.
LEMMA NatSetInduction ==
    ASSUME NEW S, 0 \in S, \A n \in Nat : n \in S => n + 1 \in S
    PROVE  \A n \in Nat : n \in S
<1> DEFINE T == Nat \ S
<1> SUFFICES ASSUME T # {} PROVE FALSE
  OBVIOUS
<1>1. PICK x \in T : \A y \in T : x <= y
  BY LeastNatural
<1>2. x # 0 /\ x \in Nat /\ x \notin S
  BY <1>1
<1>3. x - 1 \in Nat /\ x - 1 \notin T /\ (x - 1) + 1 = x
  BY <1>1, <1>2
<1>4. (x - 1) + 1 \in S
  BY <1>3
<1> QED
  BY <1>2, <1>3, <1>4

-----------------------------------------------------------------------------
(* Quotients and remainders. *)

\* Division with remainder.
LEMMA DivMod ==
    ASSUME NEW a \in Nat, NEW b \in Nat \ {0}
    PROVE  /\ a \div b \in Nat /\ a % b \in 0 .. b - 1
           /\ a = b * (a \div b) + (a % b)
  OBVIOUS

\* The next multiple of b is b further.
LEMMA ProductGrows ==
    ASSUME NEW b \in Nat \ {0}, NEW q \in Nat, NEW r \in Nat, q < r
    PROVE  b * q + b <= b * r
<1>1. PICK d \in Nat : r = q + 1 + d
  <2>1. r - q - 1 \in Nat /\ r = q + 1 + (r - q - 1)
    OBVIOUS
  <2> QED
    BY <2>1
<1>2. b * r = b * q + b + b * d
  BY <1>1
<1>3. b * d \in Nat /\ b * q \in Nat /\ b * r \in Nat
  BY <1>1
<1> QED
  BY <1>2, <1>3

\* Quotient and remainder are determined.
LEMMA DivUnique ==
    ASSUME NEW b \in Nat \ {0}, NEW q \in Nat, NEW r \in Nat,
           NEW s \in 0 .. b - 1, NEW t \in 0 .. b - 1, b * q + s = b * r + t
    PROVE  q = r
<1>1. b * q \in Nat /\ b * r \in Nat
  OBVIOUS
<1>2. CASE q < r
  BY <1>1, <1>2, ProductGrows
<1>3. CASE r < q
  BY <1>1, <1>3, ProductGrows
<1> QED
  BY <1>2, <1>3

\* A quotient is below what the number is below.
LEMMA DivBelow ==
    ASSUME NEW h \in Nat, NEW b \in Nat \ {0}, NEW k \in Nat, h < b * k
    PROVE  h \div b < k
<1>1. h \div b \in Nat /\ h % b \in Nat /\ h = b * (h \div b) + (h % b)
  BY DivMod
<1>2. CASE k <= h \div b
  <2>1. b * k <= b * (h \div b)
    <3>1. CASE k = h \div b
      BY <3>1, <1>1
    <3>2. CASE k < h \div b
      <4>1. b * k + b <= b * (h \div b)
        BY <1>1, <3>2, ProductGrows
      <4>2. b * k \in Nat /\ b * (h \div b) \in Nat
        BY <1>1
      <4> QED
        BY <4>1, <4>2
    <3> QED
      BY <1>1, <1>2, <3>1, <3>2
  <2>2. b * k \in Nat /\ b * (h \div b) \in Nat
    BY <1>1
  <2> QED
    BY <1>1, <2>1, <2>2
<1> QED
  BY <1>1, <1>2

\* Reducing a multiple of p modulo a multiple of p reduces the factor.
LEMMA ModOfMultiple ==
    ASSUME NEW p \in Nat \ {0}, NEW q \in Nat \ {0}, NEW c \in Nat
    PROVE  (c * p) % (p * q) = (c % q) * p
<1> DEFINE a == c \div q
           b == c % q
           w == p * q
<1>1. a \in Nat /\ b \in 0 .. q - 1 /\ c = q * a + b
  BY DivMod
<1>2. w \in Nat \ {0} /\ p * b \in Nat
  BY <1>1
<1>3. c * p = w * a + p * b
  <2> HIDE DEF a, b
  <2> QED
    BY <1>1 DEF w
<1>4. p * b \in 0 .. w - 1
  <2>1. p * b + p <= w
    <3>1. b \in Nat /\ b < q
      BY <1>1
    <3> HIDE DEF b
    <3> QED
      BY <3>1, ProductGrows DEF w
  <2> QED
    BY <2>1, <1>2
<1>5. c * p \in Nat
  OBVIOUS
<1> DEFINE n == c * p
<1>6. n \div w \in Nat /\ n % w \in 0 .. w - 1 /\ n = w * (n \div w) + (n % w)
  <2> HIDE DEF n, w
  <2> QED
    BY <1>2, <1>5, DivMod DEF n
<1>7. a = n \div w
  <2> HIDE DEF w, a, b
  <2> QED
    BY <1>1, <1>2, <1>3, <1>4, <1>6, DivUnique
<1>8. n % w = p * b
  <2> HIDE DEF w, a, b
  <2>1. w * a \in Nat
    BY <1>1, <1>2
  <2> HIDE DEF n
  <2> QED
    BY <2>1, <1>2, <1>3, <1>6, <1>7 DEF n
<1> QED
  BY <1>8, <1>1

\* A multiple of p over p is the factor.
LEMMA DivOfMultiple ==
    ASSUME NEW p \in Nat \ {0}, NEW c \in Nat
    PROVE  (c * p) \div p = c
<1> DEFINE n == c * p
<1>1. n \in Nat /\ n = p * c + 0
  OBVIOUS
<1>2. n \div p \in Nat /\ n % p \in 0 .. p - 1 /\ n = p * (n \div p) + (n % p)
  <2> HIDE DEF n
  <2> QED
    BY <1>1, DivMod
<1>3. 0 \in 0 .. p - 1 /\ p * c + 0 = p * (n \div p) + (n % p)
  BY <1>1, <1>2
<1> HIDE DEF n
<1> QED
  BY <1>2, <1>3, DivUnique DEF n

-----------------------------------------------------------------------------
(* Sums over sets of positions. *)

\* S gives every set of the positions 1 .. n the sum of its weights w.
IsSum(S, w, n) ==
    /\ S \in [SUBSET (1 .. n) -> Nat]
    /\ S[{}] = 0
    /\ \A A \in SUBSET (1 .. n) : \A x \in (1 .. n) \ A :
          S[A \cup {x}] = S[A] + w[x]

SumOver(w, n) == CHOOSE S : IsSum(S, w, n)

\* The sum of all positions.
Total(w, n) == SumOver(w, n)[1 .. n]

\* There is such an S: extend it by one position at a time.
LEMMA SumExists ==
    ASSUME NEW n \in Nat, NEW w \in [1 .. n -> Nat]
    PROVE  IsSum(SumOver(w, n), w, n)
<1> DEFINE Ind == {m \in Nat : m <= n => \E S : IsSum(S, w, m)}
<1>1. 0 \in Ind
  <2> DEFINE S0 == [A \in SUBSET (1 .. 0) |-> 0]
  <2>1. IsSum(S0, w, 0)
    BY DEF IsSum
  <2> QED
    BY <2>1
<1>2. ASSUME NEW m \in Nat, m \in Ind PROVE m + 1 \in Ind
  <2> SUFFICES ASSUME m + 1 <= n PROVE \E S : IsSum(S, w, m + 1)
    OBVIOUS
  <2>1. PICK S : IsSum(S, w, m)
    BY <1>2
  <2> DEFINE p == m + 1
             Q == [A \in SUBSET (1 .. p) |->
                      IF p \in A THEN S[A \ {p}] + w[p] ELSE S[A]]
  <2>2. 1 .. p = (1 .. m) \cup {p} /\ p \notin 1 .. m /\ p \in 1 .. n /\ w[p] \in Nat
    OBVIOUS
  <2>3. /\ \A A \in SUBSET (1 .. m) : S[A] \in Nat
        /\ S[{}] = 0
        /\ \A A \in SUBSET (1 .. m) : \A x \in (1 .. m) \ A : S[A \cup {x}] = S[A] + w[x]
    BY <2>1 DEF IsSum
  <2> HIDE DEF p
  <2>5. Q \in [SUBSET (1 .. p) -> Nat]
    <3> SUFFICES ASSUME NEW A \in SUBSET (1 .. p)
                 PROVE  (IF p \in A THEN S[A \ {p}] + w[p] ELSE S[A]) \in Nat
      OBVIOUS
    <3> DEFINE B == A \ {p}
    <3>1. S[B] \in Nat
      <4>1. B \in SUBSET (1 .. m)
        BY <2>2
      <4> HIDE DEF B
      <4> QED
        BY <4>1, <2>3
    <3>2. ASSUME p \notin A PROVE S[A] \in Nat
      <4>1. A \in SUBSET (1 .. m)
        BY <2>2, <3>2
      <4> QED
        BY <4>1, <2>3
    <3> QED
      BY <2>2, <3>1, <3>2
  <2>6. Q[{}] = 0
    BY <2>3
  <2>7. ASSUME NEW A \in SUBSET (1 .. p), NEW x \in (1 .. p) \ A
        PROVE  Q[A \cup {x}] = Q[A] + w[x]
    <3>1. A \cup {x} \in SUBSET (1 .. p)
      OBVIOUS
    <3>2. CASE x = p
      <4>1. (A \cup {x}) \ {p} = A /\ p \notin A
        BY <3>2
      <4> QED
        BY <3>1, <3>2, <4>1
    <3>3. CASE x # p /\ p \in A
      <4>1. (A \cup {x}) \ {p} = (A \ {p}) \cup {x} /\ x \in (1 .. m) \ (A \ {p})
        BY <3>3, <2>2
      <4>2. S[(A \ {p}) \cup {x}] = S[A \ {p}] + w[x]
        <5> DEFINE B == A \ {p}
        <5>1. B \in SUBSET (1 .. m) /\ x \in (1 .. m) \ B
          BY <4>1, <2>2
        <5> HIDE DEF B
        <5>2. S[B \cup {x}] = S[B] + w[x]
          BY <5>1, <2>3
        <5> QED
          BY <5>2 DEF B
      <4>3. Q[A \cup {x}] = S[A \ {p}] + w[x] + w[p] /\ Q[A] = S[A \ {p}] + w[p]
        BY <3>1, <3>3, <4>1, <4>2
      <4>4. S[A \ {p}] \in Nat /\ w[x] \in Nat
        <5>1. A \ {p} \in SUBSET (1 .. m)
          BY <2>2
        <5>2. S[A \ {p}] \in Nat
          <6> DEFINE B == A \ {p}
          <6>1. B \in SUBSET (1 .. m)
            BY <5>1
          <6> HIDE DEF B
          <6>2. S[B] \in Nat
            BY <6>1, <2>3
          <6> QED
            BY <6>2 DEF B
        <5>3. x \in 1 .. n
          BY <4>1
        <5> QED
          BY <5>2, <5>3
      <4> QED
        BY <4>3, <4>4, <2>2
    <3>4. CASE x # p /\ p \notin A
      <4>1. x \in (1 .. m) \ A /\ A \in SUBSET (1 .. m) /\ p \notin A \cup {x}
        BY <3>4, <2>2
      <4>2. S[A \cup {x}] = S[A] + w[x]
        BY <4>1, <2>3
      <4> QED
        BY <3>1, <3>4, <4>1, <4>2
    <3> QED
      BY <3>2, <3>3, <3>4
  <2> HIDE DEF Q
  <2>8. IsSum(Q, w, p)
    BY <2>5, <2>6, <2>7 DEF IsSum
  <2> QED
    BY <2>8 DEF p
<1> HIDE DEF Ind
<1>3. n \in Ind
  BY <1>1, <1>2, NatSetInduction
<1>4. \E S : IsSum(S, w, n)
  BY <1>3 DEF Ind
<1> QED
  BY <1>4, Zenon DEF SumOver

\* Its values, and the sum of one position more.
LEMMA SumType ==
    ASSUME NEW n \in Nat, NEW w \in [1 .. n -> Nat]
    PROVE  /\ \A A \in SUBSET (1 .. n) : SumOver(w, n)[A] \in Nat
           /\ SumOver(w, n)[{}] = 0
<1>1. PICK S : S = SumOver(w, n) /\ IsSum(S, w, n)
  BY SumExists
<1>2. (\A A \in SUBSET (1 .. n) : S[A] \in Nat) /\ S[{}] = 0
  BY <1>1 DEF IsSum
<1> QED
  BY <1>1, <1>2

LEMMA SumStep ==
    ASSUME NEW n \in Nat, NEW w \in [1 .. n -> Nat], NEW m \in 1 .. n
    PROVE  /\ SumOver(w, n)[1 .. m - 1] \in Nat
           /\ SumOver(w, n)[1 .. m] = SumOver(w, n)[1 .. m - 1] + w[m]
<1> DEFINE A == 1 .. m - 1
<1>1. A \in SUBSET (1 .. n) /\ m \notin A /\ 1 .. m = A \cup {m}
  OBVIOUS
<1> HIDE DEF A
<1>2. SumOver(w, n)[A \cup {m}] = SumOver(w, n)[A] + w[m]
  <2>1. PICK S : S = SumOver(w, n) /\ IsSum(S, w, n)
    BY SumExists
  <2>2. S[A \cup {m}] = S[A] + w[m]
    BY <1>1, <2>1 DEF IsSum
  <2> QED
    BY <2>1, <2>2
<1> QED
  BY <1>1, <1>2, SumType DEF A

LEMMA SumNone ==
    ASSUME NEW n \in Nat, NEW w \in [1 .. n -> Nat]
    PROVE  SumOver(w, n)[1 .. 0] = 0
<1>1. 1 .. 0 = {}
  OBVIOUS
<1> QED
  BY <1>1, SumType

\* The same weights have the same sum, larger weights a larger one.
LEMMA SumCompare ==
    ASSUME NEW n \in Nat, NEW w \in [1 .. n -> Nat], NEW v \in [1 .. n -> Nat],
           NEW m \in 0 .. n
    PROVE  /\ (\A j \in 1 .. m : w[j] <= v[j]) =>
                  SumOver(w, n)[1 .. m] <= SumOver(v, n)[1 .. m]
           /\ (\A j \in 1 .. m : w[j] = v[j]) =>
                  SumOver(w, n)[1 .. m] = SumOver(v, n)[1 .. m]
<1> DEFINE P(i) == /\ (\A j \in 1 .. i : w[j] <= v[j]) =>
                         SumOver(w, n)[1 .. i] <= SumOver(v, n)[1 .. i]
                   /\ (\A j \in 1 .. i : w[j] = v[j]) =>
                         SumOver(w, n)[1 .. i] = SumOver(v, n)[1 .. i]
           Ind == {i \in Nat : i <= n => P(i)}
<1>1. 0 \in Ind
  BY SumNone
<1>2. ASSUME NEW i \in Nat, i \in Ind PROVE i + 1 \in Ind
  <2> SUFFICES ASSUME i + 1 <= n PROVE P(i + 1)
    OBVIOUS
  <2> DEFINE a == SumOver(w, n)[1 .. i]
             b == SumOver(v, n)[1 .. i]
  <2>1. i + 1 \in 1 .. n /\ (i + 1) - 1 = i
    OBVIOUS
  <2>2. /\ a \in Nat /\ b \in Nat
        /\ SumOver(w, n)[1 .. i + 1] = a + w[i + 1]
        /\ SumOver(v, n)[1 .. i + 1] = b + v[i + 1]
    BY <2>1, SumStep
  <2>3. w[i + 1] \in Nat /\ v[i + 1] \in Nat
    BY <2>1
  <2>4. P(i)
    BY <1>2, SMTT(30)
  <2> HIDE DEF a, b
  <2>5. /\ (\A j \in 1 .. i : w[j] <= v[j]) => a <= b
        /\ (\A j \in 1 .. i : w[j] = v[j]) => a = b
    BY <2>4 DEF a, b
  <2>6. /\ (\A j \in 1 .. i + 1 : w[j] <= v[j]) => a + w[i + 1] <= b + v[i + 1]
        /\ (\A j \in 1 .. i + 1 : w[j] = v[j]) => a + w[i + 1] = b + v[i + 1]
    BY <2>2, <2>3, <2>5, SMTT(30)
  <2> QED
    BY <2>2, <2>6
<1> HIDE DEF Ind
<1>3. \A i \in Nat : i \in Ind
  BY <1>1, <1>2, NatSetInduction
<1>4. m \in Nat /\ m <= n
  OBVIOUS
<1> QED
  BY <1>3, <1>4 DEF Ind

\* The weights w and v added, position by position.
Added(w, v, n) == [j \in 1 .. n |-> w[j] + v[j]]

\* The sum of the sums is the sum of the added weights.
LEMMA SumAdds ==
    ASSUME NEW n \in Nat, NEW w \in [1 .. n -> Nat], NEW v \in [1 .. n -> Nat]
    PROVE  Total(Added(w, v, n), n) = Total(w, n) + Total(v, n)
<1> DEFINE u == Added(w, v, n)
<1>0. u \in [1 .. n -> Nat] /\ \A j \in 1 .. n : u[j] = w[j] + v[j]
  BY DEF Added
<1> HIDE DEF u
<1> DEFINE P(i) == SumOver(u, n)[1 .. i] = SumOver(w, n)[1 .. i] + SumOver(v, n)[1 .. i]
           Ind == {i \in Nat : i <= n => P(i)}
<1>1. 0 \in Ind
  <2>1. /\ SumOver(u, n)[1 .. 0] = 0 /\ SumOver(w, n)[1 .. 0] = 0
        /\ SumOver(v, n)[1 .. 0] = 0
    BY <1>0, SumNone
  <2> QED
    BY <2>1
<1>2. ASSUME NEW i \in Nat, i \in Ind PROVE i + 1 \in Ind
  <2> SUFFICES ASSUME i + 1 <= n PROVE P(i + 1)
    OBVIOUS
  <2> DEFINE a == SumOver(w, n)[1 .. i]
             b == SumOver(v, n)[1 .. i]
             c == SumOver(u, n)[1 .. i]
  <2>1. i + 1 \in 1 .. n /\ (i + 1) - 1 = i
    OBVIOUS
  <2>2. /\ a \in Nat /\ b \in Nat /\ c \in Nat
        /\ SumOver(w, n)[1 .. i + 1] = a + w[i + 1]
        /\ SumOver(v, n)[1 .. i + 1] = b + v[i + 1]
        /\ SumOver(u, n)[1 .. i + 1] = c + u[i + 1]
    <3> DEFINE p == i + 1
    <3>1. p \in 1 .. n /\ p - 1 = i
      BY <2>1
    <3> HIDE DEF p, P, Ind
    <3>2. u \in [1 .. n -> Nat]
      BY <1>0
    <3>3. /\ SumOver(w, n)[1 .. p - 1] \in Nat /\ SumOver(v, n)[1 .. p - 1] \in Nat
          /\ SumOver(w, n)[1 .. p] = SumOver(w, n)[1 .. p - 1] + w[p]
          /\ SumOver(v, n)[1 .. p] = SumOver(v, n)[1 .. p - 1] + v[p]
      BY <3>1, SumStep
    <3>4. /\ SumOver(u, n)[1 .. p - 1] \in Nat
          /\ SumOver(u, n)[1 .. p] = SumOver(u, n)[1 .. p - 1] + u[p]
      BY <3>1, <3>2, SumStep
    <3> QED
      BY <3>1, <3>3, <3>4, Zenon DEF p
  <2>3. w[i + 1] \in Nat /\ v[i + 1] \in Nat /\ u[i + 1] = w[i + 1] + v[i + 1]
    BY <1>0, <2>1
  <2>4. c = a + b
    BY <1>2
  <2> HIDE DEF a, b, c
  <2> QED
    BY <2>2, <2>3, <2>4
<1> HIDE DEF Ind
<1>3. \A i \in Nat : i \in Ind
  BY <1>1, <1>2, NatSetInduction
<1>4. P(n)
  BY <1>3 DEF Ind
<1> QED
  BY <1>4 DEF Total, u

LEMMA IntervalGrows ==
    ASSUME NEW i \in Nat
    PROVE  1 .. i + 1 = (1 .. i) \cup {i + 1}
  OBVIOUS

\* f gives each of the n positions of w its own position in v, of equal weight.
Renumbers(f, w, v, n) ==
    /\ \A a, b \in 1 .. n : f[a] = f[b] => a = b
    /\ \A j \in 1 .. n : w[j] = v[f[j]]

\* The positions in v of the first m positions of w.
Image(f, m) == {f[j] : j \in 1 .. m}

\* Listing positions in another order does not change their sum.
LEMMA SumReindex ==
    ASSUME NEW n \in Nat, NEW w \in [1 .. n -> Nat],
           NEW q \in Nat, NEW v \in [1 .. q -> Nat], NEW f \in [1 .. n -> 1 .. q],
           Renumbers(f, w, v, n)
    PROVE  Total(w, n) = SumOver(v, q)[Image(f, n)]
<1> DEFINE Im(i) == {f[j] : j \in 1 .. i}
           P(i) == SumOver(w, n)[1 .. i] = SumOver(v, q)[Im(i)]
           Ind == {i \in Nat : i <= n => P(i)}
<1>1. 0 \in Ind
  <2>1. Im(0) = {}
    OBVIOUS
  <2>2. SumOver(v, q)[{}] = 0 /\ SumOver(w, n)[1 .. 0] = 0
    BY SumNone, SumType
  <2> HIDE DEF Im
  <2> QED
    BY <2>1, <2>2
<1>2. ASSUME NEW i \in Nat, i \in Ind PROVE i + 1 \in Ind
  <2> SUFFICES ASSUME i + 1 <= n PROVE P(i + 1)
    <3>1. i + 1 \in Nat
      OBVIOUS
    <3> HIDE DEF P
    <3> QED
      BY <3>1, Zenon
  <2>1. i + 1 \in 1 .. n /\ (i + 1) - 1 = i
    OBVIOUS
  <2>2. SumOver(w, n)[1 .. i + 1] = SumOver(w, n)[1 .. i] + w[i + 1]
    <3> DEFINE p == i + 1
    <3>1. p \in 1 .. n /\ p - 1 = i
      OBVIOUS
    <3> HIDE DEF p
    <3> HIDE DEF Im, P, Ind
    <3>2. SumOver(w, n)[1 .. p] = SumOver(w, n)[1 .. p - 1] + w[p]
      BY <3>1, SumStep
    <3> QED
      BY <3>1, <3>2 DEF p
  <2>3. /\ Im(i) \in SUBSET (1 .. q) /\ f[i + 1] \in 1 .. q /\ f[i + 1] \notin Im(i)
        /\ Im(i + 1) = Im(i) \cup {f[i + 1]}
    <3>1. \A j \in 1 .. i : j \in 1 .. n /\ j # i + 1
      OBVIOUS
    <3>2. f[i + 1] \in 1 .. q /\ \A j \in 1 .. i : f[j] \in 1 .. q
      BY <2>1, <3>1
    <3>3. \A j \in 1 .. i : f[j] # f[i + 1]
      BY <2>1, <3>1 DEF Renumbers
    <3>4. 1 .. i + 1 = (1 .. i) \cup {i + 1}
      BY IntervalGrows
    <3>5. Im(i + 1) = Im(i) \cup {f[i + 1]}
      BY <3>4
    <3>6. Im(i) \in SUBSET (1 .. q) /\ f[i + 1] \notin Im(i)
      BY <3>2, <3>3
    <3> HIDE DEF Im
    <3> QED
      BY <3>2, <3>5, <3>6
  <2>4. P(i) /\ w[i + 1] = v[f[i + 1]]
    BY <1>2, <2>1 DEF Renumbers
  <2> DEFINE A == Im(i)
             x == f[i + 1]
  <2>5. A \in SUBSET (1 .. q) /\ x \in 1 .. q /\ x \notin A
    BY <2>3
  <2>6. SumOver(v, q)[A \cup {x}] = SumOver(v, q)[A] + v[x]
    <3> HIDE DEF A, x
    <3> QED
      <4>1. PICK S : S = SumOver(v, q) /\ IsSum(S, v, q)
        BY SumExists
      <4>2. S[A \cup {x}] = S[A] + v[x]
        BY <2>5, <4>1 DEF IsSum
      <4> QED
        BY <4>1, <4>2
  <2> HIDE DEF Im
  <2> QED
    BY <2>2, <2>3, <2>4, <2>6
<1> HIDE DEF Ind, P
<1>3. \A i \in Nat : i \in Ind
  BY <1>1, <1>2, NatSetInduction
<1>4. SumOver(w, n)[1 .. n] = SumOver(v, q)[Im(n)]
  <2> HIDE DEF Im
  <2> QED
    BY <1>3 DEF Ind, P
<1> QED
  BY <1>4, Zenon DEF Total, Image

\* No set sums to more than all positions.
LEMMA SumMonotone ==
    ASSUME NEW n \in Nat, NEW w \in [1 .. n -> Nat], NEW A \in SUBSET (1 .. n)
    PROVE  SumOver(w, n)[A] <= SumOver(w, n)[1 .. n]
<1> DEFINE S == SumOver(w, n)
           B(i) == A \cup (1 .. i)
           Ind == {i \in Nat : i <= n => S[A] <= S[B(i)]}
<1>1. \A C \in SUBSET (1 .. n) : S[C] \in Nat
  BY SumType
<1>2. 0 \in Ind
  <2>1. B(0) = A
    OBVIOUS
  <2> QED
    BY <2>1, <1>1
<1>3. ASSUME NEW i \in Nat, i \in Ind PROVE i + 1 \in Ind
  <2> SUFFICES ASSUME i + 1 <= n PROVE S[A] <= S[B(i + 1)]
    OBVIOUS
  <2> DEFINE C == B(i)
             x == i + 1
  <2>1. /\ C \in SUBSET (1 .. n) /\ x \in 1 .. n
        /\ B(i + 1) = C \cup {x}
    OBVIOUS
  <2>2. S[A] <= S[C]
    BY <1>3
  <2>3. S[A] \in Nat /\ S[C] \in Nat /\ w[x] \in Nat
    <3> HIDE DEF S, C
    <3> QED
      BY <1>1, <2>1
  <2>4. CASE x \in C
    <3>1. C \cup {x} = C
      BY <2>4
    <3> QED
      BY <3>1, <2>1, <2>2
  <2>5. CASE x \notin C
    <3> HIDE DEF C, x
    <3>1. S[C \cup {x}] = S[C] + w[x]
      <4>1. IsSum(S, w, n)
        BY SumExists
      <4> HIDE DEF S
      <4> QED
        BY <2>1, <2>5, <4>1 DEF IsSum
    <3> HIDE DEF S, B
    <3>2. S[A] <= S[C \cup {x}]
      BY <3>1, <2>2, <2>3
    <3> QED
      BY <3>2, <2>1
  <2> QED
    BY <2>4, <2>5
<1> HIDE DEF Ind
<1>4. n \in Ind
  BY <1>2, <1>3, NatSetInduction
<1>5. B(n) = 1 .. n
  OBVIOUS
<1> HIDE DEF B, S
<1>6. S[A] <= S[1 .. n]
  BY <1>4, <1>5 DEF Ind
<1> QED
  BY <1>6 DEF S

-----------------------------------------------------------------------------
(* Folds over positions, the last position taken first: what the FoldLeft  *)
(* of the community modules does.                                          *)

Greatest(A) == CHOOSE x \in A : \A y \in A : x >= y

\* h gives every set of the positions 1 .. n the fold of the functions f[j]
\* over it, from b; all values are in X.
IsFold(h, X, b, f, n) ==
    /\ h \in [SUBSET (1 .. n) -> X]
    /\ h[{}] = b
    /\ \A A \in SUBSET (1 .. n) : A # {} =>
          h[A] = f[Greatest(A)][h[A \ {Greatest(A)}]]

LEMMA GreatestExists ==
    ASSUME NEW n \in Nat, NEW A \in SUBSET (1 .. n), A # {}
    PROVE  Greatest(A) \in A /\ \A y \in A : Greatest(A) >= y
<1> DEFINE T == {m \in Nat : \A y \in A : y <= m}
<1>1. n \in T
  OBVIOUS
<1>2. PICK x \in T : \A y \in T : x <= y
  <2>1. T \in SUBSET Nat /\ T # {}
    BY <1>1
  <2> HIDE DEF T
  <2> QED
    BY <2>1, LeastNatural
<1>3. x \in A
  <2> SUFFICES ASSUME x \notin A PROVE FALSE
    OBVIOUS
  <2>1. \A y \in A : y \in Nat /\ y >= 1 /\ y <= x /\ y # x
    OBVIOUS
  <2>2. PICK y \in A : TRUE
    OBVIOUS
  <2>3. x - 1 \in T
    BY <2>1, <2>2
  <2> QED
    BY <1>2, <2>3
<1>4. \A y \in A : x >= y
  OBVIOUS
<1> QED
  BY <1>3, <1>4 DEF Greatest

LEMMA GreatestOfPrefix ==
    ASSUME NEW m \in Nat \ {0}
    PROVE  Greatest(1 .. m) = m /\ (1 .. m) \ {m} = 1 .. m - 1
<1> DEFINE A == 1 .. m
<1>1. m \in Nat /\ A \in SUBSET (1 .. m) /\ A # {}
  OBVIOUS
<1>2. Greatest(A) \in A /\ \A y \in A : Greatest(A) >= y
  <2> HIDE DEF A
  <2> QED
    BY <1>1, GreatestExists
<1> QED
  BY <1>2

\* There is such an h: extend it by one position at a time.
LEMMA FoldExists ==
    ASSUME NEW n \in Nat, NEW X, NEW b \in X, NEW f \in [1 .. n -> [X -> X]]
    PROVE  \E h : IsFold(h, X, b, f, n)
<1> DEFINE Ind == {m \in Nat : m <= n => \E h : IsFold(h, X, b, f, m)}
<1>1. 0 \in Ind
  <2> DEFINE h == [A \in SUBSET (1 .. 0) |-> b]
  <2>1. \A A \in SUBSET (1 .. 0) : A = {}
    OBVIOUS
  <2>2. IsFold(h, X, b, f, 0)
    BY <2>1 DEF IsFold
  <2> QED
    BY <2>2
<1>2. ASSUME NEW m \in Nat, m \in Ind PROVE m + 1 \in Ind
  <2> SUFFICES ASSUME m + 1 <= n
               PROVE  \E h : IsFold(h, X, b, f, m + 1)
    OBVIOUS
  <2>1. PICK h : IsFold(h, X, b, f, m)
    BY <1>2
  <2> DEFINE p == m + 1
             Q == [A \in SUBSET (1 .. p) |->
                      IF p \in A THEN f[p][h[A \ {p}]] ELSE h[A]]
  <2>2. 1 .. p = (1 .. m) \cup {p} /\ p \notin 1 .. m /\ f[p] \in [X -> X] /\ p \in Nat
    OBVIOUS
  <2> HIDE DEF p
  <2>3. /\ \A A \in SUBSET (1 .. m) : h[A] \in X
        /\ h[{}] = b
        /\ \A A \in SUBSET (1 .. m) : A # {} =>
              h[A] = f[Greatest(A)][h[A \ {Greatest(A)}]]
    BY <2>1 DEF IsFold
  <2>4. Q \in [SUBSET (1 .. p) -> X]
    <3> SUFFICES ASSUME NEW A \in SUBSET (1 .. p)
                 PROVE  (IF p \in A THEN f[p][h[A \ {p}]] ELSE h[A]) \in X
      OBVIOUS
    <3> DEFINE B == A \ {p}
    <3>1. B \in SUBSET (1 .. m) /\ (p \notin A => A \in SUBSET (1 .. m))
      BY <2>2
    <3> HIDE DEF B
    <3>2. h[B] \in X /\ f[p][h[B]] \in X
      BY <2>2, <2>3, <3>1
    <3> QED
      BY <2>3, <3>1, <3>2 DEF B
  <2>5. Q[{}] = b
    BY <2>3
  <2>6. ASSUME NEW A \in SUBSET (1 .. p), A # {}
        PROVE  Q[A] = f[Greatest(A)][Q[A \ {Greatest(A)}]]
    <3> DEFINE g == Greatest(A)
    <3>1. g \in A /\ \A y \in A : g >= y
      BY <2>2, <2>6, GreatestExists
    <3> HIDE DEF g
    <3>2. CASE p \in A
      <4>1. g = p
        BY <2>2, <3>1, <3>2
      <4>2. Q[A] = f[p][h[A \ {p}]] /\ Q[A \ {p}] = h[A \ {p}]
        BY <3>2
      <4> QED
        BY <4>1, <4>2 DEF g
    <3>3. CASE p \notin A
      <4>1. A \in SUBSET (1 .. m)
        BY <2>2, <3>3
      <4>2. Q[A] = h[A] /\ Q[A \ {g}] = h[A \ {g}]
        BY <3>3
      <4>3. h[A] = f[g][h[A \ {g}]]
        BY <2>3, <2>6, <4>1 DEF g
      <4> QED
        BY <4>2, <4>3 DEF g
    <3> QED
      BY <3>2, <3>3
  <2> HIDE DEF Q
  <2>7. IsFold(Q, X, b, f, p)
    BY <2>4, <2>5, <2>6 DEF IsFold
  <2> QED
    BY <2>7 DEF p
<1> HIDE DEF Ind
<1>3. n \in Ind
  BY <1>1, <1>2, NatSetInduction
<1> QED
  BY <1>3 DEF Ind
=============================================================================
