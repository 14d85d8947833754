---------------------------- MODULE MessageProofs ---------------------------
(***************************************************************************)
(* Theorems about Message, for any header, any contents and any order of   *)
(* calls: no setter touches another field, and what is written is read as  *)
(* it was written.  The second is about recursive functions; the induction *)
(* it needs is over sets of numbers, from the well-foundedness of their    *)
(* order.                                                                  *)
(***************************************************************************)
EXTENDS Message, SequenceTheorems, WellFoundedInduction, FiniteSetTheorems,
        TLAPS

(***************************************************************************)
(* Induction over the numbers, with a set in place of a predicate, and     *)
(* recursion, with a function in place of an operator.                     *)
(***************************************************************************)
LEMMA Induction ==
  ASSUME NEW T, 0 \in T, \A n \in Nat : n \in T => n + 1 \in T
  PROVE  Nat \subseteq T
<1> DEFINE Less == {ss \in Nat \X Nat : ss[1] < ss[2]}
<1> SUFFICES ASSUME Nat \ T # {} PROVE FALSE
  OBVIOUS
<1>1. IsWellFoundedOn(Less, Nat)
  BY NatLessThanWellFounded DEF OpToRel
<1>2. PICK m \in Nat \ T : \A n \in Nat \ T : <<n, m>> \notin Less
  <2> HIDE DEF Less
  <2> DEFINE U == Nat \ T
  <2>1. U \subseteq Nat /\ U # {}
    OBVIOUS
  <2> HIDE DEF U
  <2>2. \E m \in U : \A n \in U : ~ (<<n, m>> \in Less)
    BY <1>1, <2>1, WFMin
  <2> QED BY <2>2 DEF U
<1>3. m # 0 /\ m - 1 \in Nat /\ <<m - 1, m>> \in Less
  OBVIOUS
<1>4. m - 1 \in T
  BY <1>2, <1>3
<1>5. (m - 1) + 1 = m
  OBVIOUS
<1> QED BY <1>2, <1>3, <1>4, <1>5

(* h has the first values of such a function, up to that of n.             *)
Approx(h, n, S, x, g) ==
  /\ h \in [0 .. n -> S] /\ h[0] = x
  /\ \A i \in Nat : i < n => h[i + 1] = g[<<i, h[i]>>]

(* f begins with x, and g makes the next value of each.                    *)
Unfolds(f, S, x, g) ==
  /\ f \in [Nat -> S] /\ f[0] = x
  /\ \A n \in Nat : f[n + 1] = g[<<n, f[n]>>]

(* Any first value and any step make a function.                           *)
LEMMA Recursion ==
  ASSUME NEW S, NEW x, NEW g, x \in S, g \in [Nat \X S -> S]
  PROVE  \E f : Unfolds(f, S, x, g)
<1> DEFINE A(h, n) == Approx(h, n, S, x, g)
           T == {n \in Nat : \E h : A(h, n)}
           H(n) == CHOOSE h : A(h, n)
           f == [n \in Nat |-> H(n)[n]]
<1>1. A([i \in 0 .. 0 |-> x], 0)
  BY DEF Approx
<1>2. ASSUME NEW n \in Nat, NEW h, A(h, n)
      PROVE  \E k : A(k, n + 1)
  <2> DEFINE k == [i \in 0 .. n + 1 |->
                     IF i <= n THEN h[i] ELSE g[<<n, h[n]>>]]
  <2>1. \A i \in 0 .. n : h[i] \in S
    BY <1>2 DEF Approx
  <2>2. g[<<n, h[n]>>] \in S
    BY <2>1
  <2>3. k \in [0 .. n + 1 -> S] /\ k[0] = x
    BY <1>2, <2>1, <2>2 DEF Approx
  <2>4. ASSUME NEW i \in Nat, i < n + 1
        PROVE  k[i + 1] = g[<<i, k[i]>>]
    <3>1. k[i] = h[i]
      BY <2>4
    <3>2. CASE i < n
      <4>1. k[i + 1] = h[i + 1]
        BY <3>2
      <4> QED BY <1>2, <3>1, <3>2, <4>1 DEF Approx
    <3>3. CASE i = n
      <4>1. n + 1 \in 0 .. n + 1 /\ ~(n + 1 <= n)
        OBVIOUS
      <4>2. k[n + 1] = g[<<n, h[n]>>]
        BY <4>1
      <4> HIDE DEF k
      <4> QED BY <3>1, <3>3, <4>2
    <3> QED BY <2>4, <3>2, <3>3
  <2> HIDE DEF k
  <2>5. \A i \in Nat : i < n + 1 => k[i + 1] = g[<<i, k[i]>>]
    BY <2>4
  <2>6. A(k, n + 1)
    BY <2>3, <2>5 DEF Approx
  <2> QED BY <2>6
<1>3. Nat \subseteq T
  <2>1. 0 \in T
    BY <1>1
  <2>2. ASSUME NEW n \in Nat, n \in T PROVE n + 1 \in T
    <3>1. PICK h : A(h, n)
      BY <2>2
    <3> QED BY <1>2, <3>1
  <2> HIDE DEF T
  <2> QED BY <2>1, <2>2, Induction
<1>4. \A n \in Nat : A(H(n), n)
  BY <1>3
<1>5. ASSUME NEW n \in Nat, NEW h, NEW k, A(h, n), A(k, n + 1)
      PROVE  h[n] = k[n]
  <2> DEFINE U == {i \in Nat : i <= n => h[i] = k[i]}
  <2>1. 0 \in U
    BY <1>5 DEF Approx
  <2>2. ASSUME NEW i \in Nat, i \in U PROVE i + 1 \in U
    <3>1. CASE i < n
      <4>1. h[i + 1] = g[<<i, h[i]>>] /\ k[i + 1] = g[<<i, k[i]>>]
        BY <1>5, <3>1 DEF Approx
      <4> QED BY <2>2, <3>1, <4>1
    <3> QED BY <3>1
  <2>3. Nat \subseteq U
    <3> HIDE DEF U
    <3> QED BY <2>1, <2>2, Induction
  <2> QED BY <2>3
<1> HIDE DEF H
<1>6. \A n \in Nat : f[n] \in S
  BY <1>4 DEF Approx
<1>7. f[0] = x
  BY <1>4 DEF Approx
<1>8. ASSUME NEW n \in Nat PROVE f[n + 1] = g[<<n, f[n]>>]
  <2>1. H(n + 1)[n + 1] = g[<<n, H(n + 1)[n]>>]
    BY <1>4 DEF Approx
  <2>2. H(n)[n] = H(n + 1)[n]
    BY <1>4, <1>5
  <2> QED BY <2>1, <2>2
<1> QED BY <1>6, <1>7, <1>8 DEF Unfolds
-----------------------------------------------------------------------------
(* What is assumed of the cells.                                           *)
LEMMA Sizes ==
  /\ Base \in Nat /\ Base > 1 /\ Width \in Nat /\ Width > 0
  /\ Cell \subseteq Nat
BY MessageAssumption DEF Cell

(* The powers of Base, by their recursion.                                 *)
LEMMA PowerIs ==
  /\ Power \in [Nat -> Nat \ {0}]
  /\ Power[0] = 1
  /\ \A k \in Nat : Power[k + 1] = Base * Power[k]
<1> DEFINE S == Nat \ {0}
           g == [p \in Nat \X S |-> Base * p[2]]
           IsPower(f) == f = [k \in Nat |-> IF k = 0 THEN 1
                                            ELSE Base * f[k - 1]]
<1>1. ASSUME NEW j \in S PROVE Base * j \in S
  BY Sizes
<1>2. g \in [Nat \X S -> S]
  BY <1>1
<1>3. \E f : Unfolds(f, S, 1, g)
  <2>1. 1 \in S
    OBVIOUS
  <2> HIDE DEF g, S
  <2> QED BY <1>2, <2>1, Recursion
<1>4. PICK f : Unfolds(f, S, 1, g)
  BY <1>3
<1>5. f \in [Nat -> S] /\ f[0] = 1 /\ \A n \in Nat : f[n + 1] = Base * f[n]
  BY <1>4 DEF Unfolds
<1>6. IsPower(f)
  <2>1. ASSUME NEW k \in Nat, k # 0 PROVE f[k] = Base * f[k - 1]
    <3>1. k - 1 \in Nat /\ (k - 1) + 1 = k
      BY <2>1
    <3> QED BY <1>5, <3>1
  <2> QED BY <1>5, <2>1
<1>7. IsPower(Power)
  <2> HIDE DEF IsPower
  <2>1. Power = CHOOSE h : IsPower(h)
    BY DEF Power, IsPower
  <2> QED BY <1>6, <2>1
<1>8. Power[0] = 1 /\ \A k \in Nat : Power[k + 1] = Base * Power[k]
  <2>1. Power[0] = 1
    BY <1>7
  <2>2. ASSUME NEW k \in Nat PROVE Power[k + 1] = Base * Power[k]
    <3>1. k + 1 \in Nat /\ k + 1 # 0 /\ (k + 1) - 1 = k
      OBVIOUS
    <3> QED BY <1>7, <3>1
  <2> QED BY <2>1, <2>2
<1>9. Power \in [Nat -> S]
  <2> DEFINE T == {k \in Nat : Power[k] \in S}
  <2>1. 0 \in T
    BY <1>8
  <2>2. ASSUME NEW k \in Nat, k \in T PROVE k + 1 \in T
    BY <1>1, <1>8, <2>2
  <2>3. Nat \subseteq T
    <3> HIDE DEF T
    <3> QED BY <2>1, <2>2, Induction
  <2>4. Power = [k \in Nat |-> Power[k]]
    <3>1. DOMAIN Power = Nat
      BY <1>7
    <3> QED BY <1>7, <3>1
  <2> QED BY <2>3, <2>4
<1> QED BY <1>8, <1>9

(* The number that is left when n is shifted by 0, 1, 2... cells.          *)
IsShifted(s, n) ==
  /\ s \in [Nat -> Nat] /\ s[0] = n
  /\ \A k \in Nat : s[k + 1] = s[k] \div Base

(* PutUint takes the last cell of each of them.                            *)
LEMMA PutUintIs ==
  ASSUME NEW n \in Nat
  PROVE  \E s : /\ IsShifted(s, n)
                /\ PutUint(n) = [i \in 1 .. Width |-> s[Width - i] % Base]
<1> DEFINE g == [p \in Nat \X Nat |-> p[2] \div Base]
           Is(f) == f = [k \in Nat |-> IF k = 0 THEN n
                                       ELSE f[k - 1] \div Base]
<1>1. \A j \in Nat : j \div Base \in Nat
  BY Sizes
<1>2. g \in [Nat \X Nat -> Nat]
  BY <1>1
<1>3. \E f : Unfolds(f, Nat, n, g)
  <2> HIDE DEF g
  <2> QED BY <1>2, Recursion
<1>4. PICK f : Unfolds(f, Nat, n, g)
  BY <1>3
<1>5. /\ f \in [Nat -> Nat] /\ f[0] = n
      /\ \A k \in Nat : f[k + 1] = f[k] \div Base
  BY <1>4 DEF Unfolds
<1>6. Is(f)
  <2>1. ASSUME NEW k \in Nat, k # 0 PROVE f[k] = f[k - 1] \div Base
    <3>1. k - 1 \in Nat /\ (k - 1) + 1 = k
      BY <2>1
    <3> QED BY <1>5, <3>1
  <2> QED BY <1>5, <2>1
<1> DEFINE s == CHOOSE h : Is(h)
<1>7. Is(s)
  <2> HIDE DEF Is
  <2> QED BY <1>6
<1>8. PutUint(n) = [i \in 1 .. Width |-> s[Width - i] % Base]
  BY DEF PutUint
<1> HIDE DEF s
<1>9. s[0] = n /\ \A k \in Nat : s[k + 1] = s[k] \div Base
  <2>1. s[0] = n
    BY <1>7
  <2>2. ASSUME NEW k \in Nat PROVE s[k + 1] = s[k] \div Base
    <3>1. k + 1 \in Nat /\ k + 1 # 0 /\ (k + 1) - 1 = k
      OBVIOUS
    <3> QED BY <1>7, <3>1
  <2> QED BY <2>1, <2>2
<1>10. s \in [Nat -> Nat]
  <2> DEFINE T == {k \in Nat : s[k] \in Nat}
  <2>1. 0 \in T
    BY <1>9
  <2>2. ASSUME NEW k \in Nat, k \in T PROVE k + 1 \in T
    BY <1>1, <1>9, <2>2
  <2>3. Nat \subseteq T
    <3> HIDE DEF T
    <3> QED BY <2>1, <2>2, Induction
  <2>4. s = [k \in Nat |-> s[k]]
    <3>1. DOMAIN s = Nat
      BY <1>7
    <3> QED BY <1>7, <3>1
  <2> QED BY <2>3, <2>4
<1> QED BY <1>8, <1>9, <1>10 DEF IsShifted

(* Nothing is left of a number that fits in its cells.                     *)
LEMMA ShiftedFits ==
  ASSUME NEW n \in Nat, n < Max32, NEW s, IsShifted(s, n)
  PROVE  s[Width] = 0
<1> DEFINE T == {k \in Nat : k <= Width => s[k] < Power[Width - k]}
<1>1. 0 \in T
  BY Sizes DEF Max32, IsShifted
<1>2. ASSUME NEW k \in Nat, k \in T PROVE k + 1 \in T
  <2> SUFFICES ASSUME k + 1 <= Width
               PROVE  s[k + 1] < Power[Width - (k + 1)]
    OBVIOUS
  <2> DEFINE m == Width - (k + 1)
             a == s[k]
             p == Power[m]
  <2>1. m \in Nat /\ m + 1 = Width - k /\ k <= Width
    BY Sizes
  <2>2. Power[Width - k] = Base * p /\ p \in Nat /\ a \in Nat
    BY <2>1, PowerIs DEF IsShifted
  <2>3. a < Base * p
    BY <1>2, <2>1, <2>2
  <2>4. s[k + 1] = a \div Base
    BY DEF IsShifted
  <2> HIDE DEF a, p, m
  <2>5. a \div Base < p
    <3> DEFINE q == a \div Base
               r == a % Base
    <3>1. q \in Nat /\ r \in Nat
      BY <2>2, Sizes
    <3>2. a = q * Base + r
      BY <2>2, Sizes
    <3> HIDE DEF q, r
    <3>3. q * Base < Base * p
      BY <2>2, <2>3, <3>1, <3>2, Sizes
    <3>4. q < p
      BY <2>2, <3>1, <3>3, Sizes
    <3> QED BY <3>4 DEF q
  <2> QED BY <2>4, <2>5 DEF p, m
<1>3. Nat \subseteq T
  <2> HIDE DEF T
  <2> QED BY <1>1, <1>2, Induction
<1>4. s[Width] < Power[Width - Width]
  BY <1>3, Sizes
<1>5. Width - Width = 0 /\ s[Width] \in Nat
  BY Sizes DEF IsShifted
<1> QED BY <1>4, <1>5, PowerIs

(* A number takes Width cells.                                             *)
LEMMA PutUintType ==
  ASSUME NEW n \in Nat
  PROVE  PutUint(n) \in Seq(Cell) /\ Len(PutUint(n)) = Width
<1>1. PICK s : /\ IsShifted(s, n)
               /\ PutUint(n) = [i \in 1 .. Width |-> s[Width - i] % Base]
  BY PutUintIs
<1>2. \A i \in 1 .. Width : s[Width - i] % Base \in Cell
  <2> SUFFICES ASSUME NEW i \in 1 .. Width PROVE s[Width - i] % Base \in Cell
    OBVIOUS
  <2>1. Width - i \in Nat
    BY Sizes
  <2>2. s[Width - i] \in Nat
    BY <1>1, <2>1 DEF IsShifted
  <2> QED BY <2>2, Sizes DEF Cell
<1> QED BY <1>1, <1>2, Sizes

(* What is put in is what is got out.                                      *)
LEMMA PutGet ==
  ASSUME NEW n \in Nat, n < Max32
  PROVE  GetUint(PutUint(n)) = n
<1> DEFINE c == PutUint(n)
<1>1. PICK s : /\ IsShifted(s, n)
               /\ PutUint(n) = [i \in 1 .. Width |-> s[Width - i] % Base]
  BY PutUintIs
<1>2. c \in Seq(Cell) /\ Len(c) = Width
  BY PutUintType
<1>3. \A i \in 1 .. Width : c[i] = s[Width - i] % Base
  BY <1>1
<1> HIDE DEF c
<1> DEFINE Is(f) == f = [i \in 0 .. Len(c) |->
                           IF i = 0 THEN 0 ELSE f[i - 1] * Base + c[i]]
           w == [i \in 0 .. Width |-> s[Width - i]]
<1>4. ASSUME NEW i \in 1 .. Width
      PROVE  s[Width - i] = s[Width - (i - 1)] * Base + c[i]
  <2> DEFINE m == Width - i
             a == s[m]
             q == s[Width - (i - 1)]
             r == c[i]
  <2>1. m \in Nat /\ m + 1 = Width - (i - 1)
    BY Sizes
  <2>2. a \in Nat /\ q = a \div Base /\ r = a % Base
    BY <1>1, <1>3, <2>1 DEF IsShifted
  <2> HIDE DEF a, q, r
  <2>3. a = q * Base + r
    BY <2>2, Sizes
  <2> QED BY <2>3 DEF a, q, r
<1>5. Is(w)
  <2>1. w[0] = 0
    <3>1. Width - 0 = Width /\ 0 \in 0 .. Width
      BY Sizes
    <3> QED BY <1>1, <3>1, ShiftedFits
  <2>2. ASSUME NEW i \in 0 .. Width, i # 0
        PROVE  w[i] = w[i - 1] * Base + c[i]
    <3>1. i \in 1 .. Width /\ i - 1 \in 0 .. Width
      BY <2>2, Sizes
    <3> QED BY <1>4, <3>1
  <2>3. w = [i \in 0 .. Width |-> w[i]]
    OBVIOUS
  <2> HIDE DEF w
  <2> QED BY <1>2, <2>1, <2>2, <2>3
<1> DEFINE v == CHOOSE f : Is(f)
<1>6. Is(v)
  <2> HIDE DEF Is
  <2> QED BY <1>5
<1>7. GetUint(c) = v[Len(c)]
  BY DEF GetUint
<1> HIDE DEF v
<1> DEFINE T == {i \in Nat : i <= Width => v[i] = s[Width - i]}
<1>8. 0 \in T
  <2>1. Width - 0 = Width /\ 0 \in 0 .. Len(c)
    BY <1>2, Sizes
  <2> QED BY <1>1, <1>6, <2>1, ShiftedFits
<1>9. ASSUME NEW i \in Nat, i \in T PROVE i + 1 \in T
  <2> SUFFICES ASSUME i + 1 <= Width PROVE v[i + 1] = s[Width - (i + 1)]
    OBVIOUS
  <2>1. /\ i + 1 \in 0 .. Len(c) /\ i + 1 \in 1 .. Width
        /\ i + 1 # 0 /\ (i + 1) - 1 = i
    BY <1>2, Sizes
  <2>2. v[i + 1] = v[i] * Base + c[i + 1]
    BY <1>6, <2>1
  <2>3. v[i] = s[Width - i]
    BY <1>9, <2>1, Sizes
  <2>4. s[Width - (i + 1)] = s[Width - i] * Base + c[i + 1]
    BY <1>4, <2>1
  <2> QED BY <2>2, <2>3, <2>4
<1>10. Nat \subseteq T
  <2> HIDE DEF T
  <2> QED BY <1>8, <1>9, Induction
<1>11. v[Width] = s[Width - Width] /\ Width - Width = 0
  BY <1>10, Sizes
<1> QED BY <1>1, <1>2, <1>7, <1>11 DEF c, IsShifted

-----------------------------------------------------------------------------
(***************************************************************************)
(* What occurs in a sequence of cells after the first n of them.           *)
(***************************************************************************)
Occurs(s, d, n) ==
  n + Len(s) <= Len(d) /\ \A i \in 1 .. Len(s) : d[n + i] = s[i]

LEMMA OccursInItself == ASSUME NEW S, NEW s \in Seq(S) PROVE Occurs(s, s, 0)
BY LenProperties DEF Occurs

(* The parts of what occurs occur one after the other.                     *)
LEMMA OccursParts ==
  ASSUME NEW S, NEW s \in Seq(S), NEW t \in Seq(S), NEW d \in Seq(S),
         NEW n \in Nat, Occurs(s \o t, d, n)
  PROVE  Occurs(s, d, n) /\ Occurs(t, d, n + Len(s))
<1>1. /\ Len(s) \in Nat /\ Len(t) \in Nat /\ Len(d) \in Nat
      /\ Len(s \o t) = Len(s) + Len(t)
      /\ \A i \in 1 .. Len(s) + Len(t) :
           (s \o t)[i] = IF i <= Len(s) THEN s[i] ELSE t[i - Len(s)]
  BY ConcatProperties, LenProperties
<1>2. n + (Len(s) + Len(t)) <= Len(d)
      /\ \A i \in 1 .. Len(s) + Len(t) : d[n + i] = (s \o t)[i]
  BY <1>1 DEF Occurs
<1>3. ASSUME NEW i \in 1 .. Len(s) PROVE d[n + i] = s[i]
  BY <1>1, <1>2
<1>4. ASSUME NEW i \in 1 .. Len(t) PROVE d[(n + Len(s)) + i] = t[i]
  <2> DEFINE j == Len(s) + i
  <2>1. j \in 1 .. Len(s) + Len(t) /\ ~(j <= Len(s)) /\ j - Len(s) = i
        /\ n + j = (n + Len(s)) + i
    BY <1>1
  <2> HIDE DEF j
  <2> QED BY <1>1, <1>2, <2>1
<1> QED BY <1>1, <1>2, <1>3, <1>4 DEF Occurs

(* What occurs is what is cut out there.                                   *)
LEMMA OccursSub ==
  ASSUME NEW S, NEW s \in Seq(S), NEW d \in Seq(S), NEW n \in Nat,
         Occurs(s, d, n)
  PROVE  SubSeq(d, n + 1, n + Len(s)) = s
<1> DEFINE u == SubSeq(d, n + 1, n + Len(s))
<1>1. Len(s) \in Nat /\ Len(d) \in Nat
  BY LenProperties
<1>2. n + Len(s) <= Len(d) /\ \A i \in 1 .. Len(s) : d[n + i] = s[i]
  BY DEF Occurs
<1>3. \A i \in n + 1 .. n + Len(s) : d[i] \in S
  BY <1>1, <1>2, ElementOfSeq
<1>4. /\ u \in Seq(S)
      /\ Len(u) = IF n + 1 <= n + Len(s) THEN n + Len(s) - (n + 1) + 1 ELSE 0
      /\ \A i \in 1 .. n + Len(s) - (n + 1) + 1 : u[i] = d[n + 1 + i - 1]
  BY <1>1, <1>3, SubSeqProperties
<1> HIDE DEF u
<1>5. Len(u) = Len(s)
  BY <1>1, <1>4
<1>6. ASSUME NEW i \in 1 .. Len(s) PROVE u[i] = s[i]
  <2>1. i \in 1 .. n + Len(s) - (n + 1) + 1 /\ n + 1 + i - 1 = n + i
    BY <1>1
  <2> QED BY <1>2, <1>4, <2>1
<1>7. u = s
  BY <1>4, <1>5, <1>6, SeqEqual
<1> QED BY <1>7 DEF u

(* What occurs after m cells or more occurs in what follows the first m.   *)
LEMMA OccursInRest ==
  ASSUME NEW S, NEW s \in Seq(S), NEW d \in Seq(S), NEW m \in Nat,
         NEW n \in Nat, m <= n, Occurs(s, d, n)
  PROVE  /\ SubSeq(d, m + 1, Len(d)) \in Seq(S)
         /\ Len(SubSeq(d, m + 1, Len(d))) = Len(d) - m
         /\ Occurs(s, SubSeq(d, m + 1, Len(d)), n - m)
<1> DEFINE u == SubSeq(d, m + 1, Len(d))
<1>1. Len(s) \in Nat /\ Len(d) \in Nat
  BY LenProperties
<1>2. n + Len(s) <= Len(d) /\ \A i \in 1 .. Len(s) : d[n + i] = s[i]
  BY DEF Occurs
<1>3. \A i \in m + 1 .. Len(d) : d[i] \in S
  BY <1>1, ElementOfSeq
<1>4. /\ u \in Seq(S)
      /\ Len(u) = IF m + 1 <= Len(d) THEN Len(d) - (m + 1) + 1 ELSE 0
      /\ \A i \in 1 .. Len(d) - (m + 1) + 1 : u[i] = d[m + 1 + i - 1]
  BY <1>1, <1>3, SubSeqProperties
<1> HIDE DEF u
<1>5. Len(u) = Len(d) - m
  BY <1>1, <1>2, <1>4
<1>6. ASSUME NEW i \in 1 .. Len(s) PROVE u[(n - m) + i] = s[i]
  <2> DEFINE j == (n - m) + i
  <2>1. j \in 1 .. Len(d) - (m + 1) + 1 /\ m + 1 + j - 1 = n + i
    BY <1>1, <1>2
  <2> HIDE DEF j
  <2>2. u[j] = s[i]
    BY <1>2, <1>4, <2>1
  <2> QED BY <2>2 DEF j
<1>7. Occurs(s, u, n - m)
  BY <1>1, <1>2, <1>5, <1>6 DEF Occurs
<1> QED BY <1>4, <1>5, <1>7 DEF u

-----------------------------------------------------------------------------
(***************************************************************************)
(* A field is read as it was written, wherever it stands.                  *)
(***************************************************************************)
(* A field takes Width cells more than it holds.                           *)
LEMMA LengthyIs ==
  ASSUME NEW c \in Seq(Cell)
  PROVE  /\ Lengthy(c) \in Seq(Cell)
         /\ Len(Lengthy(c)) = Width + Len(c)
         /\ Len(c) \in Nat
<1>1. Len(c) \in Nat
  BY LenProperties
<1>2. PutUint(Len(c)) \in Seq(Cell) /\ Len(PutUint(Len(c))) = Width
  BY <1>1, PutUintType
<1> QED BY <1>1, <1>2, ConcatProperties DEF Lengthy

(* The length of a field, and its contents after it.                       *)
LEMMA LengthyParts ==
  ASSUME NEW c \in Seq(Cell), NEW d \in Seq(Cell), NEW n \in Nat,
         Occurs(Lengthy(c), d, n), Len(c) < Max32
  PROVE  /\ n + Width + Len(c) <= Len(d)
         /\ GetUint(SubSeq(d, n + 1, n + Width)) = Len(c)
         /\ SubSeq(d, n + Width + 1, n + Width + Len(c)) = c
<1>1. Len(c) \in Nat /\ Len(d) \in Nat /\ Len(Lengthy(c)) = Width + Len(c)
  BY LengthyIs, LenProperties
<1> DEFINE l == PutUint(Len(c))
<1>2. l \in Seq(Cell) /\ Len(l) = Width
  BY <1>1, PutUintType
<1>3. Lengthy(c) = l \o c
  BY DEF Lengthy
<1> HIDE DEF l
<1>4. Occurs(l, d, n) /\ Occurs(c, d, n + Width)
  BY <1>2, <1>3, OccursParts
<1>5. SubSeq(d, n + 1, n + Width) = l
  BY <1>2, <1>4, OccursSub
<1>6. SubSeq(d, (n + Width) + 1, (n + Width) + Len(c)) = c
  BY <1>4, Sizes, OccursSub
<1>7. GetUint(l) = Len(c)
  BY <1>1, PutGet DEF l
<1> QED BY <1>1, <1>4, <1>5, <1>6, <1>7 DEF Occurs

(* By the arithmetic of ints, for the fields of the body.                  *)
LEMMA FieldIs ==
  ASSUME NEW c \in Seq(Cell), NEW d \in Seq(Cell), NEW n \in Nat,
         Occurs(Lengthy(c), d, n), Len(c) < Max32
  PROVE  Field(d, n) = [how |-> "ok", cells |-> c, next |-> n + Width + Len(c)]
<1>1. Len(c) \in Nat /\ Len(d) \in Nat
  BY LenProperties
<1>2. /\ n + Width + Len(c) <= Len(d)
      /\ GetUint(SubSeq(d, n + 1, n + Width)) = Len(c)
      /\ SubSeq(d, n + Width + 1, n + Width + Len(c)) = c
  BY LengthyParts
<1>3. ~(n + Width > Len(d)) /\ ~(n + Width + Len(c) > Len(d))
  BY <1>1, <1>2, Sizes
<1> QED BY <1>2, <1>3 DEF Field

(* By that of uint32, for keys and values: below the limit nothing wraps.  *)
LEMMA KeyOrValueIs ==
  ASSUME NEW c \in Seq(Cell), NEW d \in Seq(Cell), NEW n \in Nat,
         NEW limit \in Nat, Occurs(Lengthy(c), d, n),
         n + Width + Len(c) <= limit, limit < Max32
  PROVE  KeyOrValue(d, n, limit) =
           [how |-> "ok", cells |-> c, next |-> n + Width + Len(c)]
<1>1. Len(c) \in Nat /\ Len(d) \in Nat /\ Max32 \in Nat
  BY LenProperties, PowerIs, Sizes DEF Max32
<1> DEFINE end == n + Width + Len(c)
<1>2. end \in Nat /\ end < Max32 /\ Len(c) < Max32
  BY <1>1, Sizes
<1>3. /\ end <= Len(d)
      /\ GetUint(SubSeq(d, n + 1, n + Width)) = Len(c)
      /\ SubSeq(d, n + Width + 1, end) = c
  BY <1>2, LengthyParts
<1>4. end % Max32 = end
  <2> HIDE DEF end
  <2> QED BY <1>1, <1>2
<1>5. /\ ~(n + Width > Len(d)) /\ ~(end > limit)
      /\ ~(end < n + Width \/ end > Len(d))
  BY <1>1, <1>3, Sizes
<1> QED BY <1>3, <1>4, <1>5 DEF KeyOrValue

-----------------------------------------------------------------------------
(***************************************************************************)
(* The metadata.                                                           *)
(***************************************************************************)
(* f has the sequences of which more and more of q are the parts.          *)
Partials(f, q) ==
  /\ f \in [Nat -> Seq(Cell)] /\ f[0] = <<>>
  /\ \A k \in Nat : k < Len(q) => f[k + 1] = f[k] \o q[k + 1]

(* The last of them is all of q.                                           *)
LEMMA FlattenIs ==
  ASSUME NEW q \in Seq(Seq(Cell))
  PROVE  \E f : Partials(f, q) /\ FlattenSeq(q) = f[Len(q)]
<1> DEFINE S == Seq(Cell)
           g == [p \in Nat \X S |->
                   IF p[1] < Len(q) THEN p[2] \o q[p[1] + 1] ELSE p[2]]
           Is(h) == h = [i \in 1 .. Len(q) |->
                           IF i = 1 THEN q[i] ELSE h[i - 1] \o q[i]]
<1>1. Len(q) \in Nat /\ \A i \in 1 .. Len(q) : q[i] \in S
  BY LenProperties, ElementOfSeq
<1>2. \A s, t \in S : s \o t \in S
  BY ConcatProperties
<1>3. g \in [Nat \X S -> S]
  <2> SUFFICES ASSUME NEW n \in Nat, NEW s \in S
               PROVE  (IF n < Len(q) THEN s \o q[n + 1] ELSE s) \in S
    OBVIOUS
  <2>1. n < Len(q) => q[n + 1] \in S
    BY <1>1
  <2> HIDE DEF S
  <2> QED BY <1>2, <2>1
<1>4. \E f : Unfolds(f, S, <<>>, g)
  <2>1. <<>> \in S
    BY EmptySeq
  <2> HIDE DEF g, S
  <2> QED BY <1>3, <2>1, Recursion
<1>5. PICK f : Unfolds(f, S, <<>>, g)
  BY <1>4
<1>6. f \in [Nat -> S] /\ f[0] = <<>>
  BY <1>5 DEF Unfolds
<1>7. ASSUME NEW n \in Nat, n < Len(q) PROVE f[n + 1] = f[n] \o q[n + 1]
  <2>1. f[n] \in S /\ f[n + 1] = g[<<n, f[n]>>]
    BY <1>5 DEF Unfolds
  <2> HIDE DEF S
  <2> QED BY <1>7, <2>1
<1>8. Partials(f, q)
  BY <1>6, <1>7 DEF Partials
<1>9. CASE Len(q) = 0
  <2>1. q = <<>>
    BY <1>9, EmptySeq
  <2> QED BY <1>6, <1>8, <1>9, <2>1 DEF FlattenSeq
<1>10. CASE Len(q) # 0
  <2> DEFINE w == [i \in 1 .. Len(q) |-> f[i]]
             v == CHOOSE h : Is(h)
             T == {i \in Nat : i + 1 <= Len(q) => v[i + 1] = f[i + 1]}
  <2>1. f[1] = q[1]
    <3>1. f[0 + 1] = f[0] \o q[0 + 1]
      <4>1. 0 \in Nat /\ 0 < Len(q)
        BY <1>1, <1>10
      <4> QED BY <1>7, <4>1
    <3>2. q[1] \in S
      BY <1>1, <1>10
    <3> QED BY <1>6, <3>1, <3>2, ConcatEmptySeq
  <2>2. ASSUME NEW i \in 1 .. Len(q), i # 1 PROVE f[i] = f[i - 1] \o q[i]
    <3>1. i - 1 \in Nat /\ i - 1 < Len(q) /\ (i - 1) + 1 = i
      BY <1>1, <2>2
    <3> QED BY <1>7, <3>1
  <2>3. Is(w)
    <3>1. \A i \in 1 .. Len(q) :
            w[i] = IF i = 1 THEN q[i] ELSE w[i - 1] \o q[i]
      <4> TAKE i \in 1 .. Len(q)
      <4>1. CASE i = 1
        BY <2>1, <4>1
      <4>2. CASE i # 1
        <5>1. i - 1 \in 1 .. Len(q)
          BY <1>1, <4>2
        <5> QED BY <2>2, <4>2, <5>1
      <4> QED BY <4>1, <4>2
    <3>2. w = [i \in 1 .. Len(q) |-> w[i]]
      OBVIOUS
    <3> HIDE DEF w
    <3> QED BY <3>1, <3>2
  <2>4. Is(v)
    <3> HIDE DEF Is
    <3> QED BY <2>3
  <2>5. FlattenSeq(q) = v[Len(q)]
    BY <1>10 DEF FlattenSeq
  <2> HIDE DEF v
  <2>6. 0 \in T
    <3>1. 1 \in 1 .. Len(q)
      BY <1>1, <1>10
    <3> QED BY <2>1, <2>4, <3>1
  <2>7. ASSUME NEW i \in Nat, i \in T PROVE i + 1 \in T
    <3> SUFFICES ASSUME (i + 1) + 1 <= Len(q)
                 PROVE  v[(i + 1) + 1] = f[(i + 1) + 1]
      OBVIOUS
    <3> DEFINE j == (i + 1) + 1
    <3>1. j \in 1 .. Len(q) /\ j # 1 /\ j - 1 = i + 1 /\ i + 1 <= Len(q)
      BY <1>1
    <3>2. v[i + 1] = f[i + 1]
      BY <2>7, <3>1
    <3> HIDE DEF j
    <3>3. v[j] = v[j - 1] \o q[j]
      BY <2>4, <3>1
    <3>4. f[j] = f[j - 1] \o q[j]
      BY <2>2, <3>1
    <3>5. v[j] = f[j]
      BY <3>1, <3>2, <3>3, <3>4
    <3> QED BY <3>5 DEF j
  <2>8. Nat \subseteq T
    <3> HIDE DEF T
    <3> QED BY <2>6, <2>7, Induction
  <2>9. Len(q) - 1 \in Nat /\ (Len(q) - 1) + 1 = Len(q)
    BY <1>1, <1>10
  <2>10. Len(q) - 1 \in T
    BY <2>8, <2>9
  <2>11. v[Len(q)] = f[Len(q)]
    BY <1>1, <2>9, <2>10
  <2> QED BY <1>8, <2>5, <2>11
<1> QED BY <1>9, <1>10

(* The next part begins where those before it end.                         *)
LEMMA PrefixesOccur ==
  ASSUME NEW q \in Seq(Seq(Cell)), NEW f, Partials(f, q),
         NEW d \in Seq(Cell), Occurs(f[Len(q)], d, 0),
         NEW k \in Nat, k < Len(q)
  PROVE  /\ Len(f[k]) \in Nat
         /\ Len(f[k + 1]) = Len(f[k]) + Len(q[k + 1])
         /\ Len(f[k + 1]) <= Len(f[Len(q)])
         /\ Occurs(q[k + 1], d, Len(f[k]))
<1> DEFINE N == Len(q)
           T == {j \in Nat : j <= N => /\ Occurs(f[N - j], d, 0)
                                       /\ Len(f[N - j]) <= Len(f[N])}
<1>1. N \in Nat /\ \A i \in 1 .. N : q[i] \in Seq(Cell)
  BY LenProperties, ElementOfSeq
<1>2. \A i \in Nat : f[i] \in Seq(Cell) /\ Len(f[i]) \in Nat
  BY LenProperties DEF Partials
<1>3. ASSUME NEW i \in Nat, i < N
      PROVE  /\ f[i + 1] = f[i] \o q[i + 1]
             /\ Len(f[i + 1]) = Len(f[i]) + Len(q[i + 1])
             /\ q[i + 1] \in Seq(Cell) /\ Len(q[i + 1]) \in Nat
  <2>1. q[i + 1] \in Seq(Cell)
    BY <1>1, <1>3
  <2>2. f[i + 1] = f[i] \o q[i + 1]
    BY <1>3 DEF Partials
  <2> QED BY <1>2, <2>1, <2>2, ConcatProperties, LenProperties
<1>4. ASSUME NEW i \in Nat, i < N, Occurs(f[i + 1], d, 0)
      PROVE  Occurs(f[i], d, 0) /\ Occurs(q[i + 1], d, Len(f[i]))
  <2>1. Occurs(f[i] \o q[i + 1], d, 0)
    BY <1>3, <1>4
  <2>2. Occurs(f[i], d, 0) /\ Occurs(q[i + 1], d, 0 + Len(f[i]))
    BY <1>2, <1>3, <1>4, <2>1, OccursParts
  <2>3. 0 + Len(f[i]) = Len(f[i])
    BY <1>2
  <2> QED BY <2>2, <2>3
<1>5. 0 \in T
  <2>1. N - 0 = N /\ Len(f[N]) <= Len(f[N])
    BY <1>1, <1>2
  <2> QED BY <2>1
<1>6. ASSUME NEW j \in Nat, j \in T PROVE j + 1 \in T
  <2> SUFFICES ASSUME j + 1 <= N
               PROVE  /\ Occurs(f[N - (j + 1)], d, 0)
                      /\ Len(f[N - (j + 1)]) <= Len(f[N])
    OBVIOUS
  <2> DEFINE i == N - (j + 1)
  <2>1. i \in Nat /\ i < N /\ i + 1 = N - j /\ j <= N
    BY <1>1
  <2> HIDE DEF i
  <2>2. Occurs(f[i + 1], d, 0) /\ Len(f[i + 1]) <= Len(f[N])
    BY <1>6, <2>1
  <2>3. Occurs(f[i], d, 0) /\ Len(f[i]) <= Len(f[N])
    <3>1. Occurs(f[i], d, 0)
      BY <1>4, <2>1, <2>2
    <3>2. Len(f[i + 1]) = Len(f[i]) + Len(q[i + 1]) /\ Len(q[i + 1]) \in Nat
      BY <1>3, <2>1
    <3>3. Len(f[i]) \in Nat /\ Len(f[N]) \in Nat
      BY <1>1, <1>2, <2>1
    <3>4. Len(f[i]) <= Len(f[N])
      <4> DEFINE a == Len(f[i])
                 b == Len(f[i + 1])
                 c == Len(f[N])
                 e == Len(q[i + 1])
      <4>1. b <= c /\ b = a + e /\ a \in Nat /\ c \in Nat /\ e \in Nat
        BY <2>2, <3>2, <3>3
      <4> HIDE DEF a, b, c, e
      <4>2. a <= c
        BY <4>1
      <4> QED BY <4>2 DEF a, c
    <3> QED BY <3>1, <3>4
  <2> QED BY <2>3 DEF i
<1>7. Nat \subseteq T
  <2> HIDE DEF T
  <2> QED BY <1>5, <1>6, Induction
<1> DEFINE j == N - (k + 1)
<1>8. j \in Nat /\ j <= N /\ N - j = k + 1
  BY <1>1
<1>9. Occurs(f[k + 1], d, 0) /\ Len(f[k + 1]) <= Len(f[N])
  <2>1. j \in T
    BY <1>7, <1>8
  <2> QED BY <1>8, <2>1
<1> QED BY <1>2, <1>3, <1>4, <1>9

(* The first n pairs of md, in the order of keys.                          *)
PairOf(md, k) == <<k, md[k]>>

PairsOf(md, keys, n) == [i \in 1 .. n |-> PairOf(md, keys[i])]

LEMMA ModPlus ==
  ASSUME NEW a \in Nat, NEW m \in Nat, a < m
  PROVE  (a + m) % m = a
OBVIOUS

LEMMA Max32Is == Max32 \in Nat /\ Max32 > 0
BY PowerIs, Sizes DEF Max32

(* A pair takes some cells.                                                *)
LEMMA PairIs ==
  ASSUME NEW k \in Seq(Cell), NEW v \in Seq(Cell)
  PROVE  /\ Pair(k, v) \in Seq(Cell)
         /\ Len(Pair(k, v)) = (Width + Len(k)) + (Width + Len(v))
         /\ Len(Pair(k, v)) \in Nat \ {0}
<1> DEFINE s == Lengthy(k)
           t == Lengthy(v)
<1>1. /\ s \in Seq(Cell) /\ Len(s) = Width + Len(k) /\ Len(k) \in Nat
      /\ t \in Seq(Cell) /\ Len(t) = Width + Len(v) /\ Len(v) \in Nat
  BY LengthyIs
<1>2. Pair(k, v) = s \o t
  BY DEF Pair
<1> HIDE DEF s, t
<1>3. s \o t \in Seq(Cell) /\ Len(s \o t) = Len(s) + Len(t)
  BY <1>1, ConcatProperties
<1> QED BY <1>1, <1>2, <1>3, Sizes

(* One iteration reads the pair that has been written there.               *)
ReadsPair(loop, l, d, k, v) ==
  NextPair(loop, l, d) =
    [how |-> "ok", next |-> loop.next + Len(Pair(k, v)),
     pairs |-> Append(loop.pairs, <<k, v>>)]

LEMMA NextPairIs ==
  ASSUME NEW k, NEW v, NEW d, NEW l, NEW loop,
         k \in Seq(Cell), v \in Seq(Cell), d \in Seq(Cell),
         l \in Nat, l < Max32, loop.next \in Nat,
         Occurs(Pair(k, v), d, loop.next), loop.next + Len(Pair(k, v)) <= l
  PROVE  ReadsPair(loop, l, d, k, v)
<1>1. /\ Lengthy(k) \in Seq(Cell) /\ Len(Lengthy(k)) = Width + Len(k)
      /\ Lengthy(v) \in Seq(Cell) /\ Len(k) \in Nat /\ Len(v) \in Nat
  BY LengthyIs
<1>2. Len(Pair(k, v)) = (Width + Len(k)) + (Width + Len(v))
  BY PairIs
<1> DEFINE n == loop.next
           end == n + Width + Len(k)
           after == n + Len(Pair(k, v))
           limit == (l + Max32 - Width) % Max32
<1>3. Occurs(Lengthy(k), d, n) /\ Occurs(Lengthy(v), d, n + Len(Lengthy(k)))
  BY <1>1, OccursParts DEF Pair
<1>4. /\ end \in Nat /\ end = n + Len(Lengthy(k))
      /\ end + Width + Len(v) = after
  <2> DEFINE a == Len(k)
             b == Len(v)
             c == Len(Lengthy(k))
             e == Len(Pair(k, v))
  <2>1. /\ a \in Nat /\ b \in Nat /\ c = Width + a
        /\ e = (Width + a) + (Width + b) /\ n \in Nat
    BY <1>1, <1>2
  <2> HIDE DEF a, b, c, e, n
  <2>2. /\ n + Width + a \in Nat /\ n + Width + a = n + c
        /\ n + Width + a + Width + b = n + e
    BY <2>1, Sizes
  <2> QED BY <2>2 DEF a, b, c, e
<1>5. limit = l - Width /\ l - Width \in Nat /\ l - Width < Max32
      /\ end <= l - Width
  <2> DEFINE a == l - Width
  <2>1. a \in Nat /\ a < Max32 /\ end <= a
    <3>1. end + Width + Len(v) <= l
      BY <1>4
    <3> HIDE DEF end
    <3> QED BY <1>1, <1>4, <3>1, Sizes, Max32Is
  <2>2. l + Max32 - Width = a + Max32
    BY Sizes, Max32Is
  <2> HIDE DEF a
  <2>3. (a + Max32) % Max32 = a
    BY <2>1, Max32Is, ModPlus
  <2> QED BY <2>1, <2>2, <2>3 DEF a
<1>6. KeyOrValue(d, n, l - Width) = [how |-> "ok", cells |-> k, next |-> end]
  BY <1>3, <1>5, KeyOrValueIs
<1>7. KeyOrValue(d, end, l) = [how |-> "ok", cells |-> v, next |-> after]
  <2>1. Occurs(Lengthy(v), d, end) /\ end + Width + Len(v) <= l
    BY <1>3, <1>4
  <2> HIDE DEF end, after
  <2>2. KeyOrValue(d, end, l) =
          [how |-> "ok", cells |-> v, next |-> end + Width + Len(v)]
    BY <1>4, <2>1, KeyOrValueIs
  <2> QED BY <1>4, <2>2
<1> DEFINE first == KeyOrValue(d, loop.next, limit)
           second == KeyOrValue(d, first.next, l)
<1>8. NextPair(loop, l, d) =
        IF first.how # "ok" THEN first ELSE IF second.how # "ok" THEN second
        ELSE [how |-> "ok", next |-> second.next,
              pairs |-> Append(loop.pairs, <<first.cells, second.cells>>)]
  BY DEF NextPair
<1> HIDE DEF end, after, limit
<1>9. first = [how |-> "ok", cells |-> k, next |-> end]
  BY <1>5, <1>6
<1>10. first.how = "ok" /\ first.cells = k /\ first.next = end
  BY <1>9
<1> HIDE DEF first
<1>11. second.how = "ok" /\ second.cells = v /\ second.next = after
  BY <1>7, <1>10
<1> HIDE DEF second
<1>12. NextPair(loop, l, d) = [how |-> "ok", next |-> after,
                               pairs |-> Append(loop.pairs, <<k, v>>)]
  BY <1>8, <1>10, <1>11
<1> QED BY <1>12 DEF after, ReadsPair

(* Metadata are read pair by pair, as they were written.                   *)
LEMMA DecodeMetadataIs ==
  ASSUME NEW K \in SUBSET Seq(Cell), NEW md \in [K -> Seq(Cell)],
         NEW keys \in Seq(K), NEW d \in Seq(Cell),
         Occurs(EncodeMetadata(md, keys), d, 0),
         Len(EncodeMetadata(md, keys)) < Max32
  PROVE  DecodeMetadata(Len(EncodeMetadata(md, keys)), d) =
           [how |-> "ok", next |-> Len(EncodeMetadata(md, keys)),
            pairs |-> PairsOf(md, keys, Len(keys))]
<1> DEFINE q == [i \in DOMAIN keys |-> Pair(keys[i], md[keys[i]])]
           N == Len(keys)
<1>1. /\ N \in Nat /\ DOMAIN keys = 1 .. N
      /\ \A i \in 1 .. N :
           keys[i] \in Seq(Cell) /\ md[keys[i]] \in Seq(Cell)
  BY LenProperties, ElementOfSeq
<1>2. ASSUME NEW i \in 1 .. N
      PROVE  /\ q[i] = Pair(keys[i], md[keys[i]])
             /\ q[i] \in Seq(Cell) /\ Len(q[i]) \in Nat \ {0}
  <2>1. q[i] = Pair(keys[i], md[keys[i]])
    BY <1>1
  <2> HIDE DEF q
  <2> QED BY <1>1, <2>1, PairIs
<1>3. q \in Seq(Seq(Cell)) /\ Len(q) = N
  <2>1. q = [i \in 1 .. N |-> q[i]]
    BY <1>1
  <2> HIDE DEF q
  <2> DEFINE C == Seq(Cell)
  <2>2. \A i \in 1 .. N : q[i] \in C
    BY <1>2
  <2>3. N \in Nat
    BY <1>1
  <2> HIDE DEF N, C
  <2>4. q \in [1 .. N -> C]
    BY <2>1, <2>2
  <2>5. q \in Seq(C) /\ Len(q) = N
    BY <2>3, <2>1, <2>4
  <2> QED BY <2>5 DEF C
<1>4. EncodeMetadata(md, keys) = FlattenSeq(q)
  BY DEF EncodeMetadata
<1> HIDE DEF q
<1>5. PICK f : Partials(f, q) /\ FlattenSeq(q) = f[N]
  BY <1>3, FlattenIs
<1> DEFINE l == Len(f[N])
<1>6. Occurs(f[Len(q)], d, 0) /\ l < Max32
  BY <1>3, <1>4, <1>5
<1>7. f[0] = <<>> /\ l \in Nat /\ \A i \in Nat : Len(f[i]) \in Nat
  BY <1>1, <1>5, LenProperties DEF Partials
<1>8. ASSUME NEW i \in Nat, i < N
      PROVE  /\ Len(f[i + 1]) = Len(f[i]) + Len(q[i + 1])
             /\ Len(f[i + 1]) <= l
             /\ Occurs(q[i + 1], d, Len(f[i]))
             /\ i + 1 \in 1 .. N /\ Len(q[i + 1]) \in Nat \ {0}
  <2>1. i < Len(q)
    BY <1>3, <1>8
  <2>2. i + 1 \in 1 .. N
    BY <1>1, <1>8
  <2> QED BY <1>2, <1>3, <1>5, <1>6, <2>1, <2>2, PrefixesOccur
(* The lengths grow: l iterations are enough.                              *)
<1>9. N <= l
  <2> DEFINE T == {i \in Nat : i <= N => i <= Len(f[i])}
  <2>1. 0 \in T
    BY <1>7
  <2>2. ASSUME NEW i \in Nat, i \in T PROVE i + 1 \in T
    <3> SUFFICES ASSUME i + 1 <= N PROVE i + 1 <= Len(f[i + 1])
      OBVIOUS
    <3>1. i < N /\ i <= Len(f[i])
      BY <1>1, <2>2
    <3> DEFINE a == Len(f[i])
               b == Len(f[i + 1])
               e == Len(q[i + 1])
    <3>2. b = a + e /\ a \in Nat /\ e \in Nat \ {0}
      BY <1>7, <1>8, <3>1
    <3>3. i <= a
      BY <3>1
    <3> HIDE DEF a, b, e
    <3>4. i + 1 <= b
      BY <3>2, <3>3
    <3> QED BY <3>4 DEF b
  <2>3. Nat \subseteq T
    <3> HIDE DEF T
    <3> QED BY <2>1, <2>2, Induction
  <2> QED BY <1>1, <2>3
(* After each iteration one pair more has been read.                       *)
<1> DEFINE State(i) == [how |-> "ok", next |-> Len(f[i]),
                        pairs |-> PairsOf(md, keys, i)]
           At(i) == IF i <= N THEN State(i) ELSE State(N)
           Is(h) == h = [i \in 0 .. l |->
                           IF i = 0
                           THEN [how |-> "ok", next |-> 0, pairs |-> <<>>]
                           ELSE Iterate(h[i - 1], l, d)]
           w == [i \in 0 .. l |-> At(i)]
<1>10. At(0) = [how |-> "ok", next |-> 0, pairs |-> <<>>]
  <2>1. Len(f[0]) = 0 /\ PairsOf(md, keys, 0) = <<>>
    BY <1>7 DEF PairsOf
  <2> QED BY <1>1, <2>1
<1>11. ASSUME NEW i \in Nat, i < N
       PROVE  Iterate(State(i), l, d) = State(i + 1)
  <2> DEFINE k == keys[i + 1]
             v == md[keys[i + 1]]
             n == Len(f[i])
             loop == State(i)
  <2>1. /\ k \in Seq(Cell) /\ v \in Seq(Cell) /\ q[i + 1] = Pair(k, v)
    BY <1>1, <1>2, <1>8, <1>11
  <2>2. /\ n \in Nat /\ Len(f[i + 1]) = n + Len(q[i + 1])
        /\ n + Len(q[i + 1]) <= l /\ Len(q[i + 1]) \in Nat \ {0}
        /\ Occurs(q[i + 1], d, n)
    BY <1>7, <1>8, <1>11
  <2>3. loop.how = "ok" /\ loop.next = n /\ loop.pairs = PairsOf(md, keys, i)
    OBVIOUS
  <2>4. n < l
    <3> DEFINE e == Len(q[i + 1])
    <3>1. n + e <= l /\ e \in Nat \ {0}
      BY <2>2
    <3> HIDE DEF n, l, e
    <3> QED BY <1>7, <2>2, <3>1
  <2> HIDE DEF loop, n, l, k, v
  <2>5. NextPair(loop, l, d) =
          [how |-> "ok", next |-> n + Len(q[i + 1]),
           pairs |-> Append(loop.pairs, <<k, v>>)]
    <3>1. /\ k \in Seq(Cell) /\ v \in Seq(Cell) /\ d \in Seq(Cell)
          /\ l \in Nat /\ l < Max32 /\ loop.next \in Nat
      BY <1>6, <1>7, <2>1, <2>2, <2>3
    <3>2. /\ Occurs(Pair(k, v), d, loop.next)
          /\ loop.next + Len(Pair(k, v)) <= l
      BY <2>1, <2>2, <2>3
    <3>3. ReadsPair(loop, l, d, k, v)
      BY <3>1, <3>2, NextPairIs
    <3> QED BY <2>1, <2>3, <3>3 DEF ReadsPair
  <2>6. Iterate(loop, l, d) = NextPair(loop, l, d)
    BY <2>3, <2>4 DEF Iterate
  <2>7. Append(PairsOf(md, keys, i), <<k, v>>) = PairsOf(md, keys, i + 1)
    <3> DEFINE s == PairsOf(md, keys, i)
               t == PairsOf(md, keys, i + 1)
               P == K \X Seq(Cell)
    <3>1. ASSUME NEW h \in 1 .. N
          PROVE  PairOf(md, keys[h]) \in P
      <4>1. keys[h] \in K /\ md[keys[h]] \in Seq(Cell)
        BY <3>1, <1>1, ElementOfSeq
      <4> QED BY <4>1 DEF PairOf
    <3>2. \A h \in 1 .. i + 1 : h \in 1 .. N
      BY <1>1, <1>11
    <3>3. PairOf(md, keys[i + 1]) = <<k, v>> /\ <<k, v>> \in P
      BY <1>8, <1>11, <3>1 DEF PairOf, k, v
    <3> HIDE DEF P
    <3>4. s \in Seq(P) /\ Len(s) = i /\ t \in Seq(P) /\ Len(t) = i + 1
      BY <3>1, <3>2 DEF PairsOf
    <3>5. /\ \A h \in 1 .. i : s[h] = t[h]
          /\ t[i + 1] = <<k, v>>
      BY <3>3 DEF PairsOf
    <3> HIDE DEF s, t
    <3>6. /\ Append(s, <<k, v>>) \in Seq(P)
          /\ Len(Append(s, <<k, v>>)) = i + 1
          /\ \A h \in 1 .. i : Append(s, <<k, v>>)[h] = s[h]
          /\ Append(s, <<k, v>>)[i + 1] = <<k, v>>
      BY <3>3, <3>4, AppendProperties
    <3>7. ASSUME NEW h \in 1 .. i + 1 PROVE Append(s, <<k, v>>)[h] = t[h]
      <4>1. h \in 1 .. i \/ h = i + 1
        OBVIOUS
      <4> QED BY <3>5, <3>6, <4>1
    <3>8. Append(s, <<k, v>>) = t
      BY <3>4, <3>6, <3>7, SeqEqual
    <3> QED BY <3>8 DEF s, t
  <2> QED BY <2>2, <2>3, <2>5, <2>6, <2>7 DEF loop
<1>12. Iterate(State(N), l, d) = State(N)
  BY <1>7 DEF Iterate
<1>13. ASSUME NEW i \in Nat PROVE At(i + 1) = Iterate(At(i), l, d)
  <2>1. CASE i < N
    <3>1. i <= N /\ i + 1 <= N
      BY <1>1, <2>1
    <3> HIDE DEF State
    <3> QED BY <1>11, <2>1, <3>1
  <2>2. CASE ~(i < N)
    <3>1. N \in Nat
      BY <1>1
    <3> HIDE DEF State, N
    <3>2. (i <= N => i = N) /\ ~(i + 1 <= N)
      BY <2>2, <3>1
    <3> QED BY <1>12, <3>2
  <2> QED BY <2>1, <2>2
<1> HIDE DEF At
<1>14. Is(w)
  <2>1. \A i \in 0 .. l :
          w[i] = IF i = 0 THEN [how |-> "ok", next |-> 0, pairs |-> <<>>]
                 ELSE Iterate(w[i - 1], l, d)
    <3> TAKE i \in 0 .. l
    <3>1. CASE i = 0
      BY <1>10, <3>1
    <3>2. CASE i # 0
      <4>1. i - 1 \in Nat /\ i - 1 \in 0 .. l /\ (i - 1) + 1 = i
        BY <1>7, <3>2
      <4>2. At((i - 1) + 1) = Iterate(At(i - 1), l, d)
        BY <1>13, <4>1
      <4>3. w[i] = At(i) /\ w[i - 1] = At(i - 1)
        BY <4>1
      <4> HIDE DEF w
      <4> QED BY <3>2, <4>1, <4>2, <4>3
    <3> QED BY <3>1, <3>2
  <2>2. w = [i \in 0 .. l |-> w[i]]
    OBVIOUS
  <2> HIDE DEF w
  <2> QED BY <2>1, <2>2
<1> DEFINE after == CHOOSE h : Is(h)
<1>15. Is(after)
  <2> HIDE DEF Is
  <2> QED BY <1>14
<1>16. DecodeMetadata(l, d) = after[l]
  BY DEF DecodeMetadata
<1> HIDE DEF after
<1> DEFINE T == {i \in Nat : i <= l => after[i] = At(i)}
<1>17. 0 \in T
  <2>1. 0 \in 0 .. l
    BY <1>7
  <2> QED BY <1>10, <1>15, <2>1
<1>18. ASSUME NEW i \in Nat, i \in T PROVE i + 1 \in T
  <2> SUFFICES ASSUME i + 1 <= l PROVE after[i + 1] = At(i + 1)
    OBVIOUS
  <2>1. i + 1 \in 0 .. l /\ i + 1 # 0 /\ (i + 1) - 1 = i /\ i <= l
    BY <1>7
  <2>2. after[i] = At(i)
    BY <1>18, <2>1
  <2>3. after[i + 1] = Iterate(after[i], l, d)
    BY <1>15, <2>1
  <2> QED BY <1>13, <2>2, <2>3
<1>19. Nat \subseteq T
  <2> HIDE DEF T
  <2> QED BY <1>17, <1>18, Induction
<1>20. after[l] = At(l)
  BY <1>7, <1>19
<1>21. At(l) = State(N)
  BY <1>1, <1>7, <1>9 DEF At
<1>22. DecodeMetadata(l, d) = State(N)
  BY <1>16, <1>20, <1>21
<1> QED BY <1>4, <1>5, <1>22

-----------------------------------------------------------------------------
(* A sequence of all the elements of a finite set.                         *)
LEMMA KeysAre ==
  ASSUME NEW K, IsFiniteSet(K), NEW keys \in SetToSeqs(K)
  PROVE  /\ keys \in Seq(K) /\ DOMAIN keys = 1 .. Len(keys)
         /\ Len(keys) \in Nat
         /\ \A i, j \in 1 .. Len(keys) : keys[i] = keys[j] => i = j
         /\ \A k \in K : \E i \in 1 .. Len(keys) : keys[i] = k
<1> DEFINE N == Cardinality(K)
           D == 1 .. N
<1>1. N \in Nat
  BY FS_CardinalityType
<1>2. IsFiniteSet(D) /\ Cardinality(D) = N
  <2>1. /\ IsFiniteSet(1 .. N)
        /\ Cardinality(1 .. N) = IF 1 > N THEN 0 ELSE N - 1 + 1
    <3> HIDE DEF N
    <3> QED BY <1>1, FS_Interval
  <2> HIDE DEF N
  <2> QED BY <1>1, <2>1
<1>3. keys \in [D -> K] /\ \A i, j \in D : i # j => keys[i] # keys[j]
  BY DEF SetToSeqs
<1> HIDE DEF N
<1>4. keys \in Injection(D, K)
  BY <1>3 DEF Injection, IsInjective
<1>5. keys \in Surjection(D, K)
  BY <1>2, <1>4, FS_Injection DEF N
<1>6. \A k \in K : \E i \in D : keys[i] = k
  BY <1>5 DEF Surjection
<1>7. keys \in Seq(K) /\ Len(keys) = N
  BY <1>1, <1>3
<1> QED BY <1>1, <1>3, <1>6, <1>7

(* The map that is made of the pairs of a map.                             *)
LEMMA MapOfIs ==
  ASSUME NEW K, IsFiniteSet(K), NEW S, NEW md \in [K -> S],
         NEW keys \in SetToSeqs(K)
  PROVE  MapOf(PairsOf(md, keys, Len(keys))) = md
<1> DEFINE N == Len(keys)
           pairs == PairsOf(md, keys, N)
<1>1. /\ N \in Nat /\ \A i \in 1 .. N : keys[i] \in K
      /\ \A i, j \in 1 .. N : keys[i] = keys[j] => i = j
      /\ \A k \in K : \E i \in 1 .. N : keys[i] = k
  BY KeysAre, ElementOfSeq
<1>2. DOMAIN pairs = 1 .. N
  BY DEF PairsOf
<1>3. \A i \in 1 .. N : pairs[i][1] = keys[i] /\ pairs[i][2] = md[keys[i]]
  BY DEF PairsOf, PairOf
<1> HIDE DEF pairs, N
<1> DEFINE IsLast(k, i) == /\ pairs[i][1] = k
                         /\ \A j \in DOMAIN pairs : pairs[j][1] = k => j <= i
           D == {p[1] : p \in ToSet(pairs)}
<1>4. D = K
  <2>1. ToSet(pairs) = {pairs[i] : i \in 1 .. N}
    BY <1>2 DEF ToSet
  <2> QED BY <1>1, <1>3, <2>1
<1>5. ASSUME NEW k \in K
      PROVE  pairs[CHOOSE i \in DOMAIN pairs : IsLast(k, i)][2] = md[k]
  <2>1. PICK i \in 1 .. N : keys[i] = k
    BY <1>1
  <2>2. IsLast(k, i)
    BY <1>1, <1>2, <1>3, <2>1
  <2> DEFINE c == CHOOSE j \in DOMAIN pairs : IsLast(k, j)
  <2>3. c \in DOMAIN pairs /\ IsLast(k, c)
    <3> HIDE DEF IsLast
    <3> QED BY <1>2, <2>2
  <2> HIDE DEF c
  <2>4. pairs[c][2] = md[k]
    BY <1>2, <1>3, <2>3
  <2> QED BY <2>4 DEF c
<1>6. MapOf(pairs) =
        [k \in D |-> pairs[CHOOSE i \in DOMAIN pairs : IsLast(k, i)][2]]
  BY DEF MapOf
<1>7. MapOf(pairs) = [k \in K |-> md[k]]
  <2> DEFINE V(k) == pairs[CHOOSE i \in DOMAIN pairs : IsLast(k, i)][2]
  <2>1. MapOf(pairs) = [k \in K |-> V(k)]
    BY <1>4, <1>6
  <2>2. \A k \in K : V(k) = md[k]
    BY <1>5
  <2> HIDE DEF V
  <2> QED BY <2>1, <2>2
<1> QED BY <1>7 DEF pairs, N

(* Metadata are cells.                                                     *)
LEMMA EncodeMetadataIs ==
  ASSUME NEW K \in SUBSET Seq(Cell), NEW md \in [K -> Seq(Cell)],
         NEW keys \in Seq(K)
  PROVE  EncodeMetadata(md, keys) \in Seq(Cell)
<1> DEFINE q == [i \in DOMAIN keys |-> Pair(keys[i], md[keys[i]])]
           N == Len(keys)
           C == Seq(Cell)
<1>1. N \in Nat /\ DOMAIN keys = 1 .. N
  BY LenProperties
<1>2. ASSUME NEW i \in 1 .. N PROVE Pair(keys[i], md[keys[i]]) \in C
  <2>1. keys[i] \in K
    BY ElementOfSeq
  <2>2. keys[i] \in Seq(Cell) /\ md[keys[i]] \in Seq(Cell)
    BY <2>1
  <2> QED BY <2>2, PairIs
<1>3. q \in Seq(C) /\ Len(q) = N
  <2>1. q = [i \in 1 .. N |-> q[i]] /\ \A i \in 1 .. N : q[i] \in C
    BY <1>1, <1>2
  <2> HIDE DEF q, N, C
  <2>2. q \in [1 .. N -> C]
    BY <2>1
  <2> QED BY <1>1, <2>1, <2>2
<1>4. PICK f : Partials(f, q) /\ FlattenSeq(q) = f[Len(q)]
  BY <1>3, FlattenIs
<1>5. EncodeMetadata(md, keys) = FlattenSeq(q)
  BY DEF EncodeMetadata
<1> HIDE DEF q
<1>6. f[Len(q)] \in Seq(Cell)
  BY <1>1, <1>3, <1>4 DEF Partials
<1> QED BY <1>4, <1>5, <1>6

-----------------------------------------------------------------------------
(***************************************************************************)
(* The body.                                                               *)
(***************************************************************************)
(* d is made of the fields p, e, t and l, which stand where they do.       *)
IsBody(d, p, e, t, l) ==
  /\ d = Lengthy(p) \o Lengthy(e) \o Lengthy(t) \o Lengthy(l)
  /\ d \in Seq(Cell)
  /\ Len(d) = (Width + Len(p)) + (Width + Len(e)) + (Width + Len(t))
                + (Width + Len(l))
  /\ Occurs(Lengthy(p), d, 0)
  /\ Occurs(Lengthy(e), d, Width + Len(p))
  /\ Occurs(Lengthy(t), d, (Width + Len(p)) + (Width + Len(e)))
  /\ Occurs(Lengthy(l), d, (Width + Len(p)) + (Width + Len(e))
                             + (Width + Len(t)))

(* Each field of a body follows the one before it.                         *)
LEMMA BodyParts ==
  ASSUME NEW p \in Seq(Cell), NEW e \in Seq(Cell), NEW t \in Seq(Cell),
         NEW l \in Seq(Cell)
  PROVE  IsBody(Lengthy(p) \o Lengthy(e) \o Lengthy(t) \o Lengthy(l),
                  p, e, t, l)
<1> DEFINE a == Lengthy(p)
           b == Lengthy(e)
           c == Lengthy(t)
           g == Lengthy(l)
           d == a \o b \o c \o g
<1>1. /\ a \in Seq(Cell) /\ Len(a) = Width + Len(p) /\ Len(p) \in Nat
      /\ b \in Seq(Cell) /\ Len(b) = Width + Len(e) /\ Len(e) \in Nat
      /\ c \in Seq(Cell) /\ Len(c) = Width + Len(t) /\ Len(t) \in Nat
      /\ g \in Seq(Cell) /\ Len(g) = Width + Len(l) /\ Len(l) \in Nat
  BY LengthyIs
<1> HIDE DEF a, b, c, g
<1>2. /\ a \o b \in Seq(Cell) /\ Len(a \o b) = Len(a) + Len(b)
      /\ (a \o b) \o c \in Seq(Cell)
      /\ Len((a \o b) \o c) = Len(a) + Len(b) + Len(c)
      /\ d \in Seq(Cell) /\ Len(d) = Len(a) + Len(b) + Len(c) + Len(g)
  <2>1. a \o b \in Seq(Cell) /\ Len(a \o b) = Len(a) + Len(b)
    BY <1>1, ConcatProperties
  <2>2. /\ (a \o b) \o c \in Seq(Cell)
        /\ Len((a \o b) \o c) = Len(a \o b) + Len(c)
    BY <1>1, <2>1, ConcatProperties
  <2>3. d \in Seq(Cell) /\ Len(d) = Len((a \o b) \o c) + Len(g)
    BY <1>1, <2>2, ConcatProperties
  <2> QED BY <2>1, <2>2, <2>3
<1>3. Occurs(d, d, 0)
  BY <1>2, OccursInItself
<1>4. /\ Occurs((a \o b) \o c, d, 0)
      /\ Occurs(g, d, 0 + (Len(a) + Len(b) + Len(c)))
  BY <1>1, <1>2, <1>3, OccursParts
<1>5. Occurs(a \o b, d, 0) /\ Occurs(c, d, 0 + (Len(a) + Len(b)))
  BY <1>1, <1>2, <1>4, OccursParts
<1>6. Occurs(a, d, 0) /\ Occurs(b, d, 0 + Len(a))
  BY <1>1, <1>2, <1>5, OccursParts
<1>7. /\ 0 + (Len(a) + Len(b) + Len(c)) =
           (Width + Len(p)) + (Width + Len(e)) + (Width + Len(t))
      /\ 0 + (Len(a) + Len(b)) = (Width + Len(p)) + (Width + Len(e))
      /\ 0 + Len(a) = Width + Len(p)
  BY <1>1, Sizes
<1> QED
  BY <1>1, <1>2, <1>4, <1>5, <1>6, <1>7 DEF IsBody, a, b, c, g

(* A body is decoded into the message it was made of, whatever is in its   *)
(* fields.                                                                 *)
MessageOf(h, p, e, md, l) ==
  [header |-> h, path |-> p, method |-> e, metadata |-> md, payload |-> l]

DecodesTo(d, h, m) ==
  DecodeBody([NewMessage EXCEPT !.header = h], d) = Result("nil", m)

LEMMA DecodeBodyIs ==
  ASSUME NEW h, NEW p, NEW e, NEW l, NEW K, NEW md, NEW keys, NEW d,
         p \in Seq(Cell), e \in Seq(Cell), l \in Seq(Cell),
         K \in SUBSET Seq(Cell), IsFiniteSet(K), md \in [K -> Seq(Cell)],
         keys \in SetToSeqs(K),
         IsBody(d, p, e, EncodeMetadata(md, keys), l), Len(d) < Max32
  PROVE  DecodesTo(d, h, MessageOf(h, p, e, md, l))
<1> DEFINE t == EncodeMetadata(md, keys)
           m == [NewMessage EXCEPT !.header = h]
           n1 == Width + Len(p)
           n2 == n1 + (Width + Len(e))
           n3 == n2 + (Width + Len(t))
           n4 == n3 + (Width + Len(l))
           rest == SubSeq(d, n2 + Width + 1, Len(d))
<1>1. keys \in Seq(K)
  BY KeysAre
<1>2. t \in Seq(Cell)
  BY <1>1, EncodeMetadataIs
<1>3. /\ Len(p) \in Nat /\ Len(e) \in Nat /\ Len(t) \in Nat /\ Len(l) \in Nat
      /\ n1 \in Nat /\ n2 \in Nat /\ n3 \in Nat /\ n4 \in Nat /\ Max32 \in Nat
  BY <1>2, LenProperties, Sizes, Max32Is
<1>4. /\ d \in Seq(Cell) /\ Len(d) = n4
      /\ Occurs(Lengthy(p), d, 0) /\ Occurs(Lengthy(e), d, n1)
      /\ Occurs(Lengthy(t), d, n2) /\ Occurs(Lengthy(l), d, n3)
  BY DEF IsBody
<1>5. /\ Len(p) < Max32 /\ Len(e) < Max32 /\ Len(t) < Max32 /\ Len(l) < Max32
      /\ 0 + Width + Len(p) = n1 /\ n1 + Width + Len(e) = n2
      /\ n2 + Width + Len(t) = n3 /\ n3 + Width + Len(l) = n4
  BY <1>3, <1>4, Sizes
<1> HIDE DEF n1, n2, n3, n4
<1>6. Field(d, 0) = [how |-> "ok", cells |-> p, next |-> n1]
  <2>1. Field(d, 0) = [how |-> "ok", cells |-> p, next |-> 0 + Width + Len(p)]
    BY <1>4, <1>5, FieldIs
  <2> QED BY <1>5, <2>1
<1>7. Field(d, n1) = [how |-> "ok", cells |-> e, next |-> n2]
  BY <1>3, <1>4, <1>5, FieldIs
<1>8. Field(d, n2) = [how |-> "ok", cells |-> t, next |-> n3]
  BY <1>2, <1>3, <1>4, <1>5, FieldIs
<1>9. Field(d, n3) = [how |-> "ok", cells |-> l, next |-> n4]
  BY <1>3, <1>4, <1>5, FieldIs
<1>10. rest \in Seq(Cell) /\ Occurs(t, rest, 0)
  <2> DEFINE a == PutUint(Len(t))
             k == n2 + Width
  <2>1. a \in Seq(Cell) /\ Len(a) = Width
    BY <1>3, PutUintType
  <2>2. Occurs(a \o t, d, n2)
    BY <1>4 DEF Lengthy
  <2> HIDE DEF a
  <2>3. Occurs(t, d, k)
    BY <1>2, <1>3, <1>4, <2>1, <2>2, OccursParts
  <2>4. k \in Nat /\ k - k = 0 /\ k <= k
    BY <1>3, Sizes
  <2> HIDE DEF k
  <2>5. /\ SubSeq(d, k + 1, Len(d)) \in Seq(Cell)
        /\ Occurs(t, SubSeq(d, k + 1, Len(d)), k - k)
    BY <1>2, <1>4, <2>3, <2>4, OccursInRest
  <2> QED BY <2>4, <2>5 DEF k
<1>11. DecodeMetadata(Len(t), rest) =
         [how |-> "ok", next |-> Len(t),
          pairs |-> PairsOf(md, keys, Len(keys))]
  BY <1>1, <1>5, <1>10, DecodeMetadataIs
<1>12. MapOf(PairsOf(md, keys, Len(keys))) = md
  BY MapOfIs
<1> DEFINE path == Field(d, 0)
           m1 == [m EXCEPT !.path = path.cells]
           method == Field(d, path.next)
           m2 == [m1 EXCEPT !.method = method.cells]
           meta == Field(d, method.next)
           dm == DecodeMetadata(Len(meta.cells),
                                SubSeq(d, method.next + Width + 1, Len(d)))
           m3 == [m2 EXCEPT !.metadata = MapOf(dm.pairs)]
           payload == Field(d, meta.next)
           m4 == [m3 EXCEPT !.payload = payload.cells]
<1>13. DecodeBody(m, d) =
         IF path.how # "ok" THEN Result("nil", m)
         ELSE IF method.how # "ok" THEN Result("nil", m1)
         ELSE IF meta.how # "ok" THEN Result("nil", m2)
         ELSE IF dm.how = "missing" THEN Result("ErrMetaKVMissing", m2)
         ELSE IF dm.how = "panic" THEN Result("nil", m2)
         ELSE IF payload.how # "ok" THEN Result("nil", m3)
         ELSE Result("nil", m4)
  BY DEF DecodeBody
<1>14. path.how = "ok" /\ path.cells = p /\ path.next = n1
  BY <1>6
<1>15. method.how = "ok" /\ method.cells = e /\ method.next = n2
  <2> HIDE DEF path
  <2>1. method = [how |-> "ok", cells |-> e, next |-> n2]
    BY <1>7, <1>14
  <2> QED BY <2>1
<1>16. meta.how = "ok" /\ meta.cells = t /\ meta.next = n3
  <2> HIDE DEF method
  <2>1. meta = [how |-> "ok", cells |-> t, next |-> n3]
    BY <1>8, <1>15
  <2> QED BY <2>1
<1>17. payload.how = "ok" /\ payload.cells = l
  <2> HIDE DEF meta
  <2>1. payload = [how |-> "ok", cells |-> l, next |-> n4]
    BY <1>9, <1>16
  <2> QED BY <2>1
<1>18. dm.how = "ok" /\ MapOf(dm.pairs) = md
  <2> HIDE DEF method, meta
  <2>1. dm = [how |-> "ok", next |-> Len(t),
              pairs |-> PairsOf(md, keys, Len(keys))]
    BY <1>11, <1>15, <1>16
  <2> QED BY <1>12, <2>1
<1>19. m4 = MessageOf(h, p, e, md, l)
  <2> DEFINE z == <<>>
             g == [magic |-> MagicNumber, b2 |-> {}, b3 |-> {}, seq |-> 0]
  <2> HIDE DEF path, method, meta, dm, payload, m1, m2, m3, m4
  <2>1. m = MessageOf(h, z, z, NoMetadata, z)
    <3>1. NewMessage = MessageOf(g, z, z, NoMetadata, z)
      BY DEF NewMessage, MessageOf
    <3> HIDE DEF g, z
    <3> QED BY <3>1 DEF MessageOf
  <2> HIDE DEF m, z
  <2>2. m1 = MessageOf(h, p, z, NoMetadata, z)
    BY <1>14, <2>1 DEF m1, MessageOf
  <2>3. m2 = MessageOf(h, p, e, NoMetadata, z)
    BY <1>15, <2>2 DEF m2, MessageOf
  <2>4. m3 = MessageOf(h, p, e, md, z)
    <3> DEFINE x == MapOf(dm.pairs)
    <3>1. m3 = [m2 EXCEPT !.metadata = x] /\ x = md
      BY <1>18 DEF m3
    <3> HIDE DEF x
    <3> QED BY <2>3, <3>1 DEF MessageOf
  <2> QED BY <1>17, <2>4 DEF m4, MessageOf
<1> HIDE DEF path, method, meta, dm, payload, m, m1, m2, m3, m4
<1>20. DecodeBody(m, d) = Result("nil", m4)
  BY <1>13, <1>14, <1>15, <1>16, <1>17, <1>18
<1> QED BY <1>19, <1>20 DEF m, DecodesTo

-----------------------------------------------------------------------------
(***************************************************************************)
(* The frame.                                                              *)
(***************************************************************************)
(* A frame takes some cells.                                               *)
LEMMA FrameIs ==
  ASSUME NEW S, Cell \subseteq S, NEW m, m.header \in S, NEW meta,
         Body(m, meta) \in Seq(Cell)
  PROVE  /\ Frame(m, meta) \in Seq(S)
         /\ Len(Frame(m, meta)) = 1 + Width + Len(Body(m, meta))
         /\ Len(Frame(m, meta)) \in Nat \ {0}
<1> DEFINE body == Body(m, meta)
<1>1. Lengthy(body) \in Seq(Cell) /\ Len(Lengthy(body)) = Width + Len(body)
      /\ Len(body) \in Nat
  BY LengthyIs
<1>2. Lengthy(body) \in Seq(S)
  BY <1>1, SeqMonotonic
<1>3. <<m.header>> \in Seq(S) /\ Len(<<m.header>>) = 1
  OBVIOUS
<1>4. Frame(m, meta) = <<m.header>> \o Lengthy(body)
  BY DEF Frame
<1>5. /\ Frame(m, meta) \in Seq(S)
      /\ Len(Frame(m, meta)) = Len(<<m.header>>) + Len(Lengthy(body))
  BY <1>2, <1>3, <1>4, ConcatProperties
<1> HIDE DEF body
<1>6. Len(Frame(m, meta)) = 1 + Width + Len(body)
  BY <1>1, <1>3, <1>5, Sizes
<1> QED BY <1>1, <1>5, <1>6, Sizes DEF body

(* A frame at the beginning of a stream ends where its length says.        *)
LEMMA FrameParts ==
  ASSUME NEW S, Cell \subseteq S, NEW m, m.header \in S, NEW meta,
         Body(m, meta) \in Seq(Cell), Len(Body(m, meta)) < Max32,
         NEW s \in Seq(S), Occurs(Frame(m, meta), s, 0)
  PROVE  /\ Head(s) = m.header
         /\ BodyEnd(s) = Len(Frame(m, meta))
         /\ SubSeq(s, 2 + Width, BodyEnd(s)) = Body(m, meta)
<1> DEFINE body == Body(m, meta)
           one == <<m.header>>
           size == PutUint(Len(body))
           f == Frame(m, meta)
<1>1. /\ f \in Seq(S) /\ Len(f) = 1 + Width + Len(body)
      /\ Len(f) \in Nat \ {0}
  BY FrameIs
<1>2. Len(body) \in Nat /\ size \in Seq(Cell) /\ Len(size) = Width
      /\ Lengthy(body) \in Seq(Cell)
  BY LenProperties, PutUintType, LengthyIs
<1>3. size \in Seq(S) /\ body \in Seq(S) /\ Lengthy(body) \in Seq(S)
  BY <1>2, SeqMonotonic
<1>4. one \in Seq(S) /\ Len(one) = 1 /\ one[1] = m.header
  OBVIOUS
<1>5. f = one \o Lengthy(body) /\ Lengthy(body) = size \o body
  BY DEF Frame, Lengthy
<1>6. GetUint(size) = Len(body)
  BY <1>2, PutGet
<1>7. Occurs(f, s, 0)
  OBVIOUS
<1> HIDE DEF body, one, size, f
<1>8. Occurs(one, s, 0) /\ Occurs(Lengthy(body), s, 1)
  <2>1. Occurs(one, s, 0) /\ Occurs(Lengthy(body), s, 0 + Len(one))
    BY <1>3, <1>4, <1>5, <1>7, OccursParts
  <2>2. 0 + Len(one) = 1
    BY <1>4
  <2> QED BY <2>1, <2>2
<1>9. Occurs(size, s, 1) /\ Occurs(body, s, 1 + Width)
  BY <1>2, <1>3, <1>5, <1>8, OccursParts
<1>10. Head(s) = m.header
  <2>1. Len(s) \in Nat /\ 0 + 1 <= Len(s)
    BY <1>4, <1>8, LenProperties DEF Occurs
  <2>2. s[0 + 1] = one[1]
    BY <1>4, <1>8 DEF Occurs
  <2> QED BY <1>4, <2>2
<1>11. SubSeq(s, 2, 1 + Width) = size
  <2>1. SubSeq(s, 1 + 1, 1 + Width) = size
    BY <1>2, <1>3, <1>9, OccursSub
  <2> QED BY <2>1
<1>12. BodyEnd(s) = 1 + Width + Len(body)
  BY <1>6, <1>11 DEF BodyEnd
<1>13. SubSeq(s, 2 + Width, 1 + Width + Len(body)) = body
  <2>1. SubSeq(s, (1 + Width) + 1, (1 + Width) + Len(body)) = body
    <3>1. 1 + Width \in Nat
      BY Sizes
    <3> QED BY <1>3, <1>9, <3>1, OccursSub
  <2>2. (1 + Width) + 1 = 2 + Width
    BY Sizes
  <2> QED BY <2>1, <2>2
<1> QED BY <1>1, <1>10, <1>12, <1>13 DEF body, f

-----------------------------------------------------------------------------
Bytes == SUBSET (0 .. 7)

Headers == [magic : {MagicNumber}, b2 : Bytes, b3 : Bytes, seq : Seqs \cup {0}]

-----------------------------------------------------------------------------
(* The bits of the numbers that are put into a header.                     *)
LEMMA Weights ==
  /\ Weight[1] = 1 /\ Weight[2] = 2 /\ Weight[3] = 4 /\ Weight[4] = 8
  /\ Weight[5] = 16 /\ Weight[6] = 32 /\ Weight[7] = 64 /\ Weight[8] = 128
BY DEF Weight

LEMMA BitAt ==
  ASSUME NEW n \in 0 .. 15
  PROVE  /\ 0 \in Bits(n) <=> n % 2 = 1
         /\ 1 \in Bits(n) <=> (n \div 2) % 2 = 1
         /\ 2 \in Bits(n) <=> (n \div 4) % 2 = 1
         /\ 3 \in Bits(n) <=> (n \div 8) % 2 = 1
         /\ Bits(n) \subseteq 0 .. 3
<1> DEFINE Odd(w) == (n \div w) % 2 = 1
           Bit(i, w) == i \in Bits(n) <=> Odd(w)
<1>1. \A i \in 0 .. 7 : \A w : w = Weight[i + 1] => Bit(i, w)
  BY DEF Bits
<1>2. /\ Bit(0, 1) /\ Bit(1, 2) /\ Bit(2, 4) /\ Bit(3, 8)
      /\ Bit(4, 16) /\ Bit(5, 32) /\ Bit(6, 64) /\ Bit(7, 128)
  <2> HIDE DEF Bit
  <2> QED BY <1>1, Weights
<1>3. /\ n \div 1 = n /\ n \div 16 = 0 /\ n \div 32 = 0 /\ n \div 64 = 0
      /\ n \div 128 = 0
  OBVIOUS
<1>4. 4 \notin Bits(n) /\ 5 \notin Bits(n) /\ 6 \notin Bits(n)
        /\ 7 \notin Bits(n)
  BY <1>2, <1>3
<1>5. Bits(n) \subseteq 0 .. 7
  BY DEF Bits
<1> QED BY <1>2, <1>3, <1>4, <1>5

(* A number below 16 is the number of its bits.                            *)
LEMMA NumberOfBits ==
  ASSUME NEW n \in 0 .. 15
  PROVE  Number(Bits(n)) = n
<1> DEFINE a == n % 2
           b == (n \div 2) % 2
           c == (n \div 4) % 2
           d == (n \div 8) % 2
<1>1. /\ a \in {0, 1} /\ b \in {0, 1} /\ c \in {0, 1} /\ d \in {0, 1}
      /\ n = a + 2 * b + 4 * c + 8 * d
  OBVIOUS
<1>2. /\ 0 \in Bits(n) <=> a = 1
      /\ 1 \in Bits(n) <=> b = 1
      /\ 2 \in Bits(n) <=> c = 1
      /\ 3 \in Bits(n) <=> d = 1
  BY BitAt
<1> HIDE DEF a, b, c, d
<1> QED BY <1>1, <1>2 DEF Number

(* The number of a set depends on its first four elements only.            *)
LEMMA SameNumber ==
  ASSUME NEW S, NEW T, \A i \in 0 .. 3 : i \in S <=> i \in T
  PROVE  Number(S) = Number(T)
BY DEF Number

-----------------------------------------------------------------------------
(* Each setter sets its own field, and no other.                           *)
LEMMA SetHeartbeatSets ==
  ASSUME NEW h \in Headers, NEW b \in BOOLEAN
  PROVE  /\ SetHeartbeat(h, b) \in Headers
         /\ Fields(SetHeartbeat(h, b)) = [Fields(h) EXCEPT !.heartbeat = b]
<1> DEFINE g == SetHeartbeat(h, b)
<1>1. /\ g \in Headers /\ g.b3 = h.b3 /\ g.seq = h.seq
      /\ \A i : i # 6 => (i \in g.b2 <=> i \in h.b2)
      /\ (6 \in g.b2) = b
  BY DEF SetHeartbeat, Headers, Bytes, Flagged
<1> HIDE DEF g
<1>2. MessageType(g) = MessageType(h)
  BY <1>1, SameNumber DEF MessageType
<1>3. MessageStatusType(g) = MessageStatusType(h)
  BY <1>1, SameNumber DEF MessageStatusType
<1>4. SerializeType(g) = SerializeType(h)
  BY <1>1 DEF SerializeType
<1>5. IsHeartbeat(g) = b /\ IsOneway(g) = IsOneway(h)
  BY <1>1 DEF IsHeartbeat, IsOneway
<1> QED BY <1>1, <1>2, <1>3, <1>4, <1>5 DEF Fields, g

LEMMA SetOnewaySets ==
  ASSUME NEW h \in Headers, NEW b \in BOOLEAN
  PROVE  /\ SetOneway(h, b) \in Headers
         /\ Fields(SetOneway(h, b)) = [Fields(h) EXCEPT !.oneway = b]
<1> DEFINE g == SetOneway(h, b)
<1>1. /\ g \in Headers /\ g.b3 = h.b3 /\ g.seq = h.seq
      /\ \A i : i # 5 => (i \in g.b2 <=> i \in h.b2)
      /\ (5 \in g.b2) = b
  BY DEF SetOneway, Headers, Bytes, Flagged
<1> HIDE DEF g
<1>2. MessageType(g) = MessageType(h)
  BY <1>1, SameNumber DEF MessageType
<1>3. MessageStatusType(g) = MessageStatusType(h)
  BY <1>1, SameNumber DEF MessageStatusType
<1>4. SerializeType(g) = SerializeType(h)
  BY <1>1 DEF SerializeType
<1>5. IsHeartbeat(g) = IsHeartbeat(h) /\ IsOneway(g) = b
  BY <1>1 DEF IsHeartbeat, IsOneway
<1> QED BY <1>1, <1>2, <1>3, <1>4, <1>5 DEF Fields, g

(* The type of a response stays.                                           *)
LEMMA SetMessageTypeSets ==
  ASSUME NEW h \in Headers, NEW mt \in {0, 1}
  PROVE  /\ SetMessageType(h, mt) \in Headers
         /\ Fields(SetMessageType(h, mt)) = WithType(Fields(h), mt)
<1> DEFINE g == SetMessageType(h, mt)
<1>1. Shifted(Bits(mt), 7) = IF mt = 1 THEN {7} ELSE {}
  <2>1. Bits(0) = {} /\ Bits(1) = {0}
    <3>1. /\ 0 \notin Bits(0) /\ 1 \notin Bits(0) /\ 2 \notin Bits(0)
          /\ 3 \notin Bits(0) /\ Bits(0) \subseteq 0 .. 3
      BY BitAt
    <3>2. /\ 0 \in Bits(1) /\ 1 \notin Bits(1) /\ 2 \notin Bits(1)
          /\ 3 \notin Bits(1) /\ Bits(1) \subseteq 0 .. 3
      BY BitAt
    <3> QED BY <3>1, <3>2
  <2> QED BY <2>1 DEF Shifted
<1>2. /\ g \in Headers /\ g.b3 = h.b3 /\ g.seq = h.seq
      /\ \A i : i # 7 => (i \in g.b2 <=> i \in h.b2)
      /\ 7 \in g.b2 <=> mt = 1 \/ 7 \in h.b2
  BY <1>1 DEF SetMessageType, Headers, Bytes
<1> HIDE DEF g
<1>3. \A x \in Headers : MessageType(x) = IF 7 \in x.b2 THEN 1 ELSE 0
  BY DEF MessageType, Number
<1>4. MessageType(g) = IF MessageType(h) = 1 THEN 1 ELSE mt
  BY <1>2, <1>3
<1>5. MessageStatusType(g) = MessageStatusType(h)
  BY <1>2, SameNumber DEF MessageStatusType
<1>6. SerializeType(g) = SerializeType(h)
  BY <1>2 DEF SerializeType
<1>7. IsHeartbeat(g) = IsHeartbeat(h) /\ IsOneway(g) = IsOneway(h)
  BY <1>2 DEF IsHeartbeat, IsOneway
<1> QED BY <1>2, <1>4, <1>5, <1>6, <1>7 DEF Fields, WithType, g

LEMMA SetMessageStatusTypeSets ==
  ASSUME NEW h \in Headers, NEW mt \in 0 .. 3
  PROVE  /\ SetMessageStatusType(h, mt) \in Headers
         /\ Fields(SetMessageStatusType(h, mt)) =
              [Fields(h) EXCEPT !.status = mt]
<1> DEFINE g == SetMessageStatusType(h, mt)
<1>1. /\ g \in Headers /\ g.b3 = h.b3 /\ g.seq = h.seq
      /\ \A i : i \notin {0, 1} => (i \in g.b2 <=> i \in h.b2)
      /\ \A i \in {0, 1} : i \in g.b2 <=> i \in Bits(mt)
  BY DEF SetMessageStatusType, Headers, Bytes
<1> HIDE DEF g
<1>2. MessageType(g) = MessageType(h)
  BY <1>1, SameNumber DEF MessageType
<1>3. MessageStatusType(g) = mt
  <2>1. 2 \notin Bits(mt) /\ 3 \notin Bits(mt)
    BY BitAt
  <2>2. Number(g.b2 \cap {0, 1}) = Number(Bits(mt))
    BY <1>1, <2>1, SameNumber
  <2> QED BY <2>2, NumberOfBits DEF MessageStatusType
<1>4. SerializeType(g) = SerializeType(h)
  BY <1>1 DEF SerializeType
<1>5. IsHeartbeat(g) = IsHeartbeat(h) /\ IsOneway(g) = IsOneway(h)
  BY <1>1 DEF IsHeartbeat, IsOneway
<1> QED BY <1>1, <1>2, <1>3, <1>4, <1>5 DEF Fields, g

LEMMA SetSerializeTypeSets ==
  ASSUME NEW h \in Headers, NEW st \in 0 .. 15
  PROVE  /\ SetSerializeType(h, st) \in Headers
         /\ Fields(SetSerializeType(h, st)) =
              [Fields(h) EXCEPT !.serialize = st]
<1> DEFINE g == SetSerializeType(h, st)
<1>1. /\ g \in Headers /\ g.b2 = h.b2 /\ g.seq = h.seq
      /\ \A i \in 4 .. 7 : i \in g.b3 <=> i - 4 \in Bits(st)
  BY DEF SetSerializeType, Shifted, Headers, Bytes
<1> HIDE DEF g
<1>2. SerializeType(g) = st
  <2>1. \A i \in 0 .. 3 :
          i \in {j - 4 : j \in g.b3 \cap 4 .. 7} <=> i \in Bits(st)
    BY <1>1
  <2>2. Number({j - 4 : j \in g.b3 \cap 4 .. 7}) = Number(Bits(st))
    BY <2>1, SameNumber
  <2> QED BY <2>2, NumberOfBits DEF SerializeType
<1>3. /\ MessageType(g) = MessageType(h) /\ IsHeartbeat(g) = IsHeartbeat(h)
      /\ IsOneway(g) = IsOneway(h)
      /\ MessageStatusType(g) = MessageStatusType(h)
  BY <1>1 DEF MessageType, IsHeartbeat, IsOneway, MessageStatusType
<1> QED BY <1>1, <1>2, <1>3 DEF Fields, g

LEMMA SetSeqSets ==
  ASSUME NEW h \in Headers, NEW n \in Seqs
  PROVE  /\ SetSeq(h, n) \in Headers
         /\ Fields(SetSeq(h, n)) = [Fields(h) EXCEPT !.seq = n]
<1> DEFINE g == SetSeq(h, n)
<1>1. g \in Headers /\ g.b2 = h.b2 /\ g.b3 = h.b3 /\ g.seq = n
  BY DEF SetSeq, Headers
<1> HIDE DEF g
<1>2. /\ MessageType(g) = MessageType(h) /\ IsHeartbeat(g) = IsHeartbeat(h)
      /\ IsOneway(g) = IsOneway(h)
      /\ MessageStatusType(g) = MessageStatusType(h)
      /\ SerializeType(g) = SerializeType(h)
  BY <1>1 DEF MessageType, IsHeartbeat, IsOneway, MessageStatusType,
              SerializeType
<1> QED BY <1>1, <1>2 DEF Fields, g

-----------------------------------------------------------------------------
(***************************************************************************)
(* A message that is made new.                                             *)
(***************************************************************************)
Makes ==
  SetFlags \/ SetTypes \/ SetOthers \/ WriteMessage \/ WriteIncomplete \/ Read

MakerSpec == Init /\ [][Makes]_vars

MakerInv == message.header \in Headers /\ HeaderAsAsked

LEMMA FreshHeader ==
  Fresh.header \in Headers /\ Fields(Fresh.header) = Nothing
<1>1. Fresh.header = [magic |-> MagicNumber, b2 |-> {}, b3 |-> {}, seq |-> 0]
  BY DEF Fresh, NewMessage
<1>2. Fields(Fresh.header) = Nothing
  <2> DEFINE h == Fresh.header
  <2>1. h.b2 = {} /\ h.b3 = {} /\ h.seq = 0
    BY <1>1
  <2> HIDE DEF h
  <2>2. Number({}) = 0
    BY DEF Number
  <2>3. MessageType(h) = 0 /\ SerializeType(h) = 0
    <3>1. {i - 7 : i \in h.b2 \cap {7}} = {}
      BY <2>1
    <3>2. {i - 4 : i \in h.b3 \cap 4 .. 7} = {}
      BY <2>1
    <3> QED BY <2>2, <3>1, <3>2 DEF MessageType, SerializeType
  <2>4. MessageStatusType(h) = 0
    <3>1. h.b2 \cap {0, 1} = {}
      BY <2>1
    <3> QED BY <2>2, <3>1 DEF MessageStatusType
  <2>5. IsHeartbeat(h) = FALSE /\ IsOneway(h) = FALSE
    BY <2>1 DEF IsHeartbeat, IsOneway
  <2> QED BY <2>1, <2>3, <2>4, <2>5 DEF Fields, Nothing, h
<1> QED BY <1>1, <1>2 DEF Headers, Bytes, MagicNumber

(* A setter that sets what is asked for.                                   *)
LEMMA SetKeeps ==
  ASSUME NEW h \in Headers, NEW wish, Fields(h) = wish, Set(h, wish)
  PROVE  MakerInv'
<1>1. message'.header = h /\ asked' = wish
  BY DEF Set
<1> QED BY <1>1 DEF MakerInv, HeaderAsAsked

LEMMA MakesKeeps ==
  ASSUME MakerInv, [Makes]_vars
  PROVE  MakerInv'
<1> DEFINE h == message.header
<1>1. h \in Headers /\ Fields(h) = asked
  BY DEF MakerInv, HeaderAsAsked
<1>2. CASE SetFlags
  BY <1>1, <1>2, SetHeartbeatSets, SetOnewaySets, SetKeeps DEF SetFlags
<1>3. CASE SetTypes
  <2>1. CASE \E mt \in {0, 1} :
               Set(SetMessageType(h, mt), WithType(asked, mt))
    <3>1. PICK mt \in {0, 1} :
            Set(SetMessageType(h, mt), WithType(asked, mt))
      BY <2>1
    <3>2. /\ SetMessageType(h, mt) \in Headers
          /\ Fields(SetMessageType(h, mt)) = WithType(asked, mt)
      BY <1>1, SetMessageTypeSets
    <3> QED BY <3>1, <3>2, SetKeeps
  <2>2. CASE \E s \in {0, 1} : Set(SetMessageStatusType(h, s),
                                   [asked EXCEPT !.status = s])
    <3>1. PICK s \in {0, 1} : Set(SetMessageStatusType(h, s),
                                  [asked EXCEPT !.status = s])
      BY <2>2
    <3>2. s \in 0 .. 3
      OBVIOUS
    <3>3. /\ SetMessageStatusType(h, s) \in Headers
          /\ Fields(SetMessageStatusType(h, s)) = [asked EXCEPT !.status = s]
      BY <1>1, <3>2, SetMessageStatusTypeSets
    <3> QED BY <3>1, <3>3, SetKeeps
  <2> QED BY <1>3, <2>1, <2>2 DEF SetTypes
<1>4. CASE SetOthers
  <2>1. CASE \E st \in SerializeTypes : Set(SetSerializeType(h, st),
                                            [asked EXCEPT !.serialize = st])
    BY <1>1, <2>1, SetSerializeTypeSets, SetKeeps, MessageAssumption
  <2>2. CASE \E n \in Seqs : Set(SetSeq(h, n), [asked EXCEPT !.seq = n])
    BY <1>1, <2>2, SetSeqSets, SetKeeps
  <2> QED BY <1>4, <2>1, <2>2 DEF SetOthers
<1>5. CASE WriteMessage \/ WriteIncomplete
  <2>1. message' = Fresh /\ asked' = Nothing
    BY <1>5 DEF WriteMessage, WriteIncomplete, Write
  <2> QED BY <2>1, FreshHeader DEF MakerInv, HeaderAsAsked
<1>6. CASE Read \/ UNCHANGED vars
  BY <1>6 DEF Read, vars, MakerInv, HeaderAsAsked
<1> QED BY <1>2, <1>3, <1>4, <1>5, <1>6 DEF Makes

(* Whatever is set, in whatever order and however often, the header of a   *)
(* message that has been made new holds what was asked for last, for any   *)
(* serialization type and number, and stays a response's once it is one:   *)
(* no setter touches the bits of another field (message.go:106, 170).      *)
THEOREM SettersDoNotInterfere == MakerSpec => []HeaderAsAsked
<1>1. Init => MakerInv
  BY FreshHeader DEF Init, MakerInv, HeaderAsAsked
<1>2. MakerInv /\ [Makes]_vars => MakerInv'
  BY MakesKeeps
<1>3. MakerInv => HeaderAsAsked
  BY DEF MakerInv
<1> QED BY <1>1, <1>2, <1>3, PTL DEF MakerSpec

-----------------------------------------------------------------------------
(***************************************************************************)
(* With the answers, which begin as clones of what has been read: their    *)
(* headers are right if messages are read as they were written.            *)
(***************************************************************************)
Messages ==
  [header : Headers, path : {Path}, method : {Method},
   metadata : Metadatas \cup {NoMetadata}, payload : Payloads \cup {<<>>}]

Records ==
  {r \in [message : Messages, asked : {Fields(h) : h \in Headers},
          whole : BOOLEAN] : Fields(r.message.header) = r.asked}

KeptInv ==
  /\ message \in Messages /\ HeaderAsAsked
  /\ written \in Seq(Records)
  /\ "of" \in DOMAIN read => read.of \in Records

LEMMA FreshMessage == Fresh \in Messages
<1> DEFINE h == Fresh.header
           e == <<>>
<1>1. NewMessage = [header |-> h, path |-> e, method |-> e,
                    metadata |-> NoMetadata, payload |-> e]
  BY DEF Fresh, NewMessage
<1>2. h \in Headers
  BY FreshHeader
<1> HIDE DEF h
<1>3. NewMessage \in [header : Headers, path : {e}, method : {e},
                     metadata : Metadatas \cup {NoMetadata},
                     payload : Payloads \cup {e}]
  <2> HIDE DEF e
  <2> QED BY <1>1, <1>2
<1> QED BY <1>3 DEF Fresh, Messages

LEMMA KeptInit == Init => KeptInv
<1> SUFFICES ASSUME Init PROVE KeptInv
  OBVIOUS
<1> QED
  BY FreshHeader, FreshMessage DEF Init, KeptInv, HeaderAsAsked

LEMMA KeptSet ==
  ASSUME KeptInv, SetFlags \/ SetTypes \/ SetOthers
  PROVE  KeptInv'
<1>1. MakerInv'
  BY MakesKeeps DEF KeptInv, MakerInv, Messages, Makes
<1>2. PICK h, wish : Set(h, wish)
  BY DEF SetFlags, SetTypes, SetOthers
<1>3. message' = [message EXCEPT !.header = h] /\ UNCHANGED <<written, read>>
  BY <1>2 DEF Set
<1>4. message' \in Messages
  BY <1>1, <1>3 DEF KeptInv, Messages, MakerInv
<1> QED BY <1>1, <1>3, <1>4 DEF KeptInv, MakerInv

LEMMA KeptWrite ==
  ASSUME KeptInv, NEW m \in Contents, NEW whole \in BOOLEAN, NEW frame,
         Write(m, whole, frame)
  PROVE  KeptInv'
<1>1. m \in Messages /\ m.header = message.header
  <2>1. PICK md \in Metadatas, pl \in Payloads : m = Filled(message, md, pl)
    BY DEF Contents
  <2> QED BY <2>1 DEF KeptInv, Messages, Filled
<1>2. [message |-> m, asked |-> asked, whole |-> whole] \in Records
  BY <1>1 DEF KeptInv, HeaderAsAsked, Records, Messages
<1>3. written' \in Seq(Records) /\ UNCHANGED read
  BY <1>2 DEF Write, KeptInv
<1>4. message' \in Messages /\ HeaderAsAsked'
  <2>1. message' = Fresh /\ asked' = Nothing
    BY DEF Write
  <2> QED BY <2>1, FreshHeader, FreshMessage DEF HeaderAsAsked
<1> QED BY <1>3, <1>4 DEF KeptInv

LEMMA KeptReply ==
  ASSUME KeptInv, ReadAsWritten, Reply
  PROVE  KeptInv'
<1>1. /\ read.of \in Records /\ read.message = read.of.message
      /\ message' = Clone(read.message) /\ asked' = read.of.asked
      /\ UNCHANGED <<written, read>>
  BY DEF Reply, KeptInv, ReadAsWritten
<1>2. message' \in Messages /\ message'.header = read.of.message.header
  BY <1>1 DEF Records, Messages, Clone
<1>3. Fields(message'.header) = asked'
  BY <1>1, <1>2 DEF Records
<1> QED BY <1>1, <1>2, <1>3 DEF KeptInv, HeaderAsAsked

LEMMA KeptRead ==
  ASSUME KeptInv, ReadAsWritten, Read
  PROVE  KeptInv'
<1>1. written # <<>> /\ written \in Seq(Records)
  BY DEF Read, ReadAsWritten, KeptInv
<1>2. read'.of = Head(written) /\ written' = Tail(written)
      /\ UNCHANGED <<message, asked>>
  BY DEF Read
<1>3. read'.of \in Records /\ written' \in Seq(Records)
  BY <1>1, <1>2
<1> QED BY <1>2, <1>3 DEF KeptInv, HeaderAsAsked

(* The header of every message, also of an answer, holds what was asked    *)
(* for last if messages are read as they were written: nothing but the     *)
(* framing of what is read reaches the headers of answers (server.go:412). *)
THEOREM HeadersFollow == Spec => ([]ReadAsWritten => []HeaderAsAsked)
<1>1. KeptInv /\ ReadAsWritten /\ [Next]_vars => KeptInv'
  <2> SUFFICES ASSUME KeptInv, ReadAsWritten, [Next]_vars PROVE KeptInv'
    OBVIOUS
  <2>1. CASE WriteMessage
    <3>1. PICK m \in Contents : \E frame : Write(m, TRUE, frame)
      BY <2>1 DEF WriteMessage
    <3> QED BY <3>1, KeptWrite
  <2>2. CASE WriteIncomplete
    <3>1. PICK m \in Contents : \E frame : Write(m, FALSE, frame)
      BY <2>2 DEF WriteIncomplete
    <3> QED BY <3>1, KeptWrite
  <2>3. CASE UNCHANGED vars
    BY <2>3 DEF vars, KeptInv, HeaderAsAsked
  <2> QED
    BY <2>1, <2>2, <2>3, KeptSet, KeptReply, KeptRead DEF Next
<1>2. KeptInv => HeaderAsAsked
  BY DEF KeptInv
<1> QED BY <1>1, <1>2, KeptInit, PTL DEF Spec

-----------------------------------------------------------------------------
Cells == Cell \cup Headers

(* The contents of a message are cells.                                    *)
LEMMA MessageIs ==
  ASSUME NEW m \in Messages
  PROVE  /\ m.header \in Headers /\ m.header.magic = MagicNumber
         /\ m.path = Path /\ m.path \in Seq(Cell)
         /\ m.method = Method /\ m.method \in Seq(Cell)
         /\ m.payload \in Seq(Cell)
         /\ m.metadata \in [DOMAIN m.metadata -> Seq(Cell)]
         /\ IsFiniteSet(DOMAIN m.metadata)
         /\ DOMAIN m.metadata \in SUBSET Seq(Cell)
         /\ m = MessageOf(m.header, m.path, m.method, m.metadata, m.payload)
<1>1. /\ m.header \in Headers /\ m.path = Path /\ m.method = Method
      /\ m.metadata \in Metadatas \cup {NoMetadata}
      /\ m.payload \in Payloads \cup {<<>>}
  BY DEF Messages
<1>2. m.payload \in Seq(Cell)
  BY <1>1, MessageAssumption, EmptySeq
<1>3. /\ m.metadata \in [DOMAIN m.metadata -> Seq(Cell)]
      /\ IsFiniteSet(DOMAIN m.metadata)
      /\ DOMAIN m.metadata \in SUBSET Seq(Cell)
  <2>1. CASE m.metadata \in Metadatas
    BY <2>1, MessageAssumption
  <2>2. CASE m.metadata = NoMetadata
    <3>1. DOMAIN NoMetadata = {} /\ NoMetadata \in [{} -> Seq(Cell)]
      BY DEF NoMetadata
    <3> QED BY <2>2, <3>1, FS_EmptySet
  <2> QED BY <1>1, <2>1, <2>2
<1>4. m = MessageOf(m.header, m.path, m.method, m.metadata, m.payload)
  BY DEF Messages, MessageOf
<1>5. m.header.magic = MagicNumber
  BY <1>1 DEF Headers
<1> QED BY <1>1, <1>2, <1>3, <1>4, <1>5, MessageAssumption

(* A whole frame at the beginning of a stream is decoded into its message. *)
LEMMA DecodeIs ==
  ASSUME NEW m \in Messages, NEW keys \in SetToSeqs(DOMAIN m.metadata),
         Len(Body(m, EncodeMetadata(m.metadata, keys))) < Max32,
         NEW s \in Seq(Cells), Occurs(Encode(m, keys), s, 0)
  PROVE  Decode(s) = Result("nil", m)
<1> DEFINE meta == EncodeMetadata(m.metadata, keys)
           body == Body(m, meta)
           K == DOMAIN m.metadata
           h == m.header
<1>1. /\ K \in SUBSET Seq(Cell) /\ IsFiniteSet(K)
      /\ m.metadata \in [K -> Seq(Cell)]
  BY MessageIs
<1>2. keys \in Seq(K)
  BY <1>1, KeysAre
<1>3. meta \in Seq(Cell)
  <2> HIDE DEF K
  <2> QED BY <1>1, <1>2, EncodeMetadataIs
<1>4. IsBody(body, m.path, m.method, meta, m.payload)
  <2> HIDE DEF meta
  <2> QED BY <1>3, MessageIs, BodyParts DEF Body
<1>5. body \in Seq(Cell) /\ Len(body) < Max32
  BY <1>4 DEF IsBody
<1>6. Head(s) = h /\ SubSeq(s, 2 + Width, BodyEnd(s)) = body
  <2>1. Cell \subseteq Cells /\ m.header \in Cells
    BY MessageIs DEF Cells
  <2>2. Occurs(Frame(m, meta), s, 0)
    BY DEF Encode
  <2> HIDE DEF meta
  <2> QED BY <1>5, <2>1, <2>2, FrameParts
<1>7. DecodeBody([NewMessage EXCEPT !.header = h], body)
        = Result("nil", MessageOf(h, m.path, m.method, m.metadata, m.payload))
  <2>1. /\ m.path \in Seq(Cell) /\ m.method \in Seq(Cell)
        /\ m.payload \in Seq(Cell)
    BY MessageIs
  <2> DEFINE p == m.path
             e == m.method
             l == m.payload
             md == m.metadata
  <2>2. /\ K \in SUBSET Seq(Cell) /\ IsFiniteSet(K)
        /\ md \in [K -> Seq(Cell)] /\ keys \in SetToSeqs(K)
        /\ p \in Seq(Cell) /\ e \in Seq(Cell) /\ l \in Seq(Cell)
        /\ IsBody(body, p, e, EncodeMetadata(md, keys), l)
        /\ Len(body) < Max32
    BY <1>1, <1>4, <1>5, <2>1
  <2> HIDE DEF body, h, K, p, e, l, md
  <2>3. DecodesTo(body, h, MessageOf(h, p, e, md, l))
    BY <2>2, DecodeBodyIs
  <2> QED BY <2>3 DEF DecodesTo, p, e, l, md
<1>8. h.magic = MagicNumber
  BY MessageIs
<1>9. Decode(s) = DecodeBody([NewMessage EXCEPT !.header = h], body)
  <2> HIDE DEF body, h
  <2> QED BY <1>6, <1>8 DEF Decode
<1>10. m = MessageOf(h, m.path, m.method, m.metadata, m.payload)
  BY MessageIs
<1> HIDE DEF body, h
<1> QED BY <1>7, <1>9, <1>10

-----------------------------------------------------------------------------
(***************************************************************************)
(* The stream.  Each message that has been written and not read has a      *)
(* frame in it, and the frames follow one another.                         *)
(***************************************************************************)
(* f is a frame of the message of r, with its own metadata if r is whole.  *)
FrameOf(f, r) ==
  \E meta \in Seq(Cell) :
    /\ f = Frame(r.message, meta)
    /\ Len(Body(r.message, meta)) < Max32
    /\ r.whole => \E keys \in SetToSeqs(DOMAIN r.message.metadata) :
                     meta = EncodeMetadata(r.message.metadata, keys)

(* The i-th frame of s, that of w[i], ends with cell at[i].                *)
FramesAt(s, w, at) ==
  /\ at \in [0 .. Len(w) -> Nat] /\ at[0] = 0 /\ at[Len(w)] = Len(s)
  /\ \A i, j \in 0 .. Len(w) : i <= j => at[i] <= at[j]
  /\ \A i \in 1 .. Len(w) :
       \E f : /\ FrameOf(f, w[i]) /\ Occurs(f, s, at[i - 1])
              /\ at[i] = at[i - 1] + Len(f)

StreamInv ==
  stream \in Seq(Cells) /\ \E at : FramesAt(stream, written, at)

(* Such a frame ends where Decode looks for the next one.                  *)
LEMMA FrameOfIs ==
  ASSUME NEW r \in Records, NEW f, FrameOf(f, r)
  PROVE  /\ f \in Seq(Cells) /\ Len(f) \in Nat \ {0}
         /\ \A s \in Seq(Cells) : Occurs(f, s, 0) =>
              /\ BodyEnd(s) = Len(f)
              /\ r.whole => Decode(s) = Result("nil", r.message)
<1> DEFINE m == r.message
<1>1. m \in Messages
  BY DEF Records
<1>2. PICK meta \in Seq(Cell) :
        /\ f = Frame(m, meta) /\ Len(Body(m, meta)) < Max32
        /\ r.whole => \E keys \in SetToSeqs(DOMAIN m.metadata) :
                         meta = EncodeMetadata(m.metadata, keys)
  BY DEF FrameOf
<1> HIDE DEF m
<1>3. Body(m, meta) \in Seq(Cell)
  <2>1. IsBody(Body(m, meta), m.path, m.method, meta, m.payload)
    BY <1>1, MessageIs, BodyParts DEF Body
  <2> QED BY <2>1 DEF IsBody
<1>4. Cell \subseteq Cells /\ m.header \in Cells
  BY <1>1, MessageIs DEF Cells
<1>5. f \in Seq(Cells) /\ Len(f) \in Nat \ {0}
  BY <1>2, <1>3, <1>4, FrameIs
<1>6. ASSUME NEW s \in Seq(Cells), Occurs(f, s, 0)
      PROVE  /\ BodyEnd(s) = Len(f)
             /\ r.whole => Decode(s) = Result("nil", m)
  <2>1. BodyEnd(s) = Len(f)
    BY <1>2, <1>3, <1>4, <1>6, FrameParts
  <2>2. ASSUME r.whole PROVE Decode(s) = Result("nil", m)
    <3>1. PICK keys \in SetToSeqs(DOMAIN m.metadata) :
            meta = EncodeMetadata(m.metadata, keys)
      BY <1>2, <2>2
    <3>2. Occurs(Encode(m, keys), s, 0)
      BY <1>2, <1>6, <3>1 DEF Encode
    <3>3. Len(Body(m, EncodeMetadata(m.metadata, keys))) < Max32
      BY <1>2, <3>1
    <3> QED BY <1>1, <3>2, <3>3, DecodeIs
  <2> QED BY <2>1, <2>2
<1> QED BY <1>5, <1>6 DEF m

(* What occurs in a sequence occurs there when it is continued.            *)
LEMMA OccursMore ==
  ASSUME NEW S, NEW s \in Seq(S), NEW t \in Seq(S)
  PROVE  /\ Occurs(t, s \o t, Len(s))
         /\ \A f \in Seq(S), n \in Nat :
              Occurs(f, s, n) => Occurs(f, s \o t, n)
<1>1. /\ Len(s) \in Nat /\ Len(t) \in Nat /\ Len(s \o t) = Len(s) + Len(t)
      /\ \A i \in 1 .. Len(s) + Len(t) :
           (s \o t)[i] = IF i <= Len(s) THEN s[i] ELSE t[i - Len(s)]
  BY ConcatProperties, LenProperties
<1>2. Occurs(t, s \o t, Len(s))
  <2>1. ASSUME NEW i \in 1 .. Len(t) PROVE (s \o t)[Len(s) + i] = t[i]
    <3> DEFINE j == Len(s) + i
    <3>1. /\ j \in 1 .. Len(s) + Len(t) /\ ~(j <= Len(s))
          /\ j - Len(s) = i
      BY <1>1
    <3> HIDE DEF j
    <3>2. (s \o t)[j] = t[i]
      BY <1>1, <3>1
    <3> QED BY <3>2 DEF j
  <2> QED BY <1>1, <2>1 DEF Occurs
<1>3. ASSUME NEW f \in Seq(S), NEW n \in Nat, Occurs(f, s, n)
      PROVE  Occurs(f, s \o t, n)
  <2>1. Len(f) \in Nat /\ n + Len(f) <= Len(s)
        /\ \A i \in 1 .. Len(f) : s[n + i] = f[i]
    BY <1>3, LenProperties DEF Occurs
  <2>2. ASSUME NEW i \in 1 .. Len(f) PROVE (s \o t)[n + i] = f[i]
    <3> DEFINE j == n + i
    <3>1. j \in 1 .. Len(s) + Len(t) /\ j <= Len(s)
      BY <1>1, <2>1
    <3>2. s[j] = f[i]
      BY <2>1
    <3> HIDE DEF j
    <3>3. (s \o t)[j] = f[i]
      BY <1>1, <3>1, <3>2
    <3> QED BY <3>3 DEF j
  <2>3. n + Len(f) <= Len(s \o t)
    BY <1>1, <2>1
  <2> QED BY <2>2, <2>3 DEF Occurs
<1> QED BY <1>2, <1>3

(* A frame that is written follows those that are there.                   *)
LEMMA FramesAfterWrite ==
  ASSUME NEW s \in Seq(Cells), NEW w \in Seq(Records), NEW at,
         FramesAt(s, w, at), NEW r \in Records, NEW f, FrameOf(f, r)
  PROVE  /\ s \o f \in Seq(Cells)
         /\ \E to : FramesAt(s \o f, Append(w, r), to)
<1> DEFINE N == Len(w)
           to == [i \in 0 .. N + 1 |->
                    IF i <= N THEN at[i] ELSE Len(s) + Len(f)]
           v == Append(w, r)
           u == s \o f
<1>1. f \in Seq(Cells) /\ Len(f) \in Nat \ {0}
  BY FrameOfIs
<1>2. /\ u \in Seq(Cells) /\ Len(u) = Len(s) + Len(f) /\ Len(s) \in Nat
      /\ Occurs(f, u, Len(s))
      /\ \A g \in Seq(Cells), n \in Nat : Occurs(g, s, n) => Occurs(g, u, n)
  BY <1>1, ConcatProperties, LenProperties, OccursMore
<1>3. /\ N \in Nat /\ Len(v) = N + 1
      /\ \A i \in 1 .. N : v[i] = w[i] /\ w[i] \in Records
      /\ v[N + 1] = r
  BY AppendProperties, LenProperties, ElementOfSeq
<1>4. /\ at \in [0 .. N -> Nat] /\ at[0] = 0 /\ at[N] = Len(s)
      /\ \A i, j \in 0 .. N : i <= j => at[i] <= at[j]
      /\ \A i \in 1 .. N :
           \E g : /\ FrameOf(g, w[i]) /\ Occurs(g, s, at[i - 1])
                  /\ at[i] = at[i - 1] + Len(g)
  BY DEF FramesAt
<1> HIDE DEF N, u, v
<1>5. /\ \A i \in 0 .. N : to[i] = at[i] /\ at[i] \in Nat /\ at[i] <= Len(s)
      /\ to[N + 1] = Len(s) + Len(f)
  BY <1>3, <1>4
<1>6. to \in [0 .. N + 1 -> Nat]
  BY <1>1, <1>2, <1>3, <1>4
<1> HIDE DEF to
<1>7. \A i, j \in 0 .. N + 1 : i <= j => to[i] <= to[j]
  <2> SUFFICES ASSUME NEW i \in 0 .. N + 1, NEW j \in 0 .. N + 1, i <= j
               PROVE  to[i] <= to[j]
    OBVIOUS
  <2>1. CASE j \in 0 .. N
    <3>1. i \in 0 .. N
      BY <1>3, <2>1
    <3> QED BY <1>4, <1>5, <2>1, <3>1
  <2>2. CASE j = N + 1
    <3>1. i \in 0 .. N \/ i = N + 1
      BY <1>3
    <3>2. CASE i \in 0 .. N
      <4>1. to[i] \in Nat /\ to[i] <= Len(s)
        BY <1>5, <3>2
      <4> QED BY <1>1, <1>2, <1>5, <2>2, <4>1
    <3>3. CASE i = N + 1
      BY <1>1, <1>2, <1>5, <2>2, <3>3
    <3> QED BY <3>1, <3>2, <3>3
  <2> QED BY <1>3, <2>1, <2>2
<1>8. ASSUME NEW i \in 1 .. N + 1
      PROVE  \E g : /\ FrameOf(g, v[i]) /\ Occurs(g, u, to[i - 1])
                    /\ to[i] = to[i - 1] + Len(g)
  <2>1. CASE i \in 1 .. N
    <3>1. PICK g : /\ FrameOf(g, w[i]) /\ Occurs(g, s, at[i - 1])
                   /\ at[i] = at[i - 1] + Len(g)
      BY <1>4, <2>1
    <3>2. g \in Seq(Cells)
      BY <1>3, <2>1, <3>1, FrameOfIs
    <3>3. i \in 0 .. N /\ i - 1 \in 0 .. N
      BY <1>3, <2>1
    <3>4. to[i] = at[i] /\ to[i - 1] = at[i - 1] /\ at[i - 1] \in Nat
      BY <1>5, <3>3
    <3>5. Occurs(g, u, to[i - 1])
      BY <1>2, <3>1, <3>2, <3>4
    <3> QED BY <1>3, <2>1, <3>1, <3>4, <3>5
  <2>2. CASE i = N + 1
    <3>1. i - 1 = N /\ N \in 0 .. N
      BY <1>3, <2>2
    <3>2. to[N] = Len(s)
      BY <1>4, <1>5, <3>1
    <3> QED BY <1>2, <1>3, <1>5, <2>2, <3>1, <3>2
  <2> QED BY <1>3, <2>1, <2>2
<1>9. to[0] = 0
  BY <1>3, <1>4, <1>5
<1>10. FramesAt(u, v, to)
  BY <1>2, <1>3, <1>5, <1>6, <1>7, <1>8, <1>9 DEF FramesAt
<1> QED BY <1>2, <1>10 DEF u, v

(* The first frame is that of the first message.                           *)
LEMMA FirstFrame ==
  ASSUME NEW s \in Seq(Cells), NEW w \in Seq(Records), NEW at,
         FramesAt(s, w, at)
  PROVE  /\ w = <<>> <=> s = <<>>
         /\ w # <<>> =>
              /\ BodyEnd(s) = at[1]
              /\ Head(w).whole => Decode(s) = Result("nil", Head(w).message)
<1> DEFINE N == Len(w)
<1>1. N \in Nat /\ Len(s) \in Nat
  BY LenProperties
<1>2. /\ at[0] = 0 /\ at[N] = Len(s)
      /\ \A i, j \in 0 .. N : i <= j => at[i] <= at[j]
      /\ \A i \in 1 .. N :
           \E f : /\ FrameOf(f, w[i]) /\ Occurs(f, s, at[i - 1])
                  /\ at[i] = at[i - 1] + Len(f)
      /\ \A i \in 0 .. N : at[i] \in Nat
  BY DEF FramesAt
<1>3. CASE w = <<>>
  <2>1. N = 0
    BY <1>3
  <2>2. Len(s) = 0
    BY <1>2, <2>1
  <2>3. s = <<>>
    BY <2>2, EmptySeq
  <2> QED BY <1>3, <2>3
<1>4. CASE w # <<>>
  <2>1. N > 0 /\ 1 \in 1 .. N /\ 1 \in 0 .. N /\ N \in 0 .. N /\ 1 <= N
    BY <1>1, <1>4, EmptySeq
  <2>2. Head(w) = w[1] /\ w[1] \in Records
    BY <2>1, <1>4, ElementOfSeq
  <2>3. PICK f : /\ FrameOf(f, w[1]) /\ Occurs(f, s, at[1 - 1])
                 /\ at[1] = at[1 - 1] + Len(f)
    BY <1>2, <2>1
  <2>4. /\ Len(f) \in Nat \ {0}
        /\ \A x \in Seq(Cells) : Occurs(f, x, 0) =>
              /\ BodyEnd(x) = Len(f)
              /\ w[1].whole => Decode(x) = Result("nil", w[1].message)
    BY <2>2, <2>3, FrameOfIs
  <2>5. at[1] = Len(f) /\ Occurs(f, s, 0)
    BY <1>2, <2>3, <2>4
  <2>6. s # <<>>
    <3>1. at[1] <= Len(s)
      BY <1>2, <2>1
    <3> QED BY <2>4, <2>5, <3>1, EmptySeq
  <2> QED BY <1>4, <2>2, <2>4, <2>5, <2>6
<1> QED BY <1>3, <1>4

(* When it is read the others stay, each that much nearer.                 *)
LEMMA FramesAfterRead ==
  ASSUME NEW s \in Seq(Cells), NEW w \in Seq(Records), NEW at,
         FramesAt(s, w, at), w # <<>>
  PROVE  /\ Rest(s) \in Seq(Cells)
         /\ \E to : FramesAt(Rest(s), Tail(w), to)
<1> DEFINE N == Len(w)
           u == Rest(s)
           v == Tail(w)
           to == [i \in 0 .. N - 1 |-> at[i + 1] - at[1]]
<1>1. /\ N \in Nat \ {0} /\ Len(v) = N - 1 /\ Len(s) \in Nat
      /\ \A i \in 1 .. N - 1 : v[i] = w[i + 1]
      /\ \A i \in 1 .. N : w[i] \in Records
  BY HeadTailProperties, LenProperties, EmptySeq, ElementOfSeq
<1>2. /\ at[N] = Len(s)
      /\ \A i, j \in 0 .. N : i <= j => at[i] <= at[j]
      /\ \A i \in 1 .. N :
           \E f : /\ FrameOf(f, w[i]) /\ Occurs(f, s, at[i - 1])
                  /\ at[i] = at[i - 1] + Len(f)
      /\ \A i \in 0 .. N : at[i] \in Nat
  BY DEF FramesAt
<1> HIDE DEF N, v
<1>3. at[1] \in Nat /\ at[1] <= Len(s)
  BY <1>1, <1>2
<1>4. u = SubSeq(s, at[1] + 1, Len(s))
  BY FirstFrame DEF Rest
<1>5. /\ u \in Seq(Cells) /\ Len(u) = Len(s) - at[1]
      /\ \A f \in Seq(Cells), n \in Nat :
           Occurs(f, s, n) /\ at[1] <= n => Occurs(f, u, n - at[1])
  <2> DEFINE e == <<>>
  <2>1. e \in Seq(Cells) /\ Len(e) = 0
    BY EmptySeq
  <2>2. Occurs(e, s, at[1])
    BY <1>3, <2>1 DEF Occurs
  <2> HIDE DEF u, e
  <2>3. u \in Seq(Cells) /\ Len(u) = Len(s) - at[1]
    BY <1>3, <1>4, <2>1, <2>2, OccursInRest
  <2>4. ASSUME NEW f \in Seq(Cells), NEW n \in Nat, Occurs(f, s, n),
               at[1] <= n
        PROVE  Occurs(f, u, n - at[1])
    BY <1>3, <1>4, <2>4, OccursInRest
  <2> QED BY <2>3, <2>4
<1> HIDE DEF u
<1>6. \A i \in 0 .. N - 1 :
        /\ i + 1 \in 0 .. N /\ at[1] <= at[i + 1]
        /\ to[i] = at[i + 1] - at[1] /\ to[i] \in Nat
  <2> SUFFICES ASSUME NEW i \in 0 .. N - 1
               PROVE  /\ i + 1 \in 0 .. N /\ at[1] <= at[i + 1]
                      /\ to[i] = at[i + 1] - at[1] /\ to[i] \in Nat
    OBVIOUS
  <2>1. i + 1 \in 0 .. N /\ 1 \in 0 .. N /\ 1 <= i + 1
    BY <1>1
  <2>2. at[1] <= at[i + 1] /\ at[i + 1] \in Nat
    BY <1>2, <2>1
  <2> QED BY <1>3, <2>1, <2>2
<1>7. to \in [0 .. N - 1 -> Nat]
  BY <1>6
<1> HIDE DEF to
<1>8. \A i, j \in 0 .. N - 1 : i <= j => to[i] <= to[j]
  <2> SUFFICES ASSUME NEW i \in 0 .. N - 1, NEW j \in 0 .. N - 1, i <= j
               PROVE  to[i] <= to[j]
    OBVIOUS
  <2>1. i + 1 \in 0 .. N /\ j + 1 \in 0 .. N /\ i + 1 <= j + 1
    BY <1>1
  <2>2. at[i + 1] <= at[j + 1] /\ at[i + 1] \in Nat /\ at[j + 1] \in Nat
    BY <1>2, <2>1
  <2> QED BY <1>3, <1>6, <2>2
<1>9. ASSUME NEW i \in 1 .. N - 1
      PROVE  \E f : /\ FrameOf(f, v[i]) /\ Occurs(f, u, to[i - 1])
                    /\ to[i] = to[i - 1] + Len(f)
  <2>1. /\ i + 1 \in 1 .. N /\ (i + 1) - 1 = i /\ (i - 1) + 1 = i
        /\ i \in 0 .. N - 1 /\ i - 1 \in 0 .. N - 1 /\ i \in 0 .. N
    BY <1>1
  <2>2. PICK f : /\ FrameOf(f, w[i + 1]) /\ Occurs(f, s, at[i])
                 /\ at[i + 1] = at[i] + Len(f)
    BY <1>2, <2>1
  <2>3. f \in Seq(Cells) /\ Len(f) \in Nat
    BY <1>1, <2>1, <2>2, FrameOfIs
  <2>4. /\ to[i - 1] = at[i] - at[1] /\ at[1] <= at[i] /\ at[i] \in Nat
        /\ to[i] = at[i + 1] - at[1]
    BY <1>2, <1>6, <2>1
  <2>5. Occurs(f, u, to[i - 1])
    BY <1>5, <2>2, <2>3, <2>4
  <2>6. to[i] = to[i - 1] + Len(f)
    BY <1>3, <2>2, <2>3, <2>4
  <2> QED BY <1>1, <2>2, <2>5, <2>6
<1>10. to[0] = 0 /\ to[N - 1] = Len(u)
  <2>1. 0 \in 0 .. N - 1 /\ N - 1 \in 0 .. N - 1 /\ (N - 1) + 1 = N
    BY <1>1
  <2>2. to[0] = at[0 + 1] - at[1] /\ to[N - 1] = at[N] - at[1]
    BY <1>6, <2>1
  <2> QED BY <1>2, <1>3, <1>5, <2>2
<1>11. FramesAt(u, v, to)
  BY <1>1, <1>7, <1>8, <1>9, <1>10 DEF FramesAt
<1> QED BY <1>5, <1>11 DEF u, v

-----------------------------------------------------------------------------
(* The invariant: headers are right, and the stream is made of frames.     *)
StreamKept == KeptInv /\ StreamInv /\ ReadAsWritten

(* What is written is a message, and its frame fits.                       *)
LEMMA ContentsFit ==
  ASSUME KeptInv, FramesFit, NEW m \in Contents,
         NEW keys \in SetToSeqs(DOMAIN m.metadata)
  PROVE  /\ m \in Messages /\ m.header = message.header
         /\ EncodeMetadata(m.metadata, keys) \in Seq(Cell)
         /\ Len(Body(m, EncodeMetadata(m.metadata, keys))) < Max32
<1>1. PICK md \in Metadatas, pl \in Payloads : m = Filled(message, md, pl)
  BY DEF Contents
<1>2. m \in Messages /\ m.header = message.header
  BY <1>1 DEF KeptInv, Messages, Filled
<1>3. m.path = Path /\ m.method = Method /\ m.metadata = md /\ m.payload = pl
  BY <1>1 DEF KeptInv, Messages, Filled
<1>4. /\ Filled(Fresh, md, pl).path = Path
      /\ Filled(Fresh, md, pl).method = Method
      /\ Filled(Fresh, md, pl).payload = pl
  BY DEF Filled, Fresh, NewMessage
<1> DEFINE meta == EncodeMetadata(md, keys)
<1>5. Len(Body(Filled(Fresh, md, pl), meta)) < Max32
  BY <1>3 DEF FramesFit
<1>6. meta \in Seq(Cell)
  <2> DEFINE K == DOMAIN md
  <2>1. K \in SUBSET Seq(Cell) /\ md \in [K -> Seq(Cell)]
        /\ IsFiniteSet(K) /\ keys \in SetToSeqs(K)
    BY <1>3, MessageAssumption
  <2> HIDE DEF K
  <2> QED BY <2>1, KeysAre, EncodeMetadataIs
<1> HIDE DEF meta
<1>7. Body(m, meta) = Body(Filled(Fresh, md, pl), meta)
  BY <1>3, <1>4 DEF Body
<1>8. Len(Body(m, meta)) < Max32
  BY <1>5, <1>7
<1> QED BY <1>2, <1>3, <1>6, <1>8 DEF meta

(* A frame whose metadata are cut short fits as well.                      *)
LEMMA ShorterFits ==
  ASSUME NEW m \in Messages, NEW meta \in Seq(Cell),
         Len(Body(m, meta)) < Max32, NEW n \in 1 .. Len(meta) - 1
  PROVE  /\ SubSeq(meta, 1, n) \in Seq(Cell)
         /\ Len(Body(m, SubSeq(meta, 1, n))) < Max32
<1> DEFINE part == SubSeq(meta, 1, n)
<1>1. Len(meta) \in Nat
  BY LenProperties
<1>2. part \in Seq(Cell) /\ Len(part) = n
  <2>1. \A i \in 1 .. n : meta[i] \in Cell
    BY <1>1, ElementOfSeq
  <2>2. part \in Seq(Cell) /\ Len(part) = IF 1 <= n THEN n - 1 + 1 ELSE 0
    BY <1>1, <2>1, SubSeqProperties
  <2> HIDE DEF part
  <2> QED BY <1>1, <2>2
<1> HIDE DEF part
<1>3. /\ Len(m.path) \in Nat /\ Len(m.method) \in Nat
      /\ Len(m.payload) \in Nat
  BY MessageIs, LenProperties
<1>4. ASSUME NEW t \in Seq(Cell)
      PROVE  Len(Body(m, t)) =
               (Width + Len(m.path)) + (Width + Len(m.method))
                 + (Width + Len(t)) + (Width + Len(m.payload))
  <2>1. IsBody(Body(m, t), m.path, m.method, t, m.payload)
    BY MessageIs, BodyParts DEF Body
  <2> QED BY <2>1 DEF IsBody
<1>5. Len(Body(m, part)) =
        (Width + Len(m.path)) + (Width + Len(m.method))
          + (Width + n) + (Width + Len(m.payload))
  BY <1>2, <1>4
<1>6. Len(Body(m, meta)) =
        (Width + Len(m.path)) + (Width + Len(m.method))
          + (Width + Len(meta)) + (Width + Len(m.payload))
  BY <1>4
<1>7. Len(Body(m, part)) < Max32
  <2> DEFINE a == Len(m.path)
             b == Len(m.method)
             c == Len(m.payload)
             l == Len(meta)
             x == Len(Body(m, part))
             y == Len(Body(m, meta))
  <2>1. /\ a \in Nat /\ b \in Nat /\ c \in Nat /\ l \in Nat /\ n \in 1 .. l - 1
        /\ x = (Width + a) + (Width + b) + (Width + n) + (Width + c)
        /\ y = (Width + a) + (Width + b) + (Width + l) + (Width + c)
        /\ y < Max32
    BY <1>1, <1>3, <1>5, <1>6
  <2> HIDE DEF a, b, c, l, x, y
  <2>2. x < Max32
    BY <2>1, Sizes, Max32Is
  <2> QED BY <2>2 DEF x
<1> QED BY <1>2, <1>7 DEF part

LEMMA StreamWrite ==
  ASSUME StreamKept, NEW m \in Messages, m.header = message.header,
         m \in Contents, NEW whole \in BOOLEAN, NEW f,
         FrameOf(f, [message |-> m, asked |-> asked, whole |-> whole]),
         Write(m, whole, f)
  PROVE  StreamKept'
<1> DEFINE r == [message |-> m, asked |-> asked, whole |-> whole]
<1>1. KeptInv'
  BY KeptWrite DEF StreamKept
<1>2. r \in Records
  BY DEF StreamKept, KeptInv, HeaderAsAsked, Records, Messages
<1>3. /\ stream' = stream \o f /\ written' = Append(written, r)
      /\ UNCHANGED read
  BY DEF Write
<1>4. FrameOf(f, r)
  OBVIOUS
<1> HIDE DEF r
<1>5. /\ stream \in Seq(Cells) /\ written \in Seq(Records)
      /\ \E at : FramesAt(stream, written, at)
  BY DEF StreamKept, StreamInv, KeptInv
<1>6. StreamInv'
  <2>1. /\ stream \o f \in Seq(Cells)
        /\ \E at : FramesAt(stream \o f, Append(written, r), at)
    BY <1>2, <1>4, <1>5, FramesAfterWrite
  <2> QED BY <1>3, <2>1 DEF StreamInv
<1>7. ReadAsWritten'
  <2>1. written' # <<>>
    BY <1>2, <1>3, <1>5, AppendProperties
  <2> QED BY <1>3, <2>1 DEF StreamKept, ReadAsWritten
<1> QED BY <1>1, <1>6, <1>7 DEF StreamKept

LEMMA StreamRead ==
  ASSUME StreamKept, Read
  PROVE  StreamKept'
<1>1. KeptInv'
  BY KeptRead DEF StreamKept
<1>2. /\ stream \in Seq(Cells) /\ written \in Seq(Records)
      /\ stream # <<>> /\ read.err = "nil"
  BY DEF StreamKept, StreamInv, KeptInv, Read
<1>3. PICK at : FramesAt(stream, written, at)
  BY DEF StreamKept, StreamInv
<1>4. /\ written # <<>>
      /\ Head(written).whole =>
           Decode(stream) = Result("nil", Head(written).message)
  BY <1>2, <1>3, FirstFrame
<1>5. /\ read' = [err |-> Decode(stream).err,
                  message |-> Decode(stream).message, of |-> Head(written)]
      /\ stream' = Rest(stream) /\ written' = Tail(written)
  BY DEF Read
<1>6. StreamInv'
  <2>1. /\ Rest(stream) \in Seq(Cells)
        /\ \E to : FramesAt(Rest(stream), Tail(written), to)
    BY <1>2, <1>3, <1>4, FramesAfterRead
  <2> QED BY <1>5, <2>1 DEF StreamInv
<1>7. ReadAsWritten'
  <2>1. written' = <<>> => stream' = <<>>
    <3>1. PICK to : FramesAt(stream', written', to)
      BY <1>6 DEF StreamInv
    <3>2. stream' \in Seq(Cells) /\ written' \in Seq(Records)
      BY <1>1, <1>6 DEF StreamInv, KeptInv
    <3> QED BY <3>1, <3>2, FirstFrame
  <2>2. ASSUME read'.of.whole
        PROVE  read'.err = "nil" /\ read'.message = read'.of.message
    <3>1. Decode(stream) = Result("nil", Head(written).message)
      BY <1>4, <1>5, <2>2
    <3> QED BY <1>5, <3>1 DEF Result
  <2> QED BY <2>1, <2>2 DEF ReadAsWritten
<1> QED BY <1>1, <1>6, <1>7 DEF StreamKept

LEMMA StreamInit == Init => StreamKept
<1> SUFFICES ASSUME Init PROVE StreamKept
  OBVIOUS
<1>1. stream = <<>> /\ written = <<>> /\ read = [err |-> "nil"]
  BY DEF Init
<1>2. StreamInv
  <2> DEFINE e == <<>>
             at == [i \in 0 .. 0 |-> 0]
  <2>1. e \in Seq(Cells) /\ Len(e) = 0 /\ stream = e /\ written = e
    BY <1>1, EmptySeq
  <2> HIDE DEF e
  <2>2. FramesAt(stream, written, at)
    BY <2>1 DEF FramesAt
  <2> QED BY <2>1, <2>2 DEF StreamInv
<1>3. ReadAsWritten
  BY <1>1 DEF ReadAsWritten
<1> QED BY <1>2, <1>3, KeptInit DEF StreamKept

LEMMA StreamNext ==
  ASSUME StreamKept, FramesFit, [Next]_vars
  PROVE  StreamKept'
<1>1. CASE SetFlags \/ SetTypes \/ SetOthers \/ Reply
  <2>1. KeptInv'
    BY <1>1, KeptSet, KeptReply DEF StreamKept
  <2>2. UNCHANGED <<stream, written, read>>
    BY <1>1 DEF SetFlags, SetTypes, SetOthers, Set, Reply
  <2> QED BY <2>1, <2>2 DEF StreamKept, StreamInv, ReadAsWritten
<1>2. CASE WriteMessage
  <2>1. PICK m \in Contents : \E keys \in SetToSeqs(DOMAIN m.metadata) :
          Write(m, TRUE, Encode(m, keys))
    BY <1>2 DEF WriteMessage
  <2> PICK keys \in SetToSeqs(DOMAIN m.metadata) :
          Write(m, TRUE, Encode(m, keys))
    BY <2>1
  <2>2. /\ m \in Messages /\ m.header = message.header
        /\ EncodeMetadata(m.metadata, keys) \in Seq(Cell)
        /\ Len(Body(m, EncodeMetadata(m.metadata, keys))) < Max32
    BY ContentsFit DEF StreamKept
  <2> DEFINE r == [message |-> m, asked |-> asked, whole |-> TRUE]
  <2>3. r.message = m
    OBVIOUS
  <2> HIDE DEF r
  <2>4. FrameOf(Encode(m, keys), r)
    BY <2>2, <2>3 DEF FrameOf, Encode
  <2> QED BY <2>2, <2>4, StreamWrite DEF r
<1>3. CASE WriteIncomplete
  <2>1. PICK m \in Contents : \E keys \in SetToSeqs(DOMAIN m.metadata) :
          \E n \in 1 .. Len(EncodeMetadata(m.metadata, keys)) - 1 :
            Write(m, FALSE,
                  Frame(m, SubSeq(EncodeMetadata(m.metadata, keys), 1, n)))
    BY <1>3 DEF WriteIncomplete
  <2> PICK keys \in SetToSeqs(DOMAIN m.metadata) :
          \E n \in 1 .. Len(EncodeMetadata(m.metadata, keys)) - 1 :
            Write(m, FALSE,
                  Frame(m, SubSeq(EncodeMetadata(m.metadata, keys), 1, n)))
    BY <2>1
  <2> DEFINE meta == EncodeMetadata(m.metadata, keys)
  <2>2. /\ m \in Messages /\ m.header = message.header
        /\ meta \in Seq(Cell) /\ Len(Body(m, meta)) < Max32
    BY ContentsFit DEF StreamKept
  <2>3. PICK n \in 1 .. Len(meta) - 1 :
          Write(m, FALSE, Frame(m, SubSeq(meta, 1, n)))
    BY <2>1
  <2> HIDE DEF meta
  <2>4. /\ SubSeq(meta, 1, n) \in Seq(Cell)
        /\ Len(Body(m, SubSeq(meta, 1, n))) < Max32
    BY <2>2, ShorterFits
  <2> DEFINE r == [message |-> m, asked |-> asked, whole |-> FALSE]
  <2>5. r.message = m /\ r.whole = FALSE
    OBVIOUS
  <2> HIDE DEF r
  <2>6. FrameOf(Frame(m, SubSeq(meta, 1, n)), r)
    BY <2>4, <2>5 DEF FrameOf
  <2> QED BY <2>2, <2>3, <2>6, StreamWrite DEF r
<1>4. CASE Read
  BY <1>4, StreamRead
<1>5. CASE UNCHANGED vars
  <2>1. KeptInv'
    BY <1>5 DEF StreamKept, KeptInv, HeaderAsAsked, vars
  <2> QED BY <1>5, <2>1 DEF StreamKept, StreamInv, ReadAsWritten, vars
<1> QED BY <1>1, <1>2, <1>3, <1>4, <1>5 DEF Next

(* Whatever the messages, the order in which their metadata are written    *)
(* and the bytes they hold, and after any number of frames with incomplete *)
(* metadata: what is written whole is read as it was, and no cell is left  *)
(* over (message.go:180, 250, 314); given that every length fits in its    *)
(* four bytes, which Encode does not check (message.go:209).               *)
THEOREM WhatIsWrittenIsRead ==
  FramesFit => (Spec => []ReadAsWritten)
<1> SUFFICES ASSUME FramesFit PROVE Spec => []ReadAsWritten
  OBVIOUS
<1>1. StreamKept /\ [Next]_vars => StreamKept'
  BY StreamNext
<1>2. StreamKept => ReadAsWritten
  BY DEF StreamKept
<1> QED BY <1>1, <1>2, StreamInit, PTL DEF Spec

(* So every header, also of an answer to an answer, holds what was asked   *)
(* for last (message.go:106, 170; server.go:412), under the same           *)
(* condition.                                                              *)
THEOREM HeadersAsAsked ==
  FramesFit => (Spec => []HeaderAsAsked)
BY WhatIsWrittenIsRead, HeadersFollow, PTL
=============================================================================
