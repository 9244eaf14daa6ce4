---------------------------- MODULE FramingProofs ----------------------------
(* Proofs about recv_msg: the length survives its conversion, the stream   *)
(* is laid out as it says, and so, wherever the stream is cut, the caller  *)
(* gets the messages of the peer in order and each in full.                *)
EXTENDS Framing, TLAPS, WellFoundedInduction, SequenceTheorems, FiniteSetTheorems

-----------------------------------------------------------------------------
(* Induction, for sets of numbers rather than for predicates: a set of     *)
(* naturals that holds 0 and with a number its successor holds all of      *)
(* them; and a function may be defined by recursion.                       *)

LEMMA Least ==
  ASSUME NEW T \in SUBSET Nat, T # {}
  PROVE  \E x \in T : \A y \in T : ~(y < x)
<1> DEFINE R == OpToRel(<, Nat)
<1>1. IsWellFoundedOn(R, Nat)
  BY NatLessThanWellFounded
<1>2. \A x, y \in Nat : x < y => <<x, y>> \in R
  BY Zenon DEF OpToRel
<1> HIDE DEF R
<1>3. PICK x \in T : \A y \in T : ~(<<y, x>> \in R)
  BY <1>1, WFMin
<1>4. \A y \in T : ~(y < x)
  BY <1>2, <1>3, Zenon
<1> QED BY <1>4

LEMMA Induct ==
  ASSUME NEW n \in Nat, NEW T, 0 \in T, \A i \in 0..n : i \in T /\ i < n => i + 1 \in T
  PROVE  \A i \in 0..n : i \in T
<1> DEFINE U == {i \in 0..n : i \notin T}
<1>1. SUFFICES ASSUME U # {} PROVE FALSE
  OBVIOUS
<1>2. U \in SUBSET Nat
  OBVIOUS
<1> HIDE DEF U
<1>3. PICK x \in U : \A y \in U : ~(y < x)
  BY <1>1, <1>2, Least
<1>4. x \in 0..n /\ x \notin T
  BY <1>3 DEF U
<1>5. x # 0 /\ x - 1 \in 0..n /\ (x - 1) + 1 = x /\ x - 1 < n /\ x - 1 < x
  BY <1>4
<1>6. x - 1 \notin T
  BY <1>4, <1>5
<1>7. x - 1 \in U
  BY <1>5, <1>6 DEF U
<1> QED BY <1>3, <1>5, <1>7

(* step takes the value at i - 1 and i to the value at i.                  *)
Follows(f, n, X, b, step) ==
  /\ f \in [0..n -> X] /\ f[0] = b
  /\ \A i \in 1..n : f[i] = step[<<f[i - 1], i>>]

LEMMA Recursion ==
  ASSUME NEW n \in Nat, NEW X, NEW b \in X, NEW step \in [X \X (1..n) -> X]
  PROVE  \E f : Follows(f, n, X, b, step)
<1> DEFINE T == {m \in 0..n : \E f : Follows(f, m, X, b, step)}
<1>1. 0 \in T
  <2>1. Follows([i \in 0..0 |-> b], 0, X, b, step)
    BY DEF Follows
  <2> QED BY <2>1
<1>2. ASSUME NEW m \in 0..n, m \in T, m < n PROVE m + 1 \in T
  <2>1. PICK f : Follows(f, m, X, b, step)
    BY <1>2
  <2> DEFINE g == [i \in 0..(m + 1) |-> IF i = m + 1 THEN step[<<f[m], m + 1>>] ELSE f[i]]
  <2>2. /\ f[m] \in X /\ m + 1 \in 1..n /\ \A i \in 0..m : f[i] \in X
    BY <1>2, <2>1 DEF Follows
  <2>3. step[<<f[m], m + 1>>] \in X
    BY <2>2
  <2>4. g \in [0..(m + 1) -> X]
    BY <2>2, <2>3
  <2>5. g[0] = b
    BY <2>1 DEF Follows
  <2>6. ASSUME NEW i \in 1..(m + 1) PROVE g[i] = step[<<g[i - 1], i>>]
    <3>1. CASE i = m + 1
      <4>1. i - 1 = m /\ m \in 0..(m + 1) /\ m # m + 1 /\ i \in 0..(m + 1)
        BY <3>1
      <4>2. g[i - 1] = f[m] /\ g[i] = step[<<f[m], m + 1>>]
        BY <3>1, <4>1
      <4> QED BY <3>1, <4>2
    <3>2. CASE i \in 1..m
      BY <2>1, <3>2 DEF Follows
    <3> QED BY <3>1, <3>2
  <2> HIDE DEF g
  <2>7. Follows(g, m + 1, X, b, step)
    BY <2>4, <2>5, <2>6 DEF Follows
  <2> QED BY <2>2, <2>7
<1> HIDE DEF T
<1>3. n \in T
  BY <1>1, <1>2, Induct
<1> QED BY <1>3 DEF T

-----------------------------------------------------------------------------
(* The length's digits.                                                    *)

LEMMA Dividing ==
  ASSUME NEW n \in Nat, NEW d \in Nat, d > 0
  PROVE  n \div d \in Nat /\ n % d \in 0..(d - 1) /\ n = d * (n \div d) + (n % d)
OBVIOUS

LEMMA Quotient ==
  ASSUME NEW q \in Nat, NEW r \in Nat, NEW d \in Nat, d > 0, r < d
  PROVE  (d * q + r) \div d = q
OBVIOUS

(* A division by Base * p, and the digit that it drops.                    *)
LEMMA NextDigit ==
  ASSUME NEW n \in Nat, NEW p \in Nat, NEW b \in Nat, p > 0, b > 0
  PROVE  (n \div (b * p)) * b + ((n \div p) % b) = n \div p
<1> DEFINE a == n \div p
           q == a \div b
           r == a % b
           s == n % p
<1>1. a \in Nat /\ s \in Nat /\ s < p /\ n = p * a + s
  BY Dividing
<1>2. q \in Nat /\ r \in Nat /\ r < b /\ a = b * q + r
  BY <1>1, Dividing
<1> HIDE DEF a, q, r, s
<1>3. n = (b * p) * q + (p * r + s)
  <2>1. p * a = p * (b * q) + p * r
    BY <1>1, <1>2
  <2>2. p * (b * q) = (b * p) * q
    BY <1>2
  <2>3. p * r \in Nat /\ (b * p) * q \in Nat
    BY <1>2
  <2> QED BY <1>1, <2>1, <2>2, <2>3
<1>4. p * r + s \in Nat /\ b * p \in Nat /\ b * p > 0 /\ p * r + s < b * p
  <2>1. p * r + p <= p * b
    BY <1>2
  <2> QED BY <1>1, <1>2, <2>1
<1>5. n \div (b * p) = q
  BY <1>2, <1>3, <1>4, Quotient
<1>6. q * b + r = a
  BY <1>1, <1>2
<1> QED BY <1>5, <1>6 DEF a, q, r

LEMMA Powers ==
  /\ Power[0] = 1 /\ \A k \in 0..Width : Power[k] \in Nat /\ Power[k] > 0
  /\ \A k \in 1..Width : Power[k] = Base * Power[k - 1]
<1> DEFINE step == [p \in Nat \X (1..Width) |-> Base * p[1]]
           Is(f) == f = [k \in 0..Width |-> IF k = 0 THEN 1 ELSE Base * f[k - 1]]
<1>1. Base \in Nat /\ Base > 0 /\ Width \in Nat
  BY FramingAssumption
<1>2. step \in [Nat \X (1..Width) -> Nat]
  BY <1>1
<1> HIDE DEF step
<1>3. PICK f : Follows(f, Width, Nat, 1, step)
  BY <1>1, <1>2, Recursion
<1>4. Is(f)
  <2>1. ASSUME NEW k \in 1..Width PROVE f[k] = Base * f[k - 1]
    <3>1. f[k - 1] \in Nat /\ <<f[k - 1], k>> \in Nat \X (1..Width)
      BY <1>1, <1>3 DEF Follows
    <3>2. f[k] = step[<<f[k - 1], k>>]
      BY <1>3 DEF Follows
    <3> QED BY <3>1, <3>2 DEF step
  <2>2. /\ f = [k \in 0..Width |-> f[k]] /\ f[0] = 1
        /\ \A k \in 0..Width : k = 0 \/ k \in 1..Width
    BY <1>1, <1>3 DEF Follows
  <2> QED BY <2>1, <2>2
<1>5. Is(Power)
  BY <1>4, Zenon DEF Power
<1>6. /\ Power[0] = 1 /\ \A k \in 1..Width : Power[k] = Base * Power[k - 1]
  BY <1>1, <1>5
<1> DEFINE T == {k \in 0..Width : Power[k] \in Nat /\ Power[k] > 0}
<1>7. 0 \in T
  BY <1>1, <1>6
<1>8. ASSUME NEW k \in 0..Width, k \in T, k < Width PROVE k + 1 \in T
  <2>1. k + 1 \in 1..Width /\ (k + 1) - 1 = k
    BY <1>1, <1>8
  <2>2. Power[k + 1] = Base * Power[k]
    BY <1>6, <2>1
  <2>3. Base * Power[k] \in Nat /\ Base * Power[k] > 0
    BY <1>1, <1>8
  <2> QED BY <2>1, <2>2, <2>3
<1> HIDE DEF T
<1>9. \A k \in 0..Width : k \in T
  BY <1>1, <1>7, <1>8, Induct
<1> QED BY <1>6, <1>9 DEF T

(* The value of the digits read so far.                                    *)
LEMMA Digits ==
  ASSUME NEW data, \A i \in 1..Width : data[i] \in Nat
  PROVE  \E f : /\ f[0] = 0 /\ f[Width] = ExtractLen(data)
                /\ \A k \in 0..Width : f[k] \in Nat
                /\ \A k \in 1..Width : f[k] = f[k - 1] * Base + data[k]
<1> DEFINE step == [p \in Nat \X (1..Width) |-> p[1] * Base + data[p[2]]]
           Is(f) == f = [k \in 0..Width |-> IF k = 0 THEN 0 ELSE f[k - 1] * Base + data[k]]
           v == CHOOSE f : Is(f)
<1>1. Base \in Nat /\ Width \in Nat
  BY FramingAssumption
<1>2. step \in [Nat \X (1..Width) -> Nat]
  BY <1>1
<1> HIDE DEF step
<1>3. PICK f : Follows(f, Width, Nat, 0, step)
  BY <1>1, <1>2, Recursion
<1>4. Is(f)
  <2>1. ASSUME NEW k \in 1..Width PROVE f[k] = f[k - 1] * Base + data[k]
    <3>1. f[k - 1] \in Nat /\ <<f[k - 1], k>> \in Nat \X (1..Width)
      BY <1>1, <1>3 DEF Follows
    <3>2. f[k] = step[<<f[k - 1], k>>]
      BY <1>3 DEF Follows
    <3> QED BY <3>1, <3>2 DEF step
  <2>2. /\ f = [k \in 0..Width |-> f[k]] /\ f[0] = 0
        /\ \A k \in 0..Width : k = 0 \/ k \in 1..Width
    BY <1>1, <1>3 DEF Follows
  <2> QED BY <2>1, <2>2
<1>5. Is(v)
  BY <1>4, Zenon
<1>6. v[Width] = ExtractLen(data)
  BY Zenon DEF ExtractLen
<1> HIDE DEF v
<1>7. /\ v[0] = 0 /\ \A k \in 1..Width : v[k] = v[k - 1] * Base + data[k]
  BY <1>1, <1>5
<1> DEFINE T == {k \in 0..Width : v[k] \in Nat}
<1>8. 0 \in T
  BY <1>1, <1>7
<1>9. ASSUME NEW k \in 0..Width, k \in T, k < Width PROVE k + 1 \in T
  <2>1. k + 1 \in 1..Width /\ (k + 1) - 1 = k
    BY <1>1, <1>9
  <2>2. v[k + 1] = v[k] * Base + data[k + 1] /\ data[k + 1] \in Nat /\ v[k] \in Nat
    BY <1>7, <1>9, <2>1
  <2>3. v[k] * Base + data[k + 1] \in Nat
    BY <1>1, <2>2
  <2> QED BY <2>1, <2>2, <2>3
<1> HIDE DEF T
<1>10. \A k \in 0..Width : k \in T
  BY <1>1, <1>8, <1>9, Induct
<1> QED BY <1>6, <1>7, <1>10 DEF T

(* extract_uint64 undoes put_uint64.                                       *)
LEMMA LengthSurvives ==
  ASSUME NEW n \in 0..(Power[Width] - 1)
  PROVE  ExtractLen(PutLen(n)) = n /\ PutLen(n) \in [1..Width -> Nat]
<1>1. Base \in Nat /\ Base > 0 /\ Width \in Nat /\ n \in Nat /\ n < Power[Width]
  BY FramingAssumption, Powers
<1>2. ASSUME NEW i \in 1..Width
      PROVE  PutLen(n)[i] = (n \div Power[Width - i]) % Base /\ PutLen(n)[i] \in Nat
  <2>1. Width - i \in 0..Width
    BY <1>1
  <2>2. Power[Width - i] \in Nat /\ Power[Width - i] > 0
    BY <2>1, Powers
  <2>3. n \div Power[Width - i] \in Nat
    BY <1>1, <2>2, Dividing
  <2>4. (n \div Power[Width - i]) % Base \in Nat
    BY <1>1, <2>3, Dividing
  <2> QED BY <2>4 DEF PutLen
<1>3. PICK f : /\ f[0] = 0 /\ f[Width] = ExtractLen(PutLen(n))
               /\ \A k \in 0..Width : f[k] \in Nat
               /\ \A k \in 1..Width : f[k] = f[k - 1] * Base + PutLen(n)[k]
  BY <1>2, Digits
<1> DEFINE T == {k \in 0..Width : f[k] = n \div Power[Width - k]}
<1>4. 0 \in T
  <2>1. n = Power[Width] * 0 + n /\ Power[Width] \in Nat
    BY <1>1, Powers
  <2>2. n \div Power[Width] = 0
    BY <1>1, <2>1, Quotient
  <2> QED BY <1>1, <1>3, <2>2
<1>5. ASSUME NEW k \in 0..Width, k \in T, k < Width PROVE k + 1 \in T
  <2> DEFINE p == Power[Width - (k + 1)]
  <2>1. /\ k + 1 \in 1..Width /\ (k + 1) - 1 = k /\ Width - k \in 1..Width
        /\ (Width - k) - 1 = Width - (k + 1) /\ Width - (k + 1) \in 0..Width
    BY <1>1, <1>5
  <2>2. Power[Width - k] = Base * p /\ p \in Nat /\ p > 0
    BY <2>1, Powers
  <2>3. f[k + 1] = f[k] * Base + ((n \div p) % Base)
    BY <1>2, <1>3, <2>1
  <2>4. f[k] = n \div (Base * p)
    BY <1>5, <2>2
  <2> HIDE DEF p
  <2>5. (n \div (Base * p)) * Base + ((n \div p) % Base) = n \div p
    BY <1>1, <2>2, NextDigit
  <2>6. f[k + 1] = n \div p
    BY <2>3, <2>4, <2>5, Zenon
  <2> QED BY <2>1, <2>6 DEF p
<1> HIDE DEF T
<1>6. Width \in T
  BY <1>1, <1>4, <1>5, Induct
<1>7. ExtractLen(PutLen(n)) = n
  <2>1. f[Width] = n \div 1
    BY <1>1, <1>6, Powers DEF T
  <2>2. n \div 1 = n
    BY <1>1
  <2> QED BY <1>3, <2>1, <2>2
<1> QED BY <1>2, <1>7 DEF PutLen

-----------------------------------------------------------------------------
(* The layout of the stream.                                               *)

LEMMA MessageSeq ==
  ASSUME NEW ms \in Messages
  PROVE  /\ ms \in Seq([len : 0..(Power[Width] - 1), known : BOOLEAN]) /\ Len(ms) \in Nat
         /\ \A k \in 1..Len(ms) : ms[k].len \in 0..(Power[Width] - 1) /\ ms[k].len \in Nat
                                  /\ ms[k].known \in BOOLEAN
<1>1. ms \in Seq([len : 0..(Power[Width] - 1), known : BOOLEAN])
  BY FramingAssumption
<1>2. /\ Len(ms) \in Nat
      /\ \A k \in 1..Len(ms) : ms[k] \in [len : 0..(Power[Width] - 1), known : BOOLEAN]
  <2> HIDE DEF Power
  <2> DEFINE R == [len : 0..(Power[Width] - 1), known : BOOLEAN]
  <2>1. ms \in Seq(R)
    BY <1>1
  <2> HIDE DEF R
  <2>2. Len(ms) \in Nat /\ \A k \in 1..Len(ms) : ms[k] \in R
    BY <2>1
  <2> QED BY <2>2 DEF R
<1>3. Power[Width] \in Nat
  BY FramingAssumption, Powers
<1>4. ASSUME NEW k \in 1..Len(ms)
      PROVE  /\ ms[k].len \in 0..(Power[Width] - 1) /\ ms[k].len \in Nat
             /\ ms[k].known \in BOOLEAN
  BY <1>2, <1>3
<1> QED BY <1>1, <1>2, <1>4

LEMMA Ends ==
  ASSUME NEW ms \in Messages
  PROVE  /\ FrameEnds(ms)[0] = 0 /\ \A k \in 0..Len(ms) : FrameEnds(ms)[k] \in Nat
         /\ \A k \in 1..Len(ms) : FrameEnds(ms)[k] = FrameEnds(ms)[k - 1] + Width + ms[k].len
<1> DEFINE N == Len(ms)
           step == [p \in Nat \X (1..N) |-> p[1] + Width + ms[p[2]].len]
           Is(f) == f = [i \in 0..N |-> IF i = 0 THEN 0 ELSE f[i - 1] + Width + ms[i].len]
           e == FrameEnds(ms)
<1>1. N \in Nat /\ Width \in Nat /\ \A k \in 1..N : ms[k].len \in Nat
  BY FramingAssumption, MessageSeq
<1>2. step \in [Nat \X (1..N) -> Nat]
  BY <1>1
<1> HIDE DEF step
<1>3. PICK f : Follows(f, N, Nat, 0, step)
  BY <1>1, <1>2, Recursion
<1>4. Is(f)
  <2>1. ASSUME NEW k \in 1..N PROVE f[k] = f[k - 1] + Width + ms[k].len
    <3>1. f[k - 1] \in Nat /\ <<f[k - 1], k>> \in Nat \X (1..N)
      BY <1>1, <1>3 DEF Follows
    <3>2. f[k] = step[<<f[k - 1], k>>]
      BY <1>3 DEF Follows
    <3> QED BY <3>1, <3>2 DEF step
  <2>2. /\ f = [k \in 0..N |-> f[k]] /\ f[0] = 0
        /\ \A k \in 0..N : k = 0 \/ k \in 1..N
    BY <1>1, <1>3 DEF Follows
  <2> QED BY <2>1, <2>2
<1>5. Is(e)
  BY <1>4, Zenon DEF FrameEnds
<1> HIDE DEF e
<1>6. e[0] = 0 /\ \A k \in 1..N : e[k] = e[k - 1] + Width + ms[k].len
  BY <1>1, <1>5
<1> DEFINE T == {k \in 0..N : e[k] \in Nat}
<1>7. 0 \in T
  BY <1>1, <1>6
<1>8. ASSUME NEW k \in 0..N, k \in T, k < N PROVE k + 1 \in T
  <2>1. k + 1 \in 1..N /\ (k + 1) - 1 = k
    BY <1>1, <1>8
  <2>2. e[k + 1] = e[k] + Width + ms[k + 1].len /\ ms[k + 1].len \in Nat /\ e[k] \in Nat
    BY <1>1, <1>6, <1>8, <2>1
  <2> QED BY <1>1, <2>1, <2>2
<1> HIDE DEF T
<1>9. \A k \in 0..N : k \in T
  BY <1>1, <1>7, <1>8, Induct
<1> QED BY <1>6, <1>9 DEF T, e

(* Frames end one behind the other.                                        *)
LEMMA EndsGrow ==
  ASSUME NEW ms \in Messages, NEW i \in 0..Len(ms), NEW j \in 0..Len(ms), i < j
  PROVE  FrameEnds(ms)[i] + Width + ms[j].len <= FrameEnds(ms)[j]
<1> DEFINE N == Len(ms)
           e == FrameEnds(ms)
           T == {k \in 0..N : \A m \in 0..N : m <= k => e[m] <= e[k]}
<1>1. /\ N \in Nat /\ Width \in Nat /\ \A k \in 1..N : ms[k].len \in Nat
      /\ e[0] = 0 /\ \A k \in 0..N : e[k] \in Nat
      /\ \A k \in 1..N : e[k] = e[k - 1] + Width + ms[k].len
  BY FramingAssumption, MessageSeq, Ends
<1> HIDE DEF e, N
<1>2. 0 \in T
  BY <1>1
<1>3. ASSUME NEW k \in 0..N, k \in T, k < N PROVE k + 1 \in T
  <2>1. k + 1 \in 1..N /\ (k + 1) - 1 = k
    BY <1>1, <1>3
  <2>2. e[k + 1] = e[k] + Width + ms[k + 1].len /\ ms[k + 1].len \in Nat /\ e[k] \in Nat
    BY <1>1, <1>3, <2>1
  <2>3. ASSUME NEW m \in 0..N, m <= k + 1 PROVE e[m] <= e[k + 1]
    <3>1. CASE m = k + 1
      BY <1>1, <3>1
    <3>2. CASE m <= k
      <4>1. e[m] <= e[k] /\ e[m] \in Nat
        BY <1>1, <1>3, <3>2
      <4> QED BY <1>1, <2>2, <4>1
    <3> QED BY <1>1, <2>3, <3>1, <3>2
  <2> QED BY <2>1, <2>3
<1> HIDE DEF T
<1>4. \A k \in 0..N : k \in T
  BY <1>1, <1>2, <1>3, Induct
<1>5. j - 1 \in 0..N /\ j \in 1..N /\ i <= j - 1 /\ i \in 0..N
  BY <1>1 DEF N
<1>6. e[i] <= e[j - 1] /\ e[i] \in Nat /\ e[j - 1] \in Nat /\ ms[j].len \in Nat
      /\ e[j] = e[j - 1] + Width + ms[j].len
  BY <1>1, <1>4, <1>5 DEF T
<1>7. e[i] + Width + ms[j].len <= e[j]
  BY <1>1, <1>6
<1> QED BY <1>7 DEF e

LEMMA Concat ==
  ASSUME NEW T, NEW s \in Seq(T), NEW t \in Seq(T)
  PROVE  /\ s \o t \in Seq(T) /\ Len(s \o t) = Len(s) + Len(t)
         /\ Len(s) \in Nat /\ Len(t) \in Nat
         /\ \A i \in 1..Len(s) : (s \o t)[i] = s[i]
         /\ \A i \in 1..Len(t) : (s \o t)[Len(s) + i] = t[i]
<1>1. Len(s) \in Nat /\ Len(t) \in Nat
  OBVIOUS
<1>2. /\ s \o t \in Seq(T) /\ Len(s \o t) = Len(s) + Len(t)
      /\ \A i \in 1..(Len(s) + Len(t)) :
           (s \o t)[i] = IF i <= Len(s) THEN s[i] ELSE t[i - Len(s)]
  BY ConcatProperties
<1> DEFINE m == Len(s)
           n == Len(t)
<1>3. /\ \A i \in 1..m : i \in 1..(m + n) /\ i <= m
      /\ \A i \in 1..n : m + i \in 1..(m + n) /\ ~(m + i <= m) /\ (m + i) - m = i
  <2> HIDE DEF m, n
  <2> QED BY <1>1 DEF m, n
<1> QED BY <1>1, <1>2, <1>3

LEMMA FrameParts ==
  ASSUME NEW m, m.len \in 0..(Power[Width] - 1), m.len \in Nat
  PROVE  /\ Frame(m) \in Seq(Nat) /\ Len(Frame(m)) = Width + m.len
         /\ \A i \in 1..Width : Frame(m)[i] = PutLen(m.len)[i]
<1> DEFINE p == PutLen(m.len)
           q == [i \in 1..m.len |-> Base - 1]
<1>1. Width \in Nat /\ Base - 1 \in Nat
  BY FramingAssumption
<1>2. p \in [1..Width -> Nat]
  BY LengthSurvives
<1> HIDE DEF p
<1>3. p \in Seq(Nat) /\ Len(p) = Width
  BY <1>1, <1>2
<1>4. q \in Seq(Nat) /\ Len(q) = m.len
  BY <1>1
<1> HIDE DEF q
<1>5. Frame(m) = p \o q
  BY DEF Frame, p, q
<1> QED BY <1>3, <1>4, <1>5, Concat DEF p

(* The first k frames, and where the length of each of them is.            *)
LaidOut(ms, s, k) ==
  /\ s \in Seq(Nat) /\ Len(s) = FrameEnds(ms)[k]
  /\ \A j \in 1..k : \A i \in 1..Width :
       s[FrameEnds(ms)[j - 1] + i] = PutLen(ms[j].len)[i]

LEMMA Flattened ==
  ASSUME NEW N \in Nat, N > 0, NEW seqs \in [1..N -> Seq(Nat)]
  PROVE  \E f : /\ f[1] = seqs[1] /\ \A i \in 2..N : f[i] = f[i - 1] \o seqs[i]
                /\ f[N] = FlattenSeq(seqs)
<1> DEFINE X == Seq(Nat)
           step == [p \in X \X (1..(N - 1)) |-> p[1] \o seqs[p[2] + 1]]
           Is(f) == f = [i \in 1..Len(seqs) |-> IF i = 1 THEN seqs[i] ELSE f[i - 1] \o seqs[i]]
           v == CHOOSE f : Is(f)
<1>1. /\ N - 1 \in Nat /\ seqs[1] \in X /\ \A i \in 1..(N - 1) : i + 1 \in 1..N
      /\ \A i \in 1..N : i = 1 \/ i \in 2..N
      /\ \A i \in 2..N : i - 1 \in 1..(N - 1) /\ (i - 1) + 1 = i /\ i \in 1..N /\ i # 1
                         /\ i - 1 \in 1..N
  OBVIOUS
<1>2. step \in [X \X (1..(N - 1)) -> X]
  <2>1. ASSUME NEW p \in X \X (1..(N - 1)) PROVE p[1] \o seqs[p[2] + 1] \in X
    <3>1. p[1] \in Seq(Nat) /\ seqs[p[2] + 1] \in Seq(Nat)
      BY <1>1
    <3> QED BY <3>1, Concat
  <2> QED BY <2>1
<1> HIDE DEF step
<1>3. PICK f : Follows(f, N - 1, X, seqs[1], step)
  <2> HIDE DEF X
  <2> QED BY <1>1, <1>2, Recursion
<1>6. Len(seqs) = N /\ N # 0 /\ 1 \in 1..N
  OBVIOUS
<1> DEFINE g == [i \in 1..N |-> f[i - 1]]
<1>4. Is(g)
  <2>1. ASSUME NEW i \in 2..N PROVE g[i] = g[i - 1] \o seqs[i]
    <3> DEFINE k == i - 1
    <3>1. k \in 1..(N - 1) /\ k + 1 = i /\ k - 1 \in 0..(N - 1) /\ k \in 1..N
      BY <1>1
    <3>2. f[k - 1] \in X /\ f[k] = step[<<f[k - 1], k>>]
      BY <1>3, <3>1 DEF Follows
    <3>3. <<f[k - 1], k>> \in X \X (1..(N - 1))
      BY <3>1, <3>2
    <3>4. step[<<f[k - 1], k>>] = f[k - 1] \o seqs[k + 1]
      BY <3>3 DEF step
    <3>5. g[i] = f[k] /\ g[k] = f[k - 1]
      BY <1>1, <3>1
    <3> QED BY <3>1, <3>2, <3>4, <3>5
  <2>2. g[1] = seqs[1]
    BY <1>1, <1>3 DEF Follows
  <2>3. g = [i \in 1..N |-> g[i]]
    OBVIOUS
  <2> HIDE DEF g
  <2> QED BY <1>1, <1>6, <2>1, <2>2, <2>3
<1> HIDE DEF g
<1>5. Is(v)
  BY <1>4, Zenon
<1>7. v[N] = FlattenSeq(seqs)
  <2>1. FlattenSeq(seqs) = IF Len(seqs) = 0 THEN seqs ELSE v[Len(seqs)]
    BY Zenon DEF FlattenSeq
  <2> HIDE DEF v
  <2> QED BY <1>6, <2>1, Zenon
<1> HIDE DEF v
<1>8. v = [i \in 1..N |-> IF i = 1 THEN seqs[i] ELSE v[i - 1] \o seqs[i]]
  BY <1>5, <1>6, Zenon
<1>9. v[1] = seqs[1]
  BY <1>6, <1>8, Zenon
<1>10. ASSUME NEW i \in 2..N PROVE v[i] = v[i - 1] \o seqs[i]
  <2>1. i \in 1..N /\ i # 1
    BY <1>1
  <2> QED BY <1>8, <2>1, Zenon
<1> QED BY <1>7, <1>9, <1>10

LEMMA LaysNext ==
  ASSUME NEW ms \in Messages, NEW k \in 0..(Len(ms) - 1), NEW s, LaidOut(ms, s, k)
  PROVE  LaidOut(ms, s \o Frame(ms[k + 1]), k + 1)
<1> DEFINE N == Len(ms)
           e == FrameEnds(ms)
           t == Frame(ms[k + 1])
           u == s \o t
<1>1. /\ N \in Nat /\ Width \in Nat /\ k \in 0..N /\ k + 1 \in 1..N /\ (k + 1) - 1 = k /\ k \in Nat
      /\ \A j \in 1..N : j - 1 \in 0..N /\ e[j - 1] \in Nat /\ e[j] \in Nat
                         /\ ms[j].len \in Nat /\ e[j] = e[j - 1] + Width + ms[j].len
  BY FramingAssumption, MessageSeq, Ends
<1>2. /\ t \in Seq(Nat) /\ Len(t) = Width + ms[k + 1].len /\ ms[k + 1].len \in Nat
      /\ \A i \in 1..Width : t[i] = PutLen(ms[k + 1].len)[i]
  BY <1>1, MessageSeq, FrameParts
<1>3. /\ s \in Seq(Nat) /\ Len(s) = e[k] /\ e[k] \in Nat
      /\ \A j \in 1..k : \A i \in 1..Width : s[e[j - 1] + i] = PutLen(ms[j].len)[i]
  <2>1. e[k] \in Nat
    BY <1>1, Ends
  <2> QED BY <2>1 DEF LaidOut
<1> HIDE DEF t
<1>4. /\ u \in Seq(Nat) /\ Len(u) = Len(s) + Len(t)
      /\ \A i \in 1..Len(s) : u[i] = s[i]
      /\ \A i \in 1..Len(t) : u[Len(s) + i] = t[i]
  <2>1. s \in Seq(Nat) /\ t \in Seq(Nat)
    BY <1>2, <1>3
  <2> QED BY <2>1, Concat
<1> HIDE DEF u, e, N
<1>5. Len(u) = e[k + 1]
  BY <1>1, <1>2, <1>3, <1>4
<1>6. ASSUME NEW j \in 1..(k + 1), NEW i \in 1..Width
      PROVE  u[e[j - 1] + i] = PutLen(ms[j].len)[i]
  <2>1. CASE j = k + 1
    <3>1. i \in 1..Len(t) /\ j - 1 = k
      BY <1>1, <1>2, <2>1
    <3>2. u[e[k] + i] = t[i]
      BY <1>3, <1>4, <3>1
    <3> QED BY <1>2, <2>1, <3>1, <3>2
  <2>2. CASE j \in 1..k
    <3>1. j - 1 \in 0..N /\ j \in 1..N /\ j \in 0..N /\ e[j - 1] \in Nat /\ e[j] \in Nat
          /\ e[j - 1] + Width <= e[j]
      <4>1. j \in 1..N /\ j - 1 \in 0..N /\ j \in 0..N
        BY <1>1, <2>2
      <4>2. e[j - 1] \in Nat /\ e[j] \in Nat /\ ms[j].len \in Nat
            /\ e[j] = e[j - 1] + Width + ms[j].len /\ Width \in Nat
        BY <1>1, <4>1
      <4> QED BY <4>1, <4>2
    <3>2. e[j] <= e[k]
      <4>1. CASE j = k
        BY <1>3, <4>1
      <4>2. CASE j < k
        <5>1. e[j] + Width + ms[k].len <= e[k]
          BY <1>1, <3>1, <4>2, EndsGrow DEF e, N
        <5>2. ms[k].len \in Nat
          BY <1>1, <2>2
        <5> QED BY <1>1, <1>3, <3>1, <5>1, <5>2
      <4> QED BY <2>2, <4>1, <4>2
    <3>3. e[j - 1] + i \in 1..Len(s)
      <4> DEFINE a == e[j - 1]
                 b == e[j]
      <4>1. a \in Nat /\ b \in Nat /\ a + Width <= b /\ b <= Len(s) /\ Len(s) \in Nat
            /\ Width \in Nat
        BY <1>1, <1>3, <3>1, <3>2
      <4> HIDE DEF a, b
      <4>2. a + i \in 1..Len(s)
        BY <4>1
      <4> QED BY <4>2 DEF a
    <3> QED BY <1>3, <1>4, <2>2, <3>3
  <2> QED BY <1>1, <2>1, <2>2
<1> QED BY <1>4, <1>5, <1>6 DEF LaidOut, t, u, e

LEMMA Layout ==
  ASSUME NEW ms \in Messages
  PROVE  LaidOut(ms, Frames(ms), Len(ms))
<1> DEFINE N == Len(ms)
           seqs == [i \in DOMAIN ms |-> Frame(ms[i])]
<1>1. N \in Nat /\ DOMAIN ms = 1..N /\ FrameEnds(ms)[0] = 0
  BY MessageSeq, Ends
<1>2. seqs \in [1..N -> Seq(Nat)]
  <2>1. ASSUME NEW i \in 1..N PROVE Frame(ms[i]) \in Seq(Nat)
    BY MessageSeq, FrameParts
  <2> QED BY <1>1, <2>1
<1>3. Frames(ms) = FlattenSeq(seqs) /\ \A i \in 1..N : seqs[i] = Frame(ms[i])
  BY <1>1 DEF Frames
<1> HIDE DEF seqs
<1>4. LaidOut(ms, <<>>, 0)
  BY <1>1 DEF LaidOut
<1>5. CASE N = 0
  <2>1. seqs = <<>> /\ Len(seqs) = 0
    BY <1>2, <1>5
  <2>2. FlattenSeq(seqs) = <<>>
    BY <2>1, Zenon DEF FlattenSeq
  <2> QED BY <1>3, <1>4, <1>5, <2>2
<1>6. CASE N > 0
  <2>1. PICK f : /\ f[1] = seqs[1] /\ \A i \in 2..N : f[i] = f[i - 1] \o seqs[i]
                 /\ f[N] = FlattenSeq(seqs)
    BY <1>1, <1>2, <1>6, Flattened
  <2> DEFINE T == {k \in 0..(N - 1) : LaidOut(ms, f[k + 1], k + 1)}
  <2>2. 0 \in T
    <3>1. LaidOut(ms, <<>> \o Frame(ms[1]), 1)
      <4>1. 0 \in 0..(Len(ms) - 1) /\ 0 + 1 = 1
        BY <1>1, <1>6
      <4>2. LaidOut(ms, <<>> \o Frame(ms[0 + 1]), 0 + 1)
        BY <1>4, <4>1, LaysNext, Zenon
      <4> QED BY <4>1, <4>2, Zenon
    <3>2. <<>> \o Frame(ms[1]) = f[1]
      <4>1. f[1] = Frame(ms[1]) /\ f[1] \in Seq(Nat)
        BY <1>1, <1>2, <1>3, <1>6, <2>1
      <4> QED BY <4>1
    <3> QED BY <1>1, <1>6, <3>1, <3>2
  <2>3. ASSUME NEW k \in 0..(N - 1), k \in T, k < N - 1 PROVE k + 1 \in T
    <3>1. /\ k + 1 \in 0..(N - 1) /\ (k + 1) + 1 \in 2..N /\ ((k + 1) + 1) - 1 = k + 1
          /\ (k + 1) + 1 \in 1..N
      BY <1>1, <2>3
    <3>2. f[(k + 1) + 1] = f[k + 1] \o Frame(ms[(k + 1) + 1])
      BY <1>3, <2>1, <3>1
    <3>3. LaidOut(ms, f[k + 1], k + 1)
      BY <2>3
    <3> HIDE DEF T
    <3>4. LaidOut(ms, f[(k + 1) + 1], (k + 1) + 1)
      BY <3>1, <3>2, <3>3, LaysNext
    <3> QED BY <3>1, <3>4 DEF T
  <2> HIDE DEF T
  <2>4. N - 1 \in T
    <3>1. N - 1 \in Nat /\ N - 1 \in 0..(N - 1)
      BY <1>1, <1>6
    <3> QED BY <2>2, <2>3, <3>1, Induct
  <2>5. (N - 1) + 1 = N
    BY <1>1
  <2> QED BY <1>3, <2>1, <2>4, <2>5 DEF T
<1> QED BY <1>1, <1>5, <1>6

(* What stands before a body is the body's length.                         *)
LEMMA LengthRead ==
  ASSUME NEW ms \in Messages, NEW j \in 1..Len(ms), NEW b, b = FrameEnds(ms)[j - 1]
  PROVE  ExtractLen(SubSeq(Frames(ms), b + 1, b + Width)) = ms[j].len
<1> DEFINE s == Frames(ms)
           p == PutLen(ms[j].len)
           u == SubSeq(s, b + 1, b + Width)
<1>1. /\ s \in Seq(Nat) /\ Width \in Nat /\ b \in Nat
      /\ \A i \in 1..Width : s[b + i] = p[i]
  <2>1. LaidOut(ms, s, Len(ms)) /\ j - 1 \in 0..Len(ms) /\ Len(ms) \in Nat
    BY Layout, MessageSeq
  <2> HIDE DEF s
  <2>2. b \in Nat
    BY <2>1, Ends
  <2> QED BY <2>1, <2>2, FramingAssumption DEF LaidOut
<1>2. ms[j].len \in 0..(Power[Width] - 1)
  BY MessageSeq
<1>3. p \in [1..Width -> Nat] /\ ExtractLen(p) = ms[j].len
  BY <1>2, LengthSurvives
<1> HIDE DEF s, p
<1>4. u \in [1..Width -> Nat] /\ \A i \in 1..Width : u[i] = s[b + i]
  <2> DEFINE m == b + 1
             n == b + Width
  <2>1. /\ m \in Int /\ n \in Int /\ n - m + 1 = Width /\ (m <= n \/ Width = 0)
        /\ \A i \in 1..Width : m + i - 1 = b + i
        /\ \A i \in m..n : i - b \in 1..Width /\ b + (i - b) = i
    <3>1. b \in Nat /\ Width \in Nat
      BY <1>1
    <3>2. m \in Int /\ n \in Int /\ n - m + 1 = Width /\ (m <= n \/ Width = 0)
      BY <3>1
    <3>3. \A i \in 1..Width : m + i - 1 = b + i
      BY <3>1
    <3>4. \A i \in m..n : i - b \in 1..Width /\ b + (i - b) = i
      BY <3>1
    <3> QED BY <3>2, <3>3, <3>4
  <2>2. \A i \in m..n : s[i] \in Nat
    <3> SUFFICES ASSUME NEW i \in m..n PROVE s[i] \in Nat
      OBVIOUS
    <3>1. i - b \in 1..Width /\ b + (i - b) = i
      BY <2>1
    <3>2. s[b + (i - b)] = p[i - b]
      BY <1>1, <3>1
    <3> QED BY <1>3, <3>1, <3>2
  <2> HIDE DEF m, n
  <2>3. /\ SubSeq(s, m, n) \in Seq(Nat) /\ Len(SubSeq(s, m, n)) = IF m <= n THEN n - m + 1 ELSE 0
        /\ \A i \in 1..(n - m + 1) : SubSeq(s, m, n)[i] = s[m + i - 1]
    BY <2>1, <2>2, SubSeqProperties
  <2>4. u = SubSeq(s, m, n)
    BY DEF m, n
  <2> HIDE DEF u
  <2>5. u \in Seq(Nat) /\ Len(u) = Width /\ \A i \in 1..Width : u[i] = s[b + i]
    BY <2>1, <2>3, <2>4
  <2> QED BY <2>5
<1> HIDE DEF u
<1>5. u = p
  <2>1. \A i \in 1..Width : u[i] = p[i]
    BY <1>1, <1>4
  <2>2. u = [i \in 1..Width |-> u[i]] /\ p = [i \in 1..Width |-> p[i]]
    BY <1>3, <1>4
  <2>3. [i \in 1..Width |-> u[i]] = [i \in 1..Width |-> p[i]]
    BY <2>1
  <2> QED BY <2>2, <2>3
<1> QED BY <1>3, <1>5 DEF s, u

-----------------------------------------------------------------------------
(* Where recv_msg is.  It has returned the first messages, numbered in     *)
(* their order, and this call began where the last of them ended.          *)
InOrder == Len(out) \in 0..Len(msgs) /\ \A i \in 1..Len(out) : out[i] = i
InPlace == begin = FrameEnd(Len(out)) /\ sent <= Len(Stream)

(* It reads the length, or what is fed and what remains is the body.       *)
InMessage ==
  /\ state = "meta" => pos < begin + Width /\ remain = 0 /\ fed = 0
  /\ state \in {"some", "rest"} =>
       Len(out) < Len(msgs) /\ fed + remain = msgs[Len(out) + 1].len /\ fed + remain <= MaxBody
  /\ state = "some" => pos = begin + Width + fed /\ remain > Buffer
  /\ state = "rest" => pos >= begin + Width + fed /\ pos < begin + Width + fed + remain

FramingInv == TypeOK /\ InOrder /\ InPlace /\ InMessage

(* The message that this call is about, and how the call may go on.        *)
Current == Len(out) + 1
Reading == state \in {"meta", "some", "rest"}
Returns == /\ Reading /\ Current \in 1..Len(msgs) /\ Accepted(msgs[Current])
           /\ FrameEnd(Current) <= sent /\ out' = Append(out, Current) /\ state' = "meta"
Refuses == /\ Reading /\ Current \in 1..Len(msgs) /\ ~Accepted(msgs[Current])
           /\ out' = out /\ state' = "refused"
Waits == Reading /\ Reading' /\ out' = out
Loses == Reading /\ state' = "lost" /\ out' = out

LEMMA Places ==
  ASSUME FramingInv
  PROVE  /\ msgs \in Messages /\ Len(msgs) \in Nat /\ DOMAIN msgs = 1..Len(msgs)
         /\ Len(out) \in Nat /\ Width \in Nat /\ Width > 0 /\ MaxBody \in Nat
         /\ Buffer \in Nat /\ Buffer > 0
         /\ begin \in Nat /\ begin = FrameEnds(msgs)[Len(out)] /\ Current - 1 = Len(out)
         /\ Stream = Frames(msgs) /\ Len(Stream) = FrameEnds(msgs)[Len(msgs)]
         /\ sent \in Nat /\ sent <= FrameEnds(msgs)[Len(msgs)]
         /\ pos \in Nat /\ begin <= pos /\ pos <= sent
         /\ Current \in 1..Len(msgs) =>
              /\ msgs[Current].len \in Nat /\ msgs[Current].known \in BOOLEAN
              /\ FrameEnds(msgs)[Current] = begin + Width + msgs[Current].len
<1>1. /\ msgs \in Messages /\ begin \in Nat /\ sent \in Nat /\ pos \in begin..sent
      /\ out \in Seq(DOMAIN msgs) /\ Len(out) \in 0..Len(msgs)
      /\ begin = FrameEnds(msgs)[Len(out)] /\ sent <= Len(Stream)
  BY DEF FramingInv, TypeOK, InOrder, InPlace, FrameEnd
<1>2. msgs \in Seq([len : 0..(Power[Width] - 1), known : BOOLEAN]) /\ Len(msgs) \in Nat
  BY <1>1, MessageSeq
<1>3. Stream = Frames(msgs)
  BY <1>1 DEF Stream, Streams
<1>4. Len(Frames(msgs)) = FrameEnds(msgs)[Len(msgs)]
  BY <1>1, Layout DEF LaidOut
<1>5. /\ Width \in Nat /\ Width > 0 /\ MaxBody \in Nat /\ Buffer \in Nat /\ Buffer > 0
  BY FramingAssumption
<1>6. Len(out) \in Nat /\ Current - 1 = Len(out)
  BY <1>1 DEF Current
<1>7. DOMAIN msgs = 1..Len(msgs)
  BY <1>2
<1>8. ASSUME Current \in 1..Len(msgs)
      PROVE  /\ msgs[Current].len \in Nat /\ msgs[Current].known \in BOOLEAN
             /\ FrameEnds(msgs)[Current] = begin + Width + msgs[Current].len
  <2>1. msgs[Current].len \in Nat /\ msgs[Current].known \in BOOLEAN
    BY <1>1, <1>8, MessageSeq
  <2>2. FrameEnds(msgs)[Current] = FrameEnds(msgs)[Current - 1] + Width + msgs[Current].len
    BY <1>1, <1>8, Ends
  <2> QED BY <1>1, <1>6, <2>1, <2>2
<1> QED BY <1>1, <1>2, <1>3, <1>4, <1>5, <1>6, <1>7, <1>8

(* A whole body has been parsed: it is the current message's and no other's. *)
LEMMA OneParsed ==
  ASSUME FramingInv, Current \in 1..Len(msgs)
  PROVE  LET f == msgs[Current].len e == FrameEnd(Current) IN
           Parsed(f, e) = IF f > 0 THEN {Current} ELSE {}
<1> DEFINE k == Current
           f == msgs[k].len
           N == Len(msgs)
           e == FrameEnds(msgs)
<1>1. /\ msgs \in Messages /\ N \in Nat /\ DOMAIN msgs = 1..N /\ Width \in Nat /\ Width > 0
  BY Places
<1>2. ASSUME NEW i \in 1..N PROVE e[i] \in Nat /\ msgs[i].len \in Nat
  <2>1. i \in 0..N
    BY <1>1
  <2> QED BY <1>1, <2>1, MessageSeq, Ends
<1>3. Parsed(f, e[k]) = {i \in 1..N : f > 0 /\ e[i] - msgs[i].len = e[k] - f /\ e[i] = e[k]}
  BY <1>1 DEF Parsed, BodyOf, FrameEnd
<1>4. ASSUME NEW i \in 1..N, e[i] = e[k] PROVE i = k
  <2>1. i \in 0..N /\ k \in 0..N /\ k \in 1..N
    BY <1>1
  <2>2. ~(i < k)
    <3>1. i < k => e[i] + Width + msgs[k].len <= e[k]
      BY <1>1, <2>1, EndsGrow
    <3> QED BY <1>1, <1>2, <1>4, <2>1, <3>1
  <2>3. ~(k < i)
    <3>1. k < i => e[k] + Width + msgs[i].len <= e[i]
      BY <1>1, <2>1, EndsGrow
    <3> QED BY <1>1, <1>2, <1>4, <2>1, <3>1
  <2> QED BY <1>1, <2>1, <2>2, <2>3
<1>5. k \in 1..N
  OBVIOUS
<1> HIDE DEF k, N, f, e
<1>6. Parsed(f, e[k]) = IF f > 0 THEN {k} ELSE {}
  BY <1>3, <1>4, <1>5 DEF f
<1> QED BY <1>6 DEF k, N, f, e, FrameEnd

(* What a step keeps that returns nothing, and what one that does.         *)
LEMMA KeepsPlace ==
  ASSUME FramingInv, UNCHANGED <<msgs, begin, out>>, sent' \in Nat, sent' <= Len(Stream)
  PROVE  InOrder' /\ InPlace'
<1>1. FrameEnd(Len(out))' = FrameEnd(Len(out)) /\ Stream' = Stream
  BY DEF FrameEnd, Stream
<1> QED BY <1>1 DEF FramingInv, InOrder, InPlace

LEMMA ReturnsInPlace ==
  ASSUME FramingInv, UNCHANGED peer, Returns, begin' = FrameEnd(Current), pos' = begin',
         remain' = 0, fed' = 0
  PROVE  FramingInv'
<1> DEFINE k == Current
<1>1. /\ k \in 1..Len(msgs) /\ Len(out) \in Nat /\ k = Len(out) + 1 /\ Len(msgs) \in Nat
      /\ out \in Seq(DOMAIN msgs) /\ DOMAIN msgs = 1..Len(msgs) /\ out' = Append(out, k)
      /\ FrameEnd(k) = begin + Width + msgs[k].len /\ msgs[k].len \in Nat
      /\ Width \in Nat /\ Width > 0 /\ begin \in Nat /\ sent \in Nat /\ FrameEnd(k) <= sent
      /\ msgs' = msgs /\ sent' = sent /\ closed' = closed /\ state' = "meta"
  BY Places DEF FramingInv, TypeOK, Returns, Current, FrameEnd, peer
<1> HIDE DEF k
<1>2. /\ out' \in Seq(DOMAIN msgs) /\ Len(out') = k
      /\ \A i \in 1..Len(out') : out'[i] = IF i = k THEN k ELSE out[i]
  BY <1>1
<1>3. TypeOK'
  <2>1. pos' \in begin'..sent' /\ begin' \in Nat
    BY <1>1 DEF k
  <2> QED BY <1>1, <1>2, <2>1, FramingAssumption DEF FramingInv, TypeOK
<1>4. InOrder'
  <2>1. ASSUME NEW i \in 1..Len(out') PROVE out'[i] = i
    <3>1. i = k \/ i \in 1..Len(out)
      BY <1>1, <1>2
    <3> QED BY <1>2, <3>1 DEF FramingInv, InOrder
  <2> QED BY <1>1, <1>2, <2>1 DEF InOrder
<1>5. InPlace'
  <2>1. FrameEnd(Len(out))' = FrameEnds(msgs)[Len(out')] /\ Stream' = Stream
    BY <1>1 DEF FrameEnd, Stream
  <2> QED BY <1>1, <1>2, <2>1 DEF FramingInv, InPlace, FrameEnd, k
<1>6. InMessage'
  BY <1>1 DEF InMessage, k
<1> QED BY <1>3, <1>4, <1>5, <1>6 DEF FramingInv

(* When all of the body is there, the message is returned or refused.      *)
LEMMA Finishes ==
  ASSUME FramingInv, Reading, Current \in 1..Len(msgs), UNCHANGED peer,
         msgs[Current].len <= MaxBody, pos' = FrameEnd(Current), pos' <= sent,
         Finish(msgs[Current].len, pos')
  PROVE  FramingInv' /\ (Returns \/ Refuses)
<1> DEFINE k == Current
           f == msgs[k].len
<1>1. /\ f \in Nat /\ msgs[k].known \in BOOLEAN /\ begin \in Nat /\ Width \in Nat
      /\ FrameEnd(k) = begin + Width + f /\ sent \in Nat /\ MaxBody \in Nat
  BY Places DEF FrameEnd
<1>2. Parsed(f, FrameEnd(k)) = IF f > 0 THEN {k} ELSE {}
  BY OneParsed
<1>3. (\E i \in Parsed(f, FrameEnd(k)) : msgs[i].known) <=> Accepted(msgs[k])
  <2>1. f > 0 <=> f \in 1..MaxBody
    BY <1>1
  <2> QED BY <1>2, <2>1 DEF Accepted
<1>4. CASE Accepted(msgs[k])
  <2>1. /\ \E i \in Parsed(f, FrameEnd(k)) : out' = Append(out, i)
        /\ state' = "meta" /\ begin' = FrameEnd(k) /\ remain' = 0 /\ fed' = 0
    BY <1>3, <1>4 DEF Finish
  <2>2. out' = Append(out, k)
    BY <1>2, <2>1
  <2>3. Returns
    BY <1>4, <2>1, <2>2 DEF Returns
  <2> QED BY <2>1, <2>3, ReturnsInPlace
<1>5. CASE ~Accepted(msgs[k])
  <2>1. /\ state' = "refused" /\ remain' = 0 /\ fed' = f /\ out' = out /\ begin' = begin
    BY <1>3, <1>5 DEF Finish
  <2>2. Refuses
    BY <1>5, <2>1 DEF Refuses
  <2>3. UNCHANGED <<msgs, begin, out>> /\ sent' = sent /\ closed' = closed
    BY <2>1 DEF peer
  <2>4. InOrder' /\ InPlace'
    BY <1>1, <2>3, KeepsPlace DEF FramingInv, InPlace
  <2>5. TypeOK'
    BY <1>1, <2>1, <2>3 DEF FramingInv, TypeOK
  <2>6. InMessage'
    BY <2>1 DEF InMessage
  <2> QED BY <2>2, <2>4, <2>5, <2>6 DEF FramingInv
<1> QED BY <1>4, <1>5

(* Some of the body has been parsed, and what remains is read next.        *)
LEMMA GoesOn ==
  ASSUME FramingInv, Reading, Current \in 1..Len(msgs), UNCHANGED peer,
         NEW r \in Nat, NEW f \in Nat, f + r = msgs[Current].len, f + r <= MaxBody,
         pos' = begin + Width + f, pos' <= sent, GoOn(r, f, pos')
  PROVE  FramingInv' /\ (Returns \/ Refuses \/ Waits)
<1>1. /\ FrameEnd(Current) = begin + Width + msgs[Current].len /\ begin \in Nat /\ Width \in Nat
      /\ sent \in Nat /\ MaxBody \in Nat /\ Len(out) \in Nat /\ Len(msgs) \in Nat
      /\ Buffer \in Nat /\ Buffer > 0
  BY Places DEF FrameEnd
<1>2. CASE r = 0
  <2>1. f = msgs[Current].len
    BY <1>2
  <2>2. pos' = FrameEnd(Current) /\ Finish(msgs[Current].len, pos')
    BY <1>1, <1>2, <2>1 DEF GoOn
  <2> QED BY <1>2, <2>1, <2>2, Finishes
<1>3. CASE r > 0
  <2>1. /\ state' = IF r > Buffer THEN "some" ELSE "rest"
        /\ remain' = r /\ fed' = f /\ out' = out /\ begin' = begin
    BY <1>3 DEF GoOn
  <2>2. UNCHANGED <<msgs, begin, out>> /\ sent' = sent /\ closed' = closed
    BY <2>1 DEF peer
  <2>3. InOrder' /\ InPlace'
    BY <1>1, <2>2, KeepsPlace DEF FramingInv, InPlace
  <2>4. TypeOK'
    <3>1. r \in 0..MaxBody /\ f \in 0..MaxBody /\ pos' \in begin..sent
      BY <1>1
    <3>2. state' = "rest" => r \in 1..Buffer
      BY <1>1, <1>3, <2>1
    <3> QED BY <2>1, <2>2, <3>1, <3>2 DEF FramingInv, TypeOK
  <2>5. InMessage'
    <3>1. Len(out) < Len(msgs) /\ f + r = msgs[Len(out) + 1].len
      BY <1>1 DEF Current
    <3>2. begin + Width + f < begin + Width + f + r
      BY <1>1, <1>3
    <3> QED BY <1>1, <2>1, <2>2, <3>1, <3>2 DEF InMessage
  <2>6. Waits
    BY <2>1 DEF Waits, Reading
  <2> QED BY <2>3, <2>4, <2>5, <2>6 DEF FramingInv
<1> QED BY <1>2, <1>3

LEMMA MetaRead ==
  ASSUME FramingInv, ReadMeta
  PROVE  FramingInv' /\ (Returns \/ Refuses \/ Waits)
<1>1. PICK n \in 1..Width : Read(n, begin + Width - pos)
  BY DEF ReadMeta
<1>2. /\ state = "meta" /\ UNCHANGED peer /\ Reading /\ pos < begin + Width
      /\ remain = 0 /\ fed = 0
  BY DEF ReadMeta, FramingInv, InMessage, Reading
<1>3. /\ begin \in Nat /\ Width \in Nat /\ Width > 0 /\ pos \in Nat /\ sent \in Nat /\ begin <= pos
      /\ Len(out) \in Nat /\ Len(msgs) \in Nat /\ MaxBody \in Nat
      /\ sent <= FrameEnds(msgs)[Len(msgs)] /\ Len(out) <= Len(msgs) /\ msgs \in Messages
  BY Places DEF FramingInv, InOrder
<1>4. pos' = pos + n /\ pos' <= sent /\ pos' <= begin + Width /\ pos' \in Nat
  BY <1>1, <1>3 DEF Read
<1>5. msgs' = msgs /\ sent' = sent /\ closed' = closed
  BY <1>2 DEF peer
<1>6. Current \in 1..Len(msgs)
  <2>1. Len(out) # Len(msgs)
    <3>1. begin < sent
      BY <1>1, <1>3, <1>4
    <3> QED BY <1>3, <3>1, Places
  <2> QED BY <1>3, <2>1 DEF Current
<1>7. CASE pos' < begin + Width
  <2>1. UNCHANGED <<state, begin, remain, fed, out>>
    BY <1>7 DEF ReadMeta
  <2>2. InOrder' /\ InPlace'
    BY <1>3, <1>5, <2>1, KeepsPlace DEF FramingInv, InPlace
  <2>3. pos' \in begin..sent
    BY <1>1, <1>3, <1>4
  <2>4. TypeOK'
    BY <1>2, <1>5, <2>1, <2>3 DEF FramingInv, TypeOK
  <2>5. InMessage'
    BY <1>2, <1>7, <2>1 DEF InMessage
  <2> QED BY <1>2, <2>1, <2>2, <2>4, <2>5 DEF FramingInv, Waits, Reading
<1>8. CASE ~(pos' < begin + Width)
  <2> DEFINE len == ExtractLen(SubSeq(Stream, begin + 1, begin + Width))
  <2>1. len = msgs[Current].len
    <3>1. Stream = Frames(msgs) /\ begin = FrameEnds(msgs)[Current - 1]
      BY Places
    <3> QED BY <1>3, <1>6, <3>1, LengthRead
  <2>2. IF len > MaxBody
        THEN state' = "refused" /\ UNCHANGED <<begin, remain, fed, out>>
        ELSE GoOn(len, 0, pos')
    BY <1>8 DEF ReadMeta
  <2> HIDE DEF len
  <2>3. pos' = begin + Width /\ len \in Nat
    BY <1>3, <1>4, <1>6, <1>8, <2>1, Places
  <2>4. CASE len > MaxBody
    <3>1. state' = "refused" /\ UNCHANGED <<begin, remain, fed, out>>
      BY <2>2, <2>4
    <3>2. ~Accepted(msgs[Current])
      BY <1>3, <2>1, <2>3, <2>4 DEF Accepted
    <3>3. Refuses
      BY <1>2, <1>6, <3>1, <3>2 DEF Refuses
    <3>4. InOrder' /\ InPlace'
      BY <1>3, <1>5, <3>1, KeepsPlace DEF FramingInv, InPlace
    <3>5. pos' \in begin..sent
      BY <1>3, <1>4, <2>3
    <3>6. TypeOK'
      BY <1>2, <1>5, <3>1, <3>5 DEF FramingInv, TypeOK
    <3>7. InMessage'
      BY <3>1 DEF InMessage
    <3> QED BY <3>3, <3>4, <3>6, <3>7 DEF FramingInv
  <2>5. CASE ~(len > MaxBody)
    <3>1. GoOn(len, 0, pos')
      BY <2>2, <2>5
    <3>2. 0 + len = msgs[Current].len /\ 0 + len <= MaxBody /\ pos' = begin + Width + 0
      BY <1>3, <2>1, <2>3, <2>5
    <3> QED BY <1>2, <1>4, <1>6, <2>3, <3>1, <3>2, GoesOn
  <2> QED BY <2>4, <2>5
<1> QED BY <1>7, <1>8

LEMMA PieceRead ==
  ASSUME FramingInv, ReadPiece
  PROVE  FramingInv' /\ (Returns \/ Refuses \/ Waits)
<1>1. PICK n \in 1..Buffer : Read(n, Buffer) /\ GoOn(remain - n, fed + n, pos')
  BY DEF ReadPiece
<1>2. /\ state = "some" /\ UNCHANGED peer /\ Reading
      /\ Len(out) < Len(msgs) /\ fed + remain = msgs[Len(out) + 1].len /\ fed + remain <= MaxBody
      /\ pos = begin + Width + fed /\ remain > Buffer
      /\ remain \in Nat /\ fed \in Nat
  BY DEF ReadPiece, FramingInv, InMessage, Reading, TypeOK
<1>3. /\ begin \in Nat /\ Width \in Nat /\ pos \in Nat /\ sent \in Nat
      /\ Len(out) \in Nat /\ Len(msgs) \in Nat /\ MaxBody \in Nat /\ Buffer \in Nat
  BY Places
<1>4. Current \in 1..Len(msgs) /\ msgs[Current].len = fed + remain
  BY <1>2, <1>3 DEF Current
<1>5. pos' = pos + n /\ pos' <= sent
  BY <1>1 DEF Read
<1>6. /\ remain - n \in Nat /\ fed + n \in Nat /\ (fed + n) + (remain - n) = fed + remain
      /\ pos' = begin + Width + (fed + n)
  BY <1>2, <1>3, <1>5
<1> DEFINE r == remain - n
           f == fed + n
<1>7. /\ r \in Nat /\ f \in Nat /\ f + r = msgs[Current].len /\ f + r <= MaxBody
      /\ pos' = begin + Width + f /\ GoOn(r, f, pos')
  BY <1>1, <1>2, <1>4, <1>6
<1> HIDE DEF r, f
<1> QED BY <1>2, <1>4, <1>5, <1>7, GoesOn

LEMMA RestRead ==
  ASSUME FramingInv, ReadRest
  PROVE  FramingInv' /\ (Returns \/ Refuses \/ Waits)
<1>1. PICK n \in 1..remain : Read(n, begin + Width + fed + remain - pos)
  BY DEF ReadRest
<1>2. /\ state = "rest" /\ UNCHANGED peer /\ Reading
      /\ Len(out) < Len(msgs) /\ fed + remain = msgs[Len(out) + 1].len /\ fed + remain <= MaxBody
      /\ pos >= begin + Width + fed /\ pos < begin + Width + fed + remain
      /\ remain \in Nat /\ fed \in Nat
  BY DEF ReadRest, FramingInv, InMessage, Reading, TypeOK
<1>3. /\ begin \in Nat /\ Width \in Nat /\ pos \in Nat /\ sent \in Nat /\ begin <= pos
      /\ Len(out) \in Nat /\ Len(msgs) \in Nat /\ MaxBody \in Nat
  BY Places
<1>4. Current \in 1..Len(msgs) /\ msgs[Current].len = fed + remain
  BY <1>2, <1>3 DEF Current
<1>5. pos' = pos + n /\ pos' <= sent /\ pos' <= begin + Width + fed + remain
  BY <1>1, <1>2, <1>3 DEF Read
<1>6. CASE pos' < begin + Width + fed + remain
  <2>1. UNCHANGED <<state, begin, remain, fed, out>>
    BY <1>6 DEF ReadRest
  <2>2. msgs' = msgs /\ sent' = sent /\ closed' = closed
    BY <1>2 DEF peer
  <2>3. InOrder' /\ InPlace'
    BY <1>3, <2>1, <2>2, KeepsPlace DEF FramingInv, InPlace
  <2>4. pos' \in begin..sent /\ pos' >= begin + Width + fed
    BY <1>1, <1>2, <1>3, <1>5
  <2>5. TypeOK'
    BY <2>1, <2>2, <2>4 DEF FramingInv, TypeOK
  <2>6. InMessage'
    BY <1>2, <1>6, <2>1, <2>2, <2>4 DEF InMessage
  <2> QED BY <1>2, <2>1, <2>3, <2>5, <2>6 DEF FramingInv, Waits, Reading
<1>7. CASE ~(pos' < begin + Width + fed + remain)
  <2>1. Finish(fed + remain, pos')
    BY <1>7 DEF ReadRest
  <2>2. Finish(msgs[Current].len, pos') /\ msgs[Current].len <= MaxBody
    BY <1>2, <1>4, <2>1
  <2>3. pos' = FrameEnd(Current)
    <3>1. FrameEnd(Current) = begin + Width + msgs[Current].len
      BY <1>4, Places DEF FrameEnd
    <3> QED BY <1>1, <1>2, <1>3, <1>4, <1>5, <1>7, <3>1
  <2> QED BY <1>2, <1>4, <1>5, <2>2, <2>3, Finishes
<1> QED BY <1>6, <1>7

LEMMA FramingStep ==
  ASSUME FramingInv, [Next]_vars
  PROVE  /\ FramingInv'
         /\ RecvMsg => Returns \/ Refuses \/ Waits \/ Loses
<1>1. CASE WriteSome
  <2>1. PICK n \in sent + 1 .. Len(Stream) : sent' = n
    BY <1>1 DEF WriteSome
  <2>2. UNCHANGED <<msgs, closed, state, begin, pos, remain, fed, out>>
    BY <1>1 DEF WriteSome
  <2>3. sent \in Nat /\ begin \in Nat /\ pos \in Nat /\ begin <= pos /\ pos <= sent
        /\ Len(Stream) \in Nat
    <3>1. Len(Stream) = FrameEnds(msgs)[Len(msgs)] /\ msgs \in Messages /\ Len(msgs) \in Nat
      BY Places
    <3>2. Len(Stream) \in Nat
      BY <3>1, Ends
    <3> QED BY <3>2, Places
  <2>4. sent' \in Nat /\ sent' <= Len(Stream) /\ pos \in begin..sent'
    BY <2>1, <2>3
  <2>5. InOrder' /\ InPlace'
    BY <2>2, <2>4, KeepsPlace
  <2>6. TypeOK'
    BY <2>2, <2>4 DEF FramingInv, TypeOK
  <2>7. InMessage'
    BY <2>2 DEF FramingInv, InMessage
  <2>8. ~RecvMsg
    <3>1. sent' # sent
      BY <2>1, <2>3
    <3> QED BY <3>1 DEF RecvMsg, ReadMeta, ReadPiece, ReadRest, ReadFails, peer
  <2> QED BY <2>5, <2>6, <2>7, <2>8 DEF FramingInv
<1>2. CASE PeerCloses
  <2>1. UNCHANGED <<msgs, sent, state, begin, pos, remain, fed, out>> /\ closed' = TRUE /\ ~closed
    BY <1>2 DEF PeerCloses
  <2>2. InOrder' /\ InPlace'
    BY <2>1, KeepsPlace DEF FramingInv, TypeOK, InPlace
  <2>3. TypeOK' /\ InMessage'
    BY <2>1 DEF FramingInv, TypeOK, InMessage
  <2>4. ~RecvMsg
    BY <2>1 DEF RecvMsg, ReadMeta, ReadPiece, ReadRest, ReadFails, peer
  <2> QED BY <2>2, <2>3, <2>4 DEF FramingInv
<1>3. CASE ReadFails
  <2>1. /\ state' = "lost" /\ Reading
        /\ UNCHANGED <<msgs, sent, closed, begin, pos, remain, fed, out>>
    BY <1>3 DEF ReadFails, Reading, peer
  <2>2. InOrder' /\ InPlace'
    BY <2>1, KeepsPlace DEF FramingInv, TypeOK, InPlace
  <2>3. TypeOK' /\ InMessage'
    BY <2>1 DEF FramingInv, TypeOK, InMessage
  <2> QED BY <2>1, <2>2, <2>3 DEF FramingInv, Loses
<1>4. CASE UNCHANGED vars
  <2>1. UNCHANGED <<msgs, begin, out>> /\ sent' = sent
    BY <1>4 DEF vars
  <2>2. InOrder' /\ InPlace'
    BY <2>1, KeepsPlace DEF FramingInv, TypeOK, InPlace
  <2>3. TypeOK' /\ InMessage'
    BY <1>4 DEF FramingInv, TypeOK, InMessage, vars
  <2>4. RecvMsg => Returns \/ Refuses \/ Waits \/ Loses
    BY <1>4, MetaRead, PieceRead, RestRead DEF RecvMsg, ReadFails, vars
  <2> QED BY <2>2, <2>3, <2>4 DEF FramingInv
<1>5. CASE ReadMeta \/ ReadPiece \/ ReadRest
  BY <1>5, MetaRead, PieceRead, RestRead
<1> QED BY <1>1, <1>2, <1>3, <1>4, <1>5 DEF Next, RecvMsg

LEMMA FramingInit ==
  ASSUME Init
  PROVE  FramingInv
<1>1. /\ msgs \in Messages /\ sent = 0 /\ closed = FALSE /\ state = "meta" /\ begin = 0
      /\ pos = 0 /\ remain = 0 /\ fed = 0 /\ out = <<>>
  BY DEF Init
<1>2. /\ Len(msgs) \in Nat /\ FrameEnds(msgs)[0] = 0 /\ Width \in Nat /\ Width > 0
      /\ MaxBody \in Nat
  BY <1>1, MessageSeq, Ends, FramingAssumption
<1>3. Len(Stream) \in Nat
  <2>1. Stream = Frames(msgs) /\ Len(Frames(msgs)) = FrameEnds(msgs)[Len(msgs)]
    BY <1>1, Layout DEF Stream, Streams, LaidOut
  <2> QED BY <1>1, <1>2, <2>1, Ends
<1>4. TypeOK
  <2>1. out \in Seq(DOMAIN msgs)
    BY <1>1
  <2>2. pos \in begin..sent /\ 0 \in 0..MaxBody /\ 0 \in Nat
    BY <1>1, <1>2
  <2> QED BY <1>1, <2>1, <2>2 DEF TypeOK
<1>5. InOrder /\ InPlace /\ InMessage
  BY <1>1, <1>2, <1>3 DEF InOrder, InPlace, InMessage, FrameEnd
<1> QED BY <1>4, <1>5 DEF FramingInv

LEMMA FramingInvariant == Init /\ [][Next]_vars => []FramingInv
<1>1. FramingInv /\ [Next]_vars => FramingInv'
  BY FramingStep
<1> QED BY <1>1, FramingInit, PTL

(* recv_msg's variables keep their types: what remains of a body never     *)
(* gets below zero, and what the last read asks for fits into buf_payload, *)
(* whatever lengths the peer sends and wherever the stream is cut.         *)
THEOREM TypeCorrect == Spec => []TypeOK
<1>1. FramingInv => TypeOK
  BY DEF FramingInv
<1> QED BY <1>1, FramingInvariant, PTL DEF Spec

-----------------------------------------------------------------------------
(* The refinement of Channel, but for its fairness.                        *)

LEMMA Count ==
  ASSUME NEW n \in Nat, NEW S \in SUBSET (1..n)
  PROVE  IsFiniteSet(S) /\ Cardinality(S) \in Nat /\ Cardinality(S) <= n
<1>1. IsFiniteSet(1..n) /\ Cardinality(1..n) = n
  BY FS_Interval
<1>2. IsFiniteSet(S) /\ Cardinality(S) <= Cardinality(1..n)
  BY <1>1, FS_Subset
<1> QED BY <1>1, <1>2, FS_CardinalityType

LEMMA WholeCount ==
  ASSUME FramingInv
  PROVE  IsFiniteSet(Whole) /\ Cardinality(Whole) \in Nat /\ Cardinality(Whole) <= Len(msgs)
<1>1. Whole \in SUBSET (1..Len(msgs)) /\ Len(msgs) \in Nat
  BY Places DEF Whole
<1> QED BY <1>1, Count

(* A message that has been returned was sent in full, and so were those    *)
(* before it.                                                              *)
LEMMA SentInFull ==
  ASSUME FramingInv, Current \in 1..Len(msgs), FrameEnd(Current) <= sent
  PROVE  Len(out) < Cardinality(Whole)
<1>1. /\ msgs \in Messages /\ Len(msgs) \in Nat /\ DOMAIN msgs = 1..Len(msgs)
      /\ Width \in Nat /\ sent \in Nat /\ Len(out) \in Nat /\ Current = Len(out) + 1
  BY Places DEF Current
<1>2. 1..Current \subseteq Whole
  <2> SUFFICES ASSUME NEW i \in 1..Current PROVE i \in Whole
    OBVIOUS
  <2>1. i \in 1..Len(msgs) /\ i \in 0..Len(msgs) /\ Current \in 0..Len(msgs)
        /\ (i < Current \/ i = Current)
    BY <1>1
  <2>2. i < Current => FrameEnds(msgs)[i] + Width + msgs[Current].len <= FrameEnds(msgs)[Current]
    BY <1>1, <2>1, EndsGrow
  <2>3. /\ FrameEnds(msgs)[i] \in Nat /\ FrameEnds(msgs)[Current] \in Nat
        /\ msgs[Current].len \in Nat
    BY <1>1, <2>1, Ends, MessageSeq
  <2>4. FrameEnds(msgs)[i] <= sent
    BY <1>1, <2>1, <2>2, <2>3 DEF FrameEnd
  <2> QED BY <1>1, <2>1, <2>4 DEF Whole, FrameEnd
<1>3. Cardinality(1..Current) <= Cardinality(Whole)
  BY <1>2, WholeCount, FS_Subset
<1>4. Cardinality(1..Current) = Current
  BY <1>1, FS_Interval
<1> QED BY <1>1, <1>3, <1>4, WholeCount

LEMMA ChannelInit ==
  ASSUME Init
  PROVE  Chan!Init
<1>1. /\ FramingInv /\ msgs \in Messages /\ sent = 0 /\ state = "meta" /\ out = <<>>
  BY FramingInit DEF Init
<1>2. Whole = {}
  <2> SUFFICES ASSUME NEW i \in 1..Len(msgs) PROVE ~(FrameEnd(i) <= sent)
    BY Places, <1>1 DEF Whole
  <2>1. /\ FrameEnds(msgs)[i] = FrameEnds(msgs)[i - 1] + Width + msgs[i].len
        /\ i - 1 \in 0..Len(msgs) /\ i \in 0..Len(msgs) /\ Width \in Nat /\ Width > 0
    BY <1>1, Places, Ends
  <2>2. FrameEnds(msgs)[i - 1] \in Nat /\ msgs[i].len \in Nat
    BY <1>1, <2>1, Ends, MessageSeq
  <2> QED BY <1>1, <2>1, <2>2 DEF FrameEnd
<1>3. Cardinality(Whole) = 0
  BY <1>2, FS_EmptySet
<1>4. msgs \in Seq([len : Nat, known : BOOLEAN])
  <2>1. Width \in 0..Width
    BY FramingAssumption
  <2>2. msgs \in Seq([len : 0..(Power[Width] - 1), known : BOOLEAN]) /\ Power[Width] \in Nat
    <3>1. Power[Width] \in Nat
      BY <2>1, Powers
    <3> QED BY <1>1, <3>1, MessageSeq
  <2> DEFINE S == [len : 0..(Power[Width] - 1), known : BOOLEAN]
             T == [len : Nat, known : BOOLEAN]
  <2>3. S \subseteq T
    BY <2>2
  <2>4. msgs \in Seq(S)
    BY <2>2
  <2> HIDE DEF S, T
  <2>5. msgs \in Seq(T)
    BY <2>3, <2>4
  <2> QED BY <2>5 DEF T
<1> QED BY <1>1, <1>3, <1>4 DEF Chan!Init

LEMMA ChannelStep ==
  ASSUME FramingInv, [Next]_vars
  PROVE  [Chan!Next]_(Chan!vars)
<1> DEFINE n == Cardinality(Whole)
           end == IF state \in {"refused", "lost"} THEN state ELSE "no"
<1>1. Len(msgs) \in Nat /\ Len(out) \in Nat /\ n \in Nat /\ DOMAIN msgs = 1..Len(msgs)
  BY WholeCount, Places
<1>2. msgs' = msgs => IsFiniteSet(Whole') /\ n' \in Nat /\ n' <= Len(msgs)
  <2>1. msgs' = msgs => Whole' \in SUBSET (1..Len(msgs))
    BY <1>1 DEF Whole
  <2> QED BY <1>1, <2>1, Count
<1>3. CASE WriteSome
  <2>1. /\ UNCHANGED <<msgs, out, state>> /\ msgs' = msgs
        /\ sent \in Nat /\ sent' \in Nat /\ sent <= sent'
    BY <1>3, Places DEF WriteSome
  <2>2. Whole \subseteq Whole'
    <3> SUFFICES ASSUME NEW i \in Whole PROVE i \in Whole'
      OBVIOUS
    <3>1. i \in 1..Len(msgs) /\ i \in 0..Len(msgs) /\ FrameEnds(msgs)[i] <= sent
          /\ msgs \in Messages /\ DOMAIN msgs = 1..Len(msgs)
      BY Places DEF Whole, FrameEnd
    <3>2. FrameEnds(msgs)[i] \in Nat
      BY <3>1, Ends
    <3>3. FrameEnds(msgs)[i] <= sent'
      BY <2>1, <3>1, <3>2
    <3> QED BY <2>1, <3>1, <3>3 DEF Whole, FrameEnd
  <2>3. IsFiniteSet(Whole')
    BY <1>2, <2>1
  <2>4. n <= n'
    BY <2>2, <2>3, FS_Subset
  <2>5. end' = end /\ out' = out
    BY <2>1
  <2> HIDE DEF n, end
  <2>6. n' = n \/ n' \in n + 1 .. Len(msgs)
    BY <1>1, <1>2, <2>1, <2>4
  <2> QED BY <2>1, <2>5, <2>6 DEF Chan!Next, Chan!Sent, Chan!vars, n, end
<1>4. CASE ~WriteSome
  <2>1. msgs' = msgs /\ sent' = sent
    BY <1>4 DEF Next, PeerCloses, RecvMsg, ReadMeta, ReadPiece, ReadRest, ReadFails, peer, vars
  <2>2. n' = n
    BY <2>1 DEF Whole, FrameEnd
  <2>3. CASE RecvMsg
    <3>1. CASE Waits
      <4>1. end' = end /\ out' = out
        BY <3>1 DEF Waits, Reading
      <4> QED BY <2>1, <2>2, <4>1 DEF Chan!vars
    <3>2. CASE Loses
      <4>1. end = "no" /\ end' = "lost" /\ out' = out
        BY <3>2 DEF Loses, Reading
      <4> QED BY <2>1, <2>2, <4>1 DEF Chan!Next, Chan!Lose
    <3>3. CASE Refuses
      <4>1. end = "no" /\ end' = "refused" /\ out' = out
        BY <3>3 DEF Refuses, Reading
      <4>2. Len(out) < Len(msgs) /\ ~Accepted(msgs[Len(out) + 1])
        BY <1>1, <3>3 DEF Refuses, Current
      <4> QED BY <2>1, <2>2, <4>1, <4>2 DEF Chan!Next, Chan!Refuse
    <3>4. CASE Returns
      <4>1. end = "no" /\ end' = "no" /\ out' = Append(out, Len(out) + 1)
        BY <3>4 DEF Returns, Reading, Current
      <4>2. Len(out) < n /\ Accepted(msgs[Len(out) + 1])
        BY <3>4, SentInFull DEF Returns, Current
      <4> QED BY <2>1, <2>2, <4>1, <4>2 DEF Chan!Next, Chan!Receive
    <3> QED BY <2>3, <3>1, <3>2, <3>3, <3>4, FramingStep
  <2>4. CASE ~RecvMsg
    <3>1. state' = state /\ out' = out
      BY <1>4, <2>4 DEF Next, PeerCloses, vars
    <3> QED BY <2>1, <2>2, <3>1 DEF Chan!vars
  <2> QED BY <2>3, <2>4
<1> QED BY <1>3, <1>4

(* For every length field and buffer, every limit and every messages, and  *)
(* wherever the stream is cut, recv_msg does what a channel does: it       *)
(* returns the peer's messages in order, each once and none before it has  *)
(* come in full, refuses only what is too long, empty or unexpected, and   *)
(* leaves the stream where the next message begins.                        *)
THEOREM ReceivesInOrder == Spec => Chan!Safety
<1>1. Init => Chan!Init
  BY ChannelInit
<1>2. FramingInv /\ [Next]_vars => [Chan!Next]_(Chan!vars)
  BY ChannelStep
<1> QED BY <1>1, <1>2, FramingInvariant, PTL DEF Spec, Chan!Safety
=============================================================================
