----------------------------- MODULE DivModLemmas -----------------------------
(***************************************************************************)
(* Facts about \div and % with a divisor that is a constant of the code    *)
(* (n_slots, buffer_size, sample_rate, the number of channels, block_size),*)
(* where the provers meet products of unknowns.                            *)
(***************************************************************************)
EXTENDS Integers, TLAPS

(* Quotient and remainder, as integer division in C has them on naturals. *)
LEMMA DivMod ==
  ASSUME NEW a \in Nat, NEW b \in Nat \ {0}
  PROVE  /\ a \div b \in Nat /\ a % b \in 0..b - 1
         /\ a = (a \div b) * b + (a % b)
<1> DEFINE q == a \div b
           r == a % b
<1>1. a = b * q + r /\ q \in Nat /\ r \in 0..b - 1
  OBVIOUS
<1> HIDE DEF q, r
<1>2. a = q * b + r
  BY <1>1
<1> QED
  BY <1>1, <1>2 DEF q, r

(* They are determined by the decomposition. *)
LEMMA DivModUnique ==
  ASSUME NEW b \in Nat \ {0}, NEW q \in Nat, NEW r \in 0..b - 1
  PROVE  (q * b + r) \div b = q /\ (q * b + r) % b = r
OBVIOUS

(* Products with the same factor. *)
LEMMA Products ==
  ASSUME NEW b \in Nat, NEW x \in Nat, NEW y \in Nat
  PROVE  /\ x * b \in Nat /\ (x + y) * b = x * b + y * b
         /\ x <= y => x * b <= y * b
         /\ x < y => x * b + b <= y * b
OBVIOUS

(* Whole multiples of the divisor go to the quotient. *)
LEMMA DivShift ==
  ASSUME NEW b \in Nat \ {0}, NEW t \in Nat, NEW j \in Nat
  PROVE  (t * b + j) \div b = t + j \div b /\ (t * b + j) % b = j % b
<1> DEFINE q == j \div b
           r == j % b
<1>1. j = q * b + r /\ q \in Nat /\ r \in 0..b - 1
  BY DivMod
<1> HIDE DEF q, r
<1>2. t * b + j = (t + q) * b + r /\ t + q \in Nat
  BY <1>1
<1>3. (t * b + j) \div b = t + q /\ (t * b + j) % b = r
  BY <1>1, <1>2, DivModUnique
<1> QED
  BY <1>3 DEF q, r

(* The quotient is below every bound that the dividend is below. *)
LEMMA DivBelow ==
  ASSUME NEW a \in Nat, NEW b \in Nat \ {0}, NEW t \in Nat, a < t * b
  PROVE  a \div b < t
<1> DEFINE q == a \div b
<1>1. q \in Nat /\ q * b <= a
  BY DivMod
<1> HIDE DEF q
<1>2. q < t
  BY <1>1, Products
<1> QED
  BY <1>2 DEF q
=============================================================================
