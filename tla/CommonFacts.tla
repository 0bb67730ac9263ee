---------------------------- MODULE CommonFacts ----------------------------
(***************************************************************************)
(* What the proofs of several components need: induction, as the least     *)
(* number of a set; the arithmetic of indices into rings, where slots,     *)
(* surfaces and rows are found by a remainder whose divisor is a constant  *)
(* of the program; and what the operations on lists keep.                  *)
(***************************************************************************)
EXTENDS Integers, SequencesExt, SequenceTheorems, WellFoundedInduction, TLAPS

-----------------------------------------------------------------------------
(* Numbers *)

LEMMA LeastNumber ==
  ASSUME NEW T, T \subseteq Nat, T # {}
  PROVE  \E x \in T : \A y \in T : x <= y
<1> DEFINE R == OpToRel(<, Nat)
<1>1. IsWellFoundedOn(R, Nat)
  BY NatLessThanWellFounded
<1>2. \A x, y \in Nat : y < x => <<y, x>> \in R
  BY DEF OpToRel
<1> HIDE DEF R
<1>3. PICK x \in T : \A y \in T : <<y, x>> \notin R
  BY <1>1, WFMin
<1>4. x \in Nat /\ \A y \in T : y \in Nat /\ ~(y < x)
  BY <1>2, <1>3
<1> QED
  BY <1>4

LEMMA DivMod ==
  ASSUME NEW a \in Nat, NEW n \in Nat \ {0}
  PROVE  /\ a \div n \in Nat /\ a % n \in 0..n - 1
         /\ a = n * (a \div n) + (a % n)
OBVIOUS

LEMMA Multiple ==
  ASSUME NEW n \in Nat \ {0}, NEW d \in Int
  PROVE  /\ d >= 1 => n * d >= n
         /\ d <= 0 => n * d <= 0
OBVIOUS

(* Less than one round apart is not the same place. *)
LEMMA ModApart ==
  ASSUME NEW a \in Nat, NEW b \in Nat, NEW n \in Nat \ {0}, a < b, b - a < n
  PROVE  a % n # b % n
<1> SUFFICES ASSUME a % n = b % n PROVE FALSE
  OBVIOUS
<1> DEFINE d == (b \div n) - (a \div n)
<1>1. b - a = n * d /\ d \in Int
  BY DivMod
<1> HIDE DEF d
<1>2. d >= 1 \/ d <= 0
  BY <1>1
<1> QED
  BY <1>1, <1>2, Multiple

LEMMA ModUnique ==
  ASSUME NEW a \in Nat, NEW n \in Nat \ {0}, NEW q \in Nat,
         NEW r \in 0..n - 1, a = n * q + r
  PROVE  a % n = r
<1> DEFINE d == q - (a \div n)
<1>1. (a % n) - r = n * d /\ d \in Int
  BY DivMod
<1> HIDE DEF d
<1>2. a % n \in 0..n - 1
  BY DivMod
<1>3. d >= 1 \/ d = 0 \/ -d >= 1
  BY <1>1
<1>4. /\ d >= 1 => n * d >= n
      /\ -d >= 1 => n * (-d) >= n
      /\ d = 0 => n * d = 0
      /\ n * (-d) = -(n * d)
  BY <1>1, Multiple
<1> QED
  BY <1>1, <1>2, <1>3, <1>4

LEMMA ModSmall ==
  ASSUME NEW n \in Nat \ {0}, NEW r \in 0..n - 1 PROVE r % n = r
<1>1. r = n * 0 + r
  OBVIOUS
<1> QED
  BY <1>1, ModUnique

(* One place on. *)
LEMMA ModSucc ==
  ASSUME NEW a \in Nat, NEW n \in Nat \ {0}
  PROVE  (a + 1) % n = IF (a % n) + 1 = n THEN 0 ELSE (a % n) + 1
<1> DEFINE q == a \div n
           r == a % n
<1>1. q \in Nat /\ r \in 0..n - 1 /\ a = n * q + r
  BY DivMod
<1> HIDE DEF q, r
<1>2. ASSUME r + 1 = n PROVE (a + 1) % n = 0
  <2>1. a + 1 = n * (q + 1) + 0
    BY <1>1, <1>2
  <2>2. a + 1 \in Nat /\ q + 1 \in Nat /\ 0 \in 0..n - 1
    BY <1>1
  <2> QED
    BY <2>1, <2>2, ModUnique
<1>3. ASSUME r + 1 # n PROVE (a + 1) % n = r + 1
  <2>1. a + 1 = n * q + (r + 1)
    BY <1>1
  <2>2. a + 1 \in Nat /\ r + 1 \in 0..n - 1
    BY <1>1, <1>3
  <2> QED
    BY <2>1, <2>2, <1>1, ModUnique
<1> QED
  BY <1>2, <1>3 DEF r

(* One round on. *)
LEMMA ModPlus ==
  ASSUME NEW a \in Nat, NEW n \in Nat \ {0}
  PROVE  (a + n) % n = a % n
<1> DEFINE q == a \div n
           r == a % n
<1>1. q \in Nat /\ r \in 0..n - 1 /\ a = n * q + r
  BY DivMod
<1> HIDE DEF q, r
<1>2. a + n = n * (q + 1) + r
  BY <1>1
<1>3. a + n \in Nat /\ q + 1 \in Nat
  BY <1>1
<1>4. (a + n) % n = r
  BY <1>1, <1>2, <1>3, ModUnique
<1> QED
  BY <1>4 DEF r

(* Adding to a remainder. *)
LEMMA ModAdd ==
  ASSUME NEW a \in Nat, NEW k \in Nat, NEW n \in Nat \ {0}
  PROVE  ((a % n) + k) % n = (a + k) % n
<1> DEFINE q == a \div n
           r == a % n
           p == (r + k) \div n
           t == (r + k) % n
<1>1. q \in Nat /\ r \in 0..n - 1 /\ a = n * q + r
  BY DivMod
<1>2. r + k \in Nat
  BY <1>1
<1>3. p \in Nat /\ t \in 0..n - 1 /\ r + k = n * p + t
  BY <1>2, DivMod
<1> HIDE DEF q, r, p, t
<1>4. n * (q + p) = n * q + n * p
  BY <1>1, <1>3
<1>5. a + k = n * (q + p) + t
  <2>1. n * q \in Int /\ n * p \in Int
    BY <1>1, <1>3
  <2> QED
    BY <1>1, <1>3, <1>4, <2>1
<1>6. a + k \in Nat /\ q + p \in Nat
  BY <1>1, <1>3
<1>7. (a + k) % n = t
  BY <1>3, <1>5, <1>6, ModUnique
<1> QED
  BY <1>7 DEF r, t

(* Places of a ring of n places, counted from the place h on. *)
LEMMA RoundFacts ==
  ASSUME NEW n \in Nat \ {0}, NEW h \in 0..n - 1, NEW k \in Nat
  PROVE  /\ (h + k) % n \in 0..n - 1 /\ (h + 1) % n \in 0..n - 1
         /\ (h + 0) % n = h /\ (h + n) % n = h
         /\ (((h + 1) % n) + k) % n = (h + (k + 1)) % n
         /\ (((h + k) % n) + 1) % n = (h + (k + 1)) % n
<1>1. h \in Nat /\ h + k \in Nat /\ h + 1 \in Nat /\ k + 1 \in Nat
      /\ h + 0 = h
  OBVIOUS
<1>2. (h + k) % n \in 0..n - 1
  BY <1>1, DivMod
<1>3. (h + 1) % n \in 0..n - 1
  BY <1>1, DivMod
<1>4. h % n = h
  BY ModSmall
<1>5. (h + n) % n = h
  BY <1>1, <1>4, ModPlus
<1>6. (((h + 1) % n) + k) % n = ((h + 1) + k) % n
  BY <1>1, ModAdd
<1>7. (((h + k) % n) + 1) % n = ((h + k) + 1) % n
  <2>1. h + k \in Nat /\ 1 \in Nat
    BY <1>1
  <2> QED
    BY <2>1, ModAdd, Zenon
<1>8. (h + 1) + k = h + (k + 1) /\ (h + k) + 1 = h + (k + 1)
  BY <1>1
<1> QED
  BY <1>1, <1>2, <1>3, <1>4, <1>5, <1>6, <1>7, <1>8

LEMMA RoundApart ==
  ASSUME NEW n \in Nat \ {0}, NEW h \in 0..n - 1,
         NEW j \in Nat, NEW k \in Nat, j # k, j - k < n, k - j < n
  PROVE  (h + j) % n # (h + k) % n
<1>1. h + j \in Nat /\ h + k \in Nat
  OBVIOUS
<1>2. CASE j < k
  <2>1. h + j < h + k /\ (h + k) - (h + j) < n
    BY <1>2
  <2> QED
    BY <1>1, <2>1, ModApart
<1>3. CASE k < j
  <2>1. h + k < h + j /\ (h + j) - (h + k) < n
    BY <1>3
  <2> QED
    BY <1>1, <2>1, ModApart
<1> QED
  BY <1>2, <1>3

LEMMA RoundReaches ==
  ASSUME NEW n \in Nat \ {0}, NEW h \in 0..n - 1, NEW p \in 0..n - 1
  PROVE  \E k \in 0..n - 1 : (h + k) % n = p
<1>1. p % n = p /\ (p + n) % n = p
  <2>1. p % n = p
    BY ModSmall
  <2>2. p \in Nat
    OBVIOUS
  <2>3. (p + n) % n = p % n
    BY <2>2, ModPlus
  <2> QED
    BY <2>1, <2>3
<1>2. CASE p >= h
  <2>1. p - h \in 0..n - 1 /\ h + (p - h) = p
    BY <1>2
  <2> QED
    BY <2>1, <1>1
<1>3. CASE ~(p >= h)
  <2>1. (p - h) + n \in 0..n - 1 /\ h + ((p - h) + n) = p + n
    BY <1>3
  <2> QED
    BY <2>1, <1>1
<1> QED
  BY <1>2, <1>3

-----------------------------------------------------------------------------
(* Lists *)

LEMMA RemovedAt ==
  ASSUME NEW S, NEW s \in Seq(S), NEW i \in 1..Len(s)
  PROVE  /\ RemoveAt(s, i) \in Seq(S)
         /\ Len(RemoveAt(s, i)) = Len(s) - 1
         /\ \A j \in 1..Len(s) - 1 :
              RemoveAt(s, i)[j] = IF j < i THEN s[j] ELSE s[j + 1]
<1> DEFINE a == SubSeq(s, 1, i - 1)
           b == SubSeq(s, i + 1, Len(s))
<1>1. Len(s) \in Nat
  BY LenProperties
<1>2. a \in Seq(S) /\ Len(a) = i - 1 /\ \A j \in 1..i - 1 : a[j] = s[j]
  BY <1>1
<1>3. /\ b \in Seq(S) /\ Len(b) = Len(s) - i
      /\ \A j \in 1..Len(s) - i : b[j] = s[i + j]
  BY <1>1
<1>4. RemoveAt(s, i) = a \o b
  BY DEF RemoveAt
<1> HIDE DEF a, b
<1>5. /\ a \o b \in Seq(S) /\ Len(a \o b) = Len(s) - 1
      /\ \A j \in 1..Len(s) - 1 :
           (a \o b)[j] = IF j < i THEN a[j] ELSE b[j - (i - 1)]
  <2>1. /\ a \o b \in Seq(S) /\ Len(a \o b) = Len(a) + Len(b)
        /\ \A j \in 1..Len(a) + Len(b) :
             (a \o b)[j] = IF j <= Len(a) THEN a[j] ELSE b[j - Len(a)]
    BY <1>2, <1>3, ConcatProperties
  <2>2. Len(a) + Len(b) = Len(s) - 1
    BY <1>1, <1>2, <1>3
  <2>3. \A j \in 1..Len(s) - 1 : j <= i - 1 <=> j < i
    BY <1>1
  <2> QED
    BY <2>1, <2>2, <2>3, <1>2
<1>6. ASSUME NEW j \in 1..Len(s) - 1
      PROVE  (a \o b)[j] = IF j < i THEN s[j] ELSE s[j + 1]
  <2>1. CASE j < i
    BY <2>1, <1>1, <1>2, <1>5
  <2>2. CASE ~(j < i)
    <3>1. j - (i - 1) \in 1..Len(s) - i /\ i + (j - (i - 1)) = j + 1
      BY <2>2, <1>1
    <3>2. (a \o b)[j] = b[j - (i - 1)]
      BY <2>2, <1>5
    <3>3. b[j - (i - 1)] = s[j + 1]
      BY <3>1, <1>3
    <3> QED
      BY <3>2, <3>3, <2>2
  <2> QED
    BY <1>1, <2>1, <2>2
<1> QED
  BY <1>4, <1>5, <1>6

(* The oldest member of a list without repetition leaves it. *)
LEMMA HeadLeaves ==
  ASSUME NEW S, NEW s \in Seq(S), s # <<>>, IsInjective(s)
  PROVE  /\ Head(s) \in S /\ Tail(s) \in Seq(S) /\ IsInjective(Tail(s))
         /\ Len(Tail(s)) = Len(s) - 1
         /\ \A i \in 1..Len(s) - 1 : Tail(s)[i] = s[i + 1]
         /\ Head(s) = s[1] /\ Len(s) \in Nat \ {0}
         /\ ToSet(s) = ToSet(Tail(s)) \cup {Head(s)}
         /\ Head(s) \notin ToSet(Tail(s))
<1>1. /\ Head(s) \in S /\ Tail(s) \in Seq(S)
      /\ Len(Tail(s)) = Len(s) - 1
      /\ \A i \in 1..Len(s) - 1 : Tail(s)[i] = s[i + 1]
      /\ Head(s) = s[1] /\ Len(s) \in Nat \ {0}
  BY HeadTailProperties, EmptySeq
<1>2. DOMAIN s = 1..Len(s) /\ DOMAIN Tail(s) = 1..Len(s) - 1
  BY <1>1, LenProperties
<1>3. ASSUME NEW a \in 1..Len(s) - 1, NEW b \in 1..Len(s) - 1,
             Tail(s)[a] = Tail(s)[b]
      PROVE  a = b
  <2>1. s[a + 1] = s[b + 1] /\ a + 1 \in 1..Len(s) /\ b + 1 \in 1..Len(s)
    BY <1>1, <1>3
  <2>2. a + 1 = b + 1
    BY <2>1, <1>2 DEF IsInjective
  <2> QED
    BY <2>2
<1>4. ASSUME NEW a \in 1..Len(s) - 1 PROVE Tail(s)[a] # Head(s)
  <2>1. Tail(s)[a] = s[a + 1] /\ a + 1 \in 1..Len(s) /\ a + 1 # 1
        /\ 1 \in 1..Len(s)
    BY <1>1
  <2> QED
    BY <2>1, <1>1, <1>2 DEF IsInjective
<1>5. ToSet(s) = ToSet(Tail(s)) \cup {Head(s)}
  <2>1. ASSUME NEW x \in 1..Len(s) PROVE s[x] \in ToSet(Tail(s)) \cup {Head(s)}
    <3>1. CASE x = 1
      BY <3>1, <1>1
    <3>2. CASE x # 1
      <4>1. x - 1 \in 1..Len(s) - 1 /\ Tail(s)[x - 1] = s[x]
        BY <3>2, <1>1
      <4> QED
        BY <4>1, <1>2 DEF ToSet
    <3> QED
      BY <3>1, <3>2
  <2>2. ASSUME NEW x \in 1..Len(s) - 1 PROVE Tail(s)[x] \in ToSet(s)
    <3>1. x + 1 \in 1..Len(s) /\ Tail(s)[x] = s[x + 1]
      BY <1>1
    <3> QED
      BY <3>1, <1>2 DEF ToSet
  <2>3. Head(s) \in ToSet(s)
    BY <1>1, <1>2 DEF ToSet
  <2> QED
    BY <2>1, <2>2, <2>3, <1>2 DEF ToSet
<1> QED
  BY <1>1, <1>2, <1>3, <1>4, <1>5, SMTT(30) DEF IsInjective, ToSet

(* A member that is not in the list joins it. *)
LEMMA LastJoins ==
  ASSUME NEW S, NEW s \in Seq(S), NEW x \in S, x \notin ToSet(s),
         IsInjective(s)
  PROVE  /\ Append(s, x) \in Seq(S) /\ IsInjective(Append(s, x))
         /\ Len(Append(s, x)) = Len(s) + 1 /\ Len(s) \in Nat
         /\ \A i \in 1..Len(s) : Append(s, x)[i] = s[i]
         /\ Append(s, x)[Len(s) + 1] = x
         /\ ToSet(Append(s, x)) = ToSet(s) \cup {x}
<1> DEFINE t == Append(s, x)
<1>1. /\ t \in Seq(S) /\ Len(t) = Len(s) + 1 /\ Len(s) \in Nat
      /\ \A i \in 1..Len(s) : t[i] = s[i]
      /\ t[Len(s) + 1] = x
  BY AppendProperties, LenProperties
<1>2. DOMAIN s = 1..Len(s) /\ DOMAIN t = 1..Len(s) + 1
  BY <1>1, LenProperties
<1> HIDE DEF t
<1>3. \A i \in 1..Len(s) + 1 : i \in 1..Len(s) \/ i = Len(s) + 1
  BY <1>1
<1>4. Len(s) + 1 \in 1..Len(s) + 1 /\ 1..Len(s) \subseteq 1..Len(s) + 1
  BY <1>1
<1>5. \A i \in 1..Len(s) : t[i] # x
  BY <1>1, <1>2 DEF ToSet
<1>6. IsInjective(t)
  BY <1>1, <1>2, <1>3, <1>5 DEF IsInjective
<1>7. ToSet(t) = ToSet(s) \cup {x}
  BY <1>1, <1>2, <1>3, <1>4 DEF ToSet
<1> QED
  BY <1>1, <1>6, <1>7 DEF t

LEMMA PrefixByMembers ==
  ASSUME NEW S, NEW s \in Seq(S), NEW t \in Seq(S), Len(s) <= Len(t),
         \A i \in 1..Len(s) : s[i] = t[i]
  PROVE  IsPrefix(s, t)
<1> DEFINE n == Len(s)
           a == SubSeq(s, 1, n)
           b == SubSeq(t, 1, n)
<1>1. n \in Nat /\ Len(t) \in Nat /\ n <= Len(t) /\ n \in Int /\ 1 \in Int
      /\ n - 1 + 1 = n
  BY LenProperties
<1>2. \A i \in 1..n : s[i] \in S /\ t[i] \in S
  BY <1>1, ElementOfSeq
<1>3. a = s
  BY SubSeqFull
<1>4. /\ b \in Seq(S) /\ Len(b) = (IF 1 <= n THEN n - 1 + 1 ELSE 0)
      /\ \A i \in 1..n - 1 + 1 : b[i] = t[1 + i - 1]
  BY <1>1, <1>2, SubSeqProperties
<1> HIDE DEF a, b
<1>5. Len(b) = n /\ \A i \in 1..n : b[i] = s[i]
  <2>1. \A i \in 1..n : i \in 1..n - 1 + 1 /\ 1 + i - 1 = i
    BY <1>1
  <2> QED
    BY <2>1, <1>1, <1>4
<1>6. b = s
  BY <1>4, <1>5, SeqEqual
<1> QED
  BY <1>1, <1>3, <1>6 DEF IsPrefix, a, b
=============================================================================
