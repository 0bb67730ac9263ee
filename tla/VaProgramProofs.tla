--------------------------- MODULE VaProgramProofs ---------------------------
(***************************************************************************)
(* Proofs about what VaPrograms runs: the VA-API player, for any number of *)
(* surfaces, of entries and of packets; what the encoder agrees with the   *)
(* driver; the buffer of its bit writer, for words and steps of any size;  *)
(* and the programs together, with the theorems about the two threads of   *)
(* the encoder.                                                            *)
(***************************************************************************)
EXTENDS VaPrograms, EncodePipelineProofs, FiniteSetTheorems

-----------------------------------------------------------------------------
(* The ring of surfaces *)

(* The k-th place from the head h on. *)
Place(h, k) == (h + k) % surface_nums

LEMMA PlaceFacts ==
  ASSUME NEW h \in Surfaces, NEW k \in Nat
  PROVE  /\ Place(h, k) \in Surfaces
         /\ Place(h, 0) = h /\ Place(h, surface_nums) = h
         /\ Advance(h) \in Surfaces
         /\ Place(Advance(h), k) = Place(h, k + 1)
         /\ Advance(Place(h, k)) = Place(h, k + 1)
<1>1. h \in 0..surface_nums - 1 /\ surface_nums \in Nat \ {0}
  BY SurfaceNumsPositive DEF Surfaces
<1> QED
  BY <1>1, RoundFacts DEF Place, Advance, Surfaces

LEMMA PlacesApart ==
  ASSUME NEW h \in Surfaces, NEW j \in Nat, NEW k \in Nat, j # k,
         j - k < surface_nums, k - j < surface_nums
  PROVE  Place(h, j) # Place(h, k)
<1>1. h \in 0..surface_nums - 1 /\ surface_nums \in Nat \ {0}
  BY SurfaceNumsPositive DEF Surfaces
<1> QED
  BY <1>1, RoundApart DEF Place

Loan == [surface : Surfaces, picture : 1..MaxPackets, due : BOOLEAN]

RingTyped ==
  /\ surface_ids \in [Surfaces -> Surfaces]
  /\ surface_head \in Surfaces /\ surface_tail \in Surfaces
  /\ lent \in Seq(Loan) /\ Len(lent) <= surface_nums
  /\ drawn \in [Surfaces -> 0..MaxPackets]

Lent(i) == lent[i].surface
Free(k) == surface_ids[Place(surface_head, k)]
Loans == 1..Len(lent)
Frees == 0..surface_nums - 1 - Len(lent)

(* The tail is where the next released surface belongs, as many places     *)
(* behind the head as there are free surfaces; the free places hold        *)
(* different surfaces, the loans have others, and together they are all.   *)
RingSound ==
  /\ RingTyped
  /\ surface_tail = Place(surface_head, surface_nums - Len(lent))
  /\ \A i, k \in Loans : i # k => Lent(i) # Lent(k)
  /\ \A i, k \in Frees : i # k => Free(i) # Free(k)
  /\ \A i \in Loans, k \in Frees : Lent(i) # Free(k)
  /\ \A s \in Surfaces :
       (\E i \in Loans : Lent(i) = s) \/ (\E k \in Frees : Free(k) = s)
  /\ \A i \in Loans : drawn[Lent(i)] = lent[i].picture

LEMMA LoansTyped ==
  ASSUME RingTyped, NEW i \in Loans
  PROVE  lent[i] \in Loan /\ Lent(i) \in Surfaces
<1>1. lent[i] \in Loan
  BY ElementOfSeq DEF RingTyped, Loans
<1> QED
  BY <1>1 DEF Loan, Lent

LEMMA RingStarts == RingInit => RingSound
<1> SUFFICES ASSUME RingInit PROVE RingSound
  OBVIOUS
<1> USE SurfaceNumsPositive, PoolAssumption DEF RingInit
<1>1. Len(lent) = 0 /\ lent \in Seq(Loan) /\ Loans = {}
      /\ Frees = 0..surface_nums - 1
  BY EmptySeq DEF Loans, Frees
<1>2. 0 \in Surfaces
  BY DEF Surfaces
<1>3. RingTyped
  BY <1>1, <1>2 DEF RingTyped
<1>4. surface_tail = Place(surface_head, surface_nums - Len(lent))
  <2>1. Place(0, surface_nums) = 0
    BY <1>2, PlaceFacts
  <2> QED
    BY <2>1, <1>1
<1>5. ASSUME NEW k \in Frees PROVE Free(k) = k
  <2>1. 0 + k = k /\ k \in 0..surface_nums - 1 /\ k \in Surfaces
    BY <1>1 DEF Surfaces
  <2>2. Place(surface_head, k) = k
    BY <2>1, ModSmall DEF Place
  <2> QED
    BY <2>1, <2>2 DEF Free
<1> QED
  BY <1>1, <1>3, <1>4, <1>5 DEF RingSound, Surfaces

(* What the codec borrows is at the head. *)
LEMMA RingLends ==
  ASSUME RingSound, NEW p \in 1..MaxPackets, get_buffer(p)
  PROVE  RingSound'
<1> USE SurfaceNumsPositive, PoolAssumption
<1>a. RingTyped /\ Len(lent) \in Nat
  BY LenProperties DEF RingSound, RingTyped
<1>b. PICK n \in Nat : n = Len(lent)
  BY <1>a
<1>c. PICK new : new = surface_ids[surface_head]
  OBVIOUS
<1> DEFINE loan == [surface |-> new, picture |-> p, due |-> TRUE]
<1>1. RingTyped /\ n \in Nat /\ n < surface_nums /\ n = Len(lent)
      /\ surface_head \in Surfaces /\ Loans = 1..n
      /\ Frees = 0..surface_nums - 1 - n
  BY <1>a, <1>b DEF RingTyped, get_buffer, Loans, Frees
<1>2. new \in Surfaces /\ loan \in Loan
  BY <1>1, <1>c DEF RingTyped, Loan
<1>3. /\ lent' = Append(lent, loan)
      /\ drawn' = [drawn EXCEPT ![new] = p]
      /\ surface_head' = Advance(surface_head)
      /\ surface_ids' = surface_ids /\ surface_tail' = surface_tail
  BY <1>c DEF get_buffer
<1>4. /\ lent' \in Seq(Loan) /\ Len(lent') = n + 1
      /\ lent'[n + 1] = loan /\ \A i \in 1..n : lent'[i] = lent[i]
  BY <1>1, <1>2, <1>3, AppendProperties DEF RingTyped
<1>5. Loans' = 1..n + 1 /\ Frees' = 0..surface_nums - 1 - (n + 1)
  BY <1>4 DEF Loans, Frees
<1>6. Lent(n + 1)' = new /\ \A i \in Loans : Lent(i)' = Lent(i)
  BY <1>1, <1>4 DEF Lent
<1>7. surface_head' \in Surfaces
  BY <1>1, <1>3, PlaceFacts
<1>8. \A k \in Nat : Free(k)' = Free(k + 1)
  BY <1>1, <1>3, PlaceFacts DEF Free
<1>9. new = Free(0) /\ 0 \in Frees
  <2>1. Place(surface_head, 0) = surface_head
    BY <1>1, PlaceFacts
  <2> QED
    BY <2>1, <1>1, <1>c DEF Free
<1>10. \A k \in Frees' : k + 1 \in Frees /\ k + 1 # 0 /\ k \in Nat
  BY <1>1, <1>5
<1>11. \A i \in Loans' : i \in Loans \/ i = n + 1
  BY <1>1, <1>5
<1>12. n + 1 \in Loans' /\ \A i \in Loans : i \in Loans' /\ i # n + 1
  BY <1>1, <1>5
<1>13. RingTyped'
  <2>1. drawn' \in [Surfaces -> 0..MaxPackets]
    BY <1>1, <1>2, <1>3 DEF RingTyped
  <2> QED
    BY <2>1, <1>1, <1>3, <1>4, <1>7 DEF RingTyped
<1>14. surface_tail' = Place(surface_head', surface_nums - Len(lent'))
  <2>1. surface_nums - (n + 1) \in Nat
        /\ (surface_nums - (n + 1)) + 1 = surface_nums - n
    BY <1>1
  <2>2. Place(Advance(surface_head), surface_nums - (n + 1))
          = Place(surface_head, surface_nums - n)
    BY <2>1, <1>1, PlaceFacts
  <2> QED
    BY <2>2, <1>3, <1>4 DEF RingSound
<1>15. \A i, k \in Loans' : i # k => Lent(i)' # Lent(k)'
  BY <1>6, <1>9, <1>11 DEF RingSound
<1>16. \A i, k \in Frees' : i # k => Free(i)' # Free(k)'
  BY <1>8, <1>10, SMTT(30) DEF RingSound
<1>17. \A i \in Loans', k \in Frees' : Lent(i)' # Free(k)'
  <2> SUFFICES ASSUME NEW i \in Loans', NEW k \in Frees'
               PROVE  Lent(i)' # Free(k)'
    OBVIOUS
  <2>1. Free(k)' = Free(k + 1) /\ k + 1 \in Frees /\ k + 1 # 0
    BY <1>8, <1>10
  <2>2. CASE i \in Loans
    BY <2>1, <2>2, <1>6 DEF RingSound
  <2>3. CASE i = n + 1
    BY <2>1, <2>3, <1>6, <1>9 DEF RingSound
  <2> QED
    BY <2>2, <2>3, <1>11
<1>18. ASSUME NEW s \in Surfaces
       PROVE  \/ \E i \in Loans' : Lent(i)' = s
              \/ \E k \in Frees' : Free(k)' = s
  <2>1. CASE \E i \in Loans : Lent(i) = s
    BY <2>1, <1>6, <1>12
  <2>2. CASE \E k \in Frees : Free(k) = s
    <3>1. PICK k \in Frees : Free(k) = s
      BY <2>2
    <3>2. CASE k = 0
      BY <3>1, <3>2, <1>6, <1>9, <1>12
    <3>3. CASE k # 0
      <4>1. k - 1 \in Frees' /\ k - 1 \in Nat /\ (k - 1) + 1 = k
        BY <3>3, <1>1, <1>5
      <4> QED
        BY <4>1, <3>1, <1>8
    <3> QED
      BY <3>2, <3>3
  <2> QED
    BY <2>1, <2>2 DEF RingSound
<1>19. \A i \in Loans' : drawn'[Lent(i)'] = lent'[i].picture
  <2>1. drawn' \in [Surfaces -> 0..MaxPackets] /\ drawn'[new] = p
    BY <1>1, <1>2, <1>3 DEF RingTyped
  <2>2. ASSUME NEW i \in Loans PROVE drawn'[Lent(i)] = lent[i].picture
    <3>1. Lent(i) # new
      BY <1>9 DEF RingSound
    <3>2. Lent(i) \in Surfaces
      BY <1>1, LoansTyped
    <3>3. drawn'[Lent(i)] = drawn[Lent(i)]
      BY <3>1, <3>2, <1>1, <1>3 DEF RingTyped
    <3> QED
      BY <3>3 DEF RingSound
  <2> QED
    BY <2>1, <2>2, <1>1, <1>4, <1>6, <1>11
<1> QED
  BY <1>13, <1>14, <1>15, <1>16, <1>17, <1>18, <1>19 DEF RingSound, Surfaces

(* A loan that fails goes behind the last free surface. *)
LEMMA RingSkips ==
  ASSUME RingSound, get_buffer_fails
  PROVE  RingSound'
<1> USE SurfaceNumsPositive, PoolAssumption
<1> DEFINE n == Len(lent)
           N == surface_nums
<1>1. RingTyped /\ n \in Nat /\ n < N
      /\ surface_head \in Surfaces /\ surface_tail \in Surfaces
      /\ Loans = 1..n /\ Frees = 0..N - 1 - n
  BY LenProperties DEF RingSound, RingTyped, get_buffer_fails, Loans, Frees
<1>2. /\ surface_head' = Advance(surface_head)
      /\ surface_tail' = Advance(surface_tail)
      /\ surface_ids' = [surface_ids EXCEPT
                           ![surface_tail] = surface_ids[surface_head]]
      /\ lent' = lent /\ drawn' = drawn
  BY DEF get_buffer_fails
<1>3. surface_head' \in Surfaces /\ surface_tail' \in Surfaces
  BY <1>1, <1>2, PlaceFacts
<1>4. RingTyped'
  <2>1. surface_ids[surface_head] \in Surfaces
    BY <1>1 DEF RingTyped
  <2>2. surface_ids' \in [Surfaces -> Surfaces]
    BY <2>1, <1>1, <1>2 DEF RingTyped
  <2> QED
    BY <2>2, <1>1, <1>2, <1>3 DEF RingTyped
<1>5. surface_tail = Place(surface_head, N - n) /\ N - n \in Nat
  BY <1>1 DEF RingSound
<1>6. surface_tail' = Place(surface_head', N - Len(lent'))
  <2>1. Advance(Place(surface_head, N - n)) = Place(surface_head, (N - n) + 1)
    BY <1>1, <1>5, PlaceFacts
  <2>2. Place(Advance(surface_head), N - n) = Place(surface_head, (N - n) + 1)
    BY <1>1, <1>5, PlaceFacts
  <2> QED
    BY <2>1, <2>2, <1>2, <1>5
<1>7. Loans' = Loans /\ Frees' = Frees /\ \A i \in Loans : Lent(i)' = Lent(i)
  BY <1>2 DEF Loans, Frees, Lent
<1> DEFINE from(k) == IF k = N - 1 - n THEN 0 ELSE k + 1
<1>8. ASSUME NEW k \in Frees PROVE Free(k)' = Free(from(k))
  <2>1. k \in Nat /\ Free(k)' = surface_ids'[Place(surface_head, k + 1)]
    BY <1>1, <1>2, PlaceFacts DEF Free
  <2>2. Place(surface_head, k + 1) \in Surfaces
    BY <2>1, <1>1, PlaceFacts
  <2>3. CASE k = N - 1 - n
    <3>1. k + 1 = N - n
      BY <2>3, <1>1
    <3>2. Free(k)' = surface_ids[surface_head]
      BY <2>1, <2>2, <3>1, <1>1, <1>2, <1>5 DEF RingTyped
    <3>3. Place(surface_head, 0) = surface_head
      BY <1>1, PlaceFacts
    <3> QED
      BY <2>3, <3>2, <3>3 DEF Free
  <2>4. CASE k # N - 1 - n
    <3>1. /\ k + 1 \in Nat /\ k + 1 # N - n
          /\ (k + 1) - (N - n) < N /\ (N - n) - (k + 1) < N
      BY <2>1, <2>4, <1>1
    <3>2. Place(surface_head, k + 1) # surface_tail
      BY <3>1, <1>1, <1>5, PlacesApart
    <3> QED
      BY <2>1, <2>2, <2>4, <3>2, <1>1, <1>2 DEF RingTyped, Free
  <2> QED
    BY <2>3, <2>4
<1>9. \A k \in Frees : from(k) \in Frees
  BY <1>1
<1>10. \A i, k \in Frees : i # k => from(i) # from(k)
  BY <1>1
<1>11. \A k \in Frees : \E i \in Frees : from(i) = k
  <2> SUFFICES ASSUME NEW k \in Frees PROVE \E i \in Frees : from(i) = k
    OBVIOUS
  <2>1. CASE k = 0
    <3>1. N - 1 - n \in Frees /\ from(N - 1 - n) = k
      BY <2>1, <1>1
    <3> QED
      BY <3>1
  <2>2. CASE k # 0
    <3>1. k - 1 \in Frees /\ from(k - 1) = k
      BY <2>2, <1>1
    <3> QED
      BY <3>1
  <2> QED
    BY <2>1, <2>2
<1> HIDE DEF from
<1>12. \A i, k \in Loans' : i # k => Lent(i)' # Lent(k)'
  BY <1>7 DEF RingSound
<1>13. \A i, k \in Frees' : i # k => Free(i)' # Free(k)'
  BY <1>7, <1>8, <1>9, <1>10 DEF RingSound
<1>14. \A i \in Loans', k \in Frees' : Lent(i)' # Free(k)'
  BY <1>7, <1>8, <1>9 DEF RingSound
<1>15. \A s \in Surfaces : \/ \E i \in Loans' : Lent(i)' = s
                           \/ \E k \in Frees' : Free(k)' = s
  <2> SUFFICES ASSUME NEW s \in Surfaces, NEW k \in Frees, Free(k) = s
               PROVE  \E j \in Frees' : Free(j)' = s
    BY <1>7 DEF RingSound
  <2> QED
    BY <1>7, <1>8, <1>11
<1>16. \A i \in Loans' : drawn'[Lent(i)'] = lent'[i].picture
  BY <1>2, <1>7 DEF RingSound
<1> QED
  BY <1>4, <1>6, <1>12, <1>13, <1>14, <1>15, <1>16 DEF RingSound, Surfaces

(* What the codec gives back, whichever it is, becomes the last free one.  *)
LEMMA RingTakesBack ==
  ASSUME RingSound, NEW i \in DOMAIN lent, release_buffer(i)
  PROVE  RingSound'
<1> USE SurfaceNumsPositive, PoolAssumption
<1> DEFINE N == surface_nums
<1>a. RingTyped /\ Len(lent) \in Nat /\ i \in 1..Len(lent)
  BY LenProperties DEF RingSound, RingTyped
<1>b. PICK n \in Nat : n = Len(lent)
  BY <1>a
<1>1. RingTyped /\ n \in Nat \ {0} /\ n <= N /\ n = Len(lent)
      /\ surface_head \in Surfaces /\ surface_tail \in Surfaces
      /\ Loans = 1..n /\ Frees = 0..N - 1 - n /\ i \in Loans
  BY <1>a, <1>b DEF RingTyped, Loans, Frees
<1>2. /\ surface_head' = surface_head
      /\ surface_tail' = Advance(surface_tail)
      /\ surface_ids' = [surface_ids EXCEPT ![surface_tail] = Lent(i)]
      /\ lent' = RemoveAt(lent, i) /\ drawn' = drawn
  BY DEF release_buffer, Lent
<1> DEFINE from(j) == IF j < i THEN j ELSE j + 1
<1>3. /\ lent' \in Seq(Loan) /\ Len(lent') = n - 1
      /\ \A j \in 1..n - 1 : lent'[j] = IF j < i THEN lent[j] ELSE lent[j + 1]
  <2>1. lent \in Seq(Loan) /\ i \in 1..Len(lent)
    BY <1>1 DEF RingTyped
  <2> QED
    BY <2>1, <1>1, <1>2, RemovedAt
<1>4. Loans' = 1..n - 1 /\ Frees' = 0..N - n
  BY <1>1, <1>3 DEF Loans, Frees
<1>5. \A j \in Loans' : /\ from(j) \in Loans /\ from(j) # i
                        /\ lent'[j] = lent[from(j)]
  <2> SUFFICES ASSUME NEW j \in Loans'
               PROVE  /\ from(j) \in Loans /\ from(j) # i
                      /\ lent'[j] = lent[from(j)]
    OBVIOUS
  <2>1. j \in 1..n - 1
    BY <1>4
  <2>2. lent'[j] = lent[from(j)]
    BY <2>1, <1>3
  <2> QED
    BY <2>1, <2>2, <1>1
<1>6. \A j, k \in Loans' : j # k => from(j) # from(k)
  BY <1>1, <1>4
<1>7. \A k \in Loans : k # i => \E j \in Loans' : from(j) = k
  <2> SUFFICES ASSUME NEW k \in Loans, k # i
               PROVE  \E j \in Loans' : from(j) = k
    OBVIOUS
  <2>1. CASE k < i
    <3>1. k \in Loans' /\ from(k) = k
      BY <2>1, <1>1, <1>4
    <3> QED
      BY <3>1
  <2>2. CASE k > i
    <3>1. k - 1 \in Loans' /\ from(k - 1) = k
      BY <2>2, <1>1, <1>4
    <3> QED
      BY <3>1
  <2> QED
    BY <2>1, <2>2, <1>1
<1> HIDE DEF from
<1>8. Lent(i) \in Surfaces
  BY <1>1, LoansTyped
<1>9. RingTyped'
  <2>1. surface_tail' \in Surfaces
    BY <1>1, <1>2, PlaceFacts
  <2>2. surface_ids' \in [Surfaces -> Surfaces]
    BY <1>1, <1>2, <1>8 DEF RingTyped
  <2> QED
    BY <2>1, <2>2, <1>1, <1>2, <1>3 DEF RingTyped
<1>10. surface_tail = Place(surface_head, N - n) /\ N - n \in Nat
  BY <1>1 DEF RingSound
<1>11. surface_tail' = Place(surface_head', N - Len(lent'))
  <2>1. Advance(Place(surface_head, N - n)) = Place(surface_head, (N - n) + 1)
    BY <1>1, <1>10, PlaceFacts
  <2>2. (N - n) + 1 = N - (n - 1)
    BY <1>1
  <2> QED
    BY <2>1, <2>2, <1>2, <1>3, <1>10
<1>12. Free(N - n)' = Lent(i)
  BY <1>1, <1>2, <1>8, <1>10 DEF RingTyped, Free
<1>13. ASSUME NEW k \in Frees PROVE Free(k)' = Free(k)
  <2>1. k \in Nat /\ k # N - n /\ k - (N - n) < N /\ (N - n) - k < N
    BY <1>1
  <2>2. Place(surface_head, k) # surface_tail
    BY <2>1, <1>1, <1>10, PlacesApart
  <2>3. Place(surface_head, k) \in Surfaces
    BY <2>1, <1>1, PlaceFacts
  <2> QED
    BY <2>2, <2>3, <1>1, <1>2 DEF RingTyped, Free
<1>14. \A k \in Frees' : k \in Frees \/ k = N - n
  BY <1>1, <1>4
<1>15. N - n \in Frees' /\ \A k \in Frees : k \in Frees'
  BY <1>1, <1>4
<1>16. \A j \in Loans' : Lent(j)' = Lent(from(j))
  BY <1>5 DEF Lent
<1>17. \A j, k \in Loans' : j # k => Lent(j)' # Lent(k)'
  BY <1>5, <1>6, <1>16 DEF RingSound
<1>18. \A j, k \in Frees' : j # k => Free(j)' # Free(k)'
  <2>1. \A j \in Frees, k \in Frees : j # k => Free(j)' # Free(k)'
    BY <1>13 DEF RingSound
  <2>2. \A j \in Frees : Free(j)' # Free(N - n)'
    BY <1>1, <1>12, <1>13 DEF RingSound
  <2> QED
    BY <2>1, <2>2, <1>14
<1>19. \A j \in Loans', k \in Frees' : Lent(j)' # Free(k)'
  BY <1>1, <1>5, <1>12, <1>13, <1>14, <1>16, SMTT(30) DEF RingSound
<1>20. \A s \in Surfaces : \/ \E j \in Loans' : Lent(j)' = s
                           \/ \E k \in Frees' : Free(k)' = s
  <2> SUFFICES ASSUME NEW s \in Surfaces
               PROVE  \/ \E j \in Loans' : Lent(j)' = s
                      \/ \E k \in Frees' : Free(k)' = s
    OBVIOUS
  <2>1. CASE Lent(i) = s
    BY <2>1, <1>12, <1>15
  <2>2. CASE \E k \in Loans : k # i /\ Lent(k) = s
    BY <2>2, <1>7, <1>16
  <2>3. CASE \E k \in Frees : Free(k) = s
    BY <2>3, <1>13, <1>15
  <2> QED
    BY <2>1, <2>2, <2>3 DEF RingSound
<1>21. \A j \in Loans' : drawn'[Lent(j)'] = lent'[j].picture
  BY <1>2, <1>5, <1>16 DEF RingSound
<1> QED
  BY <1>9, <1>11, <1>17, <1>18, <1>19, <1>20, <1>21 DEF RingSound, Surfaces

(* To return a picture changes no loan. *)
LEMMA RingReturns ==
  ASSUME RingSound, NEW i \in DOMAIN lent,
         lent' = [lent EXCEPT ![i].due = FALSE],
         UNCHANGED <<surface_ids, surface_head, surface_tail, drawn>>
  PROVE  RingSound'
<1>1. lent \in Seq(Loan) /\ i \in 1..Len(lent)
  BY LenProperties DEF RingSound, RingTyped
<1> DEFINE loan == [lent[i] EXCEPT !.due = FALSE]
<1>2. lent[i] \in Loan
  BY <1>1, ElementOfSeq
<1>3. loan \in Loan /\ loan.surface = Lent(i)
      /\ loan.picture = lent[i].picture
  BY <1>2 DEF Loan, Lent
<1>4. lent' = [lent EXCEPT ![i] = loan]
  OBVIOUS
<1> HIDE DEF loan
<1>5. /\ lent' \in Seq(Loan) /\ Len(lent') = Len(lent)
      /\ \A j \in 1..Len(lent) : lent'[j] = IF j = i THEN loan ELSE lent[j]
  <2>1. /\ [lent EXCEPT ![i] = loan] \in Seq(Loan)
        /\ Len([lent EXCEPT ![i] = loan]) = Len(lent)
        /\ \A j \in 1..Len(lent) :
             [lent EXCEPT ![i] = loan][j] = IF j = i THEN loan ELSE lent[j]
    BY <1>1, <1>3, ExceptSeq
  <2> QED
    BY <2>1, <1>4
<1>6. RingTyped'
  BY <1>5 DEF RingSound, RingTyped
<1>7. Loans' = Loans /\ Frees' = Frees
  BY <1>5 DEF Loans, Frees
<1>8. \A j \in Loans : Lent(j)' = Lent(j) /\ lent'[j].picture = lent[j].picture
  BY <1>3, <1>5 DEF Lent, Loans
<1>9. \A k \in Frees : Free(k)' = Free(k)
  BY DEF Free
<1> QED
  BY <1>5, <1>6, <1>7, <1>8, <1>9 DEF RingSound

LEMMA RingSafe == RingSound => SurfacesApart
<1> SUFFICES ASSUME RingSound PROVE SurfacesApart
  OBVIOUS
<1>1. DOMAIN lent = Loans
  BY LenProperties DEF RingSound, RingTyped, Loans
<1>2. FreePlaces = {Place(surface_head, k) : k \in Frees}
  BY DEF FreePlaces, Place, Frees
<1>3. {surface_ids[p] : p \in FreePlaces} = {Free(k) : k \in Frees}
  BY <1>2 DEF Free
<1>4. {lent[i].surface : i \in DOMAIN lent} = {Lent(i) : i \in Loans}
  BY <1>1 DEF Lent
<1>5. \A i \in Loans : Lent(i) \in Surfaces
  BY LoansTyped DEF RingSound
<1>6. \A k \in Frees : Free(k) \in Surfaces
  <2> SUFFICES ASSUME NEW k \in Frees PROVE Free(k) \in Surfaces
    OBVIOUS
  <2>1. k \in Nat
    BY SurfaceNumsPositive, LenProperties DEF Frees
  <2>2. Place(surface_head, k) \in Surfaces
    BY <2>1, PlaceFacts DEF RingSound, RingTyped
  <2> QED
    BY <2>2 DEF RingSound, RingTyped, Free
<1>7. {Lent(i) : i \in Loans} \cup {Free(k) : k \in Frees} = Surfaces
  BY <1>5, <1>6 DEF RingSound
<1> QED
  BY <1>1, <1>3, <1>4, <1>7 DEF RingSound, SurfacesApart, Lent

-----------------------------------------------------------------------------
(* The invariants of the two threads *)

Queued == ToSet(image_queue)
Empty == ToSet(image_empty)

PlayerTyped ==
  /\ process \in {"running", "failed", "exited", "returned"}
  /\ dec \in {"read", "decode", "decoded", "take", "create", "put", "done"}
  /\ show \in {"test", "deque", "show", "unmapped", "drain", "drainShow",
               "drainUnmapped", "destroy", "done"}
  /\ decodeThreadExit \in BOOLEAN
  /\ image_queue \in Seq(Entries) /\ image_empty \in Seq(Entries)
  /\ decEntry \in Entries \cup {NoEntry}
  /\ showEntry \in Entries \cup {NoEntry}
  /\ asleep \subseteq {"decoder", "display"}
  /\ image_id \in [Entries -> {"malloc", "live", "destroyed"}]
  /\ data \in [Entries -> 0..MaxPackets]
  /\ packets \in 0..MaxPackets
  /\ dec = "decode" => packets >= 1
  /\ pFrame \in Surfaces
  /\ returned \in Seq(1..MaxPackets) /\ shown \in Seq(1..MaxPackets)

(* What the place of a thread says of its hands, of the flag, and of the   *)
(* place of the other.                                                     *)
Placed ==
  /\ decEntry # NoEntry <=> dec \in {"create", "put"}
  /\ showEntry # NoEntry <=>
       show \in {"show", "unmapped", "drainShow", "drainUnmapped"}
  /\ decodeThreadExit <=> dec = "done"
  /\ show \in {"drain", "drainShow", "drainUnmapped", "destroy", "done"} =>
       dec = "done"

(* EntriesKept, by sets. *)
Kept ==
  /\ IsInjective(image_queue) /\ IsInjective(image_empty)
  /\ \A e \in Entries :
       /\ ~(e \in Queued /\ e \in Empty)
       /\ decEntry = e => e \notin Queued /\ e \notin Empty
       /\ showEntry = e => e \notin Queued /\ e \notin Empty /\ decEntry # e
       /\ show \notin {"destroy", "done"} =>
            decEntry = e \/ showEntry = e \/ e \in Queued \/ e \in Empty
       /\ image_id[e] = "live" <=>
            \/ e \in Queued
            \/ decEntry = e /\ dec = "put"
            \/ showEntry = e /\ show \in {"show", "drainShow"}

Asleep ==
  /\ "decoder" \in asleep => dec = "take" /\ image_empty = <<>>
  /\ "display" \in asleep => show = "deque" /\ image_queue = <<>>

(* The pictures between the codec and the screen: one in the hands of the  *)
(* display, those that are queued, and one in the hands of the decoder.    *)
AtDisplay == IF show \in {"show", "drainShow"} THEN 1 ELSE 0
AtDecoder == IF dec \in {"take", "create", "put"} THEN 1 ELSE 0

InTransit ==
  /\ Len(returned) = Len(shown) + AtDisplay + Len(image_queue) + AtDecoder
  /\ AtDisplay = 1 => data[showEntry] = returned[Len(shown) + 1]
  /\ \A i \in 1..Len(image_queue) :
       data[image_queue[i]] = returned[Len(shown) + AtDisplay + i]
  /\ dec \in {"take", "create"} => drawn[pFrame] = returned[Len(returned)]
  /\ dec = "put" => data[decEntry] = returned[Len(returned)]

PictureLedger ==
  /\ process = "running" => InTransit
  /\ Len(shown) <= Len(returned)
  /\ \A i \in 1..Len(shown) : shown[i] = returned[i]

PlayerInv == RingSound /\ PlayerTyped /\ Placed /\ Kept /\ Asleep /\ PictureLedger

LEMMA Lengths ==
  ASSUME PlayerTyped
  PROVE  /\ Len(image_queue) \in Nat /\ Len(image_empty) \in Nat
         /\ Len(returned) \in Nat /\ Len(shown) \in Nat
         /\ DOMAIN image_queue = 1..Len(image_queue)
         /\ DOMAIN image_empty = 1..Len(image_empty)
         /\ Queued \subseteq Entries /\ Empty \subseteq Entries
         /\ AtDisplay \in 0..1 /\ AtDecoder \in 0..1
<1>1. /\ Len(image_queue) \in Nat /\ Len(image_empty) \in Nat
      /\ Len(returned) \in Nat /\ Len(shown) \in Nat
      /\ DOMAIN image_queue = 1..Len(image_queue)
      /\ DOMAIN image_empty = 1..Len(image_empty)
  BY LenProperties DEF PlayerTyped
<1>2. Queued \subseteq Entries
  BY <1>1, ElementOfSeq DEF PlayerTyped, Queued, ToSet
<1>3. Empty \subseteq Entries
  BY <1>1, ElementOfSeq DEF PlayerTyped, Empty, ToSet
<1> QED
  BY <1>1, <1>2, <1>3 DEF AtDisplay, AtDecoder

LEMMA PlayerStarts == PlayerInit => PlayerInv
<1> SUFFICES ASSUME PlayerInit PROVE PlayerInv
  OBVIOUS
<1> USE PoolAssumption DEF PlayerInit
<1> DEFINE n == Cardinality(Entries)
<1>1. n \in Nat
  BY FS_CardinalityType
<1>2. /\ image_empty \in [1..n -> Entries]
      /\ \A i, k \in 1..n : i # k => image_empty[i] # image_empty[k]
  BY DEF SetToSeqs
<1>3. image_empty \in Seq(Entries) /\ DOMAIN image_empty = 1..n
  BY <1>1, <1>2, SeqDef
<1>4. IsInjective(image_empty)
  BY <1>2, <1>3 DEF IsInjective
<1>5. Empty = Entries
  <2>1. IsFiniteSet(1..n) /\ Cardinality(1..n) = n
    BY <1>1, FS_Interval
  <2>2. image_empty \in Injection(1..n, Entries)
    BY <1>2, <1>4 DEF Injection
  <2>3. image_empty \in Surjection(1..n, Entries)
    BY <2>1, <2>2, FS_Injection
  <2>4. \A e \in Entries : \E i \in 1..n : image_empty[i] = e
    BY <2>3 DEF Surjection
  <2> QED
    BY <2>4, <1>2, <1>3 DEF Empty, ToSet
<1>6. image_queue = <<>> /\ Queued = {} /\ IsInjective(image_queue)
  BY DEF Queued, ToSet, IsInjective
<1>7. RingSound
  BY RingStarts
<1>8. PlayerTyped
  <2>1. 0 \in Surfaces
    BY SurfaceNumsPositive DEF Surfaces
  <2>2. <<>> \in Seq(Entries) /\ <<>> \in Seq(1..MaxPackets)
    BY EmptySeq
  <2>3. /\ image_id \in [Entries -> {"malloc", "live", "destroyed"}]
        /\ data \in [Entries -> 0..MaxPackets]
    OBVIOUS
  <2> QED
    BY <2>1, <2>2, <2>3, <1>3 DEF PlayerTyped
<1>9. Placed /\ Asleep
  BY DEF Placed, Asleep
<1>10. Kept
  BY <1>4, <1>5, <1>6 DEF Kept
<1>11. PictureLedger
  <2>1. Len(returned) = 0 /\ Len(shown) = 0 /\ Len(image_queue) = 0
    BY <1>6
  <2>2. AtDisplay = 0 /\ AtDecoder = 0 /\ dec = "read"
    BY DEF AtDisplay, AtDecoder
  <2> QED
    BY <2>1, <2>2 DEF PictureLedger, InTransit
<1> QED
  BY <1>7, <1>8, <1>9, <1>10, <1>11 DEF PlayerInv

LEMMA RingStays == RingSound /\ UNCHANGED ringVars => RingSound'
<1> SUFFICES ASSUME RingSound, UNCHANGED ringVars PROVE RingSound'
  OBVIOUS
<1>1. RingTyped'
  BY DEF ringVars, RingSound, RingTyped, Surfaces, Loan
<1>2. /\ Loans' = Loans /\ Frees' = Frees /\ UNCHANGED <<drawn, lent>>
      /\ surface_tail' = surface_tail /\ surface_head' = surface_head
      /\ \A i : Lent(i)' = Lent(i)
      /\ \A k : Free(k)' = Free(k)
  BY DEF ringVars, Loans, Frees, Lent, Free, Place
<1> QED
  BY <1>1, <1>2 DEF RingSound, Place, Surfaces

(* A step that moves no picture. *)
LEMMA LedgerStays ==
  ASSUME PictureLedger, process = "running",
         UNCHANGED <<image_queue, data, returned, shown>>,
         AtDisplay' = AtDisplay, AtDecoder' = AtDecoder,
         AtDisplay = 1 => showEntry' = showEntry,
         dec' \in {"take", "create"} =>
           dec \in {"take", "create"} /\ UNCHANGED <<pFrame, drawn>>,
         dec' = "put" => dec = "put" /\ decEntry' = decEntry
  PROVE  PictureLedger'
<1>1. InTransit'
  BY DEF PictureLedger, InTransit
<1> QED
  BY <1>1 DEF PictureLedger

(* A step of the decoder that has no picture in its hands. *)
LEMMA QuietDecoder ==
  ASSUME PlayerInv, process = "running",
         dec \in {"read", "decode", "decoded"},
         dec' \in {"read", "decode", "decoded", "done"},
         UNCHANGED <<entryVars, show, shown, returned>>
  PROVE  Kept' /\ Asleep' /\ PictureLedger'
<1> USE DEF entryVars
<1>1. Kept'
  BY DEF PlayerInv, Kept, Queued, Empty
<1>2. Asleep'
  BY DEF PlayerInv, Asleep
<1>3. PictureLedger'
  <2>1. AtDisplay' = AtDisplay /\ AtDecoder' = AtDecoder
    BY DEF AtDisplay, AtDecoder
  <2> QED
    BY <2>1, LedgerStays DEF PlayerInv
<1> QED
  BY <1>1, <1>2, <1>3

-----------------------------------------------------------------------------
(* The steps of the decoder *)

LEMMA ReadPacketKeeps ==
  ASSUME PlayerInv, process = "running", ReadPacket PROVE PlayerInv'
<1> USE DEF ReadPacket, DecoderUnchanged
<1>1. RingSound'
  BY RingStays DEF PlayerInv
<1>2. PlayerTyped'
  BY PoolAssumption DEF PlayerInv, PlayerTyped, entryVars, Surfaces
<1>3. Placed'
  BY DEF PlayerInv, Placed, entryVars
<1>4. Kept' /\ Asleep' /\ PictureLedger'
  BY QuietDecoder
<1> QED
  BY <1>1, <1>2, <1>3, <1>4 DEF PlayerInv

LEMMA DecodeReleaseKeeps ==
  ASSUME PlayerInv, process = "running", DecodeRelease PROVE PlayerInv'
<1> USE DEF DecodeRelease, DecoderUnchanged
<1>1. RingSound'
  BY RingTakesBack DEF PlayerInv
<1>2. PlayerTyped'
  BY DEF PlayerInv, PlayerTyped, entryVars, Surfaces
<1>3. Placed'
  BY DEF PlayerInv, Placed, entryVars
<1>4. Kept' /\ Asleep' /\ PictureLedger'
  BY QuietDecoder
<1> QED
  BY <1>1, <1>2, <1>3, <1>4 DEF PlayerInv

LEMMA DecodePictureKeeps ==
  ASSUME PlayerInv, process = "running", DecodePicture PROVE PlayerInv'
<1> USE DEF DecodePicture, DecoderUnchanged
<1>1. RingSound'
  <2>1. CASE get_buffer(packets)
    <3>1. packets \in 1..MaxPackets
      BY PoolAssumption DEF PlayerInv, PlayerTyped
    <3> QED
      BY <2>1, <3>1, RingLends DEF PlayerInv
  <2>2. CASE get_buffer_fails
    BY <2>2, RingSkips DEF PlayerInv
  <2>3. CASE UNCHANGED ringVars
    BY <2>3, RingStays DEF PlayerInv
  <2> QED
    BY <2>1, <2>2, <2>3
<1>2. PlayerTyped'
  BY DEF PlayerInv, PlayerTyped, entryVars, Surfaces
<1>3. Placed'
  BY DEF PlayerInv, Placed, entryVars
<1>4. Kept' /\ Asleep' /\ PictureLedger'
  BY QuietDecoder
<1> QED
  BY <1>1, <1>2, <1>3, <1>4 DEF PlayerInv

LEMMA ReadEndKeeps ==
  ASSUME PlayerInv, process = "running", ReadEnd PROVE PlayerInv'
<1> USE DEF ReadEnd, DecoderUnchanged
<1>1. RingSound'
  BY RingStays DEF PlayerInv
<1>2. PlayerTyped'
  BY DEF PlayerInv, PlayerTyped, entryVars, Surfaces
<1>3. Placed'
  BY DEF PlayerInv, Placed, entryVars
<1>4. Kept' /\ Asleep' /\ PictureLedger'
  BY QuietDecoder
<1> QED
  BY <1>1, <1>2, <1>3, <1>4 DEF PlayerInv

(* The picture that is returned is still as it was drawn. *)
LEMMA FrameFinishedKeeps ==
  ASSUME PlayerInv, process = "running", FrameFinished PROVE PlayerInv'
<1>1. CASE dec' = "read" /\ UNCHANGED <<lent, pFrame, returned>>
  <2> USE <1>1 DEF FrameFinished, DecoderUnchanged
  <2>1. RingSound'
    BY RingStays DEF PlayerInv, ringVars
  <2>2. PlayerTyped'
    BY DEF PlayerInv, PlayerTyped, entryVars, Surfaces
  <2>3. Placed'
    BY DEF PlayerInv, Placed, entryVars
  <2>4. Kept' /\ Asleep' /\ PictureLedger'
    BY QuietDecoder
  <2> QED
    BY <2>1, <2>2, <2>3, <2>4 DEF PlayerInv
<1>2. CASE \E i \in DOMAIN lent :
             /\ lent[i].due
             /\ dec' = "take" /\ pFrame' = lent[i].surface
             /\ lent' = [lent EXCEPT ![i].due = FALSE]
             /\ returned' = Append(returned, lent[i].picture)
  <2>1. PICK i \in DOMAIN lent :
          /\ dec' = "take" /\ pFrame' = lent[i].surface
          /\ lent' = [lent EXCEPT ![i].due = FALSE]
          /\ returned' = Append(returned, lent[i].picture)
    BY <1>2
  <2>2. /\ dec = "decoded"
        /\ UNCHANGED <<process, decodeThreadExit, entryVars, packets, show,
                       showEntry, shown, drawn>>
        /\ UNCHANGED <<surface_ids, surface_head, surface_tail, drawn>>
    BY DEF FrameFinished, DecoderUnchanged
  <2>3. i \in Loans /\ lent[i] \in Loan /\ Lent(i) \in Surfaces
    BY LoansTyped, LenProperties DEF PlayerInv, RingSound, RingTyped, Loans
  <2>4. lent[i].picture \in 1..MaxPackets /\ drawn[pFrame'] = lent[i].picture
    BY <2>1, <2>3 DEF PlayerInv, RingSound, Loan, Lent
  <2>5. RingSound'
    BY <2>1, <2>2, RingReturns DEF PlayerInv
  <2>6. /\ returned' \in Seq(1..MaxPackets)
        /\ Len(returned') = Len(returned) + 1
        /\ returned'[Len(returned')] = lent[i].picture
        /\ \A k \in 1..Len(returned) : returned'[k] = returned[k]
    BY <2>1, <2>4, AppendProperties DEF PlayerInv, PlayerTyped
  <2>7. PlayerTyped'
    BY <2>1, <2>2, <2>3, <2>6
    DEF PlayerInv, PlayerTyped, entryVars, Surfaces, Lent
  <2>8. Placed'
    BY <2>1, <2>2 DEF PlayerInv, Placed, entryVars
  <2>9. Kept'
    BY <2>1, <2>2 DEF PlayerInv, Kept, entryVars, Queued, Empty
  <2>10. Asleep'
    BY <2>1, <2>2 DEF PlayerInv, Asleep, entryVars
  <2>11. InTransit'
    <3>1. /\ Len(returned) \in Nat /\ Len(shown) \in Nat
          /\ Len(image_queue) \in Nat /\ AtDisplay \in 0..1
      BY Lengths DEF PlayerInv
    <3>2. AtDecoder = 0 /\ AtDecoder' = 1 /\ AtDisplay' = AtDisplay
      BY <2>1, <2>2 DEF AtDecoder, AtDisplay
    <3>3. UNCHANGED <<image_queue, data, showEntry, shown, drawn>>
      BY <2>2 DEF entryVars
    <3>4. InTransit
      BY DEF PlayerInv, PictureLedger
    <3>5. Len(returned) = Len(shown) + AtDisplay + Len(image_queue)
      BY <3>1, <3>2, <3>4 DEF InTransit
    <3>6. Len(returned') = Len(shown') + AtDisplay' + Len(image_queue')
                           + AtDecoder'
      BY <3>1, <3>2, <3>3, <3>5, <2>6
    <3>7. AtDisplay' = 1 => data'[showEntry'] = returned'[Len(shown') + 1]
      <4>1. AtDisplay = 1 => Len(shown) + 1 \in 1..Len(returned)
        BY <3>1, <3>5
      <4>2. AtDisplay = 1 => data[showEntry] = returned[Len(shown) + 1]
        BY <3>4 DEF InTransit
      <4> QED
        BY <4>1, <4>2, <3>2, <3>3, <2>6
    <3>8. ASSUME NEW k \in 1..Len(image_queue')
          PROVE  data'[image_queue'[k]] = returned'[Len(shown') + AtDisplay' + k]
      <4>1. Len(shown) + AtDisplay + k \in 1..Len(returned)
        BY <3>1, <3>3, <3>5
      <4>2. data[image_queue[k]] = returned[Len(shown) + AtDisplay + k]
        BY <3>3, <3>4 DEF InTransit
      <4> QED
        BY <4>1, <4>2, <3>2, <3>3, <2>6
    <3> QED
      BY <3>3, <3>6, <3>7, <3>8, <2>1, <2>4, <2>6 DEF InTransit
  <2>12. PictureLedger'
    <3>1. Len(returned) \in Nat /\ Len(shown) \in Nat
      BY Lengths DEF PlayerInv
    <3> QED
      BY <3>1, <2>2, <2>6, <2>11 DEF PlayerInv, PictureLedger
  <2> QED
    BY <2>5, <2>7, <2>8, <2>9, <2>10, <2>12 DEF PlayerInv
<1> QED
  BY <1>1, <1>2 DEF FrameFinished

LEMMA TakeEmptyKeeps ==
  ASSUME PlayerInv, process = "running", TakeEmpty PROVE PlayerInv'
<1>1. /\ dec = "take" /\ "decoder" \notin asleep
      /\ UNCHANGED <<process, decodeThreadExit, image_queue, image_id, data,
                     packets, pFrame, returned, ringVars, show, showEntry,
                     shown>>
  BY DEF TakeEmpty, DecoderUnchanged
<1>2. RingSound'
  BY <1>1, RingStays DEF PlayerInv
<1>3. CASE image_empty = <<>>
  <2>1. /\ asleep' = asleep \cup {"decoder"}
        /\ UNCHANGED <<dec, image_empty, decEntry>>
    BY <1>3 DEF TakeEmpty
  <2>2. PlayerTyped'
    BY <1>1, <2>1 DEF PlayerInv, PlayerTyped, Surfaces
  <2>3. Placed'
    BY <1>1, <2>1 DEF PlayerInv, Placed
  <2>4. Kept'
    BY <1>1, <2>1 DEF PlayerInv, Kept, Queued, Empty
  <2>5. Asleep'
    BY <1>1, <1>3, <2>1 DEF PlayerInv, Asleep
  <2>6. PictureLedger'
    <3>1. AtDisplay' = AtDisplay /\ AtDecoder' = AtDecoder
      BY <1>1, <2>1 DEF AtDisplay, AtDecoder
    <3> QED
      BY <3>1, <1>1, <2>1, LedgerStays DEF PlayerInv, ringVars
  <2> QED
    BY <1>2, <2>2, <2>3, <2>4, <2>5, <2>6 DEF PlayerInv
<1>4. CASE image_empty # <<>>
  <2>1. /\ dec' = "create" /\ decEntry' = Head(image_empty)
        /\ image_empty' = Tail(image_empty) /\ asleep' = asleep
    BY <1>4 DEF TakeEmpty
  <2>2. /\ decEntry' \in Entries /\ image_empty' \in Seq(Entries)
        /\ IsInjective(image_empty')
        /\ Empty = Empty' \cup {decEntry'} /\ decEntry' \notin Empty'
    BY <1>4, <2>1, HeadLeaves DEF PlayerInv, PlayerTyped, Kept, Empty
  <2>3. decEntry = NoEntry /\ NoEntry \notin Entries
    BY <1>1, PoolAssumption DEF PlayerInv, Placed
  <2>4. PlayerTyped'
    BY <1>1, <2>1, <2>2 DEF PlayerInv, PlayerTyped, Surfaces
  <2>5. Placed'
    BY <1>1, <2>1, <2>2, <2>3 DEF PlayerInv, Placed
  <2>6. Kept'
    <3>1. Queued' = Queued
      BY <1>1 DEF Queued
    <3> QED
      BY <1>1, <2>1, <2>2, <2>3, <3>1 DEF PlayerInv, Kept
  <2>7. Asleep'
    BY <1>1, <2>1 DEF PlayerInv, Asleep
  <2>8. PictureLedger'
    <3>1. AtDisplay' = AtDisplay /\ AtDecoder' = AtDecoder
      BY <1>1, <2>1 DEF AtDisplay, AtDecoder
    <3> QED
      BY <3>1, <1>1, <2>1, LedgerStays DEF PlayerInv, ringVars
  <2> QED
    BY <1>2, <2>4, <2>5, <2>6, <2>7, <2>8 DEF PlayerInv
<1> QED
  BY <1>3, <1>4

(* The copy touches an entry that is in no list and not on the screen. *)
LEMMA CopyPictureKeeps ==
  ASSUME PlayerInv, process = "running", CopyPicture PROVE PlayerInv'
<1>1. /\ dec = "create"
      /\ UNCHANGED <<decodeThreadExit, image_queue, image_empty, decEntry,
                     asleep, packets, pFrame, returned, ringVars, show,
                     showEntry, shown>>
  BY DEF CopyPicture, DecoderUnchanged
<1>2. RingSound'
  BY <1>1, RingStays DEF PlayerInv
<1>3. CASE /\ dec' = "put"
           /\ image_id' = [image_id EXCEPT ![decEntry] = "live"]
           /\ data' = [data EXCEPT ![decEntry] = drawn[pFrame]]
           /\ process' = process
  <2>1. decEntry \in Entries
    BY <1>1 DEF PlayerInv, Placed, PlayerTyped
  <2>2. drawn[pFrame] \in 0..MaxPackets
    BY DEF PlayerInv, PlayerTyped, RingSound, RingTyped
  <2>3. /\ image_id' \in [Entries -> {"malloc", "live", "destroyed"}]
        /\ image_id'[decEntry] = "live"
        /\ \A e \in Entries : e # decEntry => image_id'[e] = image_id[e]
    BY <1>3, <2>1 DEF PlayerInv, PlayerTyped
  <2>4. /\ data' \in [Entries -> 0..MaxPackets]
        /\ data'[decEntry] = drawn[pFrame]
        /\ \A e \in Entries : e # decEntry => data'[e] = data[e]
    BY <1>3, <2>1, <2>2 DEF PlayerInv, PlayerTyped
  <2>5. PlayerTyped'
    BY <1>1, <1>3, <2>3, <2>4 DEF PlayerInv, PlayerTyped, Surfaces
  <2>6. Placed'
    BY <1>1, <1>3 DEF PlayerInv, Placed
  <2>7. Kept'
    <3>1. Queued' = Queued /\ Empty' = Empty
      BY <1>1 DEF Queued, Empty
    <3> QED
      BY <1>1, <1>3, <2>1, <2>3, <3>1 DEF PlayerInv, Kept
  <2>8. Asleep'
    BY <1>1, <1>3 DEF PlayerInv, Asleep
  <2>9. InTransit'
    <3>1. InTransit
      BY DEF PlayerInv, PictureLedger
    <3>2. AtDisplay' = AtDisplay /\ AtDecoder' = 1 /\ AtDecoder = 1
      BY <1>1, <1>3 DEF AtDisplay, AtDecoder
    <3>3. AtDisplay = 1 => data'[showEntry] = data[showEntry]
      <4>1. AtDisplay = 1 => showEntry \in Entries /\ showEntry # decEntry
        BY <2>1 DEF AtDisplay, PlayerInv, Placed, PlayerTyped, Kept
      <4> QED
        BY <4>1, <2>4
    <3>4. \A i \in 1..Len(image_queue) :
            data'[image_queue[i]] = data[image_queue[i]]
      <4>1. \A i \in 1..Len(image_queue) :
              image_queue[i] \in Entries /\ image_queue[i] \in Queued
        BY Lengths, ElementOfSeq DEF PlayerInv, PlayerTyped, Queued, ToSet
      <4>2. decEntry \notin Queued
        BY <2>1 DEF PlayerInv, Kept
      <4> QED
        BY <4>1, <4>2, <2>4
    <3> QED
      BY <1>1, <1>3, <2>4, <3>1, <3>2, <3>3, <3>4 DEF InTransit
  <2>10. PictureLedger'
    BY <1>1, <2>9 DEF PlayerInv, PictureLedger
  <2> QED
    BY <1>2, <2>5, <2>6, <2>7, <2>8, <2>10 DEF PlayerInv
<1>4. CASE process' = "failed" /\ UNCHANGED <<dec, image_id, data>>
  <2>1. PlayerTyped'
    BY <1>1, <1>4 DEF PlayerInv, PlayerTyped, Surfaces
  <2>2. Placed'
    BY <1>1, <1>4 DEF PlayerInv, Placed
  <2>3. Kept'
    BY <1>1, <1>4 DEF PlayerInv, Kept, Queued, Empty
  <2>4. Asleep'
    BY <1>1, <1>4 DEF PlayerInv, Asleep
  <2>5. PictureLedger'
    BY <1>1, <1>4 DEF PlayerInv, PictureLedger
  <2> QED
    BY <1>2, <2>1, <2>2, <2>3, <2>4, <2>5 DEF PlayerInv
<1> QED
  BY <1>3, <1>4 DEF CopyPicture

LEMMA PutDecodedKeeps ==
  ASSUME PlayerInv, process = "running", put_decoded_data_list
  PROVE  PlayerInv'
<1>1. /\ dec = "put" /\ dec' = "read"
      /\ image_queue' = Append(image_queue, decEntry)
      /\ asleep' = {} /\ decEntry' = NoEntry
      /\ UNCHANGED <<process, decodeThreadExit, image_empty, image_id, data,
                     packets, pFrame, returned, ringVars, show, showEntry,
                     shown>>
  BY DEF put_decoded_data_list, DecoderUnchanged
<1>2. RingSound'
  BY <1>1, RingStays DEF PlayerInv
<1>3. decEntry \in Entries /\ NoEntry \notin Entries
  BY <1>1, PoolAssumption DEF PlayerInv, Placed, PlayerTyped
<1>4. decEntry \notin Queued /\ image_queue \in Seq(Entries)
      /\ IsInjective(image_queue)
  BY <1>3 DEF PlayerInv, Kept, PlayerTyped
<1>5. /\ image_queue' \in Seq(Entries) /\ IsInjective(image_queue')
      /\ Len(image_queue') = Len(image_queue) + 1
      /\ \A i \in 1..Len(image_queue) : image_queue'[i] = image_queue[i]
      /\ image_queue'[Len(image_queue) + 1] = decEntry
      /\ Queued' = Queued \cup {decEntry}
  BY <1>1, <1>3, <1>4, LastJoins DEF Queued
<1>6. PlayerTyped'
  BY <1>1, <1>5 DEF PlayerInv, PlayerTyped, Surfaces
<1>7. Placed'
  BY <1>1 DEF PlayerInv, Placed
<1>8. Kept'
  <2>1. Empty' = Empty
    BY <1>1 DEF Empty
  <2> QED
    BY <1>1, <1>3, <1>5, <2>1 DEF PlayerInv, Kept
<1>9. Asleep'
  BY <1>1 DEF PlayerInv, Asleep
<1>10. InTransit'
  <2>1. InTransit
    BY <1>1 DEF PlayerInv, PictureLedger
  <2>2. AtDisplay' = AtDisplay /\ AtDecoder' = 0 /\ AtDecoder = 1
    BY <1>1 DEF AtDisplay, AtDecoder
  <2>3. /\ Len(returned) \in Nat /\ Len(shown) \in Nat
        /\ Len(image_queue) \in Nat /\ AtDisplay \in 0..1
    BY Lengths DEF PlayerInv
  <2>4. Len(returned) = Len(shown) + AtDisplay + (Len(image_queue) + 1)
    BY <2>1, <2>2, <2>3 DEF InTransit
  <2>5. data[decEntry] = returned[Len(returned)]
    BY <1>1, <2>1 DEF InTransit
  <2>6. ASSUME NEW i \in 1..Len(image_queue')
        PROVE  data'[image_queue'[i]] = returned'[Len(shown') + AtDisplay' + i]
    <3>1. CASE i \in 1..Len(image_queue)
      BY <3>1, <1>1, <1>5, <2>1, <2>2 DEF InTransit
    <3>2. CASE i = Len(image_queue) + 1
      BY <3>2, <1>1, <1>5, <2>2, <2>4, <2>5
    <3> QED
      BY <3>1, <3>2, <1>5, <2>3
  <2>7. Len(returned') = Len(shown') + AtDisplay' + Len(image_queue')
                         + AtDecoder'
    BY <1>1, <1>5, <2>2, <2>3, <2>4
  <2>8. AtDisplay' = 1 => data'[showEntry'] = returned'[Len(shown') + 1]
    BY <1>1, <2>1, <2>2 DEF InTransit
  <2> QED
    BY <1>1, <2>6, <2>7, <2>8 DEF InTransit
<1>11. PictureLedger'
  BY <1>1, <1>10 DEF PlayerInv, PictureLedger
<1> QED
  BY <1>2, <1>6, <1>7, <1>8, <1>9, <1>11 DEF PlayerInv

-----------------------------------------------------------------------------
(* The steps of the display *)

LEMMA TestExitKeeps ==
  ASSUME PlayerInv, process = "running", TestExit PROVE PlayerInv'
<1>1. /\ show = "test"
      /\ show' = IF decodeThreadExit THEN "drain" ELSE "deque"
      /\ UNCHANGED <<process, image_queue, image_empty, showEntry, asleep,
                     image_id, shown, dec, decEntry, decodeThreadExit, data,
                     packets, pFrame, returned, ringVars>>
  BY DEF TestExit, DisplayUnchanged
<1>2. RingSound'
  BY <1>1, RingStays DEF PlayerInv
<1>3. PlayerTyped'
  BY <1>1 DEF PlayerInv, PlayerTyped, Surfaces
<1>4. Placed'
  BY <1>1 DEF PlayerInv, Placed
<1>5. Kept'
  BY <1>1 DEF PlayerInv, Kept, Queued, Empty
<1>6. Asleep'
  BY <1>1 DEF PlayerInv, Asleep
<1>7. PictureLedger'
  <2>1. AtDisplay' = AtDisplay /\ AtDecoder' = AtDecoder
    BY <1>1 DEF AtDisplay, AtDecoder
  <2> QED
    BY <2>1, <1>1, LedgerStays DEF PlayerInv, ringVars
<1> QED
  BY <1>2, <1>3, <1>4, <1>5, <1>6, <1>7 DEF PlayerInv

(* The display takes the oldest picture of the queue, with the mutex or,   *)
(* after the decoder is gone, without. *)
LEMMA TakeKeeps ==
  ASSUME PlayerInv, process = "running", image_queue # <<>>,
         \/ show = "deque" /\ show' = "show" /\ "display" \notin asleep
         \/ show = "drain" /\ show' = "drainShow",
         showEntry' = Head(image_queue), image_queue' = Tail(image_queue),
         UNCHANGED <<process, image_empty, asleep, image_id, shown>>,
         DisplayUnchanged
  PROVE  PlayerInv'
<1> USE DEF DisplayUnchanged
<1>1. RingSound'
  BY RingStays DEF PlayerInv
<1>2. /\ showEntry' \in Entries /\ image_queue' \in Seq(Entries)
      /\ IsInjective(image_queue')
      /\ Len(image_queue') = Len(image_queue) - 1
      /\ \A i \in 1..Len(image_queue) - 1 :
           image_queue'[i] = image_queue[i + 1]
      /\ showEntry' = image_queue[1] /\ Len(image_queue) \in Nat \ {0}
      /\ Queued = Queued' \cup {showEntry'} /\ showEntry' \notin Queued'
  BY HeadLeaves DEF PlayerInv, PlayerTyped, Kept, Queued
<1>3. showEntry = NoEntry /\ NoEntry \notin Entries
  BY PoolAssumption DEF PlayerInv, Placed
<1>4. PlayerTyped'
  BY <1>2 DEF PlayerInv, PlayerTyped, Surfaces
<1>5. Placed'
  BY <1>2, <1>3 DEF PlayerInv, Placed
<1>6. Kept'
  <2>1. Empty' = Empty
    BY DEF Empty
  <2> QED
    BY <1>2, <1>3, <2>1 DEF PlayerInv, Kept
<1>7. Asleep'
  BY DEF PlayerInv, Asleep, Placed
<1>8. InTransit'
  <2>1. InTransit
    BY DEF PlayerInv, PictureLedger
  <2>2. AtDisplay = 0 /\ AtDisplay' = 1 /\ AtDecoder' = AtDecoder
    BY DEF AtDisplay, AtDecoder
  <2>3. Len(shown) \in Nat /\ AtDecoder \in 0..1
    BY Lengths DEF PlayerInv
  <2>4. Len(returned') = Len(shown') + AtDisplay' + Len(image_queue')
                         + AtDecoder'
    BY <1>2, <2>1, <2>2, <2>3 DEF InTransit
  <2>5. data'[showEntry'] = returned'[Len(shown') + 1]
    <3>1. 1 \in 1..Len(image_queue) /\ Len(shown) + 0 + 1 = Len(shown) + 1
      BY <1>2, <2>3
    <3> QED
      BY <3>1, <1>2, <2>1, <2>2 DEF InTransit
  <2>6. ASSUME NEW i \in 1..Len(image_queue')
        PROVE  data'[image_queue'[i]] = returned'[Len(shown') + AtDisplay' + i]
    <3>1. /\ i + 1 \in 1..Len(image_queue) /\ i \in 1..Len(image_queue) - 1
          /\ Len(shown) + 0 + (i + 1) = Len(shown) + 1 + i
      BY <1>2, <2>3
    <3>2. data[image_queue[i + 1]] = returned[Len(shown) + 0 + (i + 1)]
      BY <3>1, <2>1, <2>2 DEF InTransit
    <3> QED
      BY <3>1, <3>2, <1>2, <2>2
  <2> QED
    BY <2>1, <2>4, <2>5, <2>6 DEF InTransit, ringVars
<1>9. PictureLedger'
  BY <1>8 DEF PlayerInv, PictureLedger
<1> QED
  BY <1>1, <1>4, <1>5, <1>6, <1>7, <1>9 DEF PlayerInv

LEMMA TakeQueuedKeeps ==
  ASSUME PlayerInv, process = "running", TakeQueued PROVE PlayerInv'
<1>1. CASE image_queue = <<>>
  <2>1. /\ show = "deque" /\ asleep' = asleep \cup {"display"}
        /\ UNCHANGED <<show, image_queue, showEntry, process, image_empty,
                       image_id, shown, dec, decEntry, decodeThreadExit, data,
                       packets, pFrame, returned, ringVars>>
    BY <1>1 DEF TakeQueued, DisplayUnchanged
  <2>2. RingSound'
    BY <2>1, RingStays DEF PlayerInv
  <2>3. PlayerTyped'
    BY <2>1 DEF PlayerInv, PlayerTyped, Surfaces
  <2>4. Placed'
    BY <2>1 DEF PlayerInv, Placed
  <2>5. Kept'
    BY <2>1 DEF PlayerInv, Kept, Queued, Empty
  <2>6. Asleep'
    BY <2>1, <1>1 DEF PlayerInv, Asleep
  <2>7. PictureLedger'
    <3>1. AtDisplay' = AtDisplay /\ AtDecoder' = AtDecoder
      BY <2>1 DEF AtDisplay, AtDecoder
    <3> QED
      BY <3>1, <2>1, LedgerStays DEF PlayerInv, ringVars
  <2> QED
    BY <2>2, <2>3, <2>4, <2>5, <2>6, <2>7 DEF PlayerInv
<1>2. CASE image_queue # <<>>
  BY <1>2, TakeKeeps DEF TakeQueued
<1> QED
  BY <1>1, <1>2

LEMMA DrainKeeps ==
  ASSUME PlayerInv, process = "running", Drain PROVE PlayerInv'
<1>1. CASE image_queue = <<>>
  <2>1. /\ show = "drain" /\ show' = "destroy"
        /\ UNCHANGED <<image_queue, showEntry, process, image_empty, asleep,
                       image_id, shown, dec, decEntry, decodeThreadExit, data,
                       packets, pFrame, returned, ringVars>>
    BY <1>1 DEF Drain, DisplayUnchanged
  <2>2. RingSound'
    BY <2>1, RingStays DEF PlayerInv
  <2>3. PlayerTyped'
    BY <2>1 DEF PlayerInv, PlayerTyped, Surfaces
  <2>4. Placed'
    BY <2>1 DEF PlayerInv, Placed
  <2>5. Kept'
    BY <2>1 DEF PlayerInv, Kept, Queued, Empty
  <2>6. Asleep'
    BY <2>1 DEF PlayerInv, Asleep
  <2>7. PictureLedger'
    <3>1. AtDisplay' = AtDisplay /\ AtDecoder' = AtDecoder
      BY <2>1 DEF AtDisplay, AtDecoder
    <3> QED
      BY <3>1, <2>1, LedgerStays DEF PlayerInv, ringVars
  <2> QED
    BY <2>2, <2>3, <2>4, <2>5, <2>6, <2>7 DEF PlayerInv
<1>2. CASE image_queue # <<>>
  BY <1>2, TakeKeeps DEF Drain
<1> QED
  BY <1>1, <1>2

(* What is shown is the next picture that the codec returned. *)
LEMMA ShowingKeeps ==
  ASSUME PlayerInv, process = "running", NEW from, NEW to, ImageShow(from, to),
         \/ from = "show" /\ to = "unmapped"
         \/ from = "drainShow" /\ to = "drainUnmapped"
  PROVE  PlayerInv'
<1>1. /\ show = from /\ shown' = Append(shown, data[showEntry])
      /\ UNCHANGED <<image_queue, image_empty, showEntry, asleep, dec,
                     decEntry, decodeThreadExit, data, packets, pFrame,
                     returned, ringVars>>
  BY DEF ImageShow, DisplayUnchanged
<1>2. RingSound'
  BY <1>1, RingStays DEF PlayerInv
<1>3. InTransit /\ AtDisplay = 1
  BY <1>1 DEF PlayerInv, PictureLedger, AtDisplay
<1>4. /\ Len(returned) \in Nat /\ Len(shown) \in Nat
      /\ Len(image_queue) \in Nat /\ AtDecoder \in 0..1
  BY Lengths DEF PlayerInv
<1>5. /\ Len(shown) + 1 \in 1..Len(returned)
      /\ data[showEntry] = returned[Len(shown) + 1]
  BY <1>3, <1>4 DEF InTransit
<1>6. data[showEntry] \in 1..MaxPackets
  BY <1>5, ElementOfSeq DEF PlayerInv, PlayerTyped
<1>7. /\ shown' \in Seq(1..MaxPackets) /\ Len(shown') = Len(shown) + 1
      /\ shown'[Len(shown) + 1] = data[showEntry]
      /\ \A i \in 1..Len(shown) : shown'[i] = shown[i]
  BY <1>1, <1>6, AppendProperties DEF PlayerInv, PlayerTyped
<1>8. Len(shown') <= Len(returned')
      /\ \A i \in 1..Len(shown') : shown'[i] = returned'[i]
  <2>1. ASSUME NEW i \in 1..Len(shown') PROVE shown'[i] = returned'[i]
    <3>1. CASE i \in 1..Len(shown)
      BY <3>1, <1>1, <1>7 DEF PlayerInv, PictureLedger
    <3>2. CASE i = Len(shown) + 1
      BY <3>2, <1>1, <1>5, <1>7
    <3> QED
      BY <3>1, <3>2, <1>4, <1>7
  <2> QED
    BY <2>1, <1>1, <1>4, <1>5, <1>7
<1>9. showEntry \in Entries /\ showEntry \notin Queued
  BY <1>1 DEF PlayerInv, Placed, PlayerTyped, Kept
<1>10. Queued' = Queued /\ Empty' = Empty
  BY <1>1 DEF Queued, Empty
<1>11. CASE /\ show' = to
            /\ image_id' = [image_id EXCEPT ![showEntry] = "destroyed"]
            /\ process' = process
  <2>1. /\ image_id' \in [Entries -> {"malloc", "live", "destroyed"}]
        /\ image_id'[showEntry] = "destroyed"
        /\ \A e \in Entries : e # showEntry => image_id'[e] = image_id[e]
    BY <1>9, <1>11 DEF PlayerInv, PlayerTyped
  <2>2. PlayerTyped'
    BY <1>1, <1>7, <1>11, <2>1 DEF PlayerInv, PlayerTyped, Surfaces
  <2>3. Placed'
    BY <1>1, <1>11 DEF PlayerInv, Placed
  <2>4. Kept'
    BY <1>1, <1>9, <1>10, <1>11, <2>1 DEF PlayerInv, Kept
  <2>5. Asleep'
    BY <1>1, <1>11 DEF PlayerInv, Asleep
  <2>6. InTransit'
    <3>1. AtDisplay' = 0 /\ AtDecoder' = AtDecoder
      BY <1>1, <1>11 DEF AtDisplay, AtDecoder
    <3>2. Len(returned') = Len(shown') + AtDisplay' + Len(image_queue')
                           + AtDecoder'
      BY <1>1, <1>3, <1>4, <1>7, <3>1 DEF InTransit
    <3>3. ASSUME NEW i \in 1..Len(image_queue')
          PROVE  data'[image_queue'[i]]
                   = returned'[Len(shown') + AtDisplay' + i]
      <4>1. Len(shown') + AtDisplay' + i = Len(shown) + AtDisplay + i
        BY <1>1, <1>3, <1>4, <1>7, <3>1
      <4> QED
        BY <4>1, <1>1, <1>3 DEF InTransit
    <3> QED
      BY <1>1, <1>3, <3>1, <3>2, <3>3 DEF InTransit, ringVars
  <2>7. PictureLedger'
    BY <1>8, <2>6 DEF PictureLedger
  <2> QED
    BY <1>2, <2>2, <2>3, <2>4, <2>5, <2>7 DEF PlayerInv
<1>12. CASE process' = "failed" /\ UNCHANGED <<show, image_id>>
  <2>1. PlayerTyped'
    BY <1>1, <1>7, <1>12 DEF PlayerInv, PlayerTyped, Surfaces
  <2>2. Placed'
    BY <1>1, <1>12 DEF PlayerInv, Placed
  <2>3. Kept'
    BY <1>1, <1>10, <1>12 DEF PlayerInv, Kept
  <2>4. Asleep'
    BY <1>1, <1>12 DEF PlayerInv, Asleep
  <2>5. PictureLedger'
    BY <1>8, <1>12 DEF PictureLedger
  <2> QED
    BY <1>2, <2>1, <2>2, <2>3, <2>4, <2>5 DEF PlayerInv
<1> QED
  BY <1>11, <1>12, <1>1 DEF ImageShow

LEMMA PutEmptyKeeps ==
  ASSUME PlayerInv, process = "running", NEW from, NEW to,
         put_empty_data_list(from, to),
         \/ from = "unmapped" /\ to = "test"
         \/ from = "drainUnmapped" /\ to = "drain"
  PROVE  PlayerInv'
<1>1. /\ show = from /\ show' = to /\ showEntry' = NoEntry /\ asleep' = {}
      /\ image_empty' = Append(image_empty, showEntry)
      /\ UNCHANGED <<process, image_queue, image_id, shown, dec, decEntry,
                     decodeThreadExit, data, packets, pFrame, returned,
                     ringVars>>
  BY DEF put_empty_data_list, DisplayUnchanged
<1>2. RingSound'
  BY <1>1, RingStays DEF PlayerInv
<1>3. showEntry \in Entries /\ NoEntry \notin Entries
  BY <1>1, PoolAssumption DEF PlayerInv, Placed, PlayerTyped
<1>4. showEntry \notin Empty /\ image_empty \in Seq(Entries)
      /\ IsInjective(image_empty)
  BY <1>3 DEF PlayerInv, Kept, PlayerTyped
<1>5. /\ image_empty' \in Seq(Entries) /\ IsInjective(image_empty')
      /\ Empty' = Empty \cup {showEntry}
  BY <1>1, <1>3, <1>4, LastJoins DEF Empty
<1>6. PlayerTyped'
  BY <1>1, <1>5 DEF PlayerInv, PlayerTyped, Surfaces
<1>7. Placed'
  BY <1>1 DEF PlayerInv, Placed
<1>8. Kept'
  <2>1. Queued' = Queued
    BY <1>1 DEF Queued
  <2> QED
    BY <1>1, <1>3, <1>5, <2>1 DEF PlayerInv, Kept
<1>9. Asleep'
  BY <1>1 DEF PlayerInv, Asleep
<1>10. PictureLedger'
  <2>1. AtDisplay' = AtDisplay /\ AtDecoder' = AtDecoder /\ AtDisplay = 0
    BY <1>1 DEF AtDisplay, AtDecoder
  <2> QED
    BY <2>1, <1>1, LedgerStays DEF PlayerInv, ringVars
<1> QED
  BY <1>2, <1>6, <1>7, <1>8, <1>9, <1>10 DEF PlayerInv

(* The entries disappear; the decoder is gone. *)
LEMMA DestroyImageKeeps ==
  ASSUME PlayerInv, process = "running", DestroyImage PROVE PlayerInv'
<1>1. /\ show = "destroy" /\ show' \in {"destroy", "done"}
      /\ UNCHANGED <<image_queue, showEntry, asleep, image_id, shown, dec,
                     decEntry, decodeThreadExit, data, packets, pFrame,
                     returned, ringVars>>
      /\ process' \in {"running", "exited"}
  BY DEF DestroyImage, DisplayUnchanged
<1>2. /\ image_empty' \in Seq(Entries) /\ IsInjective(image_empty')
      /\ Empty' \subseteq Empty
  <2>1. CASE image_empty = <<>>
    BY <2>1 DEF DestroyImage, Empty, PlayerInv, PlayerTyped, Kept
  <2>2. CASE image_empty # <<>>
    <3>1. image_empty' = Tail(image_empty)
      BY <2>2 DEF DestroyImage
    <3> QED
      BY <3>1, <2>2, HeadLeaves DEF PlayerInv, PlayerTyped, Kept, Empty
  <2> QED
    BY <2>1, <2>2
<1>3. RingSound'
  BY <1>1, RingStays DEF PlayerInv
<1>4. PlayerTyped'
  BY <1>1, <1>2 DEF PlayerInv, PlayerTyped, Surfaces
<1>5. Placed'
  BY <1>1 DEF PlayerInv, Placed
<1>6. Kept'
  <2>1. Queued' = Queued
    BY <1>1 DEF Queued
  <2> QED
    BY <1>1, <1>2, <2>1 DEF PlayerInv, Kept
<1>7. Asleep'
  BY <1>1 DEF PlayerInv, Asleep, Placed
<1>8. PictureLedger'
  <2>1. AtDisplay' = AtDisplay /\ AtDecoder' = AtDecoder
    BY <1>1 DEF AtDisplay, AtDecoder
  <2> QED
    BY <2>1, <1>1, LedgerStays DEF PlayerInv, ringVars
<1> QED
  BY <1>3, <1>4, <1>5, <1>6, <1>7, <1>8 DEF PlayerInv

(* A spurious wakeup, and the end of main. *)
LEMMA OthersKeep ==
  ASSUME PlayerInv, process = "running", PlayerSpuriousWake \/ Main
  PROVE  PlayerInv'
<1>1. /\ asleep' \subseteq asleep /\ process' \in {"running", "returned"}
      /\ UNCHANGED <<image_queue, image_empty, showEntry, image_id, show,
                     shown, dec, decEntry, decodeThreadExit, data, packets,
                     pFrame, returned, ringVars>>
  BY DEF PlayerSpuriousWake, Main, DisplayUnchanged
<1>2. RingSound'
  BY <1>1, RingStays DEF PlayerInv
<1>3. PlayerTyped'
  BY <1>1 DEF PlayerInv, PlayerTyped, Surfaces
<1>4. Placed'
  BY <1>1 DEF PlayerInv, Placed
<1>5. Kept'
  BY <1>1 DEF PlayerInv, Kept, Queued, Empty
<1>6. Asleep'
  BY <1>1 DEF PlayerInv, Asleep
<1>7. PictureLedger'
  <2>1. AtDisplay' = AtDisplay /\ AtDecoder' = AtDecoder
    BY <1>1 DEF AtDisplay, AtDecoder
  <2> QED
    BY <2>1, <1>1, LedgerStays DEF PlayerInv, ringVars
<1> QED
  BY <1>2, <1>3, <1>4, <1>5, <1>6, <1>7 DEF PlayerInv

-----------------------------------------------------------------------------
(* The results *)

LEMMA PlayerStutters == PlayerInv /\ UNCHANGED playerVars => PlayerInv'
<1> SUFFICES ASSUME PlayerInv, UNCHANGED playerVars PROVE PlayerInv'
  OBVIOUS
<1> USE DEF playerVars, entryVars
<1>1. RingSound'
  BY RingStays DEF PlayerInv
<1>2. PlayerTyped'
  BY DEF PlayerInv, PlayerTyped, Surfaces
<1>3. Placed' /\ Asleep'
  BY DEF PlayerInv, Placed, Asleep
<1>4. Kept'
  BY DEF PlayerInv, Kept, Queued, Empty
<1>5. PictureLedger'
  BY DEF PlayerInv, PictureLedger, InTransit, AtDisplay, AtDecoder, ringVars
<1> QED
  BY <1>1, <1>2, <1>3, <1>4, <1>5 DEF PlayerInv

LEMMA PlayerKeeps == PlayerInv /\ [PlayerNext]_playerVars => PlayerInv'
<1> SUFFICES ASSUME PlayerInv, [PlayerNext]_playerVars PROVE PlayerInv'
  OBVIOUS
<1>1. CASE process = "running" /\ Decoder
  BY <1>1, ReadPacketKeeps, DecodeReleaseKeeps, DecodePictureKeeps,
     FrameFinishedKeeps, TakeEmptyKeeps, CopyPictureKeeps, PutDecodedKeeps,
     ReadEndKeeps DEF Decoder
<1>2. CASE process = "running" /\ Display
  BY <1>2, TestExitKeeps, TakeQueuedKeeps, DrainKeeps, DestroyImageKeeps,
     ShowingKeeps, PutEmptyKeeps DEF Display
<1>3. CASE process = "running" /\ (PlayerSpuriousWake \/ Main)
  BY <1>3, OthersKeep
<1>4. CASE UNCHANGED playerVars
  BY <1>4, PlayerStutters
<1> QED
  BY <1>1, <1>2, <1>3, <1>4 DEF PlayerNext, PlayerStopped

(* The inductive invariant of the player: the ring, the places of the      *)
(* threads, the entries, the sleepers and the ledger of the pictures.      *)
THEOREM PlayerInvariant == PlayerSpec => []PlayerInv
BY PlayerStarts, PlayerKeeps, PTL DEF PlayerSpec

(* Every variable of ffmpeg_player.c and of the ring of ffmpeg.c has its   *)
(* type: no index leaves surface_ids, and nothing is shown but pictures    *)
(* of packets that were read.                                              *)
THEOREM PlayerTypeCorrect == PlayerSpec => []PlayerTypeOK
<1>1. PlayerInv => PlayerTypeOK
  <2> SUFFICES ASSUME PlayerInv PROVE PlayerTypeOK
    OBVIOUS
  <2>1. lent \in Seq([surface : Surfaces, picture : Nat, due : BOOLEAN])
    <3>1. Loan \subseteq [surface : Surfaces, picture : Nat, due : BOOLEAN]
      BY DEF Loan
    <3> QED
      BY <3>1, SeqMonotonic DEF PlayerInv, RingSound, RingTyped
  <2>2. drawn \in [Surfaces -> Nat]
    BY DEF PlayerInv, RingSound, RingTyped
  <2>3. RingTypeOK
    BY <2>1, <2>2 DEF RingTypeOK, PlayerInv, RingSound, RingTyped
  <2> QED
    BY <2>3 DEF PlayerInv, PlayerTyped, PlayerTypeOK
<1> QED
  BY <1>1, PlayerInvariant, PTL

(* No surface is lent twice or overwritten while its picture is needed,    *)
(* for any order in which avcodec_decode_video2 calls get_buffer and       *)
(* release_buffer.                                                         *)
THEOREM SurfacesStayApart == PlayerSpec => []SurfacesApart
<1>1. PlayerInv => SurfacesApart
  BY RingSafe DEF PlayerInv
<1> QED
  BY <1>1, PlayerInvariant, PTL

(* Every vaframe_queue_t is in one place, and its VA image is live just    *)
(* from create_rgbx_image to image_unmap.                                  *)
THEOREM EntriesAreKept == PlayerSpec => []EntriesKept
<1>1. PlayerInv => EntriesKept
  <2> SUFFICES ASSUME PlayerInv, NEW e \in Entries
               PROVE  /\ \A i, k \in 1..4 :
                           i # k => ~(Places(e)[i] /\ Places(e)[k])
                      /\ show \notin {"destroy", "done"} =>
                           \E i \in 1..4 : Places(e)[i]
                      /\ image_id[e] = "live" <=>
                           \/ e \in ToSet(image_queue)
                           \/ decEntry = e /\ dec = "put"
                           \/ showEntry = e /\ show \in {"show", "drainShow"}
    BY DEF EntriesKept, PlayerInv, Kept
  <2>1. /\ ~(e \in Queued /\ e \in Empty)
        /\ decEntry = e => e \notin Queued /\ e \notin Empty
        /\ showEntry = e => e \notin Queued /\ e \notin Empty /\ decEntry # e
        /\ show \notin {"destroy", "done"} =>
             decEntry = e \/ showEntry = e \/ e \in Queued \/ e \in Empty
        /\ image_id[e] = "live" <=>
             \/ e \in Queued
             \/ decEntry = e /\ dec = "put"
             \/ showEntry = e /\ show \in {"show", "drainShow"}
    BY DEF PlayerInv, Kept
  <2>2. /\ Places(e)[1] <=> decEntry = e
        /\ Places(e)[2] <=> showEntry = e
        /\ Places(e)[3] <=> e \in Queued
        /\ Places(e)[4] <=> e \in Empty
    BY DEF Places, Queued, Empty
  <2>3. \A i \in 1..4 : i = 1 \/ i = 2 \/ i = 3 \/ i = 4
    OBVIOUS
  <2>4. ASSUME NEW i \in 1..4, NEW k \in 1..4, i # k
        PROVE  ~(Places(e)[i] /\ Places(e)[k])
    BY <2>1, <2>2, <2>3, <2>4
  <2>5. show \notin {"destroy", "done"} => \E i \in 1..4 : Places(e)[i]
    <3>1. 1 \in 1..4 /\ 2 \in 1..4 /\ 3 \in 1..4 /\ 4 \in 1..4
      OBVIOUS
    <3> QED
      BY <3>1, <2>1, <2>2
  <2> QED
    BY <2>1, <2>4, <2>5 DEF Queued
<1> QED
  BY <1>1, PlayerInvariant, PTL

(* No thread sleeps on image_queue_cond while there is an entry for it,    *)
(* and both never sleep at once.                                           *)
THEOREM SleepersAreServed == PlayerSpec => []SleepersServed
<1>1. PlayerInv => SleepersServed
  <2> SUFFICES ASSUME PlayerInv PROVE SleepersServed
    OBVIOUS
  <2>1. /\ image_queue = <<>> => Queued = {}
        /\ image_empty = <<>> => Empty = {}
    BY DEF Queued, Empty, ToSet
  <2>2. PICK e \in Entries : TRUE
    BY PoolAssumption
  <2>3. e # NoEntry
    BY PoolAssumption
  <2>4. ASSUME "decoder" \in asleep
        PROVE  /\ image_empty = <<>> /\ show \notin {"destroy", "done"}
               /\ decEntry = NoEntry /\ dec = "take"
    BY <2>4 DEF PlayerInv, Asleep, Placed
  <2>5. ASSUME "display" \in asleep
        PROVE  /\ image_queue = <<>> /\ show \notin {"destroy", "done"}
               /\ showEntry = NoEntry
    BY <2>5 DEF PlayerInv, Asleep, Placed
  <2>6. show \notin {"destroy", "done"} =>
          decEntry = e \/ showEntry = e \/ e \in Queued \/ e \in Empty
    BY DEF PlayerInv, Kept
  <2>7. dec = "take" => decEntry = NoEntry
    BY DEF PlayerInv, Placed
  <2> QED
    BY <2>1, <2>3, <2>4, <2>5, <2>6, <2>7 DEF SleepersServed
<1> QED
  BY <1>1, PlayerInvariant, PTL

(* The screen shows what the codec returned, in order, each picture once   *)
(* and as it was decoded.                                                  *)
THEOREM ShownAsReturned == PlayerSpec => []ShownInOrder
<1>1. PlayerInv => ShownInOrder
  <2> SUFFICES ASSUME PlayerInv PROVE ShownInOrder
    OBVIOUS
  <2>1. /\ Len(shown) <= Len(returned)
        /\ shown \in Seq(1..MaxPackets) /\ returned \in Seq(1..MaxPackets)
        /\ \A i \in 1..Len(shown) : shown[i] = returned[i]
    BY DEF PlayerInv, PictureLedger, PlayerTyped
  <2> QED
    BY <2>1, PrefixByMembers DEF ShownInOrder
<1> QED
  BY <1>1, PlayerInvariant, PTL


-----------------------------------------------------------------------------
(* The encoder and the driver *)

(* The loop over profile_list never gets beyond its first profile. *)
ProfileFound ==
  /\ profilesTried \in Nat
  /\ h264_profile = IF profilesTried = 0 THEN "~0" ELSE "High"
  /\ encPlace \notin {"vaInitialize", "profiles", "noProfile", "exit"} =>
       profilesTried # 0

(* From vaGetConfigAttributes on, the encoder knows the driver's attributes *)
(* and where it keeps that of the packed headers. *)
Afterwards == {"config", "src_surface", "ref_surface", "context", "coded_buf",
               "encode", "release", "deinit", "done"}

AttributesKnown ==
  /\ encPlace \in Afterwards =>
       /\ h264_packedheader = ("EncPackedHeaders" \in encAttribs)
       /\ h264_packedheader =>
            config_attrib[enc_packed_header_idx + 1] = "EncPackedHeaders"
  /\ encPlace = "release" =>
       ("SLICE" \in sentKinds <=> h264_packedheader /\ "SLICE" \in packedKinds)

(* The places of main, and what exists at each. *)
Existing(place) ==
  CASE place = "vaInitialize" -> {}
    [] place \in {"profiles", "noProfile", "profile", "attributes", "config",
                  "deinit"} -> {"display"}
    [] place = "src_surface" -> {"display", "config"}
    [] place = "ref_surface" -> {"display", "config", "src_surface"}
    [] place = "context" -> {"display", "config", "src_surface", "ref_surface"}
    [] place \in {"coded_buf", "encode", "release"} ->
         {"display", "config", "src_surface", "ref_surface", "context"}
    [] place = "done" -> {}

EncPlaces == {"vaInitialize", "profiles", "noProfile", "profile", "attributes",
              "exit"} \cup Afterwards

ObjectsMade ==
  /\ encPlace \in EncPlaces
  /\ encPlace # "exit" => encObjects = Existing(encPlace)
  /\ encPlace \notin {"coded_buf", "encode", "release", "exit"} =>
       coded_bufs = 0
  /\ encPlace = "coded_buf" => coded_bufs < SURFACES

EncInv == EncTypeOK /\ ProfileFound /\ AttributesKnown /\ ObjectsMade

(* enc_packed_header_idx is the place of the attribute, whatever the driver *)
(* supports before and after it. *)
LEMMA AttributeFound ==
  ASSUME "EncPackedHeaders" \in encAttribs
  PROVE  Configured[PackedIdx + 1] = "EncPackedHeaders"
<1> DEFINE types == Attribs \cup {"RTFormat"}
           final == IfSupported("EncInterlaced")
<1>1. \A a \in Attribs : IfSupported(a) \in Seq(types)
  <2> SUFFICES ASSUME NEW a \in Attribs PROVE IfSupported(a) \in Seq(types)
    OBVIOUS
  <2>1. a \in types
    OBVIOUS
  <2> HIDE DEF types
  <2>2. <<>> \in Seq(types) /\ <<a>> \in Seq(types)
    BY <2>1
  <2>3. IfSupported(a) \in {<<>>, <<a>>}
    BY DEF IfSupported
  <2> QED
    BY <2>2, <2>3
<1>2. final \in Seq(types) /\ IfSupported("RateControl") \in Seq(types)
  BY <1>1 DEF Attribs
<1>3. <<"RTFormat">> \in Seq(types) /\ "EncPackedHeaders" \in types
  BY DEF Attribs
<1>4. BeforePacked \in Seq(types)
  BY <1>2, <1>3, ConcatProperties DEF BeforePacked
<1>5. Configured = BeforePacked \o <<"EncPackedHeaders">> \o final
  BY DEF Configured, IfSupported
<1> HIDE DEF final, types
<1> QED
  BY <1>2, <1>3, <1>4, <1>5 DEF PackedIdx

LEMMA NamesOfLists ==
  /\ ToSet(Made) = {"config", "src_surface", "ref_surface", "context"}
  /\ Len(Made) = 4 /\ Made[1] = "config" /\ Made[2] = "src_surface"
  /\ Made[3] = "ref_surface" /\ Made[4] = "context"
  /\ ToSet(profile_list)
       = {"High", "Main", "Baseline", "ConstrainedBaseline"}
  /\ Len(profile_list) = 4 /\ profile_list[1] = "High"
  /\ "High" \notin {profile_list[i] : i \in 2..4}
<1>1. /\ Len(Made) = 4 /\ Made[1] = "config" /\ Made[2] = "src_surface"
      /\ Made[3] = "ref_surface" /\ Made[4] = "context"
  BY DEF Made
<1>2. /\ Len(profile_list) = 4 /\ profile_list[1] = "High"
      /\ profile_list[2] = "Main" /\ profile_list[3] = "Baseline"
      /\ profile_list[4] = "ConstrainedBaseline"
  BY DEF profile_list
<1>3. DOMAIN Made = 1..4 /\ DOMAIN profile_list = 1..4
  BY DEF Made, profile_list
<1>4. \A i \in 1..4 : i \in {1, 2, 3, 4}
  OBVIOUS
<1> QED
  BY <1>1, <1>2, <1>3, <1>4 DEF ToSet

(* The order in which the objects need each other, once and for all. *)
LEMMA AttributesInOrder ==
  ASSUME encPlace \in EncPlaces, encPlace # "exit",
         encObjects = Existing(encPlace)
  PROVE  /\ encObjects \subseteq ToSet(Made) \cup {"display"}
         /\ \A i \in 1..Len(Made) - 1 :
              Made[i + 1] \in encObjects => Made[i] \in encObjects
         /\ encPlace \in {"coded_buf", "encode", "release"} =>
              "context" \in encObjects
         /\ encPlace = "done" => encObjects = {}
<1>1. \A i \in 1..Len(Made) - 1 : i \in {1, 2, 3}
  BY NamesOfLists
<1>2. Made[1] = "config" /\ Made[2] = "src_surface"
      /\ Made[3] = "ref_surface" /\ Made[4] = "context"
  BY NamesOfLists
<1>3. /\ "context" \in encObjects => "ref_surface" \in encObjects
      /\ "ref_surface" \in encObjects => "src_surface" \in encObjects
      /\ "src_surface" \in encObjects => "config" \in encObjects
  BY DEF Existing, EncPlaces, Afterwards
<1>4. \A i \in 1..Len(Made) - 1 :
        Made[i + 1] \in encObjects => Made[i] \in encObjects
  <2> SUFFICES ASSUME NEW i \in {1, 2, 3}, Made[i + 1] \in encObjects
               PROVE  Made[i] \in encObjects
    BY <1>1
  <2> QED
    BY <1>2, <1>3
<1> QED
  BY <1>4, NamesOfLists DEF Existing, EncPlaces, Afterwards

LEMMA EncStarts == EncInit => EncInv
<1> SUFFICES ASSUME EncInit PROVE EncInv
  OBVIOUS
<1>1. ObjectsMade
  BY DEF EncInit, ObjectsMade, EncPlaces, Existing
<1>2. ProfileFound /\ AttributesKnown
  BY DEF EncInit, ProfileFound, AttributesKnown, Afterwards
<1>3. EncTypeOK
  BY <1>1, NamesOfLists, AttributesInOrder, SurfacesAssumption
  DEF EncInit, EncTypeOK, ObjectsMade
<1> QED
  BY <1>1, <1>2, <1>3 DEF EncInv

(* A step that keeps the driver and what was asked of it. *)
LEMMA KnownStays ==
  ASSUME AttributesKnown, UNCHANGED <<encDriver, encConfig, sentKinds>>,
         encPlace' \in Afterwards => encPlace \in Afterwards,
         encPlace' # "release" \/ encPlace = "release"
  PROVE  AttributesKnown'
BY DEF AttributesKnown, encDriver, encConfig

LEMMA ProfileStays ==
  ASSUME ProfileFound, UNCHANGED encProfile,
         encPlace' \notin {"vaInitialize", "profiles", "noProfile", "exit"} =>
           encPlace \notin {"vaInitialize", "profiles", "noProfile", "exit"}
  PROVE  ProfileFound'
BY DEF ProfileFound, encProfile

(* From ObjectsMade, what is left of the types. *)
LEMMA TypesFollow ==
  ObjectsMade /\ encPlace # "exit" /\ coded_bufs \in 0..SURFACES /\ ProfileFound
    => EncTypeOK
<1> SUFFICES ASSUME ObjectsMade, encPlace # "exit", coded_bufs \in 0..SURFACES,
                    ProfileFound
             PROVE  EncTypeOK
  OBVIOUS
<1>1. h264_profile \in ToSet(profile_list) \cup {"~0"}
  BY NamesOfLists DEF ProfileFound
<1>2. encPlace \notin {"coded_buf", "encode", "release"} => coded_bufs = 0
  BY DEF ObjectsMade
<1> QED
  BY <1>1, <1>2, AttributesInOrder DEF ObjectsMade, EncTypeOK

(* Leaving the process by a failure: everything stays as it is. *)
LEMMA FailureLeaves ==
  ASSUME EncInv, encPlace' = "exit",
         UNCHANGED <<encDriver, encProfile, encConfig, encMade>>
  PROVE  EncInv'
<1>1. EncTypeOK'
  BY DEF EncInv, EncTypeOK, encProfile, encMade
<1>2. ProfileFound'
  BY ProfileStays DEF EncInv
<1>3. AttributesKnown'
  BY KnownStays DEF EncInv, encMade, Afterwards
<1>4. ObjectsMade'
  BY DEF ObjectsMade, EncPlaces
<1> QED
  BY <1>1, <1>2, <1>3, <1>4 DEF EncInv

(* The steps that make or release objects. *)
LEMMA ObjectStepKeeps ==
  ASSUME EncInv, CreateObject \/ CreateCodedBuf \/ encode_frames
                   \/ release_encode \/ deinit_va
  PROVE  EncInv'
<1>1. UNCHANGED <<encDriver, encProfile, encConfig>>
  BY DEF CreateObject, CreateCodedBuf, encode_frames, release_encode,
         deinit_va
<1>2. encPlace \in Afterwards /\ encPlace' \in Afterwards
  BY NamesOfLists DEF CreateObject, CreateCodedBuf, encode_frames,
       release_encode, deinit_va, Afterwards
<1>3. ProfileFound'
  BY <1>1, <1>2, ProfileStays DEF EncInv, Afterwards
<1>4. AttributesKnown'
  <2>1. CASE encode_frames
    <3>1. SlicesPacked <=> h264_packedheader /\ "SLICE" \in packedKinds
      BY <1>2 DEF SlicesPacked, EncInv, AttributesKnown
    <3>2. "SLICE" \in sentKinds' <=> SlicesPacked
      BY <2>1 DEF encode_frames
    <3> QED
      BY <1>1, <1>2, <3>1, <3>2
      DEF EncInv, AttributesKnown, encDriver, encConfig
  <2>2. CASE ~encode_frames
    <3>1. UNCHANGED sentKinds /\ encPlace' # "release"
      BY <2>2, NamesOfLists
      DEF CreateObject, CreateCodedBuf, release_encode, deinit_va
    <3> QED
      BY <1>1, <1>2, <3>1, KnownStays DEF EncInv
  <2> QED
    BY <2>1, <2>2
<1>5. coded_bufs' \in 0..SURFACES /\ ObjectsMade'
  <2>1. coded_bufs \in 0..SURFACES /\ ObjectsMade
    BY DEF EncInv, EncTypeOK
  <2>2. CASE CreateObject
    <3> PICK i \in 1..Len(Made) :
          /\ encPlace = Made[i]
          /\ encObjects' = encObjects \cup {Made[i]}
          /\ encPlace' = IF i < Len(Made) THEN Made[i + 1] ELSE "coded_buf"
      BY <2>2 DEF CreateObject
    <3>1. coded_bufs' = 0
      BY <2>1, <2>2, NamesOfLists DEF CreateObject, ObjectsMade
    <3>2. i \in {1, 2, 3, 4}
      BY NamesOfLists
    <3>3. encPlace' # "exit" /\ encObjects' = Existing(encPlace')
      BY <2>1, <3>2, NamesOfLists DEF ObjectsMade, Existing
    <3> QED
      BY <1>2, <3>1, <3>3, SurfacesAssumption DEF ObjectsMade, EncPlaces
  <2>3. CASE CreateCodedBuf
    <3>1. /\ encPlace = "coded_buf" /\ coded_bufs < SURFACES
          /\ coded_bufs' = coded_bufs + 1
          /\ encPlace' \in {"coded_buf", "encode"}
          /\ encPlace' = "coded_buf" => coded_bufs' < SURFACES
      BY <2>1, <2>3 DEF CreateCodedBuf, ObjectsMade
    <3>2. encObjects' = Existing(encPlace')
      BY <2>1, <2>3, <3>1 DEF CreateCodedBuf, ObjectsMade, Existing
    <3> QED
      BY <1>2, <2>1, <3>1, <3>2, SurfacesAssumption DEF ObjectsMade, EncPlaces
  <2>4. CASE encode_frames
    BY <1>2, <2>1, <2>4 DEF encode_frames, ObjectsMade, EncPlaces, Existing
  <2>5. CASE release_encode
    BY <1>2, <2>5, SurfacesAssumption
    DEF release_encode, ObjectsMade, EncPlaces, Existing
  <2>6. CASE deinit_va
    BY <1>2, <2>1, <2>6 DEF deinit_va, ObjectsMade, EncPlaces, Existing
  <2> QED
    BY <2>2, <2>3, <2>4, <2>5, <2>6
<1>6. EncTypeOK'
  <2>1. (coded_bufs \in 0..SURFACES)' /\ (encPlace # "exit")'
    BY <1>2, <1>5 DEF Afterwards
  <2> QED
    BY <1>3, <1>5, <2>1, TypesFollow, PTL
<1> QED
  BY <1>3, <1>4, <1>5, <1>6 DEF EncInv

(* The steps before there are objects: the profile and the attributes. *)
LEMMA ChoiceKeeps ==
  ASSUME EncInv, vaInitialize \/ TryProfile \/ NoProfile \/ UseProfile
                   \/ vaGetConfigAttributes,
         encPlace' # "exit"
  PROVE  EncInv'
<1>1. UNCHANGED <<encDriver, coded_bufs, sentKinds>>
  BY DEF vaInitialize, TryProfile, NoProfile, UseProfile,
         vaGetConfigAttributes, encMade
<1>2. encPlace \in {"vaInitialize", "profiles", "profile", "attributes"}
      /\ encPlace' \in {"profiles", "noProfile", "profile", "attributes",
                        "config"}
  BY DEF vaInitialize, TryProfile, NoProfile, UseProfile,
         vaGetConfigAttributes
<1>3. ProfileFound'
  <2>1. CASE TryProfile
    <3>1. PICK p : /\ p = profile_list[profilesTried + 1]
                   /\ h264_profile' = IF h264_profile \notin {"~0", p}
                                        THEN h264_profile ELSE p
                   /\ profilesTried' = profilesTried + 1
      BY <2>1 DEF TryProfile
    <3>2. profilesTried \in Nat
      BY DEF EncInv, ProfileFound
    <3>3. h264_profile' = "High"
      BY <3>1, <3>2, NamesOfLists DEF EncInv, ProfileFound
    <3> QED
      BY <3>1, <3>2, <3>3 DEF ProfileFound
  <2>2. CASE vaInitialize \/ NoProfile \/ vaGetConfigAttributes
    BY <2>2, ProfileStays
    DEF EncInv, vaInitialize, NoProfile, vaGetConfigAttributes
  <2>3. CASE UseProfile
    BY <2>3 DEF EncInv, UseProfile, ProfileFound
  <2> QED
    BY <2>1, <2>2, <2>3
<1>4. AttributesKnown'
  <2>1. CASE vaGetConfigAttributes
    <3>1. /\ config_attrib' = Configured
          /\ h264_packedheader' = ("EncPackedHeaders" \in encAttribs)
          /\ enc_packed_header_idx' = IF h264_packedheader' THEN PackedIdx
                                                            ELSE 0
      BY <2>1 DEF vaGetConfigAttributes
    <3>2. h264_packedheader' =>
            config_attrib'[enc_packed_header_idx' + 1] = "EncPackedHeaders"
      BY <3>1, AttributeFound
    <3> QED
      BY <1>1, <1>2, <3>1, <3>2 DEF AttributesKnown, encDriver
  <2>2. CASE ~vaGetConfigAttributes
    <3>1. UNCHANGED encConfig /\ encPlace' # "config"
      BY <2>2 DEF vaInitialize, TryProfile, NoProfile, UseProfile
    <3> QED
      BY <1>1, <1>2, <3>1, KnownStays DEF EncInv, Afterwards
  <2> QED
    BY <2>1, <2>2
<1>5. ObjectsMade'
  <2>1. encObjects' = {"display"}
    BY DEF vaInitialize, TryProfile, NoProfile, UseProfile,
           vaGetConfigAttributes, encMade, EncInv, ObjectsMade, Existing
  <2>2. coded_bufs' = 0
    BY <1>1, <1>2 DEF EncInv, ObjectsMade
  <2> QED
    BY <1>2, <2>1, <2>2 DEF ObjectsMade, EncPlaces, Afterwards, Existing
<1>6. EncTypeOK'
  <2>1. (coded_bufs \in 0..SURFACES)' /\ (encPlace # "exit")'
    BY <1>1 DEF EncInv, EncTypeOK
  <2> QED
    BY <1>3, <1>5, <2>1, TypesFollow, PTL
<1> QED
  BY <1>3, <1>4, <1>5, <1>6 DEF EncInv

LEMMA EncStepKeeps == EncInv /\ [EncNext]_encVars => EncInv'
<1> SUFFICES ASSUME EncInv, [EncNext]_encVars PROVE EncInv'
  OBVIOUS
<1>1. CASE encPlace' = "exit" /\ (VaCallFails \/ vaGetConfigAttributes)
  <2>1. UNCHANGED <<encDriver, encProfile, encConfig, encMade>>
    BY <1>1 DEF VaCallFails, vaGetConfigAttributes
  <2> QED
    BY <1>1, <2>1, FailureLeaves
<1>2. CASE UNCHANGED encVars
  BY <1>2 DEF encVars, encDriver, encProfile, encConfig, EncInv, EncTypeOK,
       ProfileFound, AttributesKnown, ObjectsMade
<1>3. CASE vaInitialize \/ TryProfile \/ NoProfile \/ UseProfile
             \/ (vaGetConfigAttributes /\ encPlace' # "exit")
  <2>1. encPlace' # "exit"
    BY <1>3 DEF vaInitialize, TryProfile, NoProfile, UseProfile
  <2> QED
    BY <1>3, <2>1, ChoiceKeeps
<1>4. VaCallFails => encPlace' = "exit"
  BY DEF VaCallFails
<1> QED
  BY <1>1, <1>2, <1>3, <1>4, ObjectStepKeeps DEF EncNext

(* The VA objects of the encoder are made in the order in which they need  *)
(* each other, and whatever exists when main ends without a failure was    *)
(* given back, each once. *)
THEOREM EncoderTypeCorrect ==
  EncSpec => []EncTypeOK
<1>1. EncInv => EncTypeOK
  BY DEF EncInv
<1> QED
  BY <1>1, EncStarts, EncStepKeeps, PTL DEF EncSpec

(* Whatever the driver supports, the stream uses only tools of the profile *)
(* that init_va settled on, and packed slice headers are sent exactly to a *)
(* driver that takes them. *)
THEOREM EncoderAgreesWithDriver ==
  EncSpec => []DriverAgreed
<1>1. EncInv => DriverAgreed
  <2> SUFFICES ASSUME EncInv PROVE DriverAgreed
    OBVIOUS
  <2>1. ToolsFitProfile
    BY DEF EncInv, ProfileFound, ToolsFitProfile
  <2>2. SliceHeadersAgreed
    BY DEF EncInv, AttributesKnown, SliceHeadersAgreed, Afterwards
  <2> QED
    BY <2>1, <2>2 DEF DriverAgreed
<1> QED
  BY <1>1, EncStarts, EncStepKeeps, PTL DEF EncSpec

-----------------------------------------------------------------------------
(* The bit writer *)

Buffered(b) ==
  /\ b = [buffer |-> b.buffer, bit_offset |-> b.bit_offset]
  /\ b.buffer \in Seq(ToSet(b.buffer))
  /\ Len(b.buffer) % STEPPING = 0
  /\ b.bit_offset \in 0..WORD * Len(b.buffer) - 1

LEMMA ListOfItsMembers ==
  ASSUME NEW n \in Nat, NEW f, f = [i \in 1..n |-> f[i]]
  PROVE  f \in Seq(ToSet(f)) /\ Len(f) = n
<1>1. f \in [1..n -> ToSet(f)]
  BY DEF ToSet
<1>2. f \in Seq(ToSet(f))
  BY <1>1, SeqDef
<1> QED
  BY <1>1, <1>2, LenProperties

LEMMA WordFacts ==
  /\ WORD \in Nat \ {0} /\ STEPPING \in Nat \ {0}
  /\ BYTE_BITS \in Nat \ {0} /\ BYTE_BITS <= WORD
<1>1. WORD_BYTES \in Nat \ {0} /\ BYTE_BITS \in Nat \ {0}
      /\ STEPPING \in Nat \ {0}
  BY BitsAssumption
<1>2. WORD_BYTES * BYTE_BITS >= BYTE_BITS /\ WORD_BYTES * BYTE_BITS \in Nat
  BY <1>1, Multiple
<1> QED
  BY <1>1, <1>2 DEF WORD

(* The word that is written, and what is left in it. *)
LEMMA PlaceOfBit ==
  ASSUME NEW l \in Nat, NEW o \in 0..WORD * l - 1
  PROVE  /\ o \div WORD \in 0..l - 1
         /\ WORD - (o % WORD) \in 1..WORD
         /\ o + (WORD - (o % WORD)) = WORD * (o \div WORD + 1)
         /\ WORD * (o \div WORD + 1) <= WORD * l
<1>1. PICK w \in Nat \ {0} : w = WORD
  BY WordFacts
<1>2. PICK q \in Nat, r \in 0..w - 1 :
        q = o \div w /\ r = o % w /\ o = w * q + r
  <2>1. o \in Nat
    BY <1>1
  <2> QED
    BY <2>1, DivMod
<1>3. w * (q + 1) = w * q + w /\ w * q \in Nat /\ w * l \in Nat
  OBVIOUS
<1>4. q < l
  <2> SUFFICES ASSUME q >= l PROVE FALSE
    OBVIOUS
  <2>1. PICK d \in Nat : q = l + d
    <3>1. q - l \in Nat /\ q = l + (q - l)
      OBVIOUS
    <3> QED
      BY <3>1
  <2>2. w * q = w * l + w * d /\ w * d \in Nat
    BY <2>1
  <2>3. o <= w * l - 1
    BY <1>1
  <2> QED
    BY <1>2, <1>3, <2>2, <2>3
<1>5. w * (q + 1) <= w * l
  <2>1. PICK d \in Nat : l = q + 1 + d
    <3>1. l - (q + 1) \in Nat /\ l = q + 1 + (l - (q + 1))
      BY <1>4
    <3> QED
      BY <3>1
  <2>2. w * l = w * (q + 1) + w * d /\ w * d \in Nat
    BY <2>1
  <2> QED
    BY <1>3, <2>2
<1>6. q \in 0..l - 1 /\ w - r \in 1..w /\ o + (w - r) = w * (q + 1)
  BY <1>2, <1>3, <1>4
<1> QED
  BY <1>1, <1>2, <1>5, <1>6

(* There is room for the word after the one at pos. *)
LEMMA GrownHasRoom ==
  ASSUME NEW b, Buffered(b), NEW pos \in 0..Len(b.buffer) - 1
  PROVE  LET g == Grown(b.buffer, pos)
         IN  /\ g = [i \in 1..Len(g) |-> g[i]] /\ Len(g) \in Nat
             /\ Len(g) % STEPPING = 0 /\ pos + 2 <= Len(g)
<1> DEFINE s == b.buffer
           g == Grown(s, pos)
           more == [i \in 1..STEPPING |-> junk]
           T == ToSet(s) \cup {junk}
<1>1. STEPPING \in Nat \ {0} /\ s \in Seq(ToSet(s)) /\ Len(s) \in Nat
      /\ Len(s) % STEPPING = 0
  BY WordFacts DEF Buffered
<1>2. more \in Seq(T) /\ Len(more) = STEPPING
  <2>1. more \in [1..STEPPING -> T]
    OBVIOUS
  <2> QED
    BY <1>1, <2>1, SeqDef, LenProperties
<1>3. s \in Seq(T)
  <2>1. ToSet(s) \subseteq T
    OBVIOUS
  <2> HIDE DEF T
  <2> QED
    BY <1>1, <2>1, SeqMonotonic
<1>4. CASE pos + 1 = Len(s)
  <2>1. g = s \o more
    BY <1>4 DEF Grown
  <2> HIDE DEF more, T, g
  <2>2. g \in Seq(T) /\ Len(g) = Len(s) + STEPPING
    BY <1>2, <1>3, <2>1, ConcatProperties
  <2>3. Len(g) % STEPPING = 0
    BY <1>1, <2>2, ModPlus
  <2>4. g = [i \in 1..Len(g) |-> g[i]]
    BY <2>2
  <2> QED
    BY <1>1, <1>4, <2>2, <2>3, <2>4 DEF g
<1>5. CASE pos + 1 # Len(s)
  <2>1. g = s
    BY <1>5 DEF Grown
  <2>2. s = [i \in 1..Len(s) |-> s[i]]
    BY <1>1
  <2> QED
    BY <1>1, <1>5, <2>1, <2>2
<1> QED
  BY <1>4, <1>5

(* What put_ui does to the place of the writer, and that it finds the      *)
(* words it writes. *)
LEMMA PutUiKeeps ==
  ASSUME NEW b, Buffered(b), NEW val, NEW n \in 0..WORD
  PROVE  /\ Buffered(PutUi(b, val, n))
         /\ PutUi(b, val, n).bit_offset = b.bit_offset + n
<1> DEFINE o == b.bit_offset
           l == Len(b.buffer)
           pos == o \div WORD
           left == WORD - (o % WORD)
           c == PutUi(b, val, n)
<1>1. /\ WORD \in Nat \ {0} /\ l \in Nat /\ o \in 0..WORD * l - 1
      /\ b = [buffer |-> b.buffer, bit_offset |-> o]
      /\ b.buffer \in Seq(ToSet(b.buffer)) /\ l % STEPPING = 0
  BY WordFacts DEF Buffered
<1>2. /\ pos \in 0..l - 1 /\ left \in 1..WORD
      /\ o + left = WORD * (pos + 1) /\ WORD * (pos + 1) <= WORD * l
      /\ WORD * (pos + 1) \in Nat /\ WORD * l \in Nat /\ o \in Nat
  <2>1. /\ pos \in 0..l - 1 /\ left \in 1..WORD
        /\ o + left = WORD * (pos + 1) /\ WORD * (pos + 1) <= WORD * l
    BY <1>1, PlaceOfBit
  <2> HIDE DEF left, pos, l
  <2> QED
    BY <1>1, <2>1
<1>3. CASE n = 0
  BY <1>2, <1>3 DEF PutUi
<1>4. CASE n # 0 /\ left > n
  <2> DEFINE x == Word(b.buffer[pos + 1] * 2^n) + val
             f == [b.buffer EXCEPT ![pos + 1] = x]
  <2>1. c = [b EXCEPT !.buffer[pos + 1] = Word(@ * 2^n) + val,
                      !.bit_offset = @ + n]
    BY <1>4 DEF PutUi
  <2>2. c = [buffer |-> f, bit_offset |-> o + n]
    BY <1>1, <2>1
  <2>3. f = [i \in 1..l |-> f[i]]
    <3>1. DOMAIN b.buffer = 1..l
      BY <1>1
    <3> HIDE DEF x, l
    <3> QED
      BY <3>1
  <2>4. f \in Seq(ToSet(f)) /\ Len(f) = l
    BY <1>1, <2>3, ListOfItsMembers
  <2>5. o + n \in 0..WORD * l - 1
    <3> HIDE DEF o, left, pos, l
    <3> QED
      BY <1>1, <1>2, <1>4, SMTT(30)
  <2>6. c.buffer = f /\ c.bit_offset = o + n
    BY <2>2
  <2> HIDE DEF f, c, o, l
  <2> QED
    BY <1>1, <2>2, <2>4, <2>5, <2>6 DEF Buffered, c, o
<1>5. CASE n # 0 /\ ~(left > n)
  <2> DEFINE g == Grown(b.buffer, pos)
             x == va_swap32(Word(g[pos + 1] * 2^left) + val \div 2^(n - left))
             f == [g EXCEPT ![pos + 1] = x, ![pos + 2] = val]
  <2>1. c = PutFull(b, val, n, pos, left)
    BY <1>5 DEF PutUi
  <2>2. c = [buffer |-> f, bit_offset |-> o + n]
    BY <2>1 DEF PutFull
  <2>3. /\ g = [i \in 1..Len(g) |-> g[i]] /\ Len(g) \in Nat
        /\ Len(g) % STEPPING = 0 /\ pos + 2 <= Len(g)
    BY <1>2, GrownHasRoom
  <2>4. f = [i \in 1..Len(g) |-> f[i]]
    <3>1. DOMAIN g = 1..Len(g)
      <4> HIDE DEF g
      <4> QED
        BY <2>3
    <3> HIDE DEF g
    <3> QED
      BY <3>1
  <2> HIDE DEF f, g
  <2>5. f \in Seq(ToSet(f)) /\ Len(f) = Len(g)
    BY <2>3, <2>4, ListOfItsMembers
  <2>6. o + n \in 0..WORD * Len(g) - 1
    <3> HIDE DEF o, left, pos, l
    <3>1. PICK w \in Nat \ {0} : w = WORD
      BY <1>1
    <3>2. PICK k \in Nat, p \in Nat, d \in Nat :
            p = pos /\ k = Len(g) /\ k = p + 2 + d
      <4>1. PICK k \in Nat, p \in Nat : p = pos /\ k = Len(g) /\ p + 2 <= k
        BY <1>2, <2>3
      <4>2. k - (p + 2) \in Nat /\ k = p + 2 + (k - (p + 2))
        BY <4>1
      <4> QED
        BY <4>1, <4>2
    <3>3. w * k = w * (p + 1) + w + w * d /\ w * d \in Nat /\ w * k \in Nat
          /\ w * (p + 1) \in Nat
      BY <3>2
    <3>4. PICK e \in 1..w : e = left /\ o + e = w * (p + 1)
      BY <1>2, <3>1, <3>2
    <3>5. n \in 0..w /\ o \in Nat
      BY <1>2, <3>1
    <3>6. o + n \in Nat /\ o + n < w * (p + 1) + w
      BY <3>3, <3>4, <3>5
    <3>7. o + n \in 0..w * k - 1
      BY <3>3, <3>6
    <3> QED
      BY <3>1, <3>2, <3>7
  <2>7. c.buffer = f /\ c.bit_offset = o + n
    BY <2>2
  <2> HIDE DEF c, o, l
  <2> QED
    BY <2>2, <2>3, <2>5, <2>6, <2>7 DEF Buffered, c, o
<1> QED
  BY <1>3, <1>4, <1>5

(* A code has a first one, and fits into a word with it. *)
LEMMA SizeOfCode ==
  ASSUME NEW v \in Nat \ {0}, v < 2^WORD
  PROVE  SizeInBits(v) \in 1..WORD
<1> DEFINE T == {n \in 0..WORD : 2^n > v}
<1>1. WORD \in Nat /\ WORD \in 0..WORD /\ \A n \in 0..WORD : 2^n \in Nat
  BY WordFacts, BitsAssumption DEF WORD
<1>2. WORD \in T /\ T \subseteq Nat
  BY <1>1
<1>3. PICK k \in T : \A j \in T : k <= j
  <2>1. T # {}
    BY <1>2
  <2> HIDE DEF T
  <2> QED
    BY <1>2, <2>1, LeastNumber
<1>4. k \in 0..WORD /\ 2^k > v
  OBVIOUS
<1>5. k = 0 \/ 2^(k - 1) <= v
  <2> SUFFICES ASSUME k # 0 PROVE 2^(k - 1) <= v
    OBVIOUS
  <2>1. k - 1 \in 0..WORD /\ ~(k <= k - 1)
    BY <1>1, <1>4
  <2>2. k - 1 \notin T
    <3> HIDE DEF T
    <3> QED
      BY <1>3, <2>1
  <2> QED
    BY <1>1, <2>1, <2>2
<1>6. SizeInBits(v) \in 0..WORD /\ 2^SizeInBits(v) > v
  BY <1>4, <1>5 DEF SizeInBits
<1>7. SizeInBits(v) # 0
  <2> SUFFICES ASSUME SizeInBits(v) = 0 PROVE FALSE
    OBVIOUS
  <2>1. 2^0 > v /\ 2^0 = 1
    BY <1>6
  <2> QED
    BY <2>1
<1> QED
  BY <1>1, <1>6, <1>7

LEMMA PutUeKeeps ==
  ASSUME NEW b, Buffered(b), NEW v \in Nat, v <= 2 * MaxCode
  PROVE  Buffered(PutUe(b, v))
<1>1. MaxCode \in Nat /\ 2 * MaxCode + 1 < 2^WORD /\ 2^WORD \in Nat
      /\ WORD \in Nat
  BY BitsAssumption, WordFacts DEF WORD
<1>2. v + 1 \in Nat \ {0} /\ v + 1 < 2^WORD
  BY <1>1
<1>3. SizeInBits(v + 1) \in 1..WORD
  BY <1>2, SizeOfCode
<1>4. SizeInBits(v + 1) - 1 \in 0..WORD /\ SizeInBits(v + 1) \in 0..WORD
  BY <1>1, <1>3
<1>5. Buffered(PutUi(b, 0, SizeInBits(v + 1) - 1))
  BY <1>4, PutUiKeeps
<1> QED
  BY <1>4, <1>5, PutUiKeeps DEF PutUe

LEMMA AlignedKeeps ==
  ASSUME NEW b, Buffered(b), NEW bit
  PROVE  Buffered(Aligned(b, bit))
<1> DEFINE left == BYTE_BITS - (b.bit_offset % BYTE_BITS)
<1>1. BYTE_BITS \in Nat \ {0} /\ BYTE_BITS <= WORD /\ WORD \in Nat
      /\ b.bit_offset \in Nat
  <2>1. b.bit_offset \in 0..WORD * Len(b.buffer) - 1
    BY DEF Buffered
  <2> QED
    BY <2>1, WordFacts
<1>2. left \in 0..WORD
  <2>1. b.bit_offset % BYTE_BITS \in 0..BYTE_BITS - 1
    BY <1>1, DivMod
  <2> QED
    BY <1>1, <2>1
<1>3. Aligned(b, bit) = IF left = BYTE_BITS THEN b
        ELSE PutUi(b, IF bit = 1 THEN 2^left - 1 ELSE 0, left)
  BY DEF Aligned
<1> HIDE DEF left
<1> QED
  BY <1>2, <1>3, PutUiKeeps

LEMMA EndedKeeps ==
  ASSUME NEW b, Buffered(b)
  PROVE  Buffered(Ended(b))
<1> DEFINE o == b.bit_offset
           l == Len(b.buffer)
           pos == o \div WORD
           left == WORD - (o % WORD)
           f == [b.buffer EXCEPT ![pos + 1] =
                   va_swap32(Word(b.buffer[pos + 1] * 2^left))]
<1>1. /\ l \in Nat /\ o \in 0..WORD * l - 1
      /\ b = [buffer |-> b.buffer, bit_offset |-> o]
      /\ b.buffer \in Seq(ToSet(b.buffer)) /\ l % STEPPING = 0
  BY DEF Buffered
<1>2. CASE left = WORD
  BY <1>2 DEF Ended
<1>3. CASE left # WORD
  <2>1. Ended(b) = [buffer |-> f, bit_offset |-> o]
    <3>1. Ended(b) = [b EXCEPT !.buffer[pos + 1] =
                        va_swap32(Word(@ * 2^left))]
      BY <1>3 DEF Ended
    <3> QED
      BY <1>1, <3>1
  <2>2. f = [i \in 1..l |-> f[i]]
    BY <1>1
  <2>3. f \in Seq(ToSet(f)) /\ Len(f) = l
    BY <1>1, <2>2, ListOfItsMembers
  <2>4. Ended(b).buffer = f /\ Ended(b).bit_offset = o
    BY <2>1
  <2> HIDE DEF f, o, l
  <2> QED
    BY <1>1, <2>1, <2>3, <2>4 DEF Buffered, o
<1> QED
  BY <1>2, <1>3

LEMMA BitsStart == BsInit => Buffered(bs)
<1> SUFFICES ASSUME BsInit PROVE Buffered(bs)
  OBVIOUS
<1> DEFINE f == [i \in 1..STEPPING |-> 0]
<1>1. bs = [buffer |-> f, bit_offset |-> 0]
  BY DEF BsInit, bitstream_start
<1>2. STEPPING \in Nat \ {0} /\ WORD \in Nat \ {0}
  BY WordFacts
<1>3. f \in Seq(ToSet(f)) /\ Len(f) = STEPPING
  <2>1. f = [i \in 1..STEPPING |-> f[i]]
    OBVIOUS
  <2> HIDE DEF f
  <2> QED
    BY <1>2, <2>1, ListOfItsMembers
<1>4. STEPPING % STEPPING = 0
  <2>1. 0 % STEPPING = 0 /\ (0 + STEPPING) % STEPPING = 0 % STEPPING
    BY <1>2, ModPlus, ModSmall
  <2> QED
    BY <1>2, <2>1
<1>5. 0 \in 0..WORD * STEPPING - 1
  <2>1. WORD * STEPPING >= WORD /\ WORD * STEPPING \in Nat
    BY <1>2, Multiple
  <2> QED
    BY <1>2, <2>1
<1>6. bs.buffer = f /\ bs.bit_offset = 0
  BY <1>1
<1> HIDE DEF f
<1> QED
  BY <1>1, <1>3, <1>4, <1>5, <1>6 DEF Buffered

LEMMA BitsKeep == Buffered(bs) /\ [BsNext]_bsVars => Buffered(bs)'
<1> SUFFICES ASSUME Buffered(bs), [BsNext]_bsVars PROVE Buffered(bs)'
  OBVIOUS
<1>1. \A b : Buffered(b) /\ bs' = b => Buffered(bs)'
  BY DEF Buffered
<1>2. WORD \in Nat \ {0} /\ MaxCode \in Nat
  BY WordFacts, BitsAssumption
<1>3. CASE StartCode
  <2>1. bs' = PutUi(bs, 1, WORD) /\ WORD \in 0..WORD
    BY <1>2, <1>3 DEF StartCode, Written
  <2> QED
    BY <1>1, <2>1, PutUiKeeps
<1>4. CASE PutElement
  <2>1. ASSUME NEW n \in 1..WORD - 1, NEW v, bs' = PutUi(bs, v, n)
        PROVE  Buffered(bs)'
    <3>1. n \in 0..WORD
      BY <1>2
    <3> QED
      BY <1>1, <2>1, <3>1, PutUiKeeps
  <2>2. ASSUME NEW v \in Nat, v <= 2 * MaxCode, bs' = PutUe(bs, v)
        PROVE  Buffered(bs)'
    BY <1>1, <2>2, PutUeKeeps
  <2>3. ASSUME NEW v \in 0..MaxCode, bs' = PutUe(bs, v)
        PROVE  Buffered(bs)'
    <3>1. v \in Nat /\ v <= 2 * MaxCode
      BY <1>2
    <3> QED
      BY <2>2, <2>3, <3>1
  <2>4. ASSUME NEW v \in -MaxCode..MaxCode, bs' = PutSe(bs, v)
        PROVE  Buffered(bs)'
    <3> DEFINE k == IF v <= 0 THEN -2 * v ELSE 2 * v - 1
    <3>1. k \in Nat /\ k <= 2 * MaxCode
      BY <1>2
    <3>2. bs' = PutUe(bs, k)
      BY <2>4 DEF PutSe
    <3> HIDE DEF k
    <3> QED
      BY <2>2, <3>1, <3>2
  <2> QED
    BY <1>4, <2>1, <2>3, <2>4 DEF PutElement, Written
<1>5. CASE Close
  <2>1. CASE bs' = Trailing(bs)
    <3>1. 1 \in 0..WORD
      BY <1>2
    <3> QED
      BY <1>1, <2>1, <3>1, PutUiKeeps, AlignedKeeps DEF Trailing
  <2>2. CASE bs' = Aligned(bs, 1)
    BY <1>1, <2>2, AlignedKeeps
  <2>3. CASE UNCHANGED bs
    BY <1>1, <2>3
  <2> QED
    BY <1>5, <2>1, <2>2, <2>3 DEF Close, Written
<1>6. CASE bitstream_end
  BY <1>1, <1>6, EndedKeeps DEF bitstream_end
<1>7. CASE UNCHANGED bsVars
  BY <1>1, <1>7 DEF bsVars
<1> QED
  BY <1>3, <1>4, <1>5, <1>6, <1>7 DEF BsNext

(* bitstream_put_ui, wherever an element ends and however long it is, up   *)
(* to a word: the buffer has been reallocated, by whole steps, before the  *)
(* next word of it is written or asked for. *)
THEOREM BufferIsLongEnough == BsSpec => []BufferKeepsUp
<1>1. Buffered(bs) => BufferKeepsUp
  BY DEF Buffered, BufferKeepsUp
<1> QED
  BY <1>1, BitsStart, BitsKeep, PTL DEF BsSpec

-----------------------------------------------------------------------------
(* The programs together *)

LEMMA ProgramsStart ==
  ProgramsInit => PlayerInit /\ Init /\ EncInit /\ BsInit
BY DEF ProgramsInit

(* A step of the one that runs is a step of its module, and leaves the     *)
(* others where they are. *)
LEMMA ProgramsStepOf ==
  ASSUME [ProgramsNext]_programVars
  PROVE  /\ [PlayerNext]_playerVars /\ [Next]_vars /\ [EncNext]_encVars
         /\ [BsNext]_bsVars
<1>1. CASE UNCHANGED programVars
  BY <1>1 DEF programVars
<1>2. CASE ProgramsNext
  BY <1>2 DEF ProgramsNext, Runs
<1> QED
  BY <1>1, <1>2

(* Whichever program runs, each module is in the behaviours that its own   *)
(* specification allows: what is proved of the player, of the threads of   *)
(* the encoder, of its setup and of its bit writer holds for the programs. *)
THEOREM ProgramsRunTheirParts ==
  ProgramsSpec => PlayerSpec /\ Spec /\ EncSpec /\ BsSpec
<1>1. ProgramsSpec => ProgramsInit /\ [][ProgramsNext]_programVars
  BY PTL DEF ProgramsSpec
<1> QED
  BY <1>1, ProgramsStart, ProgramsStepOf, PTL
    DEF PlayerSpec, Spec, EncSpec, BsSpec

(* The programs on a driver of libva are safe, for any number of packets,  *)
(* entries, surfaces, slots and frames, any periods and any driver: but    *)
(* for the bits of a header, and that a word stays one, what is checked of *)
(* every state holds in every state. *)
THEOREM ProgramsAreSafe ==
  ProgramsSpec =>
    [](/\ PlayerTypeOK /\ EncTypeOK /\ BufferKeepsUp /\ TypeOK
       /\ EntriesKept /\ SleepersServed /\ ShownInOrder /\ SurfacesApart
       /\ SlotExclusive /\ FileInOrder /\ ShotsInOrder /\ ReferencesIntact
       /\ DriverAgreed)
BY ProgramsRunTheirParts, PlayerTypeCorrect, EncoderTypeCorrect,
   BufferIsLongEnough, TypeCorrect, EntriesAreKept, SleepersAreServed,
   ShownAsReturned, SurfacesStayApart, SlotsExclusive, FileOrdered,
   ShotsOrdered, ReferencesKept, EncoderAgreesWithDriver, PTL
=============================================================================
