-------------------------- MODULE ContainersProofs --------------------------
(***************************************************************************)
(* The shell sort of the containers sorts every array, of every length.    *)
(***************************************************************************)
EXTENDS Containers, NaturalsInduction, WellFoundedInduction, TLAPS

(* A set of natural numbers that is not empty has a least element.         *)
LEMMA Least ==
    ASSUME NEW A \in SUBSET Nat, A # {}
    PROVE  \E k \in A : \A j \in A : k <= j
<1> DEFINE R == {p \in Nat \X Nat : p[1] < p[2]}
<1>1. OpToRel(<, Nat) = R
  BY DEF OpToRel
<1>2. IsWellFoundedOn(R, Nat)
  BY <1>1, NatLessThanWellFounded
<1>3. \E x \in A : \A y \in A : ~(<<y, x>> \in R)
  <2> HIDE DEF R
  <2>1. QED
    BY <1>2, WFMin
<1>4. PICK k \in A : \A y \in A : ~(<<y, k>> \in R)
  BY <1>3
<1>5. ASSUME NEW j \in A PROVE k <= j
  <2>1. ~(j < k)
    BY <1>4
  <2>2. QED
    BY <2>1
<1>6. QED
  BY <1>5

-----------------------------------------------------------------------------
(* The order of the values.                                                *)

Less == {"strcmp", "strcasecmp"}

Items == {NULL} \cup [text : DOMAIN Lower, addr : Nat]

(* The two comparisons agree with the order of the texts they look at, and *)
(* put NULL last.                                                          *)
LEMMA LessOrders ==
    ASSUME NEW less \in Less, NEW a \in Items, NEW b \in Items
    PROVE  /\ L!LessThan(less, a, b) => InOrder(less, a, b)
           /\ ~L!LessThan(less, a, b) => InOrder(less, b, a)
<1>1. \A p \in Items : p # NULL => p.text \in Nat /\ Lower[p.text] \in Nat
  BY LowerAssumption DEF Items
<1>2. CASE less = "strcmp"
  BY <1>1, <1>2 DEF L!LessThan, L!less_than_strcmp, InOrder, F!Aspect
<1>3. CASE less = "strcasecmp"
  BY <1>1, <1>3 DEF L!LessThan, L!less_than_strcasecmp, InOrder, F!Aspect
<1>4. QED
  BY <1>2, <1>3 DEF Less

-----------------------------------------------------------------------------
(* One value sifted down.                                                  *)

(* The place of the value after m moves.                                   *)
At(i, gap, m) == i - m * gap

Stop(vals, i, gap, less, j) == ~(j >= gap /\ L!LessThan(less, vals[i + 1], vals[j - gap + 1]))

(* The value comes to rest after n moves.                                  *)
RestsAfter(vals, i, gap, less, n) ==
    /\ At(i, gap, n) >= 0 /\ Stop(vals, i, gap, less, At(i, gap, n))
    /\ \A m \in 0 .. n - 1 : ~Stop(vals, i, gap, less, At(i, gap, m))

(* The array when it has.                                                  *)
SiftedBy(vals, len, i, gap, n) ==
    [k \in 1 .. len |->
        IF k = At(i, gap, n) + 1 THEN vals[i + 1]
        ELSE IF \E m \in 0 .. n - 1 : k = At(i, gap, m) + 1 THEN vals[k - gap]
        ELSE vals[k]]

(* Every move goes down by the gap.                                        *)
LEMMA AtFacts ==
    ASSUME NEW i \in Nat, NEW gap \in Nat \ {0}
    PROVE  /\ At(i, gap, 0) = i
           /\ \A m \in Nat : At(i, gap, m) \in Int /\ At(i, gap, m + 1) = At(i, gap, m) - gap
           /\ \A m, q \in Nat : m < q => At(i, gap, q) + gap <= At(i, gap, m)
<1>1. At(i, gap, 0) = i /\ \A m \in Nat : At(i, gap, m) \in Int /\ At(i, gap, m + 1) = At(i, gap, m) - gap
  BY DEF At
<1>2. ASSUME NEW m \in Nat, NEW q \in Nat, m < q
      PROVE  At(i, gap, q) + gap <= At(i, gap, m)
  <2>1. PICK d \in Nat : q = m + 1 + d
    <3>1. q - m - 1 \in Nat /\ q = m + 1 + (q - m - 1)
      BY <1>2
    <3>2. QED
      BY <3>1
  <2>2. q * gap = m * gap + gap + d * gap
    BY <2>1
  <2>3. d * gap \in Nat /\ m * gap \in Nat /\ q * gap \in Nat
    OBVIOUS
  <2>4. QED
    BY <2>2, <2>3 DEF At
<1>3. QED
  BY <1>1, <1>2

(* The inner loop stops, and leaves the array as SiftedBy says.            *)
LEMMA SiftRests ==
    ASSUME NEW len \in Nat, NEW vals, DOMAIN vals = 1 .. len,
           NEW gap \in Nat \ {0}, NEW i \in Nat, NEW less
    PROVE  \E n \in 0 .. i : /\ RestsAfter(vals, i, gap, less, n)
                             /\ L!SiftDown(vals, i, gap, less) = SiftedBy(vals, len, i, gap, n)
<1> DEFINE A == {m \in 0 .. i : At(i, gap, m) >= 0 /\ Stop(vals, i, gap, less, At(i, gap, m))}
<1>0. /\ At(i, gap, 0) = i
      /\ \A m \in Nat : At(i, gap, m) \in Int /\ At(i, gap, m + 1) = At(i, gap, m) - gap
      /\ \A m, q \in Nat : m < q => At(i, gap, q) + gap <= At(i, gap, m)
  BY AtFacts
<1>1. A # {}
  <2> DEFINE B == {m \in Nat : At(i, gap, m) < gap}
  <2>1. i + 1 \in B
    <3>1. (i + 1) * gap >= i + 1
      OBVIOUS
    <3>2. QED
      BY <3>1 DEF At
  <2>2. PICK m \in B : \A j \in B : m <= j
    BY <2>1, Least
  <2>3. At(i, gap, m) >= 0
    <3>1. CASE m = 0
      BY <1>0, <3>1
    <3>2. CASE m # 0
      <4>1. PICK q \in Nat : m = q + 1
        <5>1. m \in Nat /\ m - 1 \in Nat /\ m = (m - 1) + 1
          BY <2>2, <3>2
        <5>2. QED
          BY <5>1
      <4>2. q \notin B
        BY <2>2, <4>1
      <4>3. At(i, gap, q) \in Int /\ At(i, gap, m) = At(i, gap, q) - gap
        BY <1>0, <4>1
      <4>4. ~(At(i, gap, q) < gap)
        BY <4>2
      <4>5. QED
        BY <4>3, <4>4
    <3>3. QED
      BY <3>1, <3>2
  <2>4. m <= i
    <3>1. m * gap >= m /\ m * gap \in Nat
      OBVIOUS
    <3>2. QED
      BY <2>3, <3>1 DEF At
  <2>5. m \in A
    <3>1. At(i, gap, m) \in Int /\ At(i, gap, m) < gap
      BY <1>0, <2>2
    <3>2. Stop(vals, i, gap, less, At(i, gap, m))
      BY <3>1 DEF Stop
    <3>3. QED
      BY <2>2, <2>3, <2>4, <3>2
  <2>6. QED
    BY <2>5
<1>2. \E n \in A : \A j \in A : n <= j
  <2>1. A \in SUBSET Nat
    OBVIOUS
  <2> HIDE DEF A
  <2>2. QED
    BY <1>1, <2>1, Least
<1>3. PICK n : n = L!Lowest(A)
  OBVIOUS
<1>4. n \in A /\ \A j \in A : n <= j
  <2> HIDE DEF A
  <2>1. QED
    BY <1>2, <1>3 DEF L!Lowest
<1>5. ASSUME NEW m \in 0 .. n - 1
      PROVE  ~Stop(vals, i, gap, less, At(i, gap, m))
  <2>1. n \in 0 .. i /\ At(i, gap, n) >= 0
    BY <1>4
  <2>2. m \in 0 .. i /\ m < n /\ m \notin A
    BY <1>4, <1>5, <2>1
  <2>3. At(i, gap, n) + gap <= At(i, gap, m) /\ At(i, gap, n) \in Int /\ At(i, gap, m) \in Int
    <3>1. m \in Nat /\ n \in Nat /\ m < n
      BY <2>1, <2>2
    <3>2. QED
      BY <1>0, <3>1
  <2>4. At(i, gap, m) >= 0
    BY <2>1, <2>3
  <2>5. QED
    BY <2>2, <2>4
<1>6. L!SiftDown(vals, i, gap, less) = SiftedBy(vals, len, i, gap, n)
  BY <1>3 DEF L!SiftDown, L!Sifted, SiftedBy, At, Stop
<1>7. QED
  BY <1>4, <1>5, <1>6 DEF RestsAfter

(* f only moves things about.                                              *)
Permutes(f, len) ==
    /\ f \in [1 .. len -> 1 .. len]
    /\ \A j, k \in 1 .. len : f[j] = f[k] => j = k
    /\ \A y \in 1 .. len : \E k \in 1 .. len : f[k] = y

(* Sifting only moves values about.                                        *)
LEMMA SiftPermutes ==
    ASSUME NEW len \in Nat, NEW gap \in Nat \ {0}, NEW i \in Nat, i < len, NEW n \in 0 .. i,
           At(i, gap, n) >= 0
    PROVE  \E f : /\ Permutes(f, len)
                  /\ \A vals : \A k \in 1 .. len : SiftedBy(vals, len, i, gap, n)[k] = vals[f[k]]
<1> DEFINE C == {At(i, gap, m) + 1 : m \in 0 .. n - 1}
           r == At(i, gap, n) + 1
           f == [k \in 1 .. len |-> IF k = r THEN i + 1 ELSE IF k \in C THEN k - gap ELSE k]
<1>1. /\ At(i, gap, 0) = i
      /\ \A m \in Nat : At(i, gap, m) \in Int /\ At(i, gap, m + 1) = At(i, gap, m) - gap
      /\ \A m, q \in Nat : m < q => At(i, gap, q) + gap <= At(i, gap, m)
  BY AtFacts
<1>2. n \in Nat
  OBVIOUS
<1>3. \A m \in 0 .. n - 1 : /\ m \in Nat /\ m < n
                            /\ At(i, gap, m) \in Int /\ At(i, gap, n) + gap <= At(i, gap, m)
                            /\ At(i, gap, m) <= i
  <2>1. ASSUME NEW m \in 0 .. n - 1
        PROVE  /\ m \in Nat /\ m < n
               /\ At(i, gap, m) \in Int /\ At(i, gap, n) + gap <= At(i, gap, m) /\ At(i, gap, m) <= i
    <3>1. m \in Nat /\ m < n
      BY <1>2
    <3>2. At(i, gap, m) \in Int /\ At(i, gap, n) + gap <= At(i, gap, m)
      BY <1>1, <1>2, <3>1
    <3>3. At(i, gap, m) <= i
      <4>1. CASE m = 0
        BY <1>1, <4>1
      <4>2. CASE m # 0
        <5>1. 0 \in Nat /\ 0 < m
          BY <3>1, <4>2
        <5>2. At(i, gap, m) + gap <= At(i, gap, 0)
          BY <1>1, <3>1, <5>1
        <5>3. QED
          BY <1>1, <3>2, <5>2
      <4>3. QED
        BY <4>1, <4>2
    <3>4. QED
      BY <3>1, <3>2, <3>3
  <2>2. QED
    BY <2>1
<1>4. At(i, gap, n) \in Int
  BY <1>1, <1>2
<1>5. r \in 1 .. i + 1 /\ r \notin C /\ C \subseteq 1 .. i + 1
  <2>1. \A m \in 0 .. n - 1 : At(i, gap, m) + 1 \in 1 .. i + 1 /\ At(i, gap, m) + 1 # r
    BY <1>3, <1>4
  <2>2. r \in 1 .. i + 1
    <3>1. CASE n = 0
      BY <1>1, <3>1
    <3>2. CASE n # 0
      <4>1. 0 \in 0 .. n - 1
        BY <1>2, <3>2
      <4>2. QED
        BY <1>3, <1>4, <4>1
    <3>3. QED
      BY <3>1, <3>2
  <2>3. QED
    BY <2>1, <2>2
<1>6. i + 1 \in C \cup {r}
  <2>1. CASE n = 0
    BY <1>1, <2>1
  <2>2. CASE n # 0
    <3>1. 0 \in 0 .. n - 1
      BY <1>2, <2>2
    <3>2. QED
      BY <1>1, <3>1
  <2>3. QED
    BY <2>1, <2>2
<1>7. ASSUME NEW m \in 0 .. n - 1
      PROVE  (At(i, gap, m) + 1) - gap \in C \cup {r}
  <2>1. m \in Nat /\ m < n /\ At(i, gap, m) \in Int
    BY <1>3
  <2>2. At(i, gap, m + 1) = At(i, gap, m) - gap
    BY <1>1, <2>1
  <2>3. (At(i, gap, m) + 1) - gap = At(i, gap, m + 1) + 1
    BY <2>1, <2>2
  <2>4. m + 1 = n \/ m + 1 \in 0 .. n - 1
    BY <1>2, <2>1
  <2>5. QED
    BY <2>3, <2>4
<1>8. ASSUME NEW m \in 0 .. n, At(i, gap, m) # i
      PROVE  (At(i, gap, m) + 1) + gap \in C
  <2>1. PICK q \in 0 .. n - 1 : m = q + 1
    <3>1. m # 0
      BY <1>1, <1>8
    <3>2. m - 1 \in 0 .. n - 1 /\ m = (m - 1) + 1
      BY <1>2, <1>8, <3>1
    <3>3. QED
      BY <3>2
  <2>2. q \in Nat /\ At(i, gap, q) \in Int
    BY <1>3
  <2>3. At(i, gap, m) = At(i, gap, q) - gap
    BY <1>1, <2>1, <2>2
  <2>4. (At(i, gap, m) + 1) + gap = At(i, gap, q) + 1
    BY <2>2, <2>3
  <2>5. QED
    BY <2>4
<1>9. \A k \in C : k - gap \in C \cup {r}
  BY <1>7
<1>10. \A k \in C \cup {r} : k # i + 1 => k + gap \in C
  <2>1. \A m \in 0 .. n - 1 : m \in 0 .. n
    BY <1>2
  <2>2. n \in 0 .. n
    BY <1>2
  <2>3. QED
    BY <1>3, <1>4, <1>8, <2>1, <2>2
<1>11. ASSUME NEW vals, NEW k \in 1 .. len
       PROVE  SiftedBy(vals, len, i, gap, n)[k] = vals[f[k]]
  <2>1. k \in C <=> \E m \in 0 .. n - 1 : k = At(i, gap, m) + 1
    OBVIOUS
  <2> HIDE DEF C
  <2>2. SiftedBy(vals, len, i, gap, n)[k] =
           IF k = r THEN vals[i + 1] ELSE IF k \in C THEN vals[k - gap] ELSE vals[k]
    BY <2>1 DEF SiftedBy
  <2>3. f[k] = IF k = r THEN i + 1 ELSE IF k \in C THEN k - gap ELSE k
    OBVIOUS
  <2> HIDE DEF f, r
  <2>4. QED
    BY <2>2, <2>3
<1> HIDE DEF C, r
<1>12. f \in [1 .. len -> 1 .. len]
  BY <1>5, <1>9
<1>13. \A j, k \in 1 .. len : f[j] = f[k] => j = k
  BY <1>5, <1>6, <1>9
<1>14. ASSUME NEW y \in 1 .. len
       PROVE  \E k \in 1 .. len : f[k] = y
  <2>1. CASE y = i + 1
    <3>1. r \in 1 .. len /\ f[r] = y
      BY <1>5, <2>1
    <3>2. QED
      BY <3>1
  <2>2. CASE y # i + 1 /\ y + gap \in C
    <3>1. y + gap \in 1 .. len /\ y + gap # r /\ (y + gap) - gap = y
      BY <1>5, <2>2
    <3>2. f[y + gap] = y
      BY <2>2, <3>1
    <3>3. QED
      BY <3>1, <3>2
  <2>3. CASE y # i + 1 /\ y + gap \notin C
    <3>1. y \notin C \cup {r}
      BY <1>10, <2>3
    <3>2. f[y] = y
      BY <3>1
    <3>3. QED
      BY <3>2
  <2>4. QED
    BY <2>1, <2>2, <2>3
<1>15. Permutes(f, len)
  BY <1>12, <1>13, <1>14 DEF Permutes
<1> HIDE DEF f
<1>16. QED
  BY <1>11, <1>15

(* b holds what a holds, in some order.                                    *)
Kept(a, b, len) ==
    /\ b \in [1 .. len -> Items]
    /\ \E f : Permutes(f, len) /\ \A k \in 1 .. len : b[k] = a[f[k]]

(* An array is kept by doing nothing.                                      *)
LEMMA KeptSame ==
    ASSUME NEW len \in Nat, NEW a \in [1 .. len -> Items]
    PROVE  Kept(a, a, len)
<1> DEFINE f == [k \in 1 .. len |-> k]
<1>1. Permutes(f, len) /\ \A k \in 1 .. len : a[k] = a[f[k]]
  BY DEF Permutes
<1> HIDE DEF f
<1>2. QED
  BY <1>1 DEF Kept

(* ... and by keeping it twice.                                            *)
LEMMA KeptTwice ==
    ASSUME NEW len \in Nat, NEW a, NEW b, NEW d, Kept(a, b, len), Kept(b, d, len)
    PROVE  Kept(a, d, len)
<1>1. PICK f : Permutes(f, len) /\ \A k \in 1 .. len : b[k] = a[f[k]]
  BY DEF Kept
<1>2. PICK g : Permutes(g, len) /\ \A k \in 1 .. len : d[k] = b[g[k]]
  BY DEF Kept
<1> DEFINE h == [k \in 1 .. len |-> f[g[k]]]
<1>3. \A k \in 1 .. len : g[k] \in 1 .. len /\ f[k] \in 1 .. len
  BY <1>1, <1>2 DEF Permutes
<1>4. \A k \in 1 .. len : h[k] = f[g[k]] /\ d[k] = a[h[k]]
  BY <1>1, <1>2, <1>3
<1>5. h \in [1 .. len -> 1 .. len]
  BY <1>3
<1>6. \A j, k \in 1 .. len : h[j] = h[k] => j = k
  BY <1>1, <1>2, <1>3, <1>4 DEF Permutes
<1>7. ASSUME NEW y \in 1 .. len
      PROVE  \E k \in 1 .. len : h[k] = y
  <2>1. PICK j \in 1 .. len : f[j] = y
    BY <1>1 DEF Permutes
  <2>2. PICK k \in 1 .. len : g[k] = j
    BY <1>2 DEF Permutes
  <2>3. QED
    BY <1>4, <2>1, <2>2
<1> HIDE DEF h
<1>8. Permutes(h, len)
  BY <1>5, <1>6, <1>7 DEF Permutes
<1>9. QED
  BY <1>4, <1>8 DEF Kept

(* One pass at one place keeps the array.                                  *)
LEMMA SiftKeeps ==
    ASSUME NEW len \in Nat, NEW vals \in [1 .. len -> Items],
           NEW gap \in Nat \ {0}, NEW i \in Nat, i < len, NEW less
    PROVE  Kept(vals, L!SiftDown(vals, i, gap, less), len)
<1>1. PICK n \in 0 .. i : /\ RestsAfter(vals, i, gap, less, n)
                          /\ L!SiftDown(vals, i, gap, less) = SiftedBy(vals, len, i, gap, n)
  BY SiftRests
<1>2. PICK b : b = SiftedBy(vals, len, i, gap, n)
  OBVIOUS
<1>3. PICK f : Permutes(f, len) /\ \A k \in 1 .. len : b[k] = vals[f[k]]
  BY <1>1, <1>2, SiftPermutes DEF RestsAfter
<1>4. b = [k \in 1 .. len |-> b[k]]
  BY <1>2 DEF SiftedBy
<1>5. \A k \in 1 .. len : b[k] \in Items
  BY <1>3 DEF Permutes
<1>6. b \in [1 .. len -> Items]
  BY <1>4, <1>5
<1>7. QED
  BY <1>1, <1>2, <1>3, <1>6 DEF Kept

(* The first m values are in order.                                        *)
OrderedTo(less, a, m) == \A k \in 1 .. m - 1 : InOrder(less, a[k], a[k + 1])

(* With a gap of one, a value is inserted into the ordered ones before it. *)
LEMMA SiftInserts ==
    ASSUME NEW len \in Nat, NEW vals \in [1 .. len -> Items], NEW less \in Less,
           NEW i \in Nat, i < len, OrderedTo(less, vals, i)
    PROVE  OrderedTo(less, L!SiftDown(vals, i, 1, less), i + 1)
<1>1. PICK n \in 0 .. i : /\ RestsAfter(vals, i, 1, less, n)
                          /\ L!SiftDown(vals, i, 1, less) = SiftedBy(vals, len, i, 1, n)
  BY SiftRests
<1>2. \A m \in Nat : At(i, 1, m) = i - m
  BY DEF At
<1>3. PICK r \in Nat : r = i - n /\ r <= i
  <2>1. i - n \in Nat /\ i - n <= i
    OBVIOUS
  <2>2. QED
    BY <2>1
<1>4. PICK b : b = SiftedBy(vals, len, i, 1, n)
  OBVIOUS
<1>5. \A k \in 1 .. len : b[k] = IF k = r + 1 THEN vals[i + 1]
                                ELSE IF k > r + 1 /\ k <= i + 1 THEN vals[k - 1] ELSE vals[k]
  <2>1. At(i, 1, n) = r /\ \A m \in 0 .. n - 1 : At(i, 1, m) = i - m
    BY <1>2, <1>3
  <2>2. ASSUME NEW k \in 1 .. len
        PROVE  (\E m \in 0 .. n - 1 : k = At(i, 1, m) + 1) <=> k > r + 1 /\ k <= i + 1
    <3>1. ASSUME k > r + 1, k <= i + 1 PROVE i + 1 - k \in 0 .. n - 1 /\ k = i - (i + 1 - k) + 1
      BY <1>3, <3>1
    <3>2. ASSUME NEW m \in 0 .. n - 1, k = i - m + 1 PROVE k > r + 1 /\ k <= i + 1
      BY <1>3, <3>2
    <3>3. QED
      BY <2>1, <3>1, <3>2
  <2>3. QED
    BY <1>4, <2>1, <2>2 DEF SiftedBy
<1>6. r >= 1 => InOrder(less, vals[r], vals[i + 1])
  <2> SUFFICES ASSUME r >= 1 PROVE InOrder(less, vals[r], vals[i + 1])
    OBVIOUS
  <2>1. Stop(vals, i, 1, less, r)
    BY <1>1, <1>2, <1>3 DEF RestsAfter
  <2>2. r - 1 + 1 = r
    BY <1>3
  <2>3. ~L!LessThan(less, vals[i + 1], vals[r])
    BY <2>1, <2>2 DEF Stop
  <2>4. vals[i + 1] \in Items /\ vals[r] \in Items
    BY <1>3
  <2>5. QED
    BY <2>3, <2>4, LessOrders
<1>7. n >= 1 => InOrder(less, vals[i + 1], vals[r + 1])
  <2> SUFFICES ASSUME n >= 1 PROVE InOrder(less, vals[i + 1], vals[r + 1])
    OBVIOUS
  <2>1. n - 1 \in 0 .. n - 1 /\ n - 1 \in Nat /\ i - (n - 1) = r + 1 /\ (r + 1) - 1 + 1 = r + 1
    BY <1>3
  <2>2. ~Stop(vals, i, 1, less, At(i, 1, n - 1)) /\ At(i, 1, n - 1) = r + 1
    BY <1>1, <1>2, <2>1 DEF RestsAfter
  <2>3. L!LessThan(less, vals[i + 1], vals[r + 1])
    BY <2>1, <2>2 DEF Stop
  <2>4. vals[i + 1] \in Items /\ vals[r + 1] \in Items
    BY <1>3
  <2>5. QED
    BY <2>3, <2>4, LessOrders
<1>8. ASSUME NEW k \in 1 .. i
      PROVE  InOrder(less, b[k], b[k + 1])
  <2>1. k \in 1 .. len /\ k + 1 \in 1 .. len
    OBVIOUS
  <2>2. CASE k < r
    <3>1. b[k] = vals[k] /\ b[k + 1] = vals[k + 1] /\ k \in 1 .. i - 1
      BY <1>3, <1>5, <2>1, <2>2
    <3>2. QED
      BY <3>1 DEF OrderedTo
  <2>3. CASE k = r
    <3>1. b[k] = vals[r] /\ b[k + 1] = vals[i + 1] /\ r >= 1
      BY <1>3, <1>5, <2>1, <2>3
    <3>2. QED
      BY <1>6, <3>1
  <2>4. CASE k = r + 1
    <3>1. b[k] = vals[i + 1] /\ b[k + 1] = vals[r + 1] /\ n >= 1
      BY <1>3, <1>5, <2>1, <2>4
    <3>2. QED
      BY <1>7, <3>1
  <2>5. CASE k > r + 1
    <3>1. b[k] = vals[k - 1] /\ b[k + 1] = vals[k] /\ k - 1 \in 1 .. i - 1 /\ (k - 1) + 1 = k
      BY <1>3, <1>5, <2>1, <2>5
    <3>2. QED
      BY <3>1 DEF OrderedTo
  <2>6. QED
    BY <1>3, <2>2, <2>3, <2>4, <2>5
<1>9. (i + 1) - 1 = i
  OBVIOUS
<1>10. QED
  BY <1>1, <1>4, <1>8, <1>9 DEF OrderedTo

-----------------------------------------------------------------------------
(* The loops around it.                                                    *)

(* u holds the array after each place of a pass.                           *)
IsPass(u, vals, size, gap, less) ==
    u = [n \in 0 .. size |->
            IF n <= gap THEN vals ELSE L!SiftDown(u[n - 1], n - 1, gap, less)]

(* The recursion of a pass is well founded.                                *)
LEMMA PassExists ==
    ASSUME NEW vals, NEW size \in Nat, NEW gap \in Nat \ {0}, NEW less
    PROVE  \E u : IsPass(u, vals, size, gap, less)
<1> DEFINE B == {n \in Nat : ~\E u : IsPass(u, vals, n, gap, less)}
<1> SUFFICES ASSUME B # {} PROVE FALSE
  OBVIOUS
<1>1. PICK n \in B : \A j \in B : n <= j
  <2>1. B \in SUBSET Nat
    OBVIOUS
  <2> HIDE DEF B
  <2>2. QED
    BY <2>1, Least
<1>2. CASE n = 0
  <2> DEFINE u == [m \in 0 .. 0 |-> vals]
  <2>1. \A m \in 0 .. 0 : m <= gap
    OBVIOUS
  <2>2. u = [m \in 0 .. 0 |-> IF m <= gap THEN vals ELSE L!SiftDown(u[m - 1], m - 1, gap, less)]
    BY <2>1
  <2> HIDE DEF u
  <2>3. IsPass(u, vals, 0, gap, less)
    BY <2>2 DEF IsPass
  <2>4. QED
    BY <1>1, <1>2, <2>3
<1>3. CASE n # 0
  <2>1. PICK q \in Nat : n = q + 1
    <3>1. n - 1 \in Nat /\ n = (n - 1) + 1
      BY <1>1, <1>3
    <3>2. QED
      BY <3>1
  <2>2. PICK u : IsPass(u, vals, q, gap, less)
    BY <1>1, <2>1
  <2> DEFINE v == [m \in 0 .. n |->
                     IF m <= q THEN u[m]
                     ELSE IF m <= gap THEN vals ELSE L!SiftDown(u[m - 1], m - 1, gap, less)]
  <2>3. ASSUME NEW m \in 0 .. n
        PROVE  v[m] = IF m <= gap THEN vals ELSE L!SiftDown(v[m - 1], m - 1, gap, less)
    <3>1. CASE m <= gap
      BY <2>1, <2>2, <3>1 DEF IsPass
    <3>2. CASE ~(m <= gap)
      <4>1. m - 1 \in 0 .. n /\ m - 1 <= q /\ m \in 0 .. n
        BY <2>1, <3>2
      <4>2. v[m - 1] = u[m - 1]
        BY <4>1
      <4>3. v[m] = L!SiftDown(u[m - 1], m - 1, gap, less)
        <5>1. CASE m <= q
          <6>1. v[m] = u[m] /\ m \in 0 .. q
            BY <2>1, <5>1
          <6>2. u[m] = L!SiftDown(u[m - 1], m - 1, gap, less)
            BY <2>2, <3>2, <6>1 DEF IsPass
          <6>3. QED
            BY <6>1, <6>2
        <5>2. CASE ~(m <= q)
          BY <3>2, <5>2
        <5>3. QED
          BY <5>1, <5>2
      <4>4. QED
        BY <3>2, <4>2, <4>3
    <3>3. QED
      BY <3>1, <3>2
  <2>4. v = [m \in 0 .. n |-> v[m]]
    OBVIOUS
  <2> HIDE DEF v
  <2>5. IsPass(v, vals, n, gap, less)
    BY <2>3, <2>4 DEF IsPass
  <2>6. QED
    BY <1>1, <2>5
<1>4. QED
  BY <1>2, <1>3

(* A pass is the last array of such a function.                            *)
LEMMA PassIs ==
    ASSUME NEW vals, NEW size \in Nat, NEW gap \in Nat \ {0}, NEW less
    PROVE  \E u : IsPass(u, vals, size, gap, less) /\ L!Pass(vals, size, gap, less) = u[size]
<1> DEFINE u == CHOOSE x : x = [n \in 0 .. size |->
                   IF n <= gap THEN vals ELSE L!SiftDown(x[n - 1], n - 1, gap, less)]
<1>1. \E x : x = [n \in 0 .. size |->
                   IF n <= gap THEN vals ELSE L!SiftDown(x[n - 1], n - 1, gap, less)]
  <2>1. PICK w : IsPass(w, vals, size, gap, less)
    BY PassExists
  <2>2. w = [n \in 0 .. size |->
               IF n <= gap THEN vals ELSE L!SiftDown(w[n - 1], n - 1, gap, less)]
    BY <2>1 DEF IsPass
  <2>3. QED
    BY <2>2, Zenon
<1>2. IsPass(u, vals, size, gap, less)
  BY <1>1 DEF IsPass
<1>3. L!Pass(vals, size, gap, less) = u[size]
  BY DEF L!Pass
<1> HIDE DEF u
<1>4. QED
  BY <1>2, <1>3

(* A pass keeps the array; the one with a gap of one orders it.            *)
LEMMA PassSorts ==
    ASSUME NEW len \in Nat, NEW vals \in [1 .. len -> Items], NEW gap \in Nat \ {0}, NEW less \in Less
    PROVE  /\ Kept(vals, L!Pass(vals, len, gap, less), len)
           /\ gap = 1 => OrderedTo(less, L!Pass(vals, len, gap, less), len)
<1>1. PICK u : IsPass(u, vals, len, gap, less) /\ L!Pass(vals, len, gap, less) = u[len]
  BY PassIs
<1> DEFINE Good(n) == Kept(vals, u[n], len) /\ (gap = 1 => OrderedTo(less, u[n], n))
           B == {n \in 0 .. len : ~Good(n)}
<1>2. ASSUME NEW n \in 0 .. len, n <= gap PROVE Good(n)
  <2>1. u[n] = vals
    BY <1>1, <1>2 DEF IsPass
  <2>2. Kept(vals, vals, len)
    BY KeptSame
  <2>3. gap = 1 => OrderedTo(less, vals, n)
    BY <1>2 DEF OrderedTo
  <2>4. QED
    BY <2>1, <2>2, <2>3
<1>3. ASSUME NEW q \in Nat, q + 1 \in 0 .. len, ~(q + 1 <= gap), Good(q) PROVE Good(q + 1)
  <2>1. u[q + 1] = L!SiftDown(u[q], q, gap, less)
    <3>1. (q + 1) - 1 = q
      OBVIOUS
    <3>2. QED
      BY <1>1, <1>3, <3>1 DEF IsPass
  <2>2. PICK a \in [1 .. len -> Items] : a = u[q] /\ Kept(vals, a, len)
    BY <1>3 DEF Kept
  <2>3. q < len
    BY <1>3
  <2>4. Kept(a, L!SiftDown(a, q, gap, less), len)
    BY <2>2, <2>3, SiftKeeps
  <2>5. Kept(vals, u[q + 1], len)
    BY <2>1, <2>2, <2>4, KeptTwice
  <2>6. gap = 1 => OrderedTo(less, u[q + 1], q + 1)
    BY <1>3, <2>1, <2>2, <2>3, SiftInserts
  <2>7. QED
    BY <2>5, <2>6
<1>4. B = {}
  <2> SUFFICES ASSUME B # {} PROVE FALSE
    OBVIOUS
  <2>1. B \in SUBSET Nat
    OBVIOUS
  <2>2. PICK n \in B : \A j \in B : n <= j
    <3> HIDE DEF B
    <3>1. QED
      BY <2>1, Least
  <2>3. n \in 0 .. len /\ ~Good(n)
    BY <2>2
  <2> HIDE DEF Good
  <2>4. ~(n <= gap)
    BY <1>2, <2>3
  <2>5. PICK q \in Nat : n = q + 1
    <3>1. n - 1 \in Nat /\ n = (n - 1) + 1
      BY <2>3, <2>4
    <3>2. QED
      BY <3>1
  <2>6. Good(q)
    BY <2>2, <2>3, <2>5
  <2>7. QED
    BY <1>3, <2>3, <2>4, <2>5, <2>6
<1>5. Good(len)
  <2>1. len \in 0 .. len
    OBVIOUS
  <2> HIDE DEF Good
  <2>2. QED
    BY <1>4, <2>1
<1>6. QED
  BY <1>1, <1>5

(* u holds the array after each gap.                                       *)
IsShell(u, vals, size, less) ==
    u = [g \in 0 .. Len(L!Gaps) |->
            IF g = 0 THEN vals ELSE L!Pass(u[g - 1], size, L!Gaps[g], less)]

(* The sort goes through its eight gaps and ends with a gap of one.        *)
LEMMA ShellIs ==
    ASSUME NEW vals, NEW size, NEW less
    PROVE  \E u : IsShell(u, vals, size, less) /\ L!ShellSort(vals, size, less) = u[8]
<1> DEFINE P(a, g) == L!Pass(a, size, L!Gaps[g], less)
           w == [g \in 0 .. 8 |-> IF g = 0 THEN vals
                  ELSE IF g = 1 THEN P(vals, 1)
                  ELSE IF g = 2 THEN P(P(vals, 1), 2)
                  ELSE IF g = 3 THEN P(P(P(vals, 1), 2), 3)
                  ELSE IF g = 4 THEN P(P(P(P(vals, 1), 2), 3), 4)
                  ELSE IF g = 5 THEN P(P(P(P(P(vals, 1), 2), 3), 4), 5)
                  ELSE IF g = 6 THEN P(P(P(P(P(P(vals, 1), 2), 3), 4), 5), 6)
                  ELSE IF g = 7 THEN P(P(P(P(P(P(P(vals, 1), 2), 3), 4), 5), 6), 7)
                  ELSE P(P(P(P(P(P(P(P(vals, 1), 2), 3), 4), 5), 6), 7), 8)]
           u == CHOOSE x : x = [g \in 0 .. Len(L!Gaps) |->
                   IF g = 0 THEN vals ELSE L!Pass(x[g - 1], size, L!Gaps[g], less)]
<1>1. Len(L!Gaps) = 8
  BY DEF L!Gaps
<1>2. ASSUME NEW g \in 0 .. 8
      PROVE  w[g] = IF g = 0 THEN vals ELSE P(w[g - 1], g)
  <2> HIDE DEF P
  <2>1. g \in {0, 1, 2, 3, 4, 5, 6, 7, 8}
    OBVIOUS
  <2>2. QED
    BY <2>1
<1>3. w = [g \in 0 .. 8 |-> w[g]]
  OBVIOUS
<1>4. \E x : x = [g \in 0 .. Len(L!Gaps) |->
                   IF g = 0 THEN vals ELSE L!Pass(x[g - 1], size, L!Gaps[g], less)]
  <2>1. w = [g \in 0 .. Len(L!Gaps) |->
               IF g = 0 THEN vals ELSE L!Pass(w[g - 1], size, L!Gaps[g], less)]
    <3> HIDE DEF w
    <3>1. QED
      BY <1>1, <1>2, <1>3
  <2> HIDE DEF w
  <2>2. QED
    BY <2>1, Zenon
<1>5. IsShell(u, vals, size, less)
  BY <1>4 DEF IsShell
<1>6. L!ShellSort(vals, size, less) = u[8]
  BY <1>1 DEF L!ShellSort
<1> HIDE DEF u
<1>7. QED
  BY <1>5, <1>6

(* The sort keeps the array and orders it.                                 *)
LEMMA ShellSorts ==
    ASSUME NEW len \in Nat, NEW vals \in [1 .. len -> Items], NEW less \in Less
    PROVE  /\ Kept(vals, L!ShellSort(vals, len, less), len)
           /\ OrderedTo(less, L!ShellSort(vals, len, less), len)
<1>1. PICK u : IsShell(u, vals, len, less) /\ L!ShellSort(vals, len, less) = u[8]
  BY ShellIs
<1>2. /\ Len(L!Gaps) = 8 /\ L!Gaps[8] = 1
      /\ \A g \in 1 .. 8 : L!Gaps[g] \in Nat \ {0}
  BY DEF L!Gaps
<1>3. u[0] = vals /\ \A g \in 1 .. 8 : u[g] = L!Pass(u[g - 1], len, L!Gaps[g], less)
  BY <1>1, <1>2 DEF IsShell
<1>4. Kept(vals, u[0], len)
  BY <1>3, KeptSame
<1>5. ASSUME NEW g \in 1 .. 8, Kept(vals, u[g - 1], len)
      PROVE  Kept(vals, u[g], len) /\ (g = 8 => OrderedTo(less, u[g], len))
  <2>1. PICK a \in [1 .. len -> Items] : a = u[g - 1] /\ Kept(vals, a, len)
    BY <1>5 DEF Kept
  <2>2. PICK gap \in Nat \ {0} : gap = L!Gaps[g]
    BY <1>2
  <2>3. /\ Kept(a, L!Pass(a, len, gap, less), len)
        /\ gap = 1 => OrderedTo(less, L!Pass(a, len, gap, less), len)
    BY PassSorts
  <2>4. u[g] = L!Pass(a, len, gap, less)
    BY <1>3, <2>1, <2>2
  <2>5. QED
    BY <1>2, <2>1, <2>2, <2>3, <2>4, KeptTwice
<1>6. Kept(vals, u[1], len) /\ Kept(vals, u[2], len) /\ Kept(vals, u[3], len) /\ Kept(vals, u[4], len)
  <2>1. 1 - 1 = 0 /\ 2 - 1 = 1 /\ 3 - 1 = 2 /\ 4 - 1 = 3
    OBVIOUS
  <2>2. QED
    BY <1>4, <1>5, <2>1
<1>7. Kept(vals, u[5], len) /\ Kept(vals, u[6], len) /\ Kept(vals, u[7], len)
  <2>1. 5 - 1 = 4 /\ 6 - 1 = 5 /\ 7 - 1 = 6
    OBVIOUS
  <2>2. QED
    BY <1>5, <1>6, <2>1
<1>8. Kept(vals, u[8], len) /\ OrderedTo(less, u[8], len)
  <2>1. 8 - 1 = 7 /\ 8 \in 1 .. 8
    OBVIOUS
  <2>2. QED
    BY <1>5, <1>7, <2>1
<1>9. QED
  BY <1>1, <1>8

(* The shell sort of plist_sort and pset_sort sorts arrays of every length *)
(* and of any values, NULL among them, with either comparison.             *)
THEOREM SortAlwaysSorts == Spec => []SortSorts
<1>1. SortSorts
  <2> SUFFICES ASSUME NEW less \in {"strcmp", "strcasecmp"}, NEW n \in SortLengths,
                      NEW ts \in [1 .. n -> SortTexts]
               PROVE  LET before == [i \in 1 .. n |-> IF ts[i] = NULL THEN NULL ELSE F!Pointer(ts[i], i)]
                          after  == L!ShellSort(before, n, less)
                      IN  /\ \A i \in 1 .. n - 1 : InOrder(less, after[i], after[i + 1])
                          /\ {after[i] : i \in 1 .. n} = {before[i] : i \in 1 .. n}
                          /\ \A i, j \in 1 .. n : after[i] = after[j] /\ after[i] # NULL => i = j
    BY DEF SortSorts
  <2> DEFINE before == [i \in 1 .. n |-> IF ts[i] = NULL THEN NULL ELSE F!Pointer(ts[i], i)]
             after == L!ShellSort(before, n, less)
  <2>1. n \in Nat
    BY SortAssumption
  <2>2. before \in [1 .. n -> Items]
    BY <2>1, SortAssumption DEF Items, F!Pointer
  <2>3. \A i, j \in 1 .. n : before[i] = before[j] /\ before[i] # NULL => i = j
    BY DEF F!Pointer
  <2> HIDE DEF before
  <2>4. Kept(before, after, n) /\ OrderedTo(less, after, n)
    BY <2>1, <2>2, ShellSorts DEF Less
  <2> HIDE DEF after
  <2>5. PICK f : Permutes(f, n) /\ \A k \in 1 .. n : after[k] = before[f[k]]
    BY <2>4 DEF Kept
  <2>6. \A i \in 1 .. n - 1 : InOrder(less, after[i], after[i + 1])
    BY <2>4 DEF OrderedTo
  <2>7. {after[i] : i \in 1 .. n} = {before[i] : i \in 1 .. n}
    <3>1. \A k \in 1 .. n : f[k] \in 1 .. n /\ \E q \in 1 .. n : f[q] = k
      BY <2>5 DEF Permutes
    <3>2. ASSUME NEW k \in 1 .. n PROVE before[k] \in {after[i] : i \in 1 .. n}
      BY <2>5, <3>1
    <3>3. ASSUME NEW k \in 1 .. n PROVE after[k] \in {before[i] : i \in 1 .. n}
      BY <2>5, <3>1
    <3>4. QED
      BY <3>2, <3>3
  <2>8. ASSUME NEW i \in 1 .. n, NEW j \in 1 .. n, after[i] = after[j], after[i] # NULL
        PROVE  i = j
    <3>1. f[i] \in 1 .. n /\ f[j] \in 1 .. n /\ after[i] = before[f[i]] /\ after[j] = before[f[j]]
      BY <2>5 DEF Permutes
    <3>2. f[i] = f[j]
      BY <2>3, <2>8, <3>1
    <3>3. QED
      BY <2>5, <3>2 DEF Permutes
  <2>9. QED
    BY <2>6, <2>7, <2>8 DEF after, before
<1>2. QED
  BY <1>1, PTL
=============================================================================
