--------------------------- MODULE PageMask_proof ---------------------------
(***************************************************************************)
(* For pages and elements of any size, the step that Euclid's algorithm    *)
(* finds is the least number of elements that fills whole pages, and for   *)
(* lists and repetitions of any length, vec64! makes the vector that its   *)
(* expressions say.                                                        *)
(*                                                                         *)
(* While the loop of gcd runs, both of its variables are combinations of   *)
(* the element size and the page size, and whatever divides the two        *)
(* variables divides the two sizes.  At the end the second variable is 0,  *)
(* and the first is a common divisor that is a combination: the step, the  *)
(* page divided by it, divides every number of elements that fills pages.  *)
(***************************************************************************)
EXTENDS PageMask, TLAPS, SequenceTheorems

Divides(d, m) == \E q \in Int : m = q * d

\* m is a sum of multiples of e and h, either of which may be negative.
Combines(m, e, h) == \E x, y \in Int : m = x * e + y * h

\* Whatever divides both variables of the loop divides both sizes.
KeepsDivisors ==
    \A d \in Nat \ {0} : Divides(d, a) /\ Divides(d, b) =>
                            Divides(d, elem) /\ Divides(d, HugePage)

Inv ==
    /\ PageTypeOK
    /\ elem = 0 => ~Searching /\ step = NoStep
    /\ elem # 0 => /\ a > 0
                   /\ Combines(a, elem, HugePage) /\ Combines(b, elem, HugePage)
                   /\ KeepsDivisors
                   /\ step = IF Searching THEN NoStep ELSE HugePage \div a

-----------------------------------------------------------------------------
(* Division *)

\* A quotient and a remainder.
LEMMA QuotientRemainder ==
    ASSUME NEW m \in Int, NEW d \in Nat \ {0}
    PROVE  /\ m \div d \in Int /\ m % d \in 0 .. d - 1
           /\ m = (m \div d) * d + (m % d)
  OBVIOUS

LEMMA NaturalQuotient ==
    ASSUME NEW m \in Nat, NEW d \in Nat \ {0}
    PROVE  m \div d \in Nat
  OBVIOUS

\* Products, stated one at a time for the arithmetic below.
LEMMA Products ==
    ASSUME NEW x \in Int, NEW y \in Int, NEW z \in Int
    PROVE  /\ x * y \in Int /\ x * y = y * x
           /\ x * (y * z) = (x * y) * z
           /\ (x + y) * z = x * z + y * z
           /\ (x - y) * z = x * z - y * z
  OBVIOUS

\* No multiple of d lies strictly between two consecutive ones.
LEMMA SmallMultiple ==
    ASSUME NEW q \in Int, NEW d \in Nat \ {0}, q * d < d, q * d > -d
    PROVE  q = 0
  <1>1. CASE q >= 1
    <2>1. q * d >= d
      BY <1>1
    <2> QED
      BY <2>1
  <1>2. CASE q <= -1
    <2>1. q * d <= -d
      BY <1>2
    <2> QED
      BY <2>1
  <1> QED
    BY <1>1, <1>2

\* The remainder is 0 exactly for a multiple.
LEMMA NoRemainder ==
    ASSUME NEW m \in Int, NEW d \in Nat \ {0}
    PROVE  m % d = 0 <=> Divides(d, m)
  <1>1. ASSUME m % d = 0
        PROVE  Divides(d, m)
    <2>1. m \div d \in Int /\ m = (m \div d) * d
      BY <1>1, QuotientRemainder
    <2> QED
      BY <2>1 DEF Divides
  <1>2. ASSUME NEW q \in Int, m = q * d
        PROVE  m % d = 0
    <2> DEFINE k == m \div d
    <2>1. k \in Int /\ m % d \in 0 .. d - 1 /\ m = k * d + (m % d)
      BY QuotientRemainder
    <2>2. (q - k) * d = m % d
      <3>1. (q - k) * d = q * d - k * d
        BY <2>1, Products
      <3> QED
        BY <3>1, <2>1, <1>2
    <2>3. q - k = 0
      BY <2>1, <2>2, SmallMultiple
    <2> QED
      BY <2>1, <2>2, <2>3
  <1> QED
    BY <1>1, <1>2 DEF Divides

-----------------------------------------------------------------------------
(* One iteration, and the end of the loop *)

\* A remainder of two combinations of e and h is one.
LEMMA CombinationOfRemainder ==
    ASSUME NEW e \in Int, NEW h \in Int, NEW m \in Int, NEW d \in Nat \ {0},
           Combines(m, e, h), Combines(d, e, h)
    PROVE  Combines(m % d, e, h)
  <1>1. PICK x \in Int, y \in Int : m = x * e + y * h
    BY DEF Combines
  <1>2. PICK u \in Int, v \in Int : d = u * e + v * h
    BY DEF Combines
  <1> DEFINE k == m \div d
  <1>3. k \in Int /\ m % d \in 0 .. d - 1 /\ m = k * d + (m % d)
    BY QuotientRemainder
  <1> HIDE DEF k
  <1>4. k * d = (k * u) * e + (k * v) * h
    <2>1. k * d = k * (u * e) + k * (v * h)
      <3>1. k * d = (u * e + v * h) * k
        <4>1. k * d = d * k
          BY <1>3, Products
        <4> QED
          BY <4>1, <1>2, Zenon
      <3>2. (u * e + v * h) * k = (u * e) * k + (v * h) * k
        BY <1>3, Products
      <3> QED
        BY <3>1, <3>2, <1>3, Products
    <2>2. k * (u * e) = (k * u) * e /\ k * (v * h) = (k * v) * h
      BY <1>3, Products
    <2> QED
      BY <2>1, <2>2
  <1>5. m % d = (x - k * u) * e + (y - k * v) * h
    <2>1. k * u \in Int /\ k * v \in Int
      BY <1>3
    <2>2. /\ (x - k * u) * e = x * e - (k * u) * e
          /\ (y - k * v) * h = y * h - (k * v) * h
      BY <2>1, Products
    <2>3. x * e \in Int /\ y * h \in Int /\ (k * u) * e \in Int /\ (k * v) * h \in Int
      BY <2>1
    <2>4. k * d \in Int /\ m % d \in Int
      BY <1>3
    <2>5. m % d = m - k * d
      BY <1>3, <2>4
    <2>6. m % d = (x * e + y * h) - ((k * u) * e + (k * v) * h)
      BY <2>5, <1>1, <1>4, Zenon
    <2> QED
      BY <2>2, <2>3, <2>6
  <1>6. x - k * u \in Int /\ y - k * v \in Int
    BY <1>3
  <1> QED
    BY <1>5, <1>6 DEF Combines

\* A divisor of a number and of a remainder by it divides the dividend.
LEMMA DivisorOfDividend ==
    ASSUME NEW m \in Int, NEW j \in Nat \ {0}, NEW d \in Nat \ {0},
           Divides(d, j), Divides(d, m % j)
    PROVE  Divides(d, m)
  <1>1. PICK p \in Int : j = p * d
    BY DEF Divides
  <1>2. PICK r \in Int : m % j = r * d
    BY DEF Divides
  <1> DEFINE k == m \div j
  <1>3. k \in Int /\ m = k * j + (m % j)
    BY QuotientRemainder
  <1> HIDE DEF k
  <1>4. k * j = (k * p) * d /\ k * p \in Int
    BY <1>1, <1>3, Products
  <1>5. (k * p + r) * d = (k * p) * d + r * d
    BY <1>4, Products
  <1>6. m = (k * p + r) * d /\ k * p + r \in Int
    BY <1>2, <1>3, <1>4, <1>5
  <1> QED
    BY <1>6 DEF Divides

\* Elements of size e fill pages of size h exactly at the multiples of s.
IsStep(s, e, h) ==
    /\ s \in Nat \ {0}
    /\ \A j \in Nat : (j * e) % h = 0 <=> j % s = 0

\* A common divisor g of e and h that is a combination of them: the numbers of
\* elements of size e that fill pages of size h are the multiples of h \div g.
LEMMA StepDividesFillers ==
    ASSUME NEW e \in Nat \ {0}, NEW h \in Nat \ {0}, NEW g \in Nat \ {0},
           Divides(g, e), Divides(g, h), Combines(g, e, h)
    PROVE  IsStep(h \div g, e, h)
  <1> DEFINE s == h \div g
  <1>1. s \in Nat \ {0} /\ h = s * g
    <2>1. h % g = 0
      BY NoRemainder
    <2>2. s \in Int /\ h = s * g
      <3> h \in Int
        OBVIOUS
      <3>1. s \in Int /\ h % g \in 0 .. g - 1 /\ h = s * g + (h % g)
        BY QuotientRemainder
      <3> HIDE DEF s
      <3> QED
        BY <2>1, <3>1
    <2>3. s > 0
      <3>1. CASE s <= 0
        <4>1. s * g <= 0
          BY <3>1, <2>2
        <4> QED
          BY <4>1, <2>2
      <3> QED
        BY <3>1, <2>2
    <2> QED
      BY <2>2, <2>3
  <1> HIDE DEF s
  <1>2. PICK p \in Int : e = p * g
    BY DEF Divides
  <1>3. PICK x \in Int, y \in Int : g = x * e + y * h
    BY DEF Combines
  <1>4. ASSUME NEW j \in Nat, j % s = 0
        PROVE  (j * e) % h = 0
    <2>1. PICK q \in Int : j = q * s
      <3>1. Divides(s, j)
        BY <1>1, <1>4, NoRemainder
      <3> QED
        BY <3>1 DEF Divides
    <2>2. j * e = (q * p) * h
      <3>1. j * e = (q * s) * (p * g)
        BY <1>2, <2>1
      <3>2. (q * s) * (p * g) = (q * p) * (s * g)
        <4>1. s \in Int /\ g \in Int /\ q * s \in Int /\ q * p \in Int
          BY <1>1
        <4>2. (q * s) * (p * g) = ((q * s) * p) * g
          BY <4>1, Products
        <4>3. (q * s) * p = (q * p) * s
          BY <4>1, Products
        <4>4. ((q * p) * s) * g = (q * p) * (s * g)
          BY <4>1, Products
        <4> QED
          BY <4>2, <4>3, <4>4
      <3> QED
        BY <1>1, <3>1, <3>2
    <2>3. q * p \in Int /\ j * e \in Int
      OBVIOUS
    <2>4. Divides(h, j * e)
      BY <2>2, <2>3 DEF Divides
    <2> QED
      BY <2>3, <2>4, NoRemainder
  <1>5. ASSUME NEW j \in Nat, (j * e) % h = 0
        PROVE  j % s = 0
    <2>1. PICK m \in Int : j * e = m * h
      <3>1. j * e \in Int
        OBVIOUS
      <3>2. Divides(h, j * e)
        BY <1>5, <3>1, NoRemainder
      <3> QED
        BY <3>2 DEF Divides
    <2> DEFINE k == x * m + j * y
    <2>2. k \in Int
      OBVIOUS
    <2>3. j * g = k * h
      <3>1. j * g = j * (x * e) + j * (y * h)
        BY <1>3
      <3>2. j * (x * e) = x * (j * e)
        BY Products
      <3>3. x * (j * e) = (x * m) * h
        BY <2>1, Products
      <3>4. j * (y * h) = (j * y) * h
        BY Products
      <3>5. k * h = (x * m) * h + (j * y) * h
        BY Products
      <3> QED
        BY <3>1, <3>2, <3>3, <3>4, <3>5
    <2> HIDE DEF k
    <2>4. (j - k * s) * g = 0
      <3>1. k * h = (k * s) * g /\ k * s \in Int
        BY <1>1, <2>2, Products
      <3>2. (j - k * s) * g = j * g - (k * s) * g
        BY <3>1, Products
      <3> QED
        BY <2>3, <3>1, <3>2
    <2>5. j - k * s = 0
      <3>1. j - k * s \in Int /\ k * s \in Int
        BY <1>1, <2>2
      <3> QED
        BY <2>4, <3>1, SmallMultiple
    <2>6. j = k * s
      BY <2>5, <2>2, <1>1
    <2>7. Divides(s, j)
      BY <2>2, <2>6 DEF Divides
    <2> QED
      BY <1>1, <2>7, NoRemainder
  <1> QED
    BY <1>1, <1>4, <1>5 DEF s, IsStep

-----------------------------------------------------------------------------
(* The invariant of the search *)

\* Each of two numbers is a combination of both.
LEMMA OwnCombination ==
    ASSUME NEW e \in Int, NEW h \in Int
    PROVE  Combines(e, e, h) /\ Combines(h, e, h)
  <1>1. e = 1 * e + 0 * h /\ h = 0 * e + 1 * h /\ 0 \in Int /\ 1 \in Int
    OBVIOUS
  <1>2. \E x, y \in Int : e = x * e + y * h
    <2> WITNESS 1 \in Int, 0 \in Int
    <2> QED
      BY <1>1
  <1>3. \E x, y \in Int : h = x * e + y * h
    <2> WITNESS 0 \in Int, 1 \in Int
    <2> QED
      BY <1>1
  <1> QED
    BY <1>2, <1>3 DEF Combines

LEMMA InitInv == PageInit => Inv
  <1> SUFFICES ASSUME PageInit PROVE Inv
    OBVIOUS
  <1> USE HugePageAssumption, ElemsAssumption DEF PageInit, Searching
  <1>1. PageTypeOK
    BY DEF PageTypeOK, NoStep
  <1>2. elem = 0 => ~Searching /\ step = NoStep
    OBVIOUS
  <1>3. ASSUME elem # 0
        PROVE  /\ a > 0 /\ KeepsDivisors
               /\ Combines(a, elem, HugePage) /\ Combines(b, elem, HugePage)
               /\ step = IF Searching THEN NoStep ELSE HugePage \div a
    <2>1. elem \in Nat /\ elem > 0 /\ a = elem /\ b = HugePage /\ b # 0
      BY <1>3
    <2>2. elem \in Int /\ HugePage \in Int
      BY <2>1
    <2>3. Combines(a, elem, HugePage) /\ Combines(b, elem, HugePage)
      BY <2>1, <2>2, OwnCombination
    <2>4. KeepsDivisors
      BY <2>1 DEF KeepsDivisors
    <2> QED
      BY <2>1, <2>2, <2>3, <2>4
  <1> QED
    BY <1>1, <1>2, <1>3 DEF Inv

LEMMA IterateInv == Inv /\ Iterate => Inv'
  <1> SUFFICES ASSUME Inv, Iterate PROVE Inv'
    OBVIOUS
  <1> USE HugePageAssumption, ElemsAssumption
  <1>1. /\ b # 0 /\ a' = b /\ b' = a % b
        /\ step' = IF b' = 0 THEN HugePage \div a' ELSE NoStep
        /\ elem' = elem /\ len' = len /\ cap' = cap
    BY DEF Iterate, Searching
  <1>2. /\ PageTypeOK /\ elem # 0 /\ a > 0 /\ KeepsDivisors
        /\ Combines(a, elem, HugePage) /\ Combines(b, elem, HugePage)
    BY <1>1 DEF Inv, Searching
  <1>3. /\ elem \in Nat /\ a \in Nat \ {0} /\ b \in Nat \ {0}
        /\ HugePage \in Nat \ {0} /\ len \in Nat /\ cap \in Nat /\ len <= cap
    BY <1>1, <1>2 DEF PageTypeOK
  <1>4. a' \in Nat \ {0} /\ b' \in Nat
    <2>1. a % b \in 0 .. b - 1
      BY <1>3, QuotientRemainder
    <2> QED
      BY <1>1, <1>3, <2>1
  <1>5. Combines(a', elem', HugePage) /\ Combines(b', elem', HugePage)
    <2>1. elem \in Int /\ HugePage \in Int /\ a \in Int
      BY <1>3
    <2>2. Combines(a % b, elem, HugePage)
      BY <1>2, <1>3, <2>1, CombinationOfRemainder
    <2> QED
      BY <1>1, <1>2, <2>2
  <1>6. KeepsDivisors'
    <2> SUFFICES ASSUME NEW d \in Nat \ {0}, Divides(d, b), Divides(d, a % b)
                 PROVE  Divides(d, elem) /\ Divides(d, HugePage)
      BY <1>1 DEF KeepsDivisors
    <2>1. Divides(d, a)
      <3>1. a \in Int
        BY <1>3
      <3> QED
        BY <1>3, <3>1, DivisorOfDividend
    <2> QED
      BY <1>2, <2>1 DEF KeepsDivisors
  <1>7. step' \in Nat
    BY <1>1, <1>3, <1>4, NaturalQuotient DEF NoStep
  <1>8. PageTypeOK'
    BY <1>1, <1>2, <1>4, <1>7 DEF PageTypeOK
  <1>9. step' = IF Searching' THEN NoStep ELSE HugePage \div a'
    BY <1>1 DEF Searching
  <1>10. a' > 0 /\ elem' # 0
    BY <1>1, <1>2, <1>4
  <1> QED
    BY <1>5, <1>6, <1>8, <1>9, <1>10 DEF Inv

\* A step that leaves the search alone.
LEMMA OtherInv ==
    ASSUME Inv, UNCHANGED <<elem, a, b, step>>,
           len' \in Nat, cap' \in Nat, len' <= cap'
    PROVE  Inv'
  <1>1. PageTypeOK'
    BY DEF Inv, PageTypeOK
  <1>2. KeepsDivisors' = KeepsDivisors /\ Searching' = Searching
    BY DEF KeepsDivisors, Searching
  <1> QED
    BY <1>1, <1>2 DEF Inv

LEMMA NextInv == Inv /\ [PageNext]_page_vars => Inv'
  <1> SUFFICES ASSUME Inv, [PageNext]_page_vars PROVE Inv'
    OBVIOUS
  <1>1. CASE Iterate
    BY <1>1, IterateInv
  <1>2. CASE Make
    <2>1. /\ len' \in Nat /\ cap' \in Nat /\ len' <= cap'
          /\ UNCHANGED <<elem, a, b, step>>
      BY <1>2, MaxLenAssumption DEF Make
    <2> QED
      BY <2>1, OtherInv
  <1>3. CASE Drop
    BY <1>3, OtherInv DEF Drop
  <1>4. CASE UNCHANGED page_vars
    <2>1. /\ len' \in Nat /\ cap' \in Nat /\ len' <= cap'
          /\ UNCHANGED <<elem, a, b, step>>
      BY <1>4 DEF page_vars, Inv, PageTypeOK
    <2> QED
      BY <2>1, OtherInv
  <1> QED
    BY <1>1, <1>2, <1>3, <1>4 DEF PageNext

LEMMA InvTyping == Inv => PageTypeOK
  BY DEF Inv

-----------------------------------------------------------------------------
(* What the step is good for *)

\* The search has ended with a step, unless elements have no size.
LEMMA StepMultiples ==
    ASSUME Inv, ~Searching, elem # 0
    PROVE  /\ elem \in Nat \ {0} /\ step \in Nat \ {0}
           /\ \A j \in Nat : FillsPages(j) <=> j % step = 0
  <1> USE HugePageAssumption, ElemsAssumption
  <1>1. /\ a > 0 /\ Combines(a, elem, HugePage) /\ KeepsDivisors
        /\ step = HugePage \div a /\ b = 0
    BY DEF Inv, Searching
  <1>2. elem \in Nat \ {0} /\ a \in Nat \ {0} /\ HugePage \in Nat \ {0}
    BY <1>1 DEF Inv, PageTypeOK
  <1>3. Divides(a, elem) /\ Divides(a, HugePage)
    <2>1. a = 1 * a /\ b = 0 * a
      BY <1>1, <1>2
    <2>2. Divides(a, a) /\ Divides(a, b)
      BY <2>1 DEF Divides
    <2> QED
      BY <1>1, <1>2, <2>2 DEF KeepsDivisors
  <1>4. IsStep(HugePage \div a, elem, HugePage)
    <2>1. Combines(a, elem, HugePage)
      BY <1>1
    <2> QED
      BY <1>2, <1>3, <2>1, StepDividesFillers
  <1> QED
    BY <1>1, <1>2, <1>4 DEF FillsPages, IsStep

LEMMA StepKnown == Inv => (HasStep <=> ~Searching /\ elem # 0)
  <1> SUFFICES ASSUME Inv PROVE HasStep <=> ~Searching /\ elem # 0
    OBVIOUS
  <1>1. ~Searching /\ elem # 0 => HasStep
    BY StepMultiples DEF HasStep, NoStep
  <1>2. HasStep => ~Searching /\ elem # 0
    BY DEF Inv, HasStep
  <1> QED
    BY <1>1, <1>2

\* Between two consecutive multiples of d there is none.
LEMMA NoneBetween ==
    ASSUME NEW d \in Nat \ {0}, NEW q \in Int, NEW j \in Int,
           q * d < j, j < q * d + d
    PROVE  j % d # 0
  <1> SUFFICES ASSUME j % d = 0 PROVE FALSE
    OBVIOUS
  <1>1. PICK k \in Int : j = k * d
    BY NoRemainder DEF Divides
  <1>2. (k - q) * d = k * d - q * d /\ k - q \in Int /\ q * d \in Int
    BY Products
  <1>3. (k - q) * d > 0 /\ (k - q) * d < d
    BY <1>1, <1>2
  <1>4. k - q = 0
    BY <1>2, <1>3, SmallMultiple
  <1> QED
    BY <1>2, <1>3, <1>4

LEMMA InvLeastStep == Inv => StepIsLeast
  <1> SUFFICES ASSUME Inv, HasStep
               PROVE  /\ FillsPages(step)
                      /\ \A j \in 1 .. step - 1 : ~FillsPages(j)
    BY DEF StepIsLeast
  <1>1. /\ step \in Nat \ {0}
        /\ \A j \in Nat : FillsPages(j) <=> j % step = 0
    BY StepMultiples, StepKnown
  <1>2. step % step = 0
    <2>1. step = 1 * step /\ step \in Int
      BY <1>1
    <2>2. Divides(step, step)
      BY <2>1 DEF Divides
    <2> QED
      BY <1>1, <2>1, <2>2, NoRemainder
  <1>3. ASSUME NEW j \in 1 .. step - 1
        PROVE  j \in Nat /\ j % step # 0
    <2>1. 0 * step < j /\ j < 0 * step + step /\ j \in Int
      BY <1>1
    <2> QED
      BY <1>1, <2>1, NoneBetween
  <1> QED
    BY <1>1, <1>2, <1>3

\* A length and its two nearest multiples of the step.
LEMMA Neighbours ==
    ASSUME NEW s \in Nat \ {0}, NEW l \in Nat
    PROVE  LET prev == (l \div s) * s
               next == IF l % s = 0 THEN l ELSE l + (s - (l % s))
           IN  /\ prev \in Nat /\ next \in Nat /\ prev <= l /\ l <= next
               /\ prev % s = 0 /\ next % s = 0
               /\ \A j \in l .. next - 1 : j % s # 0
               /\ \A j \in prev + 1 .. l : j % s # 0
               /\ next = l <=> l % s = 0
  <1> DEFINE q == l \div s
             r == l % s
             prev == q * s
             next == IF r = 0 THEN l ELSE l + (s - r)
  <1>1. q \in Nat /\ r \in 0 .. s - 1 /\ l = q * s + r
    <2>1. l \in Int
      OBVIOUS
    <2>2. q \in Int /\ r \in 0 .. s - 1 /\ l = q * s + r
      BY <2>1, QuotientRemainder
    <2>3. q \in Nat
      BY NaturalQuotient
    <2> QED
      BY <2>2, <2>3
  <1> HIDE DEF q, r
  <1>2. prev \in Nat /\ prev <= l /\ l < prev + s
    <2>1. q * s \in Nat
      BY <1>1
    <2> QED
      BY <1>1, <2>1
  <1>3. prev % s = 0
    <2>1. Divides(s, q * s) /\ q * s \in Int
      BY <1>1 DEF Divides
    <2> QED
      BY <2>1, NoRemainder
  <1>4. CASE r = 0
    <2>1. next = l /\ prev = l
      BY <1>1, <1>2, <1>4
    <2> QED
      BY <1>2, <1>3, <1>4, <2>1 DEF r, q
  <1>5. CASE r # 0
    <2>1. next = prev + s /\ prev < l /\ l < next
      BY <1>1, <1>2, <1>5
    <2>2. next % s = 0
      <3>1. (q + 1) * s = q * s + s /\ q + 1 \in Int /\ next \in Int
        BY <1>1, <1>2, <2>1
      <3>2. Divides(s, next)
        BY <2>1, <3>1 DEF Divides
      <3> QED
        BY <3>1, <3>2, NoRemainder
    <2>3. ASSUME NEW j \in Int, prev < j, j < next
          PROVE  j % s # 0
      <3>1. q \in Int /\ q * s < j /\ j < q * s + s
        BY <1>1, <2>1, <2>3
      <3> QED
        BY <3>1, NoneBetween
    <2> HIDE DEF prev, next
    <2>4. \A j \in l .. next - 1 : j % s # 0
      BY <1>2, <2>1, <2>3
    <2>5. ASSUME NEW j \in prev + 1 .. l
          PROVE  j % s # 0
      <3>1. j \in Int /\ prev < j /\ j < next
        BY <1>2, <2>1
      <3> QED
        BY <2>3, <3>1
    <2>6. next # l /\ next \in Nat
      BY <1>2, <2>1
    <2> QED
      BY <1>2, <1>3, <1>5, <2>1, <2>2, <2>4, <2>5, <2>6 DEF r, q, prev, next
  <1> QED
    BY <1>4, <1>5

\* What the trait answers in terms of the lemma above.
LEMMA Answers ==
    ASSUME Inv, HasStep
    PROVE  /\ len \in Nat /\ prev_page_aligned_len \in Nat /\ next_page_aligned_len \in Nat
           /\ prev_page_aligned_len <= len /\ len <= next_page_aligned_len
           /\ prev_page_aligned_len % step = 0 /\ next_page_aligned_len % step = 0
           /\ \A j \in len .. next_page_aligned_len - 1 : j % step # 0
           /\ \A j \in prev_page_aligned_len + 1 .. len : j % step # 0
           /\ next_page_aligned_len = len <=> len % step = 0
  <1>1. len \in Nat /\ step \in Nat \ {0}
    BY StepMultiples, StepKnown DEF Inv, PageTypeOK
  <1> QED
    BY <1>1, Neighbours DEF prev_page_aligned_len, next_page_aligned_len

LEMMA InvNearest == Inv => NearestLengths
  <1> SUFFICES ASSUME Inv, HasStep
               PROVE  /\ len <= next_page_aligned_len /\ FillsPages(next_page_aligned_len)
                      /\ \A j \in len .. next_page_aligned_len - 1 : ~FillsPages(j)
                      /\ prev_page_aligned_len <= len /\ FillsPages(prev_page_aligned_len)
                      /\ \A j \in prev_page_aligned_len + 1 .. len : ~FillsPages(j)
    BY DEF NearestLengths
  <1>1. \A j \in Nat : FillsPages(j) <=> j % step = 0
    BY StepMultiples, StepKnown
  <1>2. /\ \A j \in len .. next_page_aligned_len - 1 : j \in Nat
        /\ \A j \in prev_page_aligned_len + 1 .. len : j \in Nat
    BY Answers
  <1> QED
    BY <1>1, <1>2, Answers

LEMMA InvAgreement == Inv => AgreesWithStep
  <1> SUFFICES ASSUME Inv, ~Searching
               PROVE  is_page_aligned <=> /\ HasStep
                                          /\ cap = len /\ len > 0
                                          /\ aligned_len_step = 0
    BY DEF AgreesWithStep
  <1>1. len \in Nat /\ cap \in Nat /\ elem \in Nat /\ HugePage \in Nat \ {0}
    BY HugePageAssumption, ElemsAssumption DEF Inv, PageTypeOK
  <1>2. CASE ~HasStep
    <2>1. elem = 0
      BY <1>2, StepKnown
    <2> QED
      BY <1>2, <2>1 DEF is_page_aligned
  <1>3. CASE HasStep
    <2>1. elem \in Nat \ {0} /\ (FillsPages(len) <=> len % step = 0)
      BY <1>1, <1>3, StepMultiples, StepKnown
    <2>2. aligned_len_step = 0 <=> len % step = 0
      BY <1>3, Answers DEF aligned_len_step
    <2>3. ASSUME FillsPages(len), len > 0
          PROVE  len * elem >= HugePage
      <3>1. len * elem \in Int /\ len * elem > 0
        BY <1>1, <2>1, <2>3
      <3>2. (len * elem) % HugePage = 0
        BY <2>3 DEF FillsPages
      <3>3. ~(0 * HugePage < len * elem /\ len * elem < 0 * HugePage + HugePage)
        BY <1>1, <3>1, <3>2, NoneBetween
      <3> QED
        BY <1>1, <3>1, <3>3
    <2>4. ASSUME len * elem >= HugePage
          PROVE  len > 0
      BY <1>1, <2>1, <2>4
    <2> QED
      BY <1>3, <2>1, <2>2, <2>3, <2>4 DEF is_page_aligned, FillsPages
  <1> QED
    BY <1>2, <1>3

-----------------------------------------------------------------------------
(* The macro *)

Lists == {"list", "bool list"}

Masks == {"bool list", "bool repeat"}

\* The stages that each arm goes through.
StagesOK ==
    /\ form \in {"none"} \cup Lists \cup Masks
    /\ form = "none" => stage = "done"
    /\ form = "list" => stage \in {"count", "set", "done"}
    /\ form = "bool list" => stage \in {"count", "set", "done", "taken"}
    /\ form = "bool repeat" => stage \in {"fill", "clear", "done", "taken"}

\* Whatever the expressions give, a list ends behind its last expression, and a
\* mask has its bytes once the buffer has been made.
ShapeOK ==
    /\ n \in Nat /\ pos \in 1 .. n + 1
    /\ form \in Lists /\ stage \in {"done", "taken"} => pos > n
    /\ form \in Masks /\ stage \in {"set", "clear", "done", "taken"} =>
          out \in [1 .. byte_len(n) -> SUBSET Bits]

\* The first k bits are the values of the expressions, the others are 0.
HoldsBits(k) ==
    \A i \in 0 .. 8 * byte_len(n) - 1 :
        i % 8 \in out[i \div 8 + 1] <=> i < k /\ Expected(i + 1)

\* How much the vector holds of the values, if an expression gives its value
\* each time: those before pos of a list, and of a repetition all bits of the
\* buffer, until the padding is cleared.
ContentsOK ==
    /\ form # "none" => source \in [1 .. IF form = "bool repeat" THEN 1 ELSE n -> BOOLEAN]
    /\ form = "list" /\ stage \in {"set", "done"} =>
          out \in [1 .. pos - 1 -> BOOLEAN] /\ \A i \in 1 .. pos - 1 : out[i] = source[i]
    /\ form = "bool list" /\ stage \in {"set", "done", "taken"} => HoldsBits(pos - 1)
    /\ stage = "clear" => HoldsBits(8 * byte_len(n))
    /\ form = "bool repeat" /\ stage \in {"done", "taken"} => HoldsBits(n)

MacroInv == StagesOK /\ ShapeOK /\ (Pure => ContentsOK)

-----------------------------------------------------------------------------
(* Bytes and bits *)

LEMMA ByteLength ==
    ASSUME NEW k \in Nat
    PROVE  /\ byte_len(k) \in Nat /\ k % 8 \in 0 .. 7
           /\ k <= 8 * byte_len(k) /\ 8 * byte_len(k) < k + 8
           /\ k % 8 # 0 => /\ byte_len(k) >= 1
                           /\ k = 8 * byte_len(k) - 8 + (k % 8)
           /\ k % 8 = 0 => k = 8 * byte_len(k)
  BY SMT DEF byte_len

LEMMA SameFunction ==
    ASSUME NEW S, NEW T, NEW f \in [S -> T], NEW g \in [S -> T],
           \A i \in S : f[i] = g[i]
    PROVE  f = g
  OBVIOUS

\* The byte of a bit, and the bit in it.
LEMMA BitIndex ==
    ASSUME NEW w \in Nat, NEW i \in 0 .. 8 * w - 1
    PROVE  /\ i \div 8 + 1 \in 1 .. w /\ i % 8 \in Bits
           /\ i = 8 * (i \div 8) + (i % 8)
           /\ ~(i < 0)
  BY SMT DEF Bits

-----------------------------------------------------------------------------
(* The macro keeps its invariant *)

LEMMA MacroInitInv == MacroInit => MacroInv
  BY DEF MacroInit, MacroInv, StagesOK, ShapeOK, ContentsOK, Lists, Masks

\* The arms, where each begins, and how many expressions it has for k values.
Arm(f, first, k, e) ==
    \/ f \in Lists /\ first = "count" /\ e = k
    \/ f = "bool repeat" /\ first = "fill" /\ e = 1

LEMMA UseInv ==
    ASSUME NEW f, NEW first, NEW k \in Nat, NEW e,
           Arm(f, first, k, e), Use(f, first, k, e)
    PROVE  MacroInv'
  <1>1. form' = f /\ stage' = first /\ n' = k /\ pos' = 1
    BY DEF Use
  <1>4. source' \in [1 .. IF Pure THEN e ELSE 2 * e -> BOOLEAN]
    BY DEF Use
  <1>2. StagesOK' /\ ShapeOK'
    <2>1. StagesOK'
      BY <1>1 DEF Arm, StagesOK, Lists, Masks
    <2>2. n' \in Nat /\ pos' \in 1 .. n' + 1
      BY <1>1
    <2>3. stage' \in {"count", "fill"}
      BY <1>1 DEF Arm
    <2> QED
      BY <2>1, <2>2, <2>3 DEF ShapeOK
  <1>3. ASSUME Pure
        PROVE  ContentsOK'
    <2>1. source' \in [1 .. IF form' = "bool repeat" THEN 1 ELSE n' -> BOOLEAN]
      BY <1>1, <1>3, <1>4 DEF Arm, Lists
    <2> QED
      BY <1>1, <2>1 DEF Arm, ContentsOK, Lists
  <1> QED
    BY <1>2, <1>3 DEF MacroInv

LEMMA CountInv == MacroInv /\ Count => MacroInv'
  <1> SUFFICES ASSUME MacroInv, Count PROVE MacroInv'
    OBVIOUS
  <1>1. /\ stage = "count" /\ pos <= n /\ pos' = pos + 1
        /\ form' = form /\ stage' = stage /\ n' = n /\ source' = source /\ out' = out
    BY DEF Count
  <1>2. StagesOK' /\ ShapeOK'
    <2>1. StagesOK'
      BY <1>1 DEF MacroInv, StagesOK
    <2>2. n' \in Nat /\ pos' \in 1 .. n' + 1 /\ stage' = "count"
      BY <1>1 DEF MacroInv, ShapeOK
    <2> QED
      BY <2>1, <2>2 DEF ShapeOK
  <1>3. Pure => ContentsOK'
    BY <1>1 DEF MacroInv, StagesOK, ContentsOK, Lists, Masks
  <1> QED
    BY <1>2, <1>3 DEF MacroInv

LEMMA ReserveInv == MacroInv /\ Reserve => MacroInv'
  <1> SUFFICES ASSUME MacroInv, Reserve PROVE MacroInv'
    OBVIOUS
  <1>1. /\ stage = "count" /\ stage' = "set" /\ pos' = 1
        /\ out' = IF form = "list" THEN <<>> ELSE [i \in 1 .. byte_len(n) |-> {}]
        /\ form' = form /\ n' = n /\ source' = source
    BY DEF Reserve
  <1>2. form \in Lists /\ n \in Nat /\ byte_len(n) \in Nat
    BY <1>1, ByteLength DEF MacroInv, StagesOK, ShapeOK, Lists, Masks
  <1>3. StagesOK' /\ ShapeOK'
    <2>1. StagesOK'
      BY <1>1, <1>2 DEF StagesOK, Lists
    <2>2. n' \in Nat /\ pos' \in 1 .. n' + 1 /\ stage' = "set"
      BY <1>1, <1>2
    <2>3. form' = "bool list" => out' \in [1 .. byte_len(n') -> SUBSET Bits]
      BY <1>1
    <2> QED
      BY <1>1, <1>2, <2>1, <2>2, <2>3 DEF ShapeOK, Lists, Masks
  <1>4. ASSUME Pure
        PROVE  ContentsOK'
    <2>1. form = "bool list" => HoldsBits(0)'
      <3> SUFFICES ASSUME form = "bool list", NEW i \in 0 .. 8 * byte_len(n) - 1
                   PROVE  i % 8 \notin out'[i \div 8 + 1] /\ ~(i < 0)
        BY <1>1 DEF HoldsBits, byte_len
      <3>1. i \div 8 + 1 \in 1 .. byte_len(n) /\ ~(i < 0)
        BY <1>2, BitIndex
      <3>2. out'[i \div 8 + 1] = {}
        BY <1>1, <3>1
      <3> QED
        BY <3>1, <3>2
    <2>2. form = "list" => out' \in [1 .. 0 -> BOOLEAN]
      BY <1>1
    <2> QED
      <3>1. source' \in [1 .. IF form' = "bool repeat" THEN 1 ELSE n' -> BOOLEAN]
        BY <1>1, <1>2, <1>4 DEF ContentsOK, MacroInv, Lists
      <3>2. pos' - 1 = 0
        BY <1>1
      <3>3. stage' = "set" /\ form' # "bool repeat"
        BY <1>1, <1>2 DEF Lists
      <3>4. form' = "bool list" => HoldsBits(pos - 1)'
        BY <1>1, <2>1, <3>2 DEF HoldsBits
      <3>5. form' = "list" => /\ out' \in [1 .. pos' - 1 -> BOOLEAN]
                              /\ \A i \in 1 .. pos' - 1 : out'[i] = source'[i]
        BY <1>1, <2>2, <3>2
      <3> QED
        BY <3>1, <3>3, <3>4, <3>5 DEF ContentsOK
  <1> QED
    BY <1>3, <1>4 DEF MacroInv

LEMMA PushInv == MacroInv /\ Push => MacroInv'
  <1> SUFFICES ASSUME MacroInv, Push PROVE MacroInv'
    OBVIOUS
  <1>1. /\ form = "list" /\ stage = "set" /\ pos <= n /\ pos' = pos + 1
        /\ out' = Append(out, Value(pos))
        /\ form' = form /\ stage' = stage /\ n' = n /\ source' = source
    BY DEF Push
  <1>2. n \in Nat /\ pos \in 1 .. n
    BY <1>1 DEF MacroInv, ShapeOK
  <1>3. StagesOK' /\ ShapeOK'
    <2>1. StagesOK'
      BY <1>1 DEF MacroInv, StagesOK
    <2>2. n' \in Nat /\ pos' \in 1 .. n' + 1 /\ stage' = "set" /\ form' = "list"
      BY <1>1, <1>2
    <2> QED
      BY <2>1, <2>2 DEF ShapeOK, Masks
  <1>4. ASSUME Pure
        PROVE  ContentsOK'
    <2>1. /\ source \in [1 .. n -> BOOLEAN]
          /\ out \in [1 .. pos - 1 -> BOOLEAN]
          /\ \A i \in 1 .. pos - 1 : out[i] = source[i]
      BY <1>1, <1>4 DEF MacroInv, ContentsOK
    <2>2. Value(pos) = source[pos] /\ source[pos] \in BOOLEAN
      BY <1>2, <1>4, <2>1 DEF Value
    <2>3. out \in Seq(BOOLEAN) /\ Len(out) = pos - 1
      BY <1>2, <2>1
    <2>4. /\ out' \in [1 .. pos -> BOOLEAN]
          /\ \A i \in 1 .. pos - 1 : out'[i] = out[i]
          /\ out'[pos] = source[pos]
      <3>1. /\ Append(out, Value(pos)) \in Seq(BOOLEAN)
            /\ Len(Append(out, Value(pos))) = pos
            /\ \A i \in 1 .. pos - 1 : Append(out, Value(pos))[i] = out[i]
            /\ Append(out, Value(pos))[pos] = Value(pos)
        BY <1>2, <2>2, <2>3, AppendProperties
      <3>2. out' \in Seq(BOOLEAN) /\ Len(out') = pos
        BY <1>1, <3>1
      <3>3. out' \in [1 .. pos -> BOOLEAN]
        BY <3>2
      <3>4. \A i \in 1 .. pos - 1 : out'[i] = out[i]
        BY <1>1, <3>1
      <3>5. out'[pos] = source[pos]
        BY <1>1, <2>2, <3>1
      <3> QED
        BY <3>3, <3>4, <3>5
    <2>5. \A i \in 1 .. pos : out'[i] = source[i]
      BY <1>2, <2>1, <2>4
    <2>6. pos' - 1 = pos
      BY <1>1, <1>2
    <2> QED
      BY <1>1, <2>1, <2>4, <2>5, <2>6 DEF ContentsOK
  <1> QED
    BY <1>3, <1>4 DEF MacroInv

LEMMA SetBitInv == MacroInv /\ SetBit => MacroInv'
  <1> SUFFICES ASSUME MacroInv, SetBit PROVE MacroInv'
    OBVIOUS
  <1>1. /\ form = "bool list" /\ stage = "set" /\ pos <= n /\ pos' = pos + 1
        /\ form' = form /\ stage' = stage /\ n' = n /\ source' = source
    BY DEF SetBit
  <1>9. /\ n \in Nat /\ pos \in 1 .. n /\ pos' - 1 = pos
        /\ n' \in Nat /\ pos' \in 1 .. n' + 1
    <2>1. n \in Nat /\ pos \in 1 .. n + 1
      BY DEF MacroInv, ShapeOK
    <2>2. pos <= n /\ pos' = pos + 1 /\ n' = n
      BY <1>1
    <2> QED
      BY <2>1, <2>2
  <1> DEFINE j == pos - 1
             byte == j \div 8 + 1
             w == byte_len(n)
  <1>8. out' = IF Value(pos) THEN [out EXCEPT ![byte] = @ \cup {j % 8}] ELSE out
    BY DEF SetBit
  <1>2. n \in Nat /\ pos \in 1 .. n /\ out \in [1 .. w -> SUBSET Bits]
    <2>1. out \in [1 .. w -> SUBSET Bits]
      BY <1>1 DEF MacroInv, ShapeOK, Masks
    <2> QED
      BY <1>9, <2>1
  <1>3. w \in Nat /\ n <= 8 * w /\ w' = w
    BY <1>1, <1>2, ByteLength DEF byte_len
  <1> HIDE DEF w
  <1>4. j \in 0 .. 8 * w - 1 /\ byte \in 1 .. w /\ j % 8 \in Bits
    <2>1. j \in 0 .. 8 * w - 1
      BY <1>2, <1>3
    <2> QED
      BY <1>3, <2>1, BitIndex
  <1>5. out' \in [1 .. w -> SUBSET Bits]
    BY <1>8, <1>2, <1>4
  <1>6. StagesOK' /\ ShapeOK'
    <2>1. StagesOK'
      BY <1>1 DEF MacroInv, StagesOK
    <2>2. stage' = "set"
      BY <1>1
    <2> QED
      BY <1>3, <1>5, <1>9, <2>1, <2>2 DEF ShapeOK, w
  <1>7. ASSUME Pure
        PROVE  ContentsOK'
    <2>1. source \in [1 .. n -> BOOLEAN] /\ HoldsBits(j)
      BY <1>1, <1>7 DEF MacroInv, ContentsOK
    <2>2. Value(pos) = source[pos] /\ source[pos] \in BOOLEAN
      BY <1>2, <1>7, <2>1 DEF Value
    <2>3. ASSUME NEW i \in 0 .. 8 * w - 1
          PROVE  i % 8 \in out'[i \div 8 + 1] <=> i < pos /\ source[i + 1]
      <3>1. i % 8 \in out[i \div 8 + 1] <=> i < j /\ source[i + 1]
        BY <1>1, <2>1 DEF HoldsBits, Expected, w
      <3>2. i \div 8 + 1 \in 1 .. w /\ i = 8 * (i \div 8) + (i % 8)
        BY <1>3, BitIndex
      <3>3. j = 8 * (j \div 8) + (j % 8)
        BY <1>3, <1>4, BitIndex
      <3>4. i \div 8 + 1 = byte /\ i % 8 = j % 8 <=> i = j
        BY <1>4, <3>2, <3>3
      <3>5. i % 8 \in out'[i \div 8 + 1] <=>
                \/ i % 8 \in out[i \div 8 + 1]
                \/ source[pos] /\ i = j
        <4>1. CASE source[pos] /\ i \div 8 + 1 = byte
          <5>1. out'[i \div 8 + 1] = out[i \div 8 + 1] \cup {j % 8}
            BY <1>8, <1>2, <1>4, <2>2, <4>1
          <5> QED
            BY <3>4, <4>1, <5>1
        <4>2. CASE ~(source[pos] /\ i \div 8 + 1 = byte)
          <5>1. out'[i \div 8 + 1] = out[i \div 8 + 1]
            BY <1>8, <1>2, <2>2, <3>2, <4>2
          <5> QED
            BY <3>4, <4>2, <5>1
        <4> QED
          BY <4>1, <4>2
      <3>6. (i < pos <=> i < j \/ i = j) /\ (i = j => i + 1 = pos)
        BY <1>2
      <3>7. i = j => ~(i < j)
        BY <1>2
      <3> QED
        BY <3>1, <3>5, <3>6, <3>7
    <2>4. HoldsBits(pos - 1)'
      <3>1. pos' - 1 = pos /\ form' # "bool repeat"
        BY <1>1, <1>9
      <3>2. \A i \in 0 .. 8 * byte_len(n') - 1 :
               i % 8 \in out'[i \div 8 + 1] <=> i < pos' - 1 /\ source'[i + 1]
        BY <1>1, <2>3, <3>1 DEF w
      <3> QED
        BY <3>1, <3>2 DEF HoldsBits, Expected
    <2> QED
      BY <1>1, <2>1, <2>4 DEF ContentsOK
  <1> QED
    BY <1>6, <1>7 DEF MacroInv

LEMMA EndListInv == MacroInv /\ EndList => MacroInv'
  <1> SUFFICES ASSUME MacroInv, EndList PROVE MacroInv'
    OBVIOUS
  <1>1. /\ stage = "set" /\ stage' = "done"
        /\ UNCHANGED <<form, n, source, pos, out>>
    BY DEF EndList
  <1>2. pos > n
    BY DEF EndList
  <1>3. StagesOK
    BY DEF MacroInv
  <1>4. StagesOK' /\ form \in Lists
    BY <1>1, <1>3 DEF StagesOK, Lists, Masks
  <1>5. ShapeOK'
    BY <1>1, <1>2 DEF MacroInv, ShapeOK
  <1>6. ASSUME Pure
        PROVE  ContentsOK'
    <2>1. ContentsOK
      BY <1>6 DEF MacroInv
    <2> QED
      BY <1>1, <1>4, <2>1 DEF ContentsOK, HoldsBits, Expected, Lists
  <1> QED
    BY <1>4, <1>5, <1>6 DEF MacroInv

LEMMA FillInv == MacroInv /\ Fill => MacroInv'
  <1> SUFFICES ASSUME MacroInv, Fill PROVE MacroInv'
    OBVIOUS
  <1>1. /\ stage = "fill" /\ stage' = "clear"
        /\ form' = form /\ n' = n /\ source' = source /\ pos' = pos
    BY DEF Fill
  <1>2. out' = [i \in 1 .. byte_len(n) |-> IF Value(1) THEN Bits ELSE {}]
    BY DEF Fill
  <1>3. form = "bool repeat" /\ StagesOK'
    BY <1>1 DEF MacroInv, StagesOK, Lists, Masks
  <1>4. n \in Nat /\ pos \in 1 .. n + 1 /\ byte_len(n) \in Nat
    BY ByteLength DEF MacroInv, ShapeOK
  <1>5. ShapeOK'
    <2>1. out' \in [1 .. byte_len(n') -> SUBSET Bits]
      BY <1>1, <1>2
    <2> QED
      BY <1>1, <1>3, <1>4, <2>1 DEF ShapeOK, Lists
  <1>6. ASSUME Pure
        PROVE  ContentsOK'
    <2>1. source \in [1 .. 1 -> BOOLEAN]
      BY <1>3, <1>6 DEF MacroInv, ContentsOK
    <2>2. Value(1) = source[1]
      BY <1>6 DEF Value
    <2>3. \A i \in 0 .. 8 * byte_len(n) - 1 :
             i % 8 \in out'[i \div 8 + 1] <=> i < 8 * byte_len(n) /\ source[1]
      <3> DEFINE w == byte_len(n)
      <3>1. w \in Nat
        BY <1>4
      <3>2. out' = [i \in 1 .. w |-> IF source[1] THEN Bits ELSE {}]
        BY <1>2, <2>2
      <3> HIDE DEF w
      <3>3. ASSUME NEW i \in 0 .. 8 * w - 1
            PROVE  i % 8 \in out'[i \div 8 + 1] <=> source[1]
        <4>1. i \div 8 + 1 \in 1 .. w /\ i % 8 \in Bits
          BY <3>1, BitIndex
        <4> QED
          BY <3>2, <4>1
      <3>4. \A i \in 0 .. 8 * w - 1 : i < 8 * w
        BY <3>1
      <3> QED
        BY <3>3, <3>4 DEF w
    <2>4. HoldsBits(8 * byte_len(n))'
      BY <1>1, <1>3, <2>3 DEF HoldsBits, Expected
    <2> QED
      BY <1>1, <1>3, <2>1, <2>4 DEF ContentsOK
  <1> QED
    BY <1>3, <1>5, <1>6 DEF MacroInv

LEMMA ClearPaddingInv == MacroInv /\ ClearPadding => MacroInv'
  <1> SUFFICES ASSUME MacroInv, ClearPadding PROVE MacroInv'
    OBVIOUS
  <1>1. /\ stage = "clear" /\ stage' = "done"
        /\ form' = form /\ n' = n /\ source' = source /\ pos' = pos
    BY DEF ClearPadding
  <1>2. out' = IF Value(1) /\ n % 8 # 0
               THEN [out EXCEPT ![byte_len(n)] = @ \cap 0 .. (n % 8) - 1]
               ELSE out
    BY DEF ClearPadding
  <1>3. form = "bool repeat" /\ StagesOK'
    BY <1>1 DEF MacroInv, StagesOK, Lists, Masks
  <1>4. n \in Nat /\ pos \in 1 .. n + 1
    BY DEF MacroInv, ShapeOK
  <1> DEFINE w == byte_len(n)
             r == n % 8
  <1>5. out \in [1 .. w -> SUBSET Bits]
    BY <1>1, <1>3 DEF MacroInv, ShapeOK, Masks
  <1>6. /\ w \in Nat /\ r \in 0 .. 7 /\ n <= 8 * w
        /\ r # 0 => w >= 1 /\ n = 8 * w - 8 + r
        /\ r = 0 => n = 8 * w
    <2>1. n \in Nat
      BY <1>4
    <2> QED
      BY <2>1, ByteLength
  <1>7. out' = IF Value(1) /\ r # 0 THEN [out EXCEPT ![w] = @ \cap 0 .. r - 1] ELSE out
    BY <1>2
  <1>8. w' = w
    BY <1>1 DEF byte_len
  <1>9. ShapeOK'
    <2> HIDE DEF w, r
    <2>1. out' \in [1 .. w -> SUBSET Bits]
      BY <1>5, <1>7
    <2>2. out' \in [1 .. byte_len(n') -> SUBSET Bits]
      BY <1>1, <2>1 DEF w
    <2> QED
      BY <1>1, <1>3, <1>4, <2>2 DEF ShapeOK, Lists
  <1>10. ASSUME Pure
         PROVE  ContentsOK'
    <2>1. source \in [1 .. 1 -> BOOLEAN] /\ HoldsBits(8 * w)
      BY <1>1, <1>3, <1>10 DEF MacroInv, ContentsOK
    <2>2. Value(1) = source[1] /\ source[1] \in BOOLEAN
      BY <1>10, <2>1 DEF Value
    <2>3. \A i \in 0 .. 8 * w - 1 : i % 8 \in out[i \div 8 + 1] <=> i < 8 * w /\ source[1]
      BY <1>3, <2>1 DEF HoldsBits, Expected
    <2> HIDE DEF w, r
    <2>4. ASSUME NEW i \in 0 .. 8 * w - 1
          PROVE  i % 8 \in out'[i \div 8 + 1] <=> i < n /\ source[1]
      <3>1. /\ i \div 8 + 1 \in 1 .. w /\ i % 8 \in Bits /\ i % 8 \in 0 .. 7
            /\ i = 8 * (i \div 8) + (i % 8) /\ i < 8 * w
        BY <1>6, BitIndex DEF Bits
      <3>2. i % 8 \in out[i \div 8 + 1] <=> source[1]
        BY <2>3, <3>1
      <3>3. CASE source[1] /\ r # 0 /\ i \div 8 + 1 = w
        <4>1. out'[i \div 8 + 1] = out[i \div 8 + 1] \cap 0 .. r - 1
          BY <1>5, <1>7, <2>2, <3>1, <3>3
        <4>2. i % 8 \in 0 .. r - 1 <=> i < n
          BY <1>6, <3>1, <3>3
        <4> QED
          BY <3>2, <3>3, <4>1, <4>2
      <3>4. CASE source[1] /\ r # 0 /\ i \div 8 + 1 # w
        <4>1. out'[i \div 8 + 1] = out[i \div 8 + 1]
          BY <1>5, <1>7, <2>2, <3>1, <3>4
        <4>2. i < n
          BY <1>6, <3>1, <3>4
        <4> QED
          BY <3>2, <3>4, <4>1, <4>2
      <3>5. CASE ~(source[1] /\ r # 0)
        <4>1. out' = out
          BY <1>7, <2>2, <3>5
        <4>2. r = 0 => i < n
          BY <1>6, <3>1
        <4> QED
          BY <3>2, <3>5, <4>1, <4>2
      <3> QED
        BY <3>3, <3>4, <3>5
    <2>5. HoldsBits(n)'
      BY <1>1, <1>3, <2>4 DEF HoldsBits, Expected, w
    <2> QED
      BY <1>1, <1>3, <2>1, <2>5 DEF ContentsOK
  <1> QED
    BY <1>3, <1>9, <1>10 DEF MacroInv

LEMMA ExpansionInv == MacroInv /\ Expansion => MacroInv'
  BY CountInv, ReserveInv, PushInv, SetBitInv, EndListInv, FillInv, ClearPaddingInv
     DEF Expansion

LEMMA UsesInv == MacroInv /\ (UseList \/ UseRepeat) => MacroInv'
  <1> SUFFICES ASSUME MacroInv, UseList \/ UseRepeat PROVE MacroInv'
    OBVIOUS
  <1>1. CASE UseList
    <2>1. PICK f \in Lists, k \in 1 .. MaxList : Use(f, "count", k, k)
      BY <1>1 DEF UseList, Lists
    <2>2. k \in Nat /\ Arm(f, "count", k, k)
      BY MaxListAssumption DEF Arm
    <2> QED
      BY <2>1, <2>2, UseInv
  <1>2. CASE UseRepeat
    <2>1. PICK k \in Counts : Use("bool repeat", "fill", k, 1)
      BY <1>2 DEF UseRepeat
    <2>2. k \in Nat /\ Arm("bool repeat", "fill", k, 1)
      BY CountsAssumption DEF Arm
    <2> QED
      BY <2>1, <2>2, UseInv
  <1> QED
    BY <1>1, <1>2

\* What a vector holds in the end.
LEMMA InvHoldsValues ==
    ASSUME Pure, MacroInv
    PROVE  HoldsValues
  <1> SUFFICES ASSUME stage = "done", form # "none"
               PROVE  IF form = "list" THEN out = SubSeq(source, 1, n)
                      ELSE /\ Len(out) = byte_len(n)
                           /\ \A i \in 0 .. 8 * Len(out) - 1 :
                                 i % 8 \in out[i \div 8 + 1] <=> i < n /\ Expected(i + 1)
    BY DEF HoldsValues
  <1>1. StagesOK /\ ShapeOK /\ ContentsOK
    BY DEF MacroInv
  <1>2. n \in Nat /\ pos \in 1 .. n + 1 /\ byte_len(n) \in Nat
    BY <1>1, ByteLength DEF ShapeOK
  <1>3. form \in Lists => pos - 1 = n
    <2>1. form \in Lists => pos > n
      BY <1>1 DEF ShapeOK
    <2>2. pos > n => pos - 1 = n
      BY <1>2
    <2> QED
      BY <2>1, <2>2
  <1>4. CASE form = "list"
    <2>1. /\ out \in [1 .. n -> BOOLEAN] /\ source \in [1 .. n -> BOOLEAN]
          /\ \A i \in 1 .. n : out[i] = source[i]
      BY <1>1, <1>3, <1>4 DEF ContentsOK, Lists
    <2>2. out = source
      <3> DEFINE N == 1 .. n
      <3>1. /\ out \in [N -> BOOLEAN] /\ source \in [N -> BOOLEAN]
            /\ \A i \in N : out[i] = source[i]
        BY <2>1
      <3> HIDE DEF N
      <3> QED
        BY <3>1, SameFunction
    <2>3. source \in Seq(BOOLEAN) /\ Len(source) = n
      BY <1>2, <2>1
    <2>4. SubSeq(source, 1, n) = source
      BY <2>3
    <2> QED
      BY <1>4, <2>2, <2>4
  <1>5. CASE form \in Masks
    <2>1. out \in [1 .. byte_len(n) -> SUBSET Bits]
      BY <1>1, <1>5 DEF ShapeOK
    <2>2. Len(out) = byte_len(n)
      BY <1>2, <2>1
    <2>3. HoldsBits(n)
      BY <1>1, <1>3, <1>5 DEF ContentsOK, Lists, Masks
    <2> QED
      BY <1>5, <2>2, <2>3 DEF HoldsBits, Masks
  <1>6. form = "list" \/ form \in Masks
    BY <1>1 DEF StagesOK, Lists, Masks
  <1> QED
    BY <1>4, <1>5, <1>6

-----------------------------------------------------------------------------
(* The program that uses both *)

\* While the macro is in use the program works on bytes, its search for the
\* step is over, and a mask is the only buffer there is.
MaskOK ==
    /\ form # "none" => elem = 1 /\ ~Searching
    /\ stage = "taken" => len = byte_len(n) /\ cap = byte_len(n)

PMInv == Inv /\ MacroInv /\ MaskOK

LEMMA PMInitInv == PMInit => PMInv
  <1> SUFFICES ASSUME PMInit PROVE PMInv
    OBVIOUS
  <1>1. Inv /\ MacroInv
    BY InitInv, MacroInitInv DEF PMInit
  <1>2. MaskOK
    BY DEF PMInit, MacroInit, MaskOK
  <1> QED
    BY <1>1, <1>2 DEF PMInv

\* The expansion ends with a vector that nobody has taken yet.
LEMMA ExpansionStages == Expansion => form' = form /\ n' = n /\ stage' # "taken"
  BY DEF Expansion, Count, Reserve, Push, SetBit, EndList, Fill, ClearPadding

\* A step that leaves the macro alone.
LEMMA MacroAside == MacroInv /\ UNCHANGED macro_vars => MacroInv'
  BY DEF macro_vars, MacroInv, StagesOK, ShapeOK, ContentsOK, HoldsBits, Expected

\* A step that leaves the buffer alone.
LEMMA BufferAside == Inv /\ UNCHANGED page_vars => Inv'
  BY NextInv

LEMMA PMNextInv == PMInv /\ [PMNext]_pm_vars => PMInv'
  <1> SUFFICES ASSUME PMInv, [PMNext]_pm_vars PROVE PMInv'
    OBVIOUS
  <1>1. Inv /\ MacroInv /\ MaskOK /\ StagesOK
    BY DEF PMInv, MacroInv
  <1>2. form = "none" => stage = "done"
    BY <1>1 DEF StagesOK
  <1>3. CASE FindsStep
    <2>1. Iterate /\ UNCHANGED macro_vars /\ form = "none"
      BY <1>1, <1>3 DEF FindsStep, Iterate, MaskOK
    <2>2. Inv' /\ MacroInv'
      BY <1>1, <2>1, IterateInv, MacroAside
    <2>3. MaskOK'
      BY <1>2, <2>1 DEF MaskOK, macro_vars
    <2> QED
      BY <2>2, <2>3 DEF PMInv
  <1>4. CASE MakesBuffer
    <2>1. Make /\ UNCHANGED macro_vars /\ form = "none"
      BY <1>4 DEF MakesBuffer
    <2>2. Inv' /\ MacroInv'
      BY <1>1, <2>1, NextInv, MacroAside DEF PageNext
    <2>3. MaskOK'
      BY <1>2, <2>1 DEF MaskOK, macro_vars
    <2> QED
      BY <2>2, <2>3 DEF PMInv
  <1>5. CASE DropsBuffer
    <2>1. Inv'
      BY <1>1, <1>5, NextInv DEF DropsBuffer, PageNext
    <2>2. /\ form' = "none" /\ stage' = "done"
          /\ n' = 0 /\ source' = <<>> /\ evaluated' = 0 /\ pos' = 1 /\ out' = <<>>
      BY <1>5 DEF DropsBuffer
    <2>3. MacroInv' /\ MaskOK'
      BY <2>2 DEF MacroInv, StagesOK, ShapeOK, ContentsOK, MaskOK, Lists, Masks
    <2> QED
      BY <2>1, <2>3 DEF PMInv
  <1>6. CASE UsesMacro
    <2>1. Free /\ UNCHANGED page_vars /\ (UseList \/ UseRepeat)
      BY <1>6 DEF UsesMacro
    <2>2. Inv' /\ MacroInv'
      BY <1>1, <2>1, UsesInv, BufferAside
    <2>3. stage' # "taken"
      BY <2>1 DEF UseList, UseRepeat, Use
    <2>4. MaskOK'
      BY <2>1, <2>3 DEF MaskOK, Free, page_vars, Searching
    <2> QED
      BY <2>2, <2>4 DEF PMInv
  <1>7. CASE UsesMacroForPages
    <2>1. Free /\ UNCHANGED page_vars
      BY <1>7 DEF UsesMacroForPages
    <2>2. PICK k \in 1 .. 2 : Use("bool repeat", "fill", k * page_align_bitmask_step, 1)
      BY <1>7 DEF UsesMacroForPages
    <2>3. k * page_align_bitmask_step \in Nat
      <3>1. step \in Nat
        BY <1>1 DEF Inv, PageTypeOK
      <3> QED
        BY <3>1 DEF page_align_bitmask_step
    <2>4. Arm("bool repeat", "fill", k * page_align_bitmask_step, 1)
      BY DEF Arm
    <2>5. Inv' /\ MacroInv'
      BY <1>1, <2>1, <2>2, <2>3, <2>4, UseInv, BufferAside
    <2>6. stage' # "taken"
      BY <2>2 DEF Use
    <2>7. MaskOK'
      BY <2>1, <2>6 DEF MaskOK, Free, page_vars, Searching
    <2> QED
      BY <2>5, <2>7 DEF PMInv
  <1>8. CASE Expands
    <2>1. Expansion /\ UNCHANGED page_vars
      BY <1>8 DEF Expands
    <2>2. Inv' /\ MacroInv'
      BY <1>1, <2>1, ExpansionInv, BufferAside
    <2>3. MaskOK'
      BY <1>1, <2>1, ExpansionStages DEF MaskOK, page_vars, Searching
    <2> QED
      BY <2>2, <2>3 DEF PMInv
  <1>9. CASE TakesMask
    <2>1. /\ stage = "done" /\ form \in Masks /\ stage' = "taken"
          /\ len' = Len(out) /\ cap' = Len(out)
          /\ UNCHANGED <<elem, a, b, step, form, n, source, evaluated, pos, out>>
      BY <1>9 DEF TakesMask, Masks
    <2>2. byte_len(n) \in Nat /\ out \in [1 .. byte_len(n) -> SUBSET Bits]
      BY <1>1, <2>1, ByteLength DEF MacroInv, ShapeOK
    <2>3. Len(out) = byte_len(n)
      BY <2>2
    <2>4. Inv'
      BY <1>1, <2>1, <2>2, <2>3, OtherInv
    <2>5. MaskOK'
      BY <1>1, <2>1, <2>3 DEF MaskOK, Masks, Searching, byte_len
    <2>6. MacroInv'
      <3>1. StagesOK'
        BY <1>1, <2>1 DEF StagesOK, Lists, Masks
      <3>2. ShapeOK'
        BY <1>1, <2>1, <2>2 DEF MacroInv, ShapeOK, Lists, Masks
      <3>3. Pure => ContentsOK'
        BY <1>1, <2>1 DEF MacroInv, ContentsOK, HoldsBits, Expected, Masks
      <3> QED
        BY <3>1, <3>2, <3>3 DEF MacroInv
    <2> QED
      BY <2>4, <2>5, <2>6 DEF PMInv
  <1>10. CASE UNCHANGED pm_vars
    <2>1. UNCHANGED page_vars /\ UNCHANGED macro_vars
      BY <1>10 DEF pm_vars
    <2>2. Inv' /\ MacroInv'
      BY <1>1, <2>1, BufferAside, MacroAside
    <2>3. MaskOK'
      BY <1>1, <2>1 DEF MaskOK, page_vars, macro_vars, Searching
    <2> QED
      BY <2>2, <2>3 DEF PMInv
  <1> QED
    BY <1>3, <1>4, <1>5, <1>6, <1>7, <1>8, <1>9, <1>10 DEF PMNext

\* In bytes, a mask that fills whole pages to the last bit.
LEMMA InvMaskFillsPages == PMInv => MaskFillsPages
  <1> SUFFICES ASSUME PMInv, stage = "taken"
               PROVE  is_page_aligned /\ n = 8 * len <=>
                          n > 0 /\ n % page_align_bitmask_step = 0
    BY DEF MaskFillsPages
  <1>1. Inv /\ StagesOK /\ ShapeOK /\ MaskOK
    BY DEF PMInv, MacroInv
  <1>2. form # "none"
    BY <1>1 DEF StagesOK
  <1>3. elem = 1 /\ ~Searching /\ len = byte_len(n) /\ cap = len
    BY <1>1, <1>2 DEF MaskOK
  <1>4. n \in Nat
    BY <1>1 DEF ShapeOK
  <1>5. len \in Nat /\ HugePage \in Nat \ {0} /\ n <= 8 * len /\ 8 * len < n + 8
    BY <1>3, <1>4, ByteLength, HugePageAssumption
  <1>6. step = HugePage
    <2>1. /\ step \in Nat \ {0}
          /\ \A j \in Nat : FillsPages(j) <=> j % step = 0
      BY <1>1, <1>3, StepMultiples
    <2>2. \A j \in Nat : j % HugePage = 0 <=> j % step = 0
      BY <1>3, <2>1 DEF FillsPages
    <2>3. ASSUME NEW u \in Nat \ {0}, NEW v \in Nat \ {0}, u % v = 0
          PROVE  u >= v
      <3>1. ~(0 * v < u /\ u < 0 * v + v)
        BY <2>3, NoneBetween
      <3> QED
        BY <3>1
    <2>4. ASSUME NEW u \in Nat \ {0}
          PROVE  u % u = 0
      <3>1. u = 1 * u /\ u \in Int
        OBVIOUS
      <3>2. Divides(u, u)
        BY <3>1 DEF Divides
      <3> QED
        BY <3>1, <3>2, NoRemainder
    <2>5. HugePage % step = 0 /\ step % HugePage = 0
      BY <1>5, <2>1, <2>2, <2>4
    <2>6. HugePage >= step /\ step >= HugePage
      BY <1>5, <2>1, <2>3, <2>5
    <2> QED
      BY <1>5, <2>1, <2>6
  <1>7. is_page_aligned <=> len >= HugePage /\ len % HugePage = 0
    BY <1>3, <1>5 DEF is_page_aligned
  <1>8. page_align_bitmask_step = HugePage * 8 /\ HugePage * 8 \in Nat \ {0}
    BY <1>5, <1>6 DEF page_align_bitmask_step
  <1>9. ASSUME len >= HugePage, len % HugePage = 0, n = 8 * len
        PROVE  n > 0 /\ n % (HugePage * 8) = 0
    <2>1. PICK q \in Int : len = q * HugePage
      BY <1>5, <1>9, NoRemainder DEF Divides
    <2>2. n = q * (HugePage * 8)
      BY <1>5, <1>9, <2>1
    <2>3. Divides(HugePage * 8, n)
      BY <2>2 DEF Divides
    <2>4. n % (HugePage * 8) = 0
      BY <1>4, <1>8, <2>3, NoRemainder
    <2> QED
      BY <1>5, <1>9, <2>4
  <1>10. ASSUME n > 0, n % (HugePage * 8) = 0
         PROVE  len >= HugePage /\ len % HugePage = 0 /\ n = 8 * len
    <2>1. PICK q \in Int : n = q * (HugePage * 8)
      <3> DEFINE d == HugePage * 8
      <3>1. d \in Nat \ {0} /\ n \in Int /\ n % d = 0
        BY <1>4, <1>8, <1>10
      <3> HIDE DEF d
      <3>2. Divides(d, n)
        BY <3>1, NoRemainder
      <3> QED
        BY <3>2 DEF Divides, d
    <2> DEFINE w == q * HugePage
    <2>2. w \in Int /\ n = 8 * w
      BY <1>5, <2>1
    <2> HIDE DEF w
    <2>3. len = w /\ len > 0
      BY <1>5, <1>10, <2>2
    <2>4. len % HugePage = 0
      <3>1. Divides(HugePage, len)
        BY <2>3 DEF Divides, w
      <3> QED
        BY <1>5, <3>1, NoRemainder
    <2>5. ~(0 * HugePage < len /\ len < 0 * HugePage + HugePage)
      BY <1>5, <2>4, NoneBetween
    <2>6. 0 * HugePage = 0 /\ 0 * HugePage + HugePage = HugePage
      BY <1>5
    <2>7. len >= HugePage
      BY <1>5, <2>3, <2>5, <2>6
    <2> QED
      BY <2>2, <2>3, <2>4, <2>7
  <1> QED
    BY <1>7, <1>8, <1>9, <1>10

-----------------------------------------------------------------------------
(* Theorems *)

\* The trait by itself, whatever buffers a program makes.
THEOREM SearchCorrect ==
    PageSpec => [](PageTypeOK /\ StepIsLeast /\ NearestLengths /\ AgreesWithStep)
  <1>1. Inv => PageTypeOK /\ StepIsLeast /\ NearestLengths /\ AgreesWithStep
    BY InvTyping, InvLeastStep, InvNearest, InvAgreement
  <1> QED
    BY <1>1, InitInv, NextInv, PTL DEF PageSpec

\* The search and the macro keep their invariants, whatever an expression gives.
THEOREM PagesInvariant == PMSpec => []PMInv
  BY PMInitInv, PMNextInv, PTL DEF PMSpec

\* The variables keep their types, for any page size and any element sizes.
THEOREM Typing == PMSpec => []PageTypeOK
  <1>1. PMInv => PageTypeOK
    BY InvTyping DEF PMInv
  <1> QED
    BY <1>1, PagesInvariant, PTL

\* The step that gcd finds is the smallest non-zero number of elements that
\* fills whole pages (page_aligned.rs 92-113).
THEOREM LeastStep == PMSpec => []StepIsLeast
  <1>1. PMInv => StepIsLeast
    BY InvLeastStep DEF PMInv
  <1> QED
    BY <1>1, PagesInvariant, PTL

\* The answers of the trait are the nearest lengths that fill whole pages.
THEOREM Nearest == PMSpec => []NearestLengths
  <1>1. PMInv => NearestLengths
    BY InvNearest DEF PMInv
  <1> QED
    BY <1>1, PagesInvariant, PTL

\* A buffer, also a mask that vec64! has made, is page-aligned exactly when it
\* is not empty, full and at a step.
THEOREM Agreement == PMSpec => []AgreesWithStep
  <1>1. PMInv => AgreesWithStep
    BY InvAgreement DEF PMInv
  <1> QED
    BY <1>1, PagesInvariant, PTL

\* A mask fills whole pages to the last bit exactly if the number of its bits
\* is a multiple of page_align_bitmask_step, even if an expression gives another
\* value each time.
THEOREM MaskPages == PMSpec => []MaskFillsPages
  BY InvMaskFillsPages, PagesInvariant, PTL

\* What the program above gets from vec64! is what its expressions say, if an
\* expression gives its value each time.
THEOREM PagesHoldValues ==
    ASSUME Pure
    PROVE  PMSpec => []HoldsValues
  <1>1. PMInv => HoldsValues
    BY InvHoldsValues DEF PMInv
  <1> QED
    BY <1>1, PagesInvariant, PTL

\* The same of a program that only uses the macro, again and again.
THEOREM MacroHoldsValues ==
    ASSUME Pure
    PROVE  MacroSpec => []HoldsValues
  <1>1. MacroInv /\ [MacroNext]_macro_vars => MacroInv'
    <2> SUFFICES ASSUME MacroInv, [MacroNext]_macro_vars PROVE MacroInv'
      OBVIOUS
    <2>1. CASE UNCHANGED macro_vars
      BY <2>1, MacroAside
    <2> QED
      BY <2>1, UsesInv, ExpansionInv DEF MacroNext
  <1>2. MacroInv => HoldsValues
    BY InvHoldsValues
  <1> QED
    BY <1>1, <1>2, MacroInitInv, PTL DEF MacroSpec

=============================================================================
