----------------------------- MODULE PageAligned -----------------------------
(***************************************************************************)
(* The trait PageAligned of src/src/page_aligned.rs: at which lengths a    *)
(* buffer ends at the end of a huge page.  The lengths are the multiples   *)
(* of a step that is found with Euclid's algorithm, here iteration by      *)
(* iteration; a program then makes buffers and asks for their alignment.   *)
(***************************************************************************)
EXTENDS Integers

CONSTANTS
    HugePage,    \* HUGE_PAGE
    Elems,       \* the sizes of element types; 0 is a zero-sized one
    MaxLen       \* bound: the longest buffer

ASSUME HugePageAssumption == HugePage \in Nat \ {0}
ASSUME ElemsAssumption == Elems \subseteq Nat
ASSUME MaxLenAssumption == MaxLen \in Nat

VARIABLES
    elem,        \* size_of::<T>()
    a, b,        \* the variables of gcd
    step,        \* what page_align_t_step::<T>() returns, or NoStep
    len, cap     \* a Vec64<T>

page_vars == <<elem, a, b, step, len, cap>>

NoStep == 0      \* None, also before there is an answer

Searching == b # 0

-----------------------------------------------------------------------------
(* The search for the step *)

\* gcd(elem, HUGE_PAGE) is called unless T is zero-sized.
PageInit ==
    /\ elem \in Elems
    /\ a = elem
    /\ b = IF elem = 0 THEN 0 ELSE HugePage
    /\ step = NoStep
    /\ len = 0 /\ cap = 0

\* Mutant: a subtraction in place of the remainder.
Iterate_Subtracts ==
    /\ Searching
    /\ a' = b
    /\ b' = a - b
    /\ step' = IF b' = 0 THEN HugePage \div a' ELSE NoStep
    /\ UNCHANGED <<elem, len, cap>>

\* Mutant: b is assigned after a, from the new a.
Iterate_WithoutTemporary ==
    /\ Searching
    /\ a' = a % b
    /\ b' = b
    /\ UNCHANGED <<elem, step, len, cap>>

\* Mutant: the loop ends one iteration early.
Iterate_StopsAtOne ==
    /\ Searching
    /\ a' = b
    /\ b' = IF a % b = 1 THEN 0 ELSE a % b
    /\ step' = IF b' = 0 THEN HugePage \div a' ELSE NoStep
    /\ UNCHANGED <<elem, len, cap>>

\* One iteration of gcd; the last is followed by HUGE_PAGE / g.
Iterate ==
    /\ Searching
    /\ a' = b
    /\ b' = a % b
    /\ step' = IF b' = 0 THEN HugePage \div a' ELSE NoStep
    /\ UNCHANGED <<elem, len, cap>>

NoBuffer == len = 0 /\ cap = 0

\* The program makes some buffer, with or without spare capacity, or drops it.
Make ==
    /\ ~Searching /\ NoBuffer
    /\ len' \in 0 .. MaxLen /\ cap' \in len' .. MaxLen
    /\ UNCHANGED <<elem, a, b, step>>

Drop ==
    /\ ~Searching
    /\ len' = 0 /\ cap' = 0
    /\ UNCHANGED <<elem, a, b, step>>

PageNext == Iterate \/ Make \/ Drop

PageSpec == PageInit /\ [][PageNext]_page_vars /\ WF_page_vars(Iterate)

-----------------------------------------------------------------------------
(* The answers *)

\* Mutant: spare capacity does not matter.
is_page_aligned_AnyCapacity ==
    /\ elem # 0
    /\ cap * elem >= HugePage
    /\ (len * elem) % HugePage = 0

\* `& (HUGE_PAGE - 1)` is the remainder, HUGE_PAGE being a power of two.
is_page_aligned ==
    /\ elem # 0
    /\ cap = len
    /\ cap * elem >= HugePage
    /\ (len * elem) % HugePage = 0

\* Mutant: an aligned length is rounded up, too.
next_page_aligned_len_Always == len + (step - (len % step))

\* next and prev are Some unless step is None.
next_page_aligned_len ==
    IF len % step = 0 THEN len ELSE len + (step - (len % step))

prev_page_aligned_len == (len \div step) * step

aligned_len_step == next_page_aligned_len - len

\* Mutant: the step of the bytes.
page_align_bitmask_step_Bytes == step

\* For the bits of a mask, which lie in elements of one byte.
page_align_bitmask_step == step * 8

-----------------------------------------------------------------------------
(* Properties *)

\* Elements that fill whole pages.
FillsPages(n) == (n * elem) % HugePage = 0

HasStep == step # NoStep

PageTypeOK ==
    /\ elem \in Elems
    /\ a \in Nat /\ b \in Nat /\ step \in Nat
    /\ len \in Nat /\ cap \in Nat /\ len <= cap

\* The step is the smallest non-zero number of elements that fills whole
\* pages, for an element of any size, a power of two or not (76-79).
StepIsLeast ==
    HasStep => FillsPages(step) /\ \A n \in 1 .. step - 1 : ~FillsPages(n)

\* The next aligned length is the smallest one that is not below the current
\* length, the previous one the greatest that is not above it (10-16).
NearestLengths ==
    HasStep =>
        /\ len <= next_page_aligned_len /\ FillsPages(next_page_aligned_len)
        /\ \A n \in len .. next_page_aligned_len - 1 : ~FillsPages(n)
        /\ prev_page_aligned_len <= len /\ FillsPages(prev_page_aligned_len)
        /\ \A n \in prev_page_aligned_len + 1 .. len : ~FillsPages(n)

\* The two halves of the trait agree: a buffer is page-aligned exactly when it
\* is not empty, has no spare capacity and has no step left to go.
AgreesWithStep ==
    ~Searching => (is_page_aligned <=> /\ HasStep
                                       /\ cap = len /\ len > 0
                                       /\ aligned_len_step = 0)

\* The search ends.
StepFound == <>(~Searching)

=============================================================================
