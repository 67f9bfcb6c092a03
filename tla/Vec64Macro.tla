----------------------------- MODULE Vec64Macro -----------------------------
(***************************************************************************)
(* The macro vec64! of src/src/vec64.rs: a list of expressions, a list of  *)
(* booleans packed into bits, and one boolean repeated.  What a macro is   *)
(* given are expressions, and each place where its body mentions one       *)
(* evaluates it there, so the expansion is taken evaluation by evaluation. *)
(***************************************************************************)
EXTENDS Integers, Sequences

CONSTANTS
    Pure,        \* whether an expression gives its value each time; otherwise
                 \* all of them take the next value of one source (an iterator)
    MaxList,     \* bound: the longest list of expressions
    Counts       \* bound: the numbers of repetitions

ASSUME PureAssumption == Pure \in BOOLEAN
ASSUME MaxListAssumption == MaxList \in Nat
ASSUME CountsAssumption == Counts \subseteq Nat

VARIABLES
    form,        \* the arm of the macro, "none" between two uses
    stage,       \* how far its body is
    n,           \* the number of values wanted
    source,      \* the values of the expressions, in the order they are written
    evaluated,   \* how many evaluations there have been
    pos,         \* the index of the expression that comes next
    out          \* the vector: values, or bytes as sets of the bits that are 1

macro_vars == <<form, stage, n, source, evaluated, pos, out>>

Bits == 0 .. 7

byte_len(count) == (count + 7) \div 8

-----------------------------------------------------------------------------

MacroInit ==
    /\ form = "none" /\ stage = "done"
    /\ n = 0 /\ source = <<>> /\ evaluated = 0 /\ pos = 1 /\ out = <<>>

\* A use of the macro with some number of expressions, evaluated at most twice.
Use(f, first, count, expressions) ==
    /\ stage = "done"
    /\ form' = f /\ stage' = first /\ n' = count
    /\ source' \in [1 .. IF Pure THEN expressions ELSE 2 * expressions -> BOOLEAN]
    /\ evaluated' = 0 /\ pos' = 1 /\ out' = <<>>

UseList == \E f \in {"list", "bool list"}, k \in 1 .. MaxList : Use(f, "count", k, k)

UseRepeat == \E k \in Counts : Use("bool repeat", "fill", k, 1)

Value(i) == source[IF Pure THEN i ELSE evaluated + 1]

Evaluates == evaluated' = evaluated + 1

-----------------------------------------------------------------------------
(* The list forms *)

\* `0 $(+ { let _ = &$x; 1 })*` counts the expressions by evaluating each one.
Count ==
    /\ stage = "count" /\ pos <= n
    /\ Evaluates
    /\ pos' = pos + 1
    /\ UNCHANGED <<form, stage, n, source, out>>

\* The vector is made: empty for a list of values, all bits zero for a mask.
Reserve ==
    /\ stage = "count" /\ pos > n
    /\ stage' = "set" /\ pos' = 1
    /\ out' = IF form = "list" THEN <<>> ELSE [i \in 1 .. byte_len(n) |-> {}]
    /\ UNCHANGED <<form, n, source, evaluated>>

Push ==
    /\ form = "list" /\ stage = "set" /\ pos <= n
    /\ Evaluates
    /\ out' = Append(out, Value(pos))
    /\ pos' = pos + 1
    /\ UNCHANGED <<form, stage, n, source>>

SetBit ==
    /\ form = "bool list" /\ stage = "set" /\ pos <= n
    /\ Evaluates
    /\ out' = IF Value(pos)
              THEN [out EXCEPT ![(pos - 1) \div 8 + 1] = @ \cup {(pos - 1) % 8}]
              ELSE out
    /\ pos' = pos + 1
    /\ UNCHANGED <<form, stage, n, source>>

EndList ==
    /\ stage = "set" /\ pos > n
    /\ stage' = "done"
    /\ UNCHANGED <<form, n, source, evaluated, pos, out>>

-----------------------------------------------------------------------------
(* The repetition of a boolean *)

\* The buffer is filled with 0xFF or 0.
Fill ==
    /\ stage = "fill"
    /\ Evaluates
    /\ out' = [i \in 1 .. byte_len(n) |-> IF Value(1) THEN Bits ELSE {}]
    /\ stage' = "clear"
    /\ UNCHANGED <<form, n, source, pos>>

\* Mutant: the mask is also applied to a last byte that is full.
ClearPadding_Always ==
    /\ stage = "clear"
    /\ Evaluates
    /\ out' = IF Value(1) /\ n > 0
              THEN [out EXCEPT ![byte_len(n)] = @ \cap 0 .. (n % 8) - 1]
              ELSE out
    /\ stage' = "done"
    /\ UNCHANGED <<form, n, source, pos>>

\* The padding bits of the last byte are cleared; the condition evaluates the
\* expression again.
ClearPadding ==
    /\ stage = "clear"
    /\ Evaluates
    /\ out' = IF Value(1) /\ n % 8 # 0
              THEN [out EXCEPT ![byte_len(n)] = @ \cap 0 .. (n % 8) - 1]
              ELSE out
    /\ stage' = "done"
    /\ UNCHANGED <<form, n, source, pos>>

Expansion == Count \/ Reserve \/ Push \/ SetBit \/ EndList \/ Fill \/ ClearPadding

MacroNext == UseList \/ UseRepeat \/ Expansion

MacroSpec == MacroInit /\ [][MacroNext]_macro_vars

-----------------------------------------------------------------------------
(* Properties *)

Expected(i) == source[IF form = "bool repeat" THEN 1 ELSE i]

\* The vector is what its expressions say, read from left to right and once
\* each; of a mask every bit, with the padding bits zero.  The count is to cost
\* no evaluation: "Count elements at macro-expansion time" (861).
HoldsValues ==
    stage = "done" /\ form # "none" =>
        IF form = "list" THEN out = SubSeq(source, 1, n)
        ELSE /\ Len(out) = byte_len(n)
             /\ \A i \in 0 .. 8 * Len(out) - 1 :
                   i % 8 \in out[i \div 8 + 1] <=> i < n /\ Expected(i + 1)

=============================================================================
