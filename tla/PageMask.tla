------------------------------ MODULE PageMask ------------------------------
(***************************************************************************)
(* A program that asks PageAligned for row steps and makes buffers, and    *)
(* makes bit masks with vec64!, some of them as long as                    *)
(* page_align_bitmask_step says.                                           *)
(***************************************************************************)
EXTENDS PageAligned, Vec64Macro

pm_vars == <<page_vars, macro_vars>>

PMInit == PageInit /\ MacroInit

FindsStep == Iterate /\ UNCHANGED macro_vars

\* A buffer is made in another way.
MakesBuffer == Make /\ form = "none" /\ UNCHANGED macro_vars

\* A buffer is dropped, or what the macro has made, or both.
DropsBuffer ==
    /\ Drop /\ stage \in {"done", "taken"}
    /\ form' = "none" /\ stage' = "done"
    /\ n' = 0 /\ source' = <<>> /\ evaluated' = 0 /\ pos' = 1 /\ out' = <<>>

\* Bound: the macro is used by a program that works on bytes and has no buffer.
Free == ~Searching /\ elem = 1 /\ NoBuffer /\ form = "none"

UsesMacro == Free /\ (UseList \/ UseRepeat) /\ UNCHANGED page_vars

UsesMacroForPages ==
    /\ Free
    /\ \E k \in 1 .. 2 : Use("bool repeat", "fill", k * page_align_bitmask_step, 1)
    /\ UNCHANGED page_vars

Expands == Expansion /\ UNCHANGED page_vars

\* A mask is a Vec64<u8> with the capacity asked for, all of it in use.
TakesMask ==
    /\ stage = "done" /\ form \in {"bool list", "bool repeat"}
    /\ NoBuffer
    /\ stage' = "taken" /\ len' = Len(out) /\ cap' = Len(out)
    /\ UNCHANGED <<elem, a, b, step, form, n, source, evaluated, pos, out>>

PMNext ==
    \/ FindsStep \/ MakesBuffer \/ DropsBuffer
    \/ UsesMacro \/ UsesMacroForPages \/ Expands \/ TakesMask

PMSpec == PMInit /\ [][PMNext]_pm_vars /\ WF_pm_vars(FindsStep)

-----------------------------------------------------------------------------

\* A mask fills whole pages to the last bit exactly if it has a multiple of
\* page_align_bitmask_step bits: the step counts bits, vec64! allocates bytes
\* and is_page_aligned looks at their number (page_aligned.rs 84-89).
MaskFillsPages ==
    stage = "taken" =>
        (is_page_aligned /\ n = 8 * len <=> n > 0 /\ n % page_align_bitmask_step = 0)

=============================================================================
