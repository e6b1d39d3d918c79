---------------------------- MODULE MCSessions ----------------------------
(***************************************************************************)
(* Sessions for TLC: a Task or a follow-up is only a name, and the chat    *)
(* loop and the kernel's caller are told apart by what they may do.        *)
(***************************************************************************)
EXTENDS Sessions, TLC

Symmetry == Permutations(Tasks) \cup Permutations(Inputs)
=============================================================================
