------------------------------- MODULE VecOps -------------------------------
(***************************************************************************)
(* The operations of Rust's Vec and VecDeque that the scheduling policies  *)
(* use and TLA+ sequences do not offer.  A Vec or VecDeque of task ids is  *)
(* a sequence; index 0 of the code is position 1 here.                     *)
(***************************************************************************)
EXTENDS Integers, Sequences, Functions

\* Mutant: pop() in place of swap_remove(i).
RemoveLast(vec, i) == [j \in 1 .. Len(vec) - 1 |-> vec[j]]

(* Vec::swap_remove: the last element takes the place of the removed one.  *)
SwapRemove(vec, i) ==
  [j \in 1 .. Len(vec) - 1 |-> IF j = i THEN vec[Len(vec)] ELSE vec[j]]

(* No task id occurs twice. *)
IsDuplicateFree(vec) == IsInjective(vec)
=============================================================================
