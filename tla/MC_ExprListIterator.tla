------------------------- MODULE MC_ExprListIterator -------------------------
(***************************************************************************)
(* Two elements: E1 evaluates to 1, E2's evaluation fails (an undefined    *)
(* attribute's error path, say, that leaves val as it was).  The lists     *)
(* { E1, E2 } and { E2 }; a caller's EvalState with budget 0 or 1.        *)
(***************************************************************************)
EXTENDS ExprListIterator, TLC

CONSTANTS E1, E2

MCEval == (E1 :> [ok |-> TRUE, v |-> 1]) @@ (E2 :> [ok |-> FALSE, v |-> 2])
MCLists == {<<E1, E2>>, <<E2>>}

\* What the iterator promises: ListCursor with the same list, position
\* and answers.
Cursor == INSTANCE ListCursor WITH cl <- l, cpos <- itr, cans <- ans

\* The iterator behaves as a cursor: PrevExpr steps back onto the element
\* before the current one, and a Value call answers true only when the
\* element was evaluated (exprList.cpp PrevExpr and GetValue).
ImplementsCursor == Cursor!Spec

====
