----------------------------- MODULE ListCursor -----------------------------
(***************************************************************************)
(* What a cursor over the elements of an ExprList promises its caller:     *)
(* the position moves like a vector iterator, between the first element    *)
(* (0) and the place after the last (Len); each move answers the element   *)
(* it lands on or NULL; and evaluating an element answers its value, or    *)
(* FALSE when there is no element, no budget, or the evaluation fails.     *)
(***************************************************************************)
EXTENDS Integers, Sequences

CONSTANTS NULL,    \* no list, no element
          Lists,   \* the lists a cursor may be set to
          Eval,    \* element -> [ok, v]: what evaluating it gives
          ErrorV,  \* the Error value
          Vals,    \* the values an evaluation may leave behind
          Depths,  \* the depth budgets a caller may evaluate with
          MaxLen   \* the longest list

VARIABLES cl,      \* the list, or NULL before one is given
          cpos,    \* the position, 0..Len(cl)
          cans     \* what the last call answered

cvars == <<cl, cpos, cans>>

\* Every answer is a record [ok, v]: a pointer returned, a bool, or a
\* bool with the value left in val.
Ptr(r) == [ok |-> r # NULL, v |-> r]
Bool(b) == [ok |-> b, v |-> NULL]

Size == IF cl = NULL THEN 0 ELSE Len(cl)
ElemAt(i) == cl[i + 1]

\* Moves: the new position and the element answered.
NthOk(n) == cl # NULL /\ 0 <= n /\ n < Size
NextMove == IF cl # NULL /\ cpos < Size
            THEN [pos |-> cpos + 1, r |-> IF cpos + 1 < Size THEN ElemAt(cpos + 1) ELSE NULL]
            ELSE [pos |-> cpos, r |-> NULL]
CurrentMove == [pos |-> cpos, r |-> IF cl # NULL /\ cpos < Size THEN ElemAt(cpos) ELSE NULL]
PrevMove == IF cl # NULL /\ cpos > 0
            THEN [pos |-> cpos - 1, r |-> ElemAt(cpos - 1)]
            ELSE [pos |-> cpos, r |-> NULL]

\* Evaluating element t with depth budget d.
ValueOf(t, d) ==
    CASE t = NULL -> {[ok |-> FALSE, v |-> NULL]}
      [] d <= 0 -> {[ok |-> FALSE, v |-> ErrorV]}
      [] Eval[t].ok -> {[ok |-> TRUE, v |-> Eval[t].v]}
      [] OTHER -> {[ok |-> FALSE, v |-> x] : x \in Vals}

Attach(el) == cl' = el /\ cpos' = 0 /\ UNCHANGED cans
ToFirst == cpos' = (IF cl # NULL THEN 0 ELSE cpos) /\ UNCHANGED <<cl, cans>>
ToAfterLast == cpos' = (IF cl # NULL THEN Size ELSE cpos) /\ UNCHANGED <<cl, cans>>
ToNth(n) == /\ cpos' = IF NthOk(n) THEN n ELSE cpos
            /\ cans' = Bool(NthOk(n))
            /\ UNCHANGED cl
Move(m) == cpos' = m.pos /\ cans' = Ptr(m.r) /\ UNCHANGED cl
MoveValue(m, d) == cpos' = m.pos /\ cans' \in ValueOf(m.r, d) /\ UNCHANGED cl
IsAtFirst == cans' = Bool(cl # NULL /\ cpos = 0) /\ UNCHANGED <<cl, cpos>>
IsAfterLast == cans' = Bool(cl # NULL /\ cpos = Size) /\ UNCHANGED <<cl, cpos>>

Init == cl = NULL /\ cpos = 0 /\ cans = Bool(FALSE)

Next ==
    \/ \E el \in Lists : Attach(el)
    \/ ToFirst \/ ToAfterLast \/ IsAtFirst \/ IsAfterLast
    \/ \E n \in -1..MaxLen : ToNth(n)
    \/ Move(NextMove) \/ Move(CurrentMove) \/ Move(PrevMove)
    \/ \E d \in Depths : \/ MoveValue(NextMove, d) \/ MoveValue(CurrentMove, d)
                         \/ MoveValue(PrevMove, d)

Spec == Init /\ [][Next]_cvars

====
