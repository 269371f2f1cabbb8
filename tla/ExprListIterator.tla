-------------------------- MODULE ExprListIterator --------------------------
(***************************************************************************)
(* ExprListIterator (exprList.cpp): a cursor l/itr over an ExprList's      *)
(* vector of element pointers, driven by a caller that may call any of its *)
(* public methods in any order.  itr is an index: 0 is begin(), Len(l) is  *)
(* end().  Evaluating an element (GetValue) is one step; what it gives is  *)
(* the element's Eval outcome, since ClassAdEval models evaluation itself. *)
(*                                                                         *)
(* Undefined behaviour: *itr at or past end() reads whatever pointer lies  *)
(* beyond the vector's storage, one of Stray; an iterator past end() keeps *)
(* moving, bounded here by MaxItr.                                         *)
(***************************************************************************)
EXTENDS Integers, Sequences

CONSTANTS NULL, Lists, Eval, ErrorV, Vals, Depths, MaxLen,
          Elems,   \* the element pointers: DOMAIN Eval
          Stray,   \* what *itr may read at or past end()
          MaxItr   \* the furthest index an iterator is followed to

VARIABLES l,       \* the ExprList, NULL from the default constructor
          itr,     \* the vector iterator, as an index
          ans      \* what the last call answered

vars == <<l, itr, ans>>

\* Every answer is a record [ok, v]: a pointer returned, a bool, or a
\* bool with the value left in val.
Ptr(r) == [ok |-> r # NULL, v |-> r]
Bool(b) == [ok |-> b, v |-> NULL]

Size == IF l = NULL THEN 0 ELSE Len(l)

\* *itr: an element inside the vector, a stray pointer outside it.
Deref(i) == IF i < Size THEN {l[i + 1]} ELSE Stray

\* The outcomes of NextExpr, CurrentExpr and PrevExpr: the index after the
\* call and the pointer it returns.
NextMoves == IF l # NULL /\ itr # Size
             THEN {[pos |-> itr + 1, r |-> IF itr + 1 = Size THEN NULL ELSE p] :
                     p \in Deref(itr + 1)}
             ELSE {[pos |-> itr, r |-> NULL]}
CurrentMoves == IF l # NULL /\ itr # Size
                THEN {[pos |-> itr, r |-> p] : p \in Deref(itr)}
                ELSE {[pos |-> itr, r |-> NULL]}
PrevMoves == IF l # NULL /\ itr # 0
             THEN {[pos |-> itr + 1, r |-> p] : p \in Deref(itr + 1)}
             ELSE {[pos |-> itr, r |-> NULL]}

\* GetValue[tree, depth_remaining]: NULL gives false and leaves val; no
\* budget gives Error and false; otherwise true, whatever Evaluate gave.
GetValue == [t \in Elems \cup {NULL}, d \in Depths |->
    CASE t = NULL -> {[ok |-> FALSE, v |-> NULL]}
      [] d <= 0 -> {[ok |-> FALSE, v |-> ErrorV]}
      [] Eval[t].ok -> {[ok |-> TRUE, v |-> Eval[t].v]}
      [] OTHER -> {[ok |-> TRUE, v |-> x] : x \in Vals}]

Init == l = NULL /\ itr = 0 /\ ans = Bool(FALSE)

Initialize == \E el \in Lists : l' = el /\ itr' = 0 /\ UNCHANGED ans
ToFirst == itr' = (IF l # NULL THEN 0 ELSE itr) /\ UNCHANGED <<l, ans>>
ToAfterLast == itr' = (IF l # NULL THEN Size ELSE itr) /\ UNCHANGED <<l, ans>>
ToNth == \E n \in -1..MaxLen :
           LET ok == l # NULL /\ n >= 0 /\ Size > n
           IN itr' = (IF ok THEN n ELSE itr) /\ ans' = Bool(ok) /\ UNCHANGED l
\* A move, taken only while the index stays within MaxItr.
Take(ms) == \E m \in ms : m.pos <= MaxItr /\ itr' = m.pos /\ ans' = Ptr(m.r) /\ UNCHANGED l
TakeValue(ms) == \E m \in ms, d \in Depths :
                   m.pos <= MaxItr /\ itr' = m.pos /\ ans' \in GetValue[m.r, d] /\ UNCHANGED l
NextExpr == Take(NextMoves)
CurrentExpr == Take(CurrentMoves)
PrevExpr == Take(PrevMoves)
NextValue == TakeValue(NextMoves)
CurrentValue == TakeValue(CurrentMoves)
PrevValue == TakeValue(PrevMoves)
IsAtFirst == ans' = Bool(l # NULL /\ itr = 0) /\ UNCHANGED <<l, itr>>
IsAfterLast == ans' = Bool(l # NULL /\ itr = Size) /\ UNCHANGED <<l, itr>>

Next == \/ Initialize \/ ToFirst \/ ToAfterLast \/ ToNth
        \/ NextExpr \/ CurrentExpr \/ PrevExpr
        \/ NextValue \/ CurrentValue \/ PrevValue
        \/ IsAtFirst \/ IsAfterLast

Spec == Init /\ [][Next]_vars

====
