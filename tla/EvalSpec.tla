------------------------------ MODULE EvalSpec ------------------------------
(***************************************************************************)
(* What evaluating an attribute promises, as spec.md sections 3, 4.2 and  *)
(* 8 state it: a pure, recursive function of the tree.                     *)
(*   - a bare name is looked up in the current record, then its parent     *)
(*     chain, then (bare, non-absolute names only) the alternate scope;    *)
(*   - a qualifier that is Undefined or Error propagates; one that is a    *)
(*     record is searched; one that is a list is broadcast: every element  *)
(*     is evaluated in a new isolated context, a record element gets the   *)
(*     reference applied, a list element recurses, and any other literal  *)
(*     is substituted directly;                                            *)
(*   - every dereference spends one unit of the context's budget; a        *)
(*     reference found with no budget left is a hard failure;              *)
(*   - an absolute reference with no root is a hard failure;               *)
(*   - a hard failure of any operand is a hard failure of the whole;       *)
(*   - evaluation never changes the tree, so parentScope stays InitScope.  *)
(* The specification is an evaluator that is idle, accepts a query         *)
(* <<ad, name>>, and eventually answers it with that function's value.     *)
(***************************************************************************)
EXTENDS ClassAdTree

CONSTANTS
  Queries,    \* the <<ad, attribute name>> pairs a client evaluates
  MaxDepth    \* MAX_CLASSAD_RECURSION, the budget of a fresh EvalState

VARIABLES aStatus, aQuery, aResult
avars == <<aStatus, aQuery, aResult>>

Ctx(a) == FreshState(InitScope, a, MaxDepth)

(* Search a record; only bare relative names fall back to the alternate.   *)
Find(a, name, useAlt) ==
  LET r == LookupInScope(InitScope, a, name) IN
  IF useAlt /\ r.rc = "UNDEF" /\ AltScope(a) # NONE
  THEN LookupInScope(InitScope, AltScope(a), name)
  ELSE r

Scalar(v) == v.t \in {"int", "bool", "str"}

RECURSIVE Den(_, _), DenRef(_, _, _, _), DenFn(_, _, _), Deref(_, _)

Den(x, c) ==
  IF IsVal(x) THEN Ok(x.val)
  ELSE LET n == x.node IN
       CASE IsLeaf(n)              -> Ok(LeafValue(n))
         [] Tree[n].kind = "ref"   -> DenRef(QualItem(n), Tree[n].name, Tree[n].abs, c)
         [] Tree[n].kind = "fn"    -> DenFn(Tree[n].fname, Tree[n].args, c)

Deref(r, c) ==
  IF r.rc = "UNDEF" THEN Ok(UndefV)
  ELSE IF c.depth <= 0 THEN Fail
  ELSE Den(NodeItem(r.tree), [cur |-> r.ad, root |-> c.root, depth |-> c.depth - 1])

DenRef(q, name, abs, c) ==
  IF q = NONE
  THEN IF abs /\ c.root = NONE THEN Fail
       ELSE Deref(Find(IF abs THEN c.root ELSE c.cur, name, ~abs), c)
  ELSE LET r == Den(q, c) IN
       CASE ~r.ok                     -> Fail
         [] r.v.t = "undef"           -> Ok(UndefV)
         [] r.v.t = "error"           -> Ok(ErrV)
         [] r.v.t = "ad"              -> Deref(Find(r.v.n, name, FALSE), c)
         [] r.v.t \in {"list", "blist"} ->
              LET items == ListItems(r.v)
                  Elem(i) ==
                    LET e == Den(items[i], Ctx(c.cur)) IN
                    IF e.ok /\ Scalar(e.v) THEN e
                    ELSE DenRef(items[i], name, FALSE, Ctx(c.cur))
                  rs == [i \in 1..Len(items) |-> Elem(i)]
              IN IF \E i \in DOMAIN rs : ~rs[i].ok THEN Fail
                 ELSE IF c.depth <= 0 THEN Fail
                 ELSE Ok(BListV([i \in DOMAIN rs |-> rs[i].v]))
         [] OTHER                     -> Ok(ErrV)

DenFn(f, args, c) ==
  LET A(i) == Den(NodeItem(args[i]), c) IN
  CASE f \notin Registered -> Ok(ErrV)
    [] f \in {"isundefined", "iserror"} ->
         IF Len(args) # 1 THEN Ok(ErrV)
         ELSE IF ~A(1).ok THEN Fail
         ELSE Ok(BoolV(A(1).v.t = IF f = "isundefined" THEN "undef" ELSE "error"))
    [] f = "ifThenElse" ->
         IF Len(args) # 3 THEN Ok(ErrV)
         ELSE LET g == A(1) IN
              CASE ~g.ok                           -> Fail
                [] g.v.t = "undef"                 -> Ok(UndefV)
                [] g.v.t \notin {"bool", "int"}    -> Ok(ErrV)
                [] OTHER ->
                     LET b == IF g.v.t = "bool" THEN g.v.b ELSE g.v.i # 0
                         r == A(IF b THEN 2 ELSE 3)
                     IN IF r.ok THEN r ELSE Fail
    [] f = "eval" ->
         IF Len(args) # 1 THEN Ok(ErrV)
         ELSE LET a == A(1) IN
              CASE ~a.ok                         -> Fail
                [] a.v.t \in {"int", "bool"}     -> Ok(a.v)
                [] a.v.t \in {"undef", "error"}  -> Ok(ErrV)
                [] a.v.t = "str" /\ Parse[a.v.s] = NONE -> Ok(ErrV)
                [] a.v.t = "str" ->
                     LET r == Den(NodeItem(Parse[a.v.s]), Ctx(c.cur)) IN
                     IF r.ok THEN r ELSE Fail

(* The answer to a query: the bare reference `name' evaluated in `ad'.     *)
Answer(q) == Outcome(DenRef(NONE, q[2], FALSE, Ctx(q[1])))

Init ==
  /\ aStatus = "idle"
  /\ aQuery = NONE
  /\ aResult = NONE

Start(q) ==
  /\ aStatus = "idle"
  /\ aStatus' = "busy"
  /\ aQuery' = q
  /\ UNCHANGED aResult

Finish ==
  /\ aStatus = "busy"
  /\ aStatus' = "idle"
  /\ aResult' = Answer(aQuery)
  /\ UNCHANGED aQuery

Next == (\E q \in Queries : Start(q)) \/ Finish

(* Evaluation is a blocking call: once begun it returns.  Finish is the    *)
(* only step out of "busy", so this is weak fairness of Finish.            *)
Terminates == aStatus = "busy" ~> aStatus = "idle"

Spec == Init /\ [][Next]_avars /\ Terminates
=============================================================================
