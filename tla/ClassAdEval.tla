----------------------------- MODULE ClassAdEval -----------------------------
(***************************************************************************)
(* The evaluator of classads-1.0.10 as the code runs it: a depth-first     *)
(* walk of C++ calls that share a mutable EvalState.  Each call in         *)
(* progress is a frame on `stack'; the EvalStates alive on the C++ stack   *)
(* are `states' (the caller's `state', a broadcast's `tstate', the one     *)
(* ExprTree::Evaluate(Value&) makes for eval()).  A frame returns by       *)
(* popping itself and leaving its <<bool, Value>> in `ret'.                *)
(*   "ref" frame: AttributeReference::_Evaluate with FindExpr inlined      *)
(*                (attrrefs.cpp:153-199, 349-445);                         *)
(*   "fn"  frame: FunctionCall::_Evaluate and the builtins isType,         *)
(*                ifThenElse and eval (fnCall.cpp:421-430, 532-575,        *)
(*                2145-2264).                                              *)
(* Literal, ClassAd and ExprList nodes evaluate in the caller's step       *)
(* (ExprList::_Evaluate, exprList.cpp:229-241, just sets a list value).    *)
(* A client evaluates one query <<ad, name>> at a time.                    *)
(***************************************************************************)
EXTENDS ClassAdTree, FiniteSets

CONSTANTS
  Queries,    \* the <<ad, attribute name>> pairs a client evaluates
  MaxDepth,   \* MAX_CLASSAD_RECURSION
  MaxStack,   \* frames the C++ stack holds before the process crashes
  Watched     \* the queries whose answers the history keeps

ASSUME MaxDepth \in Nat /\ MaxStack \in Nat \ {0} /\ Watched \subseteq Queries

VARIABLES
  status,    \* "idle", "busy", or "overflow" (the stack blew up)
  query,     \* the query being (or last) evaluated
  stack,     \* the calls in progress, innermost last
  states,    \* the EvalStates alive, innermost last
  ret,       \* what the call that just returned gave back
  scope,     \* ad -> parentScope, which evaluation can overwrite
  last,      \* the outcome of the last finished query
  results    \* history: the first outcome of each watched query

vars == <<status, query, stack, states, ret, scope, last, results>>

Arity == [isundefined |-> 1, iserror |-> 1, ifThenElse |-> 3, eval |-> 1]

RefFrame(q, name, abs, s) ==
  [k |-> "ref", st |-> s, pc |-> "find", qual |-> q, name |-> name,
   abs |-> abs, save |-> NONE, base |-> NONE, items |-> <<>>, acc |-> <<>>]

FnFrame(n, s) ==
  [k |-> "fn", st |-> s, pc |-> "start", fname |-> Tree[n].fname,
   args |-> Tree[n].args]

NodeFrame(n, s) ==
  IF Tree[n].kind = "ref"
  THEN RefFrame(QualItem(n), Tree[n].name, Tree[n].abs, s)
  ELSE FnFrame(n, s)

Top == stack[Len(stack)]
Cur == states[Top.st]
Pop(s) == SubSeq(s, 1, Len(s) - 1)

(* The running frame becomes `caller' and pushes `fr'; past MaxStack the   *)
(* process dies.                                                           *)
Push(caller, fr) ==
  IF Len(stack) >= MaxStack
  THEN /\ status' = "overflow"
       /\ UNCHANGED <<stack, ret>>
  ELSE /\ stack' = Append([stack EXCEPT ![Len(stack)] = caller], fr)
       /\ UNCHANGED <<status, ret>>

(* x->Evaluate(state, val): a leaf answers at once, anything else is a     *)
(* nested call.                                                            *)
Call(caller, x, s) ==
  IF IsVal(x) \/ IsLeaf(x.node)
  THEN /\ stack' = [stack EXCEPT ![Len(stack)] = caller]
       /\ ret' = Ok(IF IsVal(x) THEN x.val ELSE LeafValue(x.node))
       /\ UNCHANGED status
  ELSE Push(caller, NodeFrame(x.node, s))

SetTop(f) ==
  /\ stack' = [stack EXCEPT ![Len(stack)] = f]
  /\ UNCHANGED <<status, ret>>

Return(r) ==
  /\ stack' = Pop(stack)
  /\ ret' = r
  /\ UNCHANGED status

(* `state.curAd = curAd; return ...' *)
RestoreReturn(r) ==
  /\ states' = [states EXCEPT ![Top.st].cur = Top.save]
  /\ Return(r)

Running(k, pc) ==
  /\ status = "busy"
  /\ stack # <<>>
  /\ Top.k = k
  /\ Top.pc = pc

-----------------------------------------------------------------------------
(* AttributeReference::_Evaluate: save curAd, then FindExpr finds the      *)
(* search base: root or curAd for "attr"/".attr" (absolute with no root    *)
(* fails), else the qualifier is evaluated in the same state.              *)
RefFind ==
  LET f == Top IN
  /\ Running("ref", "find")
  /\ IF f.qual = NONE
     THEN IF f.abs /\ Cur.root = NONE
          THEN Return(Fail)
          ELSE SetTop([f EXCEPT !.pc = "lookup", !.save = Cur.cur,
                                !.base = IF f.abs THEN Cur.root ELSE Cur.cur])
     ELSE Call([f EXCEPT !.pc = "qual", !.save = Cur.cur], f.qual, f.st)
  /\ UNCHANGED <<states, scope, query, last, results>>

(* FindExpr on the qualifier's value: failure is EVAL_FAIL (returned       *)
(* without restoring curAd), Undefined/Error propagate, a ClassAd is       *)
(* searched, a list is broadcast, anything else is EVAL_ERROR.             *)
RefQual ==
  /\ Running("ref", "qual")
  /\ CASE ~ret.ok ->
            Return(Fail) /\ UNCHANGED states
       [] ret.v.t = "undef" -> RestoreReturn(Ok(UndefV))
       [] ret.v.t = "error" -> RestoreReturn(Ok(ErrV))
       [] ret.v.t = "ad" ->
            SetTop([Top EXCEPT !.pc = "lookup", !.base = ret.v.n])
            /\ UNCHANGED states
       [] ret.v.t \in {"list", "blist"} ->
            SetTop([Top EXCEPT !.pc = "bcast", !.items = ListItems(ret.v)])
            /\ UNCHANGED states
       [] OTHER -> RestoreReturn(Ok(ErrV))
  /\ UNCHANGED <<scope, query, last, results>>

(* Mutation of RefLookup: the depth check written `< 0', so one more      *)
(* dereference than the budget is made.                                    *)
RefLookupDepthOffByOne ==
  LET f == Top
      r0 == LookupInScope(scope, f.base, f.name)
      r == IF f.qual = NONE /\ r0.rc = "UNDEF" /\ AltScope(f.base) # NONE
           THEN LookupInScope(scope, AltScope(f.base), f.name)
           ELSE r0
  IN
  /\ Running("ref", "lookup")
  /\ CASE r.rc = "UNDEF" -> RestoreReturn(Ok(UndefV))
       [] Cur.depth < 0 -> RestoreReturn(Fail)
       [] OTHER ->
            /\ states' = [states EXCEPT ![f.st].depth = @ - 1,
                                        ![f.st].cur = r.ad]
            /\ Call([f EXCEPT !.pc = "ret"], NodeItem(r.tree), f.st)
  /\ UNCHANGED <<scope, query, last, results>>

(* current->LookupInScope, then the alternate scope when `!expr' (no       *)
(* qualifier, absolute or not) and the name was not found; then the        *)
(* _Evaluate switch: Undefined, or the depth check and the dereference     *)
(* with depth_remaining-- and curAd left where the name was found.         *)
RefLookup ==
  LET f == Top
      r0 == LookupInScope(scope, f.base, f.name)
      r == IF f.qual = NONE /\ r0.rc = "UNDEF" /\ AltScope(f.base) # NONE
           THEN LookupInScope(scope, AltScope(f.base), f.name)
           ELSE r0
  IN
  /\ Running("ref", "lookup")
  /\ CASE r.rc = "UNDEF" -> RestoreReturn(Ok(UndefV))
       [] Cur.depth <= 0 -> RestoreReturn(Fail)
       [] OTHER ->
            /\ states' = [states EXCEPT ![f.st].depth = @ - 1,
                                        ![f.st].cur = r.ad]
            /\ Call([f EXCEPT !.pc = "ret"], NodeItem(r.tree), f.st)
  /\ UNCHANGED <<scope, query, last, results>>

(* Mutation of RefRet: `state.curAd = curAd' left out after the           *)
(* dereference.                                                            *)
RefRetKeepsCurAd ==
  /\ Running("ref", "ret")
  /\ states' = [states EXCEPT ![Top.st].depth = @ + 1]
  /\ Return(ret)
  /\ UNCHANGED <<scope, query, last, results>>

(* After tree->Evaluate: depth_remaining++, curAd restored, rval passed on *)
RefRet ==
  /\ Running("ref", "ret")
  /\ states' = [states EXCEPT ![Top.st].depth = @ + 1,
                              ![Top.st].cur = Top.save]
  /\ Return(ret)
  /\ UNCHANGED <<scope, query, last, results>>

(* The list broadcast loop (attrrefs.cpp:384-430).  Each element gets      *)
(* `Copy().attr' evaluated in a new `EvalState tstate' scoped at the       *)
(* outer curAd with a full budget; a hard failure is EVAL_FAIL.  When the  *)
(* list is done, the collected values become an ExprList whose parent is   *)
(* set to `new ClassAd()' -- which re-parents every ClassAd collected by   *)
(* pointer -- and the EVAL_OK branch of _Evaluate dereferences it.         *)
RefBcast ==
  LET f == Top IN
  /\ Running("ref", "bcast")
  /\ IF f.items = <<>>
     THEN /\ scope' = [a \in DOMAIN scope |->
                         IF \E i \in DOMAIN f.acc : f.acc[i] = AdV(a)
                         THEN ORPHAN ELSE scope[a]]
          /\ IF Cur.depth <= 0
             THEN RestoreReturn(Fail)
             ELSE RestoreReturn(Ok(BListV(f.acc)))
     ELSE /\ states' = Append(states, FreshState(scope, Cur.cur, MaxDepth))
          /\ Push([f EXCEPT !.pc = "bret"],
                  RefFrame(Head(f.items), f.name, FALSE, Len(states) + 1))
          /\ UNCHANGED scope
  /\ UNCHANGED <<query, last, results>>

(* `delete attrRef', tstate goes out of scope; a failure aborts the loop,  *)
(* anything else is pushed (a ClassAd by pointer, a list as a copy, the    *)
(* rest as a Literal).                                                     *)
RefBret ==
  LET f == Top IN
  /\ Running("ref", "bret")
  /\ IF ~ret.ok
     THEN Return(Fail) /\ states' = Pop(states)
     ELSE SetTop([f EXCEPT !.pc = "bcast", !.items = Tail(@),
                           !.acc = Append(@, ret.v)])
          /\ states' = Pop(states)
  /\ UNCHANGED <<scope, query, last, results>>

-----------------------------------------------------------------------------
(* FunctionCall::_Evaluate: a name the table did not resolve at            *)
(* construction evaluates to Error without touching its arguments; a       *)
(* builtin with the wrong number of arguments is Error; otherwise the      *)
(* first argument is evaluated in the caller's state.                      *)
FnStart ==
  LET f == Top IN
  /\ Running("fn", "start")
  /\ CASE f.fname \notin Registered -> Return(Ok(ErrV))
       [] Len(f.args) # Arity[f.fname] -> Return(Ok(ErrV))
       [] OTHER -> Call([f EXCEPT !.pc = "arg"], NodeItem(f.args[1]), f.st)
  /\ UNCHANGED <<states, scope, query, last, results>>

(* isType for "isundefined" and "iserror".                                 *)
FnIsType ==
  /\ Running("fn", "arg")
  /\ Top.fname \in {"isundefined", "iserror"}
  /\ IF ~ret.ok THEN Return(Fail)
     ELSE Return(Ok(BoolV(ret.v.t = IF Top.fname = "isundefined"
                                    THEN "undef" ELSE "error")))
  /\ UNCHANGED <<states, scope, query, last, results>>

(* ifThenElse: the condition's type picks Undefined, Error or a branch,    *)
(* which is evaluated in the same state.                                   *)
FnIfCond ==
  LET f == Top IN
  /\ Running("fn", "arg")
  /\ f.fname = "ifThenElse"
  /\ CASE ~ret.ok -> Return(Fail)
       [] ret.v.t = "undef" -> Return(Ok(UndefV))
       [] ret.v.t \notin {"bool", "int"} -> Return(Ok(ErrV))
       [] OTHER ->
            LET b == IF ret.v.t = "bool" THEN ret.v.b ELSE ret.v.i # 0 IN
            Call([f EXCEPT !.pc = "branch"],
                 NodeItem(f.args[IF b THEN 2 ELSE 3]), f.st)
  /\ UNCHANGED <<states, scope, query, last, results>>

FnIfBranch ==
  /\ Running("fn", "branch")
  /\ Return(IF ret.ok THEN ret ELSE Fail)
  /\ UNCHANGED <<states, scope, query, last, results>>

(* eval: the argument is printed to a string (an integer or boolean reads  *)
(* back as the same literal), parsed, given curAd as parentScope, and      *)
(* evaluated by ExprTree::Evaluate(Value&), i.e. in a new EvalState with a *)
(* full budget.  ClassAd and list arguments are outside the model.         *)
FnEvalArg ==
  LET f == Top IN
  /\ Running("fn", "arg")
  /\ f.fname = "eval"
  /\ ~ret.ok \/ ret.v.t \in {"int", "bool", "undef", "error", "str"}
  /\ CASE ~ret.ok -> Return(Fail) /\ UNCHANGED states
       [] ret.v.t \in {"int", "bool"} -> Return(Ok(ret.v)) /\ UNCHANGED states
       [] ret.v.t \in {"undef", "error"} -> Return(Ok(ErrV)) /\ UNCHANGED states
       [] Parse[ret.v.s] = NONE -> Return(Ok(ErrV)) /\ UNCHANGED states
       [] OTHER ->
            /\ states' = Append(states, FreshState(scope, Cur.cur, MaxDepth))
            /\ Call([f EXCEPT !.pc = "evalret"], NodeItem(Parse[ret.v.s]),
                    Len(states) + 1)
  /\ UNCHANGED <<scope, query, last, results>>

(* `delete expr'; the fresh EvalState is gone.                             *)
FnEvalRet ==
  /\ Running("fn", "evalret")
  /\ states' = Pop(states)
  /\ Return(IF ret.ok THEN ret ELSE Fail)
  /\ UNCHANGED <<scope, query, last, results>>

-----------------------------------------------------------------------------
(* The client: `attr' evaluated in `ad' (EvalState state;                  *)
(* state.SetScopes(ad)), then the answer read.                             *)
Begin(q) ==
  /\ status = "idle"
  /\ status' = "busy"
  /\ query' = q
  /\ states' = <<FreshState(scope, q[1], MaxDepth)>>
  /\ stack' = <<RefFrame(NONE, q[2], FALSE, 1)>>
  /\ ret' = NONE
  /\ UNCHANGED <<scope, last, results>>

Finish ==
  /\ status = "busy"
  /\ stack = <<>>
  /\ status' = "idle"
  /\ last' = Outcome(ret)
  /\ results' = IF query \in Watched /\ results[query] = NONE
                THEN [results EXCEPT ![query] = Outcome(ret)]
                ELSE results
  /\ states' = <<>>
  /\ UNCHANGED <<query, stack, ret, scope>>

Init ==
  /\ status = "idle"
  /\ query = NONE
  /\ stack = <<>>
  /\ states = <<>>
  /\ ret = NONE
  /\ scope = InitScope
  /\ last = NONE
  /\ results = [q \in Watched |-> NONE]

Step ==
  \/ RefFind \/ RefQual \/ RefLookup \/ RefRet \/ RefBcast \/ RefBret
  \/ FnStart \/ FnIsType \/ FnIfCond \/ FnIfBranch \/ FnEvalArg \/ FnEvalRet

Next == (\E q \in Queries : Begin(q)) \/ Step \/ Finish

(* One thread runs a blocking evaluation to its end; the client may stop   *)
(* asking.                                                                 *)
Spec == Init /\ [][Next]_vars /\ WF_vars(Step \/ Finish)

-----------------------------------------------------------------------------
(* Every variable has its type; in particular depth_remaining stays within *)
(* 0..MAX_CLASSAD_RECURSION in every live EvalState and every frame's      *)
(* state is alive.                                                         *)
TypeOK ==
  /\ status \in {"idle", "busy", "overflow"}
  /\ query \in Queries \cup {NONE}
  /\ states \in Seq([depth : 0..MaxDepth,
                     cur : Ads \cup {ORPHAN, NONE},
                     root : Ads \cup {ORPHAN, NONE}])
  /\ Len(stack) <= MaxStack
  /\ \A i \in DOMAIN stack : stack[i].k \in {"ref", "fn"}
                              /\ stack[i].st \in 1..Len(states)
  /\ scope \in [Ads -> Ads \cup {NONE, ORPHAN}]

(* spec.md 3: evaluation does not mutate the tree, so evaluating the same  *)
(* attribute again gives the same answer as the first time.               *)
Deterministic ==
  status = "idle" /\ query \in Watched => last = results[query]

(* The evaluator implements EvalSpec: under the mapping below, every       *)
(* answer is the spec's recursive semantics of the query on the unchanged  *)
(* tree, and every evaluation finishes (a crash leaves it busy forever).   *)
Abstract == INSTANCE EvalSpec WITH
  aStatus <- IF status = "idle" THEN "idle" ELSE "busy",
  aQuery <- query,
  aResult <- last

Refines == Abstract!Spec
=============================================================================
