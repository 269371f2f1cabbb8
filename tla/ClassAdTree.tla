---------------------------- MODULE ClassAdTree ----------------------------
(***************************************************************************)
(* The expression trees, records (ClassAds) and values of classads-1.0.10  *)
(* as the evaluator in attrrefs.cpp, exprList.cpp and fnCall.cpp sees      *)
(* them, and the scope-chain lookup it relies on.                          *)
(*                                                                         *)
(* A tree is a constant arena Tree : node id -> node record:               *)
(*   [kind |-> "lit",  val  |-> v]                       Literal           *)
(*   [kind |-> "ref",  qual |-> n or NONE, name, abs]    AttributeReference*)
(*   [kind |-> "list", elems |-> <<n, ...>>]             ExprList          *)
(*   [kind |-> "ad",   attrs |-> [name -> n], alt]       ClassAd           *)
(*   [kind |-> "fn",   fname, args |-> <<n, ...>>]       FunctionCall      *)
(* Node ids are integers.  The lexical parent of an ad (its parentScope)   *)
(* is given separately by a scope function, because evaluation can change  *)
(* it (attrrefs.cpp:428).                                                  *)
(***************************************************************************)
EXTENDS Naturals, Sequences

CONSTANTS
  Tree,        \* the node arena
  InitScope,   \* ad node -> parentScope it was built with, or NONE
  Parse,       \* string -> node ClassAdParser returns for it, or NONE
  Registered,  \* names the FunctionCall dispatch table resolves
  NONE,        \* the NULL pointer
  ORPHAN       \* the empty `new ClassAd()' a list broadcast hangs its result on

Nodes == DOMAIN Tree
Ads == {n \in Nodes : Tree[n].kind = "ad"}

(* Values (classad/value.h): a ClassAd or list value is a pointer to a     *)
(* node; "blist" is the ExprList a list broadcast builds, held by value.   *)
UndefV == [t |-> "undef"]
ErrV == [t |-> "error"]
BoolV(b) == [t |-> "bool", b |-> b]
IntV(i) == [t |-> "int", i |-> i]
StrV(s) == [t |-> "str", s |-> s]
AdV(n) == [t |-> "ad", n |-> n]
ListV(n) == [t |-> "list", n |-> n]
BListV(es) == [t |-> "blist", es |-> es]

(* The outcome of a call: the bool it returns and the Value it sets.       *)
Ok(v) == [ok |-> TRUE, v |-> v]
Fail == [ok |-> FALSE, v |-> ErrV]
FailV == [t |-> "fail"]
Outcome(r) == IF r.ok THEN r.v ELSE FailV

(* An operand still to be evaluated: a tree node, or a value already held  *)
(* as a Literal (the elements of a broadcast result).                      *)
NodeItem(n) == [node |-> n]
ValItem(v) == [val |-> v]
IsVal(x) == "val" \in DOMAIN x
QualItem(n) == IF Tree[n].qual = NONE THEN NONE ELSE NodeItem(Tree[n].qual)

(* Literal, ClassAd and ExprList nodes evaluate without recursing.         *)
IsLeaf(n) == Tree[n].kind \in {"lit", "ad", "list"}
LeafValue(n) ==
  CASE Tree[n].kind = "lit"  -> Tree[n].val
    [] Tree[n].kind = "ad"   -> AdV(n)
    [] Tree[n].kind = "list" -> ListV(n)

(* The operands a list value iterates over (ExprListIterator).             *)
ListItems(v) ==
  IF v.t = "list"
  THEN [i \in 1..Len(Tree[v.n].elems) |-> NodeItem(Tree[v.n].elems[i])]
  ELSE [i \in 1..Len(v.es) |-> ValItem(v.es[i])]

Attrs(a) == IF a = ORPHAN THEN [x \in {} |-> NONE] ELSE Tree[a].attrs
AltScope(a) == IF a = ORPHAN THEN NONE ELSE Tree[a].alt
Up(sc, a) == IF a = ORPHAN THEN NONE ELSE sc[a]

(* ClassAd::LookupInScope: search this ad, then its parentScope chain,     *)
(* leaving state.curAd at the last ad visited; stop at NULL or on coming   *)
(* back to the starting ad.                                                *)
RECURSIVE ScopeWalk(_, _, _, _)
ScopeWalk(sc, cur, name, this) ==
  IF name \in DOMAIN Attrs(cur)
  THEN [rc |-> "OK", tree |-> Attrs(cur)[name], ad |-> cur]
  ELSE IF Up(sc, cur) \in {NONE, this}
       THEN [rc |-> "UNDEF", tree |-> NONE, ad |-> cur]
       ELSE ScopeWalk(sc, Up(sc, cur), name, this)

LookupInScope(sc, a, name) == ScopeWalk(sc, a, name, a)

(* EvalState::SetRootScope: the topmost ad of the parentScope chain.       *)
RECURSIVE TopOf(_, _, _)
TopOf(sc, a, start) ==
  IF Up(sc, a) = NONE THEN a
  ELSE IF Up(sc, a) = start THEN NONE
  ELSE TopOf(sc, Up(sc, a), start)

RootOf(sc, a) == IF a = NONE THEN NONE ELSE TopOf(sc, a, a)

(* EvalState tstate; tstate.SetScopes(ad): a fresh context with the full   *)
(* recursion budget.                                                       *)
FreshState(sc, a, budget) ==
  [depth |-> budget, cur |-> a, root |-> RootOf(sc, a)]
=============================================================================
