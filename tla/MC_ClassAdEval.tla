--------------------------- MODULE MC_ClassAdEval ---------------------------
(***************************************************************************)
(* A small record tree for ClassAdEval, covering every path of the         *)
(* evaluator the code has no test for:                                     *)
(*   R = [ A = B; B = A;                        // cycle (spec.md 8)       *)
(*         X = 1; K = D1; D1 = D2; D2 = 7;      // 3 dereferences          *)
(*         J = K;                                // 4: one past the budget  *)
(*         S = [ X = 2; Z = 3; W = Q; Y = .X ]  // alternate scope Alt     *)
(*         T = ifThenElse(isundefined(S.Z), 0, X);                         *)
(*         L = { S, [ X = 4 ] };  M = L.X;  LA = {A}.X;                    *)
(*         N = .X;  E = eval("X");  EB = eval("bad");  EX = eval(X);       *)
(*         EU = eval(Nope);  F = nosuch(A);  G = Nope.X;  H = nosuch().X;  *)
(*         U = X.Y;  V = S.Q;  IU = ifThenElse(Nope, 1, 2);                *)
(*         IS = ifThenElse(S, 1, 2);  IA = ifThenElse(A, 1, 2);            *)
(*         IB = ifThenElse(1, A, 2);  IE = iserror(U);  IF = isundefined(A) ]*)
(*   Alt = [ Q = 5 ]                                                       *)
(* MaxDepth 3 makes K the longest chain that succeeds and J fail.          *)
(***************************************************************************)
EXTENDS ClassAdEval, TLC

Lit(v) == [kind |-> "lit", val |-> v]
Ref(q, a) == [kind |-> "ref", qual |-> q, name |-> a, abs |-> FALSE]
AbsRef(a) == [kind |-> "ref", qual |-> NONE, name |-> a, abs |-> TRUE]
Fn(f, as) == [kind |-> "fn", fname |-> f, args |-> as]
Ad(as, alt) == [kind |-> "ad", attrs |-> as, alt |-> alt]
Lst(es) == [kind |-> "list", elems |-> es]

R == 1
S == 2
AltAd == 3
P == 4

RAttrs ==
  ("A" :> 10) @@ ("B" :> 11) @@ ("X" :> 12) @@ ("K" :> 13) @@
  ("D1" :> 14) @@ ("D2" :> 15) @@ ("J" :> 16) @@ ("S" :> S) @@
  ("T" :> 17) @@ ("L" :> 18) @@ ("M" :> 19) @@ ("LA" :> 20) @@
  ("N" :> 21) @@ ("E" :> 22) @@ ("EB" :> 23) @@ ("EX" :> 24) @@
  ("EU" :> 25) @@ ("F" :> 26) @@ ("G" :> 27) @@ ("H" :> 28) @@
  ("U" :> 29) @@ ("V" :> 30) @@ ("IU" :> 31) @@ ("IS" :> 32) @@
  ("IA" :> 33) @@ ("IB" :> 34) @@ ("IE" :> 35) @@ ("IF" :> 36)

MCTree ==
  (R :> Ad(RAttrs, NONE)) @@
  (S :> Ad(("X" :> 40) @@ ("Z" :> 41) @@ ("W" :> 42) @@ ("Y" :> 43), AltAd)) @@
  (AltAd :> Ad("Q" :> 44, NONE)) @@
  (P :> Ad("X" :> 45, NONE)) @@
  (10 :> Ref(NONE, "B")) @@ (11 :> Ref(NONE, "A")) @@ (12 :> Lit(IntV(1))) @@
  (13 :> Ref(NONE, "D1")) @@ (14 :> Ref(NONE, "D2")) @@ (15 :> Lit(IntV(7))) @@
  (16 :> Ref(NONE, "K")) @@
  (17 :> Fn("ifThenElse", <<50, 51, 52>>)) @@
  (18 :> Lst(<<53, P>>)) @@ (19 :> Ref(54, "X")) @@ (20 :> Ref(55, "X")) @@
  (21 :> AbsRef("X")) @@ (22 :> Fn("eval", <<56>>)) @@ (23 :> Fn("eval", <<57>>)) @@
  (24 :> Fn("eval", <<58>>)) @@ (25 :> Fn("eval", <<59>>)) @@
  (26 :> Fn("nosuch", <<60>>)) @@ (27 :> Ref(61, "X")) @@ (28 :> Ref(62, "X")) @@
  (29 :> Ref(63, "Y")) @@ (30 :> Ref(64, "Q")) @@
  (31 :> Fn("ifThenElse", <<65, 66, 67>>)) @@ (32 :> Fn("ifThenElse", <<68, 66, 67>>)) @@
  (33 :> Fn("ifThenElse", <<69, 66, 67>>)) @@ (34 :> Fn("ifThenElse", <<66, 69, 67>>)) @@
  (35 :> Fn("iserror", <<70>>)) @@ (36 :> Fn("isundefined", <<71>>)) @@
  (40 :> Lit(IntV(2))) @@ (41 :> Lit(IntV(3))) @@ (42 :> Ref(NONE, "Q")) @@
  (43 :> AbsRef("X")) @@ (44 :> Lit(IntV(5))) @@ (45 :> Lit(IntV(4))) @@
  (50 :> Fn("isundefined", <<72>>)) @@ (51 :> Lit(IntV(0))) @@ (52 :> Ref(NONE, "X")) @@
  (53 :> Ref(NONE, "S")) @@ (54 :> Ref(NONE, "L")) @@ (55 :> Lst(<<73>>)) @@
  (56 :> Lit(StrV("X"))) @@ (57 :> Lit(StrV("bad"))) @@ (58 :> Ref(NONE, "X")) @@
  (59 :> Ref(NONE, "Nope")) @@ (60 :> Ref(NONE, "A")) @@ (61 :> Ref(NONE, "Nope")) @@
  (62 :> Fn("nosuch", <<>>)) @@ (63 :> Ref(NONE, "X")) @@ (64 :> Ref(NONE, "S")) @@
  (65 :> Ref(NONE, "Nope")) @@ (66 :> Lit(IntV(1))) @@ (67 :> Lit(IntV(2))) @@
  (68 :> Ref(NONE, "S")) @@ (69 :> Ref(NONE, "A")) @@ (70 :> Ref(NONE, "U")) @@
  (71 :> Ref(NONE, "A")) @@ (72 :> Ref(74, "Z")) @@ (73 :> Ref(NONE, "A")) @@
  (74 :> Ref(NONE, "S")) @@ (75 :> Ref(NONE, "X"))

(* S and the list element [X = 4] sit in R; Alt is a separate record.      *)
MCInitScope == (R :> NONE) @@ (S :> R) @@ (AltAd :> NONE) @@ (P :> R)

(* What ClassAdParser::ParseExpression returns for the strings in the tree *)
MCParse == ("X" :> 75) @@ ("bad" :> NONE)

MCRegistered == {"isundefined", "iserror", "ifThenElse", "eval"}

MCQueries ==
  {<<R, a>> : a \in DOMAIN RAttrs} \cup {<<S, "W">>, <<S, "Q">>, <<S, "Y">>}

-----------------------------------------------------------------------------
(* Scenarios where the code and spec.md part ways.                         *)

(* Five records where the code's answer is not the spec's.  Three lookups  *)
(* find another value:                                                     *)
(*   R  = [ L = { 1, [X = 4] }; M = L.X ]: a scalar element of a broadcast; *)
(*   RA = [ N = .Q ] with alternate scope Alt = [ Q = 5 ]: an absolute name; *)
(*   RP = [ S = [ C = [ V = W ]; W = 1 ]; L = { S }; M = L.C; Q = S.C.V ]: *)
(*        M collects C by pointer and the broadcast re-parents it.         *)
(* and two evaluations reach themselves, so the stack overflows where the  *)
(* spec's budget answers Error:                                            *)
(*   RC = [ L = { [X = M] }; M = L.X ]: through a broadcast, whose tstate  *)
(*        starts with a full budget each time round;                       *)
(*   RE = [ E = eval("E") ]: eval() evaluates in a fresh EvalState.        *)
RA == 6
RP == 60
SP == 61
CP == 62
LookupTree ==
  (R :> Ad(("L" :> 10) @@ ("M" :> 11), NONE)) @@
  (P :> Ad("X" :> 12, NONE)) @@
  (10 :> Lst(<<13, P>>)) @@ (11 :> Ref(14, "X")) @@ (12 :> Lit(IntV(4))) @@
  (13 :> Lit(IntV(1))) @@ (14 :> Ref(NONE, "L")) @@
  (RA :> Ad("N" :> 20, AltAd)) @@ (AltAd :> Ad("Q" :> 21, NONE)) @@
  (20 :> AbsRef("Q")) @@ (21 :> Lit(IntV(5))) @@
  (RP :> Ad(("S" :> SP) @@ ("L" :> 30) @@ ("M" :> 31) @@ ("Q" :> 32), NONE)) @@
  (SP :> Ad(("C" :> CP) @@ ("W" :> 33), NONE)) @@
  (CP :> Ad("V" :> 34, NONE)) @@
  (30 :> Lst(<<35>>)) @@ (31 :> Ref(36, "C")) @@ (32 :> Ref(37, "V")) @@
  (33 :> Lit(IntV(1))) @@ (34 :> Ref(NONE, "W")) @@ (35 :> Ref(NONE, "S")) @@
  (36 :> Ref(NONE, "L")) @@ (37 :> Ref(38, "C")) @@ (38 :> Ref(NONE, "S"))
RC == 70
PC == 71
RE == 76
CycleTree ==
  (RC :> Ad(("L" :> 72) @@ ("M" :> 73), NONE)) @@
  (PC :> Ad("X" :> 74, NONE)) @@
  (72 :> Lst(<<PC>>)) @@ (73 :> Ref(75, "X")) @@ (74 :> Ref(NONE, "M")) @@
  (75 :> Ref(NONE, "L")) @@
  (RE :> Ad("E" :> 77, NONE)) @@
  (77 :> Fn("eval", <<78>>)) @@ (78 :> Lit(StrV("E"))) @@ (79 :> Ref(NONE, "E"))
DivergenceTree == LookupTree @@ CycleTree
DivergenceScope == (R :> NONE) @@ (P :> R) @@ (RA :> NONE) @@ (AltAd :> NONE)
                   @@ (RP :> NONE) @@ (SP :> RP) @@ (CP :> SP)
                   @@ (RC :> NONE) @@ (PC :> RC) @@ (RE :> NONE)
DivergenceParse == "E" :> 79
DivergenceQueries == {<<R, "M">>, <<RA, "N">>, <<RP, "M">>, <<RP, "Q">>,
                      <<RC, "M">>, <<RE, "E">>}

=============================================================================
