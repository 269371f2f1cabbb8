------------------------- MODULE MC_ClassAdBuiltins -------------------------
(***************************************************************************)
(* A client of the ClassAd library: it registers functions of its own and  *)
(* shared libraries in the FunctionTable, before or after it constructs    *)
(* other FunctionCall nodes, then constructs one FunctionCall              *)
(* with MakeFunctionCall and evaluates it, and finally evaluates the same  *)
(* node again with the elements of its list argument reordered.  The call  *)
(* ranges over every call from small sets of argument outcomes, so the     *)
(* properties check the builtins of ClassAdBuiltins as the table           *)
(* dispatches them.                                                        *)
(***************************************************************************)
EXTENDS ClassAdBuiltins, FunctionTable, SequencesExt, FiniteSets

\* The list builtins whose results OrderFree compares.
CONSTANT ListFns

\* Bounds: lists of at most MaxList elements, strings of at most MaxStr.
MaxList == 2
MaxStr == 3

Str(w) == StrV(w)
One == IntV(1)
\* 1.0, kept as 2/2 so that reals are compared by value, not by form.
OneReal == RealV(2, 2)

\* The element outcomes lists are made of, FAIL included.
Elems == {IntV(0), One, IntV(2), OneReal, UndefV, ErrV,
          Str(<<"a">>), BoolV(TRUE), FAIL}
Lists == {ListV(es) : es \in BoundedSeq(Elems, MaxList)}
NumLists == {ListV(es) : es \in BoundedSeq({IntV(0), One, IntV(2), OneReal}, MaxList)}

\* Strings for strcmp over letters that differ in case and in byte order.
CmpWords == BoundedSeq({"F", "f", "a", "B"}, 2)
SubWords == BoundedSeq({"a", "b"}, MaxStr)
Scalars == {One, IntV(2), BoolV(TRUE), UndefV, ErrV, FAIL, Str(<<"a">>),
            Str(Word("false")), Str(<<"F", "a", "l", "s", "e">>), Str(<<>>)}

\* Seconds for interval: each field's edge on both sides of zero, and the
\* ends of a 32-bit int (TLC cannot hold INT_MIN itself).
Seconds == {0, 7, -7, 60, -90, 3599, -3600, 3661, 86399, -86400, 90061,
            -90061, 2147483647, -2147483647}

Calls ==
    {[fn |-> f, args |-> <<l>>] : f \in {"size", "sum", "avg", "min", "max"},
                                  l \in Lists \cup {UndefV, One, FAIL}}
    \cup {[fn |-> f, args |-> <<x, l>>] :
            f \in {"member", "identicalmember"},
            x \in {One, OneReal, UndefV, ErrV, Str(<<"A">>), FAIL},
            l \in Lists \cup {UndefV}}
    \cup {[fn |-> f, args |-> <<Str(o), l, x>>] :
            f \in {"anycompare", "allcompare"},
            o \in {<<"=", "=">>, <<"<">>, <<"i", "s">>, <<"=", "<">>},
            l \in Lists, x \in {One, UndefV, Str(<<"a">>)}}
    \cup {[fn |-> f, args |-> <<a, b>>] :
            f \in {"strcmp", "stricmp"},
            a \in {Str(w) : w \in CmpWords} \cup {One, UndefV, FAIL},
            b \in {Str(w) : w \in CmpWords} \cup {One, ErrV}}
    \cup {[fn |-> "substr", args |-> <<Str(w), IntV(k)>> \o r] :
            w \in SubWords, k \in -(MaxStr + 1)..(MaxStr + 1),
            r \in {<<>>} \cup {<<IntV(n)>> : n \in -(MaxStr + 1)..(MaxStr + 1)}}
    \cup {[fn |-> "strcat", args |-> as] : as \in BoundedSeq(Scalars, 2)}
    \cup {[fn |-> f, args |-> <<a>>] :
            f \in {"toupper", "tolower", "string", "bool"},
            a \in Scalars \cup {Str(<<"a", "B">>)}}
    \cup {[fn |-> f, args |-> <<One>>] : f \in {"myfn", "nosuch"}}
    \cup {[fn |-> f, args |-> <<a>>] :
            f \in {"floor", "ceil", "ceiling", "round", "int", "real"},
            a \in {IntV(-3), RealV(5, 2), RealV(-5, 2), RealV(7, 2), RealV(-3, 4),
                   UndefV, FAIL}}
    \cup {[fn |-> "interval", args |-> <<IntV(t)>>] : t \in Seconds}
    \cup {[fn |-> "interval", args |-> as] :
            as \in {<<RealV(-181, 2)>>, <<UndefV>>, <<FAIL>>, <<>>, <<One, One>>}}

\* What the client registers: a name of a builtin and a name of its own.
UserNames == {"member", "myfn"}
UserFns == {"userA", "userB"}
Pair(n, f) == [name |-> n, fn |-> f]
\* Libraries: no path, dlopen fails, no Init, Init returns NULL, and two
\* tables, one with a NULL function before its last pair.
Lib(p, o, i, fs) == [path |-> p, opens |-> o, hasInit |-> i, functions |-> fs]
Libs == {Lib(FALSE, FALSE, FALSE, NULLFN), Lib(TRUE, FALSE, FALSE, NULLFN),
         Lib(TRUE, TRUE, FALSE, NULLFN), Lib(TRUE, TRUE, TRUE, NULLFN),
         Lib(TRUE, TRUE, TRUE, <<Pair("myfn", "userB"), Pair("member", "userA")>>),
         Lib(TRUE, TRUE, TRUE, <<Pair("mylib", "userA"), Pair("myfn", NULLFN),
                                 Pair("other", "userB")>>)}

\* FunctionCall::_Evaluate: the bound function, called with the name the
\* node was made with, or Error when the node is bound to NULL.  A user
\* function answers a value that names it.
Dispatch(f, c) ==
    LET n == c.fn
        as == c.args
    IN  CASE f = NULLFN -> Ok(ErrV)
          [] f \in UserFns -> Ok([t |-> "user", f |-> f])
          [] f = "testMember" -> TestMember(n, as)
          [] f = "size" -> Size(as)
          [] f = "sumAvg" -> SumAvg(n, as)
          [] f = "minMax" -> MinMax(n, as)
          [] f = "listCompare" -> ListCompare(n, as)
          [] f = "strCat" -> StrCat(as)
          [] f = "changeCase" -> ChangeCase(n, as)
          [] f = "subString" -> SubString(as)
          [] f = "compareString" -> CompareString(n, as)
          [] f = "convString" -> ConvString(as)
          [] f = "convBool" -> ConvBool(as)
          [] f = "convInt" -> ConvInt(as)
          [] f = "convReal" -> ConvReal(as)
          [] f = "doMath" -> DoMath(n, as)
          [] f = "interval" -> Interval(as)

\* Which argument of a list builtin is the list.
ListPos(f) == IF f \in {"size", "sum", "avg", "min", "max"} THEN 1 ELSE 2
HasList(c) == ListPos(c.fn) <= Len(c.args)
              /\ c.args[ListPos(c.fn)] # FAIL
              /\ c.args[ListPos(c.fn)].t = "list"
ListOf(c) == c.args[ListPos(c.fn)].es

\* call: the node constructed, or NONE before; bound: the function it was
\* bound to; out: the result of evaluating it; prev: the node and result
\* before its list argument was reordered, or NONE.
VARIABLES call, bound, out, prev

vars == <<table, initialized, errno, loaded, call, bound, out, prev>>

NONE == [t |-> "none"]

Init == /\ FTInit
        /\ call = NONE
        /\ bound = NULLFN
        /\ out = NONE
        /\ prev = NONE

\* Before it builds its expression, the client registers functions.
RegisterUser ==
    /\ call = NONE
    /\ \E n \in UserNames, f \in UserFns : Register(n, f)
    /\ UNCHANGED <<call, bound, out, prev>>

LoadLibrary ==
    /\ call = NONE
    /\ \E lib \in Libs : RegisterSharedLibrary(lib)
    /\ UNCHANGED <<call, bound, out, prev>>

\* The client builds some other expression first, constructing a
\* FunctionCall node that is not the one checked.
ConstructOther ==
    /\ call = NONE
    /\ Construct
    /\ UNCHANGED <<call, bound, out, prev>>

\* MakeFunctionCall and the evaluation of the node it returns.
Call ==
    /\ call = NONE
    /\ Construct
    /\ \E c \in Calls :
         /\ call' = c
         /\ bound' = Bound(CtorTable, c.fn)
         /\ out' = Dispatch(Bound(CtorTable, c.fn), c)
    /\ UNCHANGED prev

\* Evaluate the node once more on a reordering of its list argument.
Permute ==
    /\ call # NONE
    /\ prev = NONE
    /\ HasList(call)
    /\ \E p \in Permutations(DOMAIN ListOf(call)) \ {[i \in DOMAIN ListOf(call) |-> i]} :
         LET c == [call EXCEPT !.args[ListPos(call.fn)].es =
                                 [i \in DOMAIN ListOf(call) |-> ListOf(call)[p[i]]]]
         IN  /\ call' = c
             /\ out' = Dispatch(bound, c)
             /\ prev' = [call |-> call, out |-> out]
    /\ UNCHANGED <<table, initialized, errno, loaded, bound>>

Next == RegisterUser \/ LoadLibrary \/ ConstructOther \/ Call \/ Permute

Spec == Init /\ [][Next]_vars

-----------------------------------------------------------------------------
(* Properties.                                                             *)

SameVal(a, b) == IF IsNum(a) /\ IsNum(b) THEN CmpNum(a, b) = 0 ELSE a = b
Same(o1, o2) == o1.ok = o2.ok /\ o1.thrown = o2.thrown /\ SameVal(o1.v, o2.v)

\* The elements of a call's list all evaluate, to values other than Error,
\* and, for anycompare and allcompare, compare to the third argument with
\* a result other than Error.  (Which of an Undefined and an Error comes
\* first is allowed to decide the result, as it does for && and ||.)
NoErrors(c) ==
    \A i \in DOMAIN ListOf(c) :
        LET e == ListOf(c)[i] IN
        /\ e # FAIL
        /\ e.t # "error"
        /\ \A o \in DOMAIN CompareOps :
               c.fn \in {"anycompare", "allcompare"} /\ CompareOps[o] = c.args[1].s
                   => Operate(o, e, c.args[3]).t # "error"

\* A list builtin treats its argument as a collection: calling member,
\* identicalmember, size, sum, avg, min, max, anycompare or allcompare on a
\* reordering of a list gives the same result, when no element or
\* comparison is an Error (the early returns of the testMember and
\* listCompare scans must not make the answer depend on which element
\* comes first).
OrderFree ==
    prev # NONE /\ call.fn \in ListFns /\ NoErrors(prev.call)
        => Same(prev.out, out)

\* The exact value n/d of the sum of a list of numbers.
SumFrac(es) == FoldLeft(LAMBDA acc, e : <<acc[1] * Frac(e)[2] + Frac(e)[1] * acc[2],
                                          acc[2] * Frac(e)[2]>>, <<0, 1>>, es)
HasValue(v, f) == IsNum(v) /\ Frac(v)[1] * f[2] = f[1] * Frac(v)[2]

\* sum, avg, min and max of a list of numbers agree with their definitions:
\* the sum is the exact sum, an integer only when every element is one;
\* avg is that sum divided by the length, as a real; min and max return an
\* element bounding all the others; an empty list gives Undefined.  This
\* is the first-element handling, running sum and length count of sumAvg
\* and the running bound of minMax.
AggregatesMatchFold ==
    call # NONE /\ call.fn \in {"sum", "avg", "min", "max"} /\ call.args[1] \in NumLists =>
        LET es == ListOf(call)
            n == Len(es)
            S == SumFrac(es)
        IN  /\ out.ok
            /\ n = 0 => out.v = UndefV
            /\ n > 0 =>
               CASE call.fn = "sum" ->
                      /\ HasValue(out.v, S)
                      /\ (out.v.t = "int") = \A i \in 1..n : es[i].t = "int"
                 [] call.fn = "avg" ->
                      out.v.t = "real" /\ HasValue(out.v, <<S[1], S[2] * n>>)
                 [] call.fn = "min" ->
                      out.v \in ToSet(es) /\ \A i \in 1..n : CmpNum(out.v, es[i]) <= 0
                 [] call.fn = "max" ->
                      out.v \in ToSet(es) /\ \A i \in 1..n : CmpNum(out.v, es[i]) >= 0

\* s comes before t in lexicographic order of the character codes K.
LexBefore(K(_), s, t) ==
    \E k \in 0..Len(s) :
        /\ \A j \in 1..k : j <= Len(t) /\ K(s[j]) = K(t[j])
        /\ \/ k = Len(s) /\ k < Len(t)
           \/ k < Len(s) /\ k < Len(t) /\ K(s[k + 1]) < K(t[k + 1])
LexSign(K(_), s, t) ==
    IF LexBefore(K, s, t) THEN -1 ELSE IF LexBefore(K, t, s) THEN 1 ELSE 0

\* strcmp and stricmp of two strings (or of values that convert to
\* strings) return -1, 0 or 1 as the first string comes before, equals or
\* comes after the second in byte order, resp. in byte order of the
\* lower-cased strings (spec section 8: strcmp("Foo","foo") is nonzero,
\* stricmp("Foo","foo") is 0).
StrCmpMatchesSpec ==
    /\ call # NONE
    /\ call.fn \in {"strcmp", "stricmp"}
    /\ \A i \in 1..2 : call.args[i] # FAIL /\ ToStringV(call.args[i]).t = "str"
    => 
        LET s == ToStringV(call.args[1]).s
            t == ToStringV(call.args[2]).s
        IN  out = Ok(IntV(IF call.fn = "strcmp" THEN LexSign(ByteCode, s, t)
                          ELSE LexSign(FoldCode, s, t)))

\* substr(s, offset[, length]) returns the perl substring: a negative
\* offset counts from the end, an offset past the end gives "", a
\* positive length is cut at the end, a negative one leaves that many
\* characters off the end, and an explicit length 0 gives "".  Offsets
\* before the start of the string are left out (see the hazard at
\* fnCall.cpp:1715).
SubstrMatchesSpec ==
    call # NONE /\ call.fn = "substr" /\ call.args[2].i >= -Len(call.args[1].s) =>
        LET s == call.args[1].s
            n == Len(s)
            k == call.args[2].i
            start == IF k < 0 THEN n + k ELSE IF k < n THEN k ELSE n
            stop == IF Len(call.args) = 2 THEN n
                    ELSE LET l == call.args[3].i IN
                         IF l >= 0 THEN IF start + l < n THEN start + l ELSE n
                         ELSE IF n + l > start THEN n + l ELSE start
        IN  out = Ok(StrV(SubSeq(s, start + 1, stop)))
\* interval(t) prints the magnitude of t as d+hh:mm:ss, h:mm:ss, m:ss or s,
\* with one leading minus when t is negative, so that it reads back as t.
\* The fields come from C's / and %, which truncate towards zero on a
\* negative t (fnCall.cpp:2291-2296).
IntervalMatchesSpec ==
    call # NONE /\ call.fn = "interval" /\ Len(call.args) = 1
    /\ call.args[1] # FAIL /\ call.args[1].t \in {"int", "real"} =>
        LET t == ToIntV(call.args[1]).i
            a == AbsI(t)
            d == a \div 86400
            h == (a % 86400) \div 3600
            m == (a % 3600) \div 60
            sec == a % 60
            body == IF d > 0 THEN Dec(d) \o <<"+">> \o Print02(h) \o <<":">>
                                 \o Print02(m) \o <<":">> \o Print02(sec)
                    ELSE IF h > 0 THEN Dec(h) \o <<":">> \o Print02(m) \o <<":">> \o Print02(sec)
                    ELSE IF m > 0 THEN Dec(m) \o <<":">> \o Print02(sec)
                    ELSE Dec(sec)
        IN  out = Ok(StrV((IF t < 0 THEN <<"-">> ELSE <<>>) \o body))

\* RegisterSharedLibraryFunctions reports what it did: when it returns
\* true, every name of the library's table up to its first NULL function
\* is in the function table; when it returns false, CondorErrno says the
\* library could not be loaded.
LibraryLoadReported ==
    loaded.success \/ errno # "none" =>
        IF loaded.success
        THEN LET fs == loaded.functions IN
             \A i \in DOMAIN fs :
                 (\A j \in 1..i : fs[j].fn # NULLFN) => fs[i].name \in DOMAIN table
        ELSE errno = "ERR_CANT_LOAD_DYNAMIC_LIBRARY"
====
