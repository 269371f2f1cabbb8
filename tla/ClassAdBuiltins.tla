--------------------------- MODULE ClassAdBuiltins ---------------------------
(***************************************************************************)
(* The list, string and conversion builtins of fnCall.cpp as operators.    *)
(*                                                                         *)
(* A builtin receives its argument expressions and evaluates them itself.  *)
(* Here an argument is given by the outcome of that evaluation: a value,   *)
(* or FAIL when Evaluate returns false (a hard failure).  A list value     *)
(* carries the outcomes of its elements, which the builtin evaluates one   *)
(* at a time through ExprListIterator.  A builtin's result is an outcome   *)
(* [ok, v, thrown]: ok is the bool it returns, v the Value it leaves in    *)
(* val, thrown that a C++ exception escaped instead.                       *)
(*                                                                         *)
(* Operation::Operate and the Value conversions are not under src/; they   *)
(* are modelled from spec.md (section 4.1, 4.3, 8) and the ClassAd rules   *)
(* they state: three-valued comparisons, == case-insensitive on strings,   *)
(* 'is' comparing type and value.  A string is a sequence of characters.   *)
(***************************************************************************)
EXTENDS Integers, Sequences, TLC

CONSTANT FAIL

UndefV == [t |-> "undef"]
ErrV == [t |-> "error"]
BoolV(b) == [t |-> "bool", b |-> b]
IntV(i) == [t |-> "int", i |-> i]
\* A real is kept as the fraction n / d with d > 0.
RealV(n, d) == [t |-> "real", n |-> n, d |-> d]
StrV(s) == [t |-> "str", s |-> s]
\* A list value with the outcomes (values or FAIL) of its elements.
ListV(es) == [t |-> "list", es |-> es]

Ok(v) == [ok |-> TRUE, v |-> v, thrown |-> FALSE]
Fail == [ok |-> FALSE, v |-> ErrV, thrown |-> FALSE]
Thrown == [ok |-> FALSE, v |-> ErrV, thrown |-> TRUE]

IsNum(v) == v.t \in {"int", "real"}
Frac(v) == IF v.t = "int" THEN <<v.i, 1>> ELSE <<v.n, v.d>>

-----------------------------------------------------------------------------
(* Characters: the byte code strcmp orders by, and the case mapping of     *)
(* toupper/tolower.                                                        *)

Code == ("0" :> 48) @@ ("1" :> 49) @@ ("2" :> 50) @@ ("-" :> 45) @@
        ("!" :> 33) @@ ("<" :> 60) @@ ("=" :> 61) @@ (">" :> 62) @@
        ("A" :> 65) @@ ("B" :> 66) @@ ("E" :> 69) @@ ("F" :> 70) @@
        ("L" :> 76) @@ ("S" :> 83) @@ ("a" :> 97) @@ ("b" :> 98) @@
        ("e" :> 101) @@ ("f" :> 102) @@ ("i" :> 105) @@ ("l" :> 108) @@
        ("n" :> 110) @@ ("r" :> 114) @@ ("s" :> 115) @@ ("t" :> 116) @@
        ("u" :> 117)
Chars == DOMAIN Code
IsUpper(c) == Code[c] \in 65..90
IsLower(c) == Code[c] \in 97..122
\* The character with a given code, among the modelled ones (else itself).
WithCode(c, k) == IF \E x \in Chars : Code[x] = k
                  THEN CHOOSE x \in Chars : Code[x] = k ELSE c
ToLowerC(c) == IF IsUpper(c) THEN WithCode(c, Code[c] + 32) ELSE c
ToUpperC(c) == IF IsLower(c) THEN WithCode(c, Code[c] - 32) ELSE c

Sign(k) == IF k < 0 THEN -1 ELSE IF k > 0 THEN 1 ELSE 0

\* Variant: division rounding towards minus infinity.
QuotFloor(a, b) == a \div b
AbsQ(a, b) == (IF a < 0 THEN -a ELSE a) \div (IF b < 0 THEN -b ELSE b)
\* C's integer / and %: the quotient truncated towards zero, the remainder
\* with the sign of the dividend.
Quot(a, b) == IF (a < 0) = (b < 0) THEN AbsQ(a, b) ELSE -AbsQ(a, b)
CRem(a, b) == LET r == (IF a < 0 THEN -a ELSE a) % (IF b < 0 THEN -b ELSE b)
              IN  IF a < 0 THEN -r ELSE r

ByteCode(c) == Code[c]
FoldCode(c) == Code[ToLowerC(c)]
\* strcmp, or strcasecmp when fold: the sign of the first difference of
\* the codes, or of the lengths when one string is a prefix of the other.
RECURSIVE CmpBy(_, _, _)
CmpBy(fold, s0, s1) ==
    LET K(c) == IF fold THEN FoldCode(c) ELSE ByteCode(c) IN
    IF s0 = <<>> \/ s1 = <<>> THEN Sign(Len(s0) - Len(s1))
    ELSE IF K(Head(s0)) # K(Head(s1)) THEN Sign(K(Head(s0)) - K(Head(s1)))
    ELSE CmpBy(fold, Tail(s0), Tail(s1))

-----------------------------------------------------------------------------
(* Operation::Operate (spec_modelled).                                     *)

Rel(op, c) ==
    CASE op = "<"  -> c < 0   [] op = "<=" -> c <= 0
      [] op = ">"  -> c > 0   [] op = ">=" -> c >= 0
      [] op = "==" -> c = 0   [] op = "!=" -> c # 0

CmpNum(a, b) == Sign(Frac(a)[1] * Frac(b)[2] - Frac(b)[1] * Frac(a)[2])

\* 'is': same type and same value; strings compared case-sensitively.
MetaEq(a, b) ==
    /\ a.t = b.t
    /\ IF IsNum(a) THEN CmpNum(a, b) = 0 ELSE a = b

Operate(op, a, b) ==
    IF op \in {"is", "isnt"} THEN BoolV(MetaEq(a, b) = (op = "is"))
    ELSE IF a.t = "error" \/ b.t = "error" THEN ErrV
    ELSE IF a.t = "undef" \/ b.t = "undef" THEN UndefV
    ELSE IF op = "+" THEN
        IF a.t = "int" /\ b.t = "int" THEN IntV(a.i + b.i)
        ELSE IF IsNum(a) /\ IsNum(b)
             THEN RealV(Frac(a)[1] * Frac(b)[2] + Frac(b)[1] * Frac(a)[2],
                        Frac(a)[2] * Frac(b)[2])
        ELSE ErrV
    ELSE IF op = "/" THEN
        IF IsNum(a) /\ IsNum(b) /\ Frac(b)[1] # 0
        THEN RealV(Frac(a)[1] * Frac(b)[2], Frac(a)[2] * Frac(b)[1])
        ELSE ErrV
    ELSE IF IsNum(a) /\ IsNum(b) THEN BoolV(Rel(op, CmpNum(a, b)))
    ELSE IF a.t = "str" /\ b.t = "str" THEN BoolV(Rel(op, CmpBy(TRUE, a.s, b.s)))
    ELSE IF a.t = "bool" /\ b.t = "bool" /\ op \in {"==", "!="}
         THEN BoolV(Rel(op, IF a.b = b.b THEN 0 ELSE 1))
    ELSE ErrV

-----------------------------------------------------------------------------
(* Value conversions (spec_modelled).                                      *)

RECURSIVE Digits(_)
Digits(k) == IF k < 10 THEN <<CHOOSE c \in Chars : Code[c] = 48 + k>>
             ELSE Digits(k \div 10) \o Digits(k % 10)
IntText(k) == IF k < 0 THEN <<"-">> \o Digits(-k) ELSE Digits(k)
Word(str) == CASE str = "true" -> <<"t", "r", "u", "e">>
               [] str = "false" -> <<"f", "a", "l", "s", "e">>

\* convertValueToStringValue for the scalar types the models use.
ToStringV(v) ==
    CASE v.t = "str"   -> v
      [] v.t = "int"   -> StrV(IntText(v.i))
      [] v.t = "bool"  -> StrV(Word(IF v.b THEN "true" ELSE "false"))
      [] v.t = "undef" -> UndefV
      [] OTHER         -> ErrV
-----------------------------------------------------------------------------
(* member / identicalmember (testMember).                                  *)

\* Variant: the scan without its early return, leaving the last comparison.
RECURSIVE MemberScanNoBreak(_, _, _)
MemberScanNoBreak(op, es, x) ==
    IF es = <<>> THEN Ok(BoolV(FALSE))
    ELSE IF Head(es) = FAIL THEN Fail
    ELSE IF Tail(es) = <<>> THEN Ok(BoolV(Operate(op, Head(es), x) = BoolV(TRUE)))
    ELSE MemberScanNoBreak(op, Tail(es), x)

\* The scan over the list: a failing element is a hard failure, the first
\* element that compares true ends it with true.
RECURSIVE MemberScan(_, _, _)
MemberScan(op, es, x) ==
    IF es = <<>> THEN Ok(BoolV(FALSE))
    ELSE IF Head(es) = FAIL THEN Fail
    ELSE IF Operate(op, Head(es), x) = BoolV(TRUE) THEN Ok(BoolV(TRUE))
    ELSE MemberScan(op, Tail(es), x)

TestMember(name, args) ==
    LET useIS == name = "identicalmember" IN
    IF Len(args) # 2 THEN Ok(ErrV)
    ELSE IF args[1] = FAIL \/ args[2] = FAIL THEN Fail
    ELSE IF args[2].t = "undef" \/ (~useIS /\ args[1].t = "undef") THEN Ok(UndefV)
    ELSE IF args[2].t # "list" \/ args[1].t \in {"list", "classad"} THEN Ok(ErrV)
    ELSE IF ~useIS /\ args[1].t = "error" THEN Ok(ErrV)
    ELSE MemberScan(IF useIS THEN "is" ELSE "==", args[2].es, args[1])

(* size, sum / avg, min / max.                                             *)

Size(args) ==
    IF Len(args) # 1 THEN Ok(ErrV)
    ELSE IF args[1] = FAIL THEN Fail
    ELSE CASE args[1].t = "undef" -> Ok(UndefV)
           [] args[1].t = "list"  -> Ok(IntV(Len(args[1].es)))
           [] args[1].t = "str"   -> Ok(IntV(Len(args[1].s)))
           [] OTHER               -> Ok(ErrV)

\* Variant: the first element is not counted in len.
RECURSIVE SumLoopSkipFirstLen(_, _, _, _, _)
SumLoopSkipFirstLen(onlySum, es, result, first, len) ==
    IF es = <<>> THEN
        IF onlySum THEN Ok(result)
        ELSE IF len > 0 THEN Ok(Operate("/", result, RealV(len, 1)))
        ELSE Ok(result)
    ELSE IF Head(es) = FAIL THEN Fail
    ELSE IF ~IsNum(Head(es)) THEN Ok(ErrV)
    ELSE SumLoopSkipFirstLen(onlySum, Tail(es),
                 IF first THEN Head(es) ELSE Operate("+", result, Head(es)),
                 FALSE, IF first THEN len ELSE len + 1)

\* The sumAvg loop and what follows it; len counts the elements walked.
RECURSIVE SumLoop(_, _, _, _, _)
SumLoop(onlySum, es, result, first, len) ==
    IF es = <<>> THEN
        IF onlySum THEN Ok(result)
        ELSE IF len > 0 THEN Ok(Operate("/", result, RealV(len, 1)))
        ELSE Ok(result)
    ELSE IF Head(es) = FAIL THEN Fail
    ELSE IF ~IsNum(Head(es)) THEN Ok(ErrV)
    ELSE SumLoop(onlySum, Tail(es),
                 IF first THEN Head(es) ELSE Operate("+", result, Head(es)),
                 FALSE, len + 1)

\* The list argument check shared by sumAvg and minMax: the outcome that
\* ends the call, or Ok of the list itself when the loop is to run.
ListArg(args) ==
    IF Len(args) # 1 THEN Ok(ErrV)
    ELSE IF args[1] = FAIL THEN Fail
    ELSE IF args[1].t = "undef" THEN Ok(UndefV)
    ELSE IF args[1].t # "list" THEN Ok(ErrV)
    ELSE Ok(args[1])

SumAvg(name, args) ==
    LET a == ListArg(args) IN
    IF a.ok /\ a.v.t = "list" THEN SumLoop(name = "sum", a.v.es, UndefV, TRUE, 0)
    ELSE a

RECURSIVE BoundLoop(_, _, _, _)
BoundLoop(op, es, result, first) ==
    IF es = <<>> THEN Ok(result)
    ELSE IF Head(es) = FAIL THEN Fail
    ELSE IF ~IsNum(Head(es)) THEN Ok(ErrV)
    ELSE BoundLoop(op, Tail(es),
                   IF first \/ Operate(op, Head(es), result) = BoolV(TRUE)
                   THEN Head(es) ELSE result,
                   FALSE)

MinMax(fn, args) ==
    LET a == ListArg(args) IN
    IF a.ok /\ a.v.t = "list"
    THEN BoundLoop(IF fn = "min" THEN "<" ELSE ">", a.v.es, UndefV, TRUE)
    ELSE a
(* anycompare / allcompare (listCompare).                                  *)

\* The comparison strings listCompare accepts, and the operator of each.
CompareOps == ("<" :> <<"<">>) @@ ("<=" :> <<"<", "=">>) @@
              ("!=" :> <<"!", "=">>) @@ ("==" :> <<"=", "=">>) @@
              (">" :> <<">">>) @@ (">=" :> <<">", "=">>) @@
              ("is" :> <<"i", "s">>) @@ ("isnt" :> <<"i", "s", "n", "t">>)

\* The walk over the list; val is what the result was initialised to.
RECURSIVE CompareLoop(_, _, _, _, _)
CompareLoop(needAllMatch, op, es, x, val) ==
    IF es = <<>> THEN Ok(BoolV(needAllMatch))
    ELSE IF Head(es) = FAIL THEN Fail
    ELSE LET r == Operate(op, Head(es), x) IN
         IF r.t # "bool" THEN
             IF r.t = "undef" THEN
                 IF needAllMatch THEN Ok(BoolV(FALSE)) ELSE Ok(val)
             ELSE Fail
         ELSE IF r.b /\ ~needAllMatch THEN Ok(BoolV(TRUE))
         ELSE IF ~r.b /\ needAllMatch THEN Ok(BoolV(FALSE))
         ELSE CompareLoop(needAllMatch, op, Tail(es), x, val)

ListCompare(fn, args) ==
    LET needAllMatch == fn # "anycompare" IN
    IF Len(args) # 3 THEN Ok(ErrV)
    ELSE IF args[1] = FAIL THEN Fail
    ELSE IF args[1].t = "undef" THEN Ok(UndefV)
    ELSE IF args[1].t # "str" THEN Ok(ErrV)
    ELSE IF \A o \in DOMAIN CompareOps : CompareOps[o] # args[1].s THEN Ok(ErrV)
    ELSE IF args[2] = FAIL THEN Fail
    ELSE IF args[2].t = "undef" THEN Ok(UndefV)
    ELSE IF args[2].t # "list" THEN Ok(ErrV)
    ELSE IF args[3] = FAIL THEN Fail
    \* the third argument's Undefined test re-tests the list (line 1057)
    ELSE IF args[2].t = "undef" THEN Ok(UndefV)
    ELSE CompareLoop(needAllMatch,
                     CHOOSE o \in DOMAIN CompareOps : CompareOps[o] = args[1].s,
                     args[2].es, args[3], BoolV(needAllMatch))

-----------------------------------------------------------------------------
(* String builtins.                                                        *)

RECURSIVE StrCatLoop(_, _, _)
StrCatLoop(args, i, buf) ==
    IF i > Len(args) THEN Ok(StrV(buf))
    ELSE IF args[i] = FAIL THEN Fail
    ELSE IF args[i].t = "str" THEN StrCatLoop(args, i + 1, buf \o args[i].s)
    ELSE LET sv == ToStringV(args[i]) IN
         CASE sv.t = "undef" -> Ok(UndefV)
           [] sv.t = "str"   -> StrCatLoop(args, i + 1, buf \o sv.s)
           [] OTHER          -> Ok(ErrV)

StrCat(args) == StrCatLoop(args, 1, <<>>)

\* toupper / tolower; the loop's extra step at i = len rewrites the
\* terminating NUL, which both mappings leave as it is.
ChangeCase(name, args) ==
    IF Len(args) # 1 THEN Ok(ErrV)
    ELSE IF args[1] = FAIL THEN Fail
    ELSE LET sv == ToStringV(args[1]) IN
         IF sv.t # "str" THEN Ok(IF sv.t = "undef" THEN UndefV ELSE ErrV)
         ELSE LET lower == name = "tolower"
                  str == sv.s
              IN  Ok(StrV([i \in DOMAIN str |->
                              IF lower THEN ToLowerC(str[i]) ELSE ToUpperC(str[i])]))

\* Variant: without the override for an explicit length of 0.
SubStringNoZeroLen(args) ==
    IF Len(args) < 2 \/ Len(args) > 3 THEN Ok(ErrV)
    ELSE IF \E i \in 1..Len(args) : args[i] = FAIL THEN Fail
    ELSE IF \E i \in 1..Len(args) : args[i].t = "undef" THEN Ok(UndefV)
    ELSE IF args[1].t # "str" \/ args[2].t # "int"
            \/ (Len(args) > 2 /\ args[3].t # "int") THEN Ok(ErrV)
    ELSE LET buf == args[1].s
             alen == Len(buf)
             len0 == IF Len(args) > 2 THEN args[3].i ELSE 0
             offset == IF args[2].i < 0 THEN alen + args[2].i
                       ELSE IF args[2].i >= alen THEN alen ELSE args[2].i
             len == IF len0 <= 0
                    THEN IF alen - offset + len0 < 0 THEN 0 ELSE alen - offset + len0
                    ELSE IF len0 > alen - offset THEN alen - offset ELSE len0
         IN  IF offset < 0 THEN Thrown
             ELSE Ok(StrV(SubSeq(buf, offset + 1, offset + len)))

\* substr: perl-like offset and length, then string::assign, which throws
\* out_of_range when the offset is still negative.
SubString(args) ==
    IF Len(args) < 2 \/ Len(args) > 3 THEN Ok(ErrV)
    ELSE IF \E i \in 1..Len(args) : args[i] = FAIL THEN Fail
    ELSE IF \E i \in 1..Len(args) : args[i].t = "undef" THEN Ok(UndefV)
    ELSE IF args[1].t # "str" \/ args[2].t # "int"
            \/ (Len(args) > 2 /\ args[3].t # "int") THEN Ok(ErrV)
    ELSE LET buf == args[1].s
             alen == Len(buf)
             len0 == IF Len(args) > 2 THEN args[3].i ELSE 0
             offset == IF args[2].i < 0 THEN alen + args[2].i
                       ELSE IF args[2].i >= alen THEN alen ELSE args[2].i
             len1 == IF len0 <= 0
                     THEN IF alen - offset + len0 < 0 THEN 0 ELSE alen - offset + len0
                     ELSE IF len0 > alen - offset THEN alen - offset ELSE len0
             len == IF Len(args) = 3 /\ args[3].i = 0 THEN 0 ELSE len1
         IN  IF offset < 0 THEN Thrown
             ELSE Ok(StrV(SubSeq(buf, offset + 1, offset + len)))

\* Variant: the name test reversed, so strcmp folds case and stricmp not.
CompareStringNameSwapped(name, args) ==
    IF Len(args) # 2 THEN Ok(ErrV)
    ELSE IF args[1] = FAIL \/ args[2] = FAIL THEN Fail
    ELSE IF args[1].t = "undef" \/ args[2].t = "undef" THEN Ok(UndefV)
    ELSE LET s0 == ToStringV(args[1])
             s1 == ToStringV(args[2])
         IN  IF s0.t = "str" /\ s1.t = "str"
             THEN Ok(IntV(IF name # "strcmp" THEN CmpBy(FALSE, s0.s, s1.s)
                          ELSE CmpBy(TRUE, s0.s, s1.s)))
             ELSE Ok(ErrV)

\* strcmp / stricmp: the sign of the byte, or case-folded, comparison.
CompareString(name, args) ==
    IF Len(args) # 2 THEN Ok(ErrV)
    ELSE IF args[1] = FAIL \/ args[2] = FAIL THEN Fail
    ELSE IF args[1].t = "undef" \/ args[2].t = "undef" THEN Ok(UndefV)
    ELSE LET s0 == ToStringV(args[1])
             s1 == ToStringV(args[2])
         IN  IF s0.t = "str" /\ s1.t = "str"
             THEN Ok(IntV(IF name = "strcmp" THEN CmpBy(FALSE, s0.s, s1.s)
                          ELSE CmpBy(TRUE, s0.s, s1.s)))
             ELSE Ok(ErrV)

-----------------------------------------------------------------------------
(* Conversions.                                                            *)

ConvString(args) ==
    IF Len(args) # 1 THEN Ok(ErrV)
    ELSE IF args[1] = FAIL THEN Fail
    ELSE Ok(ToStringV(args[1]))

\* bool(): a string is true only when strcasecmp("false", s) is zero.
ConvBool(args) ==
    IF Len(args) # 1 THEN Ok(ErrV)
    ELSE IF args[1] = FAIL THEN Fail
    ELSE LET a == args[1] IN
         CASE a.t = "undef" -> Ok(UndefV)
           [] a.t \in {"error", "list"} -> Ok(ErrV)
           [] a.t = "bool" -> Ok(a)
           [] a.t = "int"  -> Ok(BoolV(a.i # 0))
           [] a.t = "real" -> Ok(BoolV(a.n # 0))
           [] a.t = "str"  ->
                Ok(BoolV(~(CmpBy(TRUE, Word("false"), a.s) # 0 \/ a.s = <<>>)))
\* convertValueToRealValue and convertValueToIntegerValue for numbers
\* (spec_modelled); a real converts to an integer by truncation.
ToRealV(v) == CASE v.t = "real" -> v
                [] v.t = "int"  -> RealV(v.i, 1)
                [] OTHER        -> ErrV
ToIntV(v) == CASE v.t = "int"  -> v
               [] v.t = "real" -> IntV(Quot(v.n, v.d))
               [] OTHER        -> ErrV

\* int and real: the argument's conversion.
ConvInt(args) == IF Len(args) # 1 THEN Ok(ErrV)
                 ELSE IF args[1] = FAIL THEN Fail ELSE Ok(ToIntV(args[1]))
ConvReal(args) == IF Len(args) # 1 THEN Ok(ErrV)
                  ELSE IF args[1] = FAIL THEN Fail ELSE Ok(ToRealV(args[1]))

-----------------------------------------------------------------------------
(* Math and interval.                                                      *)

\* rint in the default rounding mode: to nearest, ties to even.
Rint(n, d) == LET fl == n \div d
                  twice == 2 * (n - fl * d)
              IN  IF twice < d THEN fl ELSE IF twice > d THEN fl + 1
                  ELSE IF fl % 2 = 0 THEN fl ELSE fl + 1

\* floor / ceil / ceiling / round: an integer is returned as it is.
DoMath(name, args) ==
    IF Len(args) # 1 THEN Ok(ErrV)
    ELSE IF args[1] = FAIL THEN Fail
    ELSE IF args[1].t = "int" THEN Ok(args[1])
    ELSE LET r == ToRealV(args[1]) IN
         IF r.t # "real" THEN Ok(ErrV)
         ELSE CASE name = "floor" -> Ok(IntV(r.n \div r.d))
                [] name \in {"ceil", "ceiling"} -> Ok(IntV(-((-r.n) \div r.d)))
                [] name = "round" -> Ok(IntV(Rint(r.n, r.d)))
                [] OTHER -> Ok(ErrV)

DigitChars == <<"0", "1", "2", "3", "4", "5", "6", "7", "8", "9">>
\* printf %d of a number that is not negative.
RECURSIVE Dec(_)
Dec(k) == IF k < 10 THEN <<DigitChars[k + 1]>> ELSE Dec(k \div 10) \o Dec(k % 10)
\* printf %d and %02d.
PrintD(k) == IF k < 0 THEN <<"-">> \o Dec(-k) ELSE Dec(k)
Print02(k) == IF k < 10 THEN <<"0">> \o Dec(k) ELSE Dec(k)
AbsI(k) == IF k < 0 THEN -k ELSE k

\* interval: days, hours, minutes and seconds by C's / and %, which
\* truncate towards zero, printed as d+hh:mm:ss, h:mm:ss, m:ss or s.
Interval(args) ==
    IF Len(args) # 1 THEN Ok(ErrV)
    ELSE IF args[1] = FAIL THEN Fail
    ELSE IF ToIntV(args[1]).t # "int" THEN Ok(ErrV)
    ELSE LET tot == ToIntV(args[1]).i
             days == Quot(tot, 3600 * 24)
             t1 == CRem(tot, 3600 * 24)
             hours == Quot(t1, 3600)
             t2 == CRem(t1, 3600)
             min == Quot(t2, 60)
             secs == CRem(t2, 60)
         IN  Ok(StrV(
               IF days # 0 THEN PrintD(days) \o <<"+">> \o Print02(AbsI(hours))
                                \o <<":">> \o Print02(AbsI(min)) \o <<":">> \o Print02(AbsI(secs))
               ELSE IF hours # 0 THEN PrintD(hours) \o <<":">> \o Print02(AbsI(min))
                                      \o <<":">> \o Print02(AbsI(secs))
               ELSE IF min # 0 THEN PrintD(min) \o <<":">> \o Print02(AbsI(secs))
               ELSE PrintD(secs)))
====
