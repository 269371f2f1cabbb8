---------------------------- MODULE MC_XmlParser ----------------------------
(***************************************************************************)
(* Parses of the XML form of small ClassAds.                               *)
(*                                                                         *)
(* The unparser is not in the repository; Xml below writes the token       *)
(* stream spec.md section 3 describes: a tag for each value variant, <l>   *)
(* for a list, <c> for a ClassAd with an <a n="name"> per attribute.  The  *)
(* lexer skips empty text, so the empty string is <s></s>.  A document may *)
(* carry the prolog and <classads> wrapper of a file of ads.               *)
(***************************************************************************)
EXTENDS XmlParser, FiniteSets

VARIABLES tree,   \* the ClassAd the input was written from
          whole   \* the input is the whole document, not a prefix of it

mcVars == <<toks, pos, stack, ret, tree, whole>>

Ad(f) == [k |-> "ad", attrs |-> f]
Lst(es) == [k |-> "list", es |-> es]
IntL(i) == Lit([t |-> "int", i |-> i])
StrL(s) == Lit([t |-> "str", s |-> s])

Names == <<"a", "b">>

\* The XML unparser (spec.md section 3), as a token sequence.
RECURSIVE Xml(_)
Xml(t) ==
    LET Wrap(id, body) == <<Tag(id, "start", "")>> \o body \o <<Tag(id, "end", "")>>
        TextOf(id, x) == Wrap(id, <<Text(x, id \in {"integer", "real"})>>)
    IN  CASE t.k = "ad" ->
               Wrap("classad", FlattenSeq([i \in 1..Len(SelectSeq(Names, LAMBDA n : n \in DOMAIN t.attrs)) |->
                   LET n == SelectSeq(Names, LAMBDA m : m \in DOMAIN t.attrs)[i]
                   IN  <<Tag("attribute", "start", n)>> \o Xml(t.attrs[n])
                       \o <<Tag("attribute", "end", "")>>]))
          [] t.k = "list" -> Wrap("list", FlattenSeq([i \in 1..Len(t.es) |-> Xml(t.es[i])]))
          [] t.k \in {"abstime", "reltime", "expr"} -> TextOf(t.k, t.x)
          [] t.v.t = "int" -> TextOf("integer", t.v.i)
          [] t.v.t = "real" -> TextOf("real", t.v.r)
          [] t.v.t = "str" /\ t.v.s = "" -> Wrap("string", <<>>)
          [] t.v.t = "str" -> TextOf("string", t.v.s)
          [] t.v.t = "bool" -> <<Tag("bool", "empty", IF t.v.b THEN "t" ELSE "f")>>
          [] t.v.t = "undef" -> <<Tag("undefined", "empty", "")>>
          [] t.v.t = "error" -> <<Tag("error", "empty", "")>>

\* A document holding one ad, bare or in a file of ads.
Docs(t) == {Xml(t),
            <<Tag("xml", "empty", ""), Tag("classads", "start", "")>> \o Xml(t)
            \o <<Tag("classads", "end", "")>>}

Scalars == {IntL(7), StrL(""), StrL("x"), Lit([t |-> "bool", b |-> TRUE]),
            Lit([t |-> "bool", b |-> FALSE]), Lit([t |-> "undef"]),
            Lit([t |-> "error"]), Lit([t |-> "real", r |-> 2]),
            [k |-> "abstime", x |-> "t0"], [k |-> "reltime", x |-> "r0"],
            [k |-> "expr", x |-> "e0"]}
Inner == {IntL(7), StrL(""), Lit([t |-> "undef"]), [k |-> "expr", x |-> "e0"]}
\* An attribute value: a scalar, a list of up to two, an ad of one, and a
\* list and an ad nested two deep.
Values == Scalars
          \cup {Lst(es) : es \in BoundedSeq(Inner, 2)}
          \cup {Ad(f) : f \in {<<>>} \cup {n :> v : n \in {"a"}, v \in Inner}}
          \cup {Lst(<<Lst(<<>>), Ad("a" :> IntL(7))>>), Ad("b" :> Lst(<<StrL("x")>>))}
\* Ads of up to two attributes.
Trees == {Ad(<<>>)} \cup {Ad(n :> v) : n \in {"a", "b"}, v \in Values}
         \cup {Ad(("a" :> v) @@ ("b" :> w)) : v \in Values, w \in {IntL(7), StrL("x")}}

\* A parse reads a whole document, or a document cut short.
Init == \E t \in Trees : \E d \in Docs(t) : \E cut \in 0..Len(d) :
            /\ tree = t
            /\ whole = (cut = Len(d))
            /\ Parse(SubSeq(d, 1, cut))

\* The parse runs, single-threaded, until ParseClassAd returns.
Spec == Init /\ [][Next /\ UNCHANGED <<tree, whole>>]_mcVars
        /\ WF_mcVars(Next /\ UNCHANGED <<tree, whole>>)

\* A document with one stray token: text, an attribute end or empty tag,
\* a document-level tag, or a number tag with no text.
Noise == {Text("x", FALSE), Tag("attribute", "end", ""), Tag("attribute", "empty", "a"),
          Tag("classads", "start", ""), Tag("integer", "start", "")}
Damaged == {Ad("a" :> IntL(7)), Ad("b" :> Lst(<<IntL(7)>>))}
MaxElems == 3
InitDamaged == \E t \in Damaged, n \in Noise : \E i \in 1..Len(Xml(t)) + 1 :
                   /\ tree = t
                   /\ whole = FALSE
                   /\ Parse(InsertAt(Xml(t), i, n))
SpecDamaged == InitDamaged /\ [][Next /\ UNCHANGED <<tree, whole>>]_mcVars
               /\ WF_mcVars(Next /\ UNCHANGED <<tree, whole>>)
\* ParseList may collect elements without end; MaxElems cuts that short.
ListBound == \A i \in 1..Len(stack) : stack[i].f = "list" => Len(stack[i].es) <= MaxElems

-----------------------------------------------------------------------------
(* Properties.                                                             *)

\* Parity (spec.md section 3): ParseClassAd of the XML form of an ad gives
\* back that ad.
RoundTrip == Done /\ whole => Result = tree

\* A tree has no NULL subtree.
RECURSIVE WellFormed(_)
WellFormed(t) ==
    /\ t # NULL
    /\ t.k = "ad" => \A n \in DOMAIN t.attrs : WellFormed(t.attrs[n])
    /\ t.k = "list" => \A i \in 1..Len(t.es) : WellFormed(t.es[i])

\* Whatever the input, ParseClassAd returns, and what it returns is NULL
\* (the input was not a ClassAd) or a tree (spec.md section 3: the
\* parser produces expression trees).
ParseYieldsTree == <>(Done /\ (Result = NULL \/ WellFormed(Result)))

\* Every parse of a document or of a prefix of one returns.
Terminates == <>Done

====
