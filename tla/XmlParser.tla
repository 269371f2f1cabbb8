------------------------------ MODULE XmlParser ------------------------------
(***************************************************************************)
(* ClassAdXMLParser (xmlSource.cpp): a recursive-descent reader of the     *)
(* XML form of a ClassAd over the token stream of an XMLLexer.            *)
(*                                                                         *)
(* The recursion is kept as an explicit stack of frames, one per active    *)
(* call of the three procedures that loop or call back into ParseThing:    *)
(*   "ad"   ParseClassAd(void): in_classad and the ClassAd built so far;   *)
(*   "attr" ParseAttribute: the attribute name, waiting for ParseThing;    *)
(*   "list" ParseList: the subtrees collected so far.                      *)
(* A step is one iteration of a loop, one call, or one return.  The        *)
(* remaining procedures do not loop or recurse, and each is one step       *)
(* (Leaf).  ret carries the value a call returned until its caller         *)
(* resumes; NOVAL when nothing is pending.                                 *)
(*                                                                         *)
(* Tokens are records: a tag has an id, a tag type (start, end, empty,     *)
(* invalid) and its attribute (n of an attribute, v of a bool); a text     *)
(* token carries what the number, string, time or expression text denotes. *)
(* An iteration that neither consumes a token nor returns leaves the state *)
(* as it was: the loop spins, and no step is enabled.                      *)
(***************************************************************************)
EXTENDS Integers, Sequences, SequencesExt

CONSTANTS NULL,    \* a NULL ExprTree* or ClassAd*
          NOVAL,   \* no return value pending
          JUNK,    \* a text that sscanf/strtod/ParseExpression cannot read
          BADESC,  \* a string text with a \0 escape (convert_escapes fails)
          Ints     \* what an uninitialised int may hold

VARIABLES toks,    \* the token stream
          pos,     \* index of the next token
          stack,   \* the active frames, the innermost last
          ret      \* the value returned to the frame on top

vars == <<toks, pos, stack, ret>>

Tag(id, tt, a) == [type |-> "tag", id |-> id, tt |-> tt, a |-> a]
\* A text token: x is what it says, num whether sscanf/strtod read it as
\* a number (x is then that number).
Text(x, num) == [type |-> "text", x |-> x, num |-> num]
Lit(v) == [k |-> "lit", v |-> v]

\* Tags that ParseClassAd skips without consuming when inside a classad.
DocTags == {"xml", "xmlstylesheet", "doctype", "classads"}

At(p) == p <= Len(toks)
IsTag(p, id) == At(p) /\ toks[p].type = "tag" /\ toks[p].id = id
IsText(p) == At(p) /\ toks[p].type = "text"

\* SwallowEndTag: consume the end tag of id if it is next.
SwallowEndTag(p, id) == IF IsTag(p, id) /\ toks[p].tt = "end" THEN p + 1 ELSE p

-----------------------------------------------------------------------------
(* The procedures that do not recurse: [pos, tree] outcomes at p.           *)

\* ParseNumberOrString.  sscanf leaves number unset on a text it cannot
\* read; strtod gives 0.  A bad escape returns before the end tag.
ParseNumberOrString(p, id) ==
    LET q == p + 1
        x == IF IsText(q) THEN toks[q].x ELSE NULL
        num == IsText(q) /\ toks[q].num
        r == IF IsText(q) THEN q + 1 ELSE q
        vals == CASE ~IsText(q) /\ id = "string" -> {[t |-> "str", s |-> ""]}
                  [] ~IsText(q) -> {}
                  [] id = "integer" /\ num -> {[t |-> "int", i |-> x]}
                  [] id = "integer" -> {[t |-> "int", i |-> n] : n \in Ints}
                  [] id = "real" -> {[t |-> "real", r |-> IF num THEN x ELSE 0]}
                  [] OTHER -> {[t |-> "str", s |-> x]}
    IN  IF id = "string" /\ x = BADESC THEN {[pos |-> r, tree |-> NULL]}
        ELSE IF vals = {} THEN {[pos |-> SwallowEndTag(r, id), tree |-> NULL]}
        ELSE {[pos |-> SwallowEndTag(r, id), tree |-> Lit(v)] : v \in vals}

\* Variant: only an upper-case "T" reads as true.
ParseScalarTagUpperOnly(p, id) ==
    LET v == CASE id = "bool" -> [t |-> "bool", b |-> toks[p].a = "T"]
               [] id = "undefined" -> [t |-> "undef"]
               [] OTHER -> [t |-> "error"]
    IN  [pos |-> IF toks[p].tt = "start" THEN SwallowEndTag(p + 1, id) ELSE p + 1,
         tree |-> Lit(v)]

\* ParseBool, ParseUndefinedOrError: an end tag is swallowed only after a
\* start tag, not after an empty one.
ParseScalarTag(p, id) ==
    LET v == CASE id = "bool" -> [t |-> "bool", b |-> toks[p].a \in {"t", "T"}]
               [] id = "undefined" -> [t |-> "undef"]
               [] OTHER -> [t |-> "error"]
    IN  [pos |-> IF toks[p].tt = "start" THEN SwallowEndTag(p + 1, id) ELSE p + 1,
         tree |-> Lit(v)]

\* Variant: the text is peeked at but not consumed.
ParseTextTagNoConsume(p, id) ==
    LET q == p + 1
        t == IF ~IsText(q) \/ (id = "expr" /\ toks[q].x = JUNK) THEN NULL
             ELSE [k |-> id, x |-> toks[q].x]
    IN  [pos |-> SwallowEndTag(q, id), tree |-> t]

\* ParseAbsTime, ParseRelTime, ParseExpr: the text, if any, goes to
\* Literal::MakeAbsTime/MakeRelTime or ClassAdParser::ParseExpression.
ParseTextTag(p, id) ==
    LET q == p + 1
        t == IF ~IsText(q) \/ (id = "expr" /\ toks[q].x = JUNK) THEN NULL
             ELSE [k |-> id, x |-> toks[q].x]
    IN  [pos |-> SwallowEndTag(IF IsText(q) THEN q + 1 ELSE q, id), tree |-> t]

\* ParseThing for a tag that needs no frame; anything else is NULL and
\* nothing is consumed.
Leaf(p) ==
    CASE \E id \in {"integer", "real", "string"} : IsTag(p, id) ->
            ParseNumberOrString(p, toks[p].id)
      [] \E id \in {"bool", "undefined", "error"} : IsTag(p, id) ->
            {ParseScalarTag(p, toks[p].id)}
      [] \E id \in {"abstime", "reltime", "expr"} : IsTag(p, id) ->
            {ParseTextTag(p, toks[p].id)}
      [] OTHER -> {[pos |-> p, tree |-> NULL]}

-----------------------------------------------------------------------------
Top == Last(stack)
Running == stack # <<>> /\ ret = NOVAL
Resuming(f) == stack # <<>> /\ ret # NOVAL /\ Top.f = f
SetTop(fr) == stack' = [stack EXCEPT ![Len(stack)] = fr]

\* return v: the frame ends, and v goes to its caller.
Return(v) == /\ stack' = Front(stack)
             /\ ret' = v

\* ParseThing at p, called by the frame on top, which stays below.
CallAd(p) == /\ IsTag(p, "classad")
             /\ stack' = Append(stack, [f |-> "ad", in |-> FALSE, ad |-> NULL])
             /\ UNCHANGED <<pos, ret>>
CallList(p) == /\ IsTag(p, "list")
               /\ pos' = p + 1
               /\ stack' = Append(stack, [f |-> "list", es |-> <<>>])
               /\ UNCHANGED ret
CallLeaf(p) == /\ ~IsTag(p, "classad") /\ ~IsTag(p, "list")
               /\ \E r \in Leaf(p) : pos' = r.pos /\ ret' = r.tree
               /\ UNCHANGED stack
ParseThing(p) == CallAd(p) \/ CallList(p) \/ CallLeaf(p)

-----------------------------------------------------------------------------
(* ParseClassAd(void).                                                      *)

\* Before <c>: every token is consumed; a classad start tag opens the ad,
\* any other classad tag ends the parse.
AdOutside ==
    /\ Running /\ Top.f = "ad" /\ ~Top.in /\ At(pos)
    /\ pos' = pos + 1
    /\ IF IsTag(pos, "classad") /\ toks[pos].tt = "start"
       THEN SetTop([Top EXCEPT !.in = TRUE, !.ad = [k |-> "ad", attrs |-> <<>>]]) /\ UNCHANGED ret
       ELSE IF IsTag(pos, "classad") THEN Return(Top.ad)
       ELSE UNCHANGED <<stack, ret>>

\* Inside the ad, an attribute tag: an invalid one gives NULL; a start
\* tag goes to ParseAttribute, which consumes it and, for an empty name,
\* swallows the end tag and gives NULL.  An end or empty attribute tag
\* is not consumed.
AdAttribute ==
    /\ Running /\ Top.f = "ad" /\ Top.in /\ IsTag(pos, "attribute")
    /\ toks[pos].tt \in {"invalid", "start"}
    /\ IF toks[pos].tt = "invalid" THEN Return(NULL) /\ UNCHANGED pos
       ELSE IF toks[pos].a = "" THEN /\ pos' = SwallowEndTag(pos + 1, "attribute")
                                     /\ Return(NULL)
       ELSE /\ pos' = pos + 1
            /\ stack' = Append(stack, [f |-> "attr", name |-> toks[pos].a])
            /\ UNCHANGED ret

\* Inside the ad, another tag: a classad tag is consumed, and ends the ad
\* if it is an end tag; a tag that is not document-level is consumed and
\* ends the ad.  Text and document-level tags are not consumed.
AdOtherTag ==
    /\ Running /\ Top.f = "ad" /\ Top.in /\ At(pos) /\ toks[pos].type = "tag"
    /\ toks[pos].id \notin DocTags \cup {"attribute"}
    /\ pos' = pos + 1
    /\ IF toks[pos].id = "classad" /\ toks[pos].tt # "end"
       THEN UNCHANGED <<stack, ret>>
       ELSE Return(Top.ad)

\* PeekToken fails at the end of the input: the ad built so far.
AdEnd ==
    /\ Running /\ Top.f = "ad" /\ ~At(pos)
    /\ Return(Top.ad)
    /\ UNCHANGED pos

\* ParseAttribute returned the name and a tree: the tree is inserted under
\* the name (ClassAd::Insert), and NULL makes the whole ad NULL.
AdResume ==
    /\ Resuming("ad")
    /\ IF ret.tree # NULL THEN /\ SetTop([Top EXCEPT !.ad.attrs = (ret.name :> ret.tree) @@ @])
                               /\ ret' = NOVAL
       ELSE Return(NULL)
    /\ UNCHANGED pos

-----------------------------------------------------------------------------
(* ParseAttribute and ParseList.                                           *)

AttrCall == Running /\ Top.f = "attr" /\ ParseThing(pos)

\* ParseThing returned: swallow </a> and return the tree, with the name
\* in attribute_name.
AttrResume ==
    /\ Resuming("attr")
    /\ pos' = SwallowEndTag(pos, "attribute")
    /\ Return([name |-> Top.name, tree |-> ret])

\* One iteration of ParseList's loop: </l> ends the list; another tag that
\* is not an end tag is parsed as an element; text and other end tags are
\* not consumed.  At the end of the input the loop ends.
ListIter ==
    /\ Running /\ Top.f = "list"
    /\ \/ /\ IsTag(pos, "list") /\ toks[pos].tt = "end"
          /\ pos' = pos + 1
          /\ Return([k |-> "list", es |-> Top.es])
       \/ /\ At(pos) /\ toks[pos].type = "tag" /\ toks[pos].tt # "end"
          /\ ParseThing(pos)
       \/ /\ ~At(pos)
          /\ Return([k |-> "list", es |-> Top.es])
          /\ UNCHANGED pos

ListResume ==
    /\ Resuming("list")
    /\ SetTop([Top EXCEPT !.es = Append(@, ret)])
    /\ ret' = NOVAL
    /\ UNCHANGED pos

-----------------------------------------------------------------------------
\* ParseClassAd(string) and friends: a parse of the input from its start.
Parse(input) == /\ toks = input
                /\ pos = 1
                /\ stack = <<[f |-> "ad", in |-> FALSE, ad |-> NULL]>>
                /\ ret = NOVAL

Step == AdOutside \/ AdAttribute \/ AdOtherTag \/ AdEnd \/ AdResume
        \/ AttrCall \/ AttrResume \/ ListIter \/ ListResume
Next == Step /\ UNCHANGED toks

Done == stack = <<>>
\* What the parse returned, once it is done.
Result == ret

====
