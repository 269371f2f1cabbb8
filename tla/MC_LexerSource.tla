--------------------------- MODULE MC_LexerSource ---------------------------
(***************************************************************************)
(* Each lexer source, driven by any sequence of reads, unreads right after *)
(* a read, and AtEnd queries, against the pushback reader it stands for.   *)
(***************************************************************************)
EXTENDS LexerSource

\* The characters the next reads give, as the source's state says: for a
\* char* or std::string the rest of the text; for a FILE the ungetc slot
\* and then the rest of the file unless EOF was hit; for a stream the rest
\* unless eofbit or failbit is set.
Rest ==
    LET tail == SubSeq(content, offset + 1, Len(content))
    IN  CASE kind \in {"char", "string"} -> tail
          [] kind = "file" -> (IF slot # NONE THEN <<slot>> ELSE <<>>)
                              \o (IF eofbit THEN <<>> ELSE tail)
          [] OTHER -> IF eofbit \/ failbit THEN <<>> ELSE tail

\* Texts of up to two characters; a char or string source set to offset 0
\* or 1.
MCInputs == {<<>>, <<"a">>, <<"a", "b">>}
MCStarts == {0, 1}

Reader == INSTANCE PushbackReader
              WITH rest <- Rest,
                   Inputs <- {SubSeq(c, o + 1, Len(c)) : c \in Inputs, o \in Starts \cup {0}}

\* Every source behaves as a pushback reader: each ReadCharacter returns
\* the next character of the text or -1 at its end, UnreadCharacter right
\* after a read gives that character back (and nothing after -1), and
\* AtEnd never says TRUE with characters left, and says TRUE after a read
\* returned -1.
ImplementsReader == Reader!Spec

====
