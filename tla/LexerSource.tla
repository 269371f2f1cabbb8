----------------------------- MODULE LexerSource -----------------------------
(***************************************************************************)
(* The lexer's character sources (lexerSource.cpp): ReadCharacter,         *)
(* UnreadCharacter and AtEnd of FileLexerSource (a FILE ptr),               *)
(* InputStreamLexerSource (an istream), CharLexerSource (a char ptr) and     *)
(* StringLexerSource (a std::string), driven by a lexer that may read,     *)
(* unread right after a read, and ask AtEnd at any time.                   *)
(*                                                                         *)
(* The C library and iostream state the sources rely on is kept as far as *)
(* they use it: the FILE's position, end-of-file flag and one ungetc       *)
(* slot (glibc: EOF is sticky, ungetc(EOF) does nothing and ungetc clears  *)
(* the flag); the istream's position and eofbit and failbit (get on a      *)
(* stream at its end sets both and leaves its char argument unassigned;    *)
(* putback clears eofbit and fails on a failed stream).                    *)
(***************************************************************************)
EXTENDS Integers, Sequences

CONSTANTS EOF,     \* -1
          NONE,    \* nothing read yet, an empty ungetc slot
          Kinds,   \* the sources: "file", "stream", "char", "string"
          Inputs,  \* the character sequences a source may hold
          Starts,  \* the offsets a char or string source may be set to
          Bytes    \* what an unassigned char may hold

VARIABLES kind, content,
          offset,  \* _offset, or the FILE/stream position
          prev,    \* _previous_character
          eofbit,  \* feof(_file) / _stream->eof()
          failbit, \* the istream's failbit
          slot,    \* the FILE's ungetc slot
          got, op, atEnd   \* what the lexer has seen

vars == <<kind, content, offset, prev, eofbit, failbit, slot, got, op, atEnd>>

\* SetNewSource: a FILE or stream is read from its start, a char* or
\* std::string from the offset it is given.
Init == /\ kind \in Kinds /\ content \in Inputs
        /\ offset \in IF kind \in {"char", "string"} THEN Starts \cap 0..Len(content) ELSE {0}
        /\ prev = NONE /\ eofbit = FALSE /\ failbit = FALSE
        /\ slot = NONE /\ got = NONE /\ op = "none" /\ atEnd = FALSE

Left == offset < Len(content)
Next1 == content[offset + 1]

\* The outcomes of one ReadCharacter: [c, off, eof, fail, slot].
Outcome(c, off, eof, fail, sl) == [c |-> c, off |-> off, eof |-> eof, fail |-> fail, slot |-> sl]

\* Char/String: the character at _offset; a NUL (the end) gives -1 and
\* the offset stays.
CharRead == {IF Left THEN Outcome(Next1, offset + 1, eofbit, failbit, slot)
             ELSE Outcome(EOF, offset, eofbit, failbit, slot)}

\* File: fgetc, which gives the ungetc slot first and EOF once the flag
\* is set.
FileRead == {CASE slot # NONE -> Outcome(slot, offset, eofbit, failbit, NONE)
               [] eofbit \/ ~Left -> Outcome(EOF, offset, TRUE, failbit, slot)
               [] OTHER -> Outcome(Next1, offset + 1, FALSE, failbit, slot)}

\* Stream: -1 once eof() is set, otherwise get(real_character); a get
\* that fails leaves real_character as it was, uninitialised.
StreamRead ==
    CASE eofbit -> {Outcome(EOF, offset, eofbit, failbit, slot)}
      [] Left /\ ~failbit -> {Outcome(Next1, offset + 1, FALSE, FALSE, slot)}
      [] OTHER -> {Outcome(b, offset, ~failbit, TRUE, slot) : b \in Bytes}

ReadCharacter ==
    /\ \E r \in CASE kind \in {"char", "string"} -> CharRead
                  [] kind = "file" -> FileRead
                  [] OTHER -> StreamRead :
          /\ got' = r.c /\ prev' = r.c /\ offset' = r.off
          /\ eofbit' = r.eof /\ failbit' = r.fail /\ slot' = r.slot
    /\ op' = "read"
    /\ UNCHANGED <<kind, content, atEnd>>

\* Char/String: step back if the offset is positive.
CharUnread == /\ offset' = IF offset > 0 THEN offset - 1 ELSE offset
              /\ UNCHANGED <<eofbit, failbit, slot>>

\* File: ungetc(_previous_character); ungetc(EOF) does nothing.
FileUnread == /\ IF prev = EOF THEN UNCHANGED <<eofbit, slot>>
                 ELSE slot' = prev /\ eofbit' = FALSE
              /\ UNCHANGED <<offset, failbit>>

\* Stream: putback(_previous_character) clears eofbit, and fails on a
\* failed stream.
StreamUnread == /\ eofbit' = FALSE
                /\ IF failbit THEN UNCHANGED offset ELSE offset' = offset - 1
                /\ UNCHANGED <<failbit, slot>>

\* UnreadCharacter, which the lexer calls right after a read.
UnreadCharacter ==
    /\ op = "read"
    /\ op' = "unread"
    /\ CASE kind \in {"char", "string"} -> CharUnread
         [] kind = "file" -> FileUnread
         [] OTHER -> StreamUnread
    /\ UNCHANGED <<kind, content, prev, got, atEnd>>

\* AtEnd: Char/String look at the next character; File and Stream report
\* the end-of-file flag.
CharAtEnd == ~Left
FileAtEnd == eofbit
StreamAtEnd == eofbit
AtEnd ==
    /\ atEnd' = CASE kind \in {"char", "string"} -> CharAtEnd
                   [] kind = "file" -> FileAtEnd
                   [] OTHER -> StreamAtEnd
    /\ UNCHANGED <<kind, content, offset, prev, eofbit, failbit, slot, got, op>>

Next == ReadCharacter \/ UnreadCharacter \/ AtEnd

Spec == Init /\ [][Next]_vars

====
