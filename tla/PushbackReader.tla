--------------------------- MODULE PushbackReader ---------------------------
(***************************************************************************)
(* What a lexer source promises the lexer: a stream of characters read     *)
(* one at a time, with EOF at the end, in which the character just read    *)
(* can be pushed back once.                                                *)
(*                                                                         *)
(*   Read    the next character, or EOF when none is left;                 *)
(*   Unread  right after a Read: undo it (nothing to undo after EOF);      *)
(*   AtEnd   TRUE only when the next Read gives EOF, and TRUE right after  *)
(*           a Read gave EOF; before that read it may still say FALSE.     *)
(***************************************************************************)
EXTENDS Sequences

CONSTANTS EOF, NONE, Inputs   \* the character sequences a reader may start with

VARIABLES rest,   \* the characters the next reads give
          got,    \* what the last Read returned
          op,     \* the last operation: "none", "read" or "unread"
          atEnd   \* what the last AtEnd answered

Init == rest \in Inputs /\ got = NONE /\ op = "none" /\ atEnd = FALSE

Read == /\ op' = "read"
        /\ IF rest = <<>> THEN got' = EOF /\ UNCHANGED rest
           ELSE got' = Head(rest) /\ rest' = Tail(rest)
        /\ UNCHANGED atEnd

Unread == /\ op = "read"
          /\ op' = "unread"
          /\ rest' = IF got = EOF THEN rest ELSE <<got>> \o rest
          /\ UNCHANGED <<got, atEnd>>

AtEnd == /\ atEnd' \in IF op = "read" /\ got = EOF THEN {TRUE}
                       ELSE IF rest # <<>> THEN {FALSE} ELSE BOOLEAN
         /\ UNCHANGED <<rest, got, op>>

Next == Read \/ Unread \/ AtEnd

Spec == Init /\ [][Next]_<<rest, got, op, atEnd>>

====
