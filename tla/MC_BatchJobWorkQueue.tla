------------------------- MODULE MC_BatchJobWorkQueue -------------------------
(***************************************************************************)
(* Three tasks, two output files of which one cannot be opened, and a     *)
(* logfile that can or cannot be opened.                                   *)
(***************************************************************************)
EXTENDS BatchJobWorkQueue

CONSTANTS f1, f2

====
