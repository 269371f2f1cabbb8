--------------------------- MODULE GremlinScenarios ---------------------------
(***************************************************************************)
(* The traced programs, config files and constraints the gremlin models    *)
(* are checked with.  MC_GremlinController and MC_GremlinReplay take them  *)
(* from here.                                                              *)
(***************************************************************************)
EXTENDS Naturals, Sequences, TLC

CONSTANTS NONE, BAD

Evil(g) == [op |-> "evil", g |-> g]
Cfg(n, pct, c) == [op |-> "config", line |-> [name |-> n, percent |-> pct, constraint |-> c]]
CfgBad == [op |-> "config", line |-> BAD]
Line(n, pct, c) == [name |-> n, percent |-> pct, constraint |-> c]

\* "InvokedCount > 0" is false on the first call of a gremlin; "Foo" names
\* an attribute the context ad does not have, so it is Undefined.
MCConstraints == {"InvokedCount > 0", "Foo"}
MCEvalConstraint(c, ctx) ==
    IF c = "Foo" THEN "undef"
    ELSE IF ctx.invoked > 0 THEN "true" ELSE "false"

MCPid == ("p1" :> 66) @@ ("p2" :> 67)
MCChildNum == ("p1" :> 1) @@ ("p2" :> 2)

\* p1 reads twice, raises read to 100% (150 is out of range and ignored),
\* and reads again; p2 configures write with a constraint, then writes and
\* reads.
MCProgram ==
    ("p1" :> <<Evil("read"), Evil("read"), Cfg("read", 100, NONE), Evil("read")>>)
 @@ ("p2" :> <<Cfg("write", 150, "InvokedCount > 0"), Evil("write"), CfgBad,
               Evil("write"), Evil("read")>>)

\* The config file: read at 50%, a line that does not parse, and a default
\* of 50% with a constraint that evaluates to Undefined.
MCConfigFile == <<Line("read", 50, NONE), BAD, Line("default", 50, "Foo")>>

\* Shared childnum: both processes carry childnum 1, as in the controller's
\* standalone test driver (pid 66 and pid 67, controller.cc:36-64).
MCSharedChildNum == ("p1" :> 1) @@ ("p2" :> 1)

\* Pids of the replay run: a new run of Parrot gets new pids.
MCRepPid == ("p1" :> 80) @@ ("p2" :> 81)

\* Both processes read; each read fails with probability one half.
MCReadProgram ==
    ("p1" :> <<Evil("read"), Evil("read")>>) @@ ("p2" :> <<Evil("read"), Evil("read")>>)

\* p1 sets a constraint on read, then reads, while p2 reads: whether p2's
\* first read sees the constraint depends on the interleaving.
MCRaceProgram ==
    ("p1" :> <<Cfg("read", 50, "InvokedCount > 0"), Evil("read")>>)
 @@ ("p2" :> <<Evil("read"), Evil("read")>>)
====
