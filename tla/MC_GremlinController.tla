------------------------ MODULE MC_GremlinController ------------------------
(***************************************************************************)
(* GremlinController for TLC, over the scenarios of GremlinScenarios: two  *)
(* traced processes, two gremlins, a config file with a bad line and a     *)
(* default override, and setconfig ioctls in the middle of the programs.   *)
(***************************************************************************)
EXTENDS GremlinController, TLC

Sc == INSTANCE GremlinScenarios

MCConstraints == Sc!MCConstraints
MCEvalConstraint(c, ctx) == Sc!MCEvalConstraint(c, ctx)
MCPid == Sc!MCPid
MCChildNum == Sc!MCChildNum
MCProgram == Sc!MCProgram
MCConfigFile == Sc!MCConfigFile
====
