-------------------------- MODULE MC_GremlinReplay --------------------------
(***************************************************************************)
(* GremlinReplay for TLC: a recording and a replay of the programs of      *)
(* GremlinScenarios.                                                       *)
(***************************************************************************)
EXTENDS GremlinReplay, TLC

Sc == INSTANCE GremlinScenarios

MCConstraints == Sc!MCConstraints
MCEvalConstraint(c, ctx) == Sc!MCEvalConstraint(c, ctx)
MCPid == Sc!MCPid
MCRepPid == Sc!MCRepPid
MCChildNum == Sc!MCChildNum
MCSharedChildNum == Sc!MCSharedChildNum
MCProgram == Sc!MCProgram
MCReadProgram == Sc!MCReadProgram
MCConfigFile == Sc!MCConfigFile
MCRaceProgram == Sc!MCRaceProgram
====
