---------------------------- MODULE GremlinReplay ----------------------------
(***************************************************************************)
(* A recording run of Parrot under Murphy followed by a replay run of the  *)
(* same programs.  The replay run reads the recording's log as its replay  *)
(* file.  The runs have different pids, and each run may interleave the   *)
(* processes differently; only childnum names a process in both.          *)
(***************************************************************************)
EXTENDS Naturals, Sequences

CONSTANTS Procs, RecPid, RepPid, ChildNum, Program, Gremlins, DEFAULT,
          Constraints, EvalConstraint(_, _), ConfigFile, NONE, BAD, MISSING

VARIABLES phase,
          rctl, rcfg, rentries, rreplay, rlog, rlogfd, rpc, rdec, rfile,
          pctl, pcfg, pentries, preplay, plog, plogfd, ppc, pdec, pfile

rvars == <<rctl, rcfg, rentries, rreplay, rlog, rlogfd, rpc, rdec, rfile>>
pvars == <<pctl, pcfg, pentries, preplay, plog, plogfd, ppc, pdec, pfile>>
vars == <<phase, rvars, pvars>>

\* The recording run: a log file, no replay file, and a disk that may fill.
Rec == INSTANCE GremlinController WITH
    ctl <- rctl, cfg <- rcfg, entries <- rentries, replay <- rreplay,
    log <- rlog, logfd <- rlogfd, pc <- rpc, dec <- rdec, replayFile <- rfile,
    Pid <- RecPid, LogFile <- "opens", ReplayLog <- NONE, DiskMayFill <- TRUE

\* The replay run.  Its replay file is set, when the recording ends, to
\* what the recording logged.
Rep == INSTANCE GremlinController WITH
    ctl <- pctl, cfg <- pcfg, entries <- pentries, replay <- preplay,
    log <- plog, logfd <- plogfd, pc <- ppc, dec <- pdec, replayFile <- pfile,
    Pid <- RepPid, LogFile <- "none", ReplayLog <- NONE, DiskMayFill <- FALSE

Init == phase = "record" /\ Rec!Init /\ Rep!Init

\* The recording ends when every process has run its program.
Switch ==
    /\ phase = "record"
    /\ Rec!Done
    /\ phase' = "replay"
    /\ pfile' = rlog
    /\ UNCHANGED <<rvars, pctl, pcfg, pentries, preplay, plog, plogfd, ppc, pdec>>

Next ==
    \/ phase = "record" /\ Rec!Next /\ UNCHANGED <<phase, pvars>>
    \/ Switch
    \/ phase = "replay" /\ Rep!Next /\ UNCHANGED <<phase, rvars>>

Spec == Init /\ [][Next]_vars
        /\ WF_vars(Switch)
        /\ WF_vars(phase = "record" /\ Rec!Next /\ UNCHANGED <<phase, pvars>>)
        /\ WF_vars(phase = "replay" /\ Rep!Next /\ UNCHANGED <<phase, rvars>>)

TypeOK == phase \in {"record", "replay"} /\ Rec!TypeOK /\ Rep!TypeOK

\* Replay reproduces the recording: the k-th answer doevil gives a process
\* in the replay run is the k-th answer it gave the same process (same
\* childnum) in the recording.  The replay table is keyed by name and
\* childnum (controller.cc:452) and matched on the per-entry invocation
\* counter (controller.cc:458); a matched call is still vetoed when the
\* constraint in force at that moment is not true (controller.cc:496-532).
\* Replay is faithful only for programs in which neither hazard bites:
\* GremlinReplay.cfg's, where each constraint is set by the process whose
\* calls it governs; ReplayDiverges.cfg breaks it with a shared childnum
\* and a constraint one process sets while the other reads.
ReplayFaithful ==
    \A p \in Procs : \A k \in 1..Len(pdec[p]) : pdec[p][k] = rdec[p][k]

====
