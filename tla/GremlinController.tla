-------------------------- MODULE GremlinController --------------------------
(***************************************************************************)
(* The Murphy gremlin controller (parrot/src/controller.cc) for one run of *)
(* Parrot.  Traced processes run their programs in any interleaving; each  *)
(* step is one call into the controller: controller_doevil (should this    *)
(* system call fail?) or controller_setconfig (an ioctl carrying a config  *)
(* line).  Parrot serves the calls one at a time, so each call is one      *)
(* atomic action.                                                          *)
(*                                                                         *)
(* Abstractions:                                                           *)
(*  - a config line is a record [name, percent, constraint] or BAD (blank, *)
(*    comment, missing field or unparsable constraint: process_config_line *)
(*    returns false before assigning anything, so all of them are alike);  *)
(*  - rand_r is a nondeterministic choice, so the seeds are left out;      *)
(*  - a constraint is a model value that EvalConstraint maps, for a call's *)
(*    context, to the outcome of EvaluateAttrBool: "true", "false" or      *)
(*    "undef" (the attribute did not evaluate to a boolean);               *)
(*  - entry->config caches the pointer of the config table's object.  The  *)
(*    table's pointer for a name is only replaced during init, before any  *)
(*    entry exists, and setconfig updates an existing object in place, so  *)
(*    the cached object is always cfg[name]; the cache is kept as a flag.  *)
(***************************************************************************)
EXTENDS Naturals, Sequences, SequencesExt, FiniteSets

CONSTANTS
    Procs,            \* traced processes
    Pid,              \* Pid[p]: context->pid
    ChildNum,         \* ChildNum[p]: context->childnum
    Program,          \* Program[p]: the sequence of controller calls of p
    Gremlins,         \* gremlin names (system call names)
    DEFAULT,          \* the name "default"
    Constraints,      \* constraint expressions
    EvalConstraint(_, _), \* outcome of a constraint in a call's context
    ConfigFile,       \* NONE, MISSING, or the sequence of lines of the file
    LogFile,          \* "none", "opens", or "fails" (open() returns -1)
    ReplayLog,        \* NONE, or the records of the replay file given
    DiskMayFill,      \* whether write() on the log can start failing
    NONE, BAD, MISSING

Names == Gremlins \cup {DEFAULT}

\* A parsed config line, and an entry of gremlin_config_table.
ConfigRec == [percent : 0..100, constraint : Constraints \cup {NONE}]

\* One line of the gremlin log: name evil_counter childnum thissys_counter
\* syscall_count.
LogRec == [g : Gremlins, evil : Nat, child : Nat, invoked : Nat, syscall : Nat]

VARIABLES
    ctl,      \* "none" before init, "ready", "crashed", "spinning"
    cfg,      \* gremlin_config_table: name -> ConfigRec or NONE
    entries,  \* gremlin_table: <<g, pid, childnum>> -> entry or NONE
    replay,   \* gremlin_replay_table: <<g, childnum>> -> entry or NONE
    log,      \* the records written to the gremlin log
    logfd,    \* "off" (gremlin_log_fd < 1), "open", "failing"
    pc,       \* pc[p]: number of calls of p that have returned
    dec,      \* dec[p]: the answers doevil gave p, in order
    replayFile \* gremlin_replay_file: NONE, or the records it holds

vars == <<ctl, cfg, entries, replay, log, logfd, pc, dec, replayFile>>

EntryKey(g, p) == <<g, Pid[p], ChildNum[p]>>
ReplayKey(g, p) == <<g, ChildNum[p]>>
EntryKeys == {EntryKey(g, p) : g \in Gremlins, p \in Procs}
ReplayKeys == {ReplayKey(g, p) : g \in Gremlins, p \in Procs}

\* gremlin_entry::gremlin_entry
NewEntry == [cached |-> FALSE, cnt |-> 0, evil |-> 0]

\* Mutant: the percent assigned without its range check.
AssignNoRangeCheck(old, l) ==
    [percent    |-> l.percent,
     constraint |-> IF l.constraint # NONE THEN l.constraint ELSE old.constraint]

\* process_config_line's assignments to an entry that parsed: the percent
\* only when it is in 0..100, the constraint only when one is given.
Assign(old, l) ==
    [percent    |-> IF l.percent \in 0..100 THEN l.percent ELSE old.percent,
     constraint |-> IF l.constraint # NONE THEN l.constraint ELSE old.constraint]

\* gremlin_config_entry::gremlin_config_entry
FreshConfig == [percent |-> 0, constraint |-> NONE]

\* The body of init's loop over the config file: a line that parses goes
\* into a new object that replaces the table's one (updateDuplicateKeys).
LoadLine(c, l) ==
    IF l = BAD THEN c ELSE [c EXCEPT ![l.name] = Assign(FreshConfig, l)]

\* read_log: one replay entry per <<name, childnum>>, holding the invoked
\* indices of its records in file order.
ReadLog(recs) ==
    [k \in ReplayKeys |->
        LET mine == SelectSeq(recs, LAMBDA r : <<r.g, r.child>> = k)
        IN  IF mine = <<>> THEN NONE
            ELSE [idx |-> [i \in 1..Len(mine) |-> mine[i].invoked], cur |-> 0]]

Init ==
    /\ ctl = "none"
    /\ cfg = [n \in Names |-> NONE]
    /\ entries = [k \in EntryKeys |-> NONE]
    /\ replay = [k \in ReplayKeys |-> NONE]
    /\ log = <<>>
    /\ logfd = "off"
    /\ pc = [p \in Procs |-> 0]
    /\ dec = [p \in Procs |-> <<>>]
    /\ replayFile = ReplayLog

(***************************************************************************)
(* controller::init, run once (already_initialized) by the first call.     *)
(* fopen of a missing file gives NULL; the loop is skipped and fclose(NULL) *)
(* crashes.  A log file that cannot be opened leaves gremlin_log_fd = -1:  *)
(* the check that should stop Parrot tests the file name, not the fd.      *)
(***************************************************************************)
ControllerInit ==
    /\ ctl = "none"
    /\ IF ConfigFile = MISSING
       THEN /\ ctl' = "crashed"
            /\ UNCHANGED <<cfg, replay, logfd, replayFile>>
       ELSE LET lines == IF ConfigFile = NONE THEN <<>> ELSE ConfigFile
                dflt  == [cfg EXCEPT ![DEFAULT] = Assign(FreshConfig,
                             [percent |-> 0, constraint |-> NONE])]
            IN  /\ ctl' = "ready"
                /\ cfg' = FoldLeft(LoadLine, dflt, lines)
                /\ logfd' = IF LogFile = "opens" THEN "open" ELSE "off"
                /\ replay' = IF replayFile = NONE THEN replay
                             ELSE ReadLog(replayFile)
    /\ UNCHANGED <<entries, log, pc, dec, replayFile>>

Step(p) == Program[p][pc[p] + 1]

Pending(p, op) == pc[p] < Len(Program[p]) /\ Step(p).op = op

(***************************************************************************)
(* controller::setconfig.  A line that does not parse changes nothing; a   *)
(* new name gets a fresh object, an existing one is updated in place.      *)
(***************************************************************************)
SetConfig(p) ==
    /\ ctl = "ready"
    /\ Pending(p, "config")
    /\ LET l == Step(p).line
       IN  cfg' = IF l = BAD THEN cfg
                  ELSE IF cfg[l.name] = NONE
                       THEN [cfg EXCEPT ![l.name] = Assign(FreshConfig, l)]
                       ELSE [cfg EXCEPT ![l.name] = Assign(@, l)]
    /\ pc' = [pc EXCEPT ![p] = @ + 1]
    /\ UNCHANGED <<ctl, entries, replay, log, logfd, dec, replayFile>>

\* The config doevil uses: the entry's cached one, else the gremlin's own
\* (which is then cached), else default (not cached).
ConfigOf(g, e) ==
    IF e.cached \/ cfg[g] # NONE THEN cfg[g] ELSE cfg[DEFAULT]

\* The context attributes a constraint can read.
Context(p, e) ==
    [syscall |-> pc[p], invoked |-> e.cnt, evil |-> e.evil,
     pid |-> Pid[p], child |-> ChildNum[p]]

\* Mutant: the counter compared after it has been incremented.
ReplayHitAfterCount(re, e) == re # NONE /\ e.cnt + 1 = re.idx[re.cur + 1]

\* Replay: the next recorded invocation of this <<name, childnum>> is this one.
ReplayHit(re, e) == re # NONE /\ e.cnt = re.idx[re.cur + 1]

\* The decision before the constraint: the replay table when replaying,
\* otherwise the percentage (rand_r() % 100 < percent when it is 1..99).
Draws(g, p, e, c) ==
    IF replayFile # NONE THEN {ReplayHit(replay[ReplayKey(g, p)], e)}
    ELSE IF c.percent = 0 THEN {FALSE}
    ELSE IF c.percent = 100 THEN {TRUE}
    ELSE BOOLEAN

\* The replay entry after a hit: advanced, and removed once exhausted.
Advance(re) ==
    IF re.cur + 1 = Len(re.idx) THEN NONE ELSE [re EXCEPT !.cur = @ + 1]

\* The constraint vetoes the decision only when it evaluates to false:
\* EvaluateAttrBool leaves evalResult at true otherwise.
Vetoed(c, p, e) ==
    c.constraint # NONE /\ EvalConstraint(c.constraint, Context(p, e)) = "false"

\* The rest of doevil once the answer is known and the log line, if any,
\* is written: the replay cursor, the log, the counters, the return.
Returns(p, g, e, pre, evil) ==
    LET k   == EntryKey(g, p)
        rk  == ReplayKey(g, p)
        rec == [g |-> g, evil |-> e.evil, child |-> ChildNum[p],
                invoked |-> e.cnt, syscall |-> pc[p]]
    IN  /\ replay' = IF replayFile # NONE /\ pre
                     THEN [replay EXCEPT ![rk] = Advance(@)]
                     ELSE replay
        /\ log' = IF evil /\ logfd = "open" THEN Append(log, rec) ELSE log
        /\ entries' = [entries EXCEPT ![k] =
                         [cached |-> e.cached \/ cfg[g] # NONE,
                          cnt    |-> e.cnt + 1,
                          evil   |-> e.evil + (IF evil THEN 1 ELSE 0)]]
        /\ pc' = [pc EXCEPT ![p] = @ + 1]
        /\ dec' = [dec EXCEPT ![p] = Append(@, evil)]
        /\ UNCHANGED <<ctl, cfg, logfd, replayFile>>

\* The entry doevil finds or creates for gremlin g of process p.
EntryFor(g, p) ==
    IF entries[EntryKey(g, p)] = NONE THEN NewEntry ELSE entries[EntryKey(g, p)]

(***************************************************************************)
(* controller::doevil with write_log_entry.  The log line is written       *)
(* before the counters are incremented.  When write() keeps failing with   *)
(* an errno other than EINTR, or returns 0, the write loop never exits.    *)
(***************************************************************************)
DoEvil(p) ==
    /\ ctl = "ready"
    /\ Pending(p, "evil")
    /\ LET g == Step(p).g
           e == EntryFor(g, p)
           c == ConfigOf(g, e)
       IN \E pre \in Draws(g, p, e, c) :
          LET evil == pre /\ ~Vetoed(c, p, e)
          IN  IF evil /\ logfd = "failing"
              THEN /\ ctl' = "spinning"
                   /\ UNCHANGED <<cfg, entries, replay, log, logfd, pc, dec, replayFile>>
              ELSE Returns(p, g, e, pre, evil)

\* The disk holding the log fills up: from now on write() fails.
DiskFull ==
    /\ DiskMayFill
    /\ ctl = "ready"
    /\ logfd = "open"
    /\ logfd' = "failing"
    /\ UNCHANGED <<ctl, cfg, entries, replay, log, pc, dec, replayFile>>

Next ==
    \/ ControllerInit
    \/ \E p \in Procs : SetConfig(p) \/ DoEvil(p)
    \/ DiskFull

\* Parrot serves every traced process that has a call pending.
Fairness == WF_vars(ControllerInit) /\ \A p \in Procs : WF_vars(SetConfig(p) \/ DoEvil(p))

Spec == Init /\ [][Next]_vars /\ Fairness

Done == \A p \in Procs : pc[p] = Len(Program[p])

MaxCalls == 1 + Max({Len(Program[p]) : p \in Procs})

TypeOK ==
    /\ ctl \in {"none", "ready", "crashed", "spinning"}
    /\ cfg \in [Names -> ConfigRec \cup {NONE}]
    /\ entries \in [EntryKeys -> [cached : BOOLEAN, cnt : 0..MaxCalls,
                                  evil : 0..MaxCalls] \cup {NONE}]
    /\ \A k \in EntryKeys : entries[k] # NONE => entries[k].evil <= entries[k].cnt
    /\ log \in Seq(LogRec)
    /\ logfd \in {"off", "open", "failing"}
    /\ pc \in [Procs -> 0..MaxCalls]
    /\ dec \in [Procs -> Seq(BOOLEAN)]
    /\ replayFile \in Seq(LogRec) \cup {NONE}

\* Every call a traced process makes into the controller returns: the
\* processes all run their programs to the end.
AllCallsReturn == <>Done
====
