------------------------- MODULE BatchJobWorkQueue -------------------------
(***************************************************************************)
(* The Work Queue back end of the batch job interface                      *)
(* (dttools batch_job_work_queue.c): submit and submit_simple hand a task  *)
(* to the work_queue library and remember each job's output file in        *)
(* q->output_table, keyed by task id; wait opens the static logfile on its *)
(* first call, takes one finished task from work_queue_wait, writes the    *)
(* task's output to the file the job named, and answers the task id, or 0  *)
(* when the queue is empty, or -1.                                         *)
(*                                                                         *)
(* The work_queue library is not in the repository: it is modelled from    *)
(* its contract (ids 1, 2, ... in submit order; a task is queued until a   *)
(* worker finishes it, then complete until work_queue_wait hands it out;   *)
(* work_queue_empty holds when no task is queued or complete).  The        *)
(* caller is any program of the batch_job interface: it submits jobs and   *)
(* keeps calling wait.  A job's output is its id; command lines, info      *)
(* times, the stdout echo and the log lines are left out.                  *)
(***************************************************************************)
EXTENDS Integers, FiniteSets

CONSTANTS NONE,
          Files,       \* the output file names a job may give
          Unwritable,  \* the files fopen(outfile, "w") cannot open
          MaxTasks     \* the number of tasks submitted at most

VARIABLES nextId,      \* work_queue: the next task id
          queued,      \* work_queue: submitted, not finished
          complete,    \* work_queue: finished, not yet handed out
          outputTable, \* q->output_table: task id -> outfile
          logOpen,     \* the static logfile is open
          logWritable, \* q->logfile can be opened for append
          files,       \* whose output each file holds
          submitted,   \* the caller: the ids submit returned
          outOf,       \* the caller: the outfile each job named
          returned,    \* the caller: the ids wait returned
          ret          \* what the last call returned

vars == <<nextId, queued, complete, outputTable, logOpen, logWritable, files,
          submitted, outOf, returned, ret>>

Ids == 1..MaxTasks

Init == /\ nextId = 1 /\ queued = {} /\ complete = {}
        /\ outputTable = [j \in Ids |-> NONE]
        /\ logOpen = FALSE /\ logWritable \in BOOLEAN
        /\ files = [f \in Files |-> NONE]
        /\ submitted = {} /\ outOf = [j \in Ids |-> NONE] /\ returned = {}
        /\ ret = NONE

\* work_queue_task_create and work_queue_submit: the task gets the next id.
QueueTask == /\ nextId <= MaxTasks
             /\ nextId' = nextId + 1
             /\ queued' = queued \cup {nextId}
             /\ submitted' = submitted \cup {nextId}
             /\ ret' = nextId

\* Mutant: the outfile is not entered in output_table.
SubmitNoOutfile ==
    /\ \E outfile \in Files \cup {NONE} :
          \/ /\ ret' = -1
             /\ UNCHANGED <<nextId, queued, outputTable, submitted, outOf>>
          \/ /\ QueueTask
             /\ UNCHANGED outputTable
             /\ outOf' = [outOf EXCEPT ![nextId] = outfile]
    /\ UNCHANGED <<complete, logOpen, logWritable, files, returned>>

\* batch_job_submit_work_queue: -1 if the command line cannot be
\* allocated; otherwise the task is submitted and a named outfile is
\* entered in output_table under its id.
Submit ==
    /\ \E outfile \in Files \cup {NONE} :
          \/ /\ ret' = -1
             /\ UNCHANGED <<nextId, queued, outputTable, submitted, outOf>>
          \/ /\ QueueTask
             /\ outputTable' = [outputTable EXCEPT ![nextId] = outfile]
             /\ outOf' = [outOf EXCEPT ![nextId] = outfile]
    /\ UNCHANGED <<complete, logOpen, logWritable, files, returned>>

\* batch_job_submit_simple_work_queue: no outfile.
SubmitSimple == /\ QueueTask
                /\ UNCHANGED <<complete, outputTable, logOpen, logWritable,
                               files, outOf, returned>>

\* A worker finishes a task.
Complete == \E j \in queued : /\ queued' = queued \ {j}
                              /\ complete' = complete \cup {j}
                              /\ UNCHANGED <<nextId, outputTable, logOpen, logWritable,
                                             files, submitted, outOf, returned, ret>>

\* work_queue_wait(q, timeout): a finished task if there is one; with
\* WORK_QUEUE_WAITFORTASK (stoptime 0) it blocks while tasks run; with a
\* timeout it may return NULL.
WaitOutcomes(forever) ==
    IF complete # {} THEN complete
    ELSE IF forever /\ queued # {} THEN {} ELSE {NONE}

\* Mutant: taskid is not set from the task, so wait answers -1 for it.
DeliverTaskNoId(t) ==
    LET outfile == outputTable[t]
    IN /\ outputTable' = [outputTable EXCEPT ![t] = NONE]
       /\ files' = IF outfile # NONE /\ outfile \notin Unwritable
                   THEN [files EXCEPT ![outfile] = t] ELSE files
       /\ complete' = complete \ {t}
       /\ UNCHANGED returned
       /\ ret' = -1

\* The task's output goes to the outfile output_table holds for it.
DeliverTask(t) ==
    LET outfile == outputTable[t]
    IN /\ outputTable' = [outputTable EXCEPT ![t] = NONE]
       /\ files' = IF outfile # NONE /\ outfile \notin Unwritable
                   THEN [files EXCEPT ![outfile] = t] ELSE files
       /\ complete' = complete \ {t}
       /\ returned' = returned \cup {t}
       /\ ret' = t

\* No task came back: 0 if work_queue_empty, -1 otherwise.
NoTaskAnswer == IF queued \cup complete = {} THEN 0 ELSE -1

\* batch_job_wait_work_queue.
Wait ==
    /\ \/ /\ ~logOpen /\ ~logWritable
          /\ ret' = -1
          /\ UNCHANGED <<complete, outputTable, logOpen, files, returned>>
       \/ /\ logOpen \/ logWritable
          /\ logOpen' = TRUE
          /\ \E stoptime \in {0, 1} : \E t \in WaitOutcomes(stoptime = 0) :
                IF t # NONE THEN DeliverTask(t)
                ELSE /\ ret' = NoTaskAnswer
                     /\ UNCHANGED <<complete, outputTable, files, returned>>
    /\ UNCHANGED <<nextId, queued, logWritable, submitted, outOf>>

Next == Submit \/ SubmitSimple \/ Complete \/ Wait

\* The caller keeps calling wait, and workers finish what they are given.
Spec == Init /\ [][Next]_vars /\ WF_vars(Wait) /\ WF_vars(Complete)

-----------------------------------------------------------------------------
\* When wait hands back a job that named an outfile fopen can open, the
\* file holds that job's output: output_table led wait to the file the
\* job's submit named.
OutputDelivered ==
    [][\A j \in returned' \ returned :
          outOf[j] \notin {NONE} \cup Unwritable => files'[outOf[j]] = j]_vars

\* With a logfile wait can open, every job submitted is eventually handed
\* back by wait.
EveryJobReturned ==
    \A j \in Ids : logWritable /\ j \in submitted ~> j \in returned

====
