---------------------------- MODULE BulkJobSpec ----------------------------
(***************************************************************************)
(* What a bulk job promises to the client that submitted it, without the   *)
(* workers: tasks are done once, a job may be dropped while work is left   *)
(* in it, the tables on disk are those of jobs all of whose tasks are      *)
(* done, and success means that nothing but dropped jobs is missing.       *)
(* BulkJob, the scheduler of the master, implements it.                    *)
(***************************************************************************)
EXTENDS Integers

CONSTANTS NumJobs, JobSize

Jobs  == 0 .. NumJobs - 1
Tasks == UNION {{j} \X (0 .. JobSize[j] - 1) : j \in Jobs}
TasksOf(j) == {jt \in Tasks : jt[1] = j}

VARIABLES
  done,      \* tasks whose report was accepted
  dropped,   \* blacklisted jobs
  result,    \* what GetJobStatus tells the client
  tables     \* jobs whose output table is committed on disk

vars == <<done, dropped, result, tables>>

Results == {"none", "success", "no workers", "shutdown"}

\* Jobs whose output is complete when the tasks in d are done
CompleteJobs(d) == {j \in Jobs : TasksOf(j) # {} /\ TasksOf(j) \subseteq d}

Init ==
  /\ done = {} /\ dropped = {} /\ tables = {}
  /\ result = "none"

\* A task is done, once; the last one of its job may make tables durable.
Complete(jt) ==
  /\ jt \notin done /\ jt[1] \notin dropped
  /\ done' = done \cup {jt}
  /\ \/ tables' = tables
     \/ jt[1] \in CompleteJobs(done') /\ tables' = CompleteJobs(done')
  /\ UNCHANGED <<dropped, result>>

\* A job is given up for good, never after it is complete.
Drop(j) ==
  /\ j \notin dropped /\ j \notin CompleteJobs(done)
  /\ dropped' = dropped \cup {j}
  /\ UNCHANGED <<done, result, tables>>

\* The bulk job ends successfully: nothing is missing but dropped jobs.
Succeed ==
  /\ result = "none"
  /\ \A jt \in Tasks : jt \in done \/ jt[1] \in dropped
  /\ result' = "success"
  /\ tables' = CompleteJobs(done)
  /\ UNCHANGED <<done, dropped>>

\* The bulk job ends without being finished.
Fail ==
  /\ result = "none"
  /\ \/ result' = "no workers" /\ UNCHANGED tables
     \/ result' = "shutdown" /\ tables' = CompleteJobs(done)
  /\ UNCHANGED <<done, dropped>>

Next ==
  \/ \E jt \in Tasks : Complete(jt)
  \/ \E j \in Jobs : Drop(j)
  \/ Succeed
  \/ Fail

Spec == Init /\ [][Next]_vars

=============================================================================
