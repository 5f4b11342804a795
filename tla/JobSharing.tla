----------------------------- MODULE JobSharing -----------------------------
(* What a thread pool promises the application that uses it: every job is    *)
(* started once, runs once, and its result is handed back once; no more jobs *)
(* are open than there are threads; and a run that was begun gets done.      *)
EXTENDS Naturals, FiniteSets

CONSTANTS NumJobs, NumThreads

Jobs == 1 .. NumJobs

VARIABLES job, limit
jvars == <<job, limit>>

Stages == {"todo", "started", "ran", "collected"}
In(stages) == {j \in Jobs : job[j] \in stages}

JobInit ==
  /\ job = [j \in Jobs |-> "todo"]
  /\ limit = 0

(* The application asks for more jobs when all those asked for are done. *)
Ask ==
  /\ In({"collected"}) = 1 .. limit
  /\ limit' \in limit .. NumJobs
  /\ UNCHANGED job

Start(j) ==
  /\ job[j] = "todo"
  /\ j <= limit
  /\ Cardinality(In({"started", "ran"})) < NumThreads
  /\ job' = [job EXCEPT ![j] = "started"]
  /\ UNCHANGED limit

Run(j) ==
  /\ job[j] = "started"
  /\ job' = [job EXCEPT ![j] = "ran"]
  /\ UNCHANGED limit

Collect(j) ==
  /\ job[j] = "ran"
  /\ job' = [job EXCEPT ![j] = "collected"]
  /\ UNCHANGED limit

JobNext == Ask \/ \E j \in Jobs : Start(j) \/ Run(j) \/ Collect(j)

JobSpec ==
  /\ JobInit /\ [][JobNext]_jvars
  /\ \A j \in Jobs : WF_jvars(Start(j)) /\ WF_jvars(Run(j) \/ Collect(j))
=============================================================================
