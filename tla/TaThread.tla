------------------------------ MODULE TaThread ------------------------------
(* The compute threads of toolsa (TaThread): the flags through which a       *)
(* parent and each of its threads hand over work, and the loop of the        *)
(* thread.  The module has no next-state relation of its own: a thread pool  *)
(* (TaThreadPool) and a polling queue (TaPollingQue) each add the parent and *)
(* what their threads do inside run().                                       *)
(*                                                                           *)
(* A section under one of the object's mutexes is one action; waiting on a   *)
(* condition variable is waiting for its flag, since the flag is re-read     *)
(* after every wake-up and set before every signal.                          *)
EXTENDS Naturals

CONSTANT NumThreads

ASSUME NumThreadsAssumption == NumThreads \in Nat \ {0}

Threads == 1 .. NumThreads

VARIABLES
  at,         \* where each thread is in TaThread::_run
  start,      \* _startFlag
  complete,   \* _completeFlag
  exit,       \* _exitFlag
  cancel      \* a pthread_cancel that the thread has not acted on

tvars == <<at, start, complete, exit, cancel>>

(* "none": no pthread yet; "start": in _waitForStart; "check": before the    *)
(* exit check; "run": in run(); "after", "report": inside run(), past the    *)
(* work (_after of a polling thread); "ran": run() has returned; "signal",   *)
(* "exiting": about to signal completion and to go on, or to leave;          *)
(* "completed": has signalled; "ended": the pthread is over.                 *)
Places == {"none", "start", "check", "run", "after", "report", "ran",
           "signal", "exiting", "completed", "ended"}

ThreadTypeOK ==
  /\ at \in [Threads -> Places]
  /\ start \in [Threads -> BOOLEAN]
  /\ complete \in [Threads -> BOOLEAN]
  /\ exit \in [Threads -> BOOLEAN]
  /\ cancel \in [Threads -> BOOLEAN]

ThreadInit ==
  /\ at = [t \in Threads |-> "none"]
  /\ start = [t \in Threads |-> FALSE]
  /\ complete = [t \in Threads |-> FALSE]
  /\ exit = [t \in Threads |-> FALSE]
  /\ cancel = [t \in Threads |-> FALSE]

Goto(t, place) == at' = [at EXCEPT ![t] = place]

(* Nothing is running on behalf of the parent: no pthread, or one that has   *)
(* nothing to do but wait for the next start.                                *)
Idle(t) == at[t] \in {"none", "start"} /\ ~start[t]

-----------------------------------------------------------------------------
(* The parent's side. *)

(* The flag is set and signalled under the start mutex; then the pthread is  *)
(* created if there is none.  One step, for a thread that is created reads   *)
(* the flag only afterwards.                                                 *)
SignalRunToStart(t) ==
  /\ start' = [start EXCEPT ![t] = TRUE]
  /\ at' = IF at[t] = "none" THEN [at EXCEPT ![t] = "start"] ELSE at
  /\ UNCHANGED <<complete, exit, cancel>>

SetExitAndStart(t) ==
  /\ exit' = [exit EXCEPT ![t] = TRUE]
  /\ start' = [start EXCEPT ![t] = TRUE]
  /\ at' = IF at[t] = "none" THEN [at EXCEPT ![t] = "start"] ELSE at
  /\ UNCHANGED <<complete, cancel>>

WaitForRunToComplete(t) ==
  /\ complete[t]
  /\ complete' = [complete EXCEPT ![t] = FALSE]
  /\ UNCHANGED <<at, start, exit, cancel>>

(* The destructor up to pthread_join ... *)
BeginDelete(t) ==
  /\ exit' = [exit EXCEPT ![t] = TRUE]
  /\ cancel' = [cancel EXCEPT ![t] = at[t] # "none"]
  /\ UNCHANGED <<at, start, complete>>

(* ... which returns when there is no pthread or it is over. *)
Joined(t) == at[t] \in {"none", "ended"}

-----------------------------------------------------------------------------
(* The thread's side. *)

WaitForStart(t) ==
  /\ at[t] = "start"
  /\ start[t]
  /\ start' = [start EXCEPT ![t] = FALSE]
  /\ Goto(t, "check")
  /\ UNCHANGED <<complete, exit, cancel>>

CheckExitBefore(t) ==
  /\ at[t] = "check"
  /\ Goto(t, IF exit[t] THEN "exiting" ELSE "run")
  /\ UNCHANGED <<start, complete, exit, cancel>>

CheckExitAfter(t) ==
  /\ at[t] = "ran"
  /\ Goto(t, IF exit[t] THEN "exiting" ELSE "signal")
  /\ UNCHANGED <<start, complete, exit, cancel>>

SignalComplete(t) ==
  /\ at[t] \in {"signal", "exiting"}
  /\ complete' = [complete EXCEPT ![t] = TRUE]
  /\ Goto(t, IF at[t] = "signal" THEN "completed" ELSE "ended")
  /\ UNCHANGED <<start, exit, cancel>>

(* A cancelled thread dies at the next cancellation point: in the wait for   *)
(* the start flag, in getExitFlag, or (as run() may have one) in run().      *)
ActOnCancel(t) ==
  /\ cancel[t]
  /\ at[t] \in {"start", "check", "run", "ran"}
  /\ Goto(t, "ended")
  /\ UNCHANGED <<start, complete, exit, cancel>>
=============================================================================
