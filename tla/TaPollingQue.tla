---------------------------- MODULE TaPollingQue ----------------------------
(* A polling queue (TaThreadPollingQue): the threads work over and over, and *)
(* the parent waits for any one of them, copies its result and sends it back *)
(* to work.  The parent is the real-time loop of DsEnsembleAnyTrigger, the   *)
(* one class built on the queue.  Each of the queue's two mutexes is held    *)
(* for one action; but a thread that is cancelled while it waits on          *)
(* _waitingCond holds _waitingMutex again when it dies.                      *)
EXTENDS TaThread

VARIABLES
  waiting,    \* _waiting: the queue is in the 'waiting' state
  lost,       \* _waitingMutex is held by a thread that is dead
  done,       \* _complete: a thread has reported
  index,      \* _thread_index, 0 before the first report
  place,      \* where the parent is
  hand,       \* the thread it is dealing with, 0 for none
  fresh       \* per thread: its info holds a result not yet copied

que == <<waiting, lost, done, index>>
qvars == <<tvars, que, place, hand, fresh>>

ParentPlaces == {"starting", "idle", "asked", "copy", "restart",
                 "exit", "release", "delete", "join", "gone"}

PollTypeOK ==
  /\ ThreadTypeOK
  /\ waiting \in BOOLEAN /\ lost \in BOOLEAN /\ done \in BOOLEAN
  /\ index \in Threads \cup {0} /\ hand \in Threads \cup {0}
  /\ place \in ParentPlaces
  /\ fresh \in [Threads -> BOOLEAN]

(* A polling thread belongs to no pool: after _signalComplete it waits for   *)
(* its next start at once.                                                   *)
PollInit ==
  /\ ThreadInit
  /\ waiting = FALSE /\ lost = FALSE /\ done = FALSE /\ index = 0
  /\ place = "starting" /\ hand = 1
  /\ fresh = [t \in Threads |-> FALSE]

To(p) == place' = p

-----------------------------------------------------------------------------
(* The threads. *)

RunMethod(t) ==
  /\ at[t] = "run"
  /\ fresh' = [fresh EXCEPT ![t] = TRUE]
  /\ Goto(t, "after")
  /\ UNCHANGED <<start, complete, exit, cancel, que, place, hand>>

WaitForQueToWait_Keeps(t) ==
  /\ at[t] = "after"
  /\ waiting /\ ~lost
  /\ Goto(t, "report")
  /\ UNCHANGED <<start, complete, exit, cancel, que, place, hand, fresh>>

WaitForQueToWait(t) ==
  /\ at[t] = "after"
  /\ waiting /\ ~lost
  /\ waiting' = FALSE
  /\ Goto(t, "report")
  /\ UNCHANGED <<start, complete, exit, cancel, lost, done, index, place, hand,
                 fresh>>

SignalFromThread_NoFlag(t) ==
  /\ at[t] = "report"
  /\ index' = t
  /\ Goto(t, "ran")
  /\ UNCHANGED <<start, complete, exit, cancel, waiting, lost, done, place,
                 hand, fresh>>

SignalFromThreadWhenComplete(t) ==
  /\ at[t] = "report"
  /\ done' = TRUE
  /\ index' = t
  /\ Goto(t, "ran")
  /\ UNCHANGED <<start, complete, exit, cancel, waiting, lost, place, hand,
                 fresh>>

(* Cancelled in pthread_cond_wait, which takes the mutex again first.        *)
CancelledInWait(t) ==
  /\ cancel[t]
  /\ at[t] = "after"
  /\ ~lost
  /\ lost' = TRUE
  /\ Goto(t, "ended")
  /\ UNCHANGED <<start, complete, exit, cancel, waiting, done, index, place,
                 hand, fresh>>

Loop(t) ==
  /\ \/ WaitForStart(t) \/ CheckExitBefore(t) \/ CheckExitAfter(t)
     \/ SignalComplete(t) \/ ActOnCancel(t)
     \/ /\ at[t] = "completed"
        /\ Goto(t, "start")
        /\ UNCHANGED <<start, complete, exit, cancel>>
  /\ UNCHANGED <<que, place, hand, fresh>>

ThreadStep(t) == Loop(t) \/ RunMethod(t) \/ WaitForQueToWait(t)
                 \/ SignalFromThreadWhenComplete(t) \/ CancelledInWait(t)

-----------------------------------------------------------------------------
(* The parent. *)

(* From one thread to the next, and after the last one to p. *)
NextThread(p) ==
  IF hand < NumThreads THEN hand' = hand + 1 /\ UNCHANGED place
                       ELSE hand' = 1 /\ To(p)

(* The first call of _nextRealTime starts every thread. *)
StartThread ==
  /\ place = "starting"
  /\ SignalRunToStart(hand)
  /\ IF hand < NumThreads THEN hand' = hand + 1 /\ UNCHANGED place
                          ELSE hand' = 0 /\ To("idle")
  /\ UNCHANGED <<que, fresh>>

(* waitForAnyOneThread: the queue is waiting ... *)
SignalThreadQueIsWaiting ==
  /\ place = "idle"
  /\ ~lost
  /\ waiting' = TRUE
  /\ To("asked")
  /\ UNCHANGED <<tvars, lost, done, index, hand, fresh>>

WaitForThread_KeepsFlag ==
  /\ place = "asked"
  /\ done
  /\ hand' = index
  /\ To("copy")
  /\ UNCHANGED <<tvars, que, fresh>>

(* ... until a thread has reported ... *)
WaitForThreadToComplete ==
  /\ place = "asked"
  /\ done
  /\ done' = FALSE
  /\ hand' = index
  /\ To("copy")
  /\ UNCHANGED <<tvars, waiting, lost, index, fresh>>

(* ... whose information is copied ... *)
Copy ==
  /\ place = "copy"
  /\ fresh' = [fresh EXCEPT ![hand] = FALSE]
  /\ To("restart")
  /\ UNCHANGED <<tvars, que, hand>>

Reactivate_Skips ==
  /\ place = "restart"
  /\ hand' = 0
  /\ To("idle")
  /\ UNCHANGED <<tvars, que, fresh>>

(* ... and which is sent back to work. *)
Reactivate ==
  /\ place = "restart"
  /\ SignalRunToStart(hand)
  /\ hand' = 0
  /\ To("idle")
  /\ UNCHANGED <<que, fresh>>

(* releaseThreads, which the destructor calls. *)
ReleaseThreads ==
  /\ \/ place = "starting" /\ hand = 1
     \/ place = "idle"
  /\ hand' = 1
  /\ To("exit")
  /\ UNCHANGED <<tvars, que, fresh>>

TellToExit ==
  /\ place = "exit"
  /\ SetExitAndStart(hand)
  /\ NextThread("release")
  /\ UNCHANGED <<que, fresh>>

WaitForExit ==
  /\ place = "release"
  /\ WaitForRunToComplete(hand)
  /\ NextThread("delete")
  /\ UNCHANGED <<que, fresh>>

DeleteThread ==
  /\ place = "delete"
  /\ BeginDelete(hand)
  /\ To("join")
  /\ UNCHANGED <<que, hand, fresh>>

JoinThread ==
  /\ place = "join"
  /\ Joined(hand)
  /\ IF hand < NumThreads THEN hand' = hand + 1 /\ To("delete")
                          ELSE hand' = 0 /\ To("gone")
  /\ UNCHANGED <<tvars, que, fresh>>

-----------------------------------------------------------------------------
InCall == WaitForThreadToComplete \/ Copy \/ Reactivate
InRelease == TellToExit \/ WaitForExit \/ DeleteThread \/ JoinThread

PollNext == \/ \E t \in Threads : ThreadStep(t)
            \/ StartThread \/ SignalThreadQueIsWaiting \/ InCall
            \/ ReleaseThreads \/ InRelease

(* The method of a thread returns (it has a time limit), and a thread that   *)
(* can go on does.  The parent finishes what it has called.                  *)
PollSpec ==
  /\ PollInit /\ [][PollNext]_qvars
  /\ WF_qvars(InCall \/ InRelease)
  /\ \A t \in Threads : WF_qvars(ThreadStep(t))

-----------------------------------------------------------------------------
(* With one thread a queue makes none: thread(i, info) runs the method in    *)
(* the parent, and so _after too, which waits for the parent to call         *)
(* waitForAnyOneThread.                                                      *)
RunInParent ==
  /\ place = "starting" /\ hand = 1
  /\ fresh' = [fresh EXCEPT ![hand] = TRUE]
  /\ hand' = 0
  /\ UNCHANGED <<tvars, que, place>>

AfterInParent ==
  /\ place = "starting" /\ hand = 0
  /\ waiting
  /\ waiting' = FALSE
  /\ To("idle")
  /\ UNCHANGED <<tvars, lost, done, index, hand, fresh>>

UnthreadedNext == RunInParent \/ AfterInParent \/ SignalThreadQueIsWaiting

UnthreadedSpec ==
  PollInit /\ [][UnthreadedNext]_qvars /\ WF_qvars(RunInParent \/ AfterInParent)

-----------------------------------------------------------------------------
Reporting == {t \in Threads : at[t] = "report"}

(* A call has one answer under way at most: the queue's 'waiting' state, a   *)
(* thread that has taken it and not reported yet, or a report not yet taken; *)
(* while the parent waits there is exactly one, and otherwise none.          *)
OneAnswer ==
  /\ place = "asked" =>
       \/ waiting /\ ~done /\ Reporting = {}
       \/ ~waiting /\ ~done /\ \E t \in Threads : Reporting = {t}
       \/ ~waiting /\ done /\ Reporting = {}
  /\ place # "asked" => ~waiting /\ ~done /\ Reporting = {}

Closing == place \in {"exit", "release", "delete", "join", "gone"}
InMethod(t) == start[t] \/ at[t] \in {"check", "run"}

(* Until it is told to exit, a thread is started only when it has nothing    *)
(* left to do with its result, and the one whose result is being copied      *)
(* stays out of its method, which would write the result at the same time.   *)
CopiedAtRest ==
  ~Closing =>
    /\ \A t \in Threads : fresh[t] => ~InMethod(t)
    /\ place \in {"copy", "restart"} => ~InMethod(hand)
    /\ place = "copy" => fresh[hand]
    /\ place = "asked" /\ done => fresh[index]
    /\ \A t \in Threads : at[t] \in {"after", "report"} => fresh[t]

(* Outside the destructor every thread that was started is at its work, has  *)
(* a result to hand over, or is the one whose result has just been copied.   *)
NoThreadIdle ==
  place \in {"idle", "asked", "copy", "restart"} =>
    \A t \in Threads :
      \/ InMethod(t) \/ at[t] \in {"after", "report"}
      \/ place = "asked" /\ done /\ index = t
      \/ place \in {"copy", "restart"} /\ hand = t

(* What holds between any two steps, by which the properties above are       *)
(* proved: whom the parent deals with, and where a thread is, according to   *)
(* whether it has been started and whether the parent has its report.        *)
HandOK ==
  /\ IF place \in {"idle", "asked", "gone"} THEN hand = 0 ELSE hand \in Threads
  /\ done => index \in Threads
  /\ \A t \in Threads : at[t] = "none" => ~fresh[t]

Started(t) == place # "starting" \/ t < hand
Pending(t) == \/ place = "asked" /\ done /\ t = index
              \/ place \in {"copy", "restart"} /\ t = hand

Unstarted(t) == at[t] = "none" /\ ~start[t] /\ ~fresh[t]
Reported(t) == /\ at[t] \in {"ran", "signal", "completed", "start"}
               /\ ~start[t]
               /\ fresh[t] = (place # "restart")
AtWork(t) ==
  \/ at[t] \in {"check", "run"} /\ ~start[t] /\ ~fresh[t]
  \/ at[t] \in {"ran", "signal", "completed", "start"} /\ start[t] /\ ~fresh[t]
  \/ at[t] \in {"after", "report"} /\ ~start[t] /\ fresh[t]

ThreadOK(t) ==
  /\ ~exit[t] /\ ~cancel[t]
  /\ ~Started(t) => Unstarted(t)
  /\ Pending(t) => Reported(t)
  /\ Started(t) /\ ~Pending(t) => AtWork(t)

PollInv ==
  /\ PollTypeOK /\ OneAnswer /\ HandOK
  /\ ~Closing => \A t \in Threads : ThreadOK(t)

(* The queue hands over results as promised, and each call returns.          *)
PolledWork == INSTANCE PolledWork WITH
  work <- [t \in Threads |-> IF at[t] = "none" THEN "idle"
                             ELSE IF fresh[t] THEN "finished" ELSE "working"],
  caller <- IF place \in {"asked", "copy"} THEN "in"
            ELSE IF Closing THEN "closed" ELSE "out"
HandsOverWork == PolledWork!WorkSpec

(* A queue works without threads as well: starting the work returns.         *)
UnthreadedReturns == place = "starting" ~> place = "idle"
=============================================================================
