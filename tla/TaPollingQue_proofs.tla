------------------------ MODULE TaPollingQue_proofs -------------------------
(* Proofs about the polling queue, for any number of threads.                *)
EXTENDS TaPollingQue, TLAPS

USE NumThreadsAssumption

-----------------------------------------------------------------------------
(* The steps of the parent that do not concern a thread's flags. *)

LEMMA NextHand ==
  ASSUME NEW h \in Threads, h < NumThreads
  PROVE  h + 1 \in Threads
BY DEF Threads

LEMMA FirstThread == 1 \in Threads
BY DEF Threads

LEMMA StartedBefore ==
  ASSUME NEW h \in Threads, NEW t \in Threads
  PROVE  /\ t < h + 1 <=> t < h \/ t = h
         /\ ~(t < h /\ t = h)
         /\ ~(h < NumThreads) => (t < h \/ t = h)
         /\ ~(t < 1)
BY DEF Threads

-----------------------------------------------------------------------------
(* Types. *)

LEMMA PollTypesInit == PollInit => PollTypeOK
BY FirstThread DEF PollInit, ThreadInit, PollTypeOK, ThreadTypeOK, Places,
                   ParentPlaces

LEMMA PollTypesThread ==
  ASSUME PollTypeOK, NEW t \in Threads, ThreadStep(t)
  PROVE  PollTypeOK'
<1> USE DEF PollTypeOK, ThreadTypeOK, Places, Goto, que
<1>1. CASE RunMethod(t)
  BY <1>1 DEF RunMethod
<1>2. CASE WaitForQueToWait(t)
  BY <1>2 DEF WaitForQueToWait
<1>3. CASE SignalFromThreadWhenComplete(t)
  BY <1>3 DEF SignalFromThreadWhenComplete
<1>4. CASE CancelledInWait(t)
  BY <1>4 DEF CancelledInWait
<1>5. CASE Loop(t)
  <2>1. ThreadTypeOK'
    BY <1>5 DEF Loop, WaitForStart, CheckExitBefore, CheckExitAfter,
                SignalComplete, ActOnCancel
  <2> QED
    BY <1>5, <2>1 DEF Loop
<1> QED
  BY <1>1, <1>2, <1>3, <1>4, <1>5 DEF ThreadStep

LEMMA PollTypesParent ==
  ASSUME PollTypeOK, HandOK,
         \/ StartThread \/ SignalThreadQueIsWaiting \/ InCall
         \/ ReleaseThreads \/ InRelease
  PROVE  PollTypeOK'
<1> USE FirstThread, NextHand
    DEF PollTypeOK, ThreadTypeOK, Places, ParentPlaces, To, que, tvars
<1>1. CASE StartThread
  BY <1>1 DEF StartThread, SignalRunToStart, HandOK
<1>2. CASE SignalThreadQueIsWaiting
  BY <1>2 DEF SignalThreadQueIsWaiting
<1>3. CASE WaitForThreadToComplete
  BY <1>3 DEF WaitForThreadToComplete
<1>4. CASE Copy
  BY <1>4 DEF Copy
<1>5. CASE Reactivate
  BY <1>5 DEF Reactivate, SignalRunToStart
<1>6. CASE ReleaseThreads
  BY <1>6 DEF ReleaseThreads
<1>7. CASE TellToExit
  BY <1>7 DEF TellToExit, SetExitAndStart, NextThread, HandOK
<1>8. CASE WaitForExit
  BY <1>8 DEF WaitForExit, WaitForRunToComplete, NextThread, HandOK
<1>9. CASE DeleteThread
  BY <1>9 DEF DeleteThread, BeginDelete
<1>10. CASE JoinThread
  BY <1>10 DEF JoinThread, HandOK
<1> QED
  BY <1>1, <1>2, <1>3, <1>4, <1>5, <1>6, <1>7, <1>8, <1>9, <1>10
     DEF InCall, InRelease

-----------------------------------------------------------------------------
(* OneAnswer: what a step of a thread or of the parent does to the three     *)
(* places where the one answer can be.                                       *)

LEMMA ReportingKept ==
  ASSUME \A t \in Threads : at'[t] = "report" <=> at[t] = "report"
  PROVE  Reporting' = Reporting
BY DEF Reporting

LEMMA OneAnswerThread ==
  ASSUME PollTypeOK, OneAnswer, NEW t \in Threads, ThreadStep(t)
  PROVE  OneAnswer'
<1> USE DEF PollTypeOK, ThreadTypeOK, Goto, que
<1>1. CASE RunMethod(t)
  <2>1. Reporting' = Reporting
    BY <1>1, ReportingKept DEF RunMethod
  <2> QED
    BY <1>1, <2>1 DEF RunMethod, OneAnswer
<1>2. CASE WaitForQueToWait(t)
  <2>1. place = "asked" /\ ~done /\ Reporting = {}
    BY <1>2 DEF WaitForQueToWait, OneAnswer
  <2>2. Reporting' = {t}
    BY <1>2, <2>1 DEF WaitForQueToWait, Reporting
  <2> QED
    BY <1>2, <2>1, <2>2 DEF WaitForQueToWait, OneAnswer
<1>3. CASE SignalFromThreadWhenComplete(t)
  <2>1. t \in Reporting
    BY <1>3 DEF SignalFromThreadWhenComplete, Reporting
  <2>2. place = "asked" /\ ~waiting /\ Reporting = {t}
    BY <2>1 DEF OneAnswer
  <2>3. Reporting' = {}
    BY <1>3, <2>2 DEF SignalFromThreadWhenComplete, Reporting
  <2> QED
    BY <1>3, <2>2, <2>3 DEF SignalFromThreadWhenComplete, OneAnswer
<1>4. CASE CancelledInWait(t)
  <2>1. Reporting' = Reporting
    BY <1>4, ReportingKept DEF CancelledInWait
  <2> QED
    BY <1>4, <2>1 DEF CancelledInWait, OneAnswer
<1>5. CASE Loop(t)
  <2>1. Reporting' = Reporting
    BY <1>5, ReportingKept
       DEF Loop, WaitForStart, CheckExitBefore, CheckExitAfter, SignalComplete,
           ActOnCancel
  <2> QED
    BY <1>5, <2>1 DEF Loop, OneAnswer
<1> QED
  BY <1>1, <1>2, <1>3, <1>4, <1>5 DEF ThreadStep

LEMMA OneAnswerParent ==
  ASSUME PollTypeOK, OneAnswer,
         \/ StartThread \/ SignalThreadQueIsWaiting \/ InCall
         \/ ReleaseThreads \/ InRelease
  PROVE  OneAnswer'
<1> USE DEF PollTypeOK, ThreadTypeOK, To, que, tvars
<1>1. CASE StartThread
  <2>1. Reporting' = Reporting
    BY <1>1, ReportingKept DEF StartThread, SignalRunToStart
  <2> QED
    BY <1>1, <2>1 DEF StartThread, OneAnswer
<1>2. CASE SignalThreadQueIsWaiting
  <2>1. Reporting' = Reporting
    BY <1>2 DEF SignalThreadQueIsWaiting, Reporting
  <2> QED
    BY <1>2, <2>1 DEF SignalThreadQueIsWaiting, OneAnswer
<1>3. CASE WaitForThreadToComplete
  <2>1. Reporting' = Reporting
    BY <1>3 DEF WaitForThreadToComplete, Reporting
  <2> QED
    BY <1>3, <2>1 DEF WaitForThreadToComplete, OneAnswer
<1>4. CASE Copy \/ ReleaseThreads \/ JoinThread
  <2>1. Reporting' = Reporting
    BY <1>4 DEF Copy, ReleaseThreads, JoinThread, Reporting
  <2> QED
    BY <1>4, <2>1 DEF Copy, ReleaseThreads, JoinThread, OneAnswer
<1>5. CASE Reactivate
  <2>1. Reporting' = Reporting
    BY <1>5, ReportingKept DEF Reactivate, SignalRunToStart
  <2> QED
    BY <1>5, <2>1 DEF Reactivate, OneAnswer
<1>6. CASE TellToExit \/ WaitForExit \/ DeleteThread
  <2>1. Reporting' = Reporting
    BY <1>6, ReportingKept
       DEF TellToExit, SetExitAndStart, WaitForExit, WaitForRunToComplete,
           DeleteThread, BeginDelete
  <2> QED
    BY <1>6, <2>1 DEF TellToExit, WaitForExit, DeleteThread, NextThread,
                      OneAnswer
<1> QED
  BY <1>1, <1>2, <1>3, <1>4, <1>5, <1>6 DEF InCall, InRelease

-----------------------------------------------------------------------------
(* HandOK. *)

LEMMA HandThread ==
  ASSUME PollTypeOK, HandOK, NEW t \in Threads, ThreadStep(t)
  PROVE  HandOK'
<1> USE DEF PollTypeOK, ThreadTypeOK, Goto, que, HandOK
<1>1. CASE RunMethod(t)
  BY <1>1 DEF RunMethod
<1>2. CASE WaitForQueToWait(t)
  BY <1>2 DEF WaitForQueToWait
<1>3. CASE SignalFromThreadWhenComplete(t)
  BY <1>3 DEF SignalFromThreadWhenComplete
<1>4. CASE CancelledInWait(t)
  BY <1>4 DEF CancelledInWait
<1>5. CASE Loop(t)
  <2>1. \A u \in Threads : at'[u] = "none" => at[u] = "none"
    BY <1>5 DEF Loop, WaitForStart, CheckExitBefore, CheckExitAfter,
                SignalComplete, ActOnCancel
  <2> QED
    BY <1>5, <2>1 DEF Loop
<1> QED
  BY <1>1, <1>2, <1>3, <1>4, <1>5 DEF ThreadStep

LEMMA HandParent ==
  ASSUME PollTypeOK, OneAnswer, HandOK,
         \/ StartThread \/ SignalThreadQueIsWaiting \/ InCall
         \/ ReleaseThreads \/ InRelease
  PROVE  HandOK'
<1> USE FirstThread, NextHand
    DEF PollTypeOK, ThreadTypeOK, HandOK, To, que, tvars
<1>1. CASE StartThread
  BY <1>1 DEF StartThread, SignalRunToStart
<1>2. CASE SignalThreadQueIsWaiting
  BY <1>2 DEF SignalThreadQueIsWaiting
<1>3. CASE WaitForThreadToComplete
  BY <1>3 DEF WaitForThreadToComplete
<1>4. CASE Copy
  BY <1>4 DEF Copy
<1>5. CASE Reactivate
  BY <1>5 DEF Reactivate, SignalRunToStart
<1>6. CASE ReleaseThreads
  BY <1>6 DEF ReleaseThreads
<1>7. CASE TellToExit
  BY <1>7 DEF TellToExit, SetExitAndStart, NextThread
<1>8. CASE WaitForExit
  BY <1>8 DEF WaitForExit, WaitForRunToComplete, NextThread
<1>9. CASE DeleteThread
  BY <1>9 DEF DeleteThread, BeginDelete
<1>10. CASE JoinThread
  BY <1>10 DEF JoinThread
<1> QED
  BY <1>1, <1>2, <1>3, <1>4, <1>5, <1>6, <1>7, <1>8, <1>9, <1>10
     DEF InCall, InRelease

-----------------------------------------------------------------------------
(* ThreadOK: a step of thread t is a step of its own part, and changes the   *)
(* part of another thread only by what t reports.                            *)

LEMMA OthersKept ==
  ASSUME PollTypeOK, OneAnswer, NEW t \in Threads, ThreadStep(t),
         NEW u \in Threads, u # t, ThreadOK(u)
  PROVE  ThreadOK(u)'
<1> USE DEF PollTypeOK, ThreadTypeOK, Goto, que
<1>1. /\ at'[u] = at[u] /\ start'[u] = start[u] /\ exit'[u] = exit[u]
      /\ cancel'[u] = cancel[u] /\ fresh'[u] = fresh[u]
      /\ place' = place /\ hand' = hand
  BY DEF ThreadStep, RunMethod, WaitForQueToWait, SignalFromThreadWhenComplete,
         CancelledInWait, Loop, WaitForStart, CheckExitBefore, CheckExitAfter,
         SignalComplete, ActOnCancel
<1>2. (done' /\ u = index') <=> (done /\ u = index)
  <2>1. CASE SignalFromThreadWhenComplete(t)
    <3>1. t \in Reporting
      BY <2>1 DEF SignalFromThreadWhenComplete, Reporting
    <3>2. ~done
      BY <3>1 DEF OneAnswer
    <3> QED
      BY <2>1, <3>2 DEF SignalFromThreadWhenComplete
  <2>2. CASE ~SignalFromThreadWhenComplete(t)
    BY <2>2 DEF ThreadStep, RunMethod, WaitForQueToWait, CancelledInWait, Loop
  <2> QED
    BY <2>1, <2>2
<1> QED
  BY <1>1, <1>2
     DEF ThreadOK, Started, Pending, Unstarted, Reported, AtWork

LEMMA OwnKept ==
  ASSUME PollTypeOK, OneAnswer, NEW t \in Threads, ThreadStep(t), ThreadOK(t)
  PROVE  ThreadOK(t)'
<1> USE DEF PollTypeOK, ThreadTypeOK, Goto, que
<1>1. ~exit[t] /\ ~cancel[t]
  BY DEF ThreadOK
<1>2. CASE at[t] \in {"run", "after"}
  <2>1. Started(t) /\ ~Pending(t) /\ AtWork(t)
    BY <1>2 DEF ThreadOK, Unstarted, Reported
  <2>2. RunMethod(t) \/ WaitForQueToWait(t)
    BY <1>1, <1>2
       DEF ThreadStep, SignalFromThreadWhenComplete, CancelledInWait, Loop,
           WaitForStart, CheckExitBefore, CheckExitAfter, SignalComplete,
           ActOnCancel
  <2>3. AtWork(t)'
    BY <1>2, <2>1, <2>2 DEF AtWork, RunMethod, WaitForQueToWait
  <2>4. Started(t)' /\ ~Pending(t)'
    BY <2>1, <2>2 DEF Started, Pending, RunMethod, WaitForQueToWait
  <2> QED
    BY <1>1, <2>2, <2>3, <2>4 DEF ThreadOK, RunMethod, WaitForQueToWait
<1>3. CASE at[t] = "report"
  <2>1. Started(t) /\ ~Pending(t) /\ AtWork(t) /\ place = "asked"
    <3>1. t \in Reporting
      BY <1>3 DEF Reporting
    <3> QED
      BY <1>3, <3>1 DEF ThreadOK, Unstarted, Reported, OneAnswer
  <2>2. SignalFromThreadWhenComplete(t)
    BY <1>1, <1>3
       DEF ThreadStep, RunMethod, WaitForQueToWait, CancelledInWait, Loop,
           WaitForStart, CheckExitBefore, CheckExitAfter, SignalComplete,
           ActOnCancel
  <2>3. Reported(t)' /\ Started(t)' /\ Pending(t)'
    BY <1>3, <2>1, <2>2
       DEF Reported, AtWork, Started, Pending, SignalFromThreadWhenComplete
  <2> QED
    BY <1>1, <2>2, <2>3 DEF ThreadOK, SignalFromThreadWhenComplete
<1>4. CASE at[t] \notin {"run", "after", "report"}
  <2>1. Loop(t)
    BY <1>4 DEF ThreadStep, RunMethod, WaitForQueToWait,
                SignalFromThreadWhenComplete, CancelledInWait
  <2>2. /\ ~exit'[t] /\ ~cancel'[t]
        /\ Started(t)' = Started(t) /\ Pending(t)' = Pending(t)
        /\ fresh' = fresh /\ place' = place
    BY <1>1, <2>1
       DEF Loop, WaitForStart, CheckExitBefore, CheckExitAfter, SignalComplete,
           ActOnCancel, Started, Pending
  <2>3. \/ at[t] = "start" /\ start[t] /\ at'[t] = "check" /\ ~start'[t]
        \/ at[t] = "check" /\ at'[t] = "run" /\ start'[t] = start[t]
        \/ /\ at[t] \in {"ran", "signal", "completed"}
           /\ at'[t] \in {"ran", "signal", "completed", "start"}
           /\ start'[t] = start[t]
    BY <1>1, <1>4, <2>1
       DEF Loop, WaitForStart, CheckExitBefore, CheckExitAfter, SignalComplete,
           ActOnCancel, ThreadOK, Unstarted, Reported, AtWork
  <2> QED
    BY <2>2, <2>3 DEF ThreadOK, Unstarted, Reported, AtWork
<1> QED
  BY <1>2, <1>3, <1>4

LEMMA ThreadOKParent ==
  ASSUME PollTypeOK, OneAnswer, HandOK, NEW t \in Threads,
         ~Closing => ThreadOK(t), ~Closing',
         \/ StartThread \/ SignalThreadQueIsWaiting \/ InCall
         \/ ReleaseThreads \/ InRelease
  PROVE  ThreadOK(t)'
<1> USE DEF PollTypeOK, ThreadTypeOK, To, que, tvars
<1>1. CASE StartThread
  <2>1. hand \in Threads /\ place = "starting" /\ ThreadOK(t) /\ ~done
    BY <1>1 DEF StartThread, HandOK, Closing, OneAnswer
  <2>2. /\ exit' = exit /\ cancel' = cancel /\ fresh' = fresh /\ done' = done
        /\ place' \in {"starting", "idle"}
        /\ place' = "starting" => hand' = hand + 1
        /\ place' = "idle" => ~(hand < NumThreads)
    BY <1>1, <2>1 DEF StartThread, SignalRunToStart
  <2>3. ~Pending(t) /\ ~Pending(t)'
    BY <2>1, <2>2 DEF Pending
  <2>4. CASE t = hand
    <3>1. Unstarted(t)
      BY <2>1, <2>4, StartedBefore DEF ThreadOK, Started
    <3>2. at'[t] = "start" /\ start'[t]
      BY <1>1, <2>4, <3>1 DEF StartThread, SignalRunToStart, Unstarted
    <3>3. AtWork(t)' /\ Started(t)'
      BY <2>1, <2>2, <2>4, <3>1, <3>2, StartedBefore
         DEF AtWork, Started, Unstarted
    <3> QED
      BY <2>1, <2>2, <2>3, <3>3 DEF ThreadOK
  <2>5. CASE t # hand
    <3>1. at'[t] = at[t] /\ start'[t] = start[t]
      BY <1>1, <2>1, <2>5 DEF StartThread, SignalRunToStart
    <3>2. Started(t)' <=> Started(t)
      BY <2>1, <2>2, <2>5, StartedBefore DEF Started
    <3> QED
      BY <2>1, <2>2, <2>3, <3>1, <3>2 DEF ThreadOK, Unstarted, AtWork
  <2> QED
    BY <2>4, <2>5
<1>2. CASE SignalThreadQueIsWaiting
  <2>1. ~Pending(t) /\ ~Pending(t)' /\ Started(t) /\ Started(t)' /\ ThreadOK(t)
    BY <1>2 DEF SignalThreadQueIsWaiting, Pending, Started, Closing, OneAnswer
  <2> QED
    BY <1>2, <2>1 DEF SignalThreadQueIsWaiting, ThreadOK, AtWork
<1>3. CASE WaitForThreadToComplete
  <2>1. /\ Pending(t)' <=> Pending(t)
        /\ Started(t) /\ Started(t)' /\ ThreadOK(t)
        /\ place # "restart" /\ place' # "restart"
    BY <1>3 DEF WaitForThreadToComplete, Pending, Started, Closing
  <2> QED
    BY <1>3, <2>1 DEF WaitForThreadToComplete, ThreadOK, AtWork, Reported
<1>4. CASE Copy
  <2>1. /\ Pending(t) <=> t = hand
        /\ Pending(t)' <=> t = hand
        /\ Started(t) /\ Started(t)' /\ ThreadOK(t)
    BY <1>4 DEF Copy, Pending, Started, Closing
  <2> QED
    BY <1>4, <2>1 DEF Copy, ThreadOK, AtWork, Reported
<1>5. CASE Reactivate
  <2>1. /\ Pending(t) <=> t = hand
        /\ ~Pending(t)'
        /\ Started(t) /\ Started(t)' /\ ThreadOK(t)
    BY <1>5 DEF Reactivate, Pending, Started, Closing
  <2>2. exit' = exit /\ cancel' = cancel /\ fresh' = fresh
    BY <1>5 DEF Reactivate, SignalRunToStart
  <2>3. CASE t = hand
    <3>1. Reported(t) /\ ~fresh[t]
      BY <1>5, <2>1, <2>3 DEF ThreadOK, Reported, Reactivate
    <3>2. start'[t] /\ at'[t] = at[t]
      BY <1>5, <2>3, <3>1 DEF Reactivate, SignalRunToStart, Reported
    <3> QED
      BY <2>1, <2>2, <3>1, <3>2 DEF ThreadOK, Reported, AtWork
  <2>4. CASE t # hand
    <3>1. start'[t] = start[t] /\ at'[t] = at[t]
      BY <1>5, <2>4 DEF Reactivate, SignalRunToStart, HandOK
    <3> QED
      BY <2>1, <2>2, <2>4, <3>1 DEF ThreadOK, AtWork
  <2> QED
    BY <2>3, <2>4
<1>6. ~(ReleaseThreads \/ InRelease)
  BY DEF ReleaseThreads, InRelease, TellToExit, WaitForExit, DeleteThread,
         JoinThread, NextThread, Closing
<1> QED
  BY <1>1, <1>2, <1>3, <1>4, <1>5, <1>6 DEF InCall

-----------------------------------------------------------------------------
(* The invariant and what follows from it. *)

LEMMA PollInvInit == PollInit => PollInv
<1> SUFFICES ASSUME PollInit PROVE PollInv
  OBVIOUS
<1>1. PollTypeOK
  BY PollTypesInit
<1>2. OneAnswer
  BY DEF PollInit, ThreadInit, OneAnswer, Reporting
<1>3. HandOK
  BY FirstThread DEF PollInit, ThreadInit, HandOK
<1>4. ASSUME NEW t \in Threads PROVE ThreadOK(t)
  <2>1. ~Started(t) /\ ~Pending(t)
    BY StartedBefore, FirstThread DEF PollInit, Started, Pending
  <2> QED
    BY <2>1 DEF PollInit, ThreadInit, ThreadOK, Unstarted
<1> QED
  BY <1>1, <1>2, <1>3, <1>4 DEF PollInv

LEMMA ThreadLeavesPlace ==
  ASSUME NEW t \in Threads, ThreadStep(t)
  PROVE  place' = place
BY DEF ThreadStep, RunMethod, WaitForQueToWait, SignalFromThreadWhenComplete,
       CancelledInWait, Loop

LEMMA PollInvStep == PollInv /\ [PollNext]_qvars => PollInv'
<1> SUFFICES ASSUME PollInv, [PollNext]_qvars PROVE PollInv'
  OBVIOUS
<1> PollTypeOK /\ OneAnswer /\ HandOK
  BY DEF PollInv
<1>1. CASE UNCHANGED qvars
  BY <1>1 DEF qvars, tvars, que, PollInv, PollTypeOK, ThreadTypeOK, OneAnswer,
              Reporting, HandOK, Closing, ThreadOK, Started, Pending,
              Unstarted, Reported, AtWork
<1>2. ASSUME NEW t \in Threads, ThreadStep(t) PROVE PollInv'
  <2>1. PollTypeOK' /\ OneAnswer' /\ HandOK'
    BY <1>2, PollTypesThread, OneAnswerThread, HandThread
  <2>2. ASSUME ~Closing', NEW u \in Threads PROVE ThreadOK(u)'
    <3>1. ThreadOK(u) /\ ThreadOK(t)
      BY <1>2, <2>2, ThreadLeavesPlace DEF PollInv, Closing
    <3> QED
      BY <1>2, <3>1, OthersKept, OwnKept
  <2> QED
    BY <2>1, <2>2 DEF PollInv
<1>3. ASSUME \/ StartThread \/ SignalThreadQueIsWaiting \/ InCall
             \/ ReleaseThreads \/ InRelease
      PROVE  PollInv'
  <2>1. PollTypeOK' /\ OneAnswer' /\ HandOK'
    BY <1>3, PollTypesParent, OneAnswerParent, HandParent
  <2>2. ASSUME ~Closing', NEW t \in Threads PROVE ThreadOK(t)'
    <3>1. ~Closing => ThreadOK(t)
      BY DEF PollInv
    <3> QED
      BY <1>3, <2>2, <3>1, ThreadOKParent
  <2> QED
    BY <2>1, <2>2 DEF PollInv
<1> QED
  BY <1>1, <1>2, <1>3 DEF PollNext

(* The inductive invariant of the polling queue: types, the one answer, and  *)
(* where each thread is.                                                     *)
THEOREM PollInvariant == PollSpec => []PollInv
<1>1. QED
  BY PollInvInit, PollInvStep, PTL DEF PollSpec

(* At most one answer is under way, and exactly one while the parent waits.  *)
THEOREM PollOneAnswer == PollSpec => []OneAnswer
<1>1. PollInv => OneAnswer
  BY DEF PollInv
<1> QED
  BY <1>1, PollInvariant, PTL

LEMMA AtRest ==
  ASSUME PollInv, ~Closing, NEW t \in Threads
  PROVE  /\ fresh[t] => ~InMethod(t)
         /\ at[t] \in {"after", "report"} => fresh[t]
         /\ Pending(t) => ~InMethod(t) /\ fresh[t] = (place # "restart")
         /\ Started(t) /\ ~Pending(t)
              => InMethod(t) \/ at[t] \in {"after", "report"}
<1>1. ThreadOK(t)
  BY DEF PollInv
<1> QED
  BY <1>1 DEF ThreadOK, Unstarted, Reported, AtWork, InMethod

(* The result of a thread is not touched by its method from the time it is   *)
(* reported until the parent has copied it and sends the thread back.        *)
THEOREM PollCopiedAtRest == PollSpec => []CopiedAtRest
<1>1. PollInv => CopiedAtRest
  <2> SUFFICES ASSUME PollInv, ~Closing PROVE CopiedAtRest
    BY DEF CopiedAtRest
  <2>1. place \in {"copy", "restart"} => hand \in Threads /\ Pending(hand)
    BY DEF PollInv, HandOK, Pending
  <2>2. place = "asked" /\ done => index \in Threads /\ Pending(index)
    BY DEF PollInv, HandOK, Pending
  <2>3. place = "copy" => fresh[hand]
    BY <2>1, AtRest DEF PollInv, PollTypeOK
  <2>4. place \in {"copy", "restart"} => ~InMethod(hand)
    BY <2>1, AtRest
  <2>5. place = "asked" /\ done => fresh[index]
    BY <2>2, AtRest DEF PollInv, PollTypeOK
  <2> QED
    BY <2>3, <2>4, <2>5, AtRest DEF CopiedAtRest
<1> QED
  BY <1>1, PollInvariant, PTL

(* Outside the destructor a thread that was started is at work, has a result *)
(* to hand over, or is the one the parent deals with.                        *)
THEOREM PollNoThreadIdle == PollSpec => []NoThreadIdle
<1>1. PollInv => NoThreadIdle
  <2> SUFFICES ASSUME PollInv, place \in {"idle", "asked", "copy", "restart"},
                      NEW t \in Threads
               PROVE  \/ InMethod(t) \/ at[t] \in {"after", "report"}
                      \/ place = "asked" /\ done /\ index = t
                      \/ place \in {"copy", "restart"} /\ hand = t
    BY DEF NoThreadIdle
  <2>1. ~Closing /\ Started(t)
    BY DEF Closing, Started
  <2>2. CASE Pending(t)
    BY <2>2 DEF Pending
  <2>3. CASE ~Pending(t)
    BY <2>1, <2>3, AtRest
  <2> QED
    BY <2>2, <2>3
<1> QED
  BY <1>1, PollInvariant, PTL

-----------------------------------------------------------------------------
(* The queue implements PolledWork, but for the fairness. *)

Work(t) == IF at[t] = "none" THEN "idle"
           ELSE IF fresh[t] THEN "finished" ELSE "working"
WorkMap == [t \in Threads |-> Work(t)]
Caller == IF place \in {"asked", "copy"} THEN "in"
          ELSE IF Closing THEN "closed" ELSE "out"

LEMMA WorkersAreThreads == PolledWork!Workers = Threads
BY DEF PolledWork!Workers, Threads

(* A step in which one thread moves on, as seen by PolledWork. *)
LEMMA WorkUpdated ==
  ASSUME PollTypeOK, PollTypeOK', NEW t \in Threads,
         \A u \in Threads : u # t => at'[u] = at[u] /\ fresh'[u] = fresh[u]
  PROVE  WorkMap' = [WorkMap EXCEPT ![t] = Work(t)']
BY DEF WorkMap, Work

LEMMA WorkUnchanged ==
  ASSUME PollTypeOK, fresh' = fresh,
         \A t \in Threads : at'[t] = "none" <=> at[t] = "none"
  PROVE  WorkMap' = WorkMap
BY DEF WorkMap, Work

LEMMA WorkUpdate ==
  ASSUME PollTypeOK, NEW t \in Threads
  PROVE  WorkMap \in [Threads -> {"idle", "working", "finished"}]
         /\ WorkMap[t] = Work(t)
BY DEF WorkMap, Work

LEMMA WorkThread ==
  ASSUME PollInv, PollTypeOK', NEW t \in Threads, ThreadStep(t)
  PROVE  /\ Caller' = Caller
         /\ \/ WorkMap' = WorkMap
            \/ /\ Work(t) = "working"
               /\ WorkMap' = [WorkMap EXCEPT ![t] = "finished"]
<1> PollTypeOK /\ HandOK
  BY DEF PollInv
<1> USE DEF PollTypeOK, ThreadTypeOK, Goto, que
<1>1. Caller' = Caller
  BY ThreadLeavesPlace DEF Caller, Closing
<1>2. CASE RunMethod(t)
  <2>1. at[t] # "none" /\ at'[t] # "none" /\ fresh'[t]
    BY <1>2 DEF RunMethod
  <2>2. WorkMap' = [WorkMap EXCEPT ![t] = Work(t)']
    BY <1>2, WorkUpdated DEF RunMethod
  <2>3. Work(t)' = "finished"
    BY <2>1 DEF Work
  <2>4. CASE fresh[t]
    <3>1. fresh' = fresh
      BY <1>2, <2>4 DEF RunMethod
    <3>2. \A u \in Threads : at'[u] = "none" <=> at[u] = "none"
      BY <1>2 DEF RunMethod
    <3> QED
      BY <1>1, <3>1, <3>2, WorkUnchanged
  <2>5. CASE ~fresh[t]
    BY <1>1, <2>1, <2>2, <2>3, <2>5 DEF Work
  <2> QED
    BY <2>4, <2>5
<1>3. CASE ~RunMethod(t)
  <2>1. fresh' = fresh
    BY <1>3 DEF ThreadStep, WaitForQueToWait, SignalFromThreadWhenComplete,
                CancelledInWait, Loop
  <2>2. \A u \in Threads : at'[u] = "none" <=> at[u] = "none"
    BY <1>3 DEF ThreadStep, WaitForQueToWait, SignalFromThreadWhenComplete,
                CancelledInWait, Loop, WaitForStart, CheckExitBefore,
                CheckExitAfter, SignalComplete, ActOnCancel
  <2> QED
    BY <1>1, <2>1, <2>2, WorkUnchanged
<1> QED
  BY <1>2, <1>3

(* Starting a thread, told to exit or not, begins its work if it is the      *)
(* first time.                                                               *)
LEMMA WorkStarted ==
  ASSUME PollInv, PollTypeOK', hand \in Threads, fresh' = fresh,
         at' = IF at[hand] = "none" THEN [at EXCEPT ![hand] = "start"] ELSE at
  PROVE  \/ WorkMap' = WorkMap
         \/ /\ Work(hand) = "idle"
            /\ WorkMap' = [WorkMap EXCEPT ![hand] = "working"]
<1> PollTypeOK /\ HandOK
  BY DEF PollInv
<1>1. CASE at[hand] = "none"
  <2>1. at'[hand] = "start" /\ ~fresh'[hand]
    BY <1>1 DEF PollTypeOK, ThreadTypeOK, HandOK
  <2>2. Work(hand) = "idle"
    BY <1>1 DEF Work
  <2>3. \A u \in Threads : u # hand => at'[u] = at[u] /\ fresh'[u] = fresh[u]
    BY <1>1 DEF PollTypeOK, ThreadTypeOK
  <2>4. WorkMap' = [u \in Threads |-> IF u = hand THEN "working" ELSE WorkMap[u]]
    BY <2>1, <2>3 DEF WorkMap, Work
  <2>5. [WorkMap EXCEPT ![hand] = "working"]
          = [u \in Threads |-> IF u = hand THEN "working" ELSE WorkMap[u]]
    BY DEF WorkMap
  <2> QED
    BY <2>2, <2>4, <2>5
<1>2. CASE at[hand] # "none"
  BY <1>2, WorkUnchanged
<1> QED
  BY <1>1, <1>2

LEMMA WorkParent ==
  ASSUME PollInv, PollTypeOK',
         \/ StartThread \/ SignalThreadQueIsWaiting \/ InCall
         \/ ReleaseThreads \/ InRelease
  PROVE  \/ WorkMap' = WorkMap /\ Caller' = Caller
         \/ \E t \in Threads : /\ Work(t) = "idle" /\ Caller' = Caller
                               /\ WorkMap' = [WorkMap EXCEPT ![t] = "working"]
         \/ WorkMap' = WorkMap /\ Caller = "out" /\ Caller' \in {"in", "closed"}
         \/ /\ Caller = "in" /\ Caller' = "out"
            /\ \E t \in Threads :
                 /\ Work(t) = "finished"
                 /\ WorkMap' = [WorkMap EXCEPT ![t] = "working"]
<1> PollTypeOK /\ HandOK
  BY DEF PollInv
<1> USE DEF To, que, tvars
<1>1. CASE StartThread
  <2>1. hand \in Threads /\ Caller' = Caller
    BY <1>1 DEF StartThread, HandOK, Caller, Closing
  <2>2. \/ WorkMap' = WorkMap
        \/ /\ Work(hand) = "idle"
           /\ WorkMap' = [WorkMap EXCEPT ![hand] = "working"]
    BY <1>1, <2>1, WorkStarted DEF StartThread, SignalRunToStart
  <2> QED
    BY <2>1, <2>2
<1>2. CASE SignalThreadQueIsWaiting
  BY <1>2, WorkUnchanged DEF SignalThreadQueIsWaiting, Caller, Closing
<1>3. CASE WaitForThreadToComplete
  BY <1>3, WorkUnchanged DEF WaitForThreadToComplete, Caller
<1>4. CASE Copy
  <2>1. hand \in Threads /\ ThreadOK(hand) /\ Pending(hand) /\ place = "copy"
    BY <1>4 DEF Copy, HandOK, PollInv, Closing, Pending
  <2>2. at[hand] # "none" /\ fresh[hand]
    BY <2>1 DEF ThreadOK, Reported, PollTypeOK
  <2>3. Work(hand) = "finished"
    BY <2>2 DEF Work
  <2>4. WorkMap' = [WorkMap EXCEPT ![hand] = "working"]
    <3>1. /\ \A u \in Threads : u # hand => fresh'[u] = fresh[u]
          /\ at' = at /\ ~fresh'[hand]
      BY <1>4, <2>1 DEF Copy, PollTypeOK
    <3>2. WorkMap' = [u \in Threads |-> IF u = hand THEN "working"
                                        ELSE WorkMap[u]]
      BY <2>2, <3>1 DEF WorkMap, Work
    <3>3. [WorkMap EXCEPT ![hand] = "working"]
            = [u \in Threads |-> IF u = hand THEN "working" ELSE WorkMap[u]]
      BY DEF WorkMap
    <3> QED
      BY <3>2, <3>3
  <2>5. Caller = "in" /\ Caller' = "out"
    BY <1>4 DEF Copy, Caller, Closing
  <2> QED
    BY <2>1, <2>3, <2>4, <2>5
<1>5. CASE Reactivate
  <2>1. hand \in Threads /\ Caller' = Caller
    BY <1>5 DEF Reactivate, HandOK, Caller, Closing
  <2>2. \/ WorkMap' = WorkMap
        \/ /\ Work(hand) = "idle"
           /\ WorkMap' = [WorkMap EXCEPT ![hand] = "working"]
    BY <1>5, <2>1, WorkStarted DEF Reactivate, SignalRunToStart
  <2> QED
    BY <2>1, <2>2
<1>6. CASE ReleaseThreads
  <2>1. Caller = "out" /\ Caller' = "closed"
    BY <1>6 DEF ReleaseThreads, Caller, Closing
  <2> QED
    BY <1>6, <2>1, WorkUnchanged DEF ReleaseThreads
<1>7. CASE InRelease
  <2>1. Caller' = Caller /\ hand \in Threads
    BY <1>7 DEF InRelease, TellToExit, WaitForExit, DeleteThread, JoinThread,
                NextThread, HandOK, Caller, Closing
  <2>2. CASE TellToExit
    <3>1. \/ WorkMap' = WorkMap
          \/ /\ Work(hand) = "idle"
             /\ WorkMap' = [WorkMap EXCEPT ![hand] = "working"]
      BY <2>1, <2>2, WorkStarted DEF TellToExit, SetExitAndStart
    <3> QED
      BY <2>1, <3>1
  <2>3. CASE ~TellToExit
    <3>1. at' = at /\ fresh' = fresh
      BY <1>7, <2>3 DEF InRelease, WaitForExit, WaitForRunToComplete,
                        DeleteThread, BeginDelete, JoinThread
    <3> QED
      BY <2>1, <3>1, WorkUnchanged
  <2> QED
    BY <2>2, <2>3
<1> QED
  BY <1>1, <1>2, <1>3, <1>4, <1>5, <1>6, <1>7 DEF InCall

LEMMA WorkStep ==
  PollInv /\ PollInv' /\ [PollNext]_qvars
    => [PolledWork!WorkNext]_(PolledWork!wvars)
<1> SUFFICES ASSUME PollInv, PollInv', [PollNext]_qvars
             PROVE  [PolledWork!WorkNext]_(PolledWork!wvars)
  OBVIOUS
<1> PollTypeOK /\ PollTypeOK'
  BY DEF PollInv
<1>1. PolledWork!wvars = <<WorkMap, Caller>>
  BY DEF PolledWork!wvars, WorkMap, Work, Caller
<1>2. CASE WorkMap' = WorkMap /\ Caller' = Caller
  BY <1>2 DEF PolledWork!wvars, WorkMap, Work, Caller
<1>3. ASSUME NEW t \in Threads, Work(t) = "working", Caller' = Caller,
             WorkMap' = [WorkMap EXCEPT ![t] = "finished"]
      PROVE  PolledWork!WorkNext
  <2>1. WorkMap[t] = "working"
    BY <1>3, WorkUpdate
  <2>2. PolledWork!Finish(t)
    BY <1>3, <2>1 DEF PolledWork!Finish, WorkMap, Work, Caller
  <2> QED
    BY <2>2, WorkersAreThreads DEF PolledWork!WorkNext
<1>4. ASSUME NEW t \in Threads, Work(t) = "idle", Caller' = Caller,
             WorkMap' = [WorkMap EXCEPT ![t] = "working"]
      PROVE  PolledWork!WorkNext
  <2>1. WorkMap[t] = "idle"
    BY <1>4, WorkUpdate
  <2>2. PolledWork!Begin(t)
    BY <1>4, <2>1 DEF PolledWork!Begin, WorkMap, Work, Caller
  <2> QED
    BY <2>2, WorkersAreThreads DEF PolledWork!WorkNext
<1>5. ASSUME WorkMap' = WorkMap, Caller = "out", Caller' \in {"in", "closed"}
      PROVE  PolledWork!WorkNext
  <2>1. PolledWork!Ask \/ PolledWork!Close
    BY <1>5 DEF PolledWork!Ask, PolledWork!Close, WorkMap, Work, Caller
  <2> QED
    BY <2>1 DEF PolledWork!WorkNext
<1>6. ASSUME NEW t \in Threads, Work(t) = "finished",
             Caller = "in", Caller' = "out",
             WorkMap' = [WorkMap EXCEPT ![t] = "working"]
      PROVE  PolledWork!WorkNext
  <2>1. WorkMap[t] = "finished"
    BY <1>6, WorkUpdate
  <2>2. PolledWork!Report(t)
    BY <1>6, <2>1 DEF PolledWork!Report, WorkMap, Work, Caller
  <2> QED
    BY <2>2, WorkersAreThreads DEF PolledWork!WorkNext
<1>7. CASE UNCHANGED qvars
  <2>1. WorkMap' = WorkMap /\ Caller' = Caller
    BY <1>7 DEF qvars, tvars, que, WorkMap, Work, Caller, Closing
  <2> QED
    BY <1>2, <2>1
<1>8. ASSUME NEW t \in Threads, ThreadStep(t)
      PROVE  [PolledWork!WorkNext]_(PolledWork!wvars)
  BY <1>2, <1>3, <1>8, WorkThread
<1>9. ASSUME \/ StartThread \/ SignalThreadQueIsWaiting \/ InCall
             \/ ReleaseThreads \/ InRelease
      PROVE  [PolledWork!WorkNext]_(PolledWork!wvars)
  BY <1>2, <1>4, <1>5, <1>6, <1>9, WorkParent
<1> QED
  BY <1>7, <1>8, <1>9 DEF PollNext

(* Every behaviour of the queue is one of PolledWork, but for its fairness:  *)
(* no result is handed over twice, none is overwritten before it is, and     *)
(* each call hands over one.                                                 *)
THEOREM PollHandsOverWork ==
  PollSpec => PolledWork!WorkInit /\ [][PolledWork!WorkNext]_(PolledWork!wvars)
<1>1. PollInit => PolledWork!WorkInit
  BY WorkersAreThreads
     DEF PollInit, ThreadInit, PolledWork!WorkInit, Closing
<1> QED
  BY <1>1, PollInvInit, PollInvStep, WorkStep, PTL DEF PollSpec
=============================================================================
