------------------------- MODULE TaThreadPool_proofs ------------------------
(* Proofs about the thread pool, for any number of threads and jobs.         *)
EXTENDS TaThreadPool, QueueLemmas, FiniteSetTheorems, TLAPS

USE NumThreadsAssumption, NumJobsAssumption

-----------------------------------------------------------------------------
LEMMA MainPool ==
  Main \in Seq(Threads) /\ ToSet(Main) = Threads /\ IsInjective(Main)
<1>1. Main \in Seq(Threads)
  BY DEF Main, Threads
<1>2. DOMAIN Main = Threads /\ \A t \in Threads : Main[t] = t
  BY DEF Main
<1>3. QED
  BY <1>1, <1>2 DEF ToSet, IsInjective

LEMMA BusyFinite ==
  /\ IsFiniteSet(Threads)
  /\ \A S \in SUBSET Threads : IsFiniteSet(S) /\ Cardinality(S) \in Nat
<1>1. IsFiniteSet(Threads)
  BY FS_Interval DEF Threads
<1>2. QED
  BY <1>1, FS_Subset, FS_CardinalityType
-----------------------------------------------------------------------------
(* Types, with what the parent has in hand.                                  *)

TypeInv == PoolTypeOK /\ ParentOK

LEMMA TypeInit == PoolInit => TypeInv
<1> SUFFICES ASSUME PoolInit PROVE TypeInv
  OBVIOUS
<1>1. ThreadTypeOK
  BY DEF PoolInit, ThreadInit, ThreadTypeOK, Places
<1>2. PoolTypeOK
  <2>1. /\ avail \in Seq(Threads) /\ done \in Seq(Threads)
        /\ results \in Seq(Jobs \cup {0})
    BY MainPool DEF PoolInit
  <2>2. /\ given \in [Threads -> Jobs \cup {0}]
        /\ out \in [Threads -> Jobs \cup {0}]
        /\ ran \in [Jobs -> Nat]
    BY DEF PoolInit
  <2>3. limit \in 0 .. NumJobs
    BY DEF PoolInit
  <2> QED
    BY <1>1, <2>1, <2>2, <2>3 DEF PoolInit, PoolTypeOK, ParentPlaces
<1>3. ParentOK
  BY DEF PoolInit, ParentOK, PlacesWithHand, Threads
<1>4. QED
  BY <1>2, <1>3 DEF TypeInv

LEMMA NextInRange ==
  ASSUME NEW l \in 0 .. NumJobs, NEW m \in l .. NumJobs, NEW n \in 1 .. l + 1
  PROVE  m \in 0 .. NumJobs /\ n \in 1 .. m + 1
OBVIOUS

LEMMA NoMoreJobs ==
  ASSUME limit \in Nat, next \in 1 .. limit + 1, ~MoreJobs
  PROVE  next = limit + 1
BY DEF MoreJobs

LEMMA TypeThread ==
  ASSUME TypeInv, NEW t \in Threads, ThreadStep(t)
  PROVE  TypeInv'
<1> USE DEF TypeInv, PoolTypeOK, ParentOK, ThreadTypeOK, Places,
        ParentPlaces, PlacesWithHand, Goto
<1>1. CASE Loop(t)
  <2>1. /\ at' \in [Threads -> Places] /\ start' \in [Threads -> BOOLEAN]
        /\ complete' \in [Threads -> BOOLEAN]
        /\ UNCHANGED <<exit, cancel, pool, parent, work>>
    BY <1>1 DEF Loop, WaitForStart, CheckExitBefore, CheckExitAfter,
       SignalComplete, ActOnCancel
  <2> QED
    BY <2>1 DEF pool, parent, work
<1>2. CASE RunJob(t)
  BY <1>2 DEF RunJob, pool, parent
<1>3. CASE AddThreadToDone(t)
  <2>1. done' \in Seq(Threads)
    BY <1>3, Appended DEF AddThreadToDone
  <2> QED
    BY <1>3, <2>1 DEF AddThreadToDone, work
<1>4. QED
  BY <1>1, <1>2, <1>3 DEF ThreadStep

LEMMA TypeParent ==
  ASSUME TypeInv, Call \/ InitForRun \/ BeginDestructor \/ WakeSpuriously
  PROVE  TypeInv'
<1> USE DEF TypeInv, PoolTypeOK, ParentOK, ParentPlaces, PlacesWithHand, To
<1>1. CASE LoopHead
  <2>1. place' \in {"getDone", "over", "collect"}
        /\ (place' = "over" => ready) /\ (place' = "collect" => ready')
    BY <1>1 DEF LoopHead, AllDone
  <2>2. ready' \in BOOLEAN /\ (ready' => next = limit + 1)
    <3>1. limit \in Nat /\ next \in 1 .. limit + 1
      OBVIOUS
    <3>2. CASE ready' = ready
      BY <3>2
    <3>3. CASE ready' = TRUE /\ ~MoreJobs
      BY <3>1, <3>3, NoMoreJobs
    <3> QED
      BY <1>1, <3>2, <3>3 DEF LoopHead
  <2>3. ready' = ready \/ ready'
    BY <1>1 DEF LoopHead
  <2> QED
    BY <1>1, <2>1, <2>2, <2>3 DEF LoopHead, tvars, work, ThreadTypeOK
<1>2. ASSUME NEW p, TakeDone(p)
      PROVE  /\ hand' \in Threads /\ isDone' = TRUE
             /\ avail' \in Seq(Threads) /\ done' \in Seq(Threads)
  BY <1>2, Taken DEF TakeDone
<1>3. ASSUME NEW p, TakeAvail(p)
      PROVE  /\ hand' \in Threads /\ isDone' = FALSE
             /\ avail' \in Seq(Threads) /\ done' \in Seq(Threads)
  BY <1>3, Taken DEF TakeAvail
<1>4. CASE GetDoneThread
  BY <1>4, <1>2 DEF GetDoneThread, TakeDone, PoolUnchangedButLists, tvars,
     work, ThreadTypeOK
<1>5. CASE GetAvailThread
  BY <1>5, <1>3 DEF GetAvailThread, TakeAvail, PoolUnchangedButLists, tvars,
     work, ThreadTypeOK
<1>6. CASE GetLocked
  BY <1>6, <1>2, <1>3 DEF GetLocked, TakeDone, TakeAvail,
     PoolUnchangedButLists, tvars, work, ThreadTypeOK
<1>7. ASSUME NEW p, HandleDone(p), hand \in Threads
      PROVE  /\ avail' \in Seq(Threads)
             /\ results' \in Seq(Jobs \cup {0})
  <2>1. out[hand] \in Jobs \cup {0}
    BY <1>7
  <2> QED
    BY <1>7, <2>1, Appended DEF HandleDone
<1>8. CASE UseThread
  <2>1. hand \in Threads /\ 0 \notin Threads
    BY <1>8 DEF UseThread, Threads
  <2>2. CASE HandleDone("top")
    BY <1>8, <2>1, <2>2, <1>7 DEF UseThread, HandleDone, tvars, work,
       ThreadTypeOK
  <2>3. CASE StartJob
    <3>1. next \in Jobs
      BY <2>3 DEF StartJob, MoreJobs, Jobs
    <3> QED
      BY <1>8, <2>1, <2>3, <3>1 DEF UseThread, StartJob, MoreJobs,
         SignalRunToStart, ThreadTypeOK, Places
  <2>4. CASE SetReadyForDoneCheck
    BY <1>8, <2>1, <2>4 DEF UseThread, SetReadyForDoneCheck, MoreJobs, tvars,
       work, ThreadTypeOK
  <2> QED
    BY <1>8, <2>2, <2>3, <2>4 DEF UseThread
<1>9. CASE CheckAllDone
  BY <1>9 DEF CheckAllDone, AllDone, tvars, pool, work, ThreadTypeOK
<1>10. CASE GetNextDoneThread
  BY <1>10, <1>2 DEF GetNextDoneThread, TakeDone, PoolUnchangedButLists,
     tvars, work, ThreadTypeOK
<1>11. CASE CollectDone
  <2>1. hand \in Threads /\ 0 \notin Threads
    BY <1>11 DEF CollectDone, Threads
  <2> QED
    BY <1>11, <2>1, <1>7 DEF CollectDone, HandleDone, tvars, work,
       ThreadTypeOK
<1>12. CASE DeleteThread
  BY <1>12 DEF DeleteThread, BeginDelete, pool, work, ThreadTypeOK
<1>13. CASE JoinThread
  <2>1. hand \in Threads /\ 0 \notin Threads
        /\ (hand < NumThreads => hand + 1 \in Threads)
    BY <1>13 DEF JoinThread, Threads
  <2> QED
    BY <1>13, <2>1 DEF JoinThread, tvars, work, ThreadTypeOK
<1>14. CASE InitForRun
  <2>1. limit' \in 0 .. NumJobs /\ next' \in 1 .. limit' + 1
    BY <1>14, NextInRange DEF InitForRun
  <2>2. avail' \in Seq(Threads) /\ done' \in Seq(Threads)
    BY <1>14, MainPool DEF InitForRun
  <2> QED
    BY <1>14, <2>1, <2>2 DEF InitForRun, tvars, work, ThreadTypeOK
<1>15. CASE BeginDestructor
  BY <1>15 DEF BeginDestructor, tvars, work, ThreadTypeOK, Threads
<1>16. CASE WakeSpuriously
  BY <1>16 DEF WakeSpuriously, tvars, pool, work, ThreadTypeOK
<1>17. QED
  BY <1>1, <1>4, <1>5, <1>6, <1>8, <1>9, <1>10, <1>11, <1>12, <1>13, <1>14,
     <1>15, <1>16 DEF Call

LEMMA TypeStep == TypeInv /\ [PoolNext]_pvars => TypeInv'
<1> SUFFICES ASSUME TypeInv, [PoolNext]_pvars PROVE TypeInv'
  OBVIOUS
<1>1. CASE UNCHANGED pvars
  BY <1>1 DEF TypeInv, PoolTypeOK, ParentOK, ThreadTypeOK, pvars, tvars, pool,
     parent, work
<1>2. QED
  BY <1>1, TypeThread, TypeParent DEF PoolNext, Gone

(* Every variable of the pool, its threads and its parent keeps its type,    *)
(* for any number of threads and jobs.                                       *)
THEOREM PoolTypesHold == PoolSpec => []PoolTypeOK
<1>1. PoolSpec => []TypeInv
  BY TypeInit, TypeStep, PTL DEF PoolSpec
<1>2. TypeInv => PoolTypeOK
  BY DEF TypeInv
<1>3. QED
  BY <1>1, <1>2, PTL
-----------------------------------------------------------------------------
(* The invariant: who is busy, and what each step does to that.              *)

Inv == TypeInv /\ PoolInv

LEMMA IdleIsNotBusy ==
  \A t \in Threads : t \in Busy <=> start[t] \/ at[t] \notin {"none", "start"}
BY DEF Busy, Idle

LEMMA QuietOver ==
  ASSUME Inv, place \in {"outside", "over"}
  PROVE  Busy = {} /\ done = <<>> /\ Working
<1>1. Working
  BY DEF Working
<1>2. nStarted = nDone /\ done = <<>>
  BY DEF Inv, PoolInv, OverOK
<1>3. nDone \in Nat /\ nStarted = nDone + Cardinality(Busy)
  BY <1>1 DEF Inv, TypeInv, PoolTypeOK, PoolInv, CountsOK
<1>4. IsFiniteSet(Busy) /\ Cardinality(Busy) \in Nat
  BY BusyFinite DEF Busy
<1>5. Cardinality(Busy) = 0
  BY <1>2, <1>3, <1>4
<1>6. Busy = {}
  BY <1>4, <1>5, FS_EmptySet
<1>7. QED
  BY <1>1, <1>2, <1>6

LEMMA LoopEffect ==
  ASSUME Inv, NEW t \in Threads, Loop(t)
  PROVE  /\ ThreadsOK' /\ UNCHANGED <<pool, parent, work>>
         /\ Working => t \in Busy /\ Busy' = Busy /\ ToRun' = ToRun
<1>1. /\ ThreadsOK /\ ThreadTypeOK
      /\ UNCHANGED <<pool, parent, work>> /\ Working' = Working
  BY DEF Inv, TypeInv, PoolTypeOK, PoolInv, Loop, parent, Working
<1>2. CASE Working
  <2>1. /\ ~exit[t] /\ ~cancel[t] /\ exit' = exit /\ cancel' = cancel
        /\ \A u \in Threads \ {t} : at'[u] = at[u] /\ start'[u] = start[u]
    BY <1>1, <1>2 DEF Loop, WaitForStart, CheckExitBefore, CheckExitAfter,
       SignalComplete, ActOnCancel, Goto, ThreadsOK, ThreadTypeOK
  <2>2. \/ at[t] = "start" /\ start[t] /\ at'[t] = "check" /\ ~start'[t]
        \/ at[t] = "check" /\ ~start[t] /\ at'[t] = "run" /\ ~start'[t]
        \/ at[t] = "ran" /\ ~start[t] /\ at'[t] = "signal" /\ ~start'[t]
        \/ at[t] = "signal" /\ ~start[t] /\ at'[t] = "completed" /\ ~start'[t]
    BY <1>1, <1>2, <2>1 DEF Loop, WaitForStart, CheckExitBefore,
       CheckExitAfter, SignalComplete, ActOnCancel, Goto, ThreadsOK,
       ThreadTypeOK
  <2>3. ThreadsOK'
    BY <1>1, <1>2, <2>1, <2>2 DEF ThreadsOK
  <2>4. t \in Busy /\ Busy' = Busy
    BY <2>1, <2>2 DEF Busy, Idle
  <2>5. ToRun' = ToRun
    BY <2>1, <2>2 DEF ToRun
  <2> QED
    BY <1>1, <2>3, <2>4, <2>5
<1>3. CASE ~Working
  <2>1. /\ at' = [at EXCEPT ![t] = "ended"] /\ start' = start
    BY <1>1, <1>3 DEF Loop, WaitForStart, CheckExitBefore, CheckExitAfter,
       SignalComplete, ActOnCancel, Goto, ThreadsOK
  <2> QED
    BY <1>1, <1>3, <2>1 DEF ThreadsOK, ThreadTypeOK
<1>4. QED
  BY <1>2, <1>3

LEMMA RunEffect ==
  ASSUME Inv, NEW t \in Threads, RunJob(t)
  PROVE  /\ Working /\ Working' /\ ThreadsOK'
         /\ t \in Busy /\ Busy' = Busy /\ t \in ToRun /\ ToRun' = ToRun \ {t}
<1>1. ThreadsOK /\ ThreadTypeOK /\ Working' = Working
  BY DEF Inv, TypeInv, PoolTypeOK, PoolInv, RunJob, parent, Working
<1>2. Working /\ ~start[t]
  BY <1>1 DEF ThreadsOK, RunJob
<1>3. /\ at[t] = "run" /\ at'[t] = "ran" /\ ~start'[t]
      /\ \A u \in Threads \ {t} : at'[u] = at[u] /\ start'[u] = start[u]
      /\ exit' = exit /\ cancel' = cancel
  BY <1>1, <1>2 DEF RunJob, Goto, ThreadTypeOK
<1>4. ThreadsOK'
  BY <1>1, <1>2, <1>3 DEF ThreadsOK
<1>5. t \in Busy /\ Busy' = Busy
  BY <1>3 DEF Busy, Idle
<1>6. t \in ToRun /\ ToRun' = ToRun \ {t}
  BY <1>3 DEF ToRun
<1>7. QED
  BY <1>1, <1>2, <1>4, <1>5, <1>6

LEMMA DoneEffect ==
  ASSUME Inv, NEW t \in Threads, AddThreadToDone(t)
  PROVE  /\ Working /\ Working' /\ ThreadsOK'
         /\ t \in Busy /\ Busy' = Busy \ {t} /\ t \notin ToRun
         /\ ToRun' = ToRun
<1>1. ThreadsOK /\ ThreadTypeOK /\ Working' = Working
  BY DEF Inv, TypeInv, PoolTypeOK, PoolInv, AddThreadToDone, Working
<1>2. Working /\ ~start[t]
  BY <1>1 DEF ThreadsOK, AddThreadToDone
<1>3. /\ at[t] = "completed" /\ at'[t] = "start" /\ ~start'[t]
      /\ \A u \in Threads \ {t} : at'[u] = at[u] /\ start'[u] = start[u]
      /\ exit' = exit /\ cancel' = cancel
  BY <1>1, <1>2 DEF AddThreadToDone, Goto, ThreadTypeOK
<1>4. ThreadsOK'
  BY <1>1, <1>2, <1>3 DEF ThreadsOK
<1>5. t \in Busy /\ Busy' = Busy \ {t}
  BY <1>3 DEF Busy, Idle
<1>6. t \notin ToRun /\ ToRun' = ToRun
  BY <1>2, <1>3 DEF ToRun
<1>7. QED
  BY <1>1, <1>2, <1>4, <1>5, <1>6

LEMMA StartEffect ==
  ASSUME Inv, place = "got", StartJob
  PROVE  /\ Working /\ Working' /\ ThreadsOK'
         /\ hand \in Threads /\ hand \notin Busy /\ hand \notin ToRun
         /\ Busy' = Busy \cup {hand} /\ ToRun' = ToRun \cup {hand}
<1>1. /\ ThreadsOK /\ ThreadTypeOK /\ Working /\ Working'
      /\ hand \in Threads
  BY DEF Inv, TypeInv, PoolTypeOK, PoolInv, ParentOK, PlacesWithHand, StartJob,
     Working, To
<1>2. hand \notin Busy
  BY <1>1 DEF Inv, PoolInv, OnePlace
<1>3. at[hand] \in {"none", "start"} /\ ~start[hand]
  BY <1>1, <1>2 DEF Busy, Idle
<1>4. /\ at'[hand] = "start" /\ start'[hand]
      /\ \A u \in Threads \ {hand} : at'[u] = at[u] /\ start'[u] = start[u]
      /\ exit' = exit /\ cancel' = cancel
  BY <1>1, <1>3 DEF StartJob, SignalRunToStart, ThreadTypeOK
<1>5. ThreadsOK'
  BY <1>1, <1>4 DEF ThreadsOK
<1>6. Busy' = Busy \cup {hand}
  BY <1>1, <1>4 DEF Busy, Idle
<1>7. hand \notin ToRun /\ ToRun' = ToRun \cup {hand}
  BY <1>1, <1>3, <1>4 DEF ToRun
<1>8. QED
  BY <1>1, <1>2, <1>5, <1>6, <1>7

LEMMA StillEffect ==
  ASSUME UNCHANGED tvars, UNCHANGED Working, ThreadsOK
  PROVE  ThreadsOK' /\ Busy' = Busy /\ ToRun' = ToRun
BY DEF tvars, ThreadsOK, Busy, Idle, ToRun
-----------------------------------------------------------------------------
(* The invariant is kept: one lemma for each kind of step.                   *)

(* Nothing that OnePlace, CountsOK and JobsOK speak of has changed.          *)
LEMMA KeepLists ==
  ASSUME Inv, Working, TypeInv', OverOK', ThreadsOK', Busy' = Busy,
         ToRun' = ToRun, ready => ready',
         UNCHANGED <<avail, done, hand, isDone, nStarted, nDone, given, out,
                     ran, next, results>>
  PROVE  Inv'
<1>1. OnePlace'
  BY DEF Inv, PoolInv, OnePlace
<1>2. CountsOK'
  BY DEF Inv, PoolInv, CountsOK
<1>3. Open' = Open
  BY DEF Open
<1>4. JobsOK'
  BY <1>3 DEF Inv, PoolInv, JobsOK
<1>5. QED
  BY <1>1, <1>2, <1>4 DEF Inv, TypeInv, PoolInv

(* The destructor and after: the threads are all that matters. *)
LEMMA KeepRetired ==
  ASSUME ~Working', TypeInv', ThreadsOK'
  PROVE  Inv'
<1>1. place' \notin {"outside", "over"}
  BY DEF Working
<1>2. OverOK' /\ OnePlace' /\ CountsOK' /\ JobsOK'
  BY <1>1 DEF OverOK, OnePlace, CountsOK, JobsOK
<1>3. QED
  BY <1>2 DEF Inv, TypeInv, PoolInv

LEMMA OverNow ==
  ASSUME Inv
  PROVE  /\ AllDone => nStarted = nDone /\ done = <<>>
         /\ OverOK
BY DEF AllDone, Inv, PoolInv

LEMMA InvLoop ==
  ASSUME Inv, TypeInv', NEW t \in Threads, Loop(t)
  PROVE  Inv'
<1>1. /\ ThreadsOK' /\ UNCHANGED <<pool, parent, work>>
      /\ Working => Busy' = Busy /\ ToRun' = ToRun
  BY LoopEffect
<1>2. UNCHANGED <<avail, done, ready, nStarted, nDone, place, hand, isDone,
                  next, results, given, out, ran>>
  BY <1>1 DEF pool, parent, work
<1>3. OverOK' /\ Working' = Working
  BY <1>2 DEF Inv, PoolInv, OverOK, Working
<1>4. QED
  BY <1>1, <1>2, <1>3, KeepLists, KeepRetired

LEMMA InvRun ==
  ASSUME Inv, TypeInv', NEW t \in Threads, RunJob(t)
  PROVE  Inv'
<1>1. /\ Working /\ Working' /\ ThreadsOK'
      /\ t \in Busy /\ Busy' = Busy /\ t \in ToRun /\ ToRun' = ToRun \ {t}
  BY RunEffect
<1>2. UNCHANGED <<avail, done, ready, nStarted, nDone, place, hand, isDone,
                  next, results, given>>
  BY DEF RunJob, pool, parent
<1>3. OverOK' /\ OnePlace' /\ CountsOK'
  BY <1>1, <1>2 DEF Inv, PoolInv, OverOK, OnePlace, CountsOK
<1>4. Open' = Open /\ t \in Open /\ Open \subseteq Threads
  BY <1>1, <1>2 DEF Open, Inv, TypeInv, PoolTypeOK, ToSet, Busy
<1>5. JobsOK
  BY DEF Inv, PoolInv
<1>6. /\ given[t] \in Jobs /\ given[t] \in 1 .. next - 1
      /\ \A u \in Threads \ {t} : out'[u] = out[u]
      /\ out'[t] = given[t]
      /\ \A j \in Jobs : ran'[j] = IF j = given[t] THEN ran[j] + 1 ELSE ran[j]
  <2>1. given[t] \in 1 .. next - 1 /\ given[t] \in Jobs \cup {0}
    BY <1>1, <1>4, <1>5 DEF JobsOK, Inv, TypeInv, PoolTypeOK
  <2> QED
    BY <2>1 DEF RunJob, Inv, TypeInv, PoolTypeOK
<1>7. \A u \in Open' : /\ given'[u] \in 1 .. next' - 1
                       /\ ran'[given'[u]] = (IF u \in ToRun' THEN 0 ELSE 1)
                       /\ u \in ToRun' \/ out'[u] = given'[u]
                       /\ \A i \in DOMAIN results' : results'[i] # given'[u]
                       /\ \A v \in Open' : given'[u] = given'[v] => u = v
  <2>1. ASSUME NEW u \in Open
        PROVE  /\ given[u] \in Jobs
               /\ ran'[given[u]] = (IF u \in ToRun' THEN 0 ELSE 1)
               /\ u \in ToRun' \/ out'[u] = given[u]
    <3>1. given[u] \in Jobs
      BY <1>1, <1>4, <1>5, <2>1 DEF JobsOK, Inv, TypeInv, PoolTypeOK
    <3>2. ran[given[u]] = (IF u \in ToRun THEN 0 ELSE 1)
      BY <1>1, <1>5, <2>1 DEF JobsOK
    <3>3. CASE u = t
      BY <1>1, <1>6, <3>1, <3>2, <3>3
    <3>4. CASE u # t
      <4>1. given[u] # given[t]
        BY <1>1, <1>4, <1>5, <2>1, <3>4 DEF JobsOK
      <4> QED
        BY <1>1, <1>4, <1>5, <1>6, <2>1, <3>1, <3>2, <3>4, <4>1 DEF JobsOK
    <3> QED
      BY <3>3, <3>4
  <2> QED
    BY <1>1, <1>2, <1>4, <1>5, <2>1 DEF JobsOK
<1>8. \A i \in DOMAIN results' : /\ results'[i] \in 1 .. next' - 1
                                 /\ ran'[results'[i]] = 1
  <2>1. ASSUME NEW i \in DOMAIN results
        PROVE  ran'[results[i]] = 1
    <3>1. results[i] \in Jobs /\ ran[results[i]] = 1 /\ results[i] # given[t]
      <4>1. results[i] \in 1 .. next - 1 /\ results[i] \in Jobs \cup {0}
        BY <1>1, <1>5 DEF JobsOK, Inv, TypeInv, PoolTypeOK
      <4> QED
        BY <1>1, <1>4, <1>5, <4>1 DEF JobsOK
    <3> QED
      BY <1>6, <3>1
  <2> QED
    BY <1>1, <1>2, <1>5, <2>1 DEF JobsOK
<1>9. \A j \in Jobs : j >= next' => ran'[j] = 0
  <2>1. ASSUME NEW j \in Jobs, j >= next
        PROVE  ran'[j] = 0
    <3>1. j # given[t] /\ ran[j] = 0
      <4>1. next \in Nat /\ j \in Nat
        BY DEF Inv, TypeInv, PoolTypeOK, Jobs
      <4>2. j # given[t]
        BY <1>6, <2>1, <4>1
      <4> QED
        BY <1>1, <1>5, <2>1, <4>2 DEF JobsOK
    <3> QED
      BY <1>6, <3>1
  <2> QED
    BY <1>2, <2>1
<1>10. JobsOK'
  BY <1>1, <1>2, <1>4, <1>5, <1>7, <1>8, <1>9 DEF JobsOK
<1>11. QED
  BY <1>1, <1>3, <1>10 DEF Inv, TypeInv, PoolInv

LEMMA InvDone ==
  ASSUME Inv, TypeInv', NEW t \in Threads, AddThreadToDone(t)
  PROVE  Inv'
<1>1. /\ Working /\ Working' /\ ThreadsOK'
      /\ t \in Busy /\ Busy' = Busy \ {t} /\ t \notin ToRun /\ ToRun' = ToRun
  BY DoneEffect
<1>2. /\ UNCHANGED <<avail, ready, nStarted, place, hand, isDone, next,
                     results, given, out, ran>>
      /\ nDone' = nDone + 1
      /\ done' = Append(done, t)
  BY DEF AddThreadToDone, work
<1>3. OverOK'
  BY <1>1, <1>2, QuietOver DEF OverOK
<1>4. /\ OnePlace /\ CountsOK /\ JobsOK /\ done \in Seq(Threads)
      /\ nStarted \in Nat /\ nDone \in Nat
  BY DEF Inv, TypeInv, PoolTypeOK, PoolInv
<1>5. /\ ToSet(done') = ToSet(done) \cup {t}
      /\ t \notin ToSet(done) => (IsInjective(done) => IsInjective(done'))
  BY <1>2, <1>4, Appended
<1>6. OnePlace'
  BY <1>1, <1>2, <1>4, <1>5 DEF OnePlace
<1>7. CountsOK'
  <2>1. IsFiniteSet(Busy) /\ Cardinality(Busy) \in Nat
    BY BusyFinite DEF Busy
  <2>2. Cardinality(Busy') = Cardinality(Busy) - 1
    BY <1>1, <2>1, FS_RemoveElement
  <2>3. nStarted = nDone + Cardinality(Busy)
    BY <1>1, <1>4 DEF CountsOK
  <2> QED
    BY <1>2, <1>4, <2>1, <2>2, <2>3 DEF CountsOK
<1>8. Open' = Open
  BY <1>1, <1>2, <1>5 DEF Open
<1>9. JobsOK'
  BY <1>1, <1>2, <1>4, <1>8 DEF JobsOK
<1>10. QED
  BY <1>1, <1>3, <1>6, <1>7, <1>9 DEF Inv, TypeInv, PoolInv
(* What the parent holds while it takes and returns threads. *)
LEMMA HandFacts ==
  ASSUME Inv, Working
  PROVE  /\ avail \in Seq(Threads) /\ done \in Seq(Threads)
         /\ OnePlace /\ CountsOK /\ JobsOK /\ 0 \notin Threads
         /\ hand \in Threads \/ hand = 0
         /\ hand \in Threads <=> place \in {"got", "collectGot"}
         /\ Open \subseteq Threads
<1>1. /\ avail \in Seq(Threads) /\ done \in Seq(Threads)
      /\ OnePlace /\ CountsOK /\ JobsOK /\ 0 \notin Threads
      /\ hand \in Threads \/ hand = 0
  BY DEF Inv, TypeInv, PoolTypeOK, PoolInv, Threads
<1>2. hand \in Threads <=> place \in {"got", "collectGot"}
  BY DEF Inv, PoolInv, ParentOK, PlacesWithHand, Working
<1>3. Open \subseteq Threads
  BY <1>1 DEF Open, Busy, ToSet
<1>4. QED
  BY <1>1, <1>2, <1>3

LEMMA InvTakeDone ==
  ASSUME Inv, TypeInv', ThreadsOK', Working, Working', hand = 0,
         NEW p \in {"got", "collectGot"}, TakeDone(p), UNCHANGED <<tvars, work>>,
         UNCHANGED <<ready, nStarted, nDone, next, results>>
  PROVE  Inv'
<1>1. /\ avail' = avail /\ hand' = Head(done) /\ done' = Tail(done)
      /\ isDone' = TRUE /\ done # <<>> /\ place' = p
      /\ UNCHANGED <<ready, nStarted, nDone, next, results, given, out, ran>>
  BY DEF TakeDone, To, work
<1>2. /\ OnePlace /\ CountsOK /\ JobsOK /\ done \in Seq(Threads)
      /\ 0 \notin Threads
  BY HandFacts
<1>3. /\ ToSet(done) = ToSet(done') \cup {hand'} /\ hand' \in Threads
      /\ IsInjective(done) => IsInjective(done') /\ hand' \notin ToSet(done')
  BY <1>1, <1>2, Taken
<1>4. Busy' = Busy /\ ToRun' = ToRun
  BY StillEffect DEF Inv, PoolInv
<1>5. OnePlace'
  BY <1>1, <1>2, <1>3, <1>4 DEF OnePlace
<1>6. CountsOK'
  BY <1>1, <1>2, <1>4 DEF CountsOK
<1>7. Open' = Open
  BY <1>1, <1>2, <1>3, <1>4 DEF Open
<1>8. JobsOK'
  BY <1>1, <1>2, <1>4, <1>7 DEF JobsOK
<1>9. OverOK'
  BY <1>1 DEF OverOK
<1>10. QED
  BY <1>5, <1>6, <1>8, <1>9 DEF Inv, TypeInv, PoolInv

LEMMA InvTakeAvail ==
  ASSUME Inv, TypeInv', ThreadsOK', Working, Working', hand = 0,
         TakeAvail("got"), UNCHANGED <<tvars, work>>,
         UNCHANGED <<ready, nStarted, nDone, next, results>>
  PROVE  Inv'
<1>1. /\ done' = done /\ hand' = Head(avail) /\ avail' = Tail(avail)
      /\ isDone' = FALSE /\ avail # <<>> /\ place' = "got"
      /\ UNCHANGED <<ready, nStarted, nDone, next, results, given, out, ran>>
  BY DEF TakeAvail, To, work
<1>2. /\ OnePlace /\ CountsOK /\ JobsOK /\ avail \in Seq(Threads)
      /\ 0 \notin Threads
  BY HandFacts
<1>3. /\ ToSet(avail) = ToSet(avail') \cup {hand'} /\ hand' \in Threads
      /\ IsInjective(avail) => IsInjective(avail') /\ hand' \notin ToSet(avail')
  BY <1>1, <1>2, Taken
<1>4. Busy' = Busy /\ ToRun' = ToRun
  BY StillEffect DEF Inv, PoolInv
<1>5. OnePlace'
  BY <1>1, <1>2, <1>3, <1>4 DEF OnePlace
<1>6. CountsOK'
  BY <1>1, <1>2, <1>4 DEF CountsOK
<1>7. Open' = Open
  BY <1>1, <1>4 DEF Open
<1>8. JobsOK'
  BY <1>1, <1>2, <1>4, <1>7 DEF JobsOK
<1>9. OverOK'
  BY <1>1 DEF OverOK
<1>10. QED
  BY <1>5, <1>6, <1>8, <1>9 DEF Inv, TypeInv, PoolInv

LEMMA InvHandle ==
  ASSUME Inv, TypeInv', ThreadsOK', Working, Working', hand \in Threads,
         NEW p \in {"top", "collect"}, HandleDone(p)
  PROVE  Inv'
<1>1. /\ UNCHANGED <<done, ready, nStarted, nDone, isDone, next, given, out,
                     ran, tvars>>
      /\ isDone /\ hand' = 0 /\ place' = p
      /\ avail' = Append(avail, hand)
      /\ results' = Append(results, out[hand])
  BY DEF HandleDone, To, work
<1>2. /\ OnePlace /\ CountsOK /\ JobsOK /\ avail \in Seq(Threads)
      /\ 0 \notin Threads /\ results \in Seq(Jobs \cup {0})
      /\ out \in [Threads -> Jobs \cup {0}]
  BY HandFacts DEF Inv, TypeInv, PoolTypeOK
<1>3. Busy' = Busy /\ ToRun' = ToRun
  BY <1>1, StillEffect DEF Inv, PoolInv
<1>4. /\ ToSet(avail') = ToSet(avail) \cup {hand}
      /\ hand \notin ToSet(avail) => (IsInjective(avail) => IsInjective(avail'))
  BY <1>1, <1>2, Appended
<1>5. OnePlace'
  <2>1. /\ hand \notin ToSet(avail) /\ hand \notin ToSet(done)
        /\ hand \notin Busy
    BY <1>2 DEF OnePlace
  <2>2. 0 \notin ToSet(avail') /\ 0 \notin ToSet(done) /\ 0 \notin Busy
    <3>1. ToSet(avail) \subseteq Threads /\ ToSet(done) \subseteq Threads
          /\ Busy \subseteq Threads
      BY <1>2, HandFacts DEF ToSet, Busy
    <3> QED
      BY <1>2, <1>4, <3>1
  <2>3. /\ IsInjective(avail') /\ IsInjective(done)
        /\ ToSet(avail') \cap ToSet(done) = {}
        /\ Busy \cap (ToSet(avail') \cup ToSet(done) \cup {0}) = {}
    BY <1>2, <1>4, <2>1, <2>2 DEF OnePlace
  <2>4. ~ready => Threads \subseteq ToSet(avail') \cup ToSet(done) \cup Busy
    BY <1>2, <1>4 DEF OnePlace
  <2> QED
    BY <1>1, <1>3, <2>2, <2>3, <2>4 DEF OnePlace
<1>6. CountsOK'
  BY <1>1, <1>2, <1>3 DEF CountsOK
<1>7. /\ hand \in Open /\ Open' = Open \ {hand} /\ hand \notin ToRun
  <2>1. hand \notin Busy /\ hand \notin ToSet(done)
    BY <1>2 DEF OnePlace
  <2>2. hand \in Open /\ Open' = Open \ {hand}
    BY <1>1, <1>2, <1>3, <2>1 DEF Open
  <2>3. hand \notin ToRun
    BY <2>1 DEF Busy, Idle, ToRun
  <2> QED
    BY <2>2, <2>3
<1>8. /\ given[hand] \in 1 .. next - 1 /\ ran[given[hand]] = 1
      /\ out[hand] = given[hand]
      /\ \A i \in DOMAIN results : results[i] # given[hand]
      /\ \A u \in Open : given[hand] = given[u] => hand = u
  BY <1>2, <1>7 DEF JobsOK
<1>9. /\ results' = Append(results, given[hand])
      /\ given[hand] \in Jobs \cup {0}
  BY <1>1, <1>2, <1>8
<1>10. /\ IsInjective(results')
       /\ ToSet(results') = ToSet(results) \cup {given[hand]}
  <2>1. given[hand] \notin ToSet(results)
    BY <1>8 DEF ToSet
  <2>2. IsInjective(results)
    BY <1>2 DEF JobsOK
  <2> QED
    BY <1>2, <1>9, <2>1, <2>2, Appended
<1>11. /\ \A x : (\E i \in DOMAIN results' : results'[i] = x)
                   <=> (\E i \in DOMAIN results : results[i] = x)
                       \/ x = given[hand]
  BY <1>10 DEF ToSet
<1>12. \A u \in Open' : /\ given[u] \in 1 .. next - 1
                        /\ ran[given[u]] = (IF u \in ToRun THEN 0 ELSE 1)
                        /\ u \in ToRun \/ out[u] = given[u]
                        /\ \A i \in DOMAIN results' : results'[i] # given[u]
                        /\ \A v \in Open' : given[u] = given[v] => u = v
  BY <1>2, <1>7, <1>8, <1>11 DEF JobsOK
<1>13. \A i \in DOMAIN results' : /\ results'[i] \in 1 .. next - 1
                                  /\ ran[results'[i]] = 1
  <2>1. ASSUME NEW i \in DOMAIN results'
        PROVE  results'[i] \in 1 .. next - 1 /\ ran[results'[i]] = 1
    <3>1. results'[i] = given[hand] \/ \E k \in DOMAIN results :
                                         results[k] = results'[i]
      BY <1>11
    <3> QED
      BY <1>2, <1>8, <3>1 DEF JobsOK
  <2> QED
    BY <2>1
<1>14. \A j \in 1 .. next - 1 : \/ \E u \in Open' : given[u] = j
                                \/ \E i \in DOMAIN results' : results'[i] = j
  BY <1>2, <1>7, <1>11 DEF JobsOK
<1>15. \A j \in Jobs : j >= next => ran[j] = 0
  BY <1>2 DEF JobsOK
<1>16. JobsOK'
  BY <1>1, <1>3, <1>10, <1>12, <1>13, <1>14, <1>15 DEF JobsOK
<1>17. OverOK'
  BY <1>1 DEF OverOK
<1>18. QED
  BY <1>5, <1>6, <1>16, <1>17 DEF Inv, TypeInv, PoolInv
LEMMA InvStart ==
  ASSUME Inv, TypeInv', place = "got", StartJob
  PROVE  Inv'
<1>1. /\ Working /\ Working' /\ ThreadsOK'
      /\ hand \in Threads /\ hand \notin Busy /\ hand \notin ToRun
      /\ Busy' = Busy \cup {hand} /\ ToRun' = ToRun \cup {hand}
  BY StartEffect
<1>2. /\ UNCHANGED <<avail, done, ready, nDone, isDone, results, out, ran>>
      /\ ~isDone /\ hand' = 0 /\ place' = "top" /\ nStarted' = nStarted + 1
      /\ next' = next + 1 /\ given' = [given EXCEPT ![hand] = next]
      /\ next <= limit
  BY DEF StartJob, To, MoreJobs
<1>3. /\ OnePlace /\ CountsOK /\ JobsOK /\ 0 \notin Threads
      /\ given \in [Threads -> Jobs \cup {0}] /\ next \in Nat \ {0}
      /\ nStarted \in Nat /\ nDone \in Nat /\ next \in Jobs
      /\ avail \in Seq(Threads) /\ done \in Seq(Threads)
      /\ Open \subseteq Threads
  <2>1. /\ next \in 1 .. limit + 1 /\ limit \in 0 .. NumJobs
        /\ given \in [Threads -> Jobs \cup {0}]
        /\ nStarted \in Nat /\ nDone \in Nat
    BY DEF Inv, TypeInv, PoolTypeOK, ParentOK
  <2>2. next \in Jobs
    BY <1>2, <2>1 DEF Jobs
  <2> QED
    BY <1>1, <2>1, <2>2, HandFacts
<1>4. OnePlace'
  <2>1. /\ hand \notin ToSet(avail) /\ hand \notin ToSet(done)
        /\ ToSet(avail) \subseteq Threads /\ ToSet(done) \subseteq Threads
        /\ Busy \subseteq Threads
    BY <1>1, <1>3 DEF OnePlace, ToSet, Busy
  <2> QED
    BY <1>1, <1>2, <1>3, <2>1 DEF OnePlace
<1>5. CountsOK'
  <2>1. IsFiniteSet(Busy) /\ Cardinality(Busy) \in Nat
    BY BusyFinite DEF Busy
  <2>2. Cardinality(Busy') = Cardinality(Busy) + 1
    BY <1>1, <2>1, FS_AddElement
  <2>3. nStarted = nDone + Cardinality(Busy)
    BY <1>1, <1>3 DEF CountsOK
  <2> QED
    BY <1>2, <1>3, <2>1, <2>2, <2>3 DEF CountsOK
<1>6. Open' = Open \cup {hand} /\ hand \notin Open
  BY <1>1, <1>2, <1>3 DEF Open, OnePlace
<1>7. given'[hand] = next /\ \A u \in Threads \ {hand} : given'[u] = given[u]
  BY <1>1, <1>2, <1>3
<1>8. \A j \in 1 .. next - 1 : j \in 1 .. next' - 1 /\ j # next
  BY <1>2, <1>3
<1>9. \A u \in Open : /\ given'[u] = given[u] /\ given[u] \in 1 .. next' - 1
                      /\ given[u] # next
                      /\ ran[given[u]] = (IF u \in ToRun' THEN 0 ELSE 1)
                      /\ u \in ToRun' \/ out[u] = given[u]
                      /\ \A i \in DOMAIN results : results[i] # given[u]
                      /\ \A v \in Open : given[u] = given[v] => u = v
  BY <1>1, <1>3, <1>6, <1>7, <1>8 DEF JobsOK
<1>10. \A i \in DOMAIN results : /\ results[i] \in 1 .. next' - 1
                                 /\ results[i] # next
                                 /\ ran[results[i]] = 1
  BY <1>1, <1>3, <1>8 DEF JobsOK
<1>11. /\ next \in 1 .. next' - 1 /\ ran[next] = 0
       /\ \A j \in 1 .. next' - 1 : j \in 1 .. next - 1 \/ j = next
       /\ \A j \in Jobs : j >= next' => j >= next
  <2>1. ran[next] = 0
    BY <1>1, <1>3 DEF JobsOK
  <2>2. \A j \in Jobs : j >= next' => j >= next
    BY <1>2, <1>3 DEF Jobs
  <2> QED
    BY <1>2, <1>3, <2>1, <2>2
<1>12. \A u \in Open' : /\ given'[u] \in 1 .. next' - 1
                        /\ ran[given'[u]] = (IF u \in ToRun' THEN 0 ELSE 1)
                        /\ u \in ToRun' \/ out[u] = given'[u]
                        /\ \A i \in DOMAIN results : results[i] # given'[u]
                        /\ \A v \in Open' : given'[u] = given'[v] => u = v
  BY <1>1, <1>6, <1>7, <1>9, <1>10, <1>11
<1>13. \A j \in 1 .. next' - 1 : \/ \E u \in Open' : given'[u] = j
                                 \/ \E i \in DOMAIN results : results[i] = j
  <2>1. ASSUME NEW j \in 1 .. next - 1
        PROVE  \/ \E u \in Open' : given'[u] = j
               \/ \E i \in DOMAIN results : results[i] = j
    BY <1>1, <1>3, <1>6, <1>9, <2>1 DEF JobsOK
  <2> QED
    BY <1>6, <1>7, <1>11, <2>1
<1>14. IsInjective(results) /\ \A j \in Jobs : j >= next' => ran[j] = 0
  BY <1>1, <1>3, <1>11 DEF JobsOK
<1>15. JobsOK'
  BY <1>2, <1>10, <1>12, <1>13, <1>14 DEF JobsOK
<1>16. OverOK'
  BY <1>2 DEF OverOK
<1>17. QED
  BY <1>1, <1>4, <1>5, <1>15, <1>16 DEF Inv, TypeInv, PoolInv

LEMMA InvSetReady ==
  ASSUME Inv, TypeInv', ThreadsOK', Working, Working', hand \in Threads,
         SetReadyForDoneCheck
  PROVE  Inv'
<1>1. /\ UNCHANGED <<avail, done, nStarted, nDone, isDone, next, results,
                     given, out, ran, tvars>>
      /\ ~isDone /\ hand' = 0 /\ place' = "top" /\ ready' = TRUE
  BY DEF SetReadyForDoneCheck, To, work
<1>2. /\ OnePlace /\ CountsOK /\ JobsOK /\ 0 \notin Threads
      /\ avail \in Seq(Threads) /\ done \in Seq(Threads)
  BY HandFacts
<1>3. Busy' = Busy /\ ToRun' = ToRun
  BY <1>1, StillEffect DEF Inv, PoolInv
<1>4. OnePlace'
  <2>1. /\ ToSet(avail) \subseteq Threads /\ ToSet(done) \subseteq Threads
        /\ Busy \subseteq Threads
    BY <1>2 DEF ToSet, Busy
  <2> QED
    BY <1>1, <1>2, <1>3, <2>1 DEF OnePlace
<1>5. CountsOK' /\ OverOK'
  BY <1>1, <1>2, <1>3 DEF CountsOK, OverOK
<1>6. Open' = Open
  BY <1>1, <1>3 DEF Open
<1>7. JobsOK'
  BY <1>1, <1>2, <1>3, <1>6 DEF JobsOK
<1>8. QED
  BY <1>4, <1>5, <1>7 DEF Inv, TypeInv, PoolInv

LEMMA InvInit ==
  ASSUME PoolInit
  PROVE  Inv
<1>1. TypeInv
  BY TypeInit
<1>2. Working /\ Busy = {} /\ Open = {} /\ ThreadsOK
  BY NothingListed DEF PoolInit, ThreadInit, Working, Busy, Idle, Open,
     ThreadsOK
<1>3. OverOK /\ CountsOK
  BY <1>2, FS_EmptySet DEF PoolInit, OverOK, CountsOK
<1>4. OnePlace
  BY <1>2, MainPool, NothingListed DEF PoolInit, OnePlace, Threads
<1>5. JobsOK
  BY <1>2, NothingListed DEF PoolInit, JobsOK, Jobs
<1>6. QED
  BY <1>1, <1>2, <1>3, <1>4, <1>5 DEF Inv, TypeInv, PoolInv

LEMMA InvInitForRun ==
  ASSUME Inv, TypeInv', InitForRun
  PROVE  Inv'
<1>1. /\ UNCHANGED <<hand, isDone, next, results, given, out, ran, tvars>>
      /\ nStarted' = 0 /\ nDone' = 0 /\ avail' = Main /\ done' = <<>>
      /\ place' = "top" /\ place \in {"outside", "over"}
  BY DEF InitForRun, To, work
<1>2. Busy = {} /\ done = <<>> /\ Working /\ Working'
  BY <1>1, QuietOver DEF Working
<1>3. Busy' = {} /\ ToRun' = ToRun /\ ThreadsOK'
  BY <1>1, <1>2, StillEffect DEF Inv, PoolInv
<1>4. hand = 0 /\ JobsOK /\ 0 \notin Threads
  BY <1>1, <1>2, HandFacts
<1>5. OnePlace'
  BY <1>1, <1>3, <1>4, MainPool, NothingListed DEF OnePlace
<1>6. CountsOK' /\ OverOK'
  BY <1>1, <1>3, FS_EmptySet DEF CountsOK, OverOK
<1>7. Open' = Open
  BY <1>1, <1>2, <1>3 DEF Open
<1>8. JobsOK'
  BY <1>1, <1>2, <1>3, <1>4, <1>7 DEF JobsOK
<1>9. QED
  BY <1>3, <1>5, <1>6, <1>8 DEF Inv, TypeInv, PoolInv

LEMMA InvDestructor ==
  ASSUME Inv, TypeInv', BeginDestructor \/ DeleteThread \/ JoinThread
  PROVE  Inv'
<1>1. ~Working'
  BY DEF BeginDestructor, DeleteThread, JoinThread, To, Working
<1>2. CASE BeginDestructor
  <2>1. Busy = {} /\ UNCHANGED <<at, start>>
    BY <1>2, QuietOver DEF BeginDestructor, tvars
  <2>2. ThreadsOK'
    BY <1>1, <2>1 DEF ThreadsOK, Busy, Idle
  <2> QED
    BY <1>1, <2>2, KeepRetired
<1>3. CASE DeleteThread \/ JoinThread
  <2>1. ~Working /\ UNCHANGED <<at, start>>
    BY <1>3 DEF DeleteThread, JoinThread, BeginDelete, tvars, Working
  <2>2. ThreadsOK'
    BY <1>1, <2>1 DEF ThreadsOK, Inv, PoolInv
  <2> QED
    BY <1>1, <2>2, KeepRetired
<1>4. QED
  BY <1>2, <1>3
LEMMA InvParent ==
  ASSUME Inv, TypeInv', Call \/ InitForRun \/ BeginDestructor \/ WakeSpuriously
  PROVE  Inv'
<1> DEFINE Still == UNCHANGED <<tvars, avail, done, hand, isDone, nStarted,
                                nDone, work, next, results>>
<1>1. ASSUME Still, Working, Working', OverOK', ready => ready'
      PROVE  Inv'
  <2>1. ThreadsOK' /\ Busy' = Busy /\ ToRun' = ToRun
    BY <1>1, StillEffect DEF Inv, PoolInv
  <2> QED
    BY <1>1, <2>1, KeepLists DEF work
<1>2. ASSUME UNCHANGED tvars, Working, Working'
      PROVE  ThreadsOK'
  BY <1>2, StillEffect DEF Inv, PoolInv
<1>3. place \in {"top", "collect"} => Working
  BY DEF Working
<1>4. CASE LoopHead
  <2>1. Still /\ Working /\ Working' /\ (ready => ready')
    BY <1>4 DEF LoopHead, Working, To
  <2>2. OverOK'
    BY <1>4, OverNow DEF LoopHead, OverOK, To
  <2> QED
    BY <1>1, <2>1, <2>2
<1>5. CASE CheckAllDone
  <2>1. Still /\ Working /\ Working' /\ (ready => ready')
    BY <1>5 DEF CheckAllDone, Working, To, pool
  <2>2. OverOK'
    BY <1>5, OverNow DEF CheckAllDone, OverOK, To, pool
  <2> QED
    BY <1>1, <2>1, <2>2
<1>6. CASE WakeSpuriously
  <2>1. Still /\ UNCHANGED <<place, pool>>
    BY <1>6 DEF WakeSpuriously, pool
  <2>2. OverOK' /\ Working' = Working /\ (ready => ready')
    BY <2>1, OverNow DEF OverOK, Working, pool
  <2>3. CASE Working
    BY <1>1, <2>1, <2>2, <2>3
  <2>4. CASE ~Working
    <3>1. ThreadsOK'
      BY <2>1, <2>2, StillEffect DEF Inv, PoolInv
    <3> QED
      BY <2>2, <2>4, <3>1, KeepRetired
  <2> QED
    BY <2>3, <2>4
<1>7. ASSUME place \in {"getDone", "getAvail", "getLocked", "takeDone"}
      PROVE  Working /\ hand = 0
  BY <1>7, HandFacts DEF Working
<1>8. ASSUME Still, ready' = ready,
             place \in {"getDone", "getAvail", "getLocked", "takeDone"},
             place' \in {"getAvail", "getLocked", "collect"}
      PROVE  Inv'
  BY <1>1, <1>7, <1>8 DEF OverOK, Working
<1>9. ASSUME NEW p \in {"got", "collectGot"}, TakeDone(p),
             UNCHANGED <<tvars, work, next, results>>, PoolUnchangedButLists,
             place \in {"getDone", "getAvail", "getLocked", "takeDone"}
      PROVE  Inv'
  <2>1. Working /\ Working' /\ hand = 0 /\ ThreadsOK'
    BY <1>2, <1>7, <1>9 DEF TakeDone, To, Working
  <2>2. UNCHANGED <<tvars, work>>
        /\ UNCHANGED <<ready, nStarted, nDone, next, results>>
    BY <1>9 DEF PoolUnchangedButLists
  <2> QED
    BY <1>9, <2>1, <2>2, InvTakeDone
<1>10. ASSUME TakeAvail("got"), UNCHANGED <<tvars, work, next, results>>,
              PoolUnchangedButLists,
              place \in {"getDone", "getAvail", "getLocked", "takeDone"}
       PROVE  Inv'
  <2>1. Working /\ Working' /\ hand = 0 /\ ThreadsOK'
    BY <1>2, <1>7, <1>10 DEF TakeAvail, To, Working
  <2>2. UNCHANGED <<tvars, work>>
        /\ UNCHANGED <<ready, nStarted, nDone, next, results>>
    BY <1>10 DEF PoolUnchangedButLists
  <2> QED
    BY <1>10, <2>1, <2>2, InvTakeAvail
<1>11. CASE GetDoneThread
  BY <1>8, <1>9, <1>11 DEF GetDoneThread, PoolUnchangedButLists, To
<1>12. CASE GetAvailThread
  BY <1>8, <1>10, <1>12 DEF GetAvailThread, PoolUnchangedButLists, To
<1>13. CASE GetLocked
  BY <1>8, <1>9, <1>10, <1>13 DEF GetLocked, PoolUnchangedButLists, To
<1>14. CASE GetNextDoneThread
  BY <1>8, <1>9, <1>14 DEF GetNextDoneThread, PoolUnchangedButLists, To
<1>15. CASE UseThread
  <2>1. Working /\ hand \in Threads
    BY <1>15, HandFacts DEF UseThread, Working
  <2>2. CASE HandleDone("top")
    <3>1. Working' /\ ThreadsOK'
      BY <1>2, <2>1, <2>2 DEF HandleDone, To, Working
    <3> QED
      BY <2>1, <2>2, <3>1, InvHandle
  <2>3. CASE StartJob
    BY <1>15, <2>3, InvStart DEF UseThread
  <2>4. CASE SetReadyForDoneCheck
    <3>1. Working' /\ ThreadsOK'
      BY <1>2, <2>1, <2>4 DEF SetReadyForDoneCheck, To, Working
    <3> QED
      BY <2>1, <2>4, <3>1, InvSetReady
  <2> QED
    BY <1>15, <2>2, <2>3, <2>4 DEF UseThread
<1>16. CASE CollectDone
  <2>1. Working /\ hand \in Threads
    BY <1>16, HandFacts DEF CollectDone, Working
  <2>2. HandleDone("collect") /\ Working' /\ ThreadsOK'
    BY <1>2, <1>16, <2>1 DEF CollectDone, HandleDone, To, Working
  <2> QED
    BY <2>1, <2>2, InvHandle
<1>17. QED
  BY <1>4, <1>5, <1>6, <1>11, <1>12, <1>13, <1>14, <1>15, <1>16, InvInitForRun,
     InvDestructor DEF Call

LEMMA InvStep == Inv /\ [PoolNext]_pvars => Inv'
<1> SUFFICES ASSUME Inv, [PoolNext]_pvars PROVE Inv'
  OBVIOUS
<1>1. TypeInv'
  BY TypeStep DEF Inv
<1>2. CASE UNCHANGED pvars
  <2>1. /\ UNCHANGED <<tvars, avail, done, hand, isDone, nStarted, nDone, work,
                       next, results, place, ready>>
    BY <1>2 DEF pvars, pool, parent
  <2>2. Working' = Working /\ OverOK'
    BY <2>1, OverNow DEF Working, OverOK
  <2>3. ThreadsOK' /\ Busy' = Busy /\ ToRun' = ToRun
    BY <2>1, <2>2, StillEffect DEF Inv, PoolInv
  <2> QED
    BY <1>1, <2>1, <2>2, <2>3, KeepLists, KeepRetired DEF work
<1>3. ASSUME NEW t \in Threads, ThreadStep(t)
      PROVE  Inv'
  BY <1>1, <1>3, InvLoop, InvRun, InvDone DEF ThreadStep
<1>4. QED
  BY <1>1, <1>2, <1>3, InvParent DEF PoolNext, Gone

(* PoolInv, from which the properties of the pool follow, always holds.      *)
THEOREM PoolInvariant == PoolSpec => []PoolInv
<1>1. PoolSpec => []Inv
  BY InvInit, InvStep, PTL DEF PoolSpec
<1>2. Inv => PoolInv
  BY DEF Inv
<1>3. QED
  BY <1>1, <1>2, PTL

(* A thread is in one place only: none is handed out while it runs.          *)
THEOREM PoolOnePlace == PoolSpec => []OnePlace
<1>1. PoolInv => OnePlace
  BY DEF PoolInv
<1>2. QED
  BY <1>1, PoolInvariant, PTL

(* When all is believed done every thread waits for its next start, and so   *)
(* the destructor joins no thread that needs the mutex it holds.             *)
THEOREM PoolQuiet == PoolSpec => []QuietWhenOver
<1>1. ASSUME Inv
      PROVE  QuietWhenOver
  <2>1. CASE place \in {"outside", "over"}
    BY <1>1, <2>1, QuietOver DEF QuietWhenOver, Busy
  <2>2. CASE place \in {"delete", "join"}
    <3>1. held /\ ThreadsOK /\ ~Working
      BY <1>1, <2>2 DEF Inv, PoolInv, ParentOK, Working
    <3> QED
      BY <2>2, <3>1 DEF QuietWhenOver, ThreadsOK, Idle
  <2> QED
    BY <2>1, <2>2 DEF QuietWhenOver
<1>2. PoolSpec => []Inv
  BY InvInit, InvStep, PTL DEF PoolSpec
<1>3. Inv => QuietWhenOver
  BY <1>1
<1>4. QED
  BY <1>2, <1>3, PTL

(* At the end of a run each of its jobs has been run and collected once.     *)
THEOREM PoolRunsJobsOnce == PoolSpec => []AllJobsDoneOnce
<1>1. ASSUME Inv
      PROVE  AllJobsDoneOnce
  <2>1. SUFFICES ASSUME place = "over" PROVE
               /\ next = limit + 1
               /\ \A j \in Jobs : ran[j] = (IF j <= limit THEN 1 ELSE 0)
               /\ \A j \in 1 .. limit : \E i \in DOMAIN results : results[i] = j
               /\ IsInjective(results)
    BY DEF AllJobsDoneOnce
  <2>2. Busy = {} /\ done = <<>> /\ Working
    BY <1>1, <2>1, QuietOver
  <2>3. hand = 0 /\ JobsOK /\ 0 \notin Threads
    BY <1>1, <2>1, <2>2, HandFacts
  <2>4. Open = {}
    BY <2>2, <2>3, NothingListed DEF Open
  <2>5. next = limit + 1 /\ limit \in Nat
    BY <1>1, <2>1 DEF Inv, TypeInv, PoolTypeOK, PoolInv, ParentOK
  <2>6. \A j \in 1 .. limit : \E i \in DOMAIN results : results[i] = j
    BY <2>2, <2>3, <2>4, <2>5 DEF JobsOK
  <2>7. ASSUME NEW j \in Jobs
        PROVE  ran[j] = (IF j <= limit THEN 1 ELSE 0)
    <3>1. CASE j <= limit
      <4>1. j \in 1 .. limit
        BY <2>5, <3>1 DEF Jobs
      <4> QED
        BY <2>2, <2>3, <2>6, <3>1, <4>1 DEF JobsOK
    <3>2. CASE ~(j <= limit)
      <4>1. j >= next
        BY <2>5, <3>2 DEF Jobs
      <4> QED
        BY <2>2, <2>3, <3>2, <4>1 DEF JobsOK
    <3> QED
      BY <3>1, <3>2
  <2>8. IsInjective(results)
    BY <2>2, <2>3 DEF JobsOK
  <2> QED
    BY <2>5, <2>6, <2>7, <2>8
<1>2. PoolSpec => []Inv
  BY InvInit, InvStep, PTL DEF PoolSpec
<1>3. Inv => AllJobsDoneOnce
  BY <1>1
<1>4. QED
  BY <1>2, <1>3, PTL
(* The parent never sets the job of a thread that may be reading it, and     *)
(* never takes a result that the thread may be writing.                      *)
THEOREM PoolNoDataRace == PoolSpec => NoDataRace
<1> DEFINE Safe == \A t \in Threads : /\ given'[t] # given[t] => Idle(t)
                                      /\ results' # results => Idle(hand)
<1>1. ASSUME Inv, [PoolNext]_pvars
      PROVE  [Safe]_pvars
  <2>1. ASSUME NEW t \in Threads, ThreadStep(t)
        PROVE  given' = given /\ results' = results
    BY <2>1 DEF ThreadStep, Loop, RunJob, AddThreadToDone, work, parent
  <2>2. ASSUME Call \/ InitForRun \/ BeginDestructor \/ WakeSpuriously,
               ~UseThread, ~CollectDone
        PROVE  given' = given /\ results' = results
    BY <2>2 DEF Call, LoopHead, GetDoneThread, GetAvailThread, GetLocked,
       CheckAllDone, GetNextDoneThread, DeleteThread, JoinThread, InitForRun,
       BeginDestructor, WakeSpuriously, work
  <2>3. ASSUME place \in {"got", "collectGot"}
        PROVE  hand \in Threads /\ Idle(hand)
    <3>1. Working
      BY <2>3 DEF Working
    <3>2. hand \in Threads /\ hand \notin Busy
      BY <1>1, <2>3, <3>1, HandFacts DEF OnePlace
    <3> QED
      BY <3>2 DEF Busy
  <2>4. ASSUME UseThread
        PROVE  \A t \in Threads : given'[t] # given[t] => t = hand
    BY <1>1, <2>4 DEF UseThread, HandleDone, StartJob, SetReadyForDoneCheck,
       work, Inv, TypeInv, PoolTypeOK
  <2>5. ASSUME CollectDone
        PROVE  given' = given
    BY <2>5 DEF CollectDone, HandleDone, work
  <2>6. CASE UseThread
    BY <2>3, <2>4, <2>6 DEF UseThread
  <2>7. CASE CollectDone
    BY <2>3, <2>5, <2>7 DEF CollectDone
  <2>8. CASE UNCHANGED pvars
    BY <2>8
  <2> QED
    BY <1>1, <2>1, <2>2, <2>6, <2>7, <2>8 DEF PoolNext, Gone
<1>2. PoolSpec => []Inv
  BY InvInit, InvStep, PTL DEF PoolSpec
<1>3. Inv /\ [PoolNext]_pvars => [Safe]_pvars
  BY <1>1
<1>4. PoolSpec => [][Safe]_pvars
  BY <1>2, <1>3, PTL DEF PoolSpec
<1>5. QED
  BY <1>4 DEF NoDataRace

-----------------------------------------------------------------------------
(* The pool implements JobSharing, but for the fairness.                     *)

LEMMA SharingNames ==
  /\ Sharing!Jobs = Jobs
  /\ Sharing!jvars = <<JobStage, limit>>
  /\ \A S : Sharing!In(S) = {j \in Jobs : JobStage[j] \in S}
BY DEF Sharing!Jobs, Sharing!jvars, Sharing!In, Jobs, JobStage

(* The instance's own name of Cardinality. *)
LEMMA SharingCardinality ==
  \A S : Sharing!Cardinality(S) = Cardinality(S)
BY DEF Sharing!Cardinality, Cardinality

LEMMA StageOf ==
  ASSUME NEW j \in Jobs
  PROVE  JobStage[j] = IF \E i \in DOMAIN results : results[i] = j
                       THEN "collected"
                       ELSE IF ran[j] > 0 THEN "ran"
                       ELSE IF j < next THEN "started" ELSE "todo"
BY DEF JobStage

LEMMA StageAfter ==
  ASSUME NEW j \in Jobs
  PROVE  JobStage'[j] = IF \E i \in DOMAIN results' : results'[i] = j
                        THEN "collected"
                        ELSE IF ran'[j] > 0 THEN "ran"
                        ELSE IF j < next' THEN "started" ELSE "todo"
BY DEF JobStage

LEMMA StageMoves ==
  ASSUME NEW j \in Jobs, NEW s, JobStage'[j] = s,
         \A i \in Jobs \ {j} : JobStage'[i] = JobStage[i]
  PROVE  JobStage' = [JobStage EXCEPT ![j] = s]
<1>1. /\ JobStage = [i \in Jobs |-> JobStage[i]]
      /\ JobStage' = [i \in Jobs |-> JobStage'[i]]
  BY DEF JobStage
<1>2. QED
  BY <1>1

LEMMA SharingSame ==
  ASSUME UNCHANGED <<results, ran, next, limit>>
  PROVE  UNCHANGED <<JobStage, limit>>
BY DEF JobStage

(* A step in which one job moves on, as seen by JobSharing. *)
LEMMA SharingMove ==
  ASSUME NEW j \in Jobs, NEW s, JobStage' = [JobStage EXCEPT ![j] = s],
         limit' = limit,
         \/ /\ JobStage[j] = "todo" /\ s = "started" /\ j <= limit
            /\ Cardinality({i \in Jobs : JobStage[i] \in {"started", "ran"}})
                 < NumThreads
         \/ JobStage[j] = "started" /\ s = "ran"
         \/ JobStage[j] = "ran" /\ s = "collected"
  PROVE  Sharing!JobNext
<1>1. CASE JobStage[j] = "todo" /\ s = "started"
  <2>1. /\ Sharing!Cardinality(Sharing!In({"started", "ran"})) < NumThreads
        /\ j <= limit
    <3>1. Sharing!In({"started", "ran"})
            = {i \in Jobs : JobStage[i] \in {"started", "ran"}}
      BY SharingNames, Zenon
    <3>2. /\ j <= limit
          /\ Cardinality({i \in Jobs : JobStage[i] \in {"started", "ran"}})
               < NumThreads
      BY <1>1, Zenon
    <3> QED
      BY <3>1, <3>2, SharingCardinality, Zenon
  <2>2. Sharing!Start(j)
    BY <1>1, <2>1 DEF Sharing!Start
  <2> QED
    BY <2>2, SharingNames DEF Sharing!JobNext
<1>2. CASE JobStage[j] = "started" /\ s = "ran"
  <2>1. Sharing!Run(j)
    BY <1>2 DEF Sharing!Run
  <2> QED
    BY <2>1, SharingNames DEF Sharing!JobNext
<1>3. CASE JobStage[j] = "ran" /\ s = "collected"
  <2>1. Sharing!Collect(j)
    BY <1>3 DEF Sharing!Collect
  <2> QED
    BY <2>1, SharingNames DEF Sharing!JobNext
<1>4. QED
  BY <1>1, <1>2, <1>3

(* Jobs that are open belong to as many threads. *)
LEMMA OpenJobs ==
  ASSUME Inv, Working, NEW h \in Threads, h \notin Open
  PROVE  Cardinality({i \in Jobs : JobStage[i] \in {"started", "ran"}})
           < NumThreads
<1> DEFINE T == {i \in Jobs : JobStage[i] \in {"started", "ran"}}
           f == [t \in Open |-> given[t]]
<1>1. JobsOK /\ Open \subseteq Threads /\ next \in 1 .. limit + 1
      /\ limit \in 0 .. NumJobs
  BY HandFacts DEF Inv, TypeInv, PoolTypeOK, ParentOK
<1>2. ASSUME NEW t \in Open
      PROVE  given[t] \in T
  <2>1. /\ given[t] \in 1 .. next - 1
        /\ \A i \in DOMAIN results : results[i] # given[t]
    BY <1>1 DEF JobsOK
  <2>2. given[t] \in Jobs /\ given[t] < next
    BY <1>1, <2>1 DEF Jobs
  <2> QED
    BY <2>1, <2>2, StageOf
<1>3. ASSUME NEW j \in T
      PROVE  \E t \in Open : given[t] = j
  <2>1. /\ ~(\E i \in DOMAIN results : results[i] = j)
        /\ ran[j] > 0 \/ j < next
    BY StageOf
  <2>2. j \in 1 .. next - 1
    BY <1>1, <2>1 DEF JobsOK, Jobs
  <2> QED
    BY <1>1, <2>1, <2>2 DEF JobsOK
<1>4. f \in Surjection(Open, T)
  BY <1>2, <1>3 DEF Surjection
<1>5. QED
  BY <1>1, <1>4, FewerJobs DEF Threads

LEMMA SharingAsks ==
  ASSUME Inv, InitForRun, place = "outside" => next = limit + 1
  PROVE  Sharing!Ask
<1>1. place \in {"outside", "over"}
  BY DEF InitForRun
<1>2. Busy = {} /\ done = <<>> /\ Working
  BY <1>1, QuietOver
<1>3. hand = 0 /\ JobsOK /\ 0 \notin Threads
  BY <1>1, <1>2, HandFacts
<1>4. Open = {}
  BY <1>2, <1>3, NothingListed DEF Open
<1>5. next = limit + 1 /\ limit \in 0 .. NumJobs
  BY <1>1 DEF Inv, TypeInv, PoolTypeOK, PoolInv, ParentOK
<1>6. \A j \in Jobs : j \in 1 .. limit
                        <=> \E i \in DOMAIN results : results[i] = j
  BY <1>2, <1>3, <1>4, <1>5 DEF JobsOK
<1>7. {j \in Jobs : JobStage[j] \in {"collected"}} = 1 .. limit
  BY <1>5, <1>6, StageOf DEF Jobs
<1>8. limit' \in limit .. NumJobs /\ JobStage' = JobStage
  BY DEF InitForRun, JobStage, work
<1>9. QED
  BY <1>7, <1>8, SharingNames DEF Sharing!Ask

LEMMA SharingStarts ==
  ASSUME Inv, place = "got", StartJob
  PROVE  Sharing!JobNext
<1>1. /\ Working /\ hand \in Threads /\ hand \notin Busy
  BY StartEffect
<1>2. /\ UNCHANGED <<results, ran, limit>> /\ ~isDone /\ next' = next + 1
      /\ next <= limit
  BY DEF StartJob, MoreJobs
<1>3. /\ JobsOK /\ next \in 1 .. limit + 1 /\ limit \in 0 .. NumJobs
      /\ hand \notin Open
  BY <1>1, <1>2, HandFacts
     DEF Open, OnePlace, Inv, TypeInv, PoolTypeOK, ParentOK
<1>4. next \in Jobs /\ next \in Nat
  BY <1>2, <1>3 DEF Jobs
<1>5. ran[next] = 0 /\ ~(\E i \in DOMAIN results : results[i] = next)
  BY <1>1, <1>3, <1>4 DEF JobsOK
<1>6. JobStage[next] = "todo"
  BY <1>4, <1>5, StageOf
<1>7. JobStage' = [JobStage EXCEPT ![next] = "started"]
  <2>1. ASSUME NEW j \in Jobs, j # next
        PROVE  j < next + 1 <=> j < next
    BY <1>4, <2>1 DEF Jobs
  <2>2. JobStage'[next] = "started"
    BY <1>2, <1>4, <1>5, StageAfter
  <2>3. \A j \in Jobs \ {next} : JobStage'[j] = JobStage[j]
    BY <1>2, <2>1, StageOf, StageAfter
  <2> QED
    BY <1>4, <2>2, <2>3, StageMoves
<1>8. QED
  BY <1>1, <1>2, <1>3, <1>4, <1>6, <1>7, OpenJobs, SharingMove

LEMMA SharingRuns ==
  ASSUME Inv, NEW t \in Threads, RunJob(t)
  PROVE  Sharing!JobNext
<1>1. Working /\ t \in Busy /\ t \in ToRun
  BY RunEffect
<1>2. UNCHANGED <<results, next, limit>>
      /\ ran' = [j \in Jobs |-> IF j = given[t] THEN ran[j] + 1 ELSE ran[j]]
  BY DEF RunJob, parent
<1>3. t \in Open /\ JobsOK /\ given[t] \in Jobs \cup {0}
      /\ next \in 1 .. limit + 1 /\ limit \in 0 .. NumJobs
  BY <1>1, HandFacts DEF Open, Inv, TypeInv, PoolTypeOK, ParentOK
<1>4. /\ given[t] \in 1 .. next - 1 /\ ran[given[t]] = 0
      /\ \A i \in DOMAIN results : results[i] # given[t]
  BY <1>1, <1>3 DEF JobsOK
<1>5. given[t] \in Jobs /\ given[t] < next
  BY <1>3, <1>4 DEF Jobs
<1>6. JobStage[given[t]] = "started"
  BY <1>4, <1>5, StageOf
<1>7. JobStage' = [JobStage EXCEPT ![given[t]] = "ran"]
  <2>1. JobStage'[given[t]] = "ran"
    BY <1>2, <1>4, <1>5, StageAfter
  <2>2. \A j \in Jobs \ {given[t]} : JobStage'[j] = JobStage[j]
    BY <1>2, StageOf, StageAfter
  <2> QED
    BY <1>5, <2>1, <2>2, StageMoves
<1>8. QED
  BY <1>2, <1>5, <1>6, <1>7, SharingMove

LEMMA SharingCollects ==
  ASSUME Inv, place \in {"got", "collectGot"}, NEW p, HandleDone(p)
  PROVE  Sharing!JobNext
<1>1. Working /\ hand \in Threads
  BY HandFacts DEF Working
<1>2. /\ results' = Append(results, out[hand]) /\ isDone
      /\ UNCHANGED <<ran, next, limit>>
  BY DEF HandleDone, work
<1>3. /\ hand \in Open /\ hand \notin Busy /\ JobsOK
      /\ given[hand] \in Jobs \cup {0} /\ 0 \notin Threads
      /\ results \in Seq(Jobs \cup {0})
  BY <1>1, <1>2, HandFacts DEF Open, OnePlace, Inv, TypeInv, PoolTypeOK
<1>4. hand \notin ToRun
  BY <1>1, <1>3, IdleIsNotBusy DEF ToRun
<1>5. /\ given[hand] \in 1 .. next - 1 /\ ran[given[hand]] = 1
      /\ out[hand] = given[hand]
      /\ \A i \in DOMAIN results : results[i] # given[hand]
  BY <1>1, <1>3, <1>4 DEF JobsOK
<1>6. PICK j \in Jobs : j = given[hand]
  BY <1>3, <1>5
<1>7. \A i \in Jobs : (\E k \in DOMAIN results' : results'[k] = i)
                        <=> i = j \/ \E k \in DOMAIN results : results[k] = i
  <2>1. ToSet(results') = ToSet(results) \cup {j}
    BY <1>2, <1>3, <1>5, <1>6, Appended
  <2> QED
    BY <2>1 DEF ToSet
<1>8. JobStage[j] = "ran"
  BY <1>5, <1>6, StageOf
<1>9. JobStage' = [JobStage EXCEPT ![j] = "collected"]
  <2>1. JobStage'[j] = "collected"
    BY <1>7, StageAfter
  <2>2. \A i \in Jobs \ {j} : JobStage'[i] = JobStage[i]
    BY <1>2, <1>7, StageOf, StageAfter
  <2> QED
    BY <2>1, <2>2, StageMoves
<1>10. QED
  BY <1>2, <1>8, <1>9, SharingMove

(* Every step of the pool is one of JobSharing, or none. *)
LEMMA SharingStep ==
  ASSUME Inv, place = "outside" => next = limit + 1, [PoolNext]_pvars
  PROVE  [Sharing!JobNext]_(Sharing!jvars)
<1>1. CASE UNCHANGED <<results, ran, next, limit>>
  BY <1>1, SharingSame DEF Sharing!jvars
<1>2. CASE InitForRun
  BY <1>2, SharingAsks DEF Sharing!JobNext
<1>3. CASE UseThread \/ CollectDone
  <2>1. CASE SetReadyForDoneCheck
    BY <1>1, <2>1 DEF SetReadyForDoneCheck, work
  <2> QED
    BY <1>3, <2>1, SharingStarts, SharingCollects DEF UseThread, CollectDone
<1>4. ASSUME NEW t \in Threads, ThreadStep(t)
      PROVE  [Sharing!JobNext]_(Sharing!jvars)
  <2>1. CASE RunJob(t)
    BY <2>1, SharingRuns
  <2>2. CASE Loop(t) \/ AddThreadToDone(t)
    BY <1>1, <2>2 DEF Loop, AddThreadToDone, parent, work
  <2> QED
    BY <1>4, <2>1, <2>2 DEF ThreadStep
<1>5. CASE BeginDestructor \/ WakeSpuriously \/ Gone \/ UNCHANGED pvars
  BY <1>1, <1>5 DEF BeginDestructor, WakeSpuriously, Gone, pvars, parent, work
<1>6. CASE Call /\ ~UseThread /\ ~CollectDone
  BY <1>1, <1>6 DEF Call, LoopHead, GetDoneThread, GetAvailThread, GetLocked,
     CheckAllDone, GetNextDoneThread, DeleteThread, JoinThread, work
<1>7. QED
  BY <1>2, <1>3, <1>4, <1>5, <1>6 DEF PoolNext

(* The pool shares jobs out as JobSharing promises, fairness aside: each is  *)
(* started, run and collected once, in that order, with no more jobs open    *)
(* than there are threads, and the next run begins when all are collected.   *)
THEOREM PoolSharesJobs ==
  PoolSpec => Sharing!JobInit /\ [][Sharing!JobNext]_(Sharing!jvars)
<1> DEFINE Fresh == place = "outside" => next = limit + 1
<1>1. PoolInit => Fresh
  BY DEF PoolInit
<1>2. Fresh /\ [PoolNext]_pvars => Fresh'
  <2> SUFFICES ASSUME Fresh, [PoolNext]_pvars, place' = "outside"
               PROVE  place = "outside" /\ UNCHANGED <<next, limit>>
    OBVIOUS
  <2>1. CASE UNCHANGED <<place, next, limit>>
    BY <2>1
  <2>2. ASSUME NEW t \in Threads, ThreadStep(t)
        PROVE  UNCHANGED <<place, next, limit>>
    BY <2>2 DEF ThreadStep, Loop, RunJob, AddThreadToDone, parent
  <2>3. CASE WakeSpuriously \/ Gone \/ UNCHANGED pvars
    BY <2>1, <2>3 DEF WakeSpuriously, Gone, pvars, parent
  <2>4. ~Call /\ ~InitForRun /\ ~BeginDestructor
    BY DEF Call, LoopHead, GetDoneThread, GetAvailThread, GetLocked, UseThread,
       HandleDone, StartJob, SetReadyForDoneCheck, TakeDone, TakeAvail,
       CheckAllDone, GetNextDoneThread, CollectDone, DeleteThread, JoinThread,
       InitForRun, BeginDestructor, To
  <2> QED
    BY <2>1, <2>2, <2>3, <2>4 DEF PoolNext
<1>3. PoolInit => Sharing!JobInit
  <2> SUFFICES ASSUME PoolInit PROVE Sharing!JobInit
    OBVIOUS
  <2>1. results = <<>> /\ next = 1 /\ limit = 0 /\ ran = [j \in Jobs |-> 0]
    BY DEF PoolInit
  <2>2. \A j \in Jobs : JobStage[j] = "todo"
    BY <2>1, StageOf DEF Jobs
  <2>3. JobStage = [j \in Jobs |-> "todo"]
    BY <2>2 DEF JobStage
  <2> QED
    BY <2>1, <2>3, SharingNames DEF Sharing!JobInit
<1>4. Inv /\ Fresh /\ [PoolNext]_pvars => [Sharing!JobNext]_(Sharing!jvars)
  BY SharingStep
<1>5. QED
  BY <1>1, <1>2, <1>3, <1>4, InvInit, InvStep, PTL DEF PoolSpec
=============================================================================
