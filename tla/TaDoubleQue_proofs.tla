------------------------- MODULE TaDoubleQue_proofs -------------------------
(* Proofs about the double queue, for any number of threads and jobs.        *)
EXTENDS TaDoubleQue, QueueLemmas, TLAPS

USE NumThreadsAssumption, NumJobsAssumption

-----------------------------------------------------------------------------
(* What the invariant says of the two deques and of every thread, before the *)
(* queue is released; the parts of DequesOK have no names of their own.      *)
InDeques ==
  threaded /\ ~Released =>
    /\ IsInjective(available) /\ IsInjective(active)
    /\ ToSet(available) \cap ToSet(active) = {}
    /\ hand \in ToSet(available) \cup ToSet(active) <=> place = "wait"
    /\ Threads \subseteq ToSet(available) \cup ToSet(active) \cup {hand}

HasJob(t) == t \in ToSet(active) \/ (t = hand /\ place \in {"grabbed", "wait"})

AtWork ==
  threaded /\ ~Released =>
    \A t \in Threads : IF HasJob(t) THEN Working(t) # complete[t] ELSE AtRest(t)

LEMMA DequesParts ==
  ASSUME available \in Seq(Threads), active \in Seq(Threads)
  PROVE  /\ DequesOK <=> DoubleTypeOK /\ InDeques /\ AtWork
         /\ All \in Seq(Threads)
         /\ ToSet(All) = ToSet(available) \cup ToSet(active)
         /\ IsInjective(All) <=> /\ IsInjective(available) /\ IsInjective(active)
                                 /\ ToSet(available) \cap ToSet(active) = {}
<1>1. /\ All \in Seq(Threads)
      /\ ToSet(All) = ToSet(available) \cup ToSet(active)
      /\ IsInjective(All) <=> /\ IsInjective(available) /\ IsInjective(active)
                              /\ ToSet(available) \cap ToSet(active) = {}
  BY Concatenated DEF All
<1>2. QED
  BY <1>1 DEF DequesOK, InDeques, AtWork, HasJob

LEMMA DequesTyped == DoubleTypeOK => available \in Seq(Threads) /\ active \in Seq(Threads)
BY DEF DoubleTypeOK

(* The invariant by its parts. *)
LEMMA InvParts ==
  DoubleInv <=> DoubleTypeOK /\ InDeques /\ AtWork /\ ParentOK /\ ThreadsOK /\ GivenOK
BY DequesParts, DequesTyped DEF DoubleInv, DequesOK

-----------------------------------------------------------------------------
LEMMA InvInit == DoubleInit => DoubleInv
<1> SUFFICES ASSUME DoubleInit PROVE DoubleInv
  OBVIOUS
<1> DEFINE every == [t \in Threads |-> t]
<1>1. every \in Seq(Threads) /\ ToSet(every) = Threads /\ IsInjective(every)
  <2>1. every \in Seq(Threads)
    BY DEF Threads
  <2>2. DOMAIN every = Threads /\ \A t \in Threads : every[t] = t
    OBVIOUS
  <2> QED
    BY <2>1, <2>2 DEF ToSet, IsInjective
<1> HIDE DEF every
<1>2. available = IF threaded THEN every ELSE <<>>
  BY DEF DoubleInit, every
<1>3. <<>> \in Seq(Threads)
  OBVIOUS
<1>4. DoubleTypeOK
  <2>1. ThreadTypeOK
    BY DEF DoubleInit, ThreadInit, ThreadTypeOK, Places
  <2>2. available \in Seq(Threads) /\ active \in Seq(Threads)
    BY <1>1, <1>2, <1>3 DEF DoubleInit
  <2>3. given \in [Threads -> Jobs \cup {0}] /\ ran \in [Jobs -> Nat]
    BY DEF DoubleInit
  <2> QED
    BY <2>1, <2>2, <2>3 DEF DoubleInit, DoubleTypeOK
<1>5. InDeques
  <2>1. hand \notin Threads /\ place # "wait" /\ active = <<>>
    BY DEF DoubleInit, Threads
  <2> QED
    BY <1>1, <1>2, <2>1, NothingListed DEF InDeques
<1>6. AtWork
  BY NothingListed DEF DoubleInit, ThreadInit, AtWork, HasJob, Working, AtRest, Threads
<1>7. ParentOK
  BY <1>2 DEF DoubleInit, ParentOK, PlacesWithHand, Released, Threads
<1>8. ThreadsOK
  BY DEF DoubleInit, ThreadInit, ThreadsOK, AtRest, Working
<1>9. GivenOK
  BY NothingListed DEF DoubleInit, GivenOK
<1> QED
  BY <1>4, <1>5, <1>6, <1>7, <1>8, <1>9, InvParts
-----------------------------------------------------------------------------
(* The threads. *)

LEMMA InvRunMethod ==
  ASSUME DoubleInv, NEW t \in Threads, RunMethod(t)
  PROVE  DoubleInv'
<1>1. /\ UNCHANGED <<start, complete, exit, cancel, threaded, available, active,
                     place, hand, next, limit, given, collected>>
      /\ at[t] = "run" /\ at' = [at EXCEPT ![t] = "ran"]
      /\ ran' = [j \in Jobs |-> IF j = given[t] THEN ran[j] + 1 ELSE ran[j]]
  BY DEF RunMethod, Goto, queues, parent
<1>2. /\ DoubleTypeOK /\ InDeques /\ AtWork /\ ParentOK /\ ThreadsOK /\ GivenOK
  BY InvParts
<1>3. DoubleTypeOK'
  BY <1>1, <1>2 DEF DoubleTypeOK, ThreadTypeOK, Places
<1>4. \A u \in Threads : /\ Working(u)' = Working(u) /\ AtRest(u)' = AtRest(u)
  BY <1>1, <1>2 DEF Working, AtRest, DoubleTypeOK, ThreadTypeOK
<1>5. Released' = Released /\ MoreJobs' = MoreJobs /\ All' = All
  BY <1>1 DEF Released, MoreJobs, All
<1>6. InDeques' /\ AtWork' /\ ParentOK' /\ GivenOK'
  BY <1>1, <1>2, <1>4, <1>5 DEF InDeques, AtWork, HasJob, ParentOK, GivenOK
<1>7. ThreadsOK'
  BY <1>1, <1>2, <1>4, <1>5 DEF ThreadsOK, DoubleTypeOK, ThreadTypeOK
<1>8. QED
  BY <1>3, <1>6, <1>7, InvParts, PTL

(* What a step of the loop does to its thread while the queue is in use: it   *)
(* goes on with its job, or completes it.                                    *)
LEMMA LoopStep ==
  ASSUME DoubleInv, NEW t \in Threads, Loop(t)
  PROVE  /\ UNCHANGED <<exit, cancel, threaded, available, active, place, hand,
                        next, limit, given, ran, collected>>
         /\ ThreadTypeOK'
         /\ \A u \in Threads \ {t} : /\ at'[u] = at[u] /\ start'[u] = start[u]
                                     /\ complete'[u] = complete[u]
         /\ ~Released =>
              /\ at'[t] \in {"start", "check", "run", "ran", "signal", "completed"}
              /\ start'[t] => at'[t] \in {"start", "completed"}
              /\ \/ Working(t)' = Working(t) /\ complete'[t] = complete[t]
                 \/ Working(t) /\ ~Working(t)' /\ complete'[t]
<1>1. /\ UNCHANGED <<threaded, available, active, place, hand, next, limit,
                     given, ran, collected>>
      /\ ThreadTypeOK
      /\ ~Released =>
           /\ ~exit[t] /\ ~cancel[t]
           /\ at[t] \in {"none", "start", "check", "run", "ran", "signal",
                         "completed"}
           /\ start[t] => at[t] \in {"start", "completed"}
  BY InvParts DEF Loop, queues, parent, ThreadsOK, DoubleTypeOK
<1>2. CASE WaitForStart(t)
  BY <1>1, <1>2 DEF WaitForStart, Goto, ThreadTypeOK, Places, Working
<1>3. CASE CheckExitBefore(t)
  BY <1>1, <1>3 DEF CheckExitBefore, Goto, ThreadTypeOK, Places, Working
<1>4. CASE CheckExitAfter(t)
  BY <1>1, <1>4 DEF CheckExitAfter, Goto, ThreadTypeOK, Places, Working
<1>5. CASE SignalComplete(t)
  BY <1>1, <1>5 DEF SignalComplete, Goto, ThreadTypeOK, Places, Working
<1>6. CASE ActOnCancel(t)
  BY <1>1, <1>6 DEF ActOnCancel, Goto, ThreadTypeOK, Places, Working
<1>7. CASE /\ at[t] = "completed" /\ Goto(t, "start")
           /\ UNCHANGED <<start, complete, exit, cancel>>
  BY <1>1, <1>7 DEF Goto, ThreadTypeOK, Places, Working
<1>8. QED
  BY <1>2, <1>3, <1>4, <1>5, <1>6, <1>7 DEF Loop

LEMMA InvLoop ==
  ASSUME DoubleInv, NEW t \in Threads, Loop(t)
  PROVE  DoubleInv'
<1>1. DoubleTypeOK /\ InDeques /\ AtWork /\ ParentOK /\ ThreadsOK /\ GivenOK
  BY InvParts
<1>2. /\ UNCHANGED <<exit, cancel, threaded, available, active, place, hand,
                     next, limit, given, ran, collected>>
      /\ ThreadTypeOK'
  BY LoopStep
<1>3. DoubleTypeOK'
  BY <1>1, <1>2 DEF DoubleTypeOK
<1>4. Released' = Released /\ MoreJobs' = MoreJobs /\ All' = All
  BY <1>2 DEF Released, MoreJobs, All
<1>5. InDeques' /\ ParentOK' /\ GivenOK'
  BY <1>1, <1>2, <1>4 DEF InDeques, ParentOK, GivenOK
<1>6. \A u \in Threads \ {t} :
        Working(u)' = Working(u) /\ AtRest(u)' = AtRest(u)
  BY LoopStep DEF Working, AtRest
<1>7. AtWork'
  <2> SUFFICES ASSUME threaded, ~Released, NEW u \in Threads
               PROVE  IF HasJob(u) THEN Working(u)' # complete'[u]
                      ELSE AtRest(u)'
    BY <1>2, <1>4 DEF AtWork, HasJob
  <2>1. IF HasJob(u) THEN Working(u) # complete[u] ELSE AtRest(u)
    BY <1>1 DEF AtWork
  <2>2. CASE u # t
    BY <2>1, <2>2, <1>6, LoopStep
  <2>3. CASE u = t
    <3>1. \/ Working(t)' = Working(t) /\ complete'[t] = complete[t]
          \/ Working(t) /\ ~Working(t)' /\ complete'[t]
      BY LoopStep
    <3>2. complete[t] \in BOOLEAN /\ complete'[t] \in BOOLEAN
      BY <1>1, <1>2 DEF DoubleTypeOK, ThreadTypeOK
    <3>3. Working(t) \in BOOLEAN /\ Working(t)' \in BOOLEAN
      BY <1>1, <1>2 DEF Working, DoubleTypeOK, ThreadTypeOK
    <3> QED
      BY <2>1, <2>3, <3>1, <3>2, <3>3 DEF AtRest
  <2> QED
    BY <2>2, <2>3
<1>8. ThreadsOK'
  <2> SUFFICES ASSUME ~Released, NEW u \in Threads
               PROVE  /\ ~exit[u] /\ ~cancel[u]
                      /\ at'[u] \in {"none", "start", "check", "run", "ran",
                                     "signal", "completed"}
                      /\ start'[u] => at'[u] \in {"start", "completed"}
                      /\ AtRest(u)' => given[u] \in {0} \cup collected
    BY <1>2, <1>4 DEF ThreadsOK
  <2>1. CASE u # t
    BY <1>1, <1>6, <2>1, LoopStep DEF ThreadsOK
  <2>2. CASE u = t
    <3>1. AtRest(t)' => AtRest(t)
      BY LoopStep DEF AtRest
    <3> QED
      BY <1>1, <2>2, <3>1, LoopStep DEF ThreadsOK
  <2> QED
    BY <2>1, <2>2
<1>9. QED
  BY <1>3, <1>5, <1>7, <1>8, InvParts, PTL

-----------------------------------------------------------------------------
(* The parent while the queue is in use.                                     *)

(* Nothing is said of a thread that has just been set running but that it is *)
(* at work; of the others nothing changes.                                   *)
LEMMA Started ==
  ASSUME ThreadTypeOK, NEW t \in Threads, SignalRunToStart(t), ~exit[t], ~cancel[t],
         at[t] \in {"none", "start", "completed"}
  PROVE  /\ ThreadTypeOK' /\ UNCHANGED <<complete, exit, cancel>>
         /\ at'[t] \in {"start", "completed"} /\ Working(t)'
         /\ \A u \in Threads \ {t} : /\ at'[u] = at[u] /\ start'[u] = start[u]
BY DEF SignalRunToStart, ThreadTypeOK, Places, Working

LEMMA Completed ==
  ASSUME ThreadTypeOK, NEW t \in Threads, WaitForRunToComplete(t)
  PROVE  /\ ThreadTypeOK' /\ UNCHANGED <<at, start, exit, cancel>>
         /\ complete[t] /\ ~complete'[t]
         /\ \A u \in Threads \ {t} : complete'[u] = complete[u]
         /\ \A u \in Threads : Working(u)' = Working(u)
BY DEF WaitForRunToComplete, ThreadTypeOK, Working

(* A step that touches neither threads nor deques nor the job of anybody.    *)
LEMMA SameThreads ==
  ASSUME UNCHANGED tvars
  PROVE  /\ ThreadTypeOK => ThreadTypeOK'
         /\ \A t \in Threads : Working(t)' = Working(t) /\ AtRest(t)' = AtRest(t)
BY DEF tvars, ThreadTypeOK, Working, AtRest

LEMMA InvBeginRound == DoubleInv /\ BeginRound => DoubleInv'
<1> SUFFICES ASSUME DoubleInv, BeginRound PROVE DoubleInv'
  OBVIOUS
<1>1. DoubleTypeOK /\ InDeques /\ AtWork /\ ParentOK /\ ThreadsOK /\ GivenOK
  BY InvParts
<1>2. /\ place = "outside" /\ place' = "top" /\ limit' \in limit .. NumJobs
      /\ UNCHANGED tvars /\ UNCHANGED <<at, start, complete, exit, cancel>>
      /\ UNCHANGED <<threaded, available, active, hand, next, given, ran, collected>>
  BY DEF BeginRound, To, queues, tvars
<1>3. ~Released /\ ~Released' /\ All' = All
  BY <1>2 DEF Released, All
<1>4. DoubleTypeOK'
  <2>1. limit' \in 0 .. NumJobs
    BY <1>1, <1>2 DEF DoubleTypeOK
  <2> QED
    BY <1>1, <1>2, <2>1, SameThreads DEF DoubleTypeOK
<1>5. InDeques' /\ AtWork' /\ GivenOK' /\ ThreadsOK'
  <2>1. InDeques' /\ GivenOK'
    BY <1>1, <1>2, <1>3 DEF InDeques, GivenOK
  <2>2. AtWork'
    BY <1>1, <1>2, <1>3, SameThreads DEF AtWork, HasJob
  <2>3. ThreadsOK'
    BY <1>1, <1>2, <1>3, SameThreads DEF ThreadsOK
  <2> QED
    BY <2>1, <2>2, <2>3
<1>6. ParentOK'
  <2>1. next \in 1 .. limit' + 1
    <3>1. next \in 1 .. limit + 1 /\ limit \in 0 .. NumJobs
      BY <1>1 DEF ParentOK, DoubleTypeOK
    <3>2. limit' \in limit .. NumJobs
      BY <1>2
    <3>3. limit' \in Int /\ limit \in Int /\ limit <= limit'
      BY <3>1, <3>2
    <3>4. next \in Int /\ 1 <= next /\ next <= limit + 1
      BY <3>1, <3>3
    <3>5. \A a, b, c \in Int :
            1 <= a /\ a <= b + 1 /\ b <= c => a \in 1 .. c + 1
      OBVIOUS
    <3> QED
      BY ONLY <3>3, <3>4, <3>5
  <2>2. place' \notin PlacesWithHand /\ hand \notin Threads
    BY <1>1, <1>2, <1>3 DEF ParentOK, PlacesWithHand
  <2>3. /\ place' \notin {"grabbed", "inThread", "inParent", "ranInParent"}
        /\ place' \notin {"release", "wait"}
    BY <1>2
  <2>4. ~threaded => available = <<>> /\ active = <<>>
    BY <1>1 DEF ParentOK
  <2> QED
    BY <1>2, <1>3, <2>1, <2>2, <2>3, <2>4 DEF ParentOK
<1>7. QED
  BY <1>4, <1>5, <1>6, InvParts, PTL

LEMMA InvGrabAvailable == DoubleInv /\ GrabAvailable => DoubleInv'
<1> SUFFICES ASSUME DoubleInv, GrabAvailable PROVE DoubleInv'
  OBVIOUS
<1>1. DoubleTypeOK /\ InDeques /\ AtWork /\ ParentOK /\ ThreadsOK /\ GivenOK
  BY InvParts
<1>2. /\ place = "top" /\ place' = "inThread" /\ threaded /\ MoreJobs
      /\ available # <<>> /\ hand' = Head(available) /\ available' = Tail(available)
      /\ UNCHANGED tvars /\ UNCHANGED <<at, start, complete, exit, cancel>>
      /\ UNCHANGED <<threaded, active, next, limit, given, ran, collected>>
  BY DEF GrabAvailable, To, tvars
<1>3. ~Released /\ ~Released' /\ MoreJobs'
  BY <1>2 DEF Released, MoreJobs
<1>4. /\ hand' \in Threads /\ available' \in Seq(Threads)
      /\ ToSet(available) = ToSet(available') \cup {hand'}
      /\ IsInjective(available) => /\ IsInjective(available')
                                   /\ hand' \notin ToSet(available')
  BY <1>1, <1>2, Taken DEF DoubleTypeOK
<1>5. DoubleTypeOK'
  BY <1>1, <1>2, <1>4, SameThreads DEF DoubleTypeOK
<1>6. hand \notin Threads
  BY <1>1, <1>2, <1>3 DEF ParentOK, PlacesWithHand
<1>7. InDeques'
  BY <1>1, <1>2, <1>3, <1>4, <1>6 DEF InDeques
<1>8. AtWork' /\ GivenOK'
  BY <1>1, <1>2, <1>3, <1>4, <1>6, SameThreads DEF InDeques, AtWork, HasJob, GivenOK
<1>9. ThreadsOK' /\ ParentOK'
  BY <1>1, <1>2, <1>3, <1>4, SameThreads DEF ThreadsOK, ParentOK, PlacesWithHand
<1>10. QED
  BY <1>5, <1>7, <1>8, <1>9, InvParts, PTL

LEMMA InvGrabActive == DoubleInv /\ GrabActive => DoubleInv'
<1> SUFFICES ASSUME DoubleInv, GrabActive PROVE DoubleInv'
  OBVIOUS
<1>1. DoubleTypeOK /\ InDeques /\ AtWork /\ ParentOK /\ ThreadsOK /\ GivenOK
  BY InvParts
<1>2. /\ place = "top" /\ place' = "grabbed" /\ threaded /\ MoreJobs
      /\ available = <<>> /\ hand' = Head(active) /\ active' = Tail(active)
      /\ UNCHANGED tvars /\ UNCHANGED <<at, start, complete, exit, cancel>>
      /\ UNCHANGED <<threaded, available, next, limit, given, ran, collected>>
  BY DEF GrabActive, To, tvars
<1>3. ~Released /\ ~Released' /\ MoreJobs'
  BY <1>2 DEF Released, MoreJobs
<1>4. hand \notin Threads
  BY <1>1, <1>2, <1>3 DEF ParentOK, PlacesWithHand
<1>5. active # <<>>
  <2>1. 1 \in Threads
    BY DEF Threads
  <2> QED
    BY <1>1, <1>2, <1>3, <1>4, <2>1, NothingListed DEF InDeques
<1>6. /\ hand' \in Threads /\ active' \in Seq(Threads)
      /\ ToSet(active) = ToSet(active') \cup {hand'}
      /\ IsInjective(active) => IsInjective(active') /\ hand' \notin ToSet(active')
  BY <1>1, <1>2, <1>5, Taken DEF DoubleTypeOK
<1>7. DoubleTypeOK'
  BY <1>1, <1>2, <1>6, SameThreads DEF DoubleTypeOK
<1>8. InDeques'
  BY <1>1, <1>2, <1>3, <1>4, <1>6 DEF InDeques
<1>9. AtWork' /\ GivenOK'
  BY <1>1, <1>2, <1>3, <1>4, <1>6, SameThreads DEF InDeques, AtWork, HasJob, GivenOK
<1>10. ThreadsOK' /\ ParentOK'
  BY <1>1, <1>2, <1>3, <1>6, SameThreads DEF ThreadsOK, ParentOK, PlacesWithHand
<1>11. QED
  BY <1>7, <1>8, <1>9, <1>10, InvParts, PTL

LEMMA InvWaitForGrabbed == DoubleInv /\ WaitForGrabbed => DoubleInv'
<1> SUFFICES ASSUME DoubleInv, WaitForGrabbed PROVE DoubleInv'
  OBVIOUS
<1>1. DoubleTypeOK /\ InDeques /\ AtWork /\ ParentOK /\ ThreadsOK /\ GivenOK
  BY InvParts
<1>2. /\ place = "grabbed" /\ place' = "inThread" /\ WaitForRunToComplete(hand)
      /\ collected' = collected \cup {given[hand]}
      /\ UNCHANGED <<threaded, available, active, hand, next, limit, given, ran>>
  BY DEF WaitForGrabbed, Collect, To, queues
<1>3. /\ ~Released /\ ~Released' /\ MoreJobs' = MoreJobs /\ All' = All
      /\ hand \in Threads /\ threaded
  BY <1>1, <1>2 DEF Released, MoreJobs, ParentOK, PlacesWithHand, All
<1>4. given[hand] \in Jobs
  BY <1>1, <1>2, <1>3 DEF GivenOK
<1>5. /\ ThreadTypeOK' /\ UNCHANGED <<at, start, exit, cancel>>
      /\ complete[hand] /\ ~complete'[hand]
      /\ \A u \in Threads \ {hand} : complete'[u] = complete[u]
      /\ \A u \in Threads : Working(u)' = Working(u)
  BY <1>1, <1>2, <1>3, Completed DEF DoubleTypeOK
<1>6. DoubleTypeOK'
  BY <1>1, <1>2, <1>4, <1>5 DEF DoubleTypeOK
<1>7. InDeques' /\ GivenOK'
  BY <1>1, <1>2, <1>3 DEF InDeques, GivenOK
<1>8. hand \notin ToSet(active)
  BY <1>1, <1>2, <1>3 DEF InDeques
<1>9. ~Working(hand)
  <2>1. Working(hand) # complete[hand]
    BY <1>1, <1>2, <1>3 DEF AtWork, HasJob
  <2> QED
    BY <1>5, <2>1 DEF Working
<1>10. AtWork'
  <2> SUFFICES ASSUME NEW u \in Threads
               PROVE  IF HasJob(u)' THEN Working(u)' # complete'[u] ELSE AtRest(u)'
    BY DEF AtWork
  <2>1. CASE u = hand
    BY <1>2, <1>5, <1>8, <1>9, <2>1 DEF HasJob, AtRest
  <2>2. CASE u # hand
    <3>1. IF HasJob(u) THEN Working(u) # complete[u] ELSE AtRest(u)
      BY <1>1, <1>3 DEF AtWork
    <3> QED
      BY <1>2, <1>5, <2>2, <3>1 DEF HasJob, AtRest
  <2> QED
    BY <2>1, <2>2
<1>11. ThreadsOK'
  BY <1>1, <1>2, <1>3, <1>5 DEF ThreadsOK, AtRest
<1>12. ParentOK'
  BY <1>1, <1>2, <1>3 DEF ParentOK, PlacesWithHand
<1>13. QED
  BY <1>6, <1>7, <1>10, <1>11, <1>12, InvParts, PTL

LEMMA InvActivate == DoubleInv /\ Activate => DoubleInv'
<1> SUFFICES ASSUME DoubleInv, Activate PROVE DoubleInv'
  OBVIOUS
<1>1. DoubleTypeOK /\ InDeques /\ AtWork /\ ParentOK /\ ThreadsOK /\ GivenOK
  BY InvParts
<1>2. /\ place = "inThread" /\ place' = "top" /\ SignalRunToStart(hand)
      /\ given' = [given EXCEPT ![hand] = next]
      /\ active' = Append(active, hand) /\ hand' = 0 /\ next' = next + 1
      /\ UNCHANGED <<threaded, available, limit, ran, collected>>
  BY DEF Activate, To
<1>3. /\ ~Released /\ ~Released' /\ threaded /\ hand \in Threads
      /\ next \in 1 .. limit /\ limit \in 0 .. NumJobs
  BY <1>1, <1>2 DEF Released, ParentOK, PlacesWithHand, MoreJobs, DoubleTypeOK
<1>3a. PICK h \in Threads : h = hand
  BY <1>3
<1>4. next \in Jobs /\ next' \in 1 .. NumJobs + 1 /\ next' \in 1 .. limit + 1
  BY <1>2, <1>3 DEF Jobs
<1>5. h \notin ToSet(available) \cup ToSet(active) /\ AtRest(h)
  BY <1>1, <1>2, <1>3, <1>3a DEF InDeques, AtWork, HasJob
<1>6. /\ active' \in Seq(Threads) /\ ToSet(active') = ToSet(active) \cup {h}
      /\ IsInjective(active) => IsInjective(active')
  BY <1>1, <1>2, <1>3a, <1>5, Appended DEF DoubleTypeOK
<1>7. /\ ThreadTypeOK' /\ UNCHANGED <<complete, exit, cancel>>
      /\ at'[h] \in {"start", "completed"} /\ Working(h)'
      /\ \A u \in Threads \ {h} : /\ at'[u] = at[u] /\ start'[u] = start[u]
  <2>1. /\ ~exit[h] /\ ~cancel[h]
        /\ at[h] \in {"none", "start", "completed"}
    BY <1>1, <1>3, <1>5 DEF ThreadsOK, AtRest, Working
  <2>2. ThreadTypeOK /\ SignalRunToStart(h)
    BY <1>1, <1>2, <1>3a DEF DoubleTypeOK
  <2> QED
    BY <2>1, <2>2, Started
<1>8. \A u \in Threads \ {h} : /\ Working(u)' = Working(u)
                                  /\ AtRest(u)' = AtRest(u)
                                  /\ given'[u] = given[u]
  BY <1>1, <1>2, <1>3a, <1>7 DEF Working, AtRest, DoubleTypeOK
<1>9. given'[h] = next /\ 0 \notin Threads
  BY <1>1, <1>2, <1>3a DEF DoubleTypeOK, Threads
<1>10. DoubleTypeOK'
  BY <1>1, <1>2, <1>4, <1>6, <1>7 DEF DoubleTypeOK
<1>11. InDeques'
  <2>1. hand' \notin ToSet(available) \cup ToSet(active')
    <3>1. ToSet(available) \subseteq Threads /\ ToSet(active') \subseteq Threads
      BY <1>1, <1>6 DEF ToSet, DoubleTypeOK
    <3> QED
      BY <1>2, <1>9, <3>1
  <2> QED
    BY <1>1, <1>2, <1>3, <1>3a, <1>5, <1>6, <2>1 DEF InDeques
<1>12. AtWork'
  <2> SUFFICES ASSUME NEW u \in Threads
               PROVE  IF HasJob(u)' THEN Working(u)' # complete'[u] ELSE AtRest(u)'
    BY DEF AtWork
  <2>1. CASE u = h
    <3>1. HasJob(u)' /\ Working(u)' /\ ~complete[u]
      BY <1>5, <1>6, <1>7, <2>1 DEF HasJob, AtRest
    <3> QED
      BY <1>7, <3>1
  <2>2. CASE u # h
    <3>1. IF HasJob(u) THEN Working(u) # complete[u] ELSE AtRest(u)
      BY <1>1, <1>3 DEF AtWork
    <3>2. HasJob(u)' <=> HasJob(u)
      BY <1>2, <1>3a, <1>6, <2>2 DEF HasJob
    <3> QED
      BY <1>7, <1>8, <2>2, <3>1, <3>2
  <2> QED
    BY <2>1, <2>2
<1>13. GivenOK'
  <2> SUFFICES ASSUME NEW u \in Threads, u \in ToSet(active')
               PROVE  given'[u] \in Jobs
    BY <1>2 DEF GivenOK
  <2>1. CASE u = h
    BY <1>4, <1>9, <2>1
  <2>2. CASE u # h
    BY <1>1, <1>6, <1>8, <2>2 DEF GivenOK
  <2> QED
    BY <2>1, <2>2
<1>14. ThreadsOK'
  <2> SUFFICES ASSUME NEW u \in Threads
               PROVE  /\ ~exit[u] /\ ~cancel[u]
                      /\ at'[u] \in {"none", "start", "check", "run", "ran",
                                     "signal", "completed"}
                      /\ start'[u] => at'[u] \in {"start", "completed"}
                      /\ AtRest(u)' => given'[u] \in {0} \cup collected
    BY <1>2, <1>7 DEF ThreadsOK
  <2>1. CASE u = h
    <3>1. ~AtRest(u)' /\ ~exit[u] /\ ~cancel[u]
      BY <1>1, <1>3, <1>7, <2>1 DEF ThreadsOK, AtRest
    <3> QED
      BY <1>7, <2>1, <3>1
  <2>2. CASE u # h
    BY <1>1, <1>3, <1>7, <1>8, <2>2 DEF ThreadsOK
  <2> QED
    BY <2>1, <2>2
<1>15. ParentOK'
  BY <1>1, <1>2, <1>3, <1>4, <1>9 DEF ParentOK, PlacesWithHand
<1>16. QED
  BY <1>10, <1>11, <1>12, <1>13, <1>14, <1>15, InvParts, PTL

(* A step by which the parent holds nothing before or after, and touches      *)
(* neither threads nor deques.                                               *)
LEMMA HandsFree ==
  ASSUME DoubleInv, UNCHANGED tvars,
         UNCHANGED <<threaded, available, active, hand, limit, given>>,
         place \in {"outside", "top", "inParent", "ranInParent"},
         place' \in {"outside", "top", "inParent", "ranInParent"},
         place' \in {"inParent", "ranInParent"} => next' > 1,
         next' \in 1 .. limit + 1, ran' \in [Jobs -> Nat],
         collected \subseteq collected', collected' \subseteq Jobs
  PROVE  DoubleInv'
<1>1. DoubleTypeOK /\ InDeques /\ AtWork /\ ParentOK /\ ThreadsOK /\ GivenOK
  BY InvParts
<1>2. /\ ~Released /\ ~Released' /\ All' = All
      /\ UNCHANGED <<at, start, complete, exit, cancel>>
  BY DEF Released, All, tvars
<1>3. DoubleTypeOK'
  <2>1. next' \in 1 .. NumJobs + 1
    BY <1>1 DEF DoubleTypeOK
  <2> QED
    BY <1>1, <2>1, SameThreads DEF DoubleTypeOK
<1>4. InDeques' /\ GivenOK'
  BY <1>1, <1>2 DEF InDeques, GivenOK
<1>5. AtWork'
  BY <1>1, <1>2, SameThreads DEF AtWork, HasJob
<1>6. ThreadsOK'
  BY <1>1, <1>2, SameThreads DEF ThreadsOK
<1>7. ParentOK'
  <2>1. place' \notin PlacesWithHand /\ hand \notin Threads
    BY <1>1, <1>2 DEF ParentOK, PlacesWithHand
  <2>2. place' \notin {"grabbed", "inThread"} /\ place' \notin {"release", "wait"}
    OBVIOUS
  <2>3. ~threaded => available = <<>> /\ active = <<>>
    BY <1>1 DEF ParentOK
  <2> QED
    BY <1>2, <2>1, <2>2, <2>3 DEF ParentOK
<1>8. QED
  BY <1>3, <1>4, <1>5, <1>6, <1>7, InvParts, PTL

LEMMA InvRunInParent == DoubleInv /\ RunInParent => DoubleInv'
<1> SUFFICES ASSUME DoubleInv, RunInParent PROVE DoubleInv'
  OBVIOUS
<1>1. DoubleTypeOK /\ ParentOK
  BY InvParts
<1>2. /\ next \in 1 .. limit + 1 /\ limit \in 0 .. NumJobs
      /\ ran \in [Jobs -> Nat] /\ collected \subseteq Jobs
      /\ place \in {"inParent", "ranInParent"} => next - 1 \in Jobs
  BY <1>1 DEF DoubleTypeOK, ParentOK, Jobs
<1>3. CASE /\ place = "top" /\ ~threaded /\ MoreJobs
           /\ next' = next + 1
           /\ To("inParent")
           /\ UNCHANGED <<tvars, threaded, queues, hand, limit, given, ran,
                          collected>>
  <2>1. next' \in 1 .. limit + 1 /\ next' > 1
    BY <1>2, <1>3 DEF MoreJobs
  <2> QED
    BY <1>2, <1>3, <2>1, HandsFree DEF To, queues
<1>4. CASE /\ place = "inParent"
           /\ ran' = [ran EXCEPT ![next - 1] = @ + 1]
           /\ To("ranInParent")
           /\ UNCHANGED <<tvars, threaded, queues, hand, next, limit, given,
                          collected>>
  <2>1. ran' \in [Jobs -> Nat] /\ next > 1
    BY <1>1, <1>2, <1>4 DEF ParentOK
  <2> QED
    BY <1>2, <1>4, <2>1, HandsFree DEF To, queues
<1>5. CASE /\ place = "ranInParent"
           /\ collected' = collected \cup {next - 1}
           /\ To("top")
           /\ UNCHANGED <<tvars, threaded, queues, hand, next, limit, given, ran>>
  BY <1>2, <1>5, HandsFree DEF To, queues
<1>6. QED
  BY <1>3, <1>4, <1>5 DEF RunInParent

LEMMA InvWaitForThreads == DoubleInv /\ WaitForThreads => DoubleInv'
<1> SUFFICES ASSUME DoubleInv, WaitForThreads PROVE DoubleInv'
  OBVIOUS
<1>1. DoubleTypeOK /\ InDeques /\ AtWork /\ ParentOK /\ ThreadsOK /\ GivenOK
  BY InvParts
<1>2. CASE active = <<>> /\ To("outside") /\ UNCHANGED <<hand, queues>>
  BY <1>1, <1>2, HandsFree DEF WaitForThreads, To, queues, DoubleTypeOK, ParentOK
<1>3. CASE /\ active # <<>>
           /\ hand' = Head(active)
           /\ active' = Tail(active)
           /\ available' = Append(available, Head(active))
           /\ To("wait")
  <2>1. /\ place = "top" /\ place' = "wait"
        /\ UNCHANGED tvars /\ UNCHANGED <<at, start, complete, exit, cancel>>
        /\ UNCHANGED <<threaded, next, limit, given, ran, collected>>
    BY <1>3 DEF WaitForThreads, To, tvars
  <2>2. ~Released /\ ~Released' /\ threaded
    BY <1>1, <1>3, <2>1 DEF Released, ParentOK
  <2>3. hand \notin Threads
    BY <1>1, <2>1, <2>2 DEF ParentOK, PlacesWithHand
  <2>4. /\ hand' \in Threads /\ active' \in Seq(Threads)
        /\ ToSet(active) = ToSet(active') \cup {hand'}
        /\ IsInjective(active) => IsInjective(active') /\ hand' \notin ToSet(active')
    BY <1>1, <1>3, Taken DEF DoubleTypeOK
  <2>5. /\ IsInjective(active) /\ IsInjective(available)
        /\ ToSet(available) \cap ToSet(active) = {}
        /\ Threads \subseteq ToSet(available) \cup ToSet(active) \cup {hand}
    BY <1>1, <2>2 DEF InDeques
  <2>6. /\ available' \in Seq(Threads)
        /\ ToSet(available') = ToSet(available) \cup {hand'}
        /\ hand' \notin ToSet(available)
        /\ IsInjective(available')
    <3>1. PICK h \in Threads : h = hand'
      BY <2>4
    <3>2. available' = Append(available, h) /\ h \notin ToSet(available)
      BY <1>3, <2>4, <2>5, <3>1
    <3> QED
      BY <1>1, <2>5, <3>1, <3>2, Appended DEF DoubleTypeOK
  <2>7. DoubleTypeOK'
    BY <1>1, <2>1, <2>4, <2>6, SameThreads DEF DoubleTypeOK
  <2>8. InDeques'
    BY <2>1, <2>2, <2>3, <2>4, <2>5, <2>6 DEF InDeques
  <2>9. AtWork' /\ GivenOK'
    BY <1>1, <2>1, <2>2, <2>3, <2>4, <2>5, SameThreads DEF AtWork, HasJob, GivenOK
  <2>10. ThreadsOK' /\ ParentOK'
    BY <1>1, <2>1, <2>2, <2>4, <2>5, SameThreads DEF ThreadsOK, ParentOK, PlacesWithHand
  <2> QED
    BY <2>7, <2>8, <2>9, <2>10, InvParts, PTL
<1>4. QED
  BY <1>2, <1>3 DEF WaitForThreads

LEMMA InvWaitForOne == DoubleInv /\ WaitForOne => DoubleInv'
<1> SUFFICES ASSUME DoubleInv, WaitForOne PROVE DoubleInv'
  OBVIOUS
<1>1. DoubleTypeOK /\ InDeques /\ AtWork /\ ParentOK /\ ThreadsOK /\ GivenOK
  BY InvParts
<1>2. /\ place = "wait" /\ place' = "top" /\ hand' = 0
      /\ UNCHANGED <<threaded, available, active, next, limit, given, ran>>
  BY DEF WaitForOne, Collect, To, queues
<1>3. /\ ~Released /\ ~Released' /\ threaded /\ hand \in Threads /\ 0 \notin Threads
  BY <1>1, <1>2 DEF Released, ParentOK, PlacesWithHand, Threads
<1>4. PICK h \in Threads : h = hand
  BY <1>3
<1>5. WaitForRunToComplete(h) /\ collected' = collected \cup {given[h]}
  BY <1>4 DEF WaitForOne, Collect
<1>6. given[h] \in Jobs
  BY <1>1, <1>2, <1>4 DEF GivenOK
<1>7. /\ ThreadTypeOK' /\ UNCHANGED <<at, start, exit, cancel>>
      /\ complete[h] /\ ~complete'[h]
      /\ \A u \in Threads \ {h} : complete'[u] = complete[u]
      /\ \A u \in Threads : Working(u)' = Working(u)
  BY <1>1, <1>5, Completed DEF DoubleTypeOK
<1>8. DoubleTypeOK'
  BY <1>1, <1>2, <1>5, <1>6, <1>7 DEF DoubleTypeOK
<1>9. ToSet(available) \subseteq Threads /\ ToSet(active) \subseteq Threads
  BY <1>1 DEF DoubleTypeOK, ToSet
<1>10. InDeques'
  BY <1>1, <1>2, <1>3, <1>4, <1>9 DEF InDeques
<1>11. ~Working(h) /\ h \notin ToSet(active)
  <2>1. Working(h) # complete[h]
    BY <1>1, <1>2, <1>3, <1>4 DEF AtWork, HasJob
  <2> QED
    BY <1>1, <1>2, <1>4, <1>7, <2>1 DEF Working, ParentOK
<1>12. AtWork'
  <2> SUFFICES ASSUME NEW u \in Threads
               PROVE  IF HasJob(u)' THEN Working(u)' # complete'[u] ELSE AtRest(u)'
    BY DEF AtWork
  <2>1. CASE u = h
    BY <1>2, <1>7, <1>11, <2>1 DEF HasJob, AtRest
  <2>2. CASE u # h
    <3>1. IF HasJob(u) THEN Working(u) # complete[u] ELSE AtRest(u)
      BY <1>1, <1>3 DEF AtWork
    <3> QED
      BY <1>2, <1>4, <1>7, <2>2, <3>1 DEF HasJob, AtRest
  <2> QED
    BY <2>1, <2>2
<1>13. ThreadsOK' /\ GivenOK'
  BY <1>1, <1>2, <1>3, <1>4, <1>5, <1>7 DEF ThreadsOK, GivenOK, AtRest
<1>14. ParentOK'
  BY <1>1, <1>2, <1>3 DEF ParentOK, PlacesWithHand
<1>15. QED
  BY <1>8, <1>10, <1>12, <1>13, <1>14, InvParts, PTL

-----------------------------------------------------------------------------
(* The release.  Of the threads nothing is said any more but their types: a  *)
(* cancelled one may be anywhere; what is kept is the two deques.            *)

LEMMA InRelease ==
  ASSUME DoubleInv,
         UNCHANGED <<threaded, available, active, next, limit, given, ran>>,
         ThreadTypeOK', collected' \subseteq Jobs,
         place' \in {"release", "exit", "exited", "delete", "join", "gone"},
         hand' \in Threads \cup {0},
         place' # "gone" => threaded /\ hand' \in Threads,
         place' = "release" => hand' \in ToSet(active),
         threaded => IsInjective(All) /\ Threads \subseteq ToSet(All)
  PROVE  DoubleInv'
<1>1. DoubleTypeOK /\ ParentOK /\ GivenOK
  BY InvParts
<1>2. Released' /\ All' = All
  BY DEF Released, All
<1>3. DoubleTypeOK'
  BY <1>1 DEF DoubleTypeOK
<1>4. InDeques' /\ AtWork' /\ ThreadsOK'
  BY <1>2 DEF InDeques, AtWork, ThreadsOK
<1>5. GivenOK'
  BY <1>1 DEF GivenOK
<1>6. ParentOK'
  <2>1. next \in 1 .. limit + 1 /\ (~threaded => available = <<>> /\ active = <<>>)
    BY <1>1 DEF ParentOK
  <2>2. /\ place' \notin {"grabbed", "inThread", "inParent", "ranInParent", "wait"}
        /\ place' \notin PlacesWithHand
    BY DEF PlacesWithHand
  <2> QED
    BY <1>2, <2>1, <2>2 DEF ParentOK
<1>7. QED
  BY <1>3, <1>4, <1>5, <1>6, InvParts, PTL

(* All the threads of a queue with threads are in its deques when it is      *)
(* released, so that there is a first one for each pass.                     *)
LEMMA AllListed ==
  ASSUME DoubleInv, Released, place # "gone"
  PROVE  /\ threaded /\ hand \in Threads
         /\ IsInjective(All) /\ Threads \subseteq ToSet(All)
         /\ All \in Seq(Threads) /\ All # <<>> /\ All[1] \in Threads
         /\ active \in Seq(Threads) /\ IsInjective(active)
         /\ ThreadTypeOK /\ collected \subseteq Jobs
         /\ given \in [Threads -> Jobs \cup {0}]
<1>1. /\ DoubleTypeOK /\ ParentOK
      /\ available \in Seq(Threads) /\ active \in Seq(Threads)
  BY InvParts, DequesTyped
<1>2. /\ threaded /\ hand \in Threads
      /\ IsInjective(All) /\ Threads \subseteq ToSet(All)
  BY <1>1 DEF ParentOK
<1>3. All \in Seq(Threads) /\ IsInjective(active)
  BY <1>1, <1>2, DequesParts
<1>4. All # <<>>
  BY <1>2, NothingListed
<1>5. All[1] \in Threads
  BY <1>3, <1>4
<1>6. QED
  BY <1>1, <1>2, <1>3, <1>4, <1>5 DEF DoubleTypeOK

(* The next thread of a pass is one of its list; the pass that follows       *)
(* begins with a thread.                                                     *)
LEMMA PassHand ==
  ASSUME NEW list \in Seq(Threads), IsInjective(list), All # <<>>,
         All[1] \in Threads, NEW p, NEW following, p # following,
         Pass(list, p, following)
  PROVE  /\ place' \in {p, following} /\ hand' \in Threads \cup {0}
         /\ place' = p => hand' \in ToSet(list) /\ hand' \in Threads
         /\ place' # "gone" => hand' \in Threads
<1>1. CASE \E i \in DOMAIN list : list[i] = hand /\ i < Len(list)
  <2>1. PICK i \in DOMAIN list : list[i] = hand /\ i < Len(list)
    BY <1>1
  <2>2. (CHOOSE k \in DOMAIN list : list[k] = hand) = i
    BY <2>1 DEF IsInjective
  <2>3. hand' = list[i + 1] /\ place' = p
    BY <1>1, <2>2 DEF Pass, To
  <2>4. i + 1 \in DOMAIN list
    BY <2>1
  <2>5. list[i + 1] \in Threads /\ list[i + 1] \in ToSet(list)
    BY <2>4 DEF ToSet
  <2> QED
    BY <2>3, <2>5
<1>2. CASE ~(\E i \in DOMAIN list : list[i] = hand /\ i < Len(list))
  <2>1. hand' = IF following = "gone" THEN 0 ELSE All[1]
    BY <1>2 DEF Pass
  <2>2. place' = following
    BY <1>2 DEF Pass, To
  <2> QED
    BY <2>1, <2>2
<1>3. QED
  BY <1>1, <1>2

LEMMA InvReleaseThreads == DoubleInv /\ ReleaseThreads => DoubleInv'
<1> SUFFICES ASSUME DoubleInv, ReleaseThreads PROVE DoubleInv'
  OBVIOUS
<1>1. /\ DoubleTypeOK /\ InDeques /\ ParentOK
      /\ available \in Seq(Threads) /\ active \in Seq(Threads)
  BY InvParts, DequesTyped
<1>2. /\ place \in {"outside", "top"} /\ UNCHANGED tvars
      /\ UNCHANGED <<threaded, available, active, next, limit, given, ran,
                     collected>>
      /\ IF ~threaded THEN place' = "gone" /\ hand' = hand
         ELSE IF active # <<>> THEN place' = "release" /\ hand' = active[1]
         ELSE place' = "exit" /\ hand' = All[1]
  BY DEF ReleaseThreads, To, queues
<1>3. ~Released /\ hand \notin Threads
  BY <1>1, <1>2 DEF Released, ParentOK, PlacesWithHand
<1>4. threaded => IsInjective(All) /\ Threads \subseteq ToSet(All)
  BY <1>1, <1>2, <1>3, DequesParts DEF InDeques
<1>5. threaded => All \in Seq(Threads) /\ All # <<>>
  <2>1. 1 \in Threads
    BY DEF Threads
  <2> QED
    BY <1>1, <1>4, <2>1, DequesParts, NothingListed
<1>6. threaded => All[1] \in Threads
  BY <1>5
<1>7. active # <<>> => active[1] \in Threads /\ active[1] \in ToSet(active)
  BY <1>1 DEF ToSet
<1>8. /\ ThreadTypeOK' /\ collected' \subseteq Jobs
      /\ hand \in Threads \cup {0}
  BY <1>1, <1>2, SameThreads DEF DoubleTypeOK
<1>9. QED
  BY <1>2, <1>4, <1>6, <1>7, <1>8, InRelease

LEMMA InvWaitForActive == DoubleInv /\ WaitForActive => DoubleInv'
<1> SUFFICES ASSUME DoubleInv, WaitForActive PROVE DoubleInv'
  OBVIOUS
<1>1. /\ place = "release" /\ WaitForRunToComplete(hand)
      /\ collected' = collected \cup {given[hand]}
      /\ Pass(active, "release", "exit")
      /\ UNCHANGED <<threaded, available, active, next, limit, given, ran>>
  BY DEF WaitForActive, queues
<1>2. Released /\ place # "gone"
  BY <1>1 DEF Released
<1>3. given[hand] \in Jobs
  BY <1>1, InvParts, AllListed, <1>2 DEF ParentOK, GivenOK
<1>4. ThreadTypeOK'
  BY <1>1, <1>2, AllListed DEF WaitForRunToComplete, ThreadTypeOK
<1>5. /\ place' \in {"release", "exit"} /\ hand' \in Threads
      /\ place' = "release" => hand' \in ToSet(active)
  BY <1>1, <1>2, AllListed, PassHand
<1>6. QED
  BY <1>1, <1>2, <1>3, <1>4, <1>5, AllListed, InRelease

LEMMA InvTellToExit == DoubleInv /\ TellToExit => DoubleInv'
<1> SUFFICES ASSUME DoubleInv, TellToExit PROVE DoubleInv'
  OBVIOUS
<1>1. /\ place = "exit" /\ SetExitAndStart(hand) /\ Pass(All, "exit", "exited")
      /\ UNCHANGED <<threaded, available, active, next, limit, given, ran,
                     collected>>
  BY DEF TellToExit, queues
<1>2. Released /\ place # "gone"
  BY <1>1 DEF Released
<1>3. ThreadTypeOK'
  BY <1>1, <1>2, AllListed DEF SetExitAndStart, ThreadTypeOK, Places
<1>4. place' \in {"exit", "exited"} /\ hand' \in Threads
  BY <1>1, <1>2, AllListed, PassHand
<1>5. QED
  BY <1>1, <1>2, <1>3, <1>4, AllListed, InRelease

LEMMA InvWaitForExit == DoubleInv /\ WaitForExit => DoubleInv'
<1> SUFFICES ASSUME DoubleInv, WaitForExit PROVE DoubleInv'
  OBVIOUS
<1>1. /\ place = "exited" /\ WaitForRunToComplete(hand)
      /\ Pass(All, "exited", "delete")
      /\ UNCHANGED <<threaded, available, active, next, limit, given, ran,
                     collected>>
  BY DEF WaitForExit, queues
<1>2. Released /\ place # "gone"
  BY <1>1 DEF Released
<1>3. ThreadTypeOK'
  BY <1>1, <1>2, AllListed DEF WaitForRunToComplete, ThreadTypeOK
<1>4. place' \in {"exited", "delete"} /\ hand' \in Threads
  BY <1>1, <1>2, AllListed, PassHand
<1>5. QED
  BY <1>1, <1>2, <1>3, <1>4, AllListed, InRelease

LEMMA InvDeleteThread == DoubleInv /\ DeleteThread => DoubleInv'
<1> SUFFICES ASSUME DoubleInv, DeleteThread PROVE DoubleInv'
  OBVIOUS
<1>1. /\ place = "delete" /\ place' = "join" /\ BeginDelete(hand)
      /\ UNCHANGED <<threaded, available, active, hand, next, limit, given, ran,
                     collected>>
  BY DEF DeleteThread, To, queues
<1>2. Released /\ place # "gone"
  BY <1>1 DEF Released
<1>3. ThreadTypeOK'
  BY <1>1, <1>2, AllListed DEF BeginDelete, ThreadTypeOK
<1>4. QED
  BY <1>1, <1>2, <1>3, AllListed, InRelease

LEMMA InvJoinThread == DoubleInv /\ JoinThread => DoubleInv'
<1> SUFFICES ASSUME DoubleInv, JoinThread PROVE DoubleInv'
  OBVIOUS
<1>1. /\ place = "join" /\ Pass(All, "delete", "gone") /\ UNCHANGED tvars
      /\ UNCHANGED <<threaded, available, active, next, limit, given, ran,
                     collected>>
  BY DEF JoinThread, queues
<1>2. Released /\ place # "gone"
  BY <1>1 DEF Released
<1>3. ThreadTypeOK'
  BY <1>1, <1>2, AllListed, SameThreads
<1>4. /\ place' \in {"delete", "gone"} /\ hand' \in Threads \cup {0}
      /\ place' # "gone" => hand' \in Threads
  BY <1>1, <1>2, AllListed, PassHand
<1>5. QED
  BY <1>1, <1>2, <1>3, <1>4, AllListed, InRelease

-----------------------------------------------------------------------------
LEMMA InvStep == DoubleInv /\ [DoubleNext]_dvars => DoubleInv'
<1> SUFFICES ASSUME DoubleInv, [DoubleNext]_dvars PROVE DoubleInv'
  OBVIOUS
<1>1. CASE \E t \in Threads : ThreadStep(t)
  BY <1>1, InvLoop, InvRunMethod DEF ThreadStep
<1>2. CASE BeginRound
  BY <1>2, InvBeginRound
<1>3. CASE Call
  BY <1>3, InvGrabAvailable, InvGrabActive, InvWaitForGrabbed, InvActivate,
     InvRunInParent, InvWaitForThreads, InvWaitForOne, InvWaitForActive,
     InvTellToExit, InvWaitForExit, InvDeleteThread, InvJoinThread DEF Call
<1>4. CASE ReleaseThreads
  BY <1>4, InvReleaseThreads
<1>5. CASE UNCHANGED dvars
  <2>1. /\ UNCHANGED <<at, start, complete, exit, cancel>>
        /\ UNCHANGED <<threaded, available, active, place, hand, next, limit,
                       given, ran, collected>>
    BY <1>5 DEF dvars, tvars, queues, parent
  <2> QED
    BY <2>1 DEF DoubleInv, DequesOK, ParentOK, ThreadsOK, GivenOK, DoubleTypeOK,
       ThreadTypeOK, All, Released, Working, AtRest, MoreJobs
<1>6. QED
  BY <1>1, <1>2, <1>3, <1>4, <1>5 DEF DoubleNext, Gone

(* Whatever the threads do, the deques, the parent and the infos agree.      *)
THEOREM DoubleInvariant == DoubleSpec => []DoubleInv
<1>1. QED
  BY InvInit, InvStep, PTL DEF DoubleSpec

(* Until the release each thread is in one of the two deques or in the       *)
(* parent's hand, once; the available ones are at rest, and an active one    *)
(* works or has a completion to report, never both.                          *)
THEOREM DoubleDeques == DoubleSpec => []DequesOK
<1>1. DoubleInv => DequesOK
  BY DEF DoubleInv
<1>2. QED
  BY <1>1, DoubleInvariant, PTL

(* thread() gives a thread a new info only when the thread is at rest and    *)
(* the parent has waited for the job it held, if it held one.                *)
THEOREM DoubleInfoKept == DoubleSpec => InfoNotReplaced
<1> DEFINE Kept == \A t \in Threads :
                     given'[t] # given[t] =>
                       /\ AtRest(t)
                       /\ given[t] = 0 \/ given[t] \in collected
<1>1. ASSUME DoubleInv, Activate PROVE Kept
  <2>1. AtWork /\ ParentOK /\ ThreadsOK /\ DoubleTypeOK /\ InDeques
    BY <1>1, InvParts
  <2>2. /\ ~Released /\ threaded /\ place = "inThread" /\ hand \in Threads
        /\ given' = [given EXCEPT ![hand] = next]
    BY <1>1, <2>1 DEF Activate, Released, ParentOK, PlacesWithHand
  <2>3. AtRest(hand)
    BY <2>1, <2>2 DEF AtWork, HasJob, InDeques
  <2>4. given[hand] \in {0} \cup collected
    BY <2>1, <2>2, <2>3 DEF ThreadsOK
  <2>5. \A t \in Threads : t # hand => given'[t] = given[t]
    BY <2>1, <2>2 DEF DoubleTypeOK
  <2> QED
    BY <2>3, <2>4, <2>5
<1>2. ASSUME [DoubleNext]_dvars, ~Activate PROVE given' = given
  BY <1>2 DEF DoubleNext, dvars, ThreadStep, Loop, RunMethod, BeginRound, Call,
     GrabAvailable, GrabActive, WaitForGrabbed, RunInParent, WaitForThreads,
     WaitForOne, WaitForActive, TellToExit, WaitForExit, DeleteThread,
     JoinThread, ReleaseThreads, Gone
<1>3. DoubleInv /\ [DoubleNext]_dvars => [Kept]_dvars
  BY <1>1, <1>2
<1>4. QED
  BY <1>3, DoubleInvariant, PTL DEF DoubleSpec, InfoNotReplaced

-----------------------------------------------------------------------------
(* No job is lost.  What is left of a list from one of its elements on.      *)

LEMMA FromAt ==
  ASSUME NEW list \in Seq(Threads), IsInjective(list), NEW i \in DOMAIN list
  PROVE  From(list, list[i]) = {list[k] : k \in i .. Len(list)}
<1>1. /\ Len(list) \in Nat /\ DOMAIN list = 1 .. Len(list) /\ i \in Nat
      /\ i >= 1 /\ i <= Len(list)
  OBVIOUS
<1>2. ASSUME NEW k \in DOMAIN list
      PROVE  (\E l \in 1 .. k : list[l] = list[i]) <=> k \in i .. Len(list)
  <2>1. k \in Nat /\ k <= Len(list)
    BY <1>1
  <2>2. \A l \in 1 .. k : l \in DOMAIN list
    BY <1>1, <2>1
  <2>3. \A l \in 1 .. k : list[l] = list[i] => l = i
    BY <2>2 DEF IsInjective
  <2>4. (\E l \in 1 .. k : list[l] = list[i]) <=> i \in 1 .. k
    BY <2>3
  <2> QED
    BY <1>1, <2>1, <2>4
<1>3. i .. Len(list) \subseteq DOMAIN list
  BY <1>1
<1>4. From(list, list[i])
        = {list[k] : k \in {m \in DOMAIN list : \E l \in 1 .. m : list[l] = list[i]}}
  BY DEF From
<1>5. {m \in DOMAIN list : \E l \in 1 .. m : list[l] = list[i]} = i .. Len(list)
  BY <1>2, <1>3
<1>6. QED
  BY <1>4, <1>5

LEMMA FromFirst ==
  ASSUME NEW list \in Seq(Threads), IsInjective(list), list # <<>>
  PROVE  From(list, list[1]) = ToSet(list)
<1>1. 1 \in DOMAIN list /\ DOMAIN list = 1 .. Len(list)
  OBVIOUS
<1>2. From(list, list[1]) = {list[k] : k \in 1 .. Len(list)}
  BY <1>1, FromAt
<1>3. QED
  BY <1>1, <1>2 DEF ToSet

(* A pass goes on with what is left but for the thread it has dealt with, or *)
(* ends because that was the last one.                                       *)
LEMMA FromPass ==
  ASSUME NEW list \in Seq(Threads), IsInjective(list), hand \in ToSet(list),
         NEW p, NEW following, p # following, Pass(list, p, following)
  PROVE  /\ hand \in From(list, hand)
         /\ \/ place' = p /\ From(list, hand') = From(list, hand) \ {hand}
            \/ place' = following /\ From(list, hand) = {hand}
<1>1. PICK i \in DOMAIN list : list[i] = hand
  BY DEF ToSet
<1>2. /\ Len(list) \in Nat /\ DOMAIN list = 1 .. Len(list) /\ i \in Nat
      /\ i >= 1 /\ i <= Len(list)
  BY <1>1
<1>3. From(list, hand) = {list[k] : k \in i .. Len(list)}
  BY <1>1, FromAt
<1>4. hand \in From(list, hand)
  <2>1. i \in i .. Len(list)
    BY <1>2
  <2> QED
    BY <1>1, <1>3, <2>1
<1>5. \A k \in DOMAIN list : list[k] = hand => k = i
  BY <1>1 DEF IsInjective
<1>6. CASE i < Len(list)
  <2>1. \E k \in DOMAIN list : list[k] = hand /\ k < Len(list)
    BY <1>1, <1>6
  <2>2. (CHOOSE k \in DOMAIN list : list[k] = hand) = i
    BY <1>1, <1>5
  <2>3. hand' = list[i + 1] /\ place' = p
    BY <2>1, <2>2 DEF Pass, To
  <2>4. i + 1 \in DOMAIN list
    BY <1>2, <1>6
  <2>5. From(list, hand') = {list[k] : k \in i + 1 .. Len(list)}
    BY <2>3, <2>4, FromAt
  <2>6. ASSUME NEW k \in i + 1 .. Len(list)
        PROVE  k \in i .. Len(list) /\ list[k] # hand
    <3>1. k \in i .. Len(list) /\ k \in DOMAIN list /\ k # i
      BY <1>2
    <3> QED
      BY <1>5, <3>1
  <2>7. ASSUME NEW k \in i .. Len(list), list[k] # hand
        PROVE  k \in i + 1 .. Len(list)
    BY <1>1, <1>2, <2>7
  <2>8. From(list, hand') = From(list, hand) \ {hand}
    BY <1>3, <2>5, <2>6, <2>7
  <2> QED
    BY <1>4, <2>3, <2>8
<1>7. CASE ~(i < Len(list))
  <2>1. ~(\E k \in DOMAIN list : list[k] = hand /\ k < Len(list))
    BY <1>5, <1>7
  <2>2. place' = following
    BY <2>1 DEF Pass, To
  <2>3. i .. Len(list) = {i}
    BY <1>2, <1>7
  <2>4. From(list, hand) = {hand}
    BY <1>1, <1>3, <2>3
  <2> QED
    BY <1>4, <2>2, <2>4
<1>8. QED
  BY <1>6, <1>7

(* The jobs go on as they were when nobody comes to hold one or has done it. *)
LEMMA JobsKept ==
  ASSUME JobsOK, UNCHANGED <<given, next, ran, collected, threaded>>,
         \/ place' = place
         \/ ~InParent /\ place' \notin {"inParent", "ranInParent"},
         \A t \in Threads : Holds(t)' <=> Holds(t),
         \A t \in Threads : Holds(t) => ToRun(t)' = ToRun(t)
  PROVE  JobsOK'
<1>1. InParent' = InParent /\ (InParent => place' = place)
  BY DEF InParent
<1>2. \A t \in Threads : Holds(t)' =>
        /\ given'[t] \in 1 .. next' - 1 /\ given'[t] \notin collected'
        /\ ran'[given'[t]] = IF ToRun(t)' THEN 0 ELSE 1
  BY DEF JobsOK
<1>3. \A t, u \in Threads :
        Holds(t)' /\ Holds(u)' /\ given'[t] = given'[u] => t = u
  BY DEF JobsOK
<1>4. \A j \in Jobs :
        IF j >= next' THEN ran'[j] = 0 /\ j \notin collected'
        ELSE IF j \in collected' THEN ran'[j] = 1
        ELSE \/ \E t \in Threads : Holds(t)' /\ given'[t] = j
             \/ InParent' /\ j = next' - 1
  BY <1>1 DEF JobsOK
<1>5. InParent' => /\ ~threaded' /\ next' - 1 \in Jobs \ collected'
                   /\ ran'[next' - 1] = IF place' = "inParent" THEN 0 ELSE 1
  BY <1>1 DEF JobsOK
<1>6. QED
  BY <1>2, <1>3, <1>4, <1>5 DEF JobsOK

(* A job that has been run is waited for. *)
LEMMA JobCollected ==
  ASSUME JobsOK, UNCHANGED <<given, next, ran, threaded>>,
         ~InParent, place' \notin {"inParent", "ranInParent"},
         NEW h \in Threads, Holds(h), ~ToRun(h), given[h] \in Jobs,
         collected' = collected \cup {given[h]},
         \A t \in Threads : Holds(t)' <=> Holds(t) /\ t # h,
         \A t \in Threads \ {h} : Holds(t) => ToRun(t)' = ToRun(t)
  PROVE  JobsOK'
<1>1. ~InParent'
  BY DEF InParent
<1>2. /\ given[h] \in 1 .. next - 1 /\ given[h] \notin collected
      /\ ran[given[h]] = 1
  BY DEF JobsOK
<1>3. \A t \in Threads : Holds(t) /\ t # h => given[t] # given[h]
  BY DEF JobsOK
<1>4. \A t \in Threads : Holds(t)' =>
        /\ given'[t] \in 1 .. next' - 1 /\ given'[t] \notin collected'
        /\ ran'[given'[t]] = IF ToRun(t)' THEN 0 ELSE 1
  BY <1>3 DEF JobsOK
<1>5. \A t, u \in Threads :
        Holds(t)' /\ Holds(u)' /\ given'[t] = given'[u] => t = u
  BY DEF JobsOK
<1>6. ASSUME NEW j \in Jobs
      PROVE  IF j >= next' THEN ran'[j] = 0 /\ j \notin collected'
             ELSE IF j \in collected' THEN ran'[j] = 1
             ELSE \E t \in Threads : Holds(t)' /\ given'[t] = j
  <2>1. IF j >= next THEN ran[j] = 0 /\ j \notin collected
        ELSE IF j \in collected THEN ran[j] = 1
        ELSE \E t \in Threads : Holds(t) /\ given[t] = j
    BY DEF JobsOK
  <2>2. CASE j = given[h]
    <3>1. ran[j] = 1 /\ j \in collected'
      BY <1>2, <2>2
    <3> QED
      BY <2>1, <3>1
  <2>3. CASE j # given[h]
    <3>1. j \in collected' <=> j \in collected
      BY <2>3
    <3>2. (\E t \in Threads : Holds(t) /\ given[t] = j)
            => \E t \in Threads : Holds(t)' /\ given'[t] = j
      BY <2>3
    <3> QED
      BY <2>1, <3>1, <3>2
  <2> QED
    BY <2>2, <2>3
<1>7. QED
  BY <1>1, <1>4, <1>5, <1>6 DEF JobsOK

(* A thread that held none is given the next one. *)
LEMMA JobGiven ==
  ASSUME DoubleTypeOK, JobsOK, UNCHANGED <<ran, collected, threaded>>,
         next \in Jobs, next' = next + 1,
         ~InParent, place' \notin {"inParent", "ranInParent"},
         NEW h \in Threads, ~Holds(h), given' = [given EXCEPT ![h] = next],
         ToRun(h)',
         \A t \in Threads : Holds(t)' <=> Holds(t) \/ t = h,
         \A t \in Threads \ {h} : Holds(t) => ToRun(t)' = ToRun(t)
  PROVE  JobsOK'
<1>1. ~InParent'
  BY DEF InParent
<1>2. ran[next] = 0 /\ next \notin collected
  BY DEF JobsOK, Jobs
<1>3. /\ next \in Nat /\ given'[h] = next
      /\ \A t \in Threads \ {h} : given'[t] = given[t]
  BY DEF DoubleTypeOK, Jobs
<1>4. \A t \in Threads : Holds(t) => given[t] \in 1 .. next - 1
  BY DEF JobsOK
<1>5. ASSUME NEW t \in Threads, Holds(t)'
      PROVE  /\ given'[t] \in 1 .. next' - 1 /\ given'[t] \notin collected'
             /\ ran'[given'[t]] = IF ToRun(t)' THEN 0 ELSE 1
  <2>1. CASE t = h
    <3>1. next \in 1 .. next' - 1
      BY <1>3 DEF Jobs
    <3> QED
      BY <1>2, <1>3, <2>1, <3>1
  <2>2. CASE t # h
    <3>1. Holds(t) /\ given'[t] = given[t] /\ ToRun(t)' = ToRun(t)
      BY <1>3, <1>5, <2>2
    <3>2. given[t] \in 1 .. next' - 1
      BY <1>3, <1>4, <3>1
    <3> QED
      BY <3>1, <3>2 DEF JobsOK
  <2> QED
    BY <2>1, <2>2
<1>6. ASSUME NEW t \in Threads, NEW u \in Threads, Holds(t)', Holds(u)',
             given'[t] = given'[u]
      PROVE  t = u
  <2>1. \A v \in Threads : Holds(v) => given[v] # next
    BY <1>3, <1>4
  <2>2. CASE t = h \/ u = h
    BY <1>3, <1>6, <2>1, <2>2
  <2>3. CASE t # h /\ u # h
    BY <1>3, <1>6, <2>3 DEF JobsOK
  <2> QED
    BY <2>2, <2>3
<1>7. ASSUME NEW j \in Jobs
      PROVE  IF j >= next' THEN ran'[j] = 0 /\ j \notin collected'
             ELSE IF j \in collected' THEN ran'[j] = 1
             ELSE \E t \in Threads : Holds(t)' /\ given'[t] = j
  <2>1. IF j >= next THEN ran[j] = 0 /\ j \notin collected
        ELSE IF j \in collected THEN ran[j] = 1
        ELSE \E t \in Threads : Holds(t) /\ given[t] = j
    BY DEF JobsOK
  <2>2. CASE j = next
    <3>1. Holds(h)' /\ given'[h] = j /\ j \notin collected' /\ ~(j >= next')
      BY <1>2, <1>3, <2>2
    <3> QED
      BY <3>1
  <2>3. CASE j # next
    <3>1. j >= next' <=> j >= next
      BY <1>3, <2>3 DEF Jobs
    <3>2. (\E t \in Threads : Holds(t) /\ given[t] = j)
            => \E t \in Threads : Holds(t)' /\ given'[t] = j
      BY <1>3
    <3> QED
      BY <2>1, <3>1, <3>2
  <2> QED
    BY <2>2, <2>3
<1>8. QED
  BY <1>1, <1>5, <1>6, <1>7 DEF JobsOK

(* A thread runs the job it holds. *)
LEMMA JobRun ==
  ASSUME DoubleTypeOK, JobsOK,
         UNCHANGED <<given, next, collected, threaded, place>>,
         NEW h \in Threads, Holds(h), ToRun(h), given[h] \in Jobs,
         ran' = [j \in Jobs |-> IF j = given[h] THEN ran[j] + 1 ELSE ran[j]],
         ~ToRun(h)', ~InParent,
         \A t \in Threads : Holds(t)' <=> Holds(t),
         \A t \in Threads \ {h} : Holds(t) => ToRun(t)' = ToRun(t)
  PROVE  JobsOK'
<1>1. ~InParent'
  BY DEF InParent
<1>2. /\ given[h] \in 1 .. next - 1 /\ given[h] \notin collected
      /\ ran[given[h]] = 0 /\ ran'[given[h]] = 1
      /\ \A j \in Jobs : j # given[h] => ran'[j] = ran[j]
  BY DEF JobsOK
<1>3. ASSUME NEW t \in Threads, Holds(t)'
      PROVE  /\ given'[t] \in 1 .. next' - 1 /\ given'[t] \notin collected'
             /\ ran'[given'[t]] = IF ToRun(t)' THEN 0 ELSE 1
  <2>1. CASE t = h
    BY <1>2, <2>1
  <2>2. CASE t # h
    <3>1. Holds(t) /\ given[t] # given[h] /\ ToRun(t)' = ToRun(t)
      BY <1>3, <2>2 DEF JobsOK
    <3>2. given[t] \in 1 .. next - 1 /\ next \in 1 .. NumJobs + 1
      BY <3>1 DEF JobsOK, DoubleTypeOK
    <3>3. given[t] \in Jobs
      BY <3>2 DEF Jobs
    <3> QED
      BY <1>2, <3>1, <3>3 DEF JobsOK
  <2> QED
    BY <2>1, <2>2
<1>4. \A t, u \in Threads :
        Holds(t)' /\ Holds(u)' /\ given'[t] = given'[u] => t = u
  BY DEF JobsOK
<1>5. ASSUME NEW j \in Jobs
      PROVE  IF j >= next' THEN ran'[j] = 0 /\ j \notin collected'
             ELSE IF j \in collected' THEN ran'[j] = 1
             ELSE \E t \in Threads : Holds(t)' /\ given'[t] = j
  <2>1. IF j >= next THEN ran[j] = 0 /\ j \notin collected
        ELSE IF j \in collected THEN ran[j] = 1
        ELSE \E t \in Threads : Holds(t) /\ given[t] = j
    BY DEF JobsOK
  <2>2. CASE j = given[h]
    <3>1. ~(j >= next) /\ j \notin collected
      BY <1>2, <2>2 DEF DoubleTypeOK
    <3> QED
      BY <2>2, <3>1
  <2>3. CASE j # given[h]
    BY <1>2, <2>1, <2>3
  <2> QED
    BY <2>2, <2>3
<1>6. QED
  BY <1>1, <1>3, <1>4, <1>5 DEF JobsOK

LEMMA JobsInit == DoubleInit => JobsInv
<1> SUFFICES ASSUME DoubleInit PROVE JobsInv
  OBVIOUS
<1>1. /\ place = "outside" /\ hand = 0 /\ next = 1 /\ limit = 0 /\ active = <<>>
      /\ collected = {} /\ ran = [j \in Jobs |-> 0]
      /\ \A t \in Threads : at[t] = "none" /\ ~cancel[t]
  BY DEF DoubleInit, ThreadInit
<1>2. \A t \in Threads : ~Holds(t)
  BY <1>1, NothingListed DEF Holds, Released
<1>3. ~InParent /\ ~Released
  BY <1>1 DEF InParent, Released
<1>4. \A j \in Jobs : j >= next
  BY <1>1 DEF Jobs
<1>5. JobsOK
  BY <1>1, <1>2, <1>3, <1>4 DEF JobsOK
<1>6. RoundOK
  BY <1>1, <1>3 DEF RoundOK
<1>7. ReleaseOK
  BY <1>1 DEF ReleaseOK
<1>8. QED
  BY <1>5, <1>6, <1>7 DEF JobsInv

(* A thread inside run() holds the job that it runs. *)
LEMMA RunnerHolds ==
  ASSUME DoubleInv, JobsInv, NEW t \in Threads, at[t] = "run"
  PROVE  /\ Holds(t) /\ threaded /\ given[t] \in Jobs
         /\ ~start[t] /\ ~exit[t] /\ ~cancel[t] /\ ~complete[t]
<1>1. /\ DoubleTypeOK /\ AtWork /\ ThreadsOK /\ GivenOK
      /\ JobsOK /\ RoundOK /\ ReleaseOK
  BY InvParts DEF JobsInv
<1>2. threaded
  BY <1>1 DEF RoundOK
<1>3. Working(t)
  BY DEF Working
<1>4. CASE ~Released
  <2>1. HasJob(t) /\ Working(t) # complete[t]
    BY <1>1, <1>2, <1>3, <1>4 DEF AtWork, AtRest
  <2>2. Holds(t) /\ given[t] \in Jobs
    BY <1>1, <1>4, <2>1 DEF HasJob, Holds, GivenOK
  <2>3. ~complete[t]
    BY <1>1, <1>3, <2>1 DEF DoubleTypeOK, ThreadTypeOK, Working
  <2> QED
    BY <1>1, <1>2, <1>4, <2>2, <2>3 DEF ThreadsOK
<1>5. CASE Released
  <2>1. place \in {"release", "exit", "exited", "delete", "join", "gone"}
    BY <1>5 DEF Released
  <2>2. ~Resting(t) /\ ~Leaving(t)
    BY <1>3 DEF Resting, AtRest, Leaving
  <2>3. place = "release" /\ t \in From(active, hand)
    BY <1>1, <1>2, <2>1, <2>2 DEF ReleaseOK
  <2>4. /\ Working(t) # complete[t] /\ ~start[t] /\ ~exit[t] /\ ~cancel[t]
    BY <1>1, <1>2, <2>3 DEF ReleaseOK
  <2>5. ~complete[t]
    BY <1>1, <1>3, <2>4 DEF DoubleTypeOK, ThreadTypeOK, Working
  <2>6. Holds(t)
    BY <1>5, <2>3 DEF Holds
  <2>7. given[t] \in Jobs
    <3>1. given[t] \in 1 .. next - 1 /\ next \in 1 .. NumJobs + 1
      BY <1>1, <2>6 DEF JobsOK, DoubleTypeOK
    <3> QED
      BY <3>1 DEF Jobs
  <2> QED
    BY <1>2, <2>4, <2>5, <2>6, <2>7
<1>6. QED
  BY <1>4, <1>5

LEMMA JobsRunMethod ==
  ASSUME DoubleInv, JobsInv, NEW t \in Threads, RunMethod(t)
  PROVE  JobsInv'
<1>1. /\ UNCHANGED <<start, complete, exit, cancel, threaded, available, active,
                     place, hand, next, limit, given, collected>>
      /\ at[t] = "run" /\ at' = [at EXCEPT ![t] = "ran"]
      /\ ran' = [j \in Jobs |-> IF j = given[t] THEN ran[j] + 1 ELSE ran[j]]
  BY DEF RunMethod, Goto, queues, parent
<1>2. /\ DoubleTypeOK /\ ParentOK /\ JobsOK /\ RoundOK /\ ReleaseOK
  BY InvParts DEF JobsInv
<1>3. /\ Holds(t) /\ threaded /\ given[t] \in Jobs
      /\ ~start[t] /\ ~exit[t] /\ ~cancel[t] /\ ~complete[t]
  BY <1>1, RunnerHolds
<1>4. /\ at \in [Threads -> Places] /\ at'[t] = "ran"
      /\ \A u \in Threads \ {t} : at'[u] = at[u]
  BY <1>1, <1>2 DEF DoubleTypeOK, ThreadTypeOK
<1>5. Released' = Released /\ All' = All
  BY <1>1 DEF Released, All
<1>6. JobsOK'
  <2>1. ToRun(t) /\ ~ToRun(t)'
    BY <1>1, <1>3, <1>4 DEF ToRun
  <2>2. \A u \in Threads : Holds(u)' <=> Holds(u)
    BY <1>1, <1>5 DEF Holds
  <2>3. \A u \in Threads \ {t} : ToRun(u)' = ToRun(u)
    BY <1>1, <1>4 DEF ToRun
  <2>4. ~InParent
    BY <1>2, <1>3 DEF JobsOK
  <2> QED
    BY <1>1, <1>2, <1>3, <2>1, <2>2, <2>3, <2>4, JobRun
<1>7. RoundOK'
  BY <1>1, <1>2, <1>3, <1>5 DEF RoundOK
<1>8. ReleaseOK'
  <2>1. \A u \in Threads \ {t} : /\ Working(u)' = Working(u)
                                 /\ Resting(u)' = Resting(u)
                                 /\ Leaving(u)' = Leaving(u)
    BY <1>1, <1>4 DEF Working, Resting, AtRest, Leaving
  <2>2. Working(t)' /\ at[t] # "ended" /\ ~Resting(t) /\ ~Leaving(t)
    BY <1>1, <1>3, <1>4 DEF Working, Resting, AtRest, Leaving
  <2>3. ASSUME NEW u \in Threads, u # t
        PROVE  /\ place = "release" =>
                    IF u \in From(active, hand)
                    THEN /\ Working(u)' # complete'[u] /\ ~exit'[u] /\ ~cancel'[u]
                         /\ at'[u] \in {"none", "start", "check", "run", "ran",
                                        "signal", "completed"}
                         /\ start'[u] => at'[u] \in {"start", "completed"}
                    ELSE Resting(u)'
               /\ place = "exit" =>
                    IF u \in From(All, hand) THEN Resting(u)' ELSE Leaving(u)'
               /\ place = "exited" =>
                    IF u \in From(All, hand) THEN Leaving(u)' ELSE at'[u] = "ended"
               /\ place \in {"delete", "join", "gone"} => at'[u] = "ended"
    BY <1>1, <1>2, <1>3, <1>4, <2>1, <2>3 DEF ReleaseOK
  <2>4. /\ place = "release" => t \in From(active, hand)
        /\ place \notin {"exit", "exited", "delete", "join", "gone"}
    BY <1>2, <1>3, <2>2 DEF ReleaseOK
  <2> QED
    BY <1>1, <1>3, <1>4, <1>5, <2>2, <2>3, <2>4 DEF ReleaseOK
<1>9. QED
  BY <1>6, <1>7, <1>8 DEF JobsInv

(* What the loop does to a thread that has not been told to exit, ... *)
LEMMA LoopAtWork ==
  ASSUME ThreadTypeOK, NEW t \in Threads, Loop(t), ~exit[t], ~cancel[t],
         at[t] \in {"none", "start", "check", "run", "ran", "signal", "completed"},
         start[t] => at[t] \in {"start", "completed"}
  PROVE  /\ ~exit'[t] /\ ~cancel'[t]
         /\ at'[t] \in {"start", "check", "run", "ran", "signal", "completed"}
         /\ start'[t] => at'[t] \in {"start", "completed"}
         /\ ToRun(t)' = ToRun(t)
         /\ \/ Working(t)' = Working(t) /\ complete'[t] = complete[t]
            \/ Working(t) /\ ~Working(t)' /\ complete'[t]
<1>1. CASE WaitForStart(t)
  BY <1>1 DEF WaitForStart, Goto, ThreadTypeOK, Places, Working, ToRun
<1>2. CASE CheckExitBefore(t)
  BY <1>2 DEF CheckExitBefore, Goto, ThreadTypeOK, Places, Working, ToRun
<1>3. CASE CheckExitAfter(t)
  BY <1>3 DEF CheckExitAfter, Goto, ThreadTypeOK, Places, Working, ToRun
<1>4. CASE SignalComplete(t)
  BY <1>4 DEF SignalComplete, Goto, ThreadTypeOK, Places, Working, ToRun
<1>5. CASE ActOnCancel(t)
  BY <1>5 DEF ActOnCancel
<1>6. CASE /\ at[t] = "completed" /\ Goto(t, "start")
           /\ UNCHANGED <<start, complete, exit, cancel>>
  BY <1>6 DEF Goto, ThreadTypeOK, Places, Working, ToRun
<1>7. QED
  BY <1>1, <1>2, <1>3, <1>4, <1>5, <1>6 DEF Loop

(* ... to one that has been told, and to one that rests or has ended.        *)
LEMMA LoopLeaving ==
  ASSUME ThreadTypeOK, NEW t \in Threads, Loop(t)
  PROVE  /\ Leaving(t) => Leaving(t)'
         /\ Resting(t) => Resting(t)'
         /\ at[t] \notin {"none", "ended"}
<1>1. CASE WaitForStart(t)
  BY <1>1 DEF WaitForStart, Goto, ThreadTypeOK, Leaving, Resting, AtRest, Working
<1>2. CASE CheckExitBefore(t)
  BY <1>2 DEF CheckExitBefore, Goto, ThreadTypeOK, Leaving, Resting, AtRest, Working
<1>3. CASE CheckExitAfter(t)
  BY <1>3 DEF CheckExitAfter, Goto, ThreadTypeOK, Leaving, Resting, AtRest, Working
<1>4. CASE SignalComplete(t)
  BY <1>4 DEF SignalComplete, Goto, ThreadTypeOK, Leaving, Resting, AtRest, Working
<1>5. CASE ActOnCancel(t)
  BY <1>5 DEF ActOnCancel, Goto, ThreadTypeOK, Leaving, Resting
<1>6. CASE /\ at[t] = "completed" /\ Goto(t, "start")
           /\ UNCHANGED <<start, complete, exit, cancel>>
  BY <1>6 DEF Goto, ThreadTypeOK, Leaving, Resting, AtRest, Working
<1>7. QED
  BY <1>1, <1>2, <1>3, <1>4, <1>5, <1>6 DEF Loop

LEMMA JobsLoop ==
  ASSUME DoubleInv, JobsInv, NEW t \in Threads, Loop(t)
  PROVE  JobsInv'
<1>1. /\ UNCHANGED <<exit, cancel, threaded, available, active, place, hand,
                     next, limit, given, ran, collected>>
      /\ \A u \in Threads \ {t} : /\ at'[u] = at[u] /\ start'[u] = start[u]
                                  /\ complete'[u] = complete[u]
  BY LoopStep
<1>2. /\ DoubleTypeOK /\ ThreadTypeOK /\ AtWork /\ ParentOK /\ ThreadsOK
      /\ JobsOK /\ RoundOK /\ ReleaseOK
  BY InvParts DEF JobsInv, DoubleTypeOK
<1>3. Released' = Released /\ All' = All
  BY <1>1 DEF Released, All
<1>4. \A u \in Threads \ {t} : /\ Working(u)' = Working(u)
                               /\ Resting(u)' = Resting(u)
                               /\ Leaving(u)' = Leaving(u)
                               /\ ToRun(u)' = ToRun(u)
  BY <1>1 DEF Working, Resting, AtRest, Leaving, ToRun
<1>5. /\ Leaving(t) => Leaving(t)'
      /\ Resting(t) => Resting(t)'
      /\ at[t] \notin {"none", "ended"}
  BY <1>2, LoopLeaving
<1>6. threaded
  BY <1>2, <1>5 DEF RoundOK
<1>7. ASSUME Holds(t) PROVE ToRun(t)' = ToRun(t)
  <2>1. /\ ~exit[t] /\ ~cancel[t]
        /\ at[t] \in {"none", "start", "check", "run", "ran", "signal", "completed"}
        /\ start[t] => at[t] \in {"start", "completed"}
    <3>1. CASE ~Released
      BY <1>2, <3>1 DEF ThreadsOK
    <3>2. CASE Released
      BY <1>2, <1>6, <1>7, <3>2 DEF ReleaseOK, Holds
    <3> QED
      BY <3>1, <3>2
  <2> QED
    BY <1>2, <2>1, LoopAtWork
<1>8. JobsOK'
  <2>1. \A u \in Threads : Holds(u)' <=> Holds(u)
    BY <1>1, <1>3 DEF Holds
  <2>2. \A u \in Threads : Holds(u) => ToRun(u)' = ToRun(u)
    BY <1>4, <1>7
  <2> QED
    BY <1>1, <1>2, <2>1, <2>2, JobsKept
<1>9. RoundOK'
  BY <1>1, <1>2, <1>3, <1>6 DEF RoundOK
<1>10. ASSUME NEW u \in Threads, place = "release", u \in From(active, hand)
       PROVE  /\ Working(u)' # complete'[u] /\ ~exit'[u] /\ ~cancel'[u]
              /\ at'[u] \in {"none", "start", "check", "run", "ran", "signal",
                             "completed"}
              /\ start'[u] => at'[u] \in {"start", "completed"}
  <2>1. /\ Working(u) # complete[u] /\ ~exit[u] /\ ~cancel[u]
        /\ at[u] \in {"none", "start", "check", "run", "ran", "signal", "completed"}
        /\ start[u] => at[u] \in {"start", "completed"}
    BY <1>2, <1>6, <1>10 DEF ReleaseOK
  <2>2. CASE u # t
    BY <1>1, <1>4, <2>1, <2>2
  <2>3. CASE u = t
    <3>1. /\ at'[t] \in {"start", "check", "run", "ran", "signal", "completed"}
          /\ start'[t] => at'[t] \in {"start", "completed"}
          /\ \/ Working(t)' = Working(t) /\ complete'[t] = complete[t]
             \/ Working(t) /\ ~Working(t)' /\ complete'[t]
      BY <1>2, <2>1, <2>3, LoopAtWork
    <3>2. /\ complete[t] \in BOOLEAN /\ complete'[t] \in BOOLEAN
          /\ Working(t) \in BOOLEAN /\ Working(t)' \in BOOLEAN
      BY <1>2, LoopStep DEF Working, ThreadTypeOK
    <3> QED
      BY <1>1, <2>1, <2>3, <3>1, <3>2
  <2> QED
    BY <2>2, <2>3
<1>11. ReleaseOK'
  <2>1. ASSUME NEW u \in Threads, place = "release", u \notin From(active, hand)
        PROVE  Resting(u)'
    BY <1>2, <1>4, <1>5, <1>6, <2>1 DEF ReleaseOK
  <2>2. ASSUME NEW u \in Threads, place = "exit"
        PROVE  IF u \in From(All, hand) THEN Resting(u)' ELSE Leaving(u)'
    BY <1>2, <1>4, <1>5, <1>6, <2>2 DEF ReleaseOK
  <2>3. ASSUME NEW u \in Threads, place = "exited"
        PROVE  IF u \in From(All, hand) THEN Leaving(u)' ELSE at'[u] = "ended"
    BY <1>1, <1>2, <1>4, <1>5, <1>6, <2>3 DEF ReleaseOK
  <2>4. ASSUME NEW u \in Threads, place \in {"delete", "join", "gone"}
        PROVE  at'[u] = "ended"
    BY <1>1, <1>2, <1>5, <1>6, <2>4 DEF ReleaseOK
  <2> QED
    BY <1>1, <1>3, <1>10, <2>1, <2>2, <2>3, <2>4 DEF ReleaseOK
<1>12. QED
  BY <1>8, <1>9, <1>11 DEF JobsInv

(* The parent's steps while the queue is in use: of the release there is     *)
(* nothing to say.                                                           *)
LEMMA NoRelease ==
  ASSUME place' \notin {"release", "exit", "exited", "delete", "join", "gone"}
  PROVE  ReleaseOK' /\ ~Released'
BY DEF ReleaseOK, Released

LEMMA NobodyHolds ==
  ASSUME DoubleInv, place \notin {"grabbed", "wait"}, ~Released, active = <<>>
  PROVE  \A t \in Threads : ~Holds(t)
BY NothingListed DEF Holds

LEMMA JobsBeginRound == DoubleInv /\ JobsInv /\ BeginRound => JobsInv'
<1> SUFFICES ASSUME DoubleInv, JobsInv, BeginRound PROVE JobsInv'
  OBVIOUS
<1>1. JobsOK /\ RoundOK /\ ReleaseOK
  BY DEF JobsInv
<1>2. /\ place = "outside" /\ place' = "top" /\ UNCHANGED tvars
      /\ UNCHANGED <<at, start, complete, exit, cancel>>
      /\ UNCHANGED <<threaded, available, active, hand, next, given, ran, collected>>
  BY DEF BeginRound, To, queues, tvars
<1>3. ReleaseOK' /\ ~Released' /\ ~Released
  BY <1>2, NoRelease DEF Released
<1>4. JobsOK'
  <2>1. ~InParent /\ place' \notin {"inParent", "ranInParent"}
    BY <1>2 DEF InParent
  <2>2. \A t \in Threads : /\ Holds(t)' <=> Holds(t)
                           /\ ToRun(t)' = ToRun(t)
    BY <1>2, <1>3 DEF Holds, ToRun
  <2> QED
    BY <1>1, <1>2, <2>1, <2>2, JobsKept
<1>5. RoundOK'
  BY <1>1, <1>2, <1>3 DEF RoundOK
<1>6. QED
  BY <1>3, <1>4, <1>5 DEF JobsInv

LEMMA JobsGrabAvailable == DoubleInv /\ JobsInv /\ GrabAvailable => JobsInv'
<1> SUFFICES ASSUME DoubleInv, JobsInv, GrabAvailable PROVE JobsInv'
  OBVIOUS
<1>1. JobsOK /\ RoundOK /\ ReleaseOK
  BY DEF JobsInv
<1>2. /\ place = "top" /\ place' = "inThread" /\ threaded /\ UNCHANGED tvars
      /\ UNCHANGED <<at, start, complete, exit, cancel>>
      /\ UNCHANGED <<threaded, active, next, limit, given, ran, collected>>
  BY DEF GrabAvailable, To, tvars
<1>3. ReleaseOK' /\ ~Released' /\ ~Released
  BY <1>2, NoRelease DEF Released
<1>4. JobsOK'
  <2>1. ~InParent /\ place' \notin {"inParent", "ranInParent"}
    BY <1>2 DEF InParent
  <2>2. \A t \in Threads : /\ Holds(t)' <=> Holds(t)
                           /\ ToRun(t)' = ToRun(t)
    BY <1>2, <1>3 DEF Holds, ToRun
  <2> QED
    BY <1>1, <1>2, <2>1, <2>2, JobsKept
<1>5. RoundOK'
  BY <1>1, <1>2, <1>3 DEF RoundOK
<1>6. QED
  BY <1>3, <1>4, <1>5 DEF JobsInv

LEMMA JobsGrabActive == DoubleInv /\ JobsInv /\ GrabActive => JobsInv'
<1> SUFFICES ASSUME DoubleInv, JobsInv, GrabActive PROVE JobsInv'
  OBVIOUS
<1>1. JobsOK /\ RoundOK /\ ReleaseOK /\ DoubleTypeOK /\ ParentOK /\ InDeques
  BY InvParts DEF JobsInv
<1>2. /\ place = "top" /\ place' = "grabbed" /\ threaded /\ UNCHANGED tvars
      /\ available = <<>> /\ hand' = Head(active) /\ active' = Tail(active)
      /\ UNCHANGED <<at, start, complete, exit, cancel>>
      /\ UNCHANGED <<threaded, available, next, limit, given, ran, collected>>
  BY DEF GrabActive, To, tvars
<1>3. ReleaseOK' /\ ~Released' /\ ~Released
  BY <1>2, NoRelease DEF Released
<1>4. hand \notin Threads
  BY <1>1, <1>2, <1>3 DEF ParentOK, PlacesWithHand
<1>5. active # <<>>
  <2>1. 1 \in Threads
    BY DEF Threads
  <2> QED
    BY <1>1, <1>2, <1>3, <1>4, <2>1, NothingListed DEF InDeques
<1>6. ToSet(active) = ToSet(active') \cup {hand'}
  BY <1>1, <1>2, <1>5, Taken DEF DoubleTypeOK
<1>7. JobsOK'
  <2>1. ~InParent /\ place' \notin {"inParent", "ranInParent"}
    BY <1>2 DEF InParent
  <2>2. \A t \in Threads : /\ Holds(t)' <=> Holds(t)
                           /\ ToRun(t)' = ToRun(t)
    BY <1>2, <1>3, <1>6 DEF Holds, ToRun
  <2> QED
    BY <1>1, <1>2, <2>1, <2>2, JobsKept
<1>8. RoundOK'
  BY <1>1, <1>2, <1>3 DEF RoundOK
<1>9. QED
  BY <1>3, <1>7, <1>8 DEF JobsInv

(* The parent waits for the thread in its hand, whose job is then done with. *)
LEMMA HandCollected ==
  ASSUME DoubleInv, JobsInv, hand \in Threads, Holds(hand),
         place \in {"grabbed", "wait"} \/ (threaded /\ place = "release"),
         WaitForRunToComplete(hand)
  PROVE  /\ ~Working(hand) /\ ~ToRun(hand) /\ given[hand] \in Jobs /\ ~InParent
         /\ at[hand] \in {"none", "start", "completed"}
         /\ ~exit[hand] /\ ~cancel[hand]
<1>1. /\ DoubleTypeOK /\ ThreadTypeOK /\ AtWork /\ ParentOK /\ ThreadsOK /\ GivenOK
      /\ JobsOK /\ RoundOK /\ ReleaseOK
  BY InvParts DEF JobsInv, DoubleTypeOK
<1>2. complete[hand]
  BY DEF WaitForRunToComplete
<1>3. ~InParent
  BY DEF InParent
<1>4. given[hand] \in Jobs
  <2>1. given[hand] \in 1 .. next - 1 /\ next \in 1 .. NumJobs + 1
    BY <1>1 DEF JobsOK, DoubleTypeOK
  <2> QED
    BY <2>1 DEF Jobs
<1>5. /\ Working(hand) # complete[hand] /\ ~exit[hand] /\ ~cancel[hand]
      /\ at[hand] \in {"none", "start", "check", "run", "ran", "signal",
                       "completed"}
  <2>1. CASE place \in {"grabbed", "wait"}
    <3>1. ~Released /\ threaded /\ HasJob(hand)
      BY <1>1, <2>1 DEF Released, HasJob, ParentOK, PlacesWithHand
    <3> QED
      BY <1>1, <3>1 DEF AtWork, ThreadsOK
  <2>2. CASE threaded /\ place = "release"
    <3>1. hand \in From(active, hand)
      BY <2>2 DEF Holds, Released
    <3> QED
      BY <1>1, <2>2, <3>1 DEF ReleaseOK
  <2> QED
    BY <2>1, <2>2
<1>6. ~Working(hand)
  BY <1>1, <1>2, <1>5 DEF Working, ThreadTypeOK
<1>7. QED
  BY <1>3, <1>4, <1>5, <1>6 DEF ToRun, Working

LEMMA JobsWaitForGrabbed == DoubleInv /\ JobsInv /\ WaitForGrabbed => JobsInv'
<1> SUFFICES ASSUME DoubleInv, JobsInv, WaitForGrabbed PROVE JobsInv'
  OBVIOUS
<1>1. JobsOK /\ RoundOK /\ DoubleTypeOK /\ ParentOK /\ InDeques
  BY InvParts DEF JobsInv
<1>2. /\ place = "grabbed" /\ place' = "inThread" /\ WaitForRunToComplete(hand)
      /\ collected' = collected \cup {given[hand]}
      /\ UNCHANGED <<at, start, exit, cancel>>
      /\ UNCHANGED <<threaded, available, active, hand, next, limit, given, ran>>
  BY DEF WaitForGrabbed, Collect, To, queues, WaitForRunToComplete
<1>3. ReleaseOK' /\ ~Released' /\ ~Released
  BY <1>2, NoRelease DEF Released
<1>4. hand \in Threads /\ Holds(hand) /\ threaded
  BY <1>1, <1>2, <1>3 DEF ParentOK, PlacesWithHand, Holds
<1>5. ~ToRun(hand) /\ given[hand] \in Jobs /\ ~InParent
  BY <1>2, <1>4, HandCollected
<1>6. hand \notin ToSet(active)
  BY <1>1, <1>2, <1>3, <1>4 DEF InDeques
<1>7. JobsOK'
  <2>1. \A t \in Threads : /\ Holds(t)' <=> Holds(t) /\ t # hand
                           /\ ToRun(t)' = ToRun(t)
    BY <1>2, <1>3, <1>6 DEF Holds, ToRun
  <2>2. place' \notin {"inParent", "ranInParent"}
    BY <1>2
  <2> QED
    BY <1>1, <1>2, <1>4, <1>5, <2>1, <2>2, JobCollected
<1>8. RoundOK'
  BY <1>1, <1>2, <1>3, <1>4 DEF RoundOK
<1>9. QED
  BY <1>3, <1>7, <1>8 DEF JobsInv

LEMMA JobsWaitForOne == DoubleInv /\ JobsInv /\ WaitForOne => JobsInv'
<1> SUFFICES ASSUME DoubleInv, JobsInv, WaitForOne PROVE JobsInv'
  OBVIOUS
<1>1. JobsOK /\ RoundOK /\ DoubleTypeOK /\ ParentOK /\ InDeques
  BY InvParts DEF JobsInv
<1>2. /\ place = "wait" /\ place' = "top" /\ WaitForRunToComplete(hand)
      /\ collected' = collected \cup {given[hand]}
      /\ UNCHANGED <<at, start, exit, cancel>>
      /\ UNCHANGED <<threaded, available, active, next, limit, given, ran>>
  BY DEF WaitForOne, Collect, To, queues, WaitForRunToComplete
<1>3. ReleaseOK' /\ ~Released' /\ ~Released
  BY <1>2, NoRelease DEF Released
<1>4. hand \in Threads /\ Holds(hand) /\ threaded /\ hand \notin ToSet(active)
  BY <1>1, <1>2, <1>3 DEF ParentOK, PlacesWithHand, Holds
<1>5. ~ToRun(hand) /\ given[hand] \in Jobs /\ ~InParent
  BY <1>2, <1>4, HandCollected
<1>6. JobsOK'
  <2>1. PICK h \in Threads : h = hand
    BY <1>4
  <2>2. \A t \in Threads : /\ Holds(t)' <=> Holds(t) /\ t # h
                           /\ ToRun(t)' = ToRun(t)
    BY <1>2, <1>3, <1>4, <2>1 DEF Holds, ToRun
  <2>3. place' \notin {"inParent", "ranInParent"}
    BY <1>2
  <2>4. collected' = collected \cup {given[h]} /\ given[h] \in Jobs
        /\ Holds(h) /\ ~ToRun(h)
    BY <1>2, <1>4, <1>5, <2>1
  <2> QED
    BY <1>1, <1>2, <1>5, <2>2, <2>3, <2>4, JobCollected
<1>7. RoundOK'
  BY <1>1, <1>2, <1>3, <1>4 DEF RoundOK
<1>8. QED
  BY <1>3, <1>6, <1>7 DEF JobsInv

LEMMA JobsActivate == DoubleInv /\ JobsInv /\ Activate => JobsInv'
<1> SUFFICES ASSUME DoubleInv, JobsInv, Activate PROVE JobsInv'
  OBVIOUS
<1>1. /\ JobsOK /\ RoundOK /\ DoubleTypeOK /\ ThreadTypeOK /\ ParentOK /\ InDeques
      /\ AtWork /\ ThreadsOK
  BY InvParts DEF JobsInv, DoubleTypeOK
<1>2. /\ place = "inThread" /\ place' = "top" /\ given' = [given EXCEPT ![hand] = next]
      /\ SignalRunToStart(hand) /\ active' = Append(active, hand)
      /\ hand' = 0 /\ next' = next + 1
      /\ UNCHANGED <<threaded, available, limit, ran, collected>>
  BY DEF Activate, To
<1>3. ReleaseOK' /\ ~Released' /\ ~Released
  BY <1>2, NoRelease DEF Released
<1>4. /\ hand \in Threads /\ threaded /\ next <= limit /\ 0 \notin Threads
      /\ next \in 1 .. limit + 1 /\ limit \in 0 .. NumJobs
  BY <1>1, <1>2, <1>3 DEF ParentOK, PlacesWithHand, MoreJobs, DoubleTypeOK, Threads
<1>5. next \in Jobs
  BY <1>4 DEF Jobs
<1>6. PICK h \in Threads : h = hand
  BY <1>4
<1>7. h \notin ToSet(active) /\ AtRest(h) /\ ~exit[h] /\ ~cancel[h]
      /\ at[h] \in {"none", "start", "completed"}
  <2>1. h \notin ToSet(active)
    BY <1>1, <1>2, <1>3, <1>4, <1>6 DEF InDeques
  <2>2. AtRest(h)
    BY <1>1, <1>2, <1>3, <1>4, <1>6, <2>1 DEF AtWork, HasJob
  <2> QED
    BY <1>1, <1>3, <2>1, <2>2 DEF ThreadsOK, AtRest, Working
<1>8. ~Holds(h)
  BY <1>2, <1>3, <1>7 DEF Holds
<1>9. /\ SignalRunToStart(h) /\ start' = [start EXCEPT ![h] = TRUE]
      /\ \A u \in Threads \ {h} : at'[u] = at[u] /\ start'[u] = start[u]
  <2>1. SignalRunToStart(h)
    BY <1>2, <1>6
  <2> QED
    BY <1>1, <1>7, <2>1, Started DEF SignalRunToStart
<1>10. ToSet(active') = ToSet(active) \cup {h}
  BY <1>1, <1>2, <1>6, Appended DEF DoubleTypeOK
<1>11. JobsOK'
  <2>1. \A t \in Threads : Holds(t)' <=> Holds(t) \/ t = h
    BY <1>2, <1>3, <1>4, <1>6, <1>10 DEF Holds
  <2>2. ToRun(h)'
    BY <1>1, <1>9 DEF ToRun, ThreadTypeOK
  <2>3. \A t \in Threads \ {h} : ToRun(t)' = ToRun(t)
    BY <1>9 DEF ToRun
  <2>4. ~InParent /\ place' \notin {"inParent", "ranInParent"}
    BY <1>2 DEF InParent
  <2>5. given' = [given EXCEPT ![h] = next]
    BY <1>2, <1>6
  <2> QED
    BY <1>1, <1>2, <1>5, <1>8, <2>1, <2>2, <2>3, <2>4, <2>5, JobGiven
<1>12. RoundOK'
  BY <1>2, <1>3, <1>4 DEF RoundOK
<1>13. QED
  BY <1>3, <1>11, <1>12 DEF JobsInv

LEMMA JobsRunInParent == DoubleInv /\ JobsInv /\ RunInParent => JobsInv'
<1> SUFFICES ASSUME DoubleInv, JobsInv, RunInParent PROVE JobsInv'
  OBVIOUS
<1>1. JobsOK /\ RoundOK /\ DoubleTypeOK /\ ParentOK
  BY InvParts DEF JobsInv
<1>2. /\ place \in {"top", "inParent", "ranInParent"}
      /\ place' \in {"top", "inParent", "ranInParent"}
      /\ UNCHANGED tvars /\ UNCHANGED <<at, start, complete, exit, cancel>>
      /\ UNCHANGED <<threaded, available, active, hand, limit, given>>
  BY DEF RunInParent, To, queues, tvars
<1>3. ReleaseOK' /\ ~Released' /\ ~Released
  BY <1>2, NoRelease DEF Released
<1>4. ~threaded
  BY <1>1 DEF RunInParent, JobsOK, InParent
<1>5. active = <<>> /\ active' = <<>>
  BY <1>1, <1>2, <1>4 DEF ParentOK
<1>6. \A t \in Threads : ~Holds(t) /\ ~Holds(t)'
  BY <1>2, <1>3, <1>5, NothingListed DEF Holds
<1>7. RoundOK'
  BY <1>1, <1>2, <1>3 DEF RoundOK
<1>8. next \in 1 .. limit + 1 /\ limit \in 0 .. NumJobs
  BY <1>1 DEF ParentOK, DoubleTypeOK
<1>9. JobsOK'
  <2>1. CASE place = "top" /\ next <= limit /\ next' = next + 1
             /\ place' = "inParent" /\ UNCHANGED <<ran, collected>>
    <3>1. /\ next \in Jobs /\ next' - 1 = next
      BY <1>8, <2>1 DEF Jobs
    <3>2. ran[next] = 0 /\ next \notin collected
      BY <1>1, <3>1 DEF JobsOK, Jobs
    <3>3. ASSUME NEW j \in Jobs
          PROVE  IF j >= next' THEN ran'[j] = 0 /\ j \notin collected'
                 ELSE IF j \in collected' THEN ran'[j] = 1
                 ELSE j = next' - 1
      <4>1. IF j >= next THEN ran[j] = 0 /\ j \notin collected
            ELSE j \in collected /\ ran[j] = 1
        BY <1>1, <1>6, <2>1 DEF JobsOK, InParent
      <4>2. j >= next <=> j = next \/ j >= next'
        BY <2>1, <3>1 DEF Jobs
      <4> QED
        BY <2>1, <3>1, <4>1, <4>2
    <3> QED
      BY <1>2, <1>4, <1>6, <2>1, <3>1, <3>2, <3>3 DEF JobsOK, InParent
  <2>2. CASE place = "inParent" /\ ran' = [ran EXCEPT ![next - 1] = @ + 1]
             /\ place' = "ranInParent" /\ UNCHANGED <<next, collected>>
    <3>1. next - 1 \in Jobs \ collected /\ ran[next - 1] = 0
      BY <1>1, <2>2 DEF JobsOK, InParent
    <3>2. ran'[next - 1] = 1 /\ \A j \in Jobs : j # next - 1 => ran'[j] = ran[j]
      BY <1>1, <2>2, <3>1 DEF DoubleTypeOK
    <3>3. ASSUME NEW j \in Jobs
          PROVE  IF j >= next' THEN ran'[j] = 0 /\ j \notin collected'
                 ELSE IF j \in collected' THEN ran'[j] = 1
                 ELSE j = next' - 1
      <4>1. IF j >= next THEN ran[j] = 0 /\ j \notin collected
            ELSE IF j \in collected THEN ran[j] = 1
            ELSE j = next - 1
        BY <1>1, <1>6, <2>2 DEF JobsOK, InParent
      <4>2. j = next - 1 => ~(j >= next)
        BY <1>8
      <4> QED
        BY <2>2, <3>1, <3>2, <4>1, <4>2
    <3> QED
      BY <1>2, <1>4, <1>6, <2>2, <3>1, <3>2, <3>3 DEF JobsOK, InParent
  <2>3. CASE place = "ranInParent" /\ collected' = collected \cup {next - 1}
             /\ place' = "top" /\ UNCHANGED <<next, ran>>
    <3>1. next - 1 \in Jobs \ collected /\ ran[next - 1] = 1
      BY <1>1, <2>3 DEF JobsOK, InParent
    <3>2. ASSUME NEW j \in Jobs
          PROVE  IF j >= next' THEN ran'[j] = 0 /\ j \notin collected'
                 ELSE j \in collected' /\ ran'[j] = 1
      <4>1. IF j >= next THEN ran[j] = 0 /\ j \notin collected
            ELSE IF j \in collected THEN ran[j] = 1
            ELSE j = next - 1
        BY <1>1, <1>6, <2>3 DEF JobsOK, InParent
      <4>2. j = next - 1 => ~(j >= next)
        BY <1>8
      <4> QED
        BY <2>3, <3>1, <4>1, <4>2
    <3> QED
      BY <1>6, <2>3, <3>2 DEF JobsOK, InParent
  <2> QED
    BY <2>1, <2>2, <2>3 DEF RunInParent, MoreJobs, To
<1>10. QED
  BY <1>3, <1>7, <1>9 DEF JobsInv

LEMMA JobsWaitForThreads == DoubleInv /\ JobsInv /\ WaitForThreads => JobsInv'
<1> SUFFICES ASSUME DoubleInv, JobsInv, WaitForThreads PROVE JobsInv'
  OBVIOUS
<1>1. JobsOK /\ RoundOK /\ DoubleTypeOK /\ ParentOK /\ InDeques
  BY InvParts DEF JobsInv
<1>2. /\ place = "top" /\ ~(next <= limit) /\ place' \in {"wait", "outside"}
      /\ UNCHANGED <<at, start, complete, exit, cancel>>
      /\ UNCHANGED <<threaded, next, limit, given, ran, collected>>
      /\ \/ /\ active # <<>> /\ place' = "wait"
            /\ hand' = Head(active) /\ active' = Tail(active)
         \/ /\ active = <<>> /\ place' = "outside"
            /\ UNCHANGED <<hand, active>>
  BY DEF WaitForThreads, MoreJobs, To, queues, tvars
<1>3. ReleaseOK' /\ ~Released' /\ ~Released
  BY <1>2, NoRelease DEF Released
<1>4. hand \notin Threads
  BY <1>1, <1>2, <1>3 DEF ParentOK, PlacesWithHand
<1>5. next = limit + 1
  BY <1>1, <1>2 DEF ParentOK, DoubleTypeOK
<1>6. active # <<>> => ToSet(active) = ToSet(active') \cup {hand'}
  BY <1>1, <1>2, Taken DEF DoubleTypeOK
<1>7. JobsOK'
  <2>1. ~InParent /\ place' \notin {"inParent", "ranInParent"}
    BY <1>2 DEF InParent
  <2>2. \A t \in Threads : /\ Holds(t)' <=> Holds(t)
                           /\ ToRun(t)' = ToRun(t)
    BY <1>2, <1>3, <1>4, <1>6 DEF Holds, ToRun
  <2> QED
    BY <1>1, <1>2, <2>1, <2>2, JobsKept
<1>8. RoundOK'
  BY <1>1, <1>2, <1>3, <1>5 DEF RoundOK
<1>9. QED
  BY <1>3, <1>7, <1>8 DEF JobsInv

(* The release. *)
LEMMA PassOver ==
  ASSUME All # <<>>, NEW list, NEW p, NEW following, p # following,
         following # "gone", Pass(list, p, following), place' = following
  PROVE  hand' = All[1]
BY DEF Pass, To

LEMMA AllAgain ==
  ASSUME All \in Seq(Threads), IsInjective(All), Threads \subseteq ToSet(All),
         All # <<>>, All' = All, hand' = All[1]
  PROVE  \A t \in Threads : t \in From(All', hand')
<1>1. From(All, All[1]) = ToSet(All)
  BY FromFirst
<1>2. QED
  BY <1>1

LEMMA NobodyHoldsLate ==
  ASSUME place \in {"exit", "exited", "delete", "join", "gone"}
  PROVE  Released /\ ~InParent /\ \A t \in Threads : ~Holds(t)
BY DEF Released, InParent, Holds

LEMMA NobodyHoldsAfter ==
  ASSUME place' \in {"exit", "exited", "delete", "join", "gone"}
  PROVE  Released' /\ \A t \in Threads : ~Holds(t)'
BY DEF Released, Holds

(* From the exit pass on no job is left to hold. *)
LEMMA JobsLate ==
  ASSUME JobsOK, RoundOK, place \in {"exit", "exited", "delete", "join", "gone"},
         place' \in {"exit", "exited", "delete", "join", "gone"},
         threaded, UNCHANGED <<threaded, next, limit, given, ran, collected>>
  PROVE  JobsOK' /\ RoundOK'
<1>1. JobsOK'
  <2>1. ~InParent /\ place' \notin {"inParent", "ranInParent"}
    BY NobodyHoldsLate
  <2>2. \A t \in Threads : ~Holds(t) /\ ~Holds(t)'
    BY NobodyHoldsLate, NobodyHoldsAfter
  <2> QED
    BY <2>1, <2>2, JobsKept
<1>2. RoundOK'
  BY NobodyHoldsLate DEF RoundOK
<1>3. QED
  BY <1>1, <1>2

LEMMA JobsReleaseThreads == DoubleInv /\ JobsInv /\ ReleaseThreads => JobsInv'
<1> SUFFICES ASSUME DoubleInv, JobsInv, ReleaseThreads PROVE JobsInv'
  OBVIOUS
<1>1. /\ JobsOK /\ RoundOK /\ DoubleTypeOK /\ ParentOK /\ InDeques /\ AtWork
      /\ ThreadsOK /\ available \in Seq(Threads) /\ active \in Seq(Threads)
  BY InvParts, DequesTyped DEF JobsInv
<1>2. /\ place \in {"outside", "top"} /\ (place = "top" => ~(next <= limit))
      /\ UNCHANGED <<at, start, complete, exit, cancel>>
      /\ UNCHANGED <<threaded, available, active, next, limit, given, ran,
                     collected>>
      /\ IF ~threaded THEN place' = "gone" /\ hand' = hand
         ELSE IF active # <<>> THEN place' = "release" /\ hand' = active[1]
         ELSE place' = "exit" /\ hand' = All[1]
  BY DEF ReleaseThreads, To, queues, tvars, MoreJobs
<1>3. ~Released /\ hand \notin Threads /\ Released' /\ All' = All
  BY <1>1, <1>2 DEF Released, ParentOK, PlacesWithHand, All
<1>4. next = limit + 1
  BY <1>1, <1>2 DEF RoundOK, ParentOK, DoubleTypeOK
<1>5. threaded => /\ All \in Seq(Threads) /\ IsInjective(All)
                  /\ Threads \subseteq ToSet(All) /\ All # <<>>
                  /\ IsInjective(active)
  <2>1. 1 \in Threads
    BY DEF Threads
  <2>2. threaded => IsInjective(All) /\ Threads \subseteq ToSet(All)
    BY <1>1, <1>2, <1>3, DequesParts DEF InDeques
  <2> QED
    BY <1>1, <1>3, <2>1, <2>2, DequesParts, NothingListed DEF InDeques
<1>6. \A t \in Threads : Holds(t) <=> t \in ToSet(active)
  BY <1>2, <1>3 DEF Holds
<1>7. \A t \in Threads : Holds(t)' <=> Holds(t)
  <2>1. CASE ~threaded \/ active = <<>>
    <3>1. place' \in {"exit", "gone"} /\ active = <<>>
      BY <1>1, <1>2, <2>1 DEF ParentOK
    <3> QED
      BY <1>6, <3>1, NobodyHoldsAfter, NothingListed
  <2>2. CASE threaded /\ active # <<>>
    <3>1. place' = "release" /\ From(active', hand') = ToSet(active)
      BY <1>1, <1>2, <1>5, <2>2, FromFirst
    <3> QED
      BY <1>3, <1>6, <3>1 DEF Holds
  <2> QED
    BY <2>1, <2>2
<1>8. JobsOK'
  <2>1. ~InParent /\ place' \notin {"inParent", "ranInParent"}
    BY <1>2 DEF InParent
  <2>2. \A t \in Threads : ToRun(t)' = ToRun(t)
    BY <1>2 DEF ToRun
  <2> QED
    BY <1>1, <1>2, <1>7, <2>1, <2>2, JobsKept
<1>9. RoundOK'
  <2>1. place' # "outside"
    BY <1>2
  <2> QED
    BY <1>1, <1>2, <1>4, <2>1 DEF RoundOK
<1>10. \A t \in Threads : AtRest(t) => Resting(t)'
  BY <1>1, <1>2, <1>3 DEF Resting, AtRest, Working, ThreadsOK
<1>11. ReleaseOK'
  <2>1. CASE ~threaded
    BY <1>2, <2>1 DEF ReleaseOK
  <2>2. CASE threaded /\ active = <<>>
    <3>1. place' = "exit" /\ \A t \in Threads : t \in From(All', hand')
      BY <1>2, <1>3, <1>5, <2>2, AllAgain
    <3>2. \A t \in Threads : Resting(t)'
      BY <1>1, <1>2, <1>3, <1>10, <2>2, NothingListed DEF AtWork, HasJob
    <3> QED
      BY <3>1, <3>2 DEF ReleaseOK
  <2>3. CASE threaded /\ active # <<>>
    <3>1. place' = "release" /\ From(active', hand') = ToSet(active)
      BY <1>1, <1>2, <1>5, <2>3, FromFirst
    <3>2. ASSUME NEW t \in Threads, t \in ToSet(active)
          PROVE  /\ Working(t)' # complete'[t] /\ ~exit'[t] /\ ~cancel'[t]
                 /\ at'[t] \in {"none", "start", "check", "run", "ran", "signal",
                                "completed"}
                 /\ start'[t] => at'[t] \in {"start", "completed"}
      <4>1. Working(t) # complete[t]
        BY <1>1, <1>3, <2>3, <3>2 DEF AtWork, HasJob
      <4> QED
        BY <1>1, <1>2, <1>3, <4>1 DEF ThreadsOK, Working
    <3>3. \A t \in Threads : t \notin ToSet(active) => Resting(t)'
      BY <1>1, <1>2, <1>3, <1>10, <2>3 DEF AtWork, HasJob
    <3> QED
      BY <3>1, <3>2, <3>3 DEF ReleaseOK
  <2> QED
    BY <2>1, <2>2, <2>3
<1>12. QED
  BY <1>8, <1>9, <1>11 DEF JobsInv

LEMMA JobsWaitForActive == DoubleInv /\ JobsInv /\ WaitForActive => JobsInv'
<1> SUFFICES ASSUME DoubleInv, JobsInv, WaitForActive PROVE JobsInv'
  OBVIOUS
<1>1. JobsOK /\ RoundOK /\ ReleaseOK /\ DoubleTypeOK /\ ParentOK
  BY InvParts DEF JobsInv
<1>2. /\ place = "release" /\ WaitForRunToComplete(hand)
      /\ collected' = collected \cup {given[hand]}
      /\ Pass(active, "release", "exit")
      /\ UNCHANGED <<at, start, exit, cancel>>
      /\ UNCHANGED <<threaded, available, active, next, limit, given, ran>>
  BY DEF WaitForActive, queues, WaitForRunToComplete
<1>3. Released /\ All' = All
  BY <1>2 DEF Released, All
<1>4. /\ threaded /\ hand \in Threads /\ hand \in ToSet(active)
      /\ IsInjective(All) /\ Threads \subseteq ToSet(All)
      /\ All \in Seq(Threads) /\ All # <<>>
      /\ active \in Seq(Threads) /\ IsInjective(active) /\ ThreadTypeOK
  BY <1>1, <1>2, <1>3, AllListed DEF ParentOK
<1>5. PICK h \in Threads : h = hand
  BY <1>4
<1>6. /\ h \in From(active, hand)
      /\ \/ place' = "release" /\ From(active, hand') = From(active, hand) \ {h}
         \/ place' = "exit" /\ From(active, hand) = {h}
  BY <1>2, <1>4, <1>5, FromPass
<1>7. Released'
  BY <1>6 DEF Released
<1>8. /\ Holds(h) /\ ~Working(h) /\ ~ToRun(h) /\ given[h] \in Jobs /\ ~InParent
      /\ at[h] \in {"none", "start", "completed"} /\ ~exit[h] /\ ~cancel[h]
  <2>1. Holds(hand)
    BY <1>2, <1>3, <1>5, <1>6 DEF Holds
  <2> QED
    BY <1>2, <1>4, <1>5, <2>1, HandCollected
<1>9. JobsOK'
  <2>1. \A t \in Threads : Holds(t)' <=> Holds(t) /\ t # h
    BY <1>2, <1>3, <1>6, <1>7 DEF Holds
  <2>2. \A t \in Threads : ToRun(t)' = ToRun(t)
    BY <1>2 DEF ToRun
  <2>3. place' \notin {"inParent", "ranInParent"}
    BY <1>6
  <2>4. collected' = collected \cup {given[h]}
    BY <1>2, <1>5
  <2> QED
    BY <1>1, <1>2, <1>8, <2>1, <2>2, <2>3, <2>4, JobCollected
<1>10. RoundOK'
  <2>1. place' # "outside"
    BY <1>6
  <2> QED
    BY <1>1, <1>2, <1>3, <1>4, <2>1 DEF RoundOK
<1>11. /\ complete' = [complete EXCEPT ![h] = FALSE]
       /\ Resting(h)'
       /\ \A t \in Threads \ {h} : /\ Working(t)' = Working(t)
                                   /\ complete'[t] = complete[t]
                                   /\ Resting(t)' = Resting(t)
  <2>1. complete' = [complete EXCEPT ![h] = FALSE]
    BY <1>2, <1>5 DEF WaitForRunToComplete
  <2>2. ~complete'[h] /\ \A t \in Threads \ {h} : complete'[t] = complete[t]
    BY <1>4, <2>1 DEF ThreadTypeOK
  <2> QED
    BY <1>2, <1>8, <2>1, <2>2 DEF Working, Resting, AtRest
<1>12. \A t \in Threads : t \notin From(active, hand) => Resting(t)
  BY <1>1, <1>2, <1>4 DEF ReleaseOK
<1>13. ReleaseOK'
  <2>1. CASE place' = "release"
    <3>1. From(active', hand') = From(active, hand) \ {h}
      BY <1>2, <1>6, <2>1
    <3>2. ASSUME NEW t \in Threads, t \in From(active', hand')
          PROVE  /\ Working(t)' # complete'[t] /\ ~exit'[t] /\ ~cancel'[t]
                 /\ at'[t] \in {"none", "start", "check", "run", "ran", "signal",
                                "completed"}
                 /\ start'[t] => at'[t] \in {"start", "completed"}
      <4>1. t # h /\ t \in From(active, hand)
        BY <3>1, <3>2
      <4> QED
        BY <1>1, <1>2, <1>4, <1>11, <4>1 DEF ReleaseOK
    <3>3. \A t \in Threads : t \notin From(active', hand') => Resting(t)'
      BY <1>11, <1>12, <3>1
    <3> QED
      BY <2>1, <3>2, <3>3 DEF ReleaseOK
  <2>2. CASE place' = "exit"
    <3>1. \A t \in Threads : t \in From(All', hand')
      <4>1. hand' = All[1]
        BY <1>2, <1>4, <2>2, PassOver
      <4> QED
        BY <1>3, <1>4, <4>1, AllAgain
    <3>2. \A t \in Threads : Resting(t)'
      BY <1>6, <1>11, <1>12, <2>2
    <3> QED
      BY <2>2, <3>1, <3>2 DEF ReleaseOK
  <2> QED
    BY <1>6, <2>1, <2>2
<1>14. QED
  BY <1>9, <1>10, <1>13 DEF JobsInv

LEMMA JobsTellToExit == DoubleInv /\ JobsInv /\ TellToExit => JobsInv'
<1> SUFFICES ASSUME DoubleInv, JobsInv, TellToExit PROVE JobsInv'
  OBVIOUS
<1>1. JobsOK /\ RoundOK /\ ReleaseOK
  BY DEF JobsInv
<1>2. /\ place = "exit" /\ SetExitAndStart(hand) /\ Pass(All, "exit", "exited")
      /\ UNCHANGED <<complete, cancel>>
      /\ UNCHANGED <<threaded, available, active, next, limit, given, ran,
                     collected>>
  BY DEF TellToExit, queues, SetExitAndStart
<1>3. Released /\ All' = All
  BY <1>2 DEF Released, All
<1>4. /\ threaded /\ hand \in Threads
      /\ IsInjective(All) /\ Threads \subseteq ToSet(All)
      /\ All \in Seq(Threads) /\ All # <<>> /\ ThreadTypeOK
  BY <1>2, <1>3, AllListed
<1>5. PICK h \in Threads : h = hand
  BY <1>4
<1>6. /\ h \in From(All, hand)
      /\ \/ place' = "exit" /\ From(All, hand') = From(All, hand) \ {h}
         \/ place' = "exited" /\ From(All, hand) = {h}
  BY <1>2, <1>4, <1>5, FromPass
<1>7. JobsOK' /\ RoundOK'
  BY <1>1, <1>2, <1>4, <1>6, JobsLate
<1>8. Resting(h)
  BY <1>1, <1>2, <1>4, <1>6 DEF ReleaseOK
<1>9. Leaving(h)'
  <2>1. SetExitAndStart(h)
    BY <1>2, <1>5
  <2> QED
    BY <1>4, <1>8, <2>1 DEF SetExitAndStart, ThreadTypeOK, Resting, AtRest, Leaving
<1>10. \A t \in Threads \ {h} : /\ Resting(t)' = Resting(t)
                                /\ Leaving(t)' = Leaving(t)
  <2>1. SetExitAndStart(h)
    BY <1>2, <1>5
  <2>2. \A t \in Threads \ {h} : /\ at'[t] = at[t] /\ start'[t] = start[t]
                                 /\ exit'[t] = exit[t]
    BY <1>4, <2>1 DEF SetExitAndStart, ThreadTypeOK
  <2> QED
    BY <1>2, <2>2 DEF Resting, Leaving, AtRest, Working
<1>11. \A t \in Threads : IF t \in From(All, hand) THEN Resting(t) ELSE Leaving(t)
  BY <1>1, <1>2, <1>4 DEF ReleaseOK
<1>12. ReleaseOK'
  <2>1. CASE place' = "exit"
    <3>1. From(All', hand') = From(All, hand) \ {h}
      BY <1>3, <1>6, <2>1
    <3>2. \A t \in Threads : IF t \in From(All', hand') THEN Resting(t)'
                             ELSE Leaving(t)'
      BY <1>9, <1>10, <1>11, <3>1
    <3> QED
      BY <2>1, <3>2 DEF ReleaseOK
  <2>2. CASE place' = "exited"
    <3>1. \A t \in Threads : t \in From(All', hand')
      <4>1. hand' = All[1]
        BY <1>2, <1>4, <2>2, PassOver
      <4> QED
        BY <1>3, <1>4, <4>1, AllAgain
    <3>2. \A t \in Threads : Leaving(t)'
      BY <1>6, <1>9, <1>10, <1>11, <2>2
    <3> QED
      BY <2>2, <3>1, <3>2 DEF ReleaseOK
  <2> QED
    BY <1>6, <2>1, <2>2
<1>13. QED
  BY <1>7, <1>12 DEF JobsInv

LEMMA JobsWaitForExit == DoubleInv /\ JobsInv /\ WaitForExit => JobsInv'
<1> SUFFICES ASSUME DoubleInv, JobsInv, WaitForExit PROVE JobsInv'
  OBVIOUS
<1>1. JobsOK /\ RoundOK /\ ReleaseOK
  BY DEF JobsInv
<1>2. /\ place = "exited" /\ WaitForRunToComplete(hand)
      /\ Pass(All, "exited", "delete")
      /\ UNCHANGED <<at, start, exit, cancel>>
      /\ UNCHANGED <<threaded, available, active, next, limit, given, ran,
                     collected>>
  BY DEF WaitForExit, queues, WaitForRunToComplete
<1>3. Released /\ All' = All
  BY <1>2 DEF Released, All
<1>4. /\ threaded /\ hand \in Threads
      /\ IsInjective(All) /\ Threads \subseteq ToSet(All)
      /\ All \in Seq(Threads) /\ All # <<>> /\ ThreadTypeOK
  BY <1>2, <1>3, AllListed
<1>5. PICK h \in Threads : h = hand
  BY <1>4
<1>6. /\ h \in From(All, hand)
      /\ \/ place' = "exited" /\ From(All, hand') = From(All, hand) \ {h}
         \/ place' = "delete" /\ From(All, hand) = {h}
  BY <1>2, <1>4, <1>5, FromPass
<1>7. JobsOK' /\ RoundOK'
  BY <1>1, <1>2, <1>4, <1>6, JobsLate
<1>8. complete[h] /\ complete' = [complete EXCEPT ![h] = FALSE]
  BY <1>2, <1>5 DEF WaitForRunToComplete
<1>9. \A t \in Threads : IF t \in From(All, hand) THEN Leaving(t)
                         ELSE at[t] = "ended"
  BY <1>1, <1>2, <1>4 DEF ReleaseOK
<1>10. at[h] = "ended"
  BY <1>6, <1>8, <1>9 DEF Leaving
<1>11. \A t \in Threads \ {h} : Leaving(t)' = Leaving(t)
  <2>1. \A t \in Threads \ {h} : complete'[t] = complete[t]
    BY <1>4, <1>8 DEF ThreadTypeOK
  <2> QED
    BY <1>2, <2>1 DEF Leaving
<1>12. ReleaseOK'
  <2>1. CASE place' = "exited"
    <3>1. From(All', hand') = From(All, hand) \ {h}
      BY <1>3, <1>6, <2>1
    <3>2. \A t \in Threads : IF t \in From(All', hand') THEN Leaving(t)'
                             ELSE at'[t] = "ended"
      BY <1>2, <1>9, <1>10, <1>11, <3>1
    <3> QED
      BY <2>1, <3>2 DEF ReleaseOK
  <2>2. CASE place' = "delete"
    <3>1. \A t \in Threads : at'[t] = "ended"
      BY <1>2, <1>6, <1>9, <1>10, <2>2
    <3> QED
      BY <2>2, <3>1 DEF ReleaseOK
  <2> QED
    BY <1>6, <2>1, <2>2
<1>13. QED
  BY <1>7, <1>12 DEF JobsInv

LEMMA JobsDeleteJoin ==
  DoubleInv /\ JobsInv /\ (DeleteThread \/ JoinThread) => JobsInv'
<1> SUFFICES ASSUME DoubleInv, JobsInv, DeleteThread \/ JoinThread PROVE JobsInv'
  OBVIOUS
<1>1. JobsOK /\ RoundOK /\ ReleaseOK
  BY DEF JobsInv
<1>2. /\ place \in {"delete", "join"} /\ at' = at
      /\ UNCHANGED <<threaded, next, limit, given, ran, collected>>
  BY DEF DeleteThread, JoinThread, BeginDelete, tvars
<1>3. threaded
  <2>1. Released /\ place # "gone"
    BY <1>2 DEF Released
  <2> QED
    BY <2>1, AllListed
<1>4. place' \in {"join", "delete", "gone"}
  BY DEF DeleteThread, JoinThread, Pass, To
<1>5. JobsOK' /\ RoundOK'
  BY <1>1, <1>2, <1>3, <1>4, JobsLate
<1>6. \A t \in Threads : at'[t] = "ended"
  BY <1>1, <1>2, <1>3 DEF ReleaseOK
<1>7. ReleaseOK'
  BY <1>4, <1>6 DEF ReleaseOK
<1>8. QED
  BY <1>5, <1>7 DEF JobsInv

LEMMA JobsStep == DoubleInv /\ JobsInv /\ [DoubleNext]_dvars => JobsInv'
<1> SUFFICES ASSUME DoubleInv, JobsInv, [DoubleNext]_dvars PROVE JobsInv'
  OBVIOUS
<1>1. CASE \E t \in Threads : ThreadStep(t)
  BY <1>1, JobsLoop, JobsRunMethod DEF ThreadStep
<1>2. CASE BeginRound
  BY <1>2, JobsBeginRound
<1>3. CASE Call
  BY <1>3, JobsGrabAvailable, JobsGrabActive, JobsWaitForGrabbed, JobsActivate,
     JobsRunInParent, JobsWaitForThreads, JobsWaitForOne, JobsWaitForActive,
     JobsTellToExit, JobsWaitForExit, JobsDeleteJoin DEF Call
<1>4. CASE ReleaseThreads
  BY <1>4, JobsReleaseThreads
<1>5. CASE UNCHANGED dvars
  <2>1. /\ UNCHANGED <<at, start, complete, exit, cancel>>
        /\ UNCHANGED <<threaded, available, active, place, hand, next, limit,
                       given, ran, collected>>
    BY <1>5 DEF dvars, tvars, queues, parent
  <2>2. Released' = Released /\ All' = All /\ InParent' = InParent
    BY <2>1 DEF Released, All, InParent
  <2>3. \A t \in Threads : Holds(t)' = Holds(t) /\ ToRun(t)' = ToRun(t)
    BY <2>1, <2>2 DEF Holds, ToRun
  <2>4. JobsOK'
    BY <2>1, <2>3, JobsKept DEF JobsInv
  <2>5. RoundOK'
    BY <2>1, <2>2 DEF JobsInv, RoundOK
  <2>6. ReleaseOK'
    BY <2>1, <2>2 DEF JobsInv, ReleaseOK, Resting, Leaving, AtRest, Working
  <2> QED
    BY <2>4, <2>5, <2>6 DEF JobsInv
<1>6. QED
  BY <1>1, <1>2, <1>3, <1>4, <1>5 DEF DoubleNext, Gone

LEMMA JobsKnown == DoubleInv /\ JobsInv => NoJobLost
<1> SUFFICES ASSUME DoubleInv, JobsInv PROVE NoJobLost
  OBVIOUS
<1>1. DoubleTypeOK /\ ParentOK /\ JobsOK /\ RoundOK /\ ReleaseOK
  BY InvParts DEF JobsInv
<1>2. ASSUME place \in {"outside", "exit", "exited", "delete", "join", "gone"}
      PROVE  /\ next = limit + 1
             /\ \A j \in Jobs : ran[j] = IF j <= limit THEN 1 ELSE 0
  <2>1. next = limit + 1
    BY <1>1, <1>2 DEF RoundOK, Released
  <2>2. ~InParent /\ \A t \in Threads : ~Holds(t)
    <3>1. CASE place = "outside"
      BY <1>1, <3>1, NobodyHolds DEF RoundOK, Released, InParent
    <3>2. CASE place # "outside"
      BY <1>2, <3>2, NobodyHoldsLate
    <3> QED
      BY <3>1, <3>2
  <2>3. \A j \in Jobs : IF j >= next THEN ran[j] = 0 ELSE ran[j] = 1
    BY <1>1, <2>2 DEF JobsOK
  <2>4. \A j \in Jobs : j >= next <=> ~(j <= limit)
    BY <1>1, <2>1 DEF DoubleTypeOK, Jobs
  <2> QED
    BY <2>1, <2>3, <2>4
<1>3. place = "gone" /\ threaded => \A t \in Threads : at[t] = "ended"
  BY <1>1 DEF ReleaseOK
<1>4. QED
  BY <1>2, <1>3 DEF NoJobLost

(* Between two rounds, and once the release has passed the active threads,   *)
(* every job begun has been run, once; and when releaseThreads returns no    *)
(* thread is left running.                                                   *)
THEOREM DoubleNoJobLost == DoubleSpec => []NoJobLost
<1>1. DoubleSpec => []JobsInv
  BY InvInit, InvStep, JobsInit, JobsStep, PTL DEF DoubleSpec
<1>2. QED
  BY <1>1, DoubleInvariant, JobsKnown, PTL

-----------------------------------------------------------------------------
(* The double queue as JobSharing sees it. *)

LEMMA SharingNames ==
  /\ Sharing!Jobs = Jobs
  /\ Sharing!jvars = <<JobStage, limit>>
  /\ \A S : Sharing!In(S) = {j \in Jobs : JobStage[j] \in S}
BY DEF Sharing!Jobs, Sharing!jvars, Sharing!In, Jobs, JobStage

LEMMA SharingCardinality ==
  \A S : Sharing!Cardinality(S) = Cardinality(S)
BY DEF Sharing!Cardinality, Cardinality

LEMMA StageOf ==
  ASSUME NEW j \in Jobs
  PROVE  /\ JobStage[j] = IF j \in collected THEN "collected"
                          ELSE IF ran[j] > 0 THEN "ran"
                          ELSE IF j < next THEN "started" ELSE "todo"
         /\ JobStage'[j] = IF j \in collected' THEN "collected"
                           ELSE IF ran'[j] > 0 THEN "ran"
                           ELSE IF j < next' THEN "started" ELSE "todo"
BY DEF JobStage

LEMMA StageMoves ==
  ASSUME NEW j \in Jobs, NEW s, JobStage'[j] = s,
         \A i \in Jobs \ {j} : JobStage'[i] = JobStage[i]
  PROVE  JobStage' = [JobStage EXCEPT ![j] = s]
<1>1. /\ JobStage = [i \in Jobs |-> JobStage[i]]
      /\ JobStage' = [i \in Jobs |-> JobStage'[i]]
  BY DEF JobStage
<1>2. QED
  BY <1>1

LEMMA SharingSame ==
  ASSUME UNCHANGED <<collected, ran, next, limit>>
  PROVE  UNCHANGED <<JobStage, limit>>
BY DEF JobStage

(* A step in which one job moves on. *)
LEMMA SharingMove ==
  ASSUME NEW j \in Jobs, NEW s, JobStage' = [JobStage EXCEPT ![j] = s],
         limit' = limit,
         \/ /\ JobStage[j] = "todo" /\ s = "started" /\ j <= limit
            /\ Cardinality({i \in Jobs : JobStage[i] \in {"started", "ran"}})
                 < NumThreads
         \/ JobStage[j] = "started" /\ s = "ran"
         \/ JobStage[j] = "ran" /\ s = "collected"
  PROVE  Sharing!JobNext
<1>1. CASE JobStage[j] = "todo" /\ s = "started"
  <2>1. /\ Sharing!Cardinality(Sharing!In({"started", "ran"})) < NumThreads
        /\ j <= limit
    <3>1. Sharing!In({"started", "ran"})
            = {i \in Jobs : JobStage[i] \in {"started", "ran"}}
      BY SharingNames, Zenon
    <3>2. /\ j <= limit
          /\ Cardinality({i \in Jobs : JobStage[i] \in {"started", "ran"}})
               < NumThreads
      BY <1>1, Zenon
    <3> QED
      BY <3>1, <3>2, SharingCardinality, Zenon
  <2>2. Sharing!Start(j)
    BY <1>1, <2>1 DEF Sharing!Start
  <2> QED
    BY <2>2, SharingNames DEF Sharing!JobNext
<1>2. CASE JobStage[j] = "started" /\ s = "ran"
  <2>1. Sharing!Run(j)
    BY <1>2 DEF Sharing!Run
  <2> QED
    BY <2>1, SharingNames DEF Sharing!JobNext
<1>3. CASE JobStage[j] = "ran" /\ s = "collected"
  <2>1. Sharing!Collect(j)
    BY <1>3 DEF Sharing!Collect
  <2> QED
    BY <2>1, SharingNames DEF Sharing!JobNext
<1>4. QED
  BY <1>1, <1>2, <1>3

(* The jobs that are open belong to as many threads. *)
LEMMA OpenJobs ==
  ASSUME DoubleInv, JobsInv, ~InParent, NEW h \in Threads, ~Holds(h)
  PROVE  Cardinality({i \in Jobs : JobStage[i] \in {"started", "ran"}})
           < NumThreads
<1> DEFINE T == {i \in Jobs : JobStage[i] \in {"started", "ran"}}
           Holders == {t \in Threads : Holds(t)}
           f == [t \in Holders |-> given[t]]
<1>1. JobsOK /\ next \in 1 .. NumJobs + 1
  BY InvParts DEF JobsInv, DoubleTypeOK
<1>2. ASSUME NEW t \in Holders
      PROVE  given[t] \in T
  <2>1. given[t] \in 1 .. next - 1 /\ given[t] \notin collected
    BY <1>1 DEF JobsOK
  <2>2. given[t] \in Jobs /\ given[t] < next
    BY <1>1, <2>1 DEF Jobs
  <2> QED
    BY <2>1, <2>2, StageOf
<1>3. ASSUME NEW j \in T
      PROVE  \E t \in Holders : given[t] = j
  <2>1. j \notin collected /\ (ran[j] > 0 \/ j < next)
    BY StageOf
  <2>2. ~(j >= next)
    BY <1>1, <2>1 DEF JobsOK, Jobs
  <2> QED
    BY <1>1, <2>1, <2>2 DEF JobsOK
<1>4. f \in Surjection(Holders, T)
  BY <1>2, <1>3 DEF Surjection
<1>5. QED
  BY <1>4, FewerJobs DEF Threads

LEMMA SharingAsks ==
  ASSUME DoubleInv, JobsInv, BeginRound
  PROVE  Sharing!Ask
<1>1. /\ place = "outside" /\ limit' \in limit .. NumJobs
      /\ UNCHANGED <<next, ran, collected>>
  BY DEF BeginRound
<1>2. /\ JobsOK /\ next = limit + 1 /\ active = <<>> /\ ~Released /\ ~InParent
      /\ limit \in 0 .. NumJobs
  BY <1>1, InvParts DEF JobsInv, RoundOK, Released, InParent, DoubleTypeOK
<1>3. \A t \in Threads : ~Holds(t)
  BY <1>1, <1>2, NobodyHolds
<1>4. \A j \in Jobs : j \in 1 .. limit <=> j \in collected
  BY <1>2, <1>3 DEF JobsOK, Jobs
<1>5. {j \in Jobs : JobStage[j] \in {"collected"}} = 1 .. limit
  BY <1>2, <1>4, StageOf DEF Jobs
<1>6. JobStage' = JobStage
  BY <1>1 DEF JobStage
<1>7. QED
  BY <1>1, <1>5, <1>6, SharingNames DEF Sharing!Ask

(* The next job is started, by thread() of a queue with threads or without. *)
LEMMA SharingStarts ==
  ASSUME DoubleInv, JobsInv, ~InParent, next <= limit, next' = next + 1,
         UNCHANGED <<ran, collected, limit>>, NEW h \in Threads, ~Holds(h)
  PROVE  Sharing!JobNext
<1>1. JobsOK /\ next \in 1 .. limit + 1 /\ limit \in 0 .. NumJobs
  BY InvParts DEF JobsInv, ParentOK, DoubleTypeOK
<1>2. next \in Jobs /\ next \in Nat
  BY <1>1 DEF Jobs
<1>3. ran[next] = 0 /\ next \notin collected
  BY <1>1, <1>2 DEF JobsOK
<1>4. JobStage[next] = "todo"
  BY <1>2, <1>3, StageOf
<1>5. JobStage' = [JobStage EXCEPT ![next] = "started"]
  <2>1. ASSUME NEW j \in Jobs, j # next
        PROVE  j < next + 1 <=> j < next
    BY <1>2, <2>1 DEF Jobs
  <2>2. JobStage'[next] = "started"
    BY <1>2, <1>3, StageOf
  <2>3. \A j \in Jobs \ {next} : JobStage'[j] = JobStage[j]
    BY <2>1, StageOf
  <2> QED
    BY <1>2, <2>2, <2>3, StageMoves
<1>6. QED
  BY <1>2, <1>4, <1>5, OpenJobs, SharingMove

LEMMA SharingRuns ==
  ASSUME DoubleInv, JobsInv, NEW j \in Jobs, j < next, j \notin collected,
         ran[j] = 0, ran'[j] = 1, \A i \in Jobs \ {j} : ran'[i] = ran[i],
         UNCHANGED <<next, limit, collected>>
  PROVE  Sharing!JobNext
<1>1. JobStage[j] = "started" /\ JobStage'[j] = "ran"
  BY StageOf
<1>2. \A i \in Jobs \ {j} : JobStage'[i] = JobStage[i]
  BY StageOf
<1>3. QED
  BY <1>1, <1>2, StageMoves, SharingMove

LEMMA SharingCollects ==
  ASSUME DoubleInv, JobsInv, NEW j \in Jobs, j \notin collected, ran[j] = 1,
         collected' = collected \cup {j}, UNCHANGED <<next, limit, ran>>
  PROVE  Sharing!JobNext
<1>1. JobStage[j] = "ran" /\ JobStage'[j] = "collected"
  BY StageOf
<1>2. \A i \in Jobs \ {j} : JobStage'[i] = JobStage[i]
  BY StageOf
<1>3. QED
  BY <1>1, <1>2, StageMoves, SharingMove

LEMMA SharingThread ==
  ASSUME DoubleInv, JobsInv, NEW t \in Threads, RunMethod(t)
  PROVE  Sharing!JobNext
<1>1. /\ at[t] = "run" /\ UNCHANGED <<next, limit, collected>>
      /\ ran' = [j \in Jobs |-> IF j = given[t] THEN ran[j] + 1 ELSE ran[j]]
  BY DEF RunMethod, parent
<1>2. Holds(t) /\ given[t] \in Jobs /\ ToRun(t)
  BY <1>1, RunnerHolds DEF ToRun
<1>3. /\ given[t] \in 1 .. next - 1 /\ given[t] \notin collected
      /\ ran[given[t]] = 0 /\ next \in 1 .. NumJobs + 1
  BY <1>2, InvParts DEF JobsInv, JobsOK, DoubleTypeOK
<1>4. given[t] < next
  BY <1>3
<1>5. ran'[given[t]] = 1 /\ \A j \in Jobs \ {given[t]} : ran'[j] = ran[j]
  BY <1>1, <1>2, <1>3
<1>6. QED
  BY <1>1, <1>2, <1>3, <1>4, <1>5, SharingRuns

LEMMA SharingHand ==
  ASSUME DoubleInv, JobsInv, WaitForGrabbed \/ WaitForOne \/ WaitForActive
  PROVE  Sharing!JobNext
<1>1. /\ place \in {"grabbed", "wait", "release"} /\ WaitForRunToComplete(hand)
      /\ collected' = collected \cup {given[hand]}
      /\ UNCHANGED <<next, limit, ran>>
  BY DEF WaitForGrabbed, WaitForOne, WaitForActive, Collect
<1>2. JobsOK /\ ParentOK
  BY InvParts DEF JobsInv
<1>3. hand \in Threads /\ Holds(hand) /\ (place = "release" => threaded)
  <2>1. CASE place \in {"grabbed", "wait"}
    BY <1>2, <2>1 DEF ParentOK, PlacesWithHand, Released, Holds
  <2>2. CASE place = "release"
    <3>1. Released /\ hand \in ToSet(active) /\ WaitForActive
      BY <1>2, <2>2 DEF ParentOK, Released, WaitForGrabbed, WaitForOne
    <3>2. threaded /\ hand \in Threads /\ active \in Seq(Threads) /\ IsInjective(active)
      BY <2>2, <3>1, AllListed
    <3>3. Pass(active, "release", "exit")
      BY <3>1 DEF WaitForActive
    <3>4. hand \in From(active, hand)
      BY <3>1, <3>2, <3>3, FromPass
    <3> QED
      BY <2>2, <3>1, <3>2, <3>4 DEF Holds
  <2> QED
    BY <1>1, <2>1, <2>2
<1>4. ~ToRun(hand) /\ given[hand] \in Jobs
  BY <1>1, <1>3, HandCollected
<1>5. given[hand] \notin collected /\ ran[given[hand]] = 1
  BY <1>2, <1>3, <1>4 DEF JobsOK
<1>6. QED
  BY <1>1, <1>4, <1>5, SharingCollects

LEMMA SharingActivate ==
  ASSUME DoubleInv, JobsInv, Activate
  PROVE  Sharing!JobNext
<1>1. /\ place = "inThread" /\ next' = next + 1
      /\ UNCHANGED <<ran, collected, limit>>
  BY DEF Activate
<1>2. ParentOK /\ InDeques /\ ~Released /\ ~InParent
  BY <1>1, InvParts DEF Released, InParent
<1>3. hand \in Threads /\ next <= limit /\ threaded
  BY <1>1, <1>2 DEF ParentOK, PlacesWithHand, MoreJobs
<1>4. ~Holds(hand)
  BY <1>1, <1>2, <1>3 DEF InDeques, Holds
<1>5. QED
  BY <1>1, <1>2, <1>3, <1>4, SharingStarts

LEMMA SharingParent ==
  ASSUME DoubleInv, JobsInv, RunInParent
  PROVE  Sharing!JobNext
<1>1. JobsOK /\ ParentOK /\ DoubleTypeOK
  BY InvParts DEF JobsInv
<1>2. CASE /\ place = "top" /\ ~threaded /\ next <= limit /\ next' = next + 1
           /\ UNCHANGED <<ran, collected, limit>>
  <2>1. ~InParent /\ ~Released /\ active = <<>> /\ 1 \in Threads
    BY <1>1, <1>2 DEF InParent, Released, ParentOK, Threads
  <2>2. ~Holds(1)
    BY <1>2, <2>1, NobodyHolds
  <2> QED
    BY <1>2, <2>1, <2>2, SharingStarts
<1>3. CASE /\ place = "inParent" /\ ran' = [ran EXCEPT ![next - 1] = @ + 1]
           /\ UNCHANGED <<next, collected, limit>>
  <2>1. next - 1 \in Jobs /\ next - 1 \notin collected /\ ran[next - 1] = 0
    BY <1>1, <1>3 DEF JobsOK, InParent
  <2>2. next - 1 < next
    BY <1>1 DEF DoubleTypeOK
  <2>3. ran'[next - 1] = 1 /\ \A i \in Jobs \ {next - 1} : ran'[i] = ran[i]
    BY <1>1, <1>3, <2>1 DEF DoubleTypeOK
  <2> QED
    BY <1>3, <2>1, <2>2, <2>3, SharingRuns
<1>4. CASE /\ place = "ranInParent" /\ collected' = collected \cup {next - 1}
           /\ UNCHANGED <<next, ran, limit>>
  <2>1. next - 1 \in Jobs /\ next - 1 \notin collected /\ ran[next - 1] = 1
    BY <1>1, <1>4 DEF JobsOK, InParent
  <2> QED
    BY <1>4, <2>1, SharingCollects
<1>5. QED
  BY <1>2, <1>3, <1>4 DEF RunInParent, MoreJobs

(* Every step of the double queue is one of JobSharing, or none. *)
LEMMA SharingStep ==
  ASSUME DoubleInv, JobsInv, [DoubleNext]_dvars
  PROVE  [Sharing!JobNext]_(Sharing!jvars)
<1>1. CASE UNCHANGED <<collected, ran, next, limit>>
  BY <1>1, SharingSame DEF Sharing!jvars
<1>2. ASSUME NEW t \in Threads, ThreadStep(t)
      PROVE  [Sharing!JobNext]_(Sharing!jvars)
  <2>1. CASE RunMethod(t)
    BY <2>1, SharingThread
  <2>2. CASE Loop(t)
    BY <1>1, <2>2 DEF Loop, parent
  <2> QED
    BY <1>2, <2>1, <2>2 DEF ThreadStep
<1>3. CASE BeginRound
  BY <1>3, SharingAsks DEF Sharing!JobNext
<1>4. CASE Activate \/ RunInParent \/ WaitForGrabbed \/ WaitForOne \/ WaitForActive
  BY <1>4, SharingActivate, SharingParent, SharingHand
<1>5. CASE GrabAvailable \/ GrabActive \/ WaitForThreads \/ TellToExit
           \/ WaitForExit \/ DeleteThread \/ JoinThread \/ ReleaseThreads
  BY <1>1, <1>5 DEF GrabAvailable, GrabActive, WaitForThreads, TellToExit,
     WaitForExit, DeleteThread, JoinThread, ReleaseThreads
<1>6. CASE UNCHANGED dvars
  BY <1>1, <1>6 DEF dvars, parent
<1>7. QED
  BY <1>2, <1>3, <1>4, <1>5, <1>6 DEF DoubleNext, Call, Gone

(* The double queue shares jobs out as JobSharing promises, fairness aside.  *)
THEOREM DoubleSharesJobs ==
  DoubleSpec => Sharing!JobInit /\ [][Sharing!JobNext]_(Sharing!jvars)
<1>1. DoubleInit => Sharing!JobInit
  <2> SUFFICES ASSUME DoubleInit PROVE Sharing!JobInit
    OBVIOUS
  <2>1. collected = {} /\ next = 1 /\ limit = 0 /\ ran = [j \in Jobs |-> 0]
    BY DEF DoubleInit
  <2>2. \A j \in Jobs : JobStage[j] = "todo"
    BY <2>1, StageOf DEF Jobs
  <2>3. JobStage = [j \in Jobs |-> "todo"]
    BY <2>2 DEF JobStage
  <2> QED
    BY <2>1, <2>3, SharingNames DEF Sharing!JobInit
<1>2. DoubleInv /\ JobsInv /\ [DoubleNext]_dvars
        => [Sharing!JobNext]_(Sharing!jvars)
  BY SharingStep
<1>3. QED
  BY <1>1, <1>2, InvInit, InvStep, JobsInit, JobsStep, PTL DEF DoubleSpec
=============================================================================
