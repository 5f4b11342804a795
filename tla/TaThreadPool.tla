---------------------------- MODULE TaThreadPool ----------------------------
(* A pool of compute threads (TaThreadPool) and the application's thread     *)
(* that shares jobs out over it.  The pool's mutex is released at the end of *)
(* every method but one, so a method is one action; the exception is the     *)
(* destructor, which keeps it while it cancels and joins the threads.        *)
EXTENDS TaThread, SequencesExt

CONSTANT NumJobs      \* jobs of all runs of the pool together

ASSUME NumJobsAssumption == NumJobs \in Nat

VARIABLES
  \* the pool
  avail,      \* _availPool, the next thread to be taken first
  done,       \* _donePool, likewise
  ready,      \* _readyForDoneCheck
  nStarted,   \* _countStarted
  nDone,      \* _countDone
  held,       \* the destructor holds _mutex
  \* the application
  place,      \* where the parent thread is
  style,      \* which of the two loops over the pool it is in
  hand,       \* the thread it got from the pool, 0 for none
  isDone,     \* ... and that came from the done pool
  parked,     \* it is in pthread_cond_wait on _emptyCond
  next,       \* the next job to start
  limit,      \* the last job of this run
  results,    \* results collected, in that order
  \* per thread: the job it was given (setCovRay, setStartVal), and the job
  \* of which it holds the result, 0 for none
  given, out,
  ran         \* history: how often each job has been run

pool == <<avail, done, ready, nStarted, nDone, held>>
parent == <<place, style, hand, isDone, parked, next, limit, results>>
work == <<given, out, ran>>
pvars == <<tvars, pool, parent, work>>

Jobs == 1 .. NumJobs

(* The order in which addThreadToMain adds threads, which initForRun copies. *)
Main == [t \in Threads |-> t]

ParentPlaces ==
  {"outside", "top", "getDone", "getAvail", "getLocked", "got", "collect",
   "takeDone", "collectGot", "over", "delete", "join", "gone"}

PoolTypeOK ==
  /\ ThreadTypeOK
  /\ avail \in Seq(Threads) /\ done \in Seq(Threads)
  /\ ready \in BOOLEAN /\ held \in BOOLEAN
  /\ nStarted \in Nat /\ nDone \in Nat
  /\ place \in ParentPlaces
  /\ style \in {"documented", "application"}
  /\ hand \in Threads \cup {0}
  /\ parked \in BOOLEAN /\ isDone \in BOOLEAN
  /\ next \in Nat /\ limit \in 0 .. NumJobs
  /\ results \in Seq(Jobs \cup {0})
  /\ given \in [Threads -> Jobs \cup {0}]
  /\ out \in [Threads -> Jobs \cup {0}]
  /\ ran \in [Jobs -> Nat]

PoolInit ==
  /\ ThreadInit
  /\ avail = Main /\ done = <<>>
  /\ ready = FALSE /\ nStarted = 0 /\ nDone = 0 /\ held = FALSE
  /\ place = "outside" /\ style = "documented" /\ hand = 0
  /\ isDone = FALSE /\ parked = FALSE
  /\ next = 1 /\ limit = 0 /\ results = <<>>
  /\ given = [t \in Threads |-> 0] /\ out = [t \in Threads |-> 0]
  /\ ran = [j \in Jobs |-> 0]

Empty == avail = <<>> /\ done = <<>>
MoreJobs == next <= limit

-----------------------------------------------------------------------------
(* The threads: the steps of TaThread, with run() as the job and with the    *)
(* end of the loop in the pool.                                              *)

RunJob_Skips(t) ==
  /\ at[t] = "run"
  /\ out' = [out EXCEPT ![t] = given[t]]
  /\ Goto(t, "ran")
  /\ UNCHANGED <<start, complete, exit, cancel, given, ran, pool, parent>>

(* run() of the application's thread: the job given is done, its result kept *)
(* in the thread object.                                                     *)
RunJob(t) ==
  /\ at[t] = "run"
  /\ out' = [out EXCEPT ![t] = given[t]]
  /\ ran' = [j \in Jobs |-> IF j = given[t] THEN ran[j] + 1 ELSE ran[j]]
  /\ Goto(t, "ran")
  /\ UNCHANGED <<start, complete, exit, cancel, given, pool, parent>>

AddThreadToDone_EmptyAfter(t) ==
  /\ at[t] = "completed"
  /\ ~held
  /\ done' = Append(done, t)
  /\ nDone' = nDone + 1
  /\ UNCHANGED parked
  /\ Goto(t, "start")
  /\ UNCHANGED <<start, complete, exit, cancel, avail, ready, nStarted, held,
                 place, style, hand, isDone, next, limit, results, work>>

(* The parent is woken only if both pools were empty. *)
AddThreadToDone(t) ==
  /\ at[t] = "completed"
  /\ ~held
  /\ done' = Append(done, t)
  /\ nDone' = nDone + 1
  /\ parked' = (parked /\ ~Empty)
  /\ Goto(t, "start")
  /\ UNCHANGED <<start, complete, exit, cancel, avail, ready, nStarted, held,
                 place, style, hand, isDone, next, limit, results, work>>

Loop(t) ==
  /\ \/ WaitForStart(t) \/ CheckExitBefore(t) \/ CheckExitAfter(t)
     \/ SignalComplete(t) \/ ActOnCancel(t)
  /\ UNCHANGED <<pool, parent, work>>

ThreadStep(t) == Loop(t) \/ RunJob(t) \/ AddThreadToDone(t)

-----------------------------------------------------------------------------
(* The parent. *)

To(p) == place' = p

(* The parent got a thread from the pool of done threads or of those idle. *)
TakeDone(after) ==
  /\ done # <<>>
  /\ hand' = Head(done)
  /\ isDone' = TRUE
  /\ done' = Tail(done)
  /\ To(after)
  /\ UNCHANGED avail

TakeAvail_Copies(after) ==
  /\ avail # <<>>
  /\ hand' = Head(avail)
  /\ isDone' = FALSE
  /\ To(after)
  /\ UNCHANGED <<avail, done>>

TakeAvail(after) ==
  /\ avail # <<>>
  /\ hand' = Head(avail)
  /\ isDone' = FALSE
  /\ avail' = Tail(avail)
  /\ To(after)
  /\ UNCHANGED done

PoolUnchangedButLists == UNCHANGED <<ready, nStarted, nDone, held>>

(* A run begins, with some of the jobs left and in one of the two styles:    *)
(* the one TaThreadPool.hh documents (and ThreadTest uses), or the one of    *)
(* the applications (RadxCov2Mom, CartInterp and others).                    *)
InitForRun ==
  /\ place \in {"outside", "over"}
  /\ ready' = FALSE /\ nStarted' = 0 /\ nDone' = 0
  /\ avail' = Main /\ done' = <<>>
  /\ limit' \in limit .. NumJobs
  /\ style' \in {"documented", "application"}
  /\ To("top")
  /\ UNCHANGED <<tvars, held, hand, isDone, parked, next, results, work>>

AllDone_NoCount == ready /\ done = <<>>
AllDone_PoolIgnored == ready /\ nDone = nStarted
AllDone == ready /\ nDone = nStarted /\ done = <<>>

(* The head of the loop that starts jobs: over checkAllDone as documented,   *)
(* over the jobs in the applications.                                        *)
LoopHead ==
  /\ place = "top"
  /\ \/ /\ style = "documented"
        /\ To(IF AllDone THEN "over" ELSE "getDone")
        /\ UNCHANGED ready
     \/ /\ style = "application" /\ MoreJobs
        /\ To("getDone")
        /\ UNCHANGED ready
     \/ /\ style = "application" /\ ~MoreJobs
        /\ ready' = TRUE
        /\ To("collect")
  /\ UNCHANGED <<tvars, avail, done, nStarted, nDone, held, style, hand,
                 isDone, parked, next, limit, results, work>>

(* getNextThread(true): three sections, the last of them repeated until      *)
(* there is a thread.                                                        *)
GetDoneThread ==
  /\ place = "getDone"
  /\ \/ TakeDone("got")
     \/ done = <<>> /\ To("getAvail") /\ UNCHANGED <<hand, isDone, avail, done>>
  /\ PoolUnchangedButLists
  /\ UNCHANGED <<tvars, style, parked, next, limit, results, work>>

GetAvailThread ==
  /\ place = "getAvail"
  /\ \/ TakeAvail("got")
     \/ avail = <<>> /\ To("getLocked") /\ UNCHANGED <<hand, isDone, avail, done>>
  /\ PoolUnchangedButLists
  /\ UNCHANGED <<tvars, style, parked, next, limit, results, work>>

GetLocked ==
  /\ place = "getLocked"
  /\ ~parked
  /\ \/ /\ Empty
        /\ parked' = TRUE
        /\ UNCHANGED <<place, hand, isDone, avail, done>>
     \/ /\ TakeDone("got") /\ UNCHANGED parked
     \/ /\ done = <<>> /\ TakeAvail("got") /\ UNCHANGED parked
  /\ PoolUnchangedButLists
  /\ UNCHANGED <<tvars, style, next, limit, results, work>>

(* pthread_cond_wait may return for no reason. *)
WakeSpuriously ==
  /\ parked
  /\ parked' = FALSE
  /\ UNCHANGED <<tvars, pool, place, style, hand, isDone, next, limit,
                 results, work>>

(* A done thread: its result is taken and it is available again. *)
HandleDone(back) ==
  /\ isDone
  /\ results' = Append(results, out[hand])
  /\ avail' = Append(avail, hand)
  /\ hand' = 0
  /\ parked' = (parked /\ ~Empty)
  /\ To(back)
  /\ UNCHANGED <<tvars, done, ready, nStarted, nDone, held, style, isDone,
                 next, limit, work>>

(* An idle thread: it is given the next job and set running, or, when there  *)
(* is none left (as documented), the pool is told so and the thread stays    *)
(* out of the pool until the next run.                                       *)
StartJob ==
  /\ ~isDone /\ MoreJobs
  /\ given' = [given EXCEPT ![hand] = next]
  /\ SignalRunToStart(hand)
  /\ nStarted' = nStarted + 1
  /\ next' = next + 1
  /\ hand' = 0
  /\ To("top")
  /\ UNCHANGED <<avail, done, ready, nDone, held, style, isDone, parked, limit,
                 results, out, ran>>

SetReadyForDoneCheck ==
  /\ ~isDone /\ ~MoreJobs
  /\ ready' = TRUE
  /\ hand' = 0
  /\ To("top")
  /\ UNCHANGED <<tvars, avail, done, nStarted, nDone, held, style, isDone,
                 parked, next, limit, results, work>>

UseThread ==
  /\ place = "got"
  /\ \/ HandleDone("top")
     \/ StartJob
     \/ SetReadyForDoneCheck

(* The applications' second loop, over checkAllDone and getNextDoneThread,   *)
(* which polls: a done thread, all done, or look again.                      *)
CheckAllDone ==
  /\ place = "collect"
  /\ To(IF AllDone THEN "over" ELSE "takeDone")
  /\ UNCHANGED <<tvars, pool, style, isDone, hand, parked, next, limit,
                 results, work>>

GetNextDoneThread ==
  /\ place = "takeDone"
  /\ \/ TakeDone("collectGot")
     \/ done = <<>> /\ To("collect") /\ UNCHANGED <<hand, isDone, avail, done>>
  /\ PoolUnchangedButLists
  /\ UNCHANGED <<tvars, style, parked, next, limit, results, work>>

CollectDone == place = "collectGot" /\ HandleDone("collect")

(* The destructor: each thread of the main pool in turn, under the mutex. *)
BeginDestructor ==
  /\ place \in {"outside", "over"}
  /\ held' = TRUE
  /\ hand' = 1
  /\ To("delete")
  /\ UNCHANGED <<tvars, avail, done, ready, nStarted, nDone, style, isDone,
                 parked, next, limit, results, work>>

DeleteThread ==
  /\ place = "delete"
  /\ BeginDelete(hand)
  /\ To("join")
  /\ UNCHANGED <<pool, style, isDone, hand, parked, next, limit, results, work>>

JoinThread ==
  /\ place = "join"
  /\ Joined(hand)
  /\ IF hand < NumThreads
     THEN hand' = hand + 1 /\ To("delete") /\ UNCHANGED held
     ELSE hand' = 0 /\ To("gone") /\ held' = FALSE
  /\ UNCHANGED <<tvars, avail, done, ready, nStarted, nDone, style, isDone,
                 parked, next, limit, results, work>>

-----------------------------------------------------------------------------
Call == LoopHead \/ GetDoneThread \/ GetAvailThread \/ GetLocked \/ UseThread
        \/ CheckAllDone \/ GetNextDoneThread \/ CollectDone
        \/ DeleteThread \/ JoinThread

Gone == place = "gone" /\ UNCHANGED pvars

PoolNext == \/ \E t \in Threads : ThreadStep(t)
            \/ Call \/ InitForRun \/ BeginDestructor \/ WakeSpuriously \/ Gone

(* A thread that can go on does, and so does the parent in the middle of a   *)
(* run or of the destructor; it need not begin either.                       *)
PoolFairness == WF_pvars(Call) /\ \A t \in Threads : WF_pvars(ThreadStep(t))

PoolSpec == PoolInit /\ [][PoolNext]_pvars /\ PoolFairness

-----------------------------------------------------------------------------
(* Whenever the parent leaves a run (checkAllDone has held), every job of it *)
(* and of the runs before has been run exactly once, and its result          *)
(* collected exactly once.                                                   *)
AllJobsDoneOnce ==
  place = "over" =>
    /\ next = limit + 1
    /\ \A j \in Jobs : ran[j] = (IF j <= limit THEN 1 ELSE 0)
    /\ \A j \in 1 .. limit : \E i \in DOMAIN results : results[i] = j
    /\ IsInjective(results)

Working == place \notin {"delete", "join", "gone"}
Busy == {t \in Threads : ~Idle(t)}

(* A thread is in one of the two pools, or in the parent's hand, or busy, or *)
(* (once the documented loop has set it aside) idle and out of the pool; in  *)
(* one of them only, and once.  Otherwise a running thread could be handed   *)
(* out again and its job overwritten.                                        *)
OnePlace ==
  Working =>
    /\ IsInjective(avail) /\ IsInjective(done)
    /\ ToSet(avail) \cap ToSet(done) = {}
    /\ hand \notin ToSet(avail) \cup ToSet(done)
    /\ Busy \cap (ToSet(avail) \cup ToSet(done) \cup {hand}) = {}
    /\ ~ready => Threads \subseteq ToSet(avail) \cup ToSet(done) \cup Busy
                                     \cup {hand}

(* The job of a thread, which the parent sets without a lock, is never set   *)
(* while the thread may read it; nor does the parent read a result that the  *)
(* thread may be writing.                                                    *)
NoDataRace ==
  [][\A t \in Threads :
       /\ given'[t] # given[t] => Idle(t)
       /\ results' # results => Idle(hand)]_pvars

(* When the parent believes that all is done, no thread is anywhere but      *)
(* waiting for its next start; so the destructor, which holds the mutex      *)
(* while it joins, never joins a thread that needs the mutex to go on.       *)
QuietWhenOver ==
  place \in {"over", "outside", "delete", "join"} =>
    \A t \in Threads : Idle(t) \/ (held /\ at[t] = "ended")

(* What holds between any two steps, by which the four properties above are  *)
(* proved.  Where the parent is says what it has in hand; while it works the *)
(* threads leave their loop nowhere, and those under way are counted.        *)
PlacesWithHand == {"got", "collectGot", "delete", "join"}
ParentOK ==
  /\ hand \in Threads <=> place \in PlacesWithHand
  /\ held <=> place \in {"delete", "join"}
  /\ next \in 1 .. limit + 1
  /\ ready => next = limit + 1
  /\ place \in {"collect", "takeDone", "collectGot", "over"} => ready

OverOK ==
  place \in {"outside", "over"} => nStarted = nDone /\ done = <<>>

ThreadsOK ==
  \A t \in Threads :
    IF Working
    THEN /\ ~exit[t] /\ ~cancel[t]
         /\ at[t] \in {"none", "start", "check", "run", "ran", "signal",
                       "completed"}
         /\ start[t] => at[t] = "start"
    ELSE at[t] \in {"none", "start", "ended"} /\ ~start[t]

CountsOK == Working => nStarted = nDone + Cardinality(Busy)

(* The threads with a job between its start and its collection. *)
Open == Busy \cup ToSet(done) \cup (IF isDone THEN {hand} \ {0} ELSE {})
ToRun == {t \in Threads : start[t] \/ at[t] \in {"check", "run"}}

JobsOK ==
  Working =>
    /\ \A t \in Open : /\ given[t] \in 1 .. next - 1
                       /\ ran[given[t]] = (IF t \in ToRun THEN 0 ELSE 1)
                       /\ t \in ToRun \/ out[t] = given[t]
                       /\ \A i \in DOMAIN results : results[i] # given[t]
                       /\ \A u \in Open : given[t] = given[u] => t = u
    /\ \A i \in DOMAIN results : /\ results[i] \in 1 .. next - 1
                                 /\ ran[results[i]] = 1
    /\ IsInjective(results)
    /\ \A j \in 1 .. next - 1 : \/ \E t \in Open : given[t] = j
                                \/ \E i \in DOMAIN results : results[i] = j
    /\ \A j \in Jobs : j >= next => ran[j] = 0

PoolInv == ParentOK /\ OverOK /\ ThreadsOK /\ OnePlace /\ CountsOK /\ JobsOK

(* Every run ends, and so does the destructor: no wake-up is lost and nobody *)
(* waits for a thread that cannot come.                                      *)
RunsEnd == /\ place = "top" ~> place = "over"
           /\ place = "delete" ~> place = "gone"

(* The pool shares the jobs out as promised. *)
JobStage ==
  [j \in Jobs |-> IF \E i \in DOMAIN results : results[i] = j THEN "collected"
                  ELSE IF ran[j] > 0 THEN "ran"
                  ELSE IF j < next THEN "started"
                  ELSE "todo"]
Sharing == INSTANCE JobSharing WITH job <- JobStage
SharesJobs == Sharing!JobSpec
=============================================================================
