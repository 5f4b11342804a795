---------------------------- MODULE TaDoubleQue -----------------------------
(* A double queue (TaThreadDoubleQue): threads that are available and        *)
(* threads that are active, in two deques that only the parent touches.  The *)
(* parent is the loop of the applications: a job for each call of thread(),  *)
(* and waitForThreads() after the last one.                                  *)
EXTENDS TaThread, SequencesExt

CONSTANT NumJobs      \* jobs of all rounds together

ASSUME NumJobsAssumption == NumJobs \in Nat

VARIABLES
  threaded,    \* init was given two threads or more: there are threads
  available,   \* _available
  active,      \* _active
  place,       \* where the parent is
  hand,        \* the thread it deals with, 0 for none
  next,        \* the next job to start
  limit,       \* the last job of this round
  given,       \* per thread: the job whose info it has, 0 for none
  ran,         \* history: how often each job has been run
  collected    \* history: the jobs that the parent has waited for

queues == <<available, active>>
parent == <<place, hand, next, limit>>
dvars == <<tvars, threaded, queues, parent, given, ran, collected>>

Jobs == 1 .. NumJobs

DoubleTypeOK ==
  /\ ThreadTypeOK
  /\ threaded \in BOOLEAN
  /\ available \in Seq(Threads) /\ active \in Seq(Threads)
  /\ place \in {"outside", "top", "grabbed", "inThread", "inParent",
                "ranInParent", "wait", "release", "exit", "exited", "delete",
                "join", "gone"}
  /\ hand \in Threads \cup {0}
  /\ next \in 1 .. NumJobs + 1 /\ limit \in 0 .. NumJobs
  /\ given \in [Threads -> Jobs \cup {0}]
  /\ ran \in [Jobs -> Nat]
  /\ collected \subseteq Jobs

DoubleInit ==
  /\ ThreadInit
  /\ threaded \in BOOLEAN
  /\ available = IF threaded THEN [t \in Threads |-> t] ELSE <<>>
  /\ active = <<>>
  /\ place = "outside" /\ hand = 0 /\ next = 1 /\ limit = 0
  /\ given = [t \in Threads |-> 0]
  /\ ran = [j \in Jobs |-> 0]
  /\ collected = {}

To(p) == place' = p
MoreJobs == next <= limit

-----------------------------------------------------------------------------
(* The threads; a thread of a queue belongs to no pool. *)

RunMethod(t) ==
  /\ at[t] = "run"
  /\ ran' = [j \in Jobs |-> IF j = given[t] THEN ran[j] + 1 ELSE ran[j]]
  /\ Goto(t, "ran")
  /\ UNCHANGED <<start, complete, exit, cancel, threaded, queues, parent, given,
                 collected>>

Loop(t) ==
  /\ \/ WaitForStart(t) \/ CheckExitBefore(t) \/ CheckExitAfter(t)
     \/ SignalComplete(t) \/ ActOnCancel(t)
     \/ /\ at[t] = "completed"
        /\ Goto(t, "start")
        /\ UNCHANGED <<start, complete, exit, cancel>>
  /\ UNCHANGED <<threaded, queues, parent, given, ran, collected>>

ThreadStep(t) == Loop(t) \/ RunMethod(t)

-----------------------------------------------------------------------------
(* The parent. *)

(* The application begins a round of jobs. *)
BeginRound ==
  /\ place = "outside"
  /\ limit' \in limit .. NumJobs
  /\ To("top")
  /\ UNCHANGED <<tvars, threaded, queues, hand, next, given, ran, collected>>

(* _grabThread, if there is an available thread ... *)
GrabAvailable ==
  /\ place = "top" /\ threaded /\ MoreJobs
  /\ available # <<>>
  /\ hand' = Head(available)
  /\ available' = Tail(available)
  /\ To("inThread")
  /\ UNCHANGED <<tvars, threaded, active, next, limit, given, ran, collected>>

(* ... and if there is none: the first of the active ones, ... *)
GrabActive ==
  /\ place = "top" /\ threaded /\ MoreJobs
  /\ available = <<>>
  /\ hand' = Head(active)
  /\ active' = Tail(active)
  /\ To("grabbed")
  /\ UNCHANGED <<tvars, threaded, available, next, limit, given, ran, collected>>

Collect(t, p) ==
  /\ WaitForRunToComplete(t)
  /\ collected' = collected \cup {given[t]}
  /\ To(p)

WaitForGrabbed_NotAwaited ==
  /\ place = "grabbed"
  /\ To("inThread")
  /\ UNCHANGED <<tvars, threaded, queues, hand, next, limit, given, ran,
                 collected>>

(* ... once its work is complete. *)
WaitForGrabbed ==
  /\ place = "grabbed"
  /\ Collect(hand, "inThread")
  /\ UNCHANGED <<threaded, queues, hand, next, limit, given, ran>>

Activate_ToAvailable ==
  /\ place = "inThread"
  /\ given' = [given EXCEPT ![hand] = next]
  /\ SignalRunToStart(hand)
  /\ available' = Append(available, hand)
  /\ hand' = 0 /\ next' = next + 1
  /\ To("top")
  /\ UNCHANGED <<threaded, active, limit, ran, collected>>

(* The rest of thread(): the info is set and the thread activated. *)
Activate ==
  /\ place = "inThread"
  /\ given' = [given EXCEPT ![hand] = next]
  /\ SignalRunToStart(hand)
  /\ active' = Append(active, hand)
  /\ hand' = 0 /\ next' = next + 1
  /\ To("top")
  /\ UNCHANGED <<threaded, available, limit, ran, collected>>

(* Without threads, thread() runs the job itself. *)
RunInParent ==
  \/ /\ place = "top" /\ ~threaded /\ MoreJobs
     /\ next' = next + 1
     /\ To("inParent")
     /\ UNCHANGED <<tvars, threaded, queues, hand, limit, given, ran, collected>>
  \/ /\ place = "inParent"
     /\ ran' = [ran EXCEPT ![next - 1] = @ + 1]
     /\ To("ranInParent")
     /\ UNCHANGED <<tvars, threaded, queues, hand, next, limit, given, collected>>
  \/ /\ place = "ranInParent"
     /\ collected' = collected \cup {next - 1}
     /\ To("top")
     /\ UNCHANGED <<tvars, threaded, queues, hand, next, limit, given, ran>>

(* waitForThreads, thread by thread; at the end the round is over. *)
WaitForThreads ==
  /\ place = "top" /\ ~MoreJobs
  /\ \/ /\ active # <<>>
        /\ hand' = Head(active)
        /\ active' = Tail(active)
        /\ available' = Append(available, Head(active))
        /\ To("wait")
     \/ /\ active = <<>>
        /\ To("outside")
        /\ UNCHANGED <<hand, queues>>
  /\ UNCHANGED <<tvars, threaded, next, limit, given, ran, collected>>

WaitForOne ==
  /\ place = "wait"
  /\ Collect(hand, "top")
  /\ hand' = 0
  /\ UNCHANGED <<threaded, queues, next, limit, given, ran>>

-----------------------------------------------------------------------------
(* releaseThreads, which the destructor calls, after waitForThreads or not:  *)
(* a pass over the active threads and three over all of them.                *)
All == available \o active

(* The next thread of the list, or the first of the next pass.               *)
Pass(list, p, following) ==
  IF \E i \in DOMAIN list : list[i] = hand /\ i < Len(list)
  THEN /\ hand' = list[(CHOOSE i \in DOMAIN list : list[i] = hand) + 1]
       /\ To(p)
  ELSE /\ hand' = IF All = <<>> \/ following = "gone" THEN 0 ELSE All[1]
       /\ To(following)

ReleaseThreads ==
  /\ \/ place = "outside"
     \/ place = "top" /\ ~MoreJobs
  /\ IF ~threaded THEN To("gone") /\ UNCHANGED hand
     ELSE IF active # <<>> THEN To("release") /\ hand' = active[1]
     ELSE To("exit") /\ hand' = All[1]
  /\ UNCHANGED <<tvars, threaded, queues, next, limit, given, ran, collected>>

WaitForActive_Skips ==
  /\ place = "release"
  /\ Pass(active, "release", "exit")
  /\ UNCHANGED <<tvars, threaded, queues, next, limit, given, ran, collected>>

WaitForActive ==
  /\ place = "release"
  /\ WaitForRunToComplete(hand)
  /\ collected' = collected \cup {given[hand]}
  /\ Pass(active, "release", "exit")
  /\ UNCHANGED <<threaded, queues, next, limit, given, ran>>

TellToExit_NoStart ==
  /\ place = "exit"
  /\ exit' = [exit EXCEPT ![hand] = TRUE]
  /\ Pass(All, "exit", "exited")
  /\ UNCHANGED <<at, start, complete, cancel, threaded, queues, next, limit,
                 given, ran, collected>>

TellToExit ==
  /\ place = "exit"
  /\ SetExitAndStart(hand)
  /\ Pass(All, "exit", "exited")
  /\ UNCHANGED <<threaded, queues, next, limit, given, ran, collected>>

WaitForExit ==
  /\ place = "exited"
  /\ WaitForRunToComplete(hand)
  /\ Pass(All, "exited", "delete")
  /\ UNCHANGED <<threaded, queues, next, limit, given, ran, collected>>

DeleteThread ==
  /\ place = "delete"
  /\ BeginDelete(hand)
  /\ To("join")
  /\ UNCHANGED <<threaded, queues, hand, next, limit, given, ran, collected>>

JoinThread ==
  /\ place = "join"
  /\ Joined(hand)
  /\ Pass(All, "delete", "gone")
  /\ UNCHANGED <<tvars, threaded, queues, next, limit, given, ran, collected>>

-----------------------------------------------------------------------------
Call == GrabAvailable \/ GrabActive \/ WaitForGrabbed \/ Activate \/ RunInParent
        \/ WaitForThreads \/ WaitForOne
        \/ WaitForActive \/ TellToExit \/ WaitForExit \/ DeleteThread
        \/ JoinThread

Gone == place = "gone" /\ UNCHANGED dvars

DoubleNext == \/ \E t \in Threads : ThreadStep(t)
              \/ BeginRound \/ Call \/ ReleaseThreads \/ Gone

(* A method returns, and a thread that can go on does; the parent finishes   *)
(* the round or the release that it has begun.                               *)
DoubleSpec ==
  /\ DoubleInit /\ [][DoubleNext]_dvars
  /\ WF_dvars(Call) /\ \A t \in Threads : WF_dvars(ThreadStep(t))

-----------------------------------------------------------------------------
Released == place \in {"release", "exit", "exited", "delete", "join", "gone"}
Working(t) == start[t] \/ at[t] \in {"check", "run", "ran", "signal"}
AtRest(t) == ~Working(t) /\ ~complete[t]

(* The types are kept; and until the queue is released each thread is in one *)
(* of the two deques or in the parent's hand, once; an available one has     *)
(* nothing to do and no completion to report (but for the one that is being  *)
(* waited for), and an active one has a job to complete, or has completed it *)
(* and not been waited for.                                                  *)
DequesOK ==
  /\ DoubleTypeOK
  /\ threaded /\ ~Released =>
    /\ IsInjective(All)
    /\ hand \in ToSet(All) <=> place = "wait"
    /\ Threads \subseteq ToSet(All) \cup {hand}
    /\ \A t \in Threads :
         IF t \in ToSet(active) \/ (t = hand /\ place \in {"grabbed", "wait"})
         THEN Working(t) # complete[t]
         ELSE AtRest(t)

(* By which DequesOK and InfoNotReplaced are proved: what the parent has in   *)
(* hand, what a thread may be doing, and that an active one has a job.       *)
PlacesWithHand == {"grabbed", "inThread", "wait"}
ParentOK ==
  /\ next \in 1 .. limit + 1
  /\ place \in {"grabbed", "inThread"} => MoreJobs
  /\ place \in {"inParent", "ranInParent"} => next > 1
  /\ place \in PlacesWithHand => threaded
  /\ ~Released => (hand \in Threads <=> place \in PlacesWithHand)
  /\ Released /\ place # "gone" => threaded /\ hand \in Threads
  /\ place = "release" => hand \in ToSet(active)
  /\ place = "wait" => hand \notin ToSet(active)
  /\ ~threaded => available = <<>> /\ active = <<>>
  /\ threaded /\ Released => IsInjective(All) /\ Threads \subseteq ToSet(All)

ThreadsOK ==
  ~Released =>
    \A t \in Threads :
      /\ ~exit[t] /\ ~cancel[t]
      /\ at[t] \in {"none", "start", "check", "run", "ran", "signal",
                    "completed"}
      /\ start[t] => at[t] \in {"start", "completed"}
      /\ AtRest(t) => given[t] \in {0} \cup collected

GivenOK ==
  \A t \in Threads :
    t \in ToSet(active) \/ (t = hand /\ place \in {"grabbed", "wait"})
      => given[t] \in Jobs

DoubleInv == DequesOK /\ ParentOK /\ ThreadsOK /\ GivenOK

(* By which NoJobLost is proved: who holds a job that the parent has not yet *)
(* waited for, ...                                                           *)
From(list, t) == {list[i] : i \in {k \in DOMAIN list : \E l \in 1 .. k : list[l] = t}}

Holds(t) ==
  IF Released THEN place = "release" /\ t \in From(active, hand)
  ELSE t \in ToSet(active) \/ (t = hand /\ place \in {"grabbed", "wait"})

ToRun(t) == start[t] \/ at[t] \in {"check", "run"}
InParent == place \in {"inParent", "ranInParent"}

(* ... that each job begun is one thread's, or the parent's, until it has    *)
(* been run and waited for, ...                                              *)
JobsOK ==
  /\ \A t \in Threads : Holds(t) =>
       /\ given[t] \in 1 .. next - 1 /\ given[t] \notin collected
       /\ ran[given[t]] = IF ToRun(t) THEN 0 ELSE 1
  /\ \A t, u \in Threads :
       Holds(t) /\ Holds(u) /\ given[t] = given[u] => t = u
  /\ InParent => /\ ~threaded /\ next - 1 \in Jobs \ collected
                 /\ ran[next - 1] = IF place = "inParent" THEN 0 ELSE 1
  /\ \A j \in Jobs :
       IF j >= next THEN ran[j] = 0 /\ j \notin collected
       ELSE IF j \in collected THEN ran[j] = 1
       ELSE \/ \E t \in Threads : Holds(t) /\ given[t] = j
            \/ InParent /\ j = next - 1

RoundOK ==
  /\ place = "outside" => next = limit + 1 /\ active = <<>>
  /\ Released => next = limit + 1
  /\ ~threaded => \A t \in Threads : at[t] = "none" /\ ~cancel[t]

(* ... and what the release has done to a thread that it has passed, or is   *)
(* still to do.                                                              *)
Resting(t) == /\ AtRest(t) /\ at[t] \in {"none", "start", "completed"}
              /\ ~exit[t] /\ ~cancel[t]

Leaving(t) ==
  /\ exit[t] /\ ~cancel[t]
  /\ IF at[t] \in {"start", "completed"} THEN start[t] /\ ~complete[t]
     ELSE IF at[t] \in {"check", "exiting"} THEN ~start[t] /\ ~complete[t]
     ELSE at[t] = "ended" /\ complete[t]

ReleaseOK ==
  threaded => \A t \in Threads :
    /\ place = "release" =>
         IF t \in From(active, hand)
         THEN /\ Working(t) # complete[t]
              /\ ~exit[t] /\ ~cancel[t]
              /\ at[t] \in {"none", "start", "check", "run", "ran", "signal",
                            "completed"}
              /\ start[t] => at[t] \in {"start", "completed"}
         ELSE Resting(t)
    /\ place = "exit" => IF t \in From(All, hand) THEN Resting(t) ELSE Leaving(t)
    /\ place = "exited" => IF t \in From(All, hand) THEN Leaving(t)
                           ELSE at[t] = "ended"
    /\ place \in {"delete", "join", "gone"} => at[t] = "ended"

JobsInv == JobsOK /\ RoundOK /\ ReleaseOK

(* The info of a thread is not replaced before the thread has completed the  *)
(* job it holds and the parent has seen that.                                *)
InfoNotReplaced ==
  [][\A t \in Threads :
       given'[t] # given[t] => /\ AtRest(t)
                               /\ given[t] = 0 \/ given[t] \in collected]_dvars

(* Between two rounds, and when the queue is gone, every job begun has been  *)
(* run, once; and then no thread is left.                                    *)
NoJobLost ==
  /\ place \in {"outside", "exit", "exited", "delete", "join", "gone"} =>
       /\ next = limit + 1
       /\ \A j \in Jobs : ran[j] = IF j <= limit THEN 1 ELSE 0
  /\ place = "gone" /\ threaded => \A t \in Threads : at[t] = "ended"

(* The destructor returns. *)
ReleaseReturns == Released ~> place = "gone"

(* A double queue keeps the same promise as a thread pool. *)
JobStage ==
  [j \in Jobs |-> IF j \in collected THEN "collected"
                  ELSE IF ran[j] > 0 THEN "ran"
                  ELSE IF j < next THEN "started"
                  ELSE "todo"]
Sharing == INSTANCE JobSharing WITH job <- JobStage
SharesJobs == Sharing!JobSpec
=============================================================================
