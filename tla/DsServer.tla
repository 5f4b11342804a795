------------------------------ MODULE DsServer ------------------------------
(* The loop that all DIDSS data servers share (DsProcessServer), with the    *)
(* two ways of serving a client: in a child process, or in a thread          *)
(* (DsThreadedServer).  A boss waits for clients, hands each to a child or a *)
(* thread, and from time to time purges those that are done and looks        *)
(* whether it has been quiescent for too long.                               *)
EXTENDS Integers, SequencesExt

CONSTANTS
  Clients,
  Kinds,             \* the kinds of server: "process", "threaded" or both
  MaxClients,        \* _maxClients; a negative one is no limit
  MaxQuiescentSecs,  \* _maxQuiescentSecs; a negative one disables the check
  MaxJoined,         \* bound: threads joined, after which nobody connects
  MaxFailedForks,    \* bound: forks (or thread creations) that fail
  MaxStops           \* bound: times that a child is stopped by a signal

ASSUME ServerAssumption ==
  /\ IsFiniteSet(Clients)
  /\ Kinds \subseteq {"process", "threaded"}
  /\ MaxClients \in Int /\ MaxQuiescentSecs \in Int
  /\ MaxJoined \in Nat /\ MaxFailedForks \in Nat /\ MaxStops \in Nat

VARIABLES
  kind,         \* the kind of server; it does not change
  place,        \* where the boss is in waitForClients
  socket,       \* the clients whose connection the boss has in hand (one)
  backlog,      \* connections that wait to be accepted, in order
  client,       \* where each client is
  quits,        \* its command is SHUTDOWN
  numClients,   \* _numClients
  doShutdown,   \* _doShutdown
  quiet,        \* seconds since _lastActionTime, up to the first too many
  failedForks,  \* history: forks that failed
  joined,       \* history: threads joined
  stops,        \* history: stopped children that waitpid has reported
  signals       \* history: signals that have stopped a child

boss == <<place, socket, numClients, doShutdown, quiet>>
history == <<failedForks, joined, stops, signals>>
svars == <<kind, boss, backlog, client, quits, history>>

(* "asking": connected; "serving": its child or thread is at work;           *)
(* "stopped", "held": its child is stopped, and waitpid has not, or has,     *)
(* reported that; "done": its child or thread is over and not yet purged.    *)
States == {"away", "asking", "serving", "stopped", "held", "done"}
TooQuiet == IF MaxQuiescentSecs < 0 THEN 0 ELSE MaxQuiescentSecs + 1

ServerTypeOK ==
  /\ kind \in Kinds
  /\ place \in {"wait", "got", "check", "exit", "gone"}
  /\ socket \subseteq Clients /\ Cardinality(socket) <= 1
  /\ backlog \in Seq(Clients)
  /\ client \in [Clients -> States]
  /\ quits \in [Clients -> BOOLEAN]
  /\ numClients \in Int
  /\ doShutdown \in BOOLEAN
  /\ quiet \in 0 .. TooQuiet
  /\ failedForks \in Nat /\ joined \in Nat
  /\ stops \in Nat /\ signals \in Nat

ServerInit ==
  /\ kind \in Kinds
  /\ place = "wait" /\ socket = {}
  /\ backlog = <<>>
  /\ client = [c \in Clients |-> "away"]
  /\ quits = [c \in Clients |-> FALSE]
  /\ numClients = 0 /\ doShutdown = FALSE /\ quiet = 0
  /\ failedForks = 0 /\ joined = 0 /\ stops = 0 /\ signals = 0

In(states) == {c \in Clients : client[c] \in states}
To(p) == place' = p

-----------------------------------------------------------------------------
(* The clients, and the children or threads that serve them. *)

Connect(c) ==
  /\ client[c] = "away"
  /\ place # "gone" /\ joined < MaxJoined
  /\ client' = [client EXCEPT ![c] = "asking"]
  /\ backlog' = Append(backlog, c)
  /\ \E q \in BOOLEAN : quits' = [quits EXCEPT ![c] = q]
  /\ UNCHANGED <<kind, boss, history>>

(* The client is served.  A thread sets _doShutdown itself when that is what *)
(* it is asked; a child leaves with the exit status SIGQUIT.                 *)
ServeClient(c) ==
  /\ client[c] = "serving"
  /\ kind = "process" \/ place # "gone"
  /\ client' = [client EXCEPT ![c] = "done"]
  /\ doShutdown' = (doShutdown \/ (kind = "threaded" /\ quits[c]))
  /\ UNCHANGED <<kind, place, socket, numClients, quiet, backlog, quits,
                 history>>

(* A signal stops a child, or makes it go on. *)
StopChild(c) ==
  /\ kind = "process" /\ client[c] = "serving"
  /\ signals < MaxStops
  /\ signals' = signals + 1
  /\ client' = [client EXCEPT ![c] = "stopped"]
  /\ UNCHANGED <<kind, boss, backlog, quits, failedForks, joined, stops>>

ContinueChild(c) ==
  /\ client[c] \in {"stopped", "held"}
  /\ client' = [client EXCEPT ![c] = "serving"]
  /\ UNCHANGED <<kind, boss, backlog, quits, history>>

Tick ==
  /\ place # "gone"
  /\ quiet < TooQuiet
  /\ quiet' = quiet + 1
  /\ UNCHANGED <<kind, place, socket, numClients, doShutdown, backlog, client,
                 quits, history>>

-----------------------------------------------------------------------------
(* The boss. *)

GetClient ==
  /\ place = "wait"
  /\ backlog # <<>>
  /\ socket' = {Head(backlog)}
  /\ backlog' = Tail(backlog)
  /\ quiet' = 0
  /\ To("got")
  /\ UNCHANGED <<kind, numClients, doShutdown, client, quits, history>>

(* getClient times out only if nobody has connected. *)
TimedOut ==
  /\ place = "wait"
  /\ backlog = <<>>
  /\ To("check")
  /\ UNCHANGED <<kind, socket, numClients, doShutdown, quiet, backlog, client,
                 quits, history>>

TooMany_OneMore == MaxClients >= 0 /\ numClients > MaxClients
TooMany == MaxClients >= 0 /\ numClients >= MaxClients

LeaveTo(state) ==
  /\ client' = [c \in Clients |-> IF c \in socket THEN state ELSE client[c]]
  /\ socket' = {}

Deny_NoContinue ==
  /\ place = "got" /\ TooMany
  /\ LeaveTo("away")
  /\ UNCHANGED <<kind, place, numClients, doShutdown, quiet, backlog, quits,
                 history>>

(* SERVICE_DENIED; and the boss waits again, without a look at who is done.  *)
Deny ==
  /\ place = "got" /\ TooMany
  /\ LeaveTo("away")
  /\ To("wait")
  /\ UNCHANGED <<kind, numClients, doShutdown, quiet, backlog, quits, history>>

Spawn_NotCounted ==
  /\ place = "got" /\ ~TooMany
  /\ LeaveTo("serving")
  /\ To("check")
  /\ UNCHANGED <<kind, numClients, doShutdown, quiet, backlog, quits, history>>

(* The boss counts the children that it forks; but not the threads. *)
Spawn ==
  /\ place = "got" /\ ~TooMany
  /\ LeaveTo("serving")
  /\ numClients' = IF kind = "process" THEN numClients + 1 ELSE numClients
  /\ To("check")
  /\ UNCHANGED <<kind, doShutdown, quiet, backlog, quits, history>>

(* fork returns -1, which is not told from a child; pthread_create's failure *)
(* is, and the client gets an error.                                         *)
SpawnFails ==
  /\ place = "got" /\ ~TooMany
  /\ failedForks < MaxFailedForks
  /\ failedForks' = failedForks + 1
  /\ LeaveTo("away")
  /\ numClients' = IF kind = "process" THEN numClients + 1 ELSE numClients
  /\ To("check")
  /\ UNCHANGED <<kind, doShutdown, quiet, backlog, quits, joined, stops, signals>>

Reaped == In({"done"})
Reported == In({"stopped"})

PurgeCompleted_NotCounted ==
  /\ client' = [c \in Clients |-> IF c \in Reaped THEN "away"
                                  ELSE IF c \in Reported THEN "held"
                                  ELSE client[c]]
  /\ doShutdown' =
       (doShutdown \/ (kind = "process" /\ \E c \in Reaped : quits[c]))
  /\ quiet' = IF Reaped \cup Reported = {} THEN quiet ELSE 0
  /\ joined' = joined + (IF kind = "threaded" THEN Cardinality(Reaped) ELSE 0)
  /\ stops' = stops + Cardinality(Reported)
  /\ UNCHANGED numClients

PurgeCompleted_StatusIgnored ==
  /\ client' = [c \in Clients |-> IF c \in Reaped THEN "away"
                                  ELSE IF c \in Reported THEN "held"
                                  ELSE client[c]]
  /\ UNCHANGED doShutdown
  /\ numClients' = numClients - Cardinality(Reaped) - Cardinality(Reported)
  /\ quiet' = IF Reaped \cup Reported = {} THEN quiet ELSE 0
  /\ joined' = joined + (IF kind = "threaded" THEN Cardinality(Reaped) ELSE 0)
  /\ stops' = stops + Cardinality(Reported)

(* purgeCompletedThreads: waitpid reaps the children that are done, and,     *)
(* because of WUNTRACED, reports those that are stopped, which are counted   *)
(* as gone too; a threaded server joins the threads that are done.  Each of  *)
(* them is an action that ends the quiet.                                    *)
PurgeCompleted ==
  /\ client' = [c \in Clients |-> IF c \in Reaped THEN "away"
                                  ELSE IF c \in Reported THEN "held"
                                  ELSE client[c]]
  /\ doShutdown' =
       (doShutdown \/ (kind = "process" /\ \E c \in Reaped : quits[c]))
  /\ numClients' = numClients - Cardinality(Reaped) - Cardinality(Reported)
  /\ quiet' = IF Reaped \cup Reported = {} THEN quiet ELSE 0
  /\ joined' = joined + (IF kind = "threaded" THEN Cardinality(Reaped) ELSE 0)
  /\ stops' = stops + Cardinality(Reported)

(* What checkQuiescence returns after it has purged. *)
Quiescent == MaxQuiescentSecs >= 0 /\ numClients <= 0 /\ quiet > MaxQuiescentSecs

(* timeoutMethod, and postHandlerMethod after a spawn. *)
Check ==
  /\ place = "check"
  /\ IF doShutdown
     THEN /\ To("gone")
          /\ UNCHANGED <<client, doShutdown, numClients, quiet, joined, stops>>
     ELSE PurgeCompleted /\ To(IF Quiescent' THEN "exit" ELSE "wait")
  /\ UNCHANGED <<kind, socket, backlog, quits, failedForks, signals>>

(* exitMethod, which the boss calls when the server is quiescent, looks once *)
(* more, and calls the exit off if it still is.                              *)
ExitMethod ==
  /\ place = "exit"
  /\ PurgeCompleted
  /\ To(IF Quiescent' THEN "wait" ELSE "gone")
  /\ UNCHANGED <<kind, socket, backlog, quits, failedForks, signals>>

Boss == GetClient \/ TimedOut \/ Deny \/ Spawn \/ SpawnFails \/ Check
        \/ ExitMethod

Gone == place = "gone" /\ UNCHANGED svars

ServerNext ==
  \/ \E c \in Clients : Connect(c) \/ ServeClient(c) \/ StopChild(c)
                        \/ ContinueChild(c)
  \/ Tick \/ Boss \/ Gone

(* The boss goes on, a client is served in the end (every read and write has *)
(* a time limit), a stopped child is made to go on, and time passes.         *)
ServerSpec ==
  /\ ServerInit /\ [][ServerNext]_svars
  /\ WF_svars(Boss) /\ WF_svars(Tick)
  /\ \A c \in Clients : WF_svars(ServeClient(c)) /\ WF_svars(ContinueChild(c))

-----------------------------------------------------------------------------
Children == In({"serving", "stopped", "held", "done"})

(* What _numClients is, in every case: a failed fork is counted as a child   *)
(* for good, a stopped child as gone, and a threaded server never counts up, *)
(* only down.                                                                *)
CountsExplained ==
  numClients = IF kind = "process"
               THEN Cardinality(Children) + failedForks - stops
               ELSE -joined

(* "The number of clients currently being handled" (DsProcessServer.hh:272): *)
(* so it is in a process server, a child that is done but not yet reaped     *)
(* included, until a fork fails or a child is stopped.                       *)
ClientsCounted ==
  kind = "process" /\ failedForks = 0 /\ stops = 0 =>
    numClients = Cardinality(Children)

(* A process server serves at most _maxClients clients at once, and one more *)
(* for each time that a child was stopped.                                   *)
LimitKept ==
  kind = "process" /\ MaxClients >= 0 =>
    Cardinality(Children) <= MaxClients + stops

(* A connection is in one place only: in the backlog, once, or in the boss's *)
(* hands.                                                                    *)
ConnectionsOK ==
  /\ IsInjective(backlog)
  /\ In({"asking"}) = ToSet(backlog) \cup socket
  /\ ToSet(backlog) \cap socket = {}
  /\ socket # {} <=> place = "got"

(* The boss is about to exit only if it counts no client and nothing has     *)
(* happened for too long.                                                    *)
ExitOK ==
  place = "exit" => /\ MaxQuiescentSecs >= 0 /\ numClients <= 0
                    /\ quiet > MaxQuiescentSecs

(* A process server leaves only if a client has told it to, unless a child   *)
(* was stopped and miscounted.  (It never leaves because it is quiescent.)   *)
LeavesOnlyIfTold ==
  kind = "process" /\ place = "gone" /\ stops = 0 => doShutdown

(* By which the properties of the counts are proved.  A thread cannot be     *)
(* stopped alone.                                                            *)
ServerInv ==
  /\ ServerTypeOK
  /\ CountsExplained /\ LimitKept /\ ConnectionsOK /\ ExitOK
  /\ LeavesOnlyIfTold
  /\ kind = "threaded" => In({"stopped", "held"}) = {}

(* Every client that connects is served, gets an answer or (if the fork has  *)
(* failed) sees its connection closed, whatever the others do.               *)
EveryClientAnswered ==
  \A c \in Clients :
    client[c] = "asking" ~> client[c] # "asking" \/ place = "gone"

NobodyAsks == backlog = <<>>

(* If from some time on nobody connects, the children that are done are all  *)
(* reaped (or the threads joined), and a SHUTDOWN that a client has sent is  *)
(* obeyed.  (If clients keep connecting and are denied, neither need happen: *)
(* the boss purges after a timeout or a spawn only.)                         *)
PurgesInTheEnd ==
  <>[]NobodyAsks =>
    \A c \in Clients :
      /\ client[c] = "done" ~> client[c] # "done" \/ place = "gone"
      /\ client[c] = "serving" /\ quits[c] ~> place = "gone"

(* The server exits when the quiescent time has passed since the last client *)
(* was finished being served.                                                *)
ExitsWhenQuiet ==
  <>[](NobodyAsks /\ Children = {}) => <>(place = "gone")
=============================================================================
