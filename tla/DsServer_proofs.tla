-------------------------- MODULE DsServer_proofs ---------------------------
(* Proofs about the data servers, for any clients, limits and bounds.        *)
EXTENDS DsServer, QueueLemmas, FiniteSetTheorems, TLAPS

USE ServerAssumption

-----------------------------------------------------------------------------
(* Sets of clients. *)

LEMMA InFinite ==
  ASSUME NEW S \in SUBSET Clients
  PROVE  IsFiniteSet(S) /\ Cardinality(S) \in Nat
BY FS_Subset, FS_CardinalityType

LEMMA NoneCounted == Cardinality({}) = 0
BY FS_EmptySet

LEMMA OneMore ==
  ASSUME NEW S \in SUBSET Clients, NEW c \in Clients, c \notin S
  PROVE  Cardinality(S \cup {c}) = Cardinality(S) + 1
BY InFinite, FS_AddElement

LEMMA FewerCounted ==
  ASSUME NEW S \in SUBSET Clients, NEW R \in SUBSET S
  PROVE  /\ Cardinality(S \ R) = Cardinality(S) - Cardinality(R)
         /\ R # {} => Cardinality(R) > 0
<1>1. IsFiniteSet(S) /\ IsFiniteSet(R) /\ Cardinality(R) \in Nat
  BY InFinite
<1>2. Cardinality(S \ R) = Cardinality(S) - Cardinality(S \cap R)
  BY <1>1, FS_Difference
<1>3. S \cap R = R
  OBVIOUS
<1>4. R # {} => Cardinality(R) # 0
  BY <1>1, FS_EmptySet
<1> QED
  BY <1>1, <1>2, <1>3, <1>4

LEMMA OneConnection ==
  ASSUME ServerTypeOK
  PROVE  socket = {} \/ \E c \in Clients : socket = {c}
<1>1. IsFiniteSet(socket) /\ Cardinality(socket) \in Nat
  BY InFinite DEF ServerTypeOK
<1>2. Cardinality(socket) = 0 \/ Cardinality(socket) = 1
  BY <1>1 DEF ServerTypeOK
<1>3. CASE Cardinality(socket) = 0
  BY <1>1, <1>3, FS_EmptySet
<1>4. CASE Cardinality(socket) = 1
  BY <1>1, <1>4, FS_Singleton DEF ServerTypeOK
<1> QED
  BY <1>2, <1>3, <1>4

LEMMA TooQuietType == TooQuiet \in Nat
BY DEF TooQuiet

-----------------------------------------------------------------------------
(* What steps do to the sets of clients. *)

(* No client comes to be, or ceases to be, a child, asking, or stopped.      *)
Moved(from, to) ==
  \A c \in Clients : \/ client'[c] = client[c]
                     \/ client[c] \in from /\ client'[c] \in to

LEMMA ChildrenMove ==
  ASSUME NEW from, NEW to,
         Moved(from, to),
         \/ from \cup to \subseteq {"serving", "stopped", "held", "done"}
         \/ (from \cup to) \cap {"serving", "stopped", "held", "done"} = {}
  PROVE  Children' = Children
BY DEF Moved, Children, In

LEMMA CountsKept ==
  ASSUME CountsExplained, LimitKept, Children' = Children,
         UNCHANGED <<kind, numClients, failedForks, joined, stops>>
  PROVE  CountsExplained' /\ LimitKept'
BY DEF CountsExplained, LimitKept

LEMMA Purged ==
  ASSUME ServerTypeOK, PurgeCompleted
  PROVE  /\ client' \in [Clients -> States]
         /\ Children' = Children \ Reaped
         /\ In({"asking"})' = In({"asking"})
         /\ In({"stopped", "held"})' = In({"stopped", "held"})
<1>1. client' = [c \in Clients |-> IF c \in Reaped THEN "away"
                                  ELSE IF c \in Reported THEN "held"
                                  ELSE client[c]]
  BY DEF PurgeCompleted
<1>2. client' \in [Clients -> States]
  BY <1>1 DEF ServerTypeOK, States
<1>3. Children' = Children \ Reaped
  BY <1>1 DEF Children, In, Reaped, Reported
<1>4. In({"asking"})' = In({"asking"})
  BY <1>1 DEF In, Reaped, Reported
<1>5. In({"stopped", "held"})' = In({"stopped", "held"})
  BY <1>1 DEF In, Reaped, Reported
<1> QED
  BY <1>2, <1>3, <1>4, <1>5

LEMMA PurgedTypes ==
  ASSUME ServerTypeOK, PurgeCompleted
  PROVE  /\ doShutdown' \in BOOLEAN /\ numClients' \in Int
         /\ quiet' \in 0 .. TooQuiet
         /\ joined' \in Nat /\ stops' \in Nat
<1>1. Reaped \in SUBSET Clients /\ Reported \in SUBSET Clients
  BY DEF Reaped, Reported, In
<1>2. Cardinality(Reaped) \in Nat /\ Cardinality(Reported) \in Nat
  BY <1>1, InFinite
<1> QED
  BY <1>2, TooQuietType DEF PurgeCompleted, ServerTypeOK

LEMMA CountArithmetic ==
  ASSUME NEW c \in Nat, NEW f \in Nat, NEW s \in Nat,
         NEW r \in Nat, NEW p \in Nat
  PROVE  (c + f - s) - r - p = (c - r) + f - (s + p)
OBVIOUS

LEMMA PurgedCounts ==
  ASSUME ServerTypeOK, CountsExplained, LimitKept, PurgeCompleted,
         kind' = kind, failedForks' = failedForks,
         kind = "threaded" => In({"stopped", "held"}) = {}
  PROVE  CountsExplained' /\ LimitKept'
<1>1. /\ Reaped \in SUBSET Children /\ Reported \in SUBSET Clients
      /\ Children \in SUBSET Clients
  BY DEF Reaped, Reported, Children, In
<1>2. /\ Cardinality(Reaped) \in Nat /\ Cardinality(Reported) \in Nat
      /\ Cardinality(Children) \in Nat
  BY <1>1, InFinite
<1>3. Cardinality(Children') = Cardinality(Children) - Cardinality(Reaped)
  BY <1>1, Purged, FewerCounted
<1>4. CASE kind = "process"
  <2>1. /\ numClients' = numClients - Cardinality(Reaped) - Cardinality(Reported)
        /\ stops' = stops + Cardinality(Reported)
    BY DEF PurgeCompleted
  <2>2. numClients = Cardinality(Children) + failedForks - stops
    BY <1>4 DEF CountsExplained
  <2>3. numClients' = Cardinality(Children') + failedForks' - stops'
    <3>1. failedForks \in Nat /\ stops \in Nat
      BY DEF ServerTypeOK
    <3> QED
      BY <1>2, <1>3, <2>1, <2>2, <3>1, CountArithmetic
  <2>4. MaxClients >= 0 => Cardinality(Children') <= MaxClients + stops'
    BY <1>2, <1>3, <1>4, <2>1 DEF LimitKept, ServerTypeOK
  <2> QED
    BY <1>4, <2>3, <2>4 DEF CountsExplained, LimitKept
<1>5. CASE kind = "threaded"
  <2>1. Reported = {}
    BY <1>5 DEF Reported, In
  <2>2. /\ numClients' = numClients - Cardinality(Reaped) - 0
        /\ joined' = joined + Cardinality(Reaped)
    BY <1>5, <2>1, NoneCounted DEF PurgeCompleted
  <2>3. numClients = -joined
    BY <1>5 DEF CountsExplained
  <2>4. numClients' = -joined'
    BY <1>2, <2>2, <2>3 DEF ServerTypeOK
  <2> QED
    BY <1>5, <2>4 DEF CountsExplained, LimitKept
<1> QED
  BY <1>4, <1>5 DEF ServerTypeOK

-----------------------------------------------------------------------------
(* The initial state. *)

LEMMA ServerInvInit == ServerInit => ServerInv
<1> SUFFICES ASSUME ServerInit PROVE ServerInv
  OBVIOUS
<1>1. In({"asking"}) = {} /\ Children = {} /\ In({"stopped", "held"}) = {}
  BY DEF ServerInit, In, Children
<1>2. ServerTypeOK
  <2>1. Cardinality(socket) <= 1 /\ socket \subseteq Clients
    BY NoneCounted DEF ServerInit
  <2>2. backlog \in Seq(Clients) /\ 0 \in 0 .. TooQuiet
    BY TooQuietType DEF ServerInit
  <2>3. client \in [Clients -> States] /\ quits \in [Clients -> BOOLEAN]
    BY DEF ServerInit, States
  <2>4. /\ kind \in Kinds /\ place = "wait" /\ numClients = 0 /\ quiet = 0
        /\ failedForks = 0 /\ joined = 0 /\ stops = 0 /\ signals = 0
    BY DEF ServerInit
  <2>5. doShutdown \in BOOLEAN
    BY DEF ServerInit
  <2> QED
    BY <2>1, <2>2, <2>3, <2>4, <2>5 DEF ServerTypeOK
<1>3. CountsExplained /\ LimitKept
  <2>1. Cardinality(Children) = 0
    BY <1>1, NoneCounted
  <2>2. numClients = 0 /\ failedForks = 0 /\ joined = 0 /\ stops = 0
    BY DEF ServerInit
  <2>3. joined \in Int /\ joined <= 0 /\ joined >= 0 /\ numClients = joined
    BY <2>2
  <2>4. numClients = -joined
    BY <2>3
  <2>5. numClients = Cardinality(Children) + failedForks - stops
    BY <2>1, <2>2
  <2>6. CountsExplained
    BY <2>4, <2>5 DEF CountsExplained
  <2>7. LimitKept
    BY <2>1, <2>2 DEF LimitKept
  <2> QED
    BY <2>6, <2>7
<1>4. ConnectionsOK
  BY <1>1 DEF ServerInit, ConnectionsOK, ToSet, IsInjective
<1>5. ExitOK /\ LeavesOnlyIfTold
  BY DEF ServerInit, ExitOK, LeavesOnlyIfTold
<1> QED
  BY <1>1, <1>2, <1>3, <1>4, <1>5 DEF ServerInv

-----------------------------------------------------------------------------
(* The clients and their children. *)

LEMMA ConnectKeeps ==
  ASSUME ServerInv, NEW c \in Clients, Connect(c)
  PROVE  ServerInv'
<1> USE DEF Connect, ServerInv, boss, history
<1>1. client \in [Clients -> States] /\ backlog \in Seq(Clients)
  BY DEF ServerTypeOK
<1>2. /\ Children' = Children
      /\ In({"stopped", "held"})' = In({"stopped", "held"})
      /\ In({"asking"})' = In({"asking"}) \cup {c} /\ c \notin In({"asking"})
  BY <1>1 DEF Children, In
<1>3. ServerTypeOK'
  BY <1>1, Appended DEF ServerTypeOK, States
<1>4. CountsExplained' /\ LimitKept'
  BY <1>2, CountsKept
<1>5. ConnectionsOK'
  BY <1>1, <1>2, Appended DEF ConnectionsOK
<1>6. ExitOK' /\ LeavesOnlyIfTold'
  BY DEF ExitOK, LeavesOnlyIfTold
<1> QED
  BY <1>2, <1>3, <1>4, <1>5, <1>6

(* A child changes its state, and its server is where it was. *)
LEMMA ChildStep ==
  ASSUME ServerInv, NEW c \in Clients,
         ServeClient(c) \/ StopChild(c) \/ ContinueChild(c)
  PROVE  ServerInv'
<1>1. /\ client \in [Clients -> States]
      /\ UNCHANGED <<kind, place, socket, numClients, quiet, backlog, quits,
                     failedForks, joined, stops>>
      /\ doShutdown => doShutdown'
      /\ doShutdown' \in BOOLEAN /\ signals' \in Nat
  BY DEF ServerInv, ServerTypeOK, ServeClient, StopChild, ContinueChild, boss,
         history
<1>2. \E s \in {"serving", "stopped", "done"} :
        /\ client' = [client EXCEPT ![c] = s]
        /\ s = "stopped" => kind = "process"
  BY DEF ServeClient, StopChild, ContinueChild
<1>3. client[c] \in {"serving", "stopped", "held"}
  BY DEF ServeClient, StopChild, ContinueChild
<1>4. /\ Children' = Children
      /\ In({"asking"})' = In({"asking"})
      /\ kind = "threaded" /\ In({"stopped", "held"}) = {}
           => In({"stopped", "held"})' = {}
  BY <1>1, <1>2, <1>3 DEF Children, In
<1>5. ServerTypeOK'
  BY <1>1, <1>2 DEF ServerInv, ServerTypeOK, States, TooQuiet
<1>6. CountsExplained' /\ LimitKept'
  BY <1>1, <1>4, CountsKept DEF ServerInv
<1>7. ConnectionsOK' /\ ExitOK' /\ LeavesOnlyIfTold'
  BY <1>1, <1>4 DEF ServerInv, ConnectionsOK, ExitOK, LeavesOnlyIfTold
<1> QED
  BY <1>1, <1>4, <1>5, <1>6, <1>7 DEF ServerInv

LEMMA TickKeeps ==
  ASSUME ServerInv, Tick
  PROVE  ServerInv'
<1> USE DEF Tick, ServerInv, history
<1>1. Children' = Children /\ In({"asking"})' = In({"asking"})
      /\ In({"stopped", "held"})' = In({"stopped", "held"})
  BY DEF Children, In
<1>2. quiet' \in 0 .. TooQuiet /\ quiet' > quiet
  BY TooQuietType DEF ServerTypeOK
<1>3. ServerTypeOK'
  BY <1>2 DEF ServerTypeOK, TooQuiet
<1>4. CountsExplained' /\ LimitKept'
  BY <1>1, CountsKept
<1>5. ConnectionsOK' /\ LeavesOnlyIfTold'
  BY <1>1 DEF ConnectionsOK, LeavesOnlyIfTold
<1>6. ExitOK'
  BY <1>2 DEF ExitOK, ServerTypeOK
<1> QED
  BY <1>1, <1>3, <1>4, <1>5, <1>6

-----------------------------------------------------------------------------
(* The boss. *)

LEMMA GetClientKeeps ==
  ASSUME ServerInv, GetClient
  PROVE  ServerInv'
<1> USE DEF GetClient, ServerInv, history, To
<1>1. Children' = Children /\ In({"asking"})' = In({"asking"})
      /\ In({"stopped", "held"})' = In({"stopped", "held"})
  BY DEF Children, In
<1>2. /\ Head(backlog) \in Clients /\ Tail(backlog) \in Seq(Clients)
      /\ ToSet(backlog) = ToSet(Tail(backlog)) \cup {Head(backlog)}
      /\ IsInjective(backlog) => /\ IsInjective(Tail(backlog))
                                 /\ Head(backlog) \notin ToSet(Tail(backlog))
  BY Taken DEF ServerTypeOK
<1>3. Cardinality(socket') = 1 /\ socket = {}
  BY FS_Singleton DEF ConnectionsOK
<1>4. ServerTypeOK'
  BY <1>2, <1>3, TooQuietType DEF ServerTypeOK, TooQuiet
<1>5. CountsExplained' /\ LimitKept'
  BY <1>1, CountsKept
<1>6. ConnectionsOK'
  BY <1>1, <1>2, <1>3 DEF ConnectionsOK
<1>7. ExitOK' /\ LeavesOnlyIfTold'
  BY DEF ExitOK, LeavesOnlyIfTold
<1> QED
  BY <1>1, <1>4, <1>5, <1>6, <1>7

LEMMA TimedOutKeeps ==
  ASSUME ServerInv, TimedOut
  PROVE  ServerInv'
<1> USE DEF TimedOut, ServerInv, history, To
<1>1. Children' = Children /\ In({"asking"})' = In({"asking"})
      /\ In({"stopped", "held"})' = In({"stopped", "held"})
  BY DEF Children, In
<1>2. ServerTypeOK'
  BY DEF ServerTypeOK, TooQuiet
<1>3. CountsExplained' /\ LimitKept'
  BY <1>1, CountsKept
<1>4. ConnectionsOK' /\ ExitOK' /\ LeavesOnlyIfTold'
  BY <1>1 DEF ConnectionsOK, ExitOK, LeavesOnlyIfTold
<1> QED
  BY <1>1, <1>2, <1>3, <1>4

(* The boss has done with the connection in its hands: its client, who was   *)
(* asking, is away or served.                                                *)
LEMMA Left ==
  ASSUME ServerInv, place = "got", NEW s \in {"away", "serving"}, LeaveTo(s),
         backlog' = backlog, place' # "got"
  PROVE  /\ client' \in [Clients -> States]
         /\ socket' = {} /\ Cardinality(socket') = 0
         /\ ConnectionsOK'
         /\ In({"stopped", "held"})' = In({"stopped", "held"})
         /\ s = "away" => Children' = Children
         /\ s = "serving" => \E c \in Clients : /\ Children' = Children \cup {c}
                                               /\ c \notin Children
<1> USE DEF LeaveTo
<1>1. client' = [c \in Clients |-> IF c \in socket THEN s ELSE client[c]]
      /\ socket' = {} /\ client \in [Clients -> States]
  BY DEF ServerInv, ServerTypeOK
<1>2. /\ socket \subseteq In({"asking"}) /\ socket # {}
      /\ In({"asking"}) = ToSet(backlog) \cup socket
      /\ ToSet(backlog) \cap socket = {} /\ IsInjective(backlog)
  BY DEF ServerInv, ConnectionsOK
<1>3. client' \in [Clients -> States]
  BY <1>1 DEF States
<1>4. In({"asking"})' = In({"asking"}) \ socket
  BY <1>1, <1>2 DEF In
<1>5. ConnectionsOK'
  BY <1>1, <1>2, <1>4 DEF ConnectionsOK
<1>6. In({"stopped", "held"})' = In({"stopped", "held"})
  BY <1>1, <1>2 DEF In
<1>7. s = "away" => Children' = Children
  BY <1>1, <1>2 DEF In, Children
<1>8. ASSUME s = "serving"
      PROVE  \E c \in Clients : Children' = Children \cup {c} /\ c \notin Children
  <2>1. PICK c \in Clients : socket = {c}
    BY <1>2, OneConnection DEF ServerInv
  <2>2. client[c] = "asking"
    BY <1>2, <2>1 DEF In
  <2>3. Children' = Children \cup {c} /\ c \notin Children
    BY <1>1, <1>8, <2>1, <2>2 DEF In, Children
  <2> QED
    BY <2>3
<1> QED
  BY <1>1, <1>3, <1>5, <1>6, <1>7, <1>8, NoneCounted

LEMMA DenyKeeps ==
  ASSUME ServerInv, Deny
  PROVE  ServerInv'
<1>1. /\ place = "got" /\ LeaveTo("away") /\ place' = "wait"
      /\ UNCHANGED <<kind, numClients, doShutdown, quiet, backlog, quits,
                     failedForks, joined, stops, signals>>
  BY DEF Deny, To, history
<1>2. /\ client' \in [Clients -> States]
      /\ socket' = {} /\ Cardinality(socket') = 0
      /\ ConnectionsOK' /\ Children' = Children
      /\ In({"stopped", "held"})' = In({"stopped", "held"})
  BY <1>1, Left
<1>3. ServerTypeOK'
  BY <1>1, <1>2 DEF ServerInv, ServerTypeOK, TooQuiet
<1>4. CountsExplained' /\ LimitKept'
  BY <1>1, <1>2, CountsKept DEF ServerInv
<1>5. ExitOK' /\ LeavesOnlyIfTold'
  BY <1>1 DEF ExitOK, LeavesOnlyIfTold
<1> QED
  BY <1>1, <1>2, <1>3, <1>4, <1>5 DEF ServerInv

LEMMA SpawnKeeps ==
  ASSUME ServerInv, Spawn
  PROVE  ServerInv'
<1>1. /\ place = "got" /\ LeaveTo("serving") /\ place' = "check"
      /\ UNCHANGED <<kind, doShutdown, quiet, backlog, quits,
                     failedForks, joined, stops, signals>>
      /\ numClients' = IF kind = "process" THEN numClients + 1 ELSE numClients
      /\ ~TooMany
  BY DEF Spawn, To, history
<1>2. /\ client' \in [Clients -> States]
      /\ socket' = {} /\ Cardinality(socket') = 0
      /\ ConnectionsOK'
      /\ In({"stopped", "held"})' = In({"stopped", "held"})
  BY <1>1, Left
<1>3. PICK c \in Clients : Children' = Children \cup {c} /\ c \notin Children
  BY <1>1, Left
<1>4. Cardinality(Children') = Cardinality(Children) + 1
      /\ Cardinality(Children) \in Nat
  BY <1>3, OneMore, InFinite DEF Children, In
<1>5. ServerTypeOK'
  BY <1>1, <1>2 DEF ServerInv, ServerTypeOK, TooQuiet
<1>6. failedForks \in Nat /\ stops \in Nat /\ joined \in Nat
  BY DEF ServerInv, ServerTypeOK
<1>7. ASSUME kind = "process" PROVE CountsExplained' /\ LimitKept'
  <2>1. numClients = Cardinality(Children) + failedForks - stops
    BY <1>7 DEF ServerInv, CountsExplained
  <2>2. numClients' = Cardinality(Children') + failedForks' - stops'
    BY <1>1, <1>4, <1>6, <1>7, <2>1
  <2>3. MaxClients >= 0 => numClients < MaxClients
    BY <1>1, <1>4, <1>6, <2>1 DEF TooMany
  <2>4. MaxClients >= 0 => Cardinality(Children') <= MaxClients + stops'
    BY <1>1, <1>4, <1>6, <2>1, <2>3
  <2> QED
    BY <1>1, <1>7, <2>2, <2>4 DEF CountsExplained, LimitKept
<1>8. ASSUME kind # "process" PROVE CountsExplained' /\ LimitKept'
  BY <1>1, <1>8 DEF ServerInv, CountsExplained, LimitKept
<1>9. ExitOK' /\ LeavesOnlyIfTold'
  BY <1>1 DEF ExitOK, LeavesOnlyIfTold
<1>10. CountsExplained' /\ LimitKept'
  BY <1>7, <1>8
<1> QED
  BY <1>1, <1>2, <1>5, <1>9, <1>10 DEF ServerInv

LEMMA SpawnFailsKeeps ==
  ASSUME ServerInv, SpawnFails
  PROVE  ServerInv'
<1>1. /\ place = "got" /\ LeaveTo("away") /\ place' = "check"
      /\ UNCHANGED <<kind, doShutdown, quiet, backlog, quits, joined, stops,
                     signals>>
      /\ numClients' = IF kind = "process" THEN numClients + 1 ELSE numClients
      /\ failedForks' = failedForks + 1
  BY DEF SpawnFails, To
<1>2. /\ client' \in [Clients -> States]
      /\ socket' = {} /\ Cardinality(socket') = 0
      /\ ConnectionsOK' /\ Children' = Children
      /\ In({"stopped", "held"})' = In({"stopped", "held"})
  BY <1>1, Left
<1>3. /\ Cardinality(Children) \in Nat
      /\ failedForks \in Nat /\ stops \in Nat /\ joined \in Nat
  BY InFinite DEF Children, In, ServerInv, ServerTypeOK
<1>4. ServerTypeOK'
  BY <1>1, <1>2 DEF ServerInv, ServerTypeOK, TooQuiet
<1>5. LimitKept'
  BY <1>1, <1>2 DEF ServerInv, LimitKept
<1>6. CountsExplained'
  BY <1>1, <1>2, <1>3 DEF ServerInv, CountsExplained
<1>7. ExitOK' /\ LeavesOnlyIfTold'
  BY <1>1 DEF ExitOK, LeavesOnlyIfTold
<1> QED
  BY <1>1, <1>2, <1>4, <1>5, <1>6, <1>7 DEF ServerInv

(* A purge keeps all but what depends on where the boss goes next.           *)
LEMMA PurgeKeeps ==
  ASSUME ServerInv, PurgeCompleted, place # "got", place' \in {"exit", "wait", "gone"},
         UNCHANGED <<kind, socket, backlog, quits, failedForks, signals>>
  PROVE  /\ ServerTypeOK' /\ CountsExplained' /\ LimitKept' /\ ConnectionsOK'
         /\ kind' = "threaded" => In({"stopped", "held"})' = {}
<1>1. ServerTypeOK'
  BY Purged, PurgedTypes DEF ServerInv, ServerTypeOK, TooQuiet
<1>2. CountsExplained' /\ LimitKept'
  BY PurgedCounts DEF ServerInv
<1>3. ConnectionsOK' /\ (kind' = "threaded" => In({"stopped", "held"})' = {})
  BY Purged DEF ServerInv, ConnectionsOK
<1> QED
  BY <1>1, <1>2, <1>3

LEMMA CheckKeeps ==
  ASSUME ServerInv, Check
  PROVE  ServerInv'
<1>1. /\ place = "check"
      /\ UNCHANGED <<kind, socket, backlog, quits, failedForks, signals>>
  BY DEF Check
<1>2. CASE doShutdown
  <2>1. place' = "gone" /\ UNCHANGED <<client, doShutdown, numClients, quiet,
                                      joined, stops>>
    BY <1>2 DEF Check, To
  <2>2. Children' = Children /\ In({"asking"})' = In({"asking"})
        /\ In({"stopped", "held"})' = In({"stopped", "held"})
    BY <2>1 DEF Children, In
  <2>3. ServerTypeOK'
    BY <1>1, <2>1 DEF ServerInv, ServerTypeOK, TooQuiet
  <2>4. CountsExplained' /\ LimitKept'
    BY <1>1, <2>1, <2>2, CountsKept DEF ServerInv
  <2>5. ConnectionsOK' /\ ExitOK' /\ LeavesOnlyIfTold'
    BY <1>1, <1>2, <2>1, <2>2
       DEF ServerInv, ConnectionsOK, ExitOK, LeavesOnlyIfTold
  <2> QED
    BY <1>1, <2>2, <2>3, <2>4, <2>5 DEF ServerInv
<1>3. CASE ~doShutdown
  <2>1. PurgeCompleted /\ place' = IF Quiescent' THEN "exit" ELSE "wait"
    BY <1>3 DEF Check, To
  <2>2. /\ ServerTypeOK' /\ CountsExplained' /\ LimitKept' /\ ConnectionsOK'
        /\ kind' = "threaded" => In({"stopped", "held"})' = {}
    BY <1>1, <2>1, PurgeKeeps
  <2>3. ExitOK' /\ LeavesOnlyIfTold'
    BY <2>1 DEF ExitOK, LeavesOnlyIfTold, Quiescent
  <2> QED
    BY <2>2, <2>3 DEF ServerInv
<1> QED
  BY <1>2, <1>3

(* When exitMethod finds that the server is not quiescent any more though    *)
(* nothing was counted before, it has counted a stopped child as gone.       *)
LEMMA ExitMethodKeeps ==
  ASSUME ServerInv, ExitMethod
  PROVE  ServerInv'
<1>1. /\ place = "exit" /\ PurgeCompleted
      /\ place' = IF Quiescent' THEN "wait" ELSE "gone"
      /\ UNCHANGED <<kind, socket, backlog, quits, failedForks, signals>>
  BY DEF ExitMethod, To
<1>2. /\ ServerTypeOK' /\ CountsExplained' /\ LimitKept' /\ ConnectionsOK'
      /\ kind' = "threaded" => In({"stopped", "held"})' = {}
  BY <1>1, PurgeKeeps
<1>3. ExitOK'
  BY <1>1 DEF ExitOK
<1>4. MaxQuiescentSecs >= 0 /\ numClients <= 0 /\ quiet > MaxQuiescentSecs
  BY <1>1 DEF ServerInv, ExitOK
<1>5. ASSUME kind = "process", stops' = 0 PROVE Quiescent'
  <2>1. Reaped \in SUBSET Children /\ Children \in SUBSET Clients
        /\ Reported \in SUBSET Clients
    BY DEF Reaped, Reported, Children, In
  <2>2. /\ Cardinality(Children) \in Nat /\ Cardinality(Reaped) \in Nat
        /\ Cardinality(Reported) \in Nat
        /\ stops \in Nat /\ failedForks \in Nat
        /\ stops' = stops + Cardinality(Reported)
    BY <1>1, <2>1, InFinite DEF ServerInv, ServerTypeOK, PurgeCompleted
  <2>3. Cardinality(Reported) = 0 /\ stops = 0
    BY <1>5, <2>2
  <2>4. Reported = {}
    BY <2>1, <2>3, InFinite, FS_EmptySet
  <2>5. numClients = Cardinality(Children) + failedForks - stops
    BY <1>5 DEF ServerInv, CountsExplained
  <2>6. Cardinality(Children) = 0
    BY <1>4, <2>2, <2>3, <2>5
  <2>7. Reaped = {}
    BY <2>1, <2>6, InFinite, FS_EmptySet
  <2>8. quiet' = quiet /\ numClients' = numClients - 0 - 0
    BY <1>1, <2>4, <2>7, NoneCounted DEF PurgeCompleted
  <2>9. numClients \in Int
    BY DEF ServerInv, ServerTypeOK
  <2> QED
    BY <1>4, <2>8, <2>9 DEF Quiescent
<1>6. LeavesOnlyIfTold'
  BY <1>1, <1>5 DEF LeavesOnlyIfTold
<1> QED
  BY <1>2, <1>3, <1>6 DEF ServerInv

LEMMA ServerInvStep == ServerInv /\ [ServerNext]_svars => ServerInv'
<1> SUFFICES ASSUME ServerInv, [ServerNext]_svars PROVE ServerInv'
  OBVIOUS
<1>1. CASE UNCHANGED svars
  <2>1. UNCHANGED <<kind, place, socket, numClients, doShutdown, quiet, backlog,
                    client, quits, failedForks, joined, stops, signals>>
    BY <1>1 DEF svars, boss, history
  <2>2. Children' = Children /\ In({"asking"})' = In({"asking"})
        /\ In({"stopped", "held"})' = In({"stopped", "held"})
    BY <2>1 DEF Children, In
  <2>3. ServerTypeOK'
    BY <2>1 DEF ServerInv, ServerTypeOK, TooQuiet
  <2>4. CountsExplained' /\ LimitKept'
    BY <2>1, <2>2, CountsKept DEF ServerInv
  <2>5. ConnectionsOK' /\ ExitOK' /\ LeavesOnlyIfTold'
    BY <2>1, <2>2 DEF ServerInv, ConnectionsOK, ExitOK, LeavesOnlyIfTold
  <2> QED
    BY <2>1, <2>2, <2>3, <2>4, <2>5 DEF ServerInv
<1>2. CASE ServerNext
  <2>1. ASSUME NEW c \in Clients,
               Connect(c) \/ ServeClient(c) \/ StopChild(c) \/ ContinueChild(c)
        PROVE  ServerInv'
    BY <2>1, ConnectKeeps, ChildStep
  <2>2. CASE Tick
    BY <2>2, TickKeeps
  <2>3. CASE Boss
    BY <2>3, GetClientKeeps, TimedOutKeeps, DenyKeeps, SpawnKeeps,
       SpawnFailsKeeps, CheckKeeps, ExitMethodKeeps DEF Boss
  <2>4. CASE Gone
    BY <1>1, <2>4 DEF Gone
  <2> QED
    BY <1>2, <2>1, <2>2, <2>3, <2>4 DEF ServerNext
<1> QED
  BY <1>1, <1>2

(* The inductive invariant of the servers: the counts, the connections and   *)
(* the two ways to leave.                                                    *)
THEOREM ServerInvariant == ServerSpec => []ServerInv
<1>1. QED
  BY ServerInvInit, ServerInvStep, PTL DEF ServerSpec

(* A process server counts the clients it is handling, until a fork fails or *)
(* a child is stopped.                                                       *)
THEOREM ServerCounts == ServerSpec => []ClientsCounted
<1>1. ServerInv => ClientsCounted
  <2> SUFFICES ASSUME ServerInv, kind = "process", failedForks = 0, stops = 0
               PROVE  numClients = Cardinality(Children)
    BY DEF ClientsCounted
  <2>1. Cardinality(Children) \in Nat
    BY InFinite DEF Children, In
  <2> QED
    BY <2>1 DEF ServerInv, CountsExplained
<1> QED
  BY <1>1, ServerInvariant, PTL

(* A process server keeps its limit, but for stopped children.               *)
THEOREM ServerLimit == ServerSpec => []LimitKept
<1>1. ServerInv => LimitKept
  BY DEF ServerInv
<1> QED
  BY <1>1, ServerInvariant, PTL

(* A process server leaves only if it is told to: its quiescence never makes *)
(* it leave, unless a child was stopped.                                     *)
THEOREM ServerLeaves == ServerSpec => []LeavesOnlyIfTold
<1>1. ServerInv => LeavesOnlyIfTold
  BY DEF ServerInv
<1> QED
  BY <1>1, ServerInvariant, PTL
=============================================================================
