----------------------------- MODULE PolledWork -----------------------------
(* What a polling queue promises: workers work over and over; each call      *)
(* returns the result of one that has finished since its last result was     *)
(* handed over, and that worker goes back to work; no result is handed over  *)
(* twice or lost; and every call returns.                                    *)
EXTENDS Naturals

CONSTANT NumThreads

VARIABLES work, caller
wvars == <<work, caller>>

Workers == 1 .. NumThreads

WorkInit ==
  /\ work = [t \in Workers |-> "idle"]
  /\ caller = "out"

Begin(t) ==
  /\ work[t] = "idle"
  /\ work' = [work EXCEPT ![t] = "working"]
  /\ UNCHANGED caller

Finish(t) ==
  /\ work[t] = "working"
  /\ work' = [work EXCEPT ![t] = "finished"]
  /\ UNCHANGED caller

Ask ==
  /\ caller = "out"
  /\ caller' = "in"
  /\ UNCHANGED work

Report(t) ==
  /\ caller = "in"
  /\ work[t] = "finished"
  /\ work' = [work EXCEPT ![t] = "working"]
  /\ caller' = "out"

(* The caller gives the queue up; the workers may stop where they are.       *)
Close ==
  /\ caller = "out"
  /\ caller' = "closed"
  /\ UNCHANGED work

WorkNext == \/ \E t \in Workers : Begin(t) \/ Finish(t) \/ Report(t)
            \/ Ask \/ Close

WorkSpec ==
  /\ WorkInit /\ [][WorkNext]_wvars
  /\ \A t \in Workers : WF_wvars(caller # "closed" /\ Finish(t))
  /\ WF_wvars(\E t \in Workers : Report(t))
=============================================================================
