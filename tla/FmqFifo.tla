------------------------------ MODULE FmqFifo -------------------------------
(* What a blocking message queue promises its users: a bounded first-in,     *)
(* first-out channel.  Messages are numbered from 1 in the order they are    *)
(* put; a reader joins at some position and gets every later message once,   *)
(* and the writer never gets more than Capacity messages ahead of it.        *)
EXTENDS Integers

CONSTANTS Users, Capacity

VARIABLES sent,       \* messages put so far
          position    \* per reader: number of the last message taken or
                      \* skipped by joining; Absent before it joins

Absent == -1

FifoInit == sent = 0 /\ position = [u \in Users |-> Absent]

Put ==
  /\ \A u \in Users : position[u] # Absent => sent - position[u] < Capacity
  /\ sent' = sent + 1
  /\ UNCHANGED position

Join(u) ==
  /\ position[u] = Absent
  /\ \E k \in 0 .. sent : position' = [position EXCEPT ![u] = k]
  /\ UNCHANGED sent

Get(u) ==
  /\ position[u] # Absent
  /\ position[u] < sent
  /\ position' = [position EXCEPT ![u] = @ + 1]
  /\ UNCHANGED sent

FifoNext == Put \/ \E u \in Users : Join(u) \/ Get(u)

FifoSpec == FifoInit /\ [][FifoNext]_<<sent, position>>
=============================================================================
