----------------------------- MODULE FmqOpenInv -----------------------------
(* The inductive invariant of the opening of a queue: what a check that      *)
(* nobody disturbs has found out so far, and who holds the lock.             *)
EXTENDS FmqOpen, FmqQueueInv

OpStages == {"closed", "table", "slot", "entry", "clear", "clearing", "seek",
             "update", "open"}
Opening  == [stage : OpStages, st : StatType, lastId : Ids \cup {Unset},
             table : [Slots -> SlotType], next : 0 .. NSlots, calm : BOOLEAN]

(* What CheckSlot and CheckEntry demand of a slot. *)
Checked(t) == /\ slots[t].active <=> InActiveRegion(stat, t)
              /\ slots[t].active => EntryReads(slots[t])

(* The lock is held by a process that has the queue open and writes, or that *)
(* re-initialises it; one that sleeps in the blocking-write loop has it open.*)
HolderOK ==
  /\ lock = Unset <=> stage = "idle"
  /\ lock # Unset => IF op[lock].stage = "clearing" THEN Reinitialising
                     ELSE op[lock].stage = "open"
  /\ \A p \in Writers : /\ op[p].stage = "clearing" => lock = p
                        /\ waiting[p] # NoJob => op[p].stage = "open"

(* A check begins with the first slot and reads entries of slots only. *)
PlaceOK(p) == /\ op[p].stage \in {"closed", "table"} => op[p].next = 0
              /\ op[p].stage = "entry" => op[p].next \in Slots

(* Nobody has written since p began to open: its copies are those on disk,   *)
(* and the slots it has passed are as they should be.                        *)
CalmOK(p) ==
  op[p].calm =>
    LET o == op[p]
    IN  /\ o.stage # "closed"
        /\ lock = Unset \/ o.stage = "clearing"
        /\ o.stage \in {"table", "slot", "entry", "seek"} => Agree(o.st, stat)
        /\ o.stage \in {"slot", "entry"} =>
             o.table = slots /\ \A t \in Slots : t < o.next => Checked(t)
        /\ o.stage = "entry" =>
             slots[o.next].active /\ InActiveRegion(stat, o.next)
        /\ o.stage \in {"seek", "update", "open"} => \A t \in Slots : Checked(t)

OpenInv ==
  /\ op \in [Writers -> Opening]
  /\ HolderOK
  /\ \A p \in Writers : PlaceOK(p) /\ CalmOK(p)

-----------------------------------------------------------------------------
(* Why the check leaves a sound queue alone, if the ring has two slots or    *)
(* more: the youngest slot, if in use, holds the youngest id, for no write   *)
(* goes there; and an object that is opening has not read before.            *)
YoungestOK ==
  IF stat.youngestSlot = Unset
  THEN stat.youngestId = Unset
  ELSE /\ stat.oldestSlot # Unset
       /\ slots[stat.youngestSlot].active =>
            slots[stat.youngestSlot].id = stat.youngestId

NewObject(p) == op[p].stage \in {"closed", "table", "slot", "entry"}
                  => op[p].lastId = Unset

KeptInv == YoungestOK /\ \A p \in Writers : NewObject(p)
=============================================================================
