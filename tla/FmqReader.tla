----------------------------- MODULE FmqReader ------------------------------
(* Readers of a file message queue, running beside the writers of FmqQueue   *)
(* without taking the lock (Fmq::_open_rdonly, _seek_start, _seek_end,       *)
(* _read_next, _read_msg_for_slot, _read_msg, _update_last_id_read).  One    *)
(* action per device access; between two of them the writers may do          *)
(* anything.                                                                 *)
EXTENDS FmqQueue

CONSTANTS Readers,
          OpenAt            \* positions readers open at: "START", "END"

ASSUME ReadersAssumption == OpenAt \subseteq {"START", "END"}

VARIABLES
  rd,       \* per reader: its Fmq object
  last      \* history, per reader: the serial it is positioned after, and
            \* how the latest message handed to the caller looked

rvars == <<vars, rd, last>>

(* A slot number of -1 passes the range checks of _read_slot: the ten words  *)
(* before the table, the tail of the stat struct, are taken for a slot.  Its *)
(* active field is then nslots, its id buf_size, and no entry matches it.    *)
PhantomId   == MaxId
PhantomSlot == [active |-> TRUE, id |-> PhantomId, len |-> 0, offset |-> 0]

NoDelivery == [ser |-> 0, whole |-> TRUE, ahead |-> FALSE, n |-> 0]

(* The object: the stage of the call it is in ("closed", "seekEnd", "ready", *)
(* "next", "nextMsg", "youngest", "youngestMsg", "update"), _stat,           *)
(* _lastIdRead, _lastSlotRead and the copy of the slot read last.            *)
Closed == [stage |-> "closed", st |-> InitStat, lastId |-> Unset,
           lastSlot |-> Unset, copy |-> EmptySlot]

ReaderInit ==
  /\ Init
  /\ rd = [r \in Readers |-> Closed]
  /\ last = [r \in Readers |-> NoDelivery]

-----------------------------------------------------------------------------
(* Locals that are dead between two calls are reset to keep states few. *)
Ready(r, lastId, lastSlot) ==
  rd' = [rd EXCEPT ![r] = [stage |-> "ready", st |-> InitStat,
                           lastId |-> lastId, lastSlot |-> lastSlot,
                           copy |-> EmptySlot]]

(* init with START: stat is read, the position is one before the oldest slot *)
(* of that copy, which for an empty queue is slot -2.                        *)
OpenAtStart(r) ==
  /\ rd[r].stage = "closed"
  /\ "START" \in OpenAt
  /\ Ready(r, Unset, PrevSlot(stat.oldestSlot))
  /\ UNCHANGED <<vars, last>>

(* init with END: stat is read first, the slot table again afterwards. *)
OpenAtEnd(r) ==
  /\ rd[r].stage = "closed"
  /\ "END" \in OpenAt
  /\ rd' = [rd EXCEPT ![r].stage = "seekEnd", ![r].st = stat,
                      ![r].lastSlot = PrevSlot(stat.oldestSlot)]
  /\ UNCHANGED <<vars, last>>

(* _find_slot_for_id over a fresh copy of the table; -1 if it is not there. *)
SlotHolding(id) ==
  LET with == {s \in Slots : slots[s].id = id}
  IN  IF with = {} THEN Unset
      ELSE CHOOSE s \in with : \A t \in with : s <= t

(* The caller hears nothing of a failed update and the position is kept.     *)
Positioned(r, lastId, lastSlot) ==
  IF rd[r].st.blockingWrite
  THEN rd' = [rd EXCEPT ![r].stage = "update", ![r].lastId = lastId,
                        ![r].lastSlot = lastSlot, ![r].copy = EmptySlot]
  ELSE Ready(r, lastId, lastSlot)

(* History: the serial of the latest entry written for this id. *)
SerialOf(id) ==
  LET with == {k \in 1 .. Len(log) : log[k].id = id}
  IN  CHOOSE k \in with : \A j \in with : j <= k

SeekEnd(r) ==
  /\ rd[r].stage = "seekEnd"
  /\ LET id == rd[r].st.youngestId
     IN  \/ /\ id = Unset
            /\ Positioned(r, Unset, Unset)
            /\ UNCHANGED last
         \/ /\ id # Unset
            /\ SlotHolding(id) # Unset
            /\ Positioned(r, id, SlotHolding(id))
            /\ last' = [last EXCEPT ![r].ser = SerialOf(id)]
         \/ /\ id # Unset                  \* already overwritten: init fails
            /\ SlotHolding(id) = Unset
            /\ rd' = [rd EXCEPT ![r] = Closed]
            /\ UNCHANGED last
  /\ UNCHANGED vars

-----------------------------------------------------------------------------
(* _read_next: read stat; nothing written yet, nothing new, or look at the   *)
(* slot after the last one read.                                             *)
PollStat(r) ==
  /\ rd[r].stage = "ready"
  /\ \/ /\ stat.youngestId = Unset
        /\ Ready(r, Unset, Unset)
     \/ /\ stat.youngestId # Unset
        /\ stat.youngestId = rd[r].lastId
        /\ UNCHANGED rd
     \/ /\ stat.youngestId # Unset
        /\ stat.youngestId # rd[r].lastId
        /\ rd' = [rd EXCEPT ![r].stage = "next", ![r].st = stat]
  /\ UNCHANGED <<vars, last>>

(* A slip: the youngest slot is all that is ever looked at. *)
Target_Youngest(r) == rd[r].st.youngestSlot

(* The slot asked for: next logical slot first, then the youngest. *)
Target(r) == IF rd[r].stage \in {"next", "nextMsg"}
             THEN NextSlot(rd[r].lastSlot) ELSE rd[r].st.youngestSlot

SlotAt(s) == IF s \in Slots THEN slots[s] ELSE PhantomSlot

(* A slip: the position survives a failed read. *)
GiveUp_KeepsPosition(r, lastId) ==
  IF rd[r].stage \in {"next", "nextMsg"}
  THEN rd' = [rd EXCEPT ![r].stage = "youngest", ![r].copy = EmptySlot]
  ELSE Ready(r, rd[r].lastId, rd[r].lastSlot)

(* _read_msg_for_slot gives up: the first time _read_next turns to the       *)
(* youngest slot, the second time it returns an error to the caller.         *)
GiveUp(r, lastId) ==
  IF rd[r].stage \in {"next", "nextMsg"}
  THEN rd' = [rd EXCEPT ![r].stage = "youngest", ![r].lastId = lastId,
                        ![r].lastSlot = Target(r), ![r].copy = EmptySlot]
  ELSE Ready(r, lastId, Target(r))

(* A slip: the id of the slot is not compared. *)
Follows_AnyId(r, slot) == slot.active

(* The slot is in use and follows the last message read, or any will do. *)
Follows(r, slot) ==
  /\ slot.active
  /\ rd[r].lastId = Unset \/ PrevId(slot.id) = rd[r].lastId

ReadSlot(r) ==
  /\ rd[r].stage \in {"next", "youngest"}
  /\ LET slot == SlotAt(Target(r))
     IN  \/ /\ Follows(r, slot)
            /\ rd' = [rd EXCEPT ![r].copy = slot, ![r].stage =
                        IF rd[r].stage = "next" THEN "nextMsg"
                                                ELSE "youngestMsg"]
         \/ /\ ~Follows(r, slot)
            /\ GiveUp(r, Unset)
  /\ UNCHANGED <<vars, last>>

(* What _read_msg verifies of the entry it has read: the cookie in the first *)
(* word and the id in the last.  A slot number that differs is only logged.  *)
EntryChecks(slot) ==
  /\ slot.len > 0
  /\ buf[slot.offset].word = 1
  /\ LET end == buf[slot.offset + slot.len - 1]
     IN  /\ end.ser # 0
         /\ end.word = log[end.ser].len
         /\ log[end.ser].id = slot.id

(* The id is none of the NSlots ids that end with the youngest of this stat. *)
BeyondStat(s, id) ==
  \A d \in 0 .. NSlots - 1 : id # (s.youngestId - d) % MaxId

(* The caller gets the words between: whole when all are of one entry. *)
Deliver(r, slot) ==
  LET k == buf[slot.offset + slot.len - 1].ser
  IN  last' = [last EXCEPT ![r] =
        [ser |-> k, n |-> 1 - last[r].n,
         whole |-> \A w \in 1 .. slot.len :
                     buf[slot.offset + w - 1] = [ser |-> k, word |-> w],
         ahead |-> BeyondStat(rd[r].st, slot.id)]]

ReadMsg(r) ==
  /\ rd[r].stage \in {"nextMsg", "youngestMsg"}
  /\ LET slot == rd[r].copy
     IN  \/ /\ EntryChecks(slot)
            /\ Deliver(r, slot)
            /\ Positioned(r, slot.id, Target(r))
         \/ /\ ~EntryChecks(slot)
            /\ GiveUp(r, slot.id)
            /\ UNCHANGED last
  /\ UNCHANGED vars

(* A slip: the writer is not told what was read. *)
UpdateLastIdRead_Skipped(r) ==
  /\ rd[r].stage = "update"
  /\ Ready(r, rd[r].lastId, rd[r].lastSlot)
  /\ UNCHANGED <<vars, last>>

(* Blocking mode: last_id_read alone is written into stat, without the lock. *)
UpdateLastIdRead(r) ==
  /\ rd[r].stage = "update"
  /\ ReaderReports(rd[r].lastId)
  /\ Ready(r, rd[r].lastId, rd[r].lastSlot)
  /\ UNCHANGED last

-----------------------------------------------------------------------------
ReaderStep(r) ==
  \/ SeekEnd(r) \/ PollStat(r) \/ ReadSlot(r) \/ ReadMsg(r)
  \/ UpdateLastIdRead(r)

ReaderNext ==
  \/ WriterNext /\ UNCHANGED <<rd, last>>
  \/ \E r \in Readers : OpenAtStart(r) \/ OpenAtEnd(r) \/ ReaderStep(r)

ReaderSpec == ReaderInit /\ [][ReaderNext]_rvars

WriterStep == HolderStep /\ UNCHANGED <<rd, last>>
Waking     == (\E p \in Writers : WakeUp(p)) /\ UNCHANGED <<rd, last>>

(* The lock holder, a sleeping writer and a polling reader keep running. *)
ReaderFairSpec ==
  /\ ReaderSpec
  /\ WF_rvars(WriterStep)
  /\ WF_rvars(Waking)
  /\ \A r \in Readers : WF_rvars(ReaderStep(r))
-----------------------------------------------------------------------------
Delivered(r) == last'[r].n # last[r].n

(* The one way out of order: the reader was handed a message that a writer   *)
(* had put in its slot but not yet in the stat this call had read.  It may   *)
(* then be handed that message again, or the one before it; never an older   *)
(* one, and never after a message that stat did publish.                     *)
InOrderUnlessAhead ==
  [][\A r \in Readers : Delivered(r) =>
       \/ last'[r].ser > last[r].ser
       \/ last[r].ahead /\ last'[r].ser >= last[r].ser - 1]_rvars

(* What a reader could rely on if it looked at the slot once more: an entry  *)
(* that passed the checks and whose slot still reads the same is whole,      *)
(* because a writer zeroes a slot before it reuses any of its words.         *)
WholeIfSlotUnchanged ==
  [][\A r \in Readers :
       Delivered(r) /\ SlotAt(Target(r)) = rd[r].copy => last'[r].whole]_rvars

Retained(k) == \E s \in Slots : slots[s].active /\ HoldsEntry(s, k)

(* A reader skips messages only after an overrun: when it is handed message  *)
(* k + n, n > 1, after message k, then k + 1 has been given up - or message *)
(* k was ahead of stat.                                                      *)
SkipsOnlyIfOverrun ==
  [][\A r \in Readers :
       Delivered(r) /\ last[r].ser # 0 /\ last'[r].ser > last[r].ser + 1
         => ~Retained(last[r].ser + 1) \/ last[r].ahead]_rvars

(* With blocking writes, one reader and a buffer that wraps after the ring,  *)
(* the queue is a bounded first-in, first-out channel: nothing is missed,    *)
(* nothing is handed over twice, and no unread message is overwritten.       *)
SentCount == IF stage \in {"entry", "slot", "stat"} THEN Len(log) - 1
                                                    ELSE Len(log)
Channel == INSTANCE FmqFifo WITH
  Users <- Readers, Capacity <- NSlots, sent <- SentCount,
  position <- [r \in Readers |-> IF rd[r].stage \in {"closed", "seekEnd"}
                                 THEN -1 ELSE last[r].ser]
FifoChannel == Channel!FifoSpec

(* A reader that keeps polling ends up at the youngest message once the      *)
(* writers fall silent, however often it was overrun.                        *)
CatchesUp ==
  \A r \in Readers :
    <>[](rd[r].stage = "closed" \/ rd[r].lastId = stat.youngestId)

(* A writer that went to sleep because the ring was full gets its message    *)
(* published as long as the reader is there, although the writer may have    *)
(* put a stale last_id_read back over the reader's update.                   *)
BlockedWriterPublishes ==
  \A p \in Writers, r \in Readers :
    waiting[p] # NoJob /\ rd[r].stage # "closed"
      ~> lock = p /\ stage = "stat"
=============================================================================
