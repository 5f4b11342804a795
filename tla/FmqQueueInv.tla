---------------------------- MODULE FmqQueueInv -----------------------------
(* Inductive invariants of the write side.  TypeInv makes TypeOK inductive;  *)
(* IInv strengthens PublishedNotOverwritten for writers that do not block    *)
(* and for a single writer that does, whatever dies and whatever is          *)
(* re-initialised half way.  Everything is about three things that may       *)
(* disagree after a failure: stat on disk, the lock holder's copy st, and    *)
(* the slot table.                                                           *)
EXTENDS FmqQueue

Writing == stage \in {"block", "ring", "pack", "fit", "entry", "slot", "stat"}
Storing == stage \in {"entry", "slot", "stat"}

(* Where the entry goes is free: in the append or in the insert region. *)
RoomAt(s, at, len) ==
  IF s.appendMode THEN at = s.beginAppend /\ at + len <= BufSize
                  ELSE at = s.beginInsert /\ at + len <= s.endInsert

RegionsOK(s) ==
  /\ s.beginInsert <= s.endInsert
  /\ s.endInsert <= s.beginAppend
  /\ s.oldestSlot = Unset => s.beginAppend = 0 /\ s.appendMode

TypeInv ==
  /\ TypeOK
  /\ RegionsOK(stat)
  /\ Writing => RegionsOK(st)
  /\ Writing => job \in Job
  /\ stage = "fit" => job.len <= BufSize
  /\ Storing => RoomAt(st, off, job.len)

-----------------------------------------------------------------------------
(* The one slot the disk status leaves to the next write. *)
WriteSlotOf(s) == NextSlot(s.youngestSlot)

(* The slots in use take up words of the buffer, each its own. *)
SlotsOK ==
  /\ \A t \in Slots :
       IF slots[t].active
       THEN slots[t].len > 0 /\ slots[t].offset + slots[t].len <= BufSize
       ELSE slots[t] = EmptySlot
  /\ \A t, u \in Slots : slots[t].active /\ slots[u].active /\ t # u =>
       \/ slots[t].offset + slots[t].len <= slots[u].offset
       \/ slots[u].offset + slots[u].len <= slots[t].offset

(* Slots other than the write slot lie outside the free regions of s. *)
Fits(s, w) ==
  \A t \in Slots : slots[t].active /\ t # w =>
    \/ slots[t].offset + slots[t].len <= s.beginInsert
    \/ /\ slots[t].offset >= s.endInsert
       /\ slots[t].offset + slots[t].len <= s.beginAppend

(* The words of slot t still belong to the entry it was written for, but for *)
(* those that a re-initialisation has put a mark over.                       *)
Marked(w) == w \in {0, BufSize - 1} /\ buf[w].ser = 0

Owned(t, k) ==
  /\ log[k].slot = t /\ log[k].id = slots[t].id
  /\ log[k].len = slots[t].len
  /\ \A i \in 1 .. log[k].len :
       LET w == slots[t].offset + i - 1
       IN  buf[w] = [ser |-> k, word |-> i] \/ Marked(w)

(* A record in the write slot that no status mentions may be anything. *)
Content ==
  \A t \in Slots :
    slots[t].active /\ (t = WriteSlotOf(stat) => stat.oldestSlot = t)
      => \E k \in 1 .. Len(log) : Owned(t, k)

(* What the two files hold, whoever writes or dies. *)
DeviceOK ==
  /\ SlotsOK
  /\ Fits(stat, WriteSlotOf(stat))
  /\ Content

(* All but what a reader may change in stat while a writer holds its copy. *)
Agree(s, t) ==
  /\ s.youngestId = t.youngestId
  /\ s.youngestSlot = t.youngestSlot /\ s.oldestSlot = t.oldestSlot
  /\ s.beginInsert = t.beginInsert /\ s.endInsert = t.endInsert
  /\ s.beginAppend = t.beginAppend /\ s.appendMode = t.appendMode

(* A sleeping writer still has the write slot, because nobody else writes.   *)
OneWriter == \A p, q \in Writers : p = q

WaitOK ==
  /\ stage # "idle" => \A p \in Writers : waiting[p] = NoJob
  /\ \A p \in Writers : waiting[p] # NoJob
                          => waiting[p].slot = WriteSlotOf(stat)
  /\ BlockingWrite = FALSE => /\ stage # "block"
                              /\ \A p \in Writers : waiting[p] = NoJob

(* The lock holder writes to the write slot, and has freed it if stat on     *)
(* disk still counts it among the published ones.                            *)
JobOK ==
  /\ Writing => job.slot = WriteSlotOf(stat)
  /\ stage \in {"block", "ring"} => Agree(st, stat)
  /\ stage \in {"pack", "fit", "entry", "slot"} /\ stat.oldestSlot = job.slot
       => ~slots[job.slot].active

EntryOK ==
  /\ Storing =>
       /\ Len(log) > 0
       /\ log[Len(log)] = [id |-> job.id, slot |-> job.slot, len |-> job.len]
       /\ done <= job.len
       /\ \A i \in 1 .. done :
            buf[off + i - 1] = [ser |-> Len(log), word |-> i]
  /\ stage \in {"slot", "stat"} => done = job.len
  /\ stage = "stat" => slots[job.slot] =
       [active |-> TRUE, id |-> job.id, len |-> job.len, offset |-> off]

ClearOK ==
  /\ stage = "clearSlots" => \A t \in Slots : t < done => ~slots[t].active
  /\ stage = "clearStat" => \A t \in Slots : ~slots[t].active

IInv ==
  /\ TypeInv
  /\ WaitOK
  /\ DeviceOK
  /\ Writing => Fits(st, WriteSlotOf(stat))
  /\ JobOK
  /\ EntryOK
  /\ ClearOK

-----------------------------------------------------------------------------
(* The ring, as long as nothing fails: RingInv strengthens ActiveAreaExact,  *)
(* NeverReinitialised and RetainsLatest.  The status that counts is the lock *)
(* holder's copy while it writes, and the newest entry kept is the one       *)
(* before the entry it is storing.                                           *)
Cur    == IF Writing THEN st ELSE stat
Newest == IF Storing THEN Len(log) - 1 ELSE Len(log)

Oldest(s)   == IF s.oldestSlot = Unset THEN 0 ELSE s.oldestSlot
Wrap(x)     == IF x < NSlots THEN x ELSE x - NSlots
Place(s, i) == Wrap(Oldest(s) + i)       \* of the message i after the oldest
EndOf(t)    == slots[t].offset + slots[t].len

Covers(t, w) == w >= slots[t].offset /\ w < EndOf(t)
Taken(s, w)  == \/ w < s.beginInsert
                \/ w >= s.endInsert /\ w < s.beginAppend

(* Of the n messages kept the m oldest lie in [endInsert, beginAppend) and   *)
(* the others in [0, beginInsert).                                           *)
Counts(s, n, m) ==
  /\ n <= Newest
  /\ m <= n
  /\ IF s.oldestSlot = Unset THEN n = 0 /\ s.youngestSlot = Unset
                             ELSE s.youngestSlot \in Slots
  /\ WriteSlotOf(s) = Place(s, n)
  /\ IF s.appendMode THEN m = n ELSE m > 0

(* Each message begins where the one before it ends, or at 0.                *)
Chained(s, n, m) ==
  /\ n = 0 => s.endInsert = 0 /\ s.beginAppend = 0
  /\ n > 0 => slots[Place(s, 0)].offset = s.endInsert
  /\ m > 0 => EndOf(Place(s, m - 1)) = s.beginAppend
  /\ s.beginInsert = IF m < n THEN EndOf(Place(s, n - 1)) ELSE 0
  /\ \A i \in 1 .. n - 1 :
       slots[Place(s, i)].offset = IF i = m THEN 0 ELSE EndOf(Place(s, i - 1))

(* The messages kept take up the two regions and nothing else. *)
Regions(s, n, m) ==
  /\ \A i \in 0 .. n - 1 : LET t == Place(s, i) IN
       IF i < m THEN slots[t].offset >= s.endInsert /\ EndOf(t) <= s.beginAppend
                ELSE EndOf(t) <= s.beginInsert
  /\ \A w \in Words :
       Taken(s, w) => \E i \in 0 .. n - 1 : Covers(Place(s, i), w)

(* They are the latest, one after the other round the ring, and no other     *)
(* slot is in use but the one a writer is about to publish.                  *)
Latest(s, n) ==
  /\ \A i \in 0 .. n - 1 : LET t == Place(s, i) IN
       slots[t].active /\ HoldsEntry(t, Newest - n + 1 + i)
  /\ \A t \in Slots : slots[t].active =>
       \/ \E i \in 0 .. n - 1 : t = Place(s, i)
       \/ stage = "stat" /\ t = job.slot

(* A message is given up only for one to be written. *)
Keeps(s, n) ==
  IF stage \in {"pack", "fit", "entry", "slot", "stat"}
  THEN n < NSlots
  ELSE n = 0 => s.oldestSlot = Unset

Ring(s, n, m) == /\ Counts(s, n, m)
                 /\ Chained(s, n, m)
                 /\ Regions(s, n, m)
                 /\ Latest(s, n)
                 /\ Keeps(s, n)

(* What the ring needs of the writers: none dies or fails, every message     *)
(* fits, and no sleeper finds its slot taken.                                *)
Smooth ==
  /\ MayFail = FALSE
  /\ \A len \in Lens : len <= BufSize
  /\ BlockingWrite = FALSE \/ OneWriter

RingInv ==
  /\ lock = Unset => stage = "idle"
  /\ ~Reinitialising
  /\ Writing => job.slot = WriteSlotOf(st)
  /\ \E n, m \in 0 .. NSlots : Ring(Cur, n, m)
=============================================================================
