------------------------------ MODULE FmqQueue ------------------------------
(* The write side of a file message queue, one action per access the lock    *)
(* holder makes to the two files (Fmq::_write, _write_msg, _space_avail,     *)
(* _free_oldest_slot, _clear).  Any number of writer processes share the     *)
(* queue under the stat file's lock; readers take no lock and see every      *)
(* intermediate state of stat, slots and buf.                                *)
EXTENDS FmqTypes, FiniteSets, Sequences

CONSTANTS Writers,        \* processes with the queue open for writing
          Lens,           \* stored lengths of the messages they offer
          BlockingWrite,  \* setBlockingWrite() was called by the writers
          MayFail,        \* a writer may die or meet a device error
          MaxMsgs         \* bound: entries written in one behaviour

(* A stored entry has at least its cookie word and its id word. *)
ASSUME WritersAssumption == /\ Lens \subseteq Nat \ {0, 1}
                            /\ BlockingWrite \in BOOLEAN
                            /\ MayFail \in BOOLEAN
                            /\ MaxMsgs \in Nat
                            /\ Unset \notin Writers

VARIABLES
  stat,     \* the status struct at the head of the stat file
  slots,    \* the slot table behind it
  buf,      \* the buffer file
  lock,     \* the writer that holds the write lock of the stat file, or Unset
  stage,    \* how far the lock holder is in _write_msg or _clear
  st,       \* its in-memory copy of stat (_stat)
  job,      \* its write_slot, write_id and stored_len
  off,      \* the offset it chose for the entry
  done,     \* words of the entry, or slots of the table, it has written
  waiting,  \* jobs of the writers asleep in the blocking-write loop
  log       \* history: the entries whose writing began; index = serial

device == <<stat, slots, buf>>
local  == <<lock, stage, st, job, off, done>>
vars   == <<device, local, waiting, log>>

Stages == {"idle", "block", "ring", "pack", "fit", "entry", "slot", "stat",
           "clearBuf", "clearSlots", "clearStat"}
NoJob  == [slot |-> 0, id |-> 0, len |-> 0]
Job    == [slot : Slots, id : Ids, len : Lens]
Entry  == [id : Ids, slot : Slots, len : Lens]

TypeOK ==
  /\ stat \in StatType
  /\ slots \in [Slots -> SlotType]
  /\ buf \in [Words -> Cell]
  /\ lock \in Writers \cup {Unset}
  /\ stage \in Stages
  /\ st \in StatType
  /\ job \in Job \cup {NoJob}
  /\ off \in Offsets
  /\ done \in Nat
  /\ waiting \in [Writers -> Job \cup {NoJob}]
  /\ log \in Seq(Entry)

Init ==
  /\ stat = InitStat
  /\ slots = [s \in Slots |-> EmptySlot]
  /\ buf = [w \in Words |-> IF w = 0 THEN BareCookie ELSE NoWord]
  /\ lock = Unset
  /\ stage = "idle"
  /\ st = InitStat
  /\ job = NoJob
  /\ off = 0
  /\ done = 0
  /\ waiting = [p \in Writers |-> NoJob]
  /\ log = <<>>

-----------------------------------------------------------------------------
(* _write returns: the lock is dropped and the locals are dead. *)
Release ==
  /\ lock' = Unset
  /\ stage' = "idle"
  /\ st' = InitStat
  /\ job' = NoJob
  /\ off' = 0
  /\ done' = 0

(* _write takes the lock; _write_msg reads stat and picks slot and id. *)
BeginWrite(p, len) ==
  /\ lock = Unset
  /\ waiting[p] = NoJob
  /\ Len(log) < MaxMsgs
  /\ lock' = p
  /\ st' = stat
  /\ job' = [slot |-> NextSlot(stat.youngestSlot),
             id |-> NextId(stat.youngestId), len |-> len]
  /\ stage' = IF BlockingWrite THEN "block" ELSE "ring"
  /\ UNCHANGED <<device, off, done, waiting, log>>

(* A slip: one id too far back. *)
OverwriteId_TooOld == IF job.id - NSlots - 1 < 0
                      THEN job.id - NSlots - 1 + MaxId ELSE job.id - NSlots - 1

(* The id this write would push out of a full ring (overwrite_id). *)
OverwriteId == IF job.id - NSlots < 0 THEN job.id - NSlots + MaxId
                                      ELSE job.id - NSlots

(* The reader's last id is the one to be overwritten: drop the lock, sleep. *)
WaitForReader ==
  /\ stage = "block"
  /\ OverwriteId = st.lastIdRead
  /\ waiting' = [waiting EXCEPT ![lock] = job]
  /\ Release
  /\ UNCHANGED <<device, log>>

(* The sleeper wakes, locks and reads stat again.  write_slot and write_id   *)
(* stay as they were computed before the wait.                               *)
WakeUp(p) ==
  /\ lock = Unset
  /\ waiting[p] # NoJob
  /\ lock' = p
  /\ st' = stat
  /\ job' = waiting[p]
  /\ stage' = "block"
  /\ waiting' = [waiting EXCEPT ![p] = NoJob]
  /\ UNCHANGED <<device, off, done, log>>

StopWaiting ==
  /\ stage = "block"
  /\ OverwriteId # st.lastIdRead
  /\ st' = [st EXCEPT !.blockingWrite = TRUE]
  /\ stage' = "ring"
  /\ UNCHANGED <<device, lock, job, off, done, waiting, log>>

-----------------------------------------------------------------------------
(* The slot to write is not in use: nothing to free for the ring's sake. *)
RingHasRoom ==
  /\ stage = "ring"
  /\ job.slot # st.oldestSlot
  /\ stage' = "pack"
  /\ UNCHANGED <<device, lock, st, job, off, done, waiting, log>>

(* After compression the entry does not fit in the buffer: _write_msg fails. *)
(* (A compression error leaves by the same exit.)                            *)
TooLarge ==
  /\ stage = "pack"
  /\ job.len > BufSize
  /\ Release
  /\ UNCHANGED <<device, waiting, log>>

Packed ==
  /\ stage = "pack"
  /\ job.len <= BufSize
  /\ stage' = "fit"
  /\ UNCHANGED <<device, lock, st, job, off, done, waiting, log>>

AppendRoom(s, len) == s.appendMode /\ BufSize - s.beginAppend >= len
InsertRoom(s, len) == ~s.appendMode /\ s.endInsert - s.beginInsert >= len

(* _space_avail: the append region is exhausted. *)
SwitchToInsert ==
  /\ stage = "fit"
  /\ st.appendMode
  /\ ~AppendRoom(st, job.len)
  /\ st' = [st EXCEPT !.appendMode = FALSE]
  /\ UNCHANGED <<device, lock, stage, job, off, done, waiting, log>>

(* _free_oldest_slot is called because the ring is full, or because the      *)
(* insert region is too small.                                               *)
MustFree ==
  \/ stage = "ring" /\ job.slot = st.oldestSlot
  \/ stage = "fit" /\ ~st.appendMode /\ ~InsertRoom(st, job.len)

(* Slips: the regions never merge; they merge but the mode stays. *)
Freed_NeverMerges(s, len) ==
  [s EXCEPT !.oldestSlot = NextSlot(s.oldestSlot),
            !.endInsert  = (s.endInsert + len) % (BufSize + 1)]

Freed_StaysInsert(s, len) ==
  LET merged == s.endInsert + len >= s.beginAppend
  IN  [s EXCEPT
        !.oldestSlot  = NextSlot(s.oldestSlot),
        !.endInsert   = IF merged THEN 0 ELSE s.endInsert + len,
        !.beginAppend = IF merged THEN s.beginInsert ELSE s.beginAppend,
        !.beginInsert = IF merged THEN 0 ELSE s.beginInsert]

(* The status after the oldest message, of length len, has been given up:    *)
(* when the insert region has grown up to the append region they merge.      *)
Freed(s, len) ==
  LET merged == s.endInsert + len >= s.beginAppend
  IN  [s EXCEPT
        !.oldestSlot  = NextSlot(s.oldestSlot),
        !.endInsert   = IF merged THEN 0 ELSE s.endInsert + len,
        !.beginAppend = IF merged THEN s.beginInsert ELSE s.beginAppend,
        !.beginInsert = IF merged THEN 0 ELSE s.beginInsert,
        !.appendMode  = merged \/ s.appendMode]

(* A slip: the slot is freed in memory only. *)
FreeOldestSlot_InMemory ==
  /\ MustFree
  /\ slots[st.oldestSlot].offset = st.endInsert
  /\ st' = Freed(st, slots[st.oldestSlot].len)
  /\ stage' = IF stage = "ring" THEN "pack" ELSE "fit"
  /\ UNCHANGED <<device, lock, job, off, done, waiting, log>>

(* The slot on disk is zeroed at once; stat on disk is not written yet. *)
FreeOldestSlot ==
  /\ MustFree
  /\ slots[st.oldestSlot].offset = st.endInsert
  /\ st' = Freed(st, slots[st.oldestSlot].len)
  /\ slots' = [slots EXCEPT ![st.oldestSlot] = EmptySlot]
  /\ stage' = IF stage = "ring" THEN "pack" ELSE "fit"
  /\ UNCHANGED <<stat, buf, lock, job, off, done, waiting, log>>

(* The consistency check fails: the whole queue is re-initialised. *)
OffsetMismatch ==
  /\ MustFree
  /\ slots[st.oldestSlot].offset # st.endInsert
  /\ stage' = "clearBuf"
  /\ UNCHANGED <<device, lock, st, job, off, done, waiting, log>>

(* Space is available; the entry will go to the append or insert region. *)
ChooseOffset ==
  /\ stage = "fit"
  /\ AppendRoom(st, job.len) \/ InsertRoom(st, job.len)
  /\ off' = IF st.appendMode THEN st.beginAppend ELSE st.beginInsert
  /\ done' = 0
  /\ log' = Append(log, [id |-> job.id, slot |-> job.slot, len |-> job.len])
  /\ stage' = "entry"
  /\ UNCHANGED <<device, lock, st, job, waiting>>

-----------------------------------------------------------------------------
(* _write_msg_to_slot: the entry goes out in file order; an unlocked reader  *)
(* can see any prefix of it over what was there before.                      *)
WriteWord ==
  /\ stage = "entry"
  /\ done < job.len
  /\ buf' = [buf EXCEPT ![off + done] = [ser |-> Len(log), word |-> done + 1]]
  /\ done' = done + 1
  /\ stage' = IF done' = job.len THEN "slot" ELSE "entry"
  /\ UNCHANGED <<stat, slots, lock, st, job, off, waiting, log>>

WriteSlot ==
  /\ stage = "slot"
  /\ slots' = [slots EXCEPT ![job.slot] =
                 [active |-> TRUE, id |-> job.id, len |-> job.len,
                  offset |-> off]]
  /\ stage' = "stat"
  /\ UNCHANGED <<stat, buf, lock, st, job, off, done, waiting, log>>

(* A slip: the append pointer moves in either mode. *)
Published_AlwaysAppends(s) ==
  [s EXCEPT
    !.youngestSlot = job.slot,
    !.youngestId   = job.id,
    !.oldestSlot   = IF s.oldestSlot = Unset THEN job.slot ELSE s.oldestSlot,
    !.beginAppend  = s.beginAppend + job.len]

(* The status that publishes the job's message. *)
Published(s) ==
  [s EXCEPT
    !.youngestSlot = job.slot,
    !.youngestId   = job.id,
    !.oldestSlot   = IF s.oldestSlot = Unset THEN job.slot ELSE s.oldestSlot,
    !.beginAppend  = IF s.appendMode THEN s.beginAppend + job.len
                                     ELSE s.beginAppend,
    !.beginInsert  = IF s.appendMode THEN s.beginInsert
                                     ELSE s.beginInsert + job.len]

(* The whole struct is written, last_id_read as it was when it was read. *)
WriteStat ==
  /\ stage = "stat"
  /\ stat' = Published(st)
  /\ Release
  /\ UNCHANGED <<slots, buf, waiting, log>>

-----------------------------------------------------------------------------
(* _clear / _prepare_for_writing: cookie and last byte of the buffer, then   *)
(* every slot, then stat; the failed write then returns.                     *)
ClearBuf ==
  /\ stage = "clearBuf"
  /\ buf' = [[buf EXCEPT ![0] = BareCookie] EXCEPT ![BufSize - 1] = NoWord]
  /\ stage' = "clearSlots"
  /\ done' = 0
  /\ UNCHANGED <<stat, slots, lock, st, job, off, waiting, log>>

(* A slip: the last slot keeps its record. *)
ClearSlot_OneShort ==
  /\ stage = "clearSlots"
  /\ slots' = [slots EXCEPT ![done] = EmptySlot]
  /\ done' = done + 1
  /\ stage' = IF done' >= NSlots - 1 THEN "clearStat" ELSE "clearSlots"
  /\ UNCHANGED <<stat, buf, lock, st, job, off, waiting, log>>

ClearSlot ==
  /\ stage = "clearSlots"
  /\ slots' = [slots EXCEPT ![done] = EmptySlot]
  /\ done' = done + 1
  /\ stage' = IF done' = NSlots THEN "clearStat" ELSE "clearSlots"
  /\ UNCHANGED <<stat, buf, lock, st, job, off, waiting, log>>

ClearStat ==
  /\ stage = "clearStat"
  /\ stat' = InitStat
  /\ Release
  /\ UNCHANGED <<slots, buf, waiting, log>>

(* The lock holder dies, or a device error makes _write_msg return early:    *)
(* the kernel (or _write) drops the lock and what is on disk stays.          *)
Abandon ==
  /\ MayFail
  /\ lock # Unset
  /\ Release
  /\ UNCHANGED <<device, waiting, log>>

(* Of a reader the write side sees one thing: in blocking mode it writes the *)
(* id it has read last into stat, at any moment and without the lock.        *)
ReaderReports(id) ==
  /\ stat' = [stat EXCEPT !.lastIdRead = id]
  /\ UNCHANGED <<slots, buf, local, waiting, log>>

(* What there is to read: ids that were written; none on an empty queue. *)
ReadIds == {Unset} \cup {log[k].id : k \in 1 .. Len(log)}

-----------------------------------------------------------------------------
HolderStep ==
  \/ WaitForReader \/ StopWaiting
  \/ RingHasRoom \/ TooLarge \/ Packed \/ SwitchToInsert
  \/ FreeOldestSlot \/ OffsetMismatch \/ ChooseOffset
  \/ WriteWord \/ WriteSlot \/ WriteStat
  \/ ClearBuf \/ ClearSlot \/ ClearStat

WriterNext ==
  \/ \E p \in Writers : \E len \in Lens : BeginWrite(p, len)
  \/ \E p \in Writers : WakeUp(p)
  \/ HolderStep
  \/ Abandon

Next ==
  \/ WriterNext
  \/ BlockingWrite /\ \E id \in ReadIds : ReaderReports(id)

Spec == Init /\ [][Next]_vars

(* A process that holds the lock keeps running. *)
FairSpec == Spec /\ WF_vars(HolderStep)
-----------------------------------------------------------------------------
Reinitialising == stage \in {"clearBuf", "clearSlots", "clearStat"}

(* Entry k of the log lies unbroken where slot s says its message is. *)
HoldsEntry(s, k) ==
  /\ log[k].slot = s
  /\ log[k].id = slots[s].id
  /\ log[k].len = slots[s].len
  /\ \A w \in 1 .. log[k].len :
       buf[slots[s].offset + w - 1] = [ser |-> k, word |-> w]

(* Whenever nobody writes, the slots in use are exactly those from oldest to *)
(* youngest round the ring: what _check (Fmq.cc) tests slot by slot, and     *)
(* what fmq.doc draws.                                                       *)
ActiveAreaExact ==
  lock = Unset => \A s \in Slots : slots[s].active <=> InActiveRegion(stat, s)

(* At every instant, also between the device writes of a write in progress   *)
(* and after a write or a re-initialisation that died half way: the words    *)
(* that a published slot in use points at still belong to its own message.   *)
(* No write reuses them; only re-initialisation marks the first and last     *)
(* word of the buffer (serial 0).                                            *)
PublishedNotOverwritten ==
  \A s \in Slots : slots[s].active /\ InActiveRegion(stat, s) =>
    \E k \in 1 .. Len(log) :
      /\ log[k].slot = s /\ log[k].id = slots[s].id
      /\ log[k].len = slots[s].len
      /\ \A w \in 1 .. log[k].len :
           LET c == buf[slots[s].offset + w - 1]
           IN  c = [ser |-> k, word |-> w] \/ c.ser = 0

(* The offset check of _free_oldest_slot never fails, so a queue that is     *)
(* only written to is never wiped by its own writers.                        *)
NeverReinitialised == ~Reinitialising

(* The retained messages are the most recent ones, without a hole, and the   *)
(* three region pointers account for every word they occupy: [0, BI) and     *)
(* [EI, BA).                                                                 *)
RetainsLatest ==
  lock = Unset =>
    LET used == {s \in Slots : slots[s].active}
        n    == Cardinality(used)
    IN  /\ n <= Len(log)
        /\ \A k \in Len(log) - n + 1 .. Len(log) :
             \E s \in used : HoldsEntry(s, k)
        /\ {w \in Words : \E s \in used :
              w >= slots[s].offset /\ w < slots[s].offset + slots[s].len}
           = {w \in Words : \/ w < stat.beginInsert
                            \/ w >= stat.endInsert /\ w < stat.beginAppend}

(* The space loop of _write_msg ends and the lock is given back, whatever    *)
(* the mix of lengths.                                                       *)
WriteReturns == lock # Unset ~> lock = Unset
=============================================================================
