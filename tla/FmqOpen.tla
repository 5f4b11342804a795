------------------------------ MODULE FmqOpen -------------------------------
(* Writer processes that open an existing queue READ_WRITE before they write *)
(* (Fmq::_open_rdwr, _check, _check_and_clear, _seek_end): the files are     *)
(* read and checked without the lock, beside whatever other writers do, and  *)
(* the queue is re-initialised under the lock if the check fails.  A process *)
(* that dies opens again before its next write.                              *)
EXTENDS FmqQueue

CONSTANT ReuseObject    \* a process that closes keeps its Fmq object

ASSUME ReuseAssumption == ReuseObject \in BOOLEAN

VARIABLE op     \* per process: its Fmq object while it opens the queue

ovars == <<vars, op>>

(* The object: the stage of opening ("closed", "table", "slot", "entry",     *)
(* "clear", "clearing", "seek", "update", "open"), _stat, _lastIdRead, the   *)
(* copy _slots, the slot to be checked next, and (history) whether nobody    *)
(* wrote since opening began.                                                *)
NoTable == [s \in Slots |-> EmptySlot]
ClosedOp == [stage |-> "closed", st |-> InitStat, lastId |-> Unset,
             table |-> NoTable, next |-> 0, calm |-> FALSE]

OpenInit == Init /\ op = [p \in Writers |-> ClosedOp]

-----------------------------------------------------------------------------
(* Locals that are dead after a stage are reset. *)
Enter(p, new) == op' = [op EXCEPT ![p].stage = new, ![p].table = NoTable,
                                  ![p].next = 0]

(* The device is closed; the object keeps _lastIdRead, a new one has none.   *)
ClosedAgain(p) ==
  op' = [op EXCEPT ![p] = [ClosedOp EXCEPT !.lastId =
                             IF ReuseObject THEN op[p].lastId ELSE Unset]]

(* _open_rdwr: the files exist; the status is read first. *)
OpenStat(p) ==
  /\ op[p].stage = "closed"
  /\ op' = [op EXCEPT ![p].stage = "table", ![p].st = stat,
                      ![p].calm = lock = Unset]
  /\ UNCHANGED vars

Holds(table, id) == \E s \in Slots : table[s].id = id

(* _check: the whole table is read, and must hold the youngest id. *)
ReadTable(p) ==
  /\ op[p].stage = "table"
  /\ IF op[p].st.youngestId = Unset \/ Holds(slots, op[p].st.youngestId)
     THEN op' = [op EXCEPT ![p].stage = "slot", ![p].table = slots]
     ELSE Enter(p, "clear")
  /\ UNCHANGED vars

(* _read_msg_for_slot: in use, and next after _lastIdRead if that is set. *)
Expected(p, slot) ==
  /\ slot.active
  /\ op[p].lastId = Unset \/ PrevId(slot.id) = op[p].lastId

(* A slip: only the slots in use are looked at, not whether they should be.  *)
CheckSlot_NoCompare(p) ==
  /\ op[p].stage = "slot"
  /\ LET s == op[p].next
     IN  \/ /\ s = NSlots
            /\ Enter(p, "seek")
         \/ /\ s < NSlots /\ ~op[p].table[s].active
            /\ op' = [op EXCEPT ![p].next = s + 1]
         \/ /\ s < NSlots /\ op[p].table[s].active /\ Expected(p, slots[s])
            /\ op' = [op EXCEPT ![p].table[s] = slots[s],
                                ![p].stage = "entry"]
         \/ /\ s < NSlots /\ op[p].table[s].active /\ ~Expected(p, slots[s])
            /\ Enter(p, "clear")
  /\ UNCHANGED vars

(* The next slot: all are done, it is not in use and need not be, it is in   *)
(* use and must be and is read again, or the check fails.                    *)
CheckSlot(p) ==
  /\ op[p].stage = "slot"
  /\ LET s      == op[p].next
         active == op[p].table[s].active
         should == InActiveRegion(op[p].st, s)
     IN  \/ /\ s = NSlots
            /\ Enter(p, "seek")
         \/ /\ s < NSlots /\ ~active /\ ~should
            /\ op' = [op EXCEPT ![p].next = s + 1]
         \/ /\ s < NSlots /\ active /\ should /\ Expected(p, slots[s])
            /\ op' = [op EXCEPT ![p].table[s] = slots[s],
                                ![p].stage = "entry"]
         \/ /\ s < NSlots
            /\ active # should \/ (active /\ ~Expected(p, slots[s]))
            /\ Enter(p, "clear")
  /\ UNCHANGED vars

(* What _read_msg verifies: the cookie in the first word, the id in the last.*)
EntryReads(slot) ==
  /\ slot.len > 0
  /\ buf[slot.offset].word = 1
  /\ LET end == buf[slot.offset + slot.len - 1]
     IN  /\ end.ser # 0
         /\ end.word = log[end.ser].len
         /\ log[end.ser].id = slot.id

(* A slip: the check moves the read position along, as a read does. *)
CheckEntry_MovesPosition(p) ==
  /\ op[p].stage = "entry"
  /\ IF EntryReads(op[p].table[op[p].next])
     THEN op' = [op EXCEPT ![p].stage = "slot", ![p].next = @ + 1,
                           ![p].lastId = op[p].table[op[p].next].id]
     ELSE Enter(p, "clear")
  /\ UNCHANGED vars

CheckEntry(p) ==
  /\ op[p].stage = "entry"
  /\ IF EntryReads(op[p].table[op[p].next])
     THEN op' = [op EXCEPT ![p].stage = "slot", ![p].next = @ + 1]
     ELSE Enter(p, "clear")
  /\ UNCHANGED vars

(* _seek_end, on a table read once more: the queue is open; in blocking mode *)
(* the position is yet to be reported; or init fails.                        *)
SeekEndRdwr(p) ==
  /\ op[p].stage = "seek"
  /\ LET id == op[p].st.youngestId
     IN  \/ /\ id = Unset \/ Holds(slots, id)
            /\ op' = [op EXCEPT ![p].lastId = id, ![p].stage =
                 IF op[p].st.blockingWrite THEN "update" ELSE "open"]
         \/ /\ id # Unset /\ ~Holds(slots, id)
            /\ ClosedAgain(p)
  /\ UNCHANGED vars

(* last_id_read is written without the lock, though nothing was read. *)
ReportPosition(p) ==
  /\ op[p].stage = "update"
  /\ ReaderReports(op[p].lastId)
  /\ Enter(p, "open")

-----------------------------------------------------------------------------
(* A writer that takes the lock ends the calm of every check but its own. *)
Calm(q, on) == [op[q] EXCEPT !.calm = op[q].calm /\ on]

OpenWrite(p, len) ==
  /\ op[p].stage = "open"
  /\ BeginWrite(p, len)
  /\ op' = [q \in Writers |-> Calm(q, FALSE)]

OpenWakeUp(p) ==
  /\ WakeUp(p)
  /\ op' = [q \in Writers |-> Calm(q, FALSE)]

(* _clear locks before it writes; nothing is checked again under the lock. *)
StartClear(p) ==
  /\ op[p].stage = "clear"
  /\ lock = Unset
  /\ lock' = p
  /\ stage' = "clearBuf"
  /\ op' = [q \in Writers |-> IF q = p THEN [op[p] EXCEPT !.stage = "clearing"]
                                      ELSE Calm(q, FALSE)]
  /\ UNCHANGED <<device, st, job, off, done, waiting, log>>

Clearing(p) == lock = p /\ op[p].stage = "clearing" /\ stage = "clearStat"

(* The cleared queue has no message: _seek_end has nothing to look up. *)
FinishClear(p) ==
  /\ Clearing(p)
  /\ ClearStat
  /\ op' = [op EXCEPT ![p].stage = "open", ![p].st = InitStat,
                      ![p].lastId = Unset]

HolderGoesOn ==
  /\ HolderStep
  /\ \A p \in Writers : ~Clearing(p)
  /\ UNCHANGED op

(* A process dies, with the lock, asleep in the blocking-write loop, or in   *)
(* the middle of opening: it must open again before it writes.               *)
Die(p) ==
  /\ op[p].stage # "closed"
  /\ op' = [op EXCEPT ![p] = ClosedOp]
  /\ \/ lock = p /\ Abandon
     \/ /\ MayFail /\ lock # p
        /\ waiting' = [waiting EXCEPT ![p] = NoJob]
        /\ UNCHANGED <<device, local, log>>

(* closeMsgQueue, between two writes. *)
Close(p) ==
  /\ op[p].stage = "open"
  /\ lock # p
  /\ waiting[p] = NoJob
  /\ ClosedAgain(p)
  /\ UNCHANGED vars

-----------------------------------------------------------------------------
OpenStep(p) ==
  \/ OpenStat(p) \/ ReadTable(p) \/ CheckSlot(p) \/ CheckEntry(p)
  \/ SeekEndRdwr(p) \/ ReportPosition(p)
  \/ StartClear(p) \/ FinishClear(p)

OpenNext ==
  \/ \E p \in Writers : \E len \in Lens : OpenWrite(p, len)
  \/ \E p \in Writers : OpenWakeUp(p)
  \/ HolderGoesOn
  \/ \E p \in Writers : OpenStep(p) \/ Die(p) \/ Close(p)

OpenSpec == OpenInit /\ [][OpenNext]_ovars

(* A process that holds the lock keeps running. *)
OpenFairSpec ==
  /\ OpenSpec
  /\ WF_ovars(HolderGoesOn)
  /\ \A p \in Writers : WF_ovars(FinishClear(p))
-----------------------------------------------------------------------------
(* The entry of slot s is as it was written; a re-initialisation that died   *)
(* at once has put the same cookie over its first word.                      *)
Intact(s) ==
  \E k \in 1 .. Len(log) :
    /\ log[k].slot = s /\ log[k].id = slots[s].id
    /\ log[k].len = slots[s].len
    /\ \A w \in 1 .. log[k].len :
         LET c == buf[slots[s].offset + w - 1]
         IN  c = [ser |-> k, word |-> w] \/ (w = 1 /\ c = BareCookie)

Sound == \A s \in Slots : /\ slots[s].active <=> InActiveRegion(stat, s)
                          /\ slots[s].active => Intact(s)

(* Crash recovery: whatever a writer left behind when it died, between any   *)
(* two device writes, a process that has opened the queue while nobody wrote *)
(* finds it sound: the slots in use are the published ones and every message *)
(* is whole.                                                                 *)
RepairedOnOpen ==
  \A p \in Writers : op[p].stage = "open" /\ op[p].calm => Sound

(* _check_and_clear, "If corrupted, clears the buffers": opening a sound     *)
(* queue while nobody writes loses nothing.  It does when the process opens  *)
(* it with an Fmq object that had it open before (ReuseObject): the check    *)
(* then takes every slot for a message out of turn.                          *)
SoundQueueKept ==
  [][\A p \in Writers :
       op[p].calm /\ op[p].stage # "clear" /\ op'[p].stage = "clear"
         => ~Sound]_ovars

(* After a restart the writes of a lone writer end again, wherever it died   *)
(* before: the space loop cannot be caught in a slot table that a crash left *)
(* half empty, because opening has repaired it.                              *)
RestartedWriterReturns == lock # Unset ~> lock = Unset
=============================================================================
