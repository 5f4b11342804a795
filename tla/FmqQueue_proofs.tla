-------------------------- MODULE FmqQueue_proofs ---------------------------
(* Theorems about the write side of a file message queue, for every number   *)
(* of slots, size of buffer, set of writers and set of message lengths.      *)
EXTENDS FmqQueueInv, FiniteSetTheorems, TLAPS

(* The ring and the ids stay in range, from the first message on. *)
LEMMA IndexRange ==
  /\ \A s \in Slots \cup {Unset} : NextSlot(s) \in Slots
  /\ \A i \in Ids \cup {Unset} : NextId(i) \in Ids
  /\ 0 \in Slots /\ 0 \in Ids /\ 0 \in Offsets /\ BufSize \in Offsets
  /\ Slots \subseteq Nat /\ Offsets \subseteq Nat /\ Words \subseteq Nat
BY SizesAssumption, SMT
   DEF NextSlot, NextId, Slots, Ids, Offsets, Unset, Words

(* A slot that is not in use and a fresh status are well formed. *)
LEMMA InitTypes == /\ InitStat \in StatType /\ RegionsOK(InitStat)
                   /\ EmptySlot \in SlotType
                   /\ NoWord \in Cell /\ BareCookie \in Cell
BY IndexRange
   DEF InitStat, StatType, RegionsOK, EmptySlot, SlotType, NoWord,
       BareCookie, Cell, Unset

(* What the fields of a status are. *)
LEMMA StatFields ==
  ASSUME NEW s \in StatType
  PROVE  /\ s.youngestId \in Ids \cup {Unset}
         /\ s.youngestSlot \in Slots \cup {Unset}
         /\ s.oldestSlot \in Slots \cup {Unset}
         /\ s.beginInsert \in Nat /\ s.endInsert \in Nat
         /\ s.beginAppend \in Nat
         /\ s.beginInsert <= BufSize /\ s.endInsert <= BufSize
         /\ s.beginAppend <= BufSize
         /\ s.appendMode \in BOOLEAN
BY SizesAssumption DEF StatType, Offsets

(* The two updates the writer makes to its copy of the status. *)
LEMMA StatUpdates ==
  ASSUME NEW s \in StatType, NEW o \in Slots, NEW i \in Offsets,
         NEW e \in Offsets, NEW a \in Offsets
  PROVE  /\ \A m \in BOOLEAN :
              [s EXCEPT !.oldestSlot = o, !.endInsert = e, !.beginAppend = a,
                        !.beginInsert = i, !.appendMode = m] \in StatType
         /\ \A y \in Slots, id \in Ids :
              [s EXCEPT !.youngestSlot = y, !.youngestId = id,
                        !.oldestSlot = o, !.beginAppend = a,
                        !.beginInsert = i] \in StatType
BY Zenon DEF StatType

(* Giving up the oldest message keeps the regions in order and in range. *)
LEMMA FreedRegions ==
  ASSUME NEW s \in StatType, RegionsOK(s), s.oldestSlot # Unset,
         NEW len \in Offsets
  PROVE  /\ Freed(s, len) \in StatType
         /\ RegionsOK(Freed(s, len))
         /\ LET merged == s.endInsert + len >= s.beginAppend
                f == Freed(s, len)
            IN  /\ f.oldestSlot = NextSlot(s.oldestSlot)
                /\ f.endInsert = IF merged THEN 0 ELSE s.endInsert + len
                /\ f.beginAppend = IF merged THEN s.beginInsert
                                             ELSE s.beginAppend
                /\ f.beginInsert = IF merged THEN 0 ELSE s.beginInsert
                /\ f.youngestSlot = s.youngestSlot
<1> DEFINE merged == s.endInsert + len >= s.beginAppend
           f == Freed(s, len)
<1>1. NextSlot(s.oldestSlot) \in Slots /\ NextSlot(s.oldestSlot) # Unset
  <2>1. s.oldestSlot \in Slots
    BY DEF StatType
  <2>2. NextSlot(s.oldestSlot) \in Slots
    BY <2>1, IndexRange
  <2>3. QED BY <2>2, SMT DEF Slots, Unset
<1>2. /\ f.oldestSlot = NextSlot(s.oldestSlot)
      /\ f.endInsert = IF merged THEN 0 ELSE s.endInsert + len
      /\ f.beginAppend = IF merged THEN s.beginInsert ELSE s.beginAppend
      /\ f.beginInsert = IF merged THEN 0 ELSE s.beginInsert
      /\ f.youngestSlot = s.youngestSlot
  BY DEF Freed, StatType
<1>3. /\ f.endInsert \in Offsets /\ f.beginAppend \in Offsets
      /\ f.beginInsert \in Offsets
      /\ f.beginInsert <= f.endInsert /\ f.endInsert <= f.beginAppend
  BY <1>2, StatFields, IndexRange, SizesAssumption, SMT DEF Offsets, RegionsOK
<1>4. f \in StatType
  <2>1. /\ (IF merged THEN 0 ELSE s.endInsert + len) \in Offsets
        /\ (IF merged THEN s.beginInsert ELSE s.beginAppend) \in Offsets
        /\ (IF merged THEN 0 ELSE s.beginInsert) \in Offsets
    BY <1>2, <1>3
  <2>2. (merged \/ s.appendMode) \in BOOLEAN
    OBVIOUS
  <2>3. QED BY <1>1, <2>1, <2>2, StatUpdates, Zenon DEF Freed
<1>5. RegionsOK(f)
  BY <1>1, <1>2, <1>3 DEF RegionsOK
<1>6. QED BY <1>2, <1>4, <1>5

(* So does publishing an entry that was put where there was room. *)
LEMMA PublishedRegions ==
  ASSUME st \in StatType, RegionsOK(st), job \in Job, off \in Offsets,
         RoomAt(st, off, job.len)
  PROVE  /\ Published(st) \in StatType
         /\ RegionsOK(Published(st))
         /\ LET f == Published(st)
            IN  /\ f.youngestSlot = job.slot
                /\ f.oldestSlot = IF st.oldestSlot = Unset THEN job.slot
                                                           ELSE st.oldestSlot
                /\ f.beginAppend = IF st.appendMode
                                   THEN st.beginAppend + job.len
                                   ELSE st.beginAppend
                /\ f.beginInsert = IF st.appendMode THEN st.beginInsert
                                   ELSE st.beginInsert + job.len
                /\ f.endInsert = st.endInsert
<1> DEFINE f == Published(st)
<1>1. job.slot \in Slots /\ job.slot # Unset /\ job.id \in Ids
      /\ job.len \in Nat
  <2>1. job.slot \in Slots /\ job.id \in Ids /\ job.len \in Nat
    BY WritersAssumption DEF Job
  <2>2. QED BY <2>1, SMT DEF Slots, Unset
<1>2. /\ f.youngestSlot = job.slot
      /\ f.oldestSlot = IF st.oldestSlot = Unset THEN job.slot
                                                 ELSE st.oldestSlot
      /\ f.beginAppend = IF st.appendMode THEN st.beginAppend + job.len
                                          ELSE st.beginAppend
      /\ f.beginInsert = IF st.appendMode THEN st.beginInsert
                                          ELSE st.beginInsert + job.len
      /\ f.endInsert = st.endInsert /\ f.appendMode = st.appendMode
  BY DEF Published, StatType
<1>3. /\ f.beginAppend \in Offsets /\ f.beginInsert \in Offsets
      /\ f.beginInsert <= f.endInsert /\ f.endInsert <= f.beginAppend
  <2>1. CASE st.appendMode
    BY <1>1, <1>2, <2>1, StatFields, SizesAssumption, SMT
       DEF Offsets, RegionsOK, RoomAt
  <2>2. CASE ~st.appendMode
    BY <1>1, <1>2, <2>2, StatFields, SizesAssumption, SMT
       DEF Offsets, RegionsOK, RoomAt
  <2>3. QED BY <2>1, <2>2
<1>4. f.oldestSlot \in Slots /\ f.oldestSlot # Unset
  <2>1. f.oldestSlot \in Slots
    BY <1>1, <1>2, StatFields
  <2>2. QED BY <2>1, SMT DEF Slots, Unset
<1>5. f \in StatType
  <2>1. /\ (IF st.oldestSlot = Unset THEN job.slot ELSE st.oldestSlot) \in Slots
        /\ (IF st.appendMode THEN st.beginAppend + job.len
                             ELSE st.beginAppend) \in Offsets
        /\ (IF st.appendMode THEN st.beginInsert
                             ELSE st.beginInsert + job.len) \in Offsets
    BY <1>2, <1>3, <1>4
  <2>2. QED BY <1>1, <2>1, StatUpdates, Zenon DEF Published
<1>6. RegionsOK(f)
  BY <1>3, <1>4 DEF RegionsOK
<1>7. QED BY <1>2, <1>5, <1>6

(* A job that was set is never mistaken for no job. *)
LEMMA JobTypes == /\ NoJob \notin Job
                  /\ \A j \in Job : /\ j.slot \in Slots /\ j.id \in Ids
                                    /\ j.len \in Lens /\ j.len \in Nat
                                    /\ j.len > 0
<1>1. \A j \in Job : j.slot \in Slots /\ j.id \in Ids /\ j.len \in Lens
  BY DEF Job
<1>2. \A n \in Lens : n \in Nat /\ n > 0
  BY WritersAssumption, SMT
<1>3. NoJob.len = 0
  BY DEF NoJob
<1>4. QED BY <1>1, <1>2, <1>3

(* Single flags of a status may change without harm to the regions, except   *)
(* that only a queue that has held a message may leave append mode.          *)
LEMMA FlagUpdates ==
  ASSUME NEW s \in StatType, RegionsOK(s)
  PROVE  /\ [s EXCEPT !.blockingWrite = TRUE] \in StatType
         /\ RegionsOK([s EXCEPT !.blockingWrite = TRUE])
         /\ [s EXCEPT !.appendMode = FALSE] \in StatType
         /\ s.oldestSlot # Unset => RegionsOK([s EXCEPT !.appendMode = FALSE])
<1>1. /\ [s EXCEPT !.blockingWrite = TRUE] \in StatType
      /\ [s EXCEPT !.appendMode = FALSE] \in StatType
  BY Zenon DEF StatType
<1>2. RegionsOK([s EXCEPT !.blockingWrite = TRUE])
  BY DEF RegionsOK, StatType
<1>3. s.oldestSlot # Unset => RegionsOK([s EXCEPT !.appendMode = FALSE])
  BY DEF RegionsOK, StatType
<1>4. QED BY <1>1, <1>2, <1>3

(* A reader that reports changes nothing else. *)
LEMMA ReportUpdates ==
  ASSUME NEW s \in StatType, NEW id \in Ids \cup {Unset}
  PROVE  LET n == [s EXCEPT !.lastIdRead = id]
         IN  /\ n \in StatType
             /\ Agree(n, s)
             /\ RegionsOK(s) => RegionsOK(n)
<1> DEFINE n == [s EXCEPT !.lastIdRead = id]
<1>1. n \in StatType
  BY Zenon DEF StatType
<1>2. Agree(n, s)
  BY DEF Agree, StatType
<1>3. RegionsOK(s) => RegionsOK(n)
  BY <1>2 DEF Agree, RegionsOK
<1>4. QED BY <1>1, <1>2, <1>3

-----------------------------------------------------------------------------
(* Type correctness.                                                         *)

LEMMA TypeInit == Init => TypeInv
BY InitTypes, IndexRange, WritersAssumption
   DEF Init, TypeInv, TypeOK, Stages, Writing, Storing, Job, NoJob, Entry

(* _write returns, whatever it left on the devices. *)
LEMMA TypeRelease ==
  ASSUME TypeInv, Release, stat' \in StatType, RegionsOK(stat'),
         slots' \in [Slots -> SlotType], buf' \in [Words -> Cell],
         waiting' \in [Writers -> Job \cup {NoJob}], log' \in Seq(Entry)
  PROVE  TypeInv'
BY InitTypes, IndexRange
   DEF TypeInv, TypeOK, Release, Stages, Writing, Storing

(* A writer that takes the lock: with a new job, or with the one it kept.    *)
LEMMA TypeBegin ==
  ASSUME TypeInv
  PROVE  /\ \A p \in Writers, len \in Lens : BeginWrite(p, len) => TypeInv'
         /\ \A p \in Writers : WakeUp(p) => TypeInv'
<1>1. ASSUME NEW p \in Writers, NEW len \in Lens, BeginWrite(p, len)
      PROVE  TypeInv'
  <2>1. job' \in Job
    <3>1. /\ NextSlot(stat.youngestSlot) \in Slots
          /\ NextId(stat.youngestId) \in Ids
      BY IndexRange, StatFields DEF TypeInv, TypeOK
    <3>2. QED BY <1>1, <3>1 DEF BeginWrite, Job
  <2>2. stage' \in {"block", "ring"}
    BY <1>1 DEF BeginWrite
  <2>3. TypeOK'
    BY <1>1, <2>1, <2>2 DEF BeginWrite, TypeInv, TypeOK, device, Stages
  <2>4. QED
    BY <1>1, <2>1, <2>2, <2>3
       DEF BeginWrite, TypeInv, TypeOK, device, Writing, Storing
<1>2. ASSUME NEW p \in Writers, WakeUp(p)
      PROVE  TypeInv'
  <2>1. job' \in Job
    BY <1>2 DEF WakeUp, TypeInv, TypeOK
  <2>2. waiting' \in [Writers -> Job \cup {NoJob}]
    BY <1>2 DEF WakeUp, TypeInv, TypeOK
  <2>3. TypeOK'
    BY <1>2, <2>1, <2>2 DEF WakeUp, TypeInv, TypeOK, device, Stages
  <2>4. QED
    BY <1>2, <2>1, <2>3
       DEF WakeUp, TypeInv, TypeOK, device, Writing, Storing
<1>3. QED BY <1>1, <1>2

(* The steps before the entry goes out. *)
LEMMA TypePrepare ==
  ASSUME TypeInv
  PROVE  /\ WaitForReader => TypeInv'
         /\ StopWaiting => TypeInv'
         /\ RingHasRoom => TypeInv'
         /\ TooLarge => TypeInv'
         /\ Packed => TypeInv'
         /\ SwitchToInsert => TypeInv'
         /\ FreeOldestSlot => TypeInv'
         /\ OffsetMismatch => TypeInv'
         /\ ChooseOffset => TypeInv'
<1>1. ASSUME WaitForReader PROVE TypeInv'
  <2>1. waiting' \in [Writers -> Job \cup {NoJob}]
    BY <1>1 DEF WaitForReader, TypeInv, TypeOK
  <2>2. Release /\ UNCHANGED <<device, log>>
    BY <1>1 DEF WaitForReader
  <2>3. QED
    BY <2>1, <2>2, TypeRelease DEF device, TypeInv, TypeOK
<1>2. ASSUME StopWaiting PROVE TypeInv'
  <2>1. st' \in StatType /\ RegionsOK(st')
    BY <1>2, FlagUpdates DEF StopWaiting, TypeInv, TypeOK, Writing
  <2>2. QED
    BY <1>2, <2>1
       DEF StopWaiting, TypeInv, TypeOK, device, Writing, Storing, Stages
<1>3. ASSUME RingHasRoom PROVE TypeInv'
  BY <1>3
     DEF RingHasRoom, TypeInv, TypeOK, device, Writing, Storing, Stages
<1>4. ASSUME TooLarge PROVE TypeInv'
  BY <1>4, TypeRelease DEF TooLarge, device, TypeInv, TypeOK
<1>5. ASSUME Packed PROVE TypeInv'
  BY <1>5 DEF Packed, TypeInv, TypeOK, device, Writing, Storing, Stages
<1>6. ASSUME SwitchToInsert PROVE TypeInv'
  <2>1. st \in StatType /\ RegionsOK(st) /\ job.len <= BufSize /\ job \in Job
    BY <1>6 DEF SwitchToInsert, TypeInv, TypeOK, Writing
  <2>2. st.oldestSlot # Unset
    BY <1>6, <2>1, JobTypes, SizesAssumption, SMT
       DEF SwitchToInsert, AppendRoom, RegionsOK
  <2>3. st' \in StatType /\ RegionsOK(st')
    BY <1>6, <2>1, <2>2, FlagUpdates DEF SwitchToInsert
  <2>4. QED
    BY <1>6, <2>3
       DEF SwitchToInsert, TypeInv, TypeOK, device, Writing, Storing
<1>7. ASSUME FreeOldestSlot PROVE TypeInv'
  <2>1. st \in StatType /\ RegionsOK(st) /\ job \in Job
    BY <1>7 DEF FreeOldestSlot, MustFree, TypeInv, TypeOK, Writing
  <2>2. st.oldestSlot # Unset
    BY <1>7, <2>1, JobTypes, IndexRange, SMT
       DEF FreeOldestSlot, MustFree, RegionsOK, Slots, Unset
  <2>3. st.oldestSlot \in Slots
    BY <2>1, <2>2, StatFields
  <2>4. slots[st.oldestSlot].len \in Offsets
    BY <2>3 DEF TypeInv, TypeOK, SlotType
  <2>5. st' \in StatType /\ RegionsOK(st')
    BY <1>7, <2>1, <2>2, <2>4, FreedRegions DEF FreeOldestSlot
  <2>6. slots' \in [Slots -> SlotType]
    BY <1>7, InitTypes DEF FreeOldestSlot, TypeInv, TypeOK
  <2>7. stage' \in {"pack", "fit"} /\ (stage' = "fit" => stage = "fit")
    BY <1>7 DEF FreeOldestSlot, MustFree
  <2>8. QED
    BY <1>7, <2>5, <2>6, <2>7
       DEF FreeOldestSlot, MustFree, TypeInv, TypeOK, Writing, Storing, Stages
<1>8. ASSUME OffsetMismatch PROVE TypeInv'
  BY <1>8
     DEF OffsetMismatch, MustFree, TypeInv, TypeOK, device, Writing, Storing,
         Stages
<1>9. ASSUME ChooseOffset PROVE TypeInv'
  <2>1. st \in StatType /\ RegionsOK(st) /\ job \in Job
    BY <1>9 DEF ChooseOffset, TypeInv, TypeOK, Writing
  <2>2. off' \in Offsets /\ RoomAt(st, off', job.len)
    <3>1. CASE st.appendMode
      BY <1>9, <2>1, <3>1, StatFields, JobTypes, SizesAssumption
         DEF ChooseOffset, AppendRoom, InsertRoom, RoomAt, Offsets
    <3>2. CASE ~st.appendMode
      BY <1>9, <2>1, <3>2, StatFields, JobTypes, SizesAssumption
         DEF ChooseOffset, AppendRoom, InsertRoom, RoomAt, Offsets
    <3>3. QED BY <3>1, <3>2
  <2>3. log' \in Seq(Entry)
    <3>1. [id |-> job.id, slot |-> job.slot, len |-> job.len] \in Entry
      BY <2>1, JobTypes DEF Entry
    <3>2. QED BY <1>9, <3>1 DEF ChooseOffset, TypeInv, TypeOK
  <2>4. QED
    BY <1>9, <2>1, <2>2, <2>3
       DEF ChooseOffset, TypeInv, TypeOK, device, Writing, Storing, Stages
<1>10. QED
  BY <1>1, <1>2, <1>3, <1>4, <1>5, <1>6, <1>7, <1>8, <1>9

(* The device writes of an entry, of its slot and of the status. *)
LEMMA TypeStore ==
  ASSUME TypeInv
  PROVE  /\ WriteWord => TypeInv'
         /\ WriteSlot => TypeInv'
         /\ WriteStat => TypeInv'
<1>1. ASSUME WriteWord PROVE TypeInv'
  <2>1. done' \in Nat /\ Len(log) \in Nat
    BY <1>1 DEF WriteWord, TypeInv, TypeOK
  <2>2. buf' \in [Words -> Cell]
    BY <1>1, <2>1 DEF WriteWord, TypeInv, TypeOK, Cell
  <2>3. QED
    BY <1>1, <2>1, <2>2
       DEF WriteWord, TypeInv, TypeOK, Writing, Storing, Stages
<1>2. ASSUME WriteSlot PROVE TypeInv'
  <2>1. job \in Job /\ job.len \in Offsets
    <3>1. /\ job \in Job /\ st \in StatType /\ RegionsOK(st)
          /\ off \in Offsets /\ RoomAt(st, off, job.len)
      BY <1>2 DEF WriteSlot, TypeInv, TypeOK, Writing, Storing
    <3>2. job.len <= BufSize
      BY <3>1, StatFields, JobTypes, SizesAssumption, SMT
         DEF RoomAt, Offsets
    <3>3. QED BY <3>1, <3>2, JobTypes, SizesAssumption, SMT DEF Offsets
  <2>2. [active |-> TRUE, id |-> job.id, len |-> job.len, offset |-> off]
          \in SlotType
    BY <2>1, JobTypes DEF SlotType, TypeInv, TypeOK
  <2>3. slots' \in [Slots -> SlotType]
    BY <1>2, <2>2 DEF WriteSlot, TypeInv, TypeOK
  <2>4. QED
    BY <1>2, <2>3
       DEF WriteSlot, TypeInv, TypeOK, Writing, Storing, Stages
<1>3. ASSUME WriteStat PROVE TypeInv'
  <2>1. stat' \in StatType /\ RegionsOK(stat')
    BY <1>3, PublishedRegions
       DEF WriteStat, TypeInv, TypeOK, Writing, Storing
  <2>2. QED
    BY <1>3, <2>1, TypeRelease DEF WriteStat, TypeInv, TypeOK
<1>4. QED BY <1>1, <1>2, <1>3

(* Re-initialisation, and a lock holder that goes away. *)
LEMMA TypeClear ==
  ASSUME TypeInv
  PROVE  /\ ClearBuf => TypeInv'
         /\ ClearSlot => TypeInv'
         /\ ClearStat => TypeInv'
         /\ Abandon => TypeInv'
<1>1. ASSUME ClearBuf PROVE TypeInv'
  <2>1. buf' \in [Words -> Cell]
    BY <1>1, InitTypes DEF ClearBuf, TypeInv, TypeOK
  <2>2. QED
    BY <1>1, <2>1 DEF ClearBuf, TypeInv, TypeOK, Writing, Storing, Stages
<1>2. ASSUME ClearSlot PROVE TypeInv'
  <2>1. slots' \in [Slots -> SlotType]
    BY <1>2, InitTypes DEF ClearSlot, TypeInv, TypeOK
  <2>2. QED
    BY <1>2, <2>1 DEF ClearSlot, TypeInv, TypeOK, Writing, Storing, Stages
<1>3. ASSUME ClearStat PROVE TypeInv'
  BY <1>3, InitTypes, TypeRelease DEF ClearStat, TypeInv, TypeOK
<1>4. ASSUME Abandon PROVE TypeInv'
  BY <1>4, TypeRelease DEF Abandon, device, TypeInv, TypeOK
<1>5. QED BY <1>1, <1>2, <1>3, <1>4

(* A reader reports an id it has read, so one of the log, or none. *)
LEMMA ReadIdsTyped == TypeInv => ReadIds \subseteq Ids \cup {Unset}
<1> SUFFICES ASSUME TypeInv PROVE ReadIds \subseteq Ids \cup {Unset}
  OBVIOUS
<1>1. log \in Seq(Entry)
  BY DEF TypeInv, TypeOK
<1>2. ASSUME NEW k \in 1 .. Len(log) PROVE log[k].id \in Ids
  <2>1. log[k] \in Entry
    BY <1>1, <1>2
  <2>2. QED BY <2>1 DEF Entry
<1>3. QED BY <1>2 DEF ReadIds

LEMMA TypeReport ==
  ASSUME TypeInv, NEW id \in Ids \cup {Unset}, ReaderReports(id)
  PROVE  TypeInv' /\ Agree(stat', stat)
<1>1. stat' \in StatType /\ Agree(stat', stat) /\ RegionsOK(stat')
  BY ReportUpdates DEF ReaderReports, TypeInv, TypeOK
<1>2. QED
  BY <1>1 DEF ReaderReports, local, TypeInv, TypeOK, Writing, Storing

LEMMA TypeStep == TypeInv /\ [Next]_vars => TypeInv'
<1> SUFFICES ASSUME TypeInv, [Next]_vars PROVE TypeInv'
  OBVIOUS
<1>1. CASE \E p \in Writers : \E len \in Lens : BeginWrite(p, len)
  BY <1>1, TypeBegin
<1>2. CASE \E p \in Writers : WakeUp(p)
  BY <1>2, TypeBegin
<1>3. CASE HolderStep
  BY <1>3, TypePrepare, TypeStore, TypeClear DEF HolderStep
<1>4. CASE Abandon
  BY <1>4, TypeClear
<1>5. CASE UNCHANGED vars
  BY <1>5
     DEF vars, device, local, TypeInv, TypeOK, Writing, Storing
<1>6. CASE \E id \in ReadIds : ReaderReports(id)
  BY <1>6, TypeReport, ReadIdsTyped
<1>7. QED
  BY <1>1, <1>2, <1>3, <1>4, <1>5, <1>6 DEF Next, WriterNext

(* The values of the write side keep their types, and the free regions of    *)
(* stat stay in order, through every interleaving, failure and               *)
(* re-initialisation: the code range-checks none of these before use.        *)
THEOREM TypeCorrect == Spec => []TypeInv
<1>1. Init => TypeInv
  BY TypeInit
<1>2. TypeInv /\ [Next]_vars => TypeInv'
  BY TypeStep
<1>3. QED BY <1>1, <1>2, PTL DEF Spec

(* Every variable of the write side keeps its type, whatever fails.           *)
THEOREM TypesHold == Spec => []TypeOK
<1>1. TypeInv => TypeOK
  BY DEF TypeInv
<1>2. QED BY <1>1, TypeCorrect, PTL

-----------------------------------------------------------------------------
(* Published messages are not overwritten.                                   *)

LEMMA SlotFacts ==
  ASSUME TypeOK
  PROVE  \A t \in Slots : /\ slots[t].offset \in Nat /\ slots[t].len \in Nat
                          /\ slots[t].offset <= BufSize
                          /\ slots[t].len <= BufSize
BY SizesAssumption DEF TypeOK, SlotType, Offsets

(* An unchanged device stays good. *)
LEMMA DeviceUnchanged ==
  ASSUME DeviceOK, UNCHANGED <<stat, slots, buf, log>>
  PROVE  DeviceOK'
BY DEF DeviceOK, SlotsOK, Fits, Content, Owned, Marked

(* The write slot is among the published ones only when the ring is full.    *)
LEMMA WriteSlotPublished ==
  ASSUME stat \in StatType, NEW t \in Slots, InActiveRegion(stat, t),
         t = WriteSlotOf(stat)
  PROVE  stat.oldestSlot = t
<1>1. stat.youngestSlot \in Slots /\ stat.oldestSlot \in Slots
  BY StatFields, SMT DEF InActiveRegion, Unset
<1>2. QED
  BY <1>1, SizesAssumption, SMT
     DEF InActiveRegion, WriteSlotOf, NextSlot, Slots

(* The invariant is strong enough. *)
LEMMA InvPublished == IInv => PublishedNotOverwritten
<1> SUFFICES ASSUME IInv, NEW t \in Slots, slots[t].active,
                    InActiveRegion(stat, t)
             PROVE  \E k \in 1 .. Len(log) : Owned(t, k)
  BY DEF PublishedNotOverwritten, Owned, Marked
<1>1. t = WriteSlotOf(stat) => stat.oldestSlot = t
  BY WriteSlotPublished DEF IInv, TypeInv, TypeOK
<1>2. QED BY <1>1 DEF IInv, DeviceOK, Content

(* A step that returns to idle and leaves a good device: nobody was asleep   *)
(* while the lock was held, or nobody has moved the write slot.              *)
LEMMA InvRelease ==
  ASSUME IInv, TypeInv', Release, DeviceOK', UNCHANGED waiting,
         stage # "idle" \/ stat' = stat
  PROVE  IInv'
<1>1. WaitOK'
  BY DEF IInv, WaitOK, Release
<1>2. QED
  BY <1>1 DEF IInv, Release, Writing, Storing, JobOK, EntryOK, ClearOK

(* While the lock is held nobody is asleep, so nothing is to be kept. *)
LEMMA WaitKept ==
  ASSUME IInv, stage # "idle", stage' # "block", UNCHANGED waiting
  PROVE  WaitOK'
BY DEF IInv, WaitOK

LEMMA InvInit == Init => IInv
<1> SUFFICES ASSUME Init PROVE IInv
  OBVIOUS
<1>1. \A t \in Slots : slots[t] = EmptySlot /\ ~slots[t].active
  BY DEF Init, EmptySlot
<1>2. DeviceOK
  BY <1>1 DEF DeviceOK, SlotsOK, Fits, Content
<1>3. QED
  BY <1>2, TypeInit
     DEF Init, IInv, WaitOK, Writing, Storing, JobOK, EntryOK, ClearOK

-----------------------------------------------------------------------------
(* Steps that leave the device alone.                                        *)
(* Taking the lock: from then on nobody is asleep. *)
LEMMA InvBegin ==
  ASSUME IInv, BlockingWrite = FALSE \/ OneWriter, NEW p \in Writers
  PROVE  /\ \A len \in Lens : BeginWrite(p, len) => IInv'
         /\ WakeUp(p) => IInv'
<1>0. TypeInv /\ DeviceOK
  BY DEF IInv
<1>1. ASSUME NEW len \in Lens, BeginWrite(p, len)
      PROVE  IInv'
  <2>1. TypeInv' /\ DeviceOK'
    BY <1>0, <1>1, TypeBegin, DeviceUnchanged DEF BeginWrite, device
  <2>2. /\ stage' \in {"block", "ring"} /\ st' = stat /\ stat' = stat
        /\ job'.slot = WriteSlotOf(stat)
        /\ BlockingWrite = FALSE => stage' = "ring"
    BY <1>1 DEF BeginWrite, device, WriteSlotOf
  <2>3. Fits(st, WriteSlotOf(stat))'
    BY <2>1, <2>2 DEF DeviceOK, Fits
  <2>4. Agree(st, stat)'
    BY <2>2 DEF Agree
  <2>5. WaitOK'
    <3>1. \A q \in Writers : waiting[q] = NoJob
      BY <1>1 DEF BeginWrite, IInv, WaitOK, OneWriter
    <3>2. QED BY <1>1, <2>2, <3>1 DEF BeginWrite, WaitOK
  <2>6. QED
    BY <1>1, <2>1, <2>2, <2>3, <2>4, <2>5
       DEF BeginWrite, IInv, JobOK, EntryOK, ClearOK, Writing, Storing,
           WriteSlotOf
<1>2. ASSUME WakeUp(p)
      PROVE  IInv'
  <2>1. TypeInv' /\ DeviceOK'
    BY <1>0, <1>2, TypeBegin, DeviceUnchanged DEF WakeUp, device
  <2>2. /\ stage' = "block" /\ st' = stat /\ stat' = stat
        /\ job'.slot = WriteSlotOf(stat)
    BY <1>2 DEF WakeUp, device, IInv, WaitOK
  <2>3. Fits(st, WriteSlotOf(stat))'
    BY <2>1, <2>2 DEF DeviceOK, Fits
  <2>4. Agree(st, stat)'
    BY <2>2 DEF Agree
  <2>5. WaitOK'
    <3>1. waiting \in [Writers -> Job \cup {NoJob}] /\ OneWriter
          /\ BlockingWrite # FALSE
      BY <1>0, <1>2 DEF WakeUp, TypeInv, TypeOK, IInv, WaitOK
    <3>2. \A q \in Writers : waiting'[q] = NoJob
      BY <1>2, <3>1 DEF WakeUp, OneWriter
    <3>3. QED BY <3>1, <3>2 DEF WaitOK
  <2>6. QED
    BY <1>2, <2>1, <2>2, <2>3, <2>4, <2>5
       DEF WakeUp, IInv, JobOK, EntryOK, ClearOK, Writing, Storing,
           WriteSlotOf
<1>3. QED BY <1>1, <1>2

(* The wait of a blocking write: the sleeper keeps the write slot. *)
LEMMA InvWait ==
  ASSUME IInv
  PROVE  /\ WaitForReader => IInv'
         /\ StopWaiting => IInv'
<1>0. TypeInv /\ DeviceOK
  BY DEF IInv
<1>1. ASSUME WaitForReader PROVE IInv'
  <2>1. TypeInv' /\ DeviceOK'
    BY <1>0, <1>1, TypePrepare, DeviceUnchanged DEF WaitForReader, device
  <2>2. /\ waiting \in [Writers -> Job \cup {NoJob}]
        /\ waiting' = [waiting EXCEPT ![lock] = job]
        /\ stage' = "idle" /\ stat' = stat
        /\ stage = "block"
    BY <1>0, <1>1 DEF WaitForReader, Release, device, TypeInv, TypeOK
  <2>3. /\ BlockingWrite # FALSE
        /\ job.slot = WriteSlotOf(stat)
        /\ \A q \in Writers : waiting[q] = NoJob
    BY <2>2 DEF IInv, WaitOK, JobOK, Writing
  <2>4. WaitOK'
    BY <2>2, <2>3 DEF WaitOK, WriteSlotOf
  <2>5. QED
    BY <2>1, <2>2, <2>4
       DEF IInv, JobOK, EntryOK, ClearOK, Writing, Storing
<1>2. ASSUME StopWaiting PROVE IInv'
  <2>1. TypeInv' /\ DeviceOK'
    BY <1>0, <1>2, TypePrepare, DeviceUnchanged DEF StopWaiting, device
  <2>2. /\ st'.beginInsert = st.beginInsert
        /\ st'.endInsert = st.endInsert
        /\ st'.beginAppend = st.beginAppend
        /\ st'.youngestSlot = st.youngestSlot
        /\ st'.oldestSlot = st.oldestSlot
        /\ st'.appendMode = st.appendMode
    BY <1>0, <1>2 DEF StopWaiting, TypeInv, TypeOK, StatType
  <2>3. Fits(st, WriteSlotOf(stat))' /\ Agree(st, stat)'
    BY <1>2, <2>2
       DEF StopWaiting, device, IInv, Fits, JobOK, Agree, Writing
  <2>4. WaitOK'
    BY <1>2 DEF StopWaiting, device, IInv, WaitOK
  <2>5. QED
    BY <1>2, <2>1, <2>3, <2>4
       DEF StopWaiting, device, IInv, JobOK, EntryOK, ClearOK, Writing,
           Storing
<1>3. QED BY <1>1, <1>2

(* A report in the middle of a write or of a re-initialisation. *)
LEMMA InvReport ==
  ASSUME IInv, NEW id \in Ids \cup {Unset}, ReaderReports(id)
  PROVE  IInv'
<1>1. TypeInv /\ TypeInv' /\ Agree(stat', stat)
  BY TypeReport DEF IInv
<1>2. WriteSlotOf(stat') = WriteSlotOf(stat)
  BY <1>1 DEF Agree, WriteSlotOf
<1>3. DeviceOK'
  BY <1>1, <1>2
     DEF ReaderReports, IInv, DeviceOK, SlotsOK, Fits, Content, Owned, Marked, Agree
<1>4. WaitOK'
  BY <1>2 DEF ReaderReports, local, IInv, WaitOK
<1>5. JobOK' /\ (Writing => Fits(st, WriteSlotOf(stat)))'
  BY <1>1, <1>2
     DEF ReaderReports, local, IInv, JobOK, Fits, Agree, Writing
<1>6. EntryOK' /\ ClearOK'
  BY DEF ReaderReports, local, IInv, EntryOK, ClearOK, Storing
<1>7. QED BY <1>1, <1>3, <1>4, <1>5, <1>6 DEF IInv

LEMMA InvPrepare ==
  ASSUME IInv
  PROVE  /\ RingHasRoom => IInv'
         /\ TooLarge => IInv'
         /\ Packed => IInv'
         /\ SwitchToInsert => IInv'
         /\ OffsetMismatch => IInv'
         /\ Abandon => IInv'
<1>0. TypeInv /\ DeviceOK
  BY DEF IInv
<1>1. ASSUME RingHasRoom PROVE IInv'
  <2>1. TypeInv' /\ DeviceOK'
    BY <1>0, <1>1, TypePrepare, DeviceUnchanged DEF RingHasRoom, device
  <2>2. QED
    BY <1>1, <2>1, WaitKept
       DEF RingHasRoom, device, IInv, Fits, JobOK, Agree, EntryOK, ClearOK,
           Writing, Storing
<1>2. ASSUME TooLarge PROVE IInv'
  BY <1>0, <1>2, TypePrepare, DeviceUnchanged, InvRelease
     DEF TooLarge, device
<1>3. ASSUME Packed PROVE IInv'
  <2>1. TypeInv' /\ DeviceOK'
    BY <1>0, <1>3, TypePrepare, DeviceUnchanged DEF Packed, device
  <2>2. QED
    BY <1>3, <2>1, WaitKept
       DEF Packed, device, IInv, Fits, JobOK, EntryOK, ClearOK, Writing,
           Storing
<1>4. ASSUME SwitchToInsert PROVE IInv'
  <2>1. TypeInv' /\ DeviceOK'
    BY <1>0, <1>4, TypePrepare, DeviceUnchanged DEF SwitchToInsert, device
  <2>2. /\ st'.beginInsert = st.beginInsert
        /\ st'.endInsert = st.endInsert
        /\ st'.beginAppend = st.beginAppend
    BY <1>0, <1>4 DEF SwitchToInsert, TypeInv, TypeOK, StatType
  <2>3. Fits(st, WriteSlotOf(stat))'
    BY <1>4, <2>2 DEF SwitchToInsert, device, IInv, Fits, Writing
  <2>4. QED
    BY <1>4, <2>1, <2>3, WaitKept
       DEF SwitchToInsert, device, IInv, JobOK, EntryOK, ClearOK, Writing,
           Storing
<1>5. ASSUME OffsetMismatch PROVE IInv'
  <2>1. TypeInv' /\ DeviceOK'
    BY <1>0, <1>5, TypePrepare, DeviceUnchanged DEF OffsetMismatch, device
  <2>2. QED
    BY <1>5, <2>1, WaitKept
       DEF OffsetMismatch, MustFree, IInv, JobOK, EntryOK, ClearOK, Writing, Storing
<1>6. ASSUME Abandon PROVE IInv'
  BY <1>0, <1>6, TypeClear, DeviceUnchanged, InvRelease DEF Abandon, device
<1>7. QED BY <1>1, <1>2, <1>3, <1>4, <1>5, <1>6

-----------------------------------------------------------------------------
(* Giving up slots.                                                          *)

(* Zeroing any slot leaves a good device. *)
LEMMA DeviceZeroed ==
  ASSUME TypeOK, DeviceOK, NEW o \in Slots,
         slots' = [slots EXCEPT ![o] = EmptySlot],
         UNCHANGED <<stat, buf, log>>
  PROVE  DeviceOK'
<1>1. /\ slots'[o] = EmptySlot /\ ~slots'[o].active
      /\ \A t \in Slots : t # o => slots'[t] = slots[t]
  BY DEF TypeOK, EmptySlot
<1>2. SlotsOK'
  BY <1>1 DEF DeviceOK, SlotsOK
<1>3. Fits(stat, WriteSlotOf(stat))'
  BY <1>1 DEF DeviceOK, Fits
<1>4. Content'
  <2> SUFFICES ASSUME NEW t \in Slots, slots'[t].active,
                      t = WriteSlotOf(stat) => stat.oldestSlot = t
               PROVE  \E k \in 1 .. Len(log) : Owned(t, k)'
    BY DEF Content
  <2>1. t # o /\ slots'[t] = slots[t] /\ slots[t].active
    BY <1>1
  <2>2. PICK k \in 1 .. Len(log) : Owned(t, k)
    BY <2>1 DEF DeviceOK, Content
  <2>3. Owned(t, k)'
    BY <2>1, <2>2 DEF Owned, Marked
  <2>4. QED BY <2>3
<1>5. QED BY <1>2, <1>3, <1>4 DEF DeviceOK

(* The slots that remain lie outside the grown free region: they are         *)
(* disjoint from the one given up, which began where the region ended.       *)
LEMMA FreedFits ==
  ASSUME TypeOK, SlotsOK, RegionsOK(st), Fits(st, WriteSlotOf(stat)),
         st.oldestSlot \in Slots, st.oldestSlot # Unset,
         slots[st.oldestSlot].offset = st.endInsert,
         slots' = [slots EXCEPT ![st.oldestSlot] = EmptySlot],
         st' = Freed(st, slots[st.oldestSlot].len), stat' = stat
  PROVE  Fits(st, WriteSlotOf(stat))'
<1> DEFINE o == st.oldestSlot
           len == slots[o].len
<1>1. st \in StatType /\ len \in Offsets /\ len \in Nat
  BY SlotFacts DEF TypeOK, SlotType
<1>2. LET merged == st.endInsert + len >= st.beginAppend
      IN  /\ st'.endInsert = IF merged THEN 0 ELSE st.endInsert + len
          /\ st'.beginAppend = IF merged THEN st.beginInsert
                                         ELSE st.beginAppend
          /\ st'.beginInsert = IF merged THEN 0 ELSE st.beginInsert
  BY <1>1, FreedRegions
<1> SUFFICES ASSUME NEW t \in Slots, slots'[t].active,
                    t # WriteSlotOf(stat)
             PROVE  \/ slots'[t].offset + slots'[t].len <= st'.beginInsert
                    \/ /\ slots'[t].offset >= st'.endInsert
                       /\ slots'[t].offset + slots'[t].len <= st'.beginAppend
  BY DEF Fits, WriteSlotOf
<1>3. t # o /\ slots'[t] = slots[t] /\ slots[t].active
  BY DEF TypeOK, EmptySlot
<1>4. \/ slots[t].offset + slots[t].len <= st.beginInsert
      \/ /\ slots[t].offset >= st.endInsert
         /\ slots[t].offset + slots[t].len <= st.beginAppend
  BY <1>3 DEF Fits
<1>5. \/ slots[t].offset + slots[t].len <= st.endInsert
      \/ slots[t].offset >= st.endInsert + len
  <2>1. CASE slots[o].active
    BY <1>3, <2>1, SlotFacts DEF SlotsOK
  <2>2. CASE ~slots[o].active
    <3>1. len = 0
      BY <2>2 DEF SlotsOK, EmptySlot
    <3>2. QED
      BY <1>1, <1>4, <3>1, SlotFacts, StatFields, SMT DEF RegionsOK
  <2>3. QED BY <2>1, <2>2
<1>6. slots[t].len > 0
  BY <1>3 DEF SlotsOK
<1>7. QED
  BY <1>1, <1>2, <1>3, <1>4, <1>5, <1>6, SlotFacts, StatFields, SMT
     DEF RegionsOK

LEMMA InvFree ==
  ASSUME IInv, FreeOldestSlot
  PROVE  IInv'
<1>1. TypeInv /\ TypeOK /\ DeviceOK /\ TypeInv'
  BY TypePrepare DEF IInv, TypeInv
<1>2. Writing /\ st \in StatType /\ RegionsOK(st) /\ job \in Job
  BY <1>1 DEF FreeOldestSlot, MustFree, TypeInv, TypeOK, Writing
<1>3. st.oldestSlot \in Slots /\ st.oldestSlot # Unset
  <2>1. st.oldestSlot # Unset
    BY <1>2, JobTypes, IndexRange, SMT
       DEF FreeOldestSlot, MustFree, RegionsOK, Slots, Unset
  <2>2. QED BY <1>2, <2>1, StatFields
<1>4. DeviceOK'
  BY <1>1, <1>3, DeviceZeroed DEF FreeOldestSlot
<1>5. Fits(st, WriteSlotOf(stat))'
  BY <1>1, <1>2, <1>3, FreedFits
     DEF FreeOldestSlot, IInv, DeviceOK, Fits
<1>6. JobOK'
  <2>1. job'.slot = WriteSlotOf(stat') /\ stage' \in {"pack", "fit"}
    BY <1>2 DEF FreeOldestSlot, MustFree, IInv, JobOK
  <2>2. stat'.oldestSlot = job'.slot => ~slots'[job'.slot].active
    <3>1. CASE stage = "ring"
      BY <1>1, <1>3, <3>1
         DEF FreeOldestSlot, MustFree, TypeOK, EmptySlot, IInv, JobOK, Agree
    <3>2. CASE stage = "fit"
      BY <1>1, <1>2, <1>3, <3>2, JobTypes
         DEF FreeOldestSlot, TypeOK, EmptySlot, IInv, JobOK
    <3>3. QED BY <3>1, <3>2 DEF FreeOldestSlot, MustFree
  <2>3. QED BY <2>1, <2>2 DEF JobOK
<1>7. QED
  BY <1>1, <1>4, <1>5, <1>6, WaitKept
     DEF FreeOldestSlot, MustFree, IInv, EntryOK, ClearOK, Storing

-----------------------------------------------------------------------------
(* Storing the entry.                                                        *)

(* The region chosen for the entry holds no word of another slot in use.     *)
LEMMA RoomIsFree ==
  ASSUME IInv, Storing, NEW t \in Slots, slots[t].active, t # job.slot
  PROVE  \/ slots[t].offset + slots[t].len <= off
         \/ off + job.len <= slots[t].offset
<1>1. /\ TypeOK /\ st \in StatType /\ RegionsOK(st) /\ job \in Job
      /\ off \in Nat /\ RoomAt(st, off, job.len)
  BY IndexRange DEF IInv, TypeInv, TypeOK, Storing, Writing
<1>2. \/ slots[t].offset + slots[t].len <= st.beginInsert
      \/ /\ slots[t].offset >= st.endInsert
         /\ slots[t].offset + slots[t].len <= st.beginAppend
  BY DEF IInv, JobOK, Fits, Storing, Writing
<1>3. QED
  BY <1>1, <1>2, SlotFacts, StatFields, JobTypes, SMT DEF RoomAt, RegionsOK

LEMMA InvChoose ==
  ASSUME IInv, ChooseOffset
  PROVE  IInv'
<1>1. TypeInv /\ TypeInv' /\ DeviceOK /\ TypeOK
  BY TypePrepare DEF IInv, TypeInv
<1>2. /\ log \in Seq(Entry) /\ Len(log) \in Nat
      /\ [id |-> job.id, slot |-> job.slot, len |-> job.len] \in Entry
  BY <1>1, JobTypes DEF TypeInv, TypeOK, ChooseOffset, Entry
<1>3. /\ Len(log') = Len(log) + 1
      /\ \A k \in 1 .. Len(log) : log'[k] = log[k]
      /\ log'[Len(log')] =
           [id |-> job.id, slot |-> job.slot, len |-> job.len]
  BY <1>2 DEF ChooseOffset
<1>4. Content'
  <2> SUFFICES ASSUME NEW t \in Slots, slots[t].active,
                      t = WriteSlotOf(stat) => stat.oldestSlot = t
               PROVE  \E k \in 1 .. Len(log') : Owned(t, k)'
    BY DEF ChooseOffset, device, Content, WriteSlotOf
  <2>1. PICK k \in 1 .. Len(log) : Owned(t, k)
    BY <1>1 DEF DeviceOK, Content
  <2>2. k \in 1 .. Len(log') /\ Owned(t, k)'
    BY <1>2, <1>3, <2>1 DEF Owned, Marked, ChooseOffset, device
  <2>3. QED BY <2>2
<1>5. DeviceOK'
  BY <1>1, <1>4 DEF DeviceOK, SlotsOK, Fits, ChooseOffset, device
<1>6. EntryOK'
  <2>1. job' = job /\ done' = 0 /\ stage' = "entry" /\ job.len >= 0
    BY <1>1, JobTypes, SMT DEF ChooseOffset, TypeInv, TypeOK, Writing
  <2>2. QED
    BY <1>2, <1>3, <2>1 DEF EntryOK, Storing
<1>7. QED
  BY <1>1, <1>5, <1>6, WaitKept
     DEF ChooseOffset, device, IInv, Fits, JobOK, ClearOK, Writing

LEMMA InvWord ==
  ASSUME IInv, WriteWord
  PROVE  IInv'
<1>1. TypeInv /\ TypeInv' /\ DeviceOK /\ TypeOK /\ Storing
  BY TypeStore DEF IInv, TypeInv, WriteWord, Storing
<1>2. /\ off \in Nat /\ done \in Nat /\ job \in Job /\ job.len \in Nat
      /\ done < job.len /\ Len(log) \in Nat
  BY <1>1, IndexRange, JobTypes DEF WriteWord, TypeInv, TypeOK, Writing
<1>3. off + job.len <= BufSize
  <2>1. st \in StatType /\ RegionsOK(st) /\ RoomAt(st, off, job.len)
    BY <1>1 DEF TypeInv, TypeOK, Storing, Writing
  <2>2. st.endInsert <= BufSize /\ st.endInsert \in Nat
    BY <2>1, StatFields
  <2>3. QED
    BY <1>2, <2>1, <2>2, SizesAssumption, SMT DEF RoomAt
<1>4. /\ buf'[off + done] = [ser |-> Len(log), word |-> done + 1]
      /\ \A w \in Words : w # off + done => buf'[w] = buf[w]
  <2>1. off + done \in Words
    BY <1>2, <1>3, SizesAssumption, SMT DEF Words
  <2>2. QED BY <1>1, <2>1 DEF WriteWord, TypeOK
<1>5. Content'
  <2> SUFFICES ASSUME NEW t \in Slots, slots[t].active,
                      t = WriteSlotOf(stat) => stat.oldestSlot = t
               PROVE  \E k \in 1 .. Len(log) : Owned(t, k)'
    BY DEF WriteWord, Content, WriteSlotOf
  <2>1. t # job.slot
    BY DEF WriteWord, IInv, JobOK, Writing
  <2>2. PICK k \in 1 .. Len(log) : Owned(t, k)
    BY <1>1 DEF DeviceOK, Content
  <2>3. \A i \in 1 .. log[k].len :
          /\ slots[t].offset + i - 1 \in Words
          /\ slots[t].offset + i - 1 # off + done
    <3>1. /\ slots[t].offset \in Nat /\ slots[t].len \in Nat
          /\ slots[t].offset + slots[t].len <= BufSize
          /\ log[k].len = slots[t].len
      BY <1>1, <2>2, SlotFacts DEF DeviceOK, SlotsOK, Owned, Marked
    <3>2. \/ slots[t].offset + slots[t].len <= off
          \/ off + job.len <= slots[t].offset
      BY <1>1, <2>1, RoomIsFree
    <3>3. ASSUME NEW i \in 1 .. slots[t].len
          PROVE  /\ slots[t].offset + i - 1 \in Words
                 /\ slots[t].offset + i - 1 # off + done
      <4>1. i \in Nat /\ 1 <= i /\ i <= slots[t].len
        BY <3>1, <3>3
      <4>2. slots[t].offset + i - 1 \in Words
        BY <3>1, <4>1, SizesAssumption, SMT DEF Words
      <4>3. slots[t].offset + i - 1 # off + done
        BY <1>2, <3>1, <3>2, <4>1, SMT
      <4>4. QED BY <4>2, <4>3
    <3>4. QED BY <3>1, <3>3
  <2>4. Owned(t, k)'
    BY <1>4, <2>2, <2>3 DEF Owned, Marked, WriteWord
  <2>5. QED BY <2>4
<1>6. DeviceOK'
  BY <1>1, <1>5 DEF DeviceOK, SlotsOK, Fits, WriteWord
<1>7. EntryOK'
  <2>1. \A i \in 1 .. done' :
          buf'[off + i - 1] = [ser |-> Len(log), word |-> i]
    <3> SUFFICES ASSUME NEW i \in 1 .. done + 1
                 PROVE  buf'[off + i - 1] = [ser |-> Len(log), word |-> i]
      BY DEF WriteWord
    <3>1. CASE i = done + 1
      BY <1>2, <1>4, <3>1
    <3>2. CASE i # done + 1
      <4>1. /\ i \in 1 .. done /\ off + i - 1 \in Words
            /\ off + i - 1 # off + done
        BY <1>2, <1>3, <3>2, SizesAssumption, SMT DEF Words
      <4>2. QED
        BY <1>1, <1>4, <4>1 DEF IInv, EntryOK
    <3>3. QED BY <3>1, <3>2
  <2>2. done' <= job.len /\ (stage' = "slot" => done' = job.len)
    BY <1>2, SMT DEF WriteWord
  <2>3. stage' \in {"entry", "slot"}
    BY DEF WriteWord
  <2>4. QED
    BY <1>1, <2>1, <2>2, <2>3 DEF IInv, EntryOK, Storing, WriteWord
<1>8. QED
  BY <1>1, <1>6, <1>7, WaitKept
     DEF WriteWord, IInv, Fits, JobOK, ClearOK, Writing, Storing

LEMMA InvSlot ==
  ASSUME IInv, WriteSlot
  PROVE  IInv'
<1> DEFINE w == job.slot
           new == [active |-> TRUE, id |-> job.id, len |-> job.len,
                   offset |-> off]
<1>1. TypeInv /\ TypeInv' /\ DeviceOK /\ TypeOK /\ Storing
  BY TypeStore DEF IInv, TypeInv, WriteSlot, Storing
<1>2. /\ job \in Job /\ w \in Slots /\ job.len \in Nat /\ job.len > 0
      /\ w = WriteSlotOf(stat) /\ done = job.len
  BY <1>1, JobTypes
     DEF TypeInv, TypeOK, WriteSlot, IInv, JobOK, EntryOK, Writing
<1>3. /\ slots'[w] = new
      /\ \A t \in Slots : t # w => slots'[t] = slots[t]
  BY <1>1, <1>2 DEF WriteSlot, TypeOK
<1>4. off + job.len <= BufSize
  <2>1. /\ st \in StatType /\ RegionsOK(st) /\ RoomAt(st, off, job.len)
        /\ off \in Nat
    BY <1>1, IndexRange DEF TypeInv, TypeOK, Storing, Writing
  <2>2. st.endInsert <= BufSize /\ st.endInsert \in Nat
    BY <2>1, StatFields
  <2>3. QED
    BY <1>2, <2>1, <2>2, SizesAssumption, SMT DEF RoomAt
<1>5. SlotsOK'
  <2>1. \A t \in Slots :
          IF slots'[t].active
          THEN slots'[t].len > 0 /\ slots'[t].offset + slots'[t].len <= BufSize
          ELSE slots'[t] = EmptySlot
    BY <1>1, <1>2, <1>3, <1>4 DEF DeviceOK, SlotsOK
  <2>2. \A t \in Slots : slots[t].active /\ t # w =>
          \/ slots[t].offset + slots[t].len <= off
          \/ off + job.len <= slots[t].offset
    BY <1>1, RoomIsFree
  <2>3. ASSUME NEW t \in Slots, NEW u \in Slots, t # u,
               slots'[t].active, slots'[u].active
        PROVE  \/ slots'[t].offset + slots'[t].len <= slots'[u].offset
               \/ slots'[u].offset + slots'[u].len <= slots'[t].offset
    <3>1. CASE t = w
      BY <1>2, <1>3, <2>2, <2>3, <3>1
    <3>2. CASE u = w
      BY <1>2, <1>3, <2>2, <2>3, <3>2
    <3>3. CASE t # w /\ u # w
      BY <1>1, <1>3, <2>3, <3>3 DEF DeviceOK, SlotsOK
    <3>4. QED BY <3>1, <3>2, <3>3
  <2>4. QED BY <2>1, <2>3 DEF SlotsOK
<1>6. Fits(stat, WriteSlotOf(stat))' /\ Fits(st, WriteSlotOf(stat))'
  BY <1>1, <1>2, <1>3
     DEF WriteSlot, IInv, DeviceOK, Fits, WriteSlotOf, Writing
<1>7. Content'
  <2> SUFFICES ASSUME NEW t \in Slots, slots'[t].active,
                      t = WriteSlotOf(stat) => stat.oldestSlot = t
               PROVE  \E k \in 1 .. Len(log) : Owned(t, k)'
    BY DEF WriteSlot, Content, WriteSlotOf
  <2>1. CASE t # w
    <3>1. slots'[t] = slots[t] /\ slots[t].active
      BY <1>3, <2>1
    <3>2. PICK k \in 1 .. Len(log) : Owned(t, k)
      BY <1>1, <3>1 DEF DeviceOK, Content
    <3>3. Owned(t, k)'
      BY <3>1, <3>2 DEF Owned, Marked, WriteSlot
    <3>4. QED BY <3>3
  <2>2. CASE t = w
    <3>1. /\ Len(log) > 0 /\ Len(log) \in Nat
          /\ log[Len(log)] =
               [id |-> job.id, slot |-> job.slot, len |-> job.len]
          /\ \A i \in 1 .. job.len :
               buf[off + i - 1] = [ser |-> Len(log), word |-> i]
      BY <1>1, <1>2 DEF IInv, EntryOK, TypeInv, TypeOK
    <3>2. Len(log) \in 1 .. Len(log)
      BY <3>1
    <3>3. Owned(t, Len(log))'
      BY <1>3, <2>2, <3>1 DEF Owned, Marked, WriteSlot
    <3>4. QED BY <3>2, <3>3 DEF WriteSlot
  <2>3. QED BY <2>1, <2>2
<1>8. EntryOK'
  BY <1>1, <1>3 DEF WriteSlot, IInv, EntryOK, Storing
<1>9. QED
  BY <1>1, <1>5, <1>6, <1>7, <1>8, WaitKept
     DEF WriteSlot, IInv, DeviceOK, JobOK, ClearOK, Writing, Storing,
         WriteSlotOf

(* Publishing moves the write slot on by one: the slot just written joins    *)
(* the others, and the next one is exempt.                                   *)
LEMMA InvPublish ==
  ASSUME IInv, WriteStat
  PROVE  IInv'
<1> DEFINE w == job.slot
<1>1. TypeInv /\ TypeInv' /\ DeviceOK /\ TypeOK /\ Storing
  BY TypeStore DEF IInv, TypeInv, WriteStat, Storing
<1>2. /\ job \in Job /\ w \in Slots /\ job.len \in Nat
      /\ w = WriteSlotOf(stat)
      /\ slots[w] = [active |-> TRUE, id |-> job.id, len |-> job.len,
                     offset |-> off]
  BY <1>1, JobTypes
     DEF TypeInv, TypeOK, WriteStat, IInv, JobOK, EntryOK, Writing
<1>3. /\ st \in StatType /\ RegionsOK(st) /\ off \in Offsets
      /\ off \in Nat /\ RoomAt(st, off, job.len)
  BY <1>1, IndexRange DEF TypeInv, TypeOK, Storing, Writing
<1>4. /\ stat'.youngestSlot = w
      /\ stat'.beginAppend = IF st.appendMode THEN st.beginAppend + job.len
                                              ELSE st.beginAppend
      /\ stat'.beginInsert = IF st.appendMode THEN st.beginInsert
                                              ELSE st.beginInsert + job.len
      /\ stat'.endInsert = st.endInsert
  BY <1>2, <1>3, PublishedRegions DEF WriteStat
<1>5. SlotsOK'
  BY <1>1 DEF WriteStat, DeviceOK, SlotsOK
<1>6. Fits(stat, WriteSlotOf(stat))'
  <2> SUFFICES ASSUME NEW t \in Slots, slots[t].active
               PROVE  \/ slots[t].offset + slots[t].len <= stat'.beginInsert
                      \/ /\ slots[t].offset >= stat'.endInsert
                         /\ slots[t].offset + slots[t].len <= stat'.beginAppend
    BY DEF WriteStat, Fits
  <2>1. CASE t = w
    BY <1>2, <1>3, <1>4, <2>1, StatFields, SMT DEF RoomAt, RegionsOK
  <2>2. CASE t # w
    <3>1. \/ slots[t].offset + slots[t].len <= st.beginInsert
          \/ /\ slots[t].offset >= st.endInsert
             /\ slots[t].offset + slots[t].len <= st.beginAppend
      BY <1>1, <1>2, <2>2 DEF IInv, Fits, Storing, Writing
    <3>2. QED
      BY <1>1, <1>2, <1>3, <1>4, <3>1, StatFields, SlotFacts, SMT
  <2>3. QED BY <2>1, <2>2
<1>7. Content'
  <2> SUFFICES ASSUME NEW t \in Slots, slots[t].active,
                      t = WriteSlotOf(stat') => stat'.oldestSlot = t
               PROVE  \E k \in 1 .. Len(log) : Owned(t, k)'
    BY DEF WriteStat, Content, WriteSlotOf
  <2>1. CASE t # w
    <3>1. PICK k \in 1 .. Len(log) : Owned(t, k)
      BY <1>1, <1>2, <2>1 DEF DeviceOK, Content
    <3>2. Owned(t, k)'
      BY <3>1 DEF Owned, Marked, WriteStat
    <3>3. QED BY <3>2
  <2>2. CASE t = w
    <3>1. /\ Len(log) \in 1 .. Len(log)
          /\ log[Len(log)] =
               [id |-> job.id, slot |-> job.slot, len |-> job.len]
          /\ \A i \in 1 .. job.len :
               buf[off + i - 1] = [ser |-> Len(log), word |-> i]
      BY <1>1 DEF IInv, EntryOK, TypeInv, TypeOK, WriteStat
    <3>2. Owned(t, Len(log))'
      BY <1>2, <2>2, <3>1 DEF Owned, Marked, WriteStat
    <3>3. QED BY <3>1, <3>2 DEF WriteStat
  <2>3. QED BY <2>1, <2>2
<1>8. QED
  BY <1>1, <1>5, <1>6, <1>7, InvRelease DEF WriteStat, DeviceOK

-----------------------------------------------------------------------------
(* Re-initialisation.                                                        *)
LEMMA InvClear ==
  ASSUME IInv
  PROVE  /\ ClearBuf => IInv'
         /\ ClearSlot => IInv'
         /\ ClearStat => IInv'
<1>1. TypeInv /\ TypeOK /\ DeviceOK
  BY DEF IInv, TypeInv
<1>2. ASSUME ClearBuf PROVE IInv'
  <2>1. \A x \in Words : \/ buf'[x] = buf[x]
                         \/ x \in {0, BufSize - 1} /\ buf'[x].ser = 0
    BY <1>1, <1>2 DEF ClearBuf, TypeOK, BareCookie, NoWord
  <2>2. Content'
    <3> SUFFICES ASSUME NEW t \in Slots, slots[t].active,
                        t = WriteSlotOf(stat) => stat.oldestSlot = t
                 PROVE  \E k \in 1 .. Len(log) : Owned(t, k)'
      BY <1>2 DEF ClearBuf, Content, WriteSlotOf
    <3>1. PICK k \in 1 .. Len(log) : Owned(t, k)
      BY <1>1 DEF DeviceOK, Content
    <3>2. ASSUME NEW i \in 1 .. log[k].len
          PROVE  slots[t].offset + i - 1 \in Words
      <4>1. /\ slots[t].offset \in Nat /\ slots[t].len \in Nat
            /\ slots[t].offset + slots[t].len <= BufSize
            /\ log[k].len = slots[t].len
        BY <1>1, <3>1, SlotFacts DEF DeviceOK, SlotsOK, Owned, Marked
      <4>2. QED BY <3>2, <4>1, SizesAssumption, SMT DEF Words
    <3>3. ASSUME NEW i \in 1 .. log[k].len
          PROVE  LET w == slots[t].offset + i - 1
                 IN  buf'[w] = [ser |-> k, word |-> i] \/ Marked(w)'
      <4>1. LET w == slots[t].offset + i - 1
            IN  buf[w] = [ser |-> k, word |-> i] \/ Marked(w)
        BY <3>1, <3>3 DEF Owned
      <4>2. PICK w \in Words : w = slots[t].offset + i - 1
        BY <3>2, <3>3
      <4>3. buf'[w] = [ser |-> k, word |-> i] \/ Marked(w)'
        BY <2>1, <4>1, <4>2 DEF Marked
      <4>4. QED BY <1>2, <4>2, <4>3 DEF ClearBuf
    <3>4. Owned(t, k)'
      BY <1>2, <3>1, <3>3 DEF Owned, ClearBuf
    <3>5. QED BY <3>4
  <2>3. DeviceOK'
    BY <1>1, <1>2, <2>2 DEF ClearBuf, DeviceOK, SlotsOK, Fits
  <2>4. \A t \in Slots : ~(t < 0)
    BY IndexRange
  <2>5. QED
    BY <1>1, <1>2, <2>3, <2>4, TypeClear, WaitKept
       DEF ClearBuf, IInv, JobOK, EntryOK, ClearOK, Writing, Storing
<1>3. ASSUME ClearSlot PROVE IInv'
  <2>1. TypeInv' /\ stage' \in {"clearSlots", "clearStat"}
    BY <1>1, <1>3, TypeClear DEF ClearSlot
  <2>2. DeviceOK'
    <3>1. CASE done \in Slots
      BY <1>1, <1>3, <3>1, DeviceZeroed DEF ClearSlot
    <3>2. CASE done \notin Slots
      <4>1. slots' = slots
        BY <1>1, <1>3, <3>2 DEF ClearSlot, TypeOK
      <4>2. QED
        BY <1>1, <1>3, <4>1, DeviceUnchanged DEF ClearSlot
    <3>3. QED BY <3>1, <3>2
  <2>3. \A t \in Slots : t < done' => ~slots'[t].active
    <3>1. done \in Nat /\ done' = done + 1
      BY <1>1, <1>3 DEF ClearSlot, TypeOK
    <3>2. \A t \in Slots : t < done' => t < done \/ t = done
      BY <3>1, IndexRange
    <3>3. \A t \in Slots : t < done => ~slots[t].active
      BY <1>3 DEF ClearSlot, IInv, ClearOK
    <3>4. QED
      BY <1>1, <1>3, <3>2, <3>3 DEF ClearSlot, TypeOK, EmptySlot
  <2>4. stage' = "clearStat" => \A t \in Slots : t < done'
    BY <1>3, SizesAssumption, SMT DEF ClearSlot, Slots
  <2>5. QED
    BY <1>3, <2>1, <2>2, <2>3, <2>4, WaitKept
       DEF ClearSlot, IInv, JobOK, EntryOK, ClearOK, Writing, Storing
<1>4. ASSUME ClearStat PROVE IInv'
  <2>1. \A t \in Slots : ~slots[t].active
    BY <1>4 DEF ClearStat, IInv, ClearOK
  <2>2. DeviceOK'
    BY <1>1, <1>4, <2>1
       DEF ClearStat, DeviceOK, SlotsOK, Fits, Content
  <2>3. QED
    BY <1>1, <1>4, <2>2, TypeClear, InvRelease DEF ClearStat
<1>5. QED BY <1>2, <1>3, <1>4

LEMMA InvStep ==
  (BlockingWrite = FALSE \/ OneWriter) /\ IInv /\ [Next]_vars => IInv'
<1> SUFFICES ASSUME BlockingWrite = FALSE \/ OneWriter, IInv, [Next]_vars
             PROVE  IInv'
  OBVIOUS
<1>1. CASE \E p \in Writers : \E len \in Lens : BeginWrite(p, len)
  BY <1>1, InvBegin
<1>2. CASE \E p \in Writers : WakeUp(p)
  BY <1>2, InvBegin
<1>3. CASE HolderStep
  BY <1>3, InvWait, InvPrepare, InvFree, InvChoose, InvWord, InvSlot,
     InvPublish, InvClear DEF HolderStep
<1>4. CASE Abandon
  BY <1>4, InvPrepare
<1>5. CASE \E id \in ReadIds : ReaderReports(id)
  BY <1>5, InvReport, ReadIdsTyped DEF IInv
<1>6. CASE UNCHANGED vars
  <2>1. DeviceOK' /\ TypeInv'
    BY <1>6, DeviceUnchanged, TypeStep DEF IInv, vars, device
  <2>2. WaitOK'
    BY <1>6 DEF vars, device, local, IInv, WaitOK
  <2>3. QED
    BY <1>6, <2>1, <2>2
       DEF vars, device, local, IInv, Fits, JobOK, EntryOK, ClearOK,
           Writing, Storing
<1>7. QED
  BY <1>1, <1>2, <1>3, <1>4, <1>5, <1>6 DEF Next, WriterNext

(* The inductive invariant behind PublishedSafe holds of every behaviour:    *)
(* stat, its copy and the slot table differ only in the ways it lists.       *)
THEOREM InvHolds == BlockingWrite = FALSE \/ OneWriter => (Spec => []IInv)
<1> SUFFICES ASSUME BlockingWrite = FALSE \/ OneWriter PROVE Spec => []IInv
  OBVIOUS
<1>1. Init => IInv
  BY InvInit
<1>2. IInv /\ [Next]_vars => IInv'
  BY InvStep
<1>3. QED BY <1>1, <1>2, PTL DEF Spec

(* No write, and no writer that dies or fails half way, reuses the words of  *)
(* a published message: for any number of writers that do not block or a     *)
(* single one that does, any ring, any buffer and any lengths, one too large *)
(* for the buffer included, and whatever the readers report and when.        *)
THEOREM PublishedSafe ==
  BlockingWrite = FALSE \/ OneWriter => (Spec => []PublishedNotOverwritten)
<1> SUFFICES ASSUME BlockingWrite = FALSE \/ OneWriter
             PROVE  Spec => []PublishedNotOverwritten
  OBVIOUS
<1>1. Init => IInv
  BY InvInit
<1>2. IInv /\ [Next]_vars => IInv'
  BY InvStep
<1>3. IInv => PublishedNotOverwritten
  BY InvPublished
<1>4. QED BY <1>1, <1>2, <1>3, PTL DEF Spec

-----------------------------------------------------------------------------
(* The ring, when nothing fails.                                            *)

(* Places round the ring, counted from the oldest message. *)
LEMMA Places ==
  ASSUME NEW s \in StatType
  PROVE  /\ Oldest(s) \in Slots
         /\ \A i \in 0 .. NSlots : Place(s, i) \in Slots
         /\ \A i, j \in 0 .. NSlots - 1 : Place(s, i) = Place(s, j) => i = j
         /\ \A i \in 0 .. NSlots - 1 : NextSlot(Place(s, i)) = Place(s, i + 1)
         /\ Place(s, 0) = Oldest(s) /\ Place(s, NSlots) = Oldest(s)
<1>1. Oldest(s) \in Int /\ 0 <= Oldest(s) /\ Oldest(s) < NSlots
  BY StatFields, SizesAssumption, SMT DEF Oldest, Slots, Unset
<1>2. NSlots \in Int /\ 0 < NSlots
  BY SizesAssumption
<1>3. /\ \A i \in 0 .. NSlots : Place(s, i) \in Slots
      /\ \A i, j \in 0 .. NSlots - 1 : Place(s, i) = Place(s, j) => i = j
      /\ Place(s, 0) = Oldest(s) /\ Place(s, NSlots) = Oldest(s)
  BY <1>1, <1>2, SMT DEF Place, Wrap, Slots
<1>4. \A i \in 0 .. NSlots - 1 : NextSlot(Place(s, i)) = Place(s, i + 1)
  BY <1>1, <1>2, SMT DEF Place, Wrap, NextSlot
<1>5. QED BY <1>1, <1>2, <1>3, <1>4, SMT DEF Slots

(* A step that moves no message and no pointer. *)
LEMMA RingKept ==
  ASSUME NEW n \in 0 .. NSlots, NEW m \in 0 .. NSlots,
         Counts(Cur, n, m), Chained(Cur, n, m), Regions(Cur, n, m),
         Agree(Cur', Cur), Newest' = Newest,
         \A i \in 0 .. n - 1 : slots'[Place(Cur, i)] = slots[Place(Cur, i)]
  PROVE  (Counts(Cur, n, m) /\ Chained(Cur, n, m) /\ Regions(Cur, n, m))'
<1>1. \A i : Place(Cur', i) = Place(Cur, i)
  BY DEF Agree, Place, Oldest
<1>2. Counts(Cur, n, m)'
  BY <1>1 DEF Agree, Counts, WriteSlotOf
<1>3. Chained(Cur, n, m)'
  <2>1. \A i \in 0 .. n - 1 : /\ EndOf(Place(Cur, i))' = EndOf(Place(Cur, i))
                             /\ slots'[Place(Cur', i)] = slots[Place(Cur, i)]
    BY <1>1 DEF EndOf
  <2>2. /\ n > 0 => 0 \in 0 .. n - 1 /\ n - 1 \in 0 .. n - 1
        /\ m > 0 /\ m <= n => m - 1 \in 0 .. n - 1
        /\ m < n => n > 0
        /\ \A i \in 1 .. n - 1 : i \in 0 .. n - 1 /\ i - 1 \in 0 .. n - 1
    BY SizesAssumption, SMT
  <2>3. m <= n
    BY DEF Counts
  <2>4. QED BY <1>1, <2>1, <2>2, <2>3 DEF Agree, Chained
<1>4. Regions(Cur, n, m)'
  BY <1>1 DEF Agree, Regions, EndOf, Covers, Taken
<1>5. QED BY <1>2, <1>3, <1>4

LEMMA CurFacts ==
  ASSUME TypeInv
  PROVE  Cur \in StatType /\ RegionsOK(Cur)
BY DEF TypeInv, TypeOK, Cur

(* Nor one that lets the messages kept lie as they are. *)
LEMMA RingStays ==
  ASSUME NEW n \in 0 .. NSlots, NEW m \in 0 .. NSlots,
         Ring(Cur, n, m), Agree(Cur', Cur), Newest' = Newest,
         \A i \in 0 .. n - 1 : slots'[Place(Cur, i)] = slots[Place(Cur, i)],
         \A i \in 0 .. n - 1 : \A t, k :
           t = Place(Cur, i) /\ k = Newest - n + 1 + i /\ HoldsEntry(t, k)
             => HoldsEntry(t, k)',
         \A t \in Slots :
           slots'[t] = slots[t] \/ (stage' = "stat" /\ t = job'.slot),
         stage = "stat" => stage' = "stat" /\ job' = job,
         Keeps(Cur, n)'
  PROVE  Ring(Cur, n, m)'
<1>1. (Counts(Cur, n, m) /\ Chained(Cur, n, m) /\ Regions(Cur, n, m))'
  BY RingKept DEF Ring
<1>2. \A i : Place(Cur', i) = Place(Cur, i)
  BY DEF Agree, Place, Oldest
<1>3. ASSUME NEW i \in 0 .. n - 1
      PROVE  /\ slots'[Place(Cur', i)].active
             /\ HoldsEntry(Place(Cur, i), Newest - n + 1 + i)'
  <2>1. PICK t : t = Place(Cur, i)
    OBVIOUS
  <2>2. PICK k : k = Newest - n + 1 + i
    OBVIOUS
  <2>3. slots[t].active /\ HoldsEntry(t, k)
    BY <2>1, <2>2 DEF Ring, Latest
  <2>4. HoldsEntry(t, k)'
    BY <2>1, <2>2, <2>3
  <2>5. t = Place(Cur, i)' /\ k = (Newest - n + 1 + i)'
    BY <1>2, <2>1, <2>2
  <2>6. HoldsEntry(Place(Cur, i), Newest - n + 1 + i)'
    BY <2>4, <2>5 DEF HoldsEntry
  <2>7. QED BY <1>2, <2>1, <2>3, <2>6
<1>4. Latest(Cur, n)'
  BY <1>2, <1>3 DEF Ring, Latest
<1>5. QED BY <1>1, <1>4 DEF Ring

LEMMA RingInit == Init => RingInv
<1> SUFFICES ASSUME Init PROVE RingInv
  OBVIOUS
<1>1. /\ Cur = InitStat /\ Newest = 0 /\ stage = "idle"
      /\ \A t \in Slots : ~slots[t].active
  BY DEF Init, Cur, Newest, Writing, Storing, EmptySlot
<1>2. 0 \in 0 .. NSlots
  BY SizesAssumption
<1>3. WriteSlotOf(InitStat) = 0 /\ Place(InitStat, 0) = 0
  BY SizesAssumption, SMT
     DEF WriteSlotOf, InitStat, Place, Wrap, Oldest, NextSlot, Unset
<1>4. Counts(Cur, 0, 0)
  BY <1>1, <1>3 DEF Counts, InitStat
<1>5. Chained(Cur, 0, 0)
  BY <1>1 DEF Chained, InitStat
<1>6. Regions(Cur, 0, 0)
  BY <1>1, SMT DEF Regions, InitStat, Taken, Words
<1>7. Latest(Cur, 0) /\ Keeps(Cur, 0)
  BY <1>1 DEF Latest, Keeps, InitStat
<1>8. QED
  BY <1>1, <1>2, <1>4, <1>5, <1>6, <1>7
     DEF RingInv, Ring, Reinitialising, Writing

(* Steps that touch neither the slot table nor the buffer nor the log, and   *)
(* no pointer of the status that counts.                                     *)
LEMMA RingInert ==
  ASSUME NEW n \in 0 .. NSlots, NEW m \in 0 .. NSlots,
         Ring(Cur, n, m), Agree(Cur', Cur), Newest' = Newest,
         UNCHANGED <<slots, buf, log>>,
         stage = "stat" => stage' = "stat" /\ job' = job,
         Keeps(Cur, n)'
  PROVE  Ring(Cur, n, m)'
<1>1. \A t, k : HoldsEntry(t, k) => HoldsEntry(t, k)'
  BY DEF HoldsEntry
<1>2. slots' = slots
  OBVIOUS
<1>3. QED BY <1>1, <1>2, RingStays

(* The slot to write is the one after the youngest, and when the ring is     *)
(* full that is the oldest.                                                  *)
LEMMA FullRing ==
  ASSUME IInv, stage = "ring",
         NEW n \in 0 .. NSlots, NEW m \in 0 .. NSlots, Ring(Cur, n, m)
  PROVE  /\ job.slot = Place(st, n)
         /\ job.slot = st.oldestSlot => n = NSlots
         /\ job.slot # st.oldestSlot => n < NSlots
<1>1. Cur = st /\ st \in StatType
  BY CurFacts DEF Cur, Writing, IInv
<1>2. job.slot = Place(st, n)
  BY <1>1 DEF IInv, JobOK, Writing, Agree, WriteSlotOf, Ring, Counts
<1>3. job.slot \in Slots /\ job.slot # Unset
  BY <1>1, <1>2, Places, SizesAssumption, SMT DEF Slots, Unset
<1>4. ASSUME job.slot = st.oldestSlot PROVE n = NSlots
  <2>1. n # 0 /\ Oldest(st) = st.oldestSlot
    BY <1>1, <1>3, <1>4 DEF Ring, Keeps, Oldest
  <2>2. Place(st, n) = Place(st, 0)
    BY <1>1, <1>2, <1>4, <2>1, Places
  <2>3. n < NSlots => FALSE
    <3>1. n < NSlots => n \in 0 .. NSlots - 1 /\ 0 \in 0 .. NSlots - 1
      BY SizesAssumption, SMT
    <3>2. QED BY <1>1, <2>1, <2>2, <3>1, Places
  <2>4. QED BY <2>3, SizesAssumption, SMT
<1>5. ASSUME job.slot # st.oldestSlot PROVE n < NSlots
  <2>1. ASSUME n = NSlots PROVE FALSE
    <3>1. n # 0
      BY <2>1, SizesAssumption
    <3>2. Oldest(st) = st.oldestSlot
      BY <1>1, <3>1 DEF Ring, Counts, Oldest
    <3>3. QED BY <1>1, <1>2, <1>5, <2>1, <3>2, Places
  <2>2. QED BY <2>1, SizesAssumption, SMT
<1>6. QED BY <1>2, <1>4, <1>5

(* Before an entry goes out: taking the lock, waiting, moving on. *)
LEMMA RingPrepare ==
  ASSUME Smooth, IInv, IInv', RingInv
  PROVE  /\ \A p \in Writers, len \in Lens : BeginWrite(p, len) => RingInv'
         /\ \A p \in Writers : WakeUp(p) => RingInv'
         /\ WaitForReader => RingInv'
         /\ StopWaiting => RingInv'
         /\ RingHasRoom => RingInv'
         /\ TooLarge => RingInv'
         /\ Packed => RingInv'
         /\ Abandon => RingInv'
<1>0. PICK n \in 0 .. NSlots, m \in 0 .. NSlots : Ring(Cur, n, m)
  BY DEF RingInv
<1>1. ASSUME NEW p \in Writers, NEW len \in Lens, BeginWrite(p, len)
      PROVE  RingInv'
  <2>1. /\ stage = "idle" /\ stage' \in {"block", "ring"} /\ lock' # Unset
        /\ UNCHANGED <<slots, buf, log>> /\ st' = stat
    BY <1>1, WritersAssumption DEF RingInv, BeginWrite, device
  <2>2. Cur' = Cur /\ Newest' = Newest
    BY <2>1 DEF Cur, Newest, Writing, Storing
  <2>3. Agree(Cur', Cur) /\ Keeps(Cur, n)'
    BY <1>0, <2>1, <2>2 DEF Agree, Ring, Keeps
  <2>4. Ring(Cur, n, m)'
    BY <1>0, <2>1, <2>2, <2>3, RingInert
  <2>5. job'.slot = WriteSlotOf(st)'
    BY <2>1 DEF IInv, JobOK, Writing, Agree, WriteSlotOf
  <2>6. QED BY <2>1, <2>4, <2>5 DEF RingInv, Reinitialising
<1>2. ASSUME NEW p \in Writers, WakeUp(p)
      PROVE  RingInv'
  <2>1. /\ stage = "idle" /\ stage' = "block" /\ lock' # Unset
        /\ UNCHANGED <<slots, buf, log>> /\ st' = stat
    BY <1>2, WritersAssumption DEF RingInv, WakeUp, device
  <2>2. Cur' = Cur /\ Newest' = Newest
    BY <2>1 DEF Cur, Newest, Writing, Storing
  <2>3. Agree(Cur', Cur) /\ Keeps(Cur, n)'
    BY <1>0, <2>1, <2>2 DEF Agree, Ring, Keeps
  <2>4. Ring(Cur, n, m)'
    BY <1>0, <2>1, <2>2, <2>3, RingInert
  <2>5. job'.slot = WriteSlotOf(st)'
    BY <2>1 DEF IInv, JobOK, Writing, Agree, WriteSlotOf
  <2>6. QED BY <2>1, <2>4, <2>5 DEF RingInv, Reinitialising
<1>3. ASSUME WaitForReader PROVE RingInv'
  <2>1. /\ stage = "block" /\ stage' = "idle"
        /\ UNCHANGED <<stat, slots, buf, log>> /\ Agree(st, stat)
    BY <1>3 DEF WaitForReader, Release, device, IInv, JobOK
  <2>2. Agree(Cur', Cur) /\ Newest' = Newest
    BY <2>1 DEF Cur, Newest, Writing, Storing, Agree
  <2>3. Keeps(Cur, n)'
    BY <1>0, <2>1, <2>2 DEF Agree, Ring, Keeps
  <2>4. Ring(Cur, n, m)'
    BY <1>0, <2>1, <2>2, <2>3, RingInert
  <2>5. ~Writing'
    BY <2>1 DEF Writing
  <2>6. QED BY <2>1, <2>4, <2>5 DEF RingInv, Reinitialising
<1>4. ASSUME StopWaiting PROVE RingInv'
  <2>1. /\ stage = "block" /\ stage' = "ring" /\ lock' = lock
        /\ UNCHANGED <<slots, buf, log>> /\ Agree(st', st)
    BY <1>4 DEF StopWaiting, device, IInv, TypeInv, TypeOK, Agree, StatType
  <2>2. Agree(Cur', Cur) /\ Newest' = Newest
    BY <2>1 DEF Cur, Newest, Writing, Storing
  <2>3. Keeps(Cur, n)'
    BY <1>0, <2>1, <2>2 DEF Agree, Ring, Keeps
  <2>4. Ring(Cur, n, m)'
    BY <1>0, <2>1, <2>2, <2>3, RingInert
  <2>5. job'.slot = WriteSlotOf(st)'
    BY <2>1 DEF IInv, JobOK, Writing, Agree, WriteSlotOf
  <2>6. QED BY <2>1, <2>4, <2>5 DEF RingInv, Reinitialising
<1>5. ASSUME RingHasRoom PROVE RingInv'
  <2>1. /\ stage = "ring" /\ stage' = "pack" /\ lock' = lock /\ st' = st
        /\ UNCHANGED <<slots, buf, log>> /\ job.slot # st.oldestSlot
    BY <1>5 DEF RingHasRoom, device
  <2>2. Cur' = Cur /\ Cur = st /\ Newest' = Newest
    BY <2>1 DEF Cur, Newest, Writing, Storing
  <2>3. Agree(Cur', Cur)
    BY <2>2 DEF Agree
  <2>4. n < NSlots
    BY <1>0, <2>1, <2>2, FullRing
  <2>5. Keeps(Cur, n)'
    BY <2>1, <2>4 DEF Keeps
  <2>6. Ring(Cur, n, m)'
    BY <1>0, <2>1, <2>2, <2>3, <2>5, RingInert
  <2>7. job'.slot = WriteSlotOf(st)'
    BY <1>5, <2>1 DEF RingHasRoom, RingInv, Writing, WriteSlotOf
  <2>8. QED BY <2>1, <2>6, <2>7 DEF RingInv, Reinitialising
<1>6. ASSUME TooLarge PROVE RingInv'
  BY <1>6, JobTypes, SizesAssumption DEF TooLarge, Smooth, IInv, TypeInv, Writing
<1>7. ASSUME Packed PROVE RingInv'
  <2>1. /\ stage = "pack" /\ stage' = "fit" /\ lock' = lock /\ st' = st
        /\ UNCHANGED <<slots, buf, log>>
    BY <1>7 DEF Packed, device
  <2>2. Cur' = Cur /\ Newest' = Newest
    BY <2>1 DEF Cur, Newest, Writing, Storing
  <2>3. Agree(Cur', Cur) /\ Keeps(Cur, n)'
    BY <1>0, <2>1, <2>2 DEF Agree, Ring, Keeps
  <2>4. Ring(Cur, n, m)'
    BY <1>0, <2>1, <2>2, <2>3, RingInert
  <2>5. job'.slot = WriteSlotOf(st)'
    BY <1>7, <2>1 DEF Packed, RingInv, Writing, WriteSlotOf
  <2>6. QED BY <2>1, <2>4, <2>5 DEF RingInv, Reinitialising
<1>8. ASSUME Abandon PROVE RingInv'
  BY <1>8 DEF Abandon, Smooth
<1>9. QED BY <1>1, <1>2, <1>3, <1>4, <1>5, <1>6, <1>7, <1>8

(* Storing the entry: nothing that is kept moves until stat is written. *)
LEMMA RingStore ==
  ASSUME IInv, IInv', RingInv
  PROVE  /\ ChooseOffset => RingInv'
         /\ WriteWord => RingInv'
         /\ WriteSlot => RingInv'
<1>0. PICK n \in 0 .. NSlots, m \in 0 .. NSlots : Ring(Cur, n, m)
  BY DEF RingInv
<1>1. TypeInv /\ TypeInv' /\ TypeOK /\ Cur \in StatType
  BY CurFacts DEF IInv, TypeInv
<1>2. ASSUME ChooseOffset PROVE RingInv'
  <2>1. /\ stage = "fit" /\ stage' = "entry" /\ lock' = lock /\ st' = st
        /\ slots' = slots /\ buf' = buf
        /\ log' = Append(log, [id |-> job.id, slot |-> job.slot,
                               len |-> job.len])
    BY <1>2 DEF ChooseOffset, device
  <2>2. /\ Len(log') = Len(log) + 1 /\ Len(log) \in Nat
        /\ \A k \in 1 .. Len(log) : log'[k] = log[k]
    BY <1>1, <2>1 DEF TypeOK
  <2>3. Cur' = Cur /\ Newest' = Newest /\ Newest = Len(log)
    BY <2>1, <2>2 DEF Cur, Newest, Writing, Storing
  <2>4. Agree(Cur', Cur) /\ Keeps(Cur, n)'
    BY <1>0, <2>1, <2>3 DEF Agree, Ring, Keeps
  <2>5. \A i \in 0 .. n - 1 : \A t, k :
          t = Place(Cur, i) /\ k = Newest - n + 1 + i /\ HoldsEntry(t, k)
            => HoldsEntry(t, k)'
    <3>1. n <= Newest
      BY <1>0 DEF Ring, Counts
    <3>2. \A i \in 0 .. n - 1 : Newest - n + 1 + i \in 1 .. Len(log)
      BY <2>2, <2>3, <3>1, SizesAssumption, SMT
    <3>3. QED BY <2>1, <2>2, <3>2 DEF HoldsEntry
  <2>6. Ring(Cur, n, m)'
    BY <1>0, <2>1, <2>3, <2>4, <2>5, RingStays
  <2>7. job'.slot = WriteSlotOf(st)'
    BY <1>2, <2>1 DEF ChooseOffset, RingInv, Writing, WriteSlotOf
  <2>8. QED BY <2>1, <2>6, <2>7 DEF RingInv, Reinitialising
<1>3. ASSUME Storing
      PROVE  /\ Cur = st /\ n < NSlots
             /\ job.slot = Place(Cur, n) /\ job.slot \in Slots
             /\ \A i \in 0 .. n - 1 :
                  /\ Place(Cur, i) \in Slots /\ Place(Cur, i) # job.slot
                  /\ slots[Place(Cur, i)].active
  <2>1. Cur = st /\ n < NSlots /\ job.slot = Place(Cur, n)
    BY <1>0, <1>3
       DEF RingInv, Storing, Writing, Cur, Ring, Counts, Keeps
  <2>2. \A i \in 0 .. n - 1 : i \in 0 .. NSlots - 1 /\ i \in 0 .. NSlots
                             /\ i # n
    BY SizesAssumption, SMT
  <2>3. n \in 0 .. NSlots - 1
    BY <2>1, SizesAssumption, SMT
  <2>4. QED
    BY <1>0, <1>1, <2>1, <2>2, <2>3, Places DEF Ring, Latest
<1>4. ASSUME WriteWord PROVE RingInv'
  <2>1. /\ stage = "entry" /\ stage' \in {"entry", "slot"} /\ lock' = lock
        /\ st' = st /\ slots' = slots /\ log' = log /\ job' = job
    BY <1>4 DEF WriteWord
  <2>2. Cur' = Cur /\ Newest' = Newest /\ Storing
    BY <2>1 DEF Cur, Newest, Writing, Storing
  <2>3. Agree(Cur', Cur) /\ Keeps(Cur, n)'
    BY <1>0, <2>1, <2>2 DEF Agree, Ring, Keeps
  <2>4. ASSUME NEW t \in Slots, slots[t].active, t # job.slot, NEW k,
               HoldsEntry(t, k)
        PROVE  HoldsEntry(t, k)'
    <3>1. /\ off \in Nat /\ done \in Nat /\ job.len \in Nat
          /\ done < job.len
      BY <1>1, <1>4, IndexRange, JobTypes
         DEF WriteWord, TypeInv, TypeOK, Storing, Writing
    <3>2. /\ slots[t].offset \in Nat /\ slots[t].len \in Nat
          /\ \/ slots[t].offset + slots[t].len <= off
             \/ off + job.len <= slots[t].offset
      BY <1>1, <2>2, <2>4, RoomIsFree, SlotFacts
    <3>3. \A w \in 1 .. slots[t].len :
            slots[t].offset + w - 1 # off + done
      BY <3>1, <3>2, SMT
    <3>4. \A x : x # off + done => buf'[x] = buf[x]
      BY <1>1, <1>4 DEF WriteWord, TypeOK
    <3>5. QED BY <2>1, <2>4, <3>3, <3>4 DEF HoldsEntry
  <2>5. \A i \in 0 .. n - 1 : \A t, k :
          t = Place(Cur, i) /\ k = Newest - n + 1 + i /\ HoldsEntry(t, k)
            => HoldsEntry(t, k)'
    BY <1>3, <2>2, <2>4
  <2>6. Ring(Cur, n, m)'
    BY <1>0, <2>1, <2>2, <2>3, <2>5, RingStays
  <2>7. job'.slot = WriteSlotOf(st)'
    BY <2>1 DEF RingInv, Writing, WriteSlotOf
  <2>8. QED BY <2>1, <2>6, <2>7 DEF RingInv, Reinitialising
<1>5. ASSUME WriteSlot PROVE RingInv'
  <2>1. /\ stage = "slot" /\ stage' = "stat" /\ lock' = lock
        /\ st' = st /\ buf' = buf /\ log' = log /\ job' = job
    BY <1>5 DEF WriteSlot
  <2>2. Cur' = Cur /\ Newest' = Newest /\ Storing
    BY <2>1 DEF Cur, Newest, Writing, Storing
  <2>3. Agree(Cur', Cur) /\ Keeps(Cur, n)'
    BY <1>0, <2>1, <2>2 DEF Agree, Ring, Keeps
  <2>4. \A t \in Slots : t # job.slot => slots'[t] = slots[t]
    BY <1>1, <1>5 DEF WriteSlot, TypeOK
  <2>5. \A i \in 0 .. n - 1 : \A t, k :
          t = Place(Cur, i) /\ k = Newest - n + 1 + i /\ HoldsEntry(t, k)
            => HoldsEntry(t, k)'
    <3>1. \A t \in Slots : \A k : t # job.slot /\ HoldsEntry(t, k)
                              => HoldsEntry(t, k)'
      BY <2>1, <2>4 DEF HoldsEntry
    <3>2. QED BY <1>3, <2>2, <3>1
  <2>6. Ring(Cur, n, m)'
    BY <1>0, <1>3, <2>1, <2>2, <2>3, <2>4, <2>5, RingStays
  <2>7. job'.slot = WriteSlotOf(st)'
    BY <2>1 DEF RingInv, Writing, WriteSlotOf
  <2>8. QED BY <2>1, <2>6, <2>7 DEF RingInv, Reinitialising
<1>6. QED BY <1>2, <1>4, <1>5

(* Publishing the entry makes it the youngest of the ring. *)
LEMMA RingPublish ==
  ASSUME IInv, IInv', RingInv, WriteStat
  PROVE  RingInv'
<1>0. PICK n \in 0 .. NSlots, m \in 0 .. NSlots : Ring(Cur, n, m)
  BY DEF RingInv
<1>a. PICK a : a = IF st.appendMode THEN n + 1 ELSE m
  OBVIOUS
<1> DEFINE w == job.slot
<1>1. /\ TypeInv /\ TypeOK /\ st \in StatType /\ RegionsOK(st)
      /\ job \in Job /\ job.len \in Nat /\ job.len > 0
      /\ off \in Offsets /\ off \in Nat /\ RoomAt(st, off, job.len)
      /\ Storing /\ stage = "stat"
  BY JobTypes, IndexRange
     DEF IInv, TypeInv, TypeOK, WriteStat, Storing, Writing
<1>2. /\ Cur = st /\ n < NSlots /\ w = Place(st, n) /\ w \in Slots
      /\ n \in Nat /\ m \in Nat /\ m <= n /\ n <= Newest
      /\ \A i \in 0 .. n - 1 : Place(st, i) \in Slots
  <2>1. /\ Cur = st /\ n < NSlots /\ w = Place(st, n)
        /\ m <= n /\ n <= Newest
    BY <1>0, <1>1
       DEF RingInv, Storing, Writing, Cur, Ring, Counts, Keeps
  <2>2. /\ \A i \in 0 .. n - 1 : i \in 0 .. NSlots
        /\ n \in Nat /\ m \in Nat
    BY SizesAssumption, SMT
  <2>3. QED BY <1>1, <2>1, <2>2, Places
<1>3. /\ slots[w].active /\ slots[w].offset = off /\ slots[w].len = job.len
      /\ EndOf(w) = off + job.len
      /\ HoldsEntry(w, Len(log))
  BY <1>1 DEF IInv, EntryOK, HoldsEntry, EndOf
<1>4. /\ lock' = Unset /\ stage' = "idle"
      /\ slots' = slots /\ buf' = buf /\ log' = log
      /\ Cur' = stat' /\ Newest' = Newest + 1 /\ Newest' = Len(log)
      /\ Newest \in Int
  BY <1>1 DEF WriteStat, Release, Cur, Newest, Writing, Storing, TypeOK
<1>5. /\ stat' \in StatType
      /\ stat'.youngestSlot = w
      /\ stat'.oldestSlot = IF st.oldestSlot = Unset THEN w
                                                     ELSE st.oldestSlot
      /\ stat'.beginAppend = IF st.appendMode THEN st.beginAppend + job.len
                                              ELSE st.beginAppend
      /\ stat'.beginInsert = IF st.appendMode THEN st.beginInsert
                                              ELSE st.beginInsert + job.len
      /\ stat'.endInsert = st.endInsert
      /\ stat'.appendMode = st.appendMode
  <2>1. stat'.appendMode = st.appendMode
    BY <1>1 DEF WriteStat, Published, StatType
  <2>2. QED BY <1>1, <2>1, PublishedRegions DEF WriteStat
<1>6. \A i : Place(stat', i) = Place(st, i)
  <2>1. st.oldestSlot = Unset => w = 0
    BY <1>0, <1>2, SizesAssumption, SMT
       DEF Ring, Counts, Place, Oldest, Wrap
  <2>2. w # Unset
    BY <1>2, SMT DEF Slots, Unset
  <2>3. QED BY <1>5, <2>1, <2>2 DEF Place, Oldest
<1>7. /\ a \in 0 .. NSlots /\ n + 1 \in 0 .. NSlots
      /\ a <= n + 1 /\ (st.appendMode => m = n) /\ (~st.appendMode => m > 0)
  <2>1. (st.appendMode => m = n) /\ (~st.appendMode => m > 0)
    BY <1>0, <1>2 DEF Ring, Counts
  <2>2. n + 1 \in 0 .. NSlots /\ n + 1 \in Nat /\ m <= n + 1
    BY <1>2, SizesAssumption
  <2>3. CASE st.appendMode
    BY <1>a, <2>1, <2>2, <2>3
  <2>4. CASE ~st.appendMode
    BY <1>a, <1>2, <2>1, <2>2, <2>4
  <2>5. QED BY <2>3, <2>4
<1> HIDE DEF w
<1>8. Counts(Cur, n + 1, a)'
  <2>1. WriteSlotOf(stat') = Place(stat', n + 1)
    <3>1. n \in 0 .. NSlots - 1
      BY <1>2, SizesAssumption, SMT
    <3>2. QED BY <1>1, <1>2, <1>5, <1>6, <3>1, Places DEF WriteSlotOf
  <2>2. stat'.oldestSlot # Unset
    BY <1>2, <1>5, SMT DEF Slots, Unset
  <2>3. n + 1 <= Newest'
    BY <1>2, <1>4
  <2>4. IF stat'.appendMode THEN a = n + 1 ELSE a > 0
    BY <1>5, <1>7, <1>a
  <2>5. Cur' = stat' /\ stat'.youngestSlot \in Slots /\ a <= n + 1
    BY <1>2, <1>4, <1>5, <1>7
  <2>6. QED
    BY <2>1, <2>2, <2>3, <2>4, <2>5 DEF Counts
<1>9. Chained(Cur, n + 1, a)'
  <2>1. /\ n = 0 => st.endInsert = 0 /\ st.beginAppend = 0
        /\ n > 0 => slots[Place(st, 0)].offset = st.endInsert
        /\ m > 0 => EndOf(Place(st, m - 1)) = st.beginAppend
        /\ st.beginInsert = IF m < n THEN EndOf(Place(st, n - 1)) ELSE 0
        /\ \A i \in 1 .. n - 1 :
             slots[Place(st, i)].offset =
               IF i = m THEN 0 ELSE EndOf(Place(st, i - 1))
    BY <1>0, <1>2 DEF Ring, Chained
  <2>2. /\ slots[Place(st, 0)].offset = st.endInsert
        /\ a > 0 => EndOf(Place(st, a - 1)) = stat'.beginAppend
        /\ stat'.beginInsert = IF a < n + 1 THEN EndOf(Place(st, n)) ELSE 0
        /\ n > 0 => off = IF n = a THEN 0 ELSE EndOf(Place(st, n - 1))
    <3>1. CASE st.appendMode
      <4>1. /\ off = st.beginAppend /\ a = n + 1 /\ a - 1 = n /\ m = n
            /\ stat'.beginAppend = off + job.len
            /\ stat'.beginInsert = st.beginInsert /\ n # a /\ ~(a < n + 1)
        BY <1>1, <1>2, <1>5, <1>7, <1>a, <3>1 DEF RoomAt
      <4>2. QED BY <1>2, <1>3, <2>1, <4>1 DEF w
    <3>2. CASE ~st.appendMode
      <4>1. /\ off = st.beginInsert /\ a = m /\ m > 0 /\ n > 0
            /\ stat'.beginAppend = st.beginAppend
            /\ stat'.beginInsert = off + job.len /\ a < n + 1
            /\ (n = a <=> ~(m < n))
        BY <1>1, <1>2, <1>5, <1>7, <1>a, <3>2 DEF RoomAt
      <4>2. QED BY <1>2, <1>3, <2>1, <4>1 DEF w
    <3>3. QED BY <3>1, <3>2
  <2>3. ASSUME NEW i \in 1 .. n
        PROVE  slots[Place(st, i)].offset =
                 IF i = a THEN 0 ELSE EndOf(Place(st, i - 1))
    <3>1. CASE i = n
      BY <1>2, <1>3, <2>2, <3>1 DEF w
    <3>2. CASE i # n
      <4>1. i \in 1 .. n - 1 /\ (i = a <=> i = m)
        BY <1>2, <1>7, <1>a, <3>2
      <4>2. QED BY <2>1, <4>1
    <3>3. QED BY <3>1, <3>2
  <2>4. (n + 1) - 1 = n /\ n + 1 > 0
    BY <1>2
  <2>5. QED
    BY <1>4, <1>5, <1>6, <2>2, <2>3, <2>4 DEF Chained, EndOf
<1>10. Regions(Cur, n + 1, a)'
  <2>1. /\ \A i \in 0 .. n - 1 :
             IF i < m THEN /\ slots[Place(st, i)].offset >= st.endInsert
                           /\ EndOf(Place(st, i)) <= st.beginAppend
                      ELSE EndOf(Place(st, i)) <= st.beginInsert
        /\ \A x \in Words : Taken(st, x)
             => \E i \in 0 .. n - 1 : Covers(Place(st, i), x)
    BY <1>0, <1>2 DEF Ring, Regions
  <2>2. /\ st.beginInsert \in Nat /\ st.endInsert \in Nat
        /\ st.beginAppend \in Nat /\ st.endInsert <= st.beginAppend
    BY <1>1, StatFields DEF RegionsOK
  <2>3. ASSUME NEW i \in 0 .. n
        PROVE  IF i < a THEN /\ slots[Place(st, i)].offset >= st.endInsert
                             /\ EndOf(Place(st, i)) <= stat'.beginAppend
                        ELSE EndOf(Place(st, i)) <= stat'.beginInsert
    <3>1. CASE i = n
      <4>1. slots[Place(st, i)].offset = off /\ EndOf(Place(st, i)) = off + job.len
        BY <1>2, <1>3, <3>1 DEF w
      <4>2. QED
        BY <1>1, <1>2, <1>5, <1>7, <1>a, <2>2, <3>1, <4>1 DEF RoomAt
    <3>2. CASE i # n
      <4>1. i \in 0 .. n - 1 /\ (i < a <=> i < m)
        BY <1>2, <1>7, <1>a, <3>2
      <4>2. /\ st.beginAppend <= stat'.beginAppend
            /\ st.beginInsert <= stat'.beginInsert
            /\ stat'.beginAppend \in Nat /\ stat'.beginInsert \in Nat
        BY <1>1, <1>5, <2>2
      <4>3. EndOf(Place(st, i)) \in Nat
        BY <1>1, <1>2, <4>1, SlotFacts DEF EndOf
      <4>4. QED BY <2>1, <2>2, <4>1, <4>2, <4>3
    <3>3. QED BY <3>1, <3>2
  <2>4. ASSUME NEW x \in Words, Taken(stat', x)
        PROVE  \E i \in 0 .. n : Covers(Place(st, i), x)
    <3>1. CASE Taken(st, x)
      <4>1. PICK i \in 0 .. n - 1 : Covers(Place(st, i), x)
        BY <2>1, <3>1
      <4>2. i \in 0 .. n
        BY <1>2
      <4>3. QED BY <4>1, <4>2
    <3>2. CASE ~Taken(st, x)
      <4>1. x \in Int
        BY <2>4, IndexRange
      <4>2. off <= x /\ x < off + job.len
        BY <1>1, <1>5, <2>2, <2>4, <3>2, <4>1, SMT DEF Taken, RoomAt
      <4>3. Covers(Place(st, n), x) /\ n \in 0 .. n
        BY <1>1, <1>2, <1>3, <4>1, <4>2 DEF Covers, w
      <4>4. QED BY <4>3
    <3>3. QED BY <3>1, <3>2
  <2>5. (n + 1) - 1 = n
    BY <1>2
  <2>6. QED
    BY <1>4, <1>5, <1>6, <2>3, <2>4, <2>5 DEF Regions, EndOf, Covers
<1>11. Latest(Cur, n + 1)'
  <2>1. /\ \A i \in 0 .. n - 1 : /\ slots[Place(st, i)].active
                                 /\ HoldsEntry(Place(st, i), Newest - n + 1 + i)
        /\ \A t \in Slots : slots[t].active =>
             (\E i \in 0 .. n - 1 : t = Place(st, i)) \/ t = w
    BY <1>0, <1>2 DEF Ring, Latest, w
  <2>2. ASSUME NEW i \in 0 .. n
        PROVE  /\ slots[Place(st, i)].active
               /\ HoldsEntry(Place(st, i), Newest + 1 - (n + 1) + 1 + i)
    <3>1. CASE i = n
      <4>1. Newest + 1 - (n + 1) + 1 + i = Len(log)
        BY <1>2, <1>4, <3>1
      <4>2. QED BY <1>2, <1>3, <3>1, <4>1 DEF w
    <3>2. CASE i # n
      <4>1. /\ i \in 0 .. n - 1
            /\ Newest + 1 - (n + 1) + 1 + i = Newest - n + 1 + i
        BY <1>2, <1>4, <3>2
      <4>2. QED BY <2>1, <4>1
    <3>3. QED BY <3>1, <3>2
  <2>3. ASSUME NEW t \in Slots, slots[t].active
        PROVE  \E i \in 0 .. n : t = Place(st, i)
    <3>1. n \in 0 .. n /\ \A i \in 0 .. n - 1 : i \in 0 .. n
      BY <1>2
    <3>2. QED BY <1>2, <2>1, <2>3, <3>1 DEF w
  <2>4. (n + 1) - 1 = n
    BY <1>2
  <2>5. \A t, k : HoldsEntry(t, k) => HoldsEntry(t, k)'
    BY <1>4 DEF HoldsEntry
  <2>6. QED
    BY <1>4, <1>5, <1>6, <2>2, <2>3, <2>4, <2>5 DEF Latest
<1>12. Keeps(Cur, n + 1)'
  BY <1>2, <1>4, <1>5, SMT DEF Keeps
<1>13. QED
  BY <1>4, <1>7, <1>8, <1>9, <1>10, <1>11, <1>12
     DEF RingInv, Ring, Reinitialising, Writing

(* A writer leaves append mode only when something is kept. *)
LEMMA RingSwitch ==
  ASSUME Smooth, IInv, RingInv, SwitchToInsert
  PROVE  RingInv'
<1>0. PICK n \in 0 .. NSlots, m \in 0 .. NSlots : Ring(Cur, n, m)
  BY DEF RingInv
<1>1. /\ stage = "fit" /\ stage' = "fit" /\ lock' = lock /\ job' = job
      /\ slots' = slots /\ buf' = buf /\ log' = log
      /\ st \in StatType /\ st.appendMode /\ ~AppendRoom(st, job.len)
      /\ job.len \in Nat /\ job.len <= BufSize
  BY JobTypes
     DEF SwitchToInsert, device, IInv, TypeInv, TypeOK, Writing
<1>2. /\ Cur = st /\ Cur' = st' /\ Newest' = Newest
      /\ st'.beginInsert = st.beginInsert
      /\ st'.endInsert = st.endInsert
      /\ st'.beginAppend = st.beginAppend
      /\ st'.youngestSlot = st.youngestSlot
      /\ st'.oldestSlot = st.oldestSlot
      /\ ~st'.appendMode
  BY <1>1 DEF SwitchToInsert, Cur, Newest, Writing, Storing, StatType
<1>3. n > 0 /\ m = n
  <2>1. m = n /\ n \in Nat
    BY <1>0, <1>1, <1>2, SizesAssumption DEF Ring, Counts
  <2>2. n = 0 => st.beginAppend = 0
    BY <1>0, <1>2 DEF Ring, Chained
  <2>3. n # 0
    BY <1>1, <2>2, SizesAssumption, SMT DEF AppendRoom
  <2>4. QED BY <2>1, <2>3
<1>4. \A i : Place(st', i) = Place(st, i)
  BY <1>2 DEF Place, Oldest
<1>5. Counts(Cur, n, m)'
  BY <1>0, <1>2, <1>3, <1>4 DEF Ring, Counts, WriteSlotOf
<1>6. Chained(Cur, n, m)'
  BY <1>0, <1>1, <1>2, <1>4 DEF Ring, Chained, EndOf
<1>7. Regions(Cur, n, m)'
  BY <1>0, <1>1, <1>2, <1>4 DEF Ring, Regions, EndOf, Covers, Taken
<1>8. Latest(Cur, n)'
  BY <1>0, <1>1, <1>2, <1>4 DEF Ring, Latest, HoldsEntry
<1>9. Keeps(Cur, n)'
  BY <1>0, <1>1, <1>2 DEF Ring, Keeps
<1>10. QED
  BY <1>1, <1>2, <1>5, <1>6, <1>7, <1>8, <1>9
     DEF RingInv, Ring, Reinitialising, Writing, WriteSlotOf

(* The oldest message is where the status says, so it can be given up.       *)
LEMMA OldestInPlace ==
  ASSUME IInv, MustFree, NEW n \in 0 .. NSlots, NEW m \in 0 .. NSlots,
         Ring(Cur, n, m)
  PROVE  /\ Cur = st /\ st \in StatType /\ st.oldestSlot \in Slots
         /\ Place(st, 0) = st.oldestSlot
         /\ n > 0 /\ m > 0 /\ n \in Nat /\ m \in Nat
         /\ slots[st.oldestSlot].offset = st.endInsert
         /\ m <= n /\ (st.appendMode => m = n)
<1>1. Cur = st /\ st \in StatType
  BY CurFacts DEF Cur, Writing, IInv, MustFree
<1>2. n \in Nat /\ m \in Nat /\ m <= n /\ (st.appendMode => m = n)
      /\ (~st.appendMode => m > 0)
  BY <1>1, SizesAssumption DEF Ring, Counts
<1>3. n > 0 /\ m > 0
  <2>1. CASE stage = "ring"
    <3>1. n = NSlots /\ n > 0
      BY <2>1, FullRing, SizesAssumption DEF MustFree
    <3>2. QED BY <1>2, <3>1
  <2>2. CASE stage = "fit"
    BY <1>2, <2>2 DEF MustFree
  <2>3. QED BY <2>1, <2>2 DEF MustFree
<1>4. st.oldestSlot \in Slots /\ Oldest(st) = st.oldestSlot
  BY <1>1, <1>3, StatFields DEF Ring, Counts, Oldest
<1>5. Place(st, 0) = st.oldestSlot
  BY <1>1, <1>4, Places
<1>6. slots[st.oldestSlot].offset = st.endInsert
  BY <1>1, <1>3, <1>5 DEF Ring, Chained
<1>7. QED BY <1>1, <1>2, <1>3, <1>4, <1>5, <1>6

(* So the consistency check of _free_oldest_slot never fails. *)
LEMMA RingNoMismatch ==
  ASSUME IInv, RingInv
  PROVE  ~OffsetMismatch
BY OldestInPlace DEF RingInv, OffsetMismatch

(* When the oldest message goes, the places of the others move down by one.  *)
LEMMA PlacesShift ==
  ASSUME NEW s \in StatType, NEW f \in StatType, s.oldestSlot \in Slots,
         f.oldestSlot = NextSlot(s.oldestSlot)
  PROVE  \A i \in 0 .. NSlots - 1 : Place(f, i) = Place(s, i + 1)
<1>1. /\ s.oldestSlot \in Int /\ 0 <= s.oldestSlot /\ s.oldestSlot < NSlots
      /\ NSlots \in Int /\ 0 < NSlots
  BY SizesAssumption, SMT DEF Slots
<1>2. Oldest(s) = s.oldestSlot /\ Oldest(f) = f.oldestSlot
  BY <1>1, SMT DEF Oldest, Unset, NextSlot
<1>3. QED BY <1>1, <1>2, SMT DEF Place, Wrap, NextSlot

LEMMA RingFree ==
  ASSUME IInv, RingInv, FreeOldestSlot
  PROVE  RingInv'
<1>0. PICK n \in 0 .. NSlots, m \in 0 .. NSlots : Ring(Cur, n, m)
  BY DEF RingInv
<1>a. PICK a : a = IF m = 1 THEN n - 1 ELSE m - 1
  OBVIOUS
<1>b. PICK o : o = st.oldestSlot
  OBVIOUS
<1>c. PICK len : len = slots[o].len
  OBVIOUS
<1>1. /\ TypeOK /\ SlotsOK /\ st \in StatType /\ RegionsOK(st) /\ MustFree
      /\ stage \in {"ring", "fit"} /\ stage' \in {"pack", "fit"}
      /\ lock' = lock /\ buf' = buf /\ log' = log /\ job' = job
      /\ st' = Freed(st, len)
      /\ slots' = [slots EXCEPT ![o] = EmptySlot]
  BY <1>b, <1>c
     DEF FreeOldestSlot, MustFree, IInv, TypeInv, TypeOK, DeviceOK, Writing
<1>2. /\ Cur = st /\ o \in Slots /\ Place(st, 0) = o
      /\ n > 0 /\ m > 0 /\ n \in Nat /\ m \in Nat /\ n <= NSlots
      /\ slots[o].offset = st.endInsert /\ slots[o].active
      /\ m <= n /\ (st.appendMode => m = n)
  <2>1. slots[Place(st, 0)].active
    <3>1. n > 0 /\ n \in Nat /\ Cur = st
      BY <1>0, <1>1, OldestInPlace
    <3>2. 0 \in 0 .. n - 1
      BY <3>1
    <3>3. QED BY <1>0, <3>1, <3>2 DEF Ring, Latest
  <2>2. n <= NSlots
    BY SizesAssumption
  <2>3. QED BY <1>0, <1>1, <1>b, <2>1, <2>2, OldestInPlace
<1>3. /\ Cur' = st' /\ Newest' = Newest /\ Newest \in Int
  BY <1>1 DEF Cur, Newest, Writing, Storing, TypeOK
<1>4. \A i \in 0 .. n - 1 :
        /\ Place(st, i) \in Slots
        /\ slots[Place(st, i)].active
        /\ slots[Place(st, i)].offset \in Nat
        /\ slots[Place(st, i)].len \in Nat /\ slots[Place(st, i)].len > 0
        /\ EndOf(Place(st, i)) = slots[Place(st, i)].offset
                                 + slots[Place(st, i)].len
        /\ i # 0 => /\ Place(st, i) # o
                    /\ slots'[Place(st, i)] = slots[Place(st, i)]
  <2> SUFFICES ASSUME NEW i \in 0 .. n - 1
               PROVE  /\ Place(st, i) \in Slots
                      /\ slots[Place(st, i)].active
                      /\ slots[Place(st, i)].offset \in Nat
                      /\ slots[Place(st, i)].len \in Nat
                      /\ slots[Place(st, i)].len > 0
                      /\ i # 0 => Place(st, i) # o
    BY <1>1 DEF EndOf, TypeOK
  <2>1. i \in 0 .. NSlots /\ i \in 0 .. NSlots - 1 /\ 0 \in 0 .. NSlots - 1
    BY <1>2, SizesAssumption
  <2>2. Place(st, i) \in Slots /\ (i # 0 => Place(st, i) # o)
    BY <1>1, <1>2, <2>1, Places
  <2>3. slots[Place(st, i)].active
    BY <1>0, <1>2 DEF Ring, Latest
  <2>4. QED BY <1>1, <2>2, <2>3, SlotFacts DEF SlotsOK
<1>5. /\ len \in Nat /\ len > 0 /\ EndOf(o) = st.endInsert + len
      /\ st.beginInsert \in Nat /\ st.endInsert \in Nat
      /\ st.beginAppend \in Nat
      /\ st.beginInsert <= st.endInsert /\ st.endInsert <= st.beginAppend
  <2>1. len \in Nat /\ len > 0
    BY <1>1, <1>2, <1>c, SlotFacts DEF SlotsOK
  <2>2. QED BY <1>1, <1>2, <1>c, <2>1, StatFields DEF RegionsOK, EndOf
<1>6. st.endInsert + len >= st.beginAppend <=> m = 1
  <2>1. CASE m = 1
    <3>1. EndOf(Place(st, 0)) = st.beginAppend
      BY <1>0, <1>2, <2>1 DEF Ring, Chained
    <3>2. QED BY <1>2, <1>5, <2>1, <3>1
  <2>2. CASE m # 1
    <3>1. 1 \in 1 .. n - 1 /\ 1 \in 0 .. n - 1 /\ 1 < m
      BY <1>2, <2>2
    <3>2. slots[Place(st, 1)].offset = EndOf(Place(st, 0))
      BY <1>0, <1>2, <2>2, <3>1 DEF Ring, Chained
    <3>3. EndOf(Place(st, 1)) <= st.beginAppend
      BY <1>0, <1>2, <3>1 DEF Ring, Regions
    <3>4. QED BY <1>2, <1>4, <1>5, <2>2, <3>1, <3>2, <3>3
  <2>3. QED BY <2>1, <2>2
<1>7. /\ st' \in StatType
      /\ st'.oldestSlot = NextSlot(o)
      /\ st'.endInsert = IF m = 1 THEN 0 ELSE st.endInsert + len
      /\ st'.beginAppend = IF m = 1 THEN st.beginInsert ELSE st.beginAppend
      /\ st'.beginInsert = IF m = 1 THEN 0 ELSE st.beginInsert
      /\ st'.youngestSlot = st.youngestSlot
      /\ st'.appendMode <=> m = 1 \/ st.appendMode
  <2>1. len \in Offsets
    BY <1>1, <1>2, <1>c DEF TypeOK, SlotType
  <2>2. st.oldestSlot # Unset
    BY <1>2, <1>b, SMT DEF Slots, Unset
  <2>3. st'.appendMode = (st.endInsert + len >= st.beginAppend \/ st.appendMode)
    BY <1>1 DEF Freed, StatType
  <2>4. QED BY <1>1, <1>6, <1>b, <2>1, <2>2, <2>3, FreedRegions
<1>8. \A i \in 0 .. NSlots - 1 : Place(st', i) = Place(st, i + 1)
  BY <1>1, <1>2, <1>7, <1>b, PlacesShift
<1>9. /\ n - 1 \in 0 .. NSlots /\ a \in 0 .. NSlots /\ a <= n - 1
      /\ a \in Nat /\ n - 1 \in Nat
  BY <1>2, <1>a, SizesAssumption
<1>10. Counts(Cur, n - 1, a)'
  <2>1. n \in 0 .. NSlots /\ n - 1 \in 0 .. NSlots - 1
    BY <1>2, SizesAssumption
  <2>2. WriteSlotOf(st') = Place(st', n - 1)
    <3>1. WriteSlotOf(st) = Place(st, n)
      BY <1>0, <1>2 DEF Ring, Counts
    <3>2. QED BY <1>2, <1>7, <1>8, <2>1, <3>1 DEF WriteSlotOf
  <2>3. st'.oldestSlot # Unset /\ st'.youngestSlot \in Slots
    <3>1. NextSlot(o) \in Slots
      BY <1>2, IndexRange
    <3>2. st.oldestSlot # Unset
      BY <1>2, <1>b, SMT DEF Slots, Unset
    <3>3. st.youngestSlot \in Slots
      BY <1>0, <1>2, <3>2 DEF Ring, Counts
    <3>4. QED BY <1>7, <3>1, <3>3, SMT DEF Slots, Unset
  <2>4. IF st'.appendMode THEN a = n - 1 ELSE a > 0
    BY <1>2, <1>7, <1>a, SMT
  <2>5. n - 1 <= Newest
    <3>1. n <= Newest
      BY <1>0, <1>2 DEF Ring, Counts
    <3>2. QED BY <1>2, <1>3, <3>1
  <2>6. QED BY <1>3, <1>9, <2>2, <2>3, <2>4, <2>5 DEF Counts
<1>11. Chained(Cur, n - 1, a)'
  <2>1. /\ EndOf(Place(st, m - 1)) = st.beginAppend
        /\ st.beginInsert = IF m < n THEN EndOf(Place(st, n - 1)) ELSE 0
        /\ \A i \in 1 .. n - 1 :
             slots[Place(st, i)].offset =
               IF i = m THEN 0 ELSE EndOf(Place(st, i - 1))
    BY <1>0, <1>2 DEF Ring, Chained
  <2>2. n - 1 = 0 => st'.endInsert = 0 /\ st'.beginAppend = 0
    <3>1. n - 1 = 0 => m = 1 /\ ~(m < n)
      BY <1>2
    <3>2. QED BY <1>7, <2>1, <3>1
  <2>3. n - 1 > 0 => slots[Place(st, 1)].offset = st'.endInsert
    <3>1. n - 1 > 0 => 1 \in 1 .. n - 1
      BY <1>2
    <3>2. QED BY <1>2, <1>5, <1>7, <2>1, <3>1
  <2>4. a > 0 => EndOf(Place(st, a)) = st'.beginAppend
    BY <1>2, <1>7, <1>a, <2>1
  <2>5. st'.beginInsert = IF a < n - 1 THEN EndOf(Place(st, n - 1)) ELSE 0
    <3>1. m # 1 => (m < n <=> a < n - 1)
      BY <1>2, <1>a
    <3>2. m = 1 => ~(a < n - 1)
      BY <1>2, <1>a
    <3>3. QED BY <1>7, <2>1, <3>1, <3>2
  <2>6. ASSUME NEW i \in 1 .. (n - 1) - 1
        PROVE  slots[Place(st, i + 1)].offset =
                 IF i = a THEN 0 ELSE EndOf(Place(st, i))
    <3>1. i + 1 \in 1 .. n - 1 /\ (i + 1) - 1 = i /\ (i = a <=> i + 1 = m)
      BY <1>2, <1>a
    <3>2. QED BY <2>1, <3>1
  <2> DEFINE After(i) == Place(st', i) = Place(st, i + 1)
                         /\ slots'[Place(st', i)] = slots[Place(st, i + 1)]
  <2>7. \A i \in 0 .. (n - 1) - 1 : After(i)
    <3>1. \A i \in 0 .. (n - 1) - 1 : /\ i \in 0 .. NSlots - 1
                                     /\ i + 1 \in 0 .. n - 1 /\ i + 1 # 0
      BY <1>2, SizesAssumption
    <3>2. QED BY <1>4, <1>8, <3>1
  <2>8. /\ n - 1 > 0 => After(0) /\ 0 + 1 = 1
        /\ a > 0 => After(a - 1) /\ (a - 1) + 1 = a
        /\ a < n - 1 => After((n - 1) - 1) /\ ((n - 1) - 1) + 1 = n - 1
        /\ \A i \in 1 .. (n - 1) - 1 : /\ After(i) /\ After(i - 1)
                                      /\ (i - 1) + 1 = i
    <3>1. /\ n - 1 > 0 => 0 \in 0 .. (n - 1) - 1 /\ 0 + 1 = 1
          /\ a > 0 => a - 1 \in 0 .. (n - 1) - 1 /\ (a - 1) + 1 = a
          /\ a < n - 1 => /\ (n - 1) - 1 \in 0 .. (n - 1) - 1
                          /\ ((n - 1) - 1) + 1 = n - 1
          /\ \A i \in 1 .. (n - 1) - 1 : /\ i \in 0 .. (n - 1) - 1
                                        /\ i - 1 \in 0 .. (n - 1) - 1
                                        /\ (i - 1) + 1 = i
      BY <1>2, <1>9
    <3> HIDE DEF After
    <3>2. QED BY <2>7, <3>1
  <2>9. QED
    BY <1>3, <2>2, <2>3, <2>4, <2>5, <2>6, <2>8 DEF Chained, EndOf
<1>12. Regions(Cur, n - 1, a)'
  <2>1. /\ \A i \in 0 .. n - 1 :
             IF i < m THEN /\ slots[Place(st, i)].offset >= st.endInsert
                           /\ EndOf(Place(st, i)) <= st.beginAppend
                      ELSE EndOf(Place(st, i)) <= st.beginInsert
        /\ \A x \in Words : Taken(st, x)
             => \E i \in 0 .. n - 1 : Covers(Place(st, i), x)
    BY <1>0, <1>2 DEF Ring, Regions
  <2>2. ASSUME NEW i \in 0 .. n - 1, i # 0
        PROVE  IF i - 1 < a
               THEN /\ slots[Place(st, i)].offset >= st'.endInsert
                    /\ EndOf(Place(st, i)) <= st'.beginAppend
               ELSE EndOf(Place(st, i)) <= st'.beginInsert
    <3>1. /\ slots[Place(st, i)].offset \in Nat
          /\ slots[Place(st, i)].len \in Nat /\ slots[Place(st, i)].len > 0
          /\ EndOf(Place(st, i)) = slots[Place(st, i)].offset
                                   + slots[Place(st, i)].len
          /\ \/ EndOf(Place(st, i)) <= st.endInsert
             \/ st.endInsert + len <= slots[Place(st, i)].offset
      BY <1>1, <1>2, <1>4, <1>5, <1>c, <2>2 DEF SlotsOK, EndOf
    <3>2. CASE m = 1
      <4>1. ~(i < m) /\ i - 1 < a
        BY <1>2, <1>a, <2>2, <3>2
      <4>2. QED BY <1>5, <1>7, <2>1, <3>1, <3>2, <4>1
    <3>3. CASE m # 1
      <4>1. i < m <=> i - 1 < a
        BY <1>2, <1>a, <2>2, <3>3
      <4>2. QED BY <1>5, <1>7, <2>1, <3>1, <3>3, <4>1
    <3>4. QED BY <3>2, <3>3
  <2>3. ASSUME NEW x \in Words, Taken(st', x)
        PROVE  \E i \in 0 .. n - 1 : i # 0 /\ Covers(Place(st, i), x)
    <3>1. x \in Nat
      BY <2>3, IndexRange
    <3>2. Taken(st, x)
      BY <1>5, <1>7, <2>3, <3>1, SMT DEF Taken
    <3>3. PICK i \in 0 .. n - 1 : Covers(Place(st, i), x)
      BY <2>1, <3>2
    <3>4. ASSUME i = 0 PROVE FALSE
      <4>1. st.endInsert <= x /\ x < st.endInsert + len
        BY <1>2, <1>5, <3>1, <3>3, <3>4 DEF Covers
      <4>2. QED BY <1>5, <1>7, <2>3, <3>1, <4>1, <1>6, SMT DEF Taken
    <3>5. QED BY <3>3, <3>4
  <2>4. \A i \in 0 .. (n - 1) - 1 :
          /\ i + 1 \in 0 .. n - 1 /\ i + 1 # 0 /\ (i + 1) - 1 = i
          /\ Place(st', i) = Place(st, i + 1)
          /\ slots'[Place(st', i)] = slots[Place(st, i + 1)]
    <3>1. \A i \in 0 .. (n - 1) - 1 :
            /\ i \in 0 .. NSlots - 1
            /\ i + 1 \in 0 .. n - 1 /\ i + 1 # 0 /\ (i + 1) - 1 = i
      BY <1>2, SizesAssumption
    <3>2. QED BY <1>4, <1>8, <3>1
  <2>5. ASSUME NEW x \in Words, Taken(st', x)
        PROVE  \E i \in 0 .. (n - 1) - 1 :
                 /\ x >= slots[Place(st, i + 1)].offset
                 /\ x < EndOf(Place(st, i + 1))
    <3>1. PICK i \in 0 .. n - 1 : i # 0 /\ Covers(Place(st, i), x)
      BY <2>3, <2>5
    <3>2. i - 1 \in 0 .. (n - 1) - 1 /\ (i - 1) + 1 = i
      BY <1>2, <3>1
    <3>3. QED BY <3>1, <3>2 DEF Covers
  <2>6. \A i \in 0 .. (n - 1) - 1 :
          IF i < a THEN /\ slots[Place(st, i + 1)].offset >= st'.endInsert
                        /\ EndOf(Place(st, i + 1)) <= st'.beginAppend
                   ELSE EndOf(Place(st, i + 1)) <= st'.beginInsert
    BY <2>2, <2>4
  <2>7. /\ \A i \in 0 .. (n - 1) - 1 : LET t == Place(st', i) IN
             IF i < a THEN /\ slots'[t].offset >= st'.endInsert
                           /\ slots'[t].offset + slots'[t].len
                                <= st'.beginAppend
                      ELSE slots'[t].offset + slots'[t].len
                             <= st'.beginInsert
        /\ \A x \in Words : Taken(st', x) =>
             \E i \in 0 .. (n - 1) - 1 :
               LET t == Place(st', i)
               IN  /\ x >= slots'[t].offset
                   /\ x < slots'[t].offset + slots'[t].len
    BY <2>4, <2>5, <2>6 DEF EndOf
  <2>8. QED
    BY <1>3, <2>7 DEF Regions, EndOf, Covers
<1>13. Latest(Cur, n - 1)'
  <2>1. /\ \A i \in 0 .. n - 1 : HoldsEntry(Place(st, i), Newest - n + 1 + i)
        /\ \A t \in Slots : slots[t].active =>
             \E i \in 0 .. n - 1 : t = Place(st, i)
    BY <1>0, <1>1, <1>2 DEF Ring, Latest
  <2>2. /\ \A t \in Slots : t # o => slots'[t] = slots[t]
        /\ ~slots'[o].active
    BY <1>1, <1>2 DEF TypeOK, EmptySlot
  <2>3. \A t \in Slots : \A k : t # o /\ HoldsEntry(t, k) => HoldsEntry(t, k)'
    BY <1>1, <2>2 DEF HoldsEntry
  <2>4. ASSUME NEW i \in 0 .. (n - 1) - 1
        PROVE  /\ slots'[Place(st', i)].active
               /\ \E t, k : /\ t = Place(st', i)
                            /\ k = Newest' - (n - 1) + 1 + i
                            /\ HoldsEntry(t, k)'
    <3>1. /\ i \in 0 .. NSlots - 1
          /\ i + 1 \in 0 .. n - 1 /\ i + 1 # 0
          /\ Newest' - (n - 1) + 1 + i = Newest - n + 1 + (i + 1)
      BY <1>2, <1>3, SizesAssumption
    <3>2. PICK t : t = Place(st, i + 1)
      OBVIOUS
    <3>3. PICK k : k = Newest - n + 1 + (i + 1)
      OBVIOUS
    <3>4. HoldsEntry(t, k)'
      BY <1>4, <2>1, <2>3, <3>1, <3>2, <3>3
    <3>5. QED BY <1>4, <1>8, <3>1, <3>2, <3>3, <3>4
  <2>5. ASSUME NEW t \in Slots, slots'[t].active
        PROVE  \E i \in 0 .. (n - 1) - 1 : t = Place(st', i)
    <3>1. t # o /\ slots[t].active
      BY <2>2, <2>5
    <3>2. PICK i \in 0 .. n - 1 : t = Place(st, i)
      BY <2>1, <3>1
    <3>3. i # 0
      BY <1>2, <3>1, <3>2
    <3>4. /\ i - 1 \in 0 .. (n - 1) - 1 /\ i - 1 \in 0 .. NSlots - 1
          /\ (i - 1) + 1 = i
      BY <1>2, <3>3, SizesAssumption
    <3>5. QED BY <1>8, <3>2, <3>4
  <2>6. QED
    BY <1>3, <2>4, <2>5 DEF Latest, HoldsEntry
<1>14. Keeps(Cur, n - 1)'
  BY <1>1, <1>2, SizesAssumption, SMT DEF Keeps
<1>15. QED
  <2>1. job'.slot = WriteSlotOf(st)'
    BY <1>1, <1>7 DEF RingInv, Writing, WriteSlotOf
  <2>2. Ring(Cur, n - 1, a)'
    BY <1>10, <1>11, <1>12, <1>13, <1>14 DEF Ring
  <2>3. QED
    BY <1>1, <1>9, <2>1, <2>2 DEF RingInv, Reinitialising

(* What a reader reports moves no pointer of the status that counts. *)
LEMMA RingReport ==
  ASSUME IInv, RingInv, NEW id \in ReadIds, ReaderReports(id)
  PROVE  RingInv'
<1>0. PICK n \in 0 .. NSlots, m \in 0 .. NSlots : Ring(Cur, n, m)
  BY DEF RingInv
<1>1. /\ stage' = stage /\ lock' = lock /\ job' = job /\ st' = st
      /\ slots' = slots /\ buf' = buf /\ log' = log
      /\ Agree(stat', stat)
  BY TypeReport, ReadIdsTyped DEF ReaderReports, local, IInv
<1>2. Agree(Cur', Cur) /\ Newest' = Newest
  BY <1>1 DEF Cur, Newest, Writing, Storing, Agree
<1>3. Keeps(Cur, n)'
  BY <1>0, <1>1, <1>2 DEF Ring, Keeps, Agree
<1>4. Ring(Cur, n, m)'
  BY <1>0, <1>1, <1>2, <1>3, RingInert
<1>5. QED
  BY <1>1, <1>4 DEF RingInv, Reinitialising, Writing, WriteSlotOf

LEMMA RingStep == Smooth /\ IInv /\ RingInv /\ [Next]_vars => RingInv'
<1> SUFFICES ASSUME Smooth, IInv, RingInv, [Next]_vars PROVE RingInv'
  OBVIOUS
<1>1. IInv'
  BY InvStep DEF Smooth
<1>2. CASE \E p \in Writers : \E len \in Lens : BeginWrite(p, len)
  BY <1>1, <1>2, RingPrepare
<1>3. CASE \E p \in Writers : WakeUp(p)
  BY <1>1, <1>3, RingPrepare
<1>4. CASE Abandon
  BY <1>1, <1>4, RingPrepare
<1>5. CASE HolderStep
  <2>1. ~ClearBuf /\ ~ClearSlot /\ ~ClearStat
    BY DEF RingInv, Reinitialising, ClearBuf, ClearSlot, ClearStat
  <2>2. QED
    BY <1>1, <1>5, <2>1, RingPrepare, RingSwitch, RingFree, RingNoMismatch,
       RingStore, RingPublish DEF HolderStep
<1>6. CASE \E id \in ReadIds : ReaderReports(id)
  BY <1>6, RingReport
<1>7. CASE UNCHANGED vars
  <2>0. PICK n \in 0 .. NSlots, m \in 0 .. NSlots : Ring(Cur, n, m)
    BY DEF RingInv
  <2>1. /\ stage' = stage /\ lock' = lock /\ job' = job /\ st' = st
        /\ slots' = slots /\ buf' = buf /\ log' = log /\ stat' = stat
    BY <1>7 DEF vars, device, local
  <2>2. Cur' = Cur /\ Newest' = Newest /\ Agree(Cur', Cur)
    BY <2>1 DEF Cur, Newest, Writing, Storing, Agree
  <2>3. Keeps(Cur, n)'
    BY <2>0, <2>1, <2>2 DEF Ring, Keeps
  <2>4. Ring(Cur, n, m)'
    BY <2>0, <2>1, <2>2, <2>3, RingInert
  <2>5. QED
    BY <2>1, <2>4 DEF RingInv, Reinitialising, Writing, WriteSlotOf
<1>8. QED
  BY <1>2, <1>3, <1>4, <1>5, <1>6, <1>7 DEF Next, WriterNext

LEMMA RingHolds == Smooth => (Spec => [](IInv /\ RingInv))
<1> SUFFICES ASSUME Smooth PROVE Spec => [](IInv /\ RingInv)
  OBVIOUS
<1>1. Init => IInv /\ RingInv
  BY InvInit, RingInit
<1>2. IInv /\ RingInv /\ [Next]_vars => (IInv /\ RingInv)'
  BY InvStep, RingStep DEF Smooth
<1>3. QED BY <1>1, <1>2, PTL DEF Spec

-----------------------------------------------------------------------------
(* What the ring says of the queue whenever nobody writes.                   *)

LEMMA RingArea ==
  ASSUME IInv, RingInv
  PROVE  ActiveAreaExact
<1> SUFFICES ASSUME lock = Unset, NEW t \in Slots
             PROVE  slots[t].active <=> InActiveRegion(stat, t)
  BY DEF ActiveAreaExact
<1>0. PICK n \in 0 .. NSlots, m \in 0 .. NSlots : Ring(Cur, n, m)
  BY DEF RingInv
<1>1. Cur = stat /\ stage = "idle" /\ stat \in StatType
  BY CurFacts DEF RingInv, Cur, Writing, IInv
<1>2. slots[t].active <=> \E i \in 0 .. n - 1 : t = Place(stat, i)
  BY <1>0, <1>1 DEF Ring, Latest
<1>3. CASE stat.oldestSlot = Unset
  <2>1. n = 0
    BY <1>0, <1>1, <1>3 DEF Ring, Counts
  <2>2. ~InActiveRegion(stat, t)
    BY <1>3, SMT DEF InActiveRegion, Unset
  <2>3. QED BY <1>2, <2>1, <2>2, SMT
<1>4. CASE stat.oldestSlot # Unset
  <2>1. /\ stat.oldestSlot \in Slots /\ stat.youngestSlot \in Slots
        /\ Oldest(stat) = stat.oldestSlot
        /\ n > 0 /\ n \in Nat
        /\ NextSlot(stat.youngestSlot) = Place(stat, n)
    BY <1>0, <1>1, <1>4, StatFields, SizesAssumption
       DEF Ring, Counts, Keeps, Oldest, WriteSlotOf
  <2>2. /\ NSlots \in Nat /\ n <= NSlots /\ t \in Nat /\ t < NSlots
        /\ stat.oldestSlot \in Nat /\ stat.oldestSlot < NSlots
        /\ stat.youngestSlot \in Nat /\ stat.youngestSlot < NSlots
    BY <2>1, SizesAssumption, SMT DEF Slots
  <2>3. \A o, y \in Nat : \A k, N \in Nat :
          /\ o < N /\ y < N /\ k > 0 /\ k <= N
          /\ (IF y >= N - 1 THEN 0 ELSE y + 1)
               = (IF o + k < N THEN o + k ELSE o + k - N)
          => y = IF o + k - 1 < N THEN o + k - 1 ELSE o + k - 1 - N
    OBVIOUS
  <2>4. stat.youngestSlot = Place(stat, n - 1)
    BY <2>1, <2>2, <2>3 DEF Place, Wrap, NextSlot
  <2>5. InActiveRegion(stat, t) <=>
          IF stat.youngestSlot >= stat.oldestSlot
          THEN t >= stat.oldestSlot /\ t <= stat.youngestSlot
          ELSE t >= stat.oldestSlot \/ t <= stat.youngestSlot
    BY <2>2 DEF InActiveRegion
  <2>6. ASSUME InActiveRegion(stat, t)
        PROVE  \E i \in 0 .. n - 1 : t = Place(stat, i)
    <3> DEFINE i == IF t >= stat.oldestSlot THEN t - stat.oldestSlot
                    ELSE t - stat.oldestSlot + NSlots
    <3>1. i \in 0 .. n - 1 /\ t = Place(stat, i)
      BY <2>1, <2>2, <2>4, <2>5, <2>6, SMT DEF Place, Wrap
    <3>2. QED BY <3>1
  <2>7. ASSUME NEW i \in 0 .. n - 1, t = Place(stat, i)
        PROVE  InActiveRegion(stat, t)
    BY <2>1, <2>2, <2>4, <2>5, <2>7, SMT DEF Place, Wrap
  <2>8. QED BY <1>2, <2>6, <2>7
<1>5. QED BY <1>3, <1>4

LEMMA RingLatest ==
  ASSUME IInv, RingInv
  PROVE  RetainsLatest
<1> SUFFICES ASSUME lock = Unset
             PROVE  LET used == {s \in Slots : slots[s].active}
                        n    == Cardinality(used)
                    IN  /\ n <= Len(log)
                        /\ \A k \in Len(log) - n + 1 .. Len(log) :
                             \E s \in used : HoldsEntry(s, k)
                        /\ {w \in Words : \E s \in used :
                              /\ w >= slots[s].offset
                              /\ w < slots[s].offset + slots[s].len}
                           = {w \in Words : \/ w < stat.beginInsert
                                            \/ /\ w >= stat.endInsert
                                               /\ w < stat.beginAppend}
  BY DEF RetainsLatest
<1> DEFINE used == {s \in Slots : slots[s].active}
<1>0. PICK n \in 0 .. NSlots, m \in 0 .. NSlots : Ring(Cur, n, m)
  BY DEF RingInv
<1>1. /\ Cur = stat /\ stage = "idle" /\ stat \in StatType /\ RegionsOK(stat)
      /\ Newest = Len(log) /\ Len(log) \in Nat
      /\ n \in Nat /\ m \in Nat /\ n <= NSlots /\ n <= Len(log)
  <2>1. /\ Cur = stat /\ stage = "idle" /\ stat \in StatType
        /\ RegionsOK(stat) /\ Newest = Len(log) /\ Len(log) \in Nat
    BY CurFacts
       DEF RingInv, Cur, Newest, Writing, Storing, IInv, TypeInv, TypeOK
  <2>2. n \in Nat /\ m \in Nat /\ n <= NSlots
    BY SizesAssumption
  <2>3. QED BY <1>0, <2>1, <2>2 DEF Ring, Counts
<1>2. /\ \A i \in 0 .. n - 1 : /\ Place(stat, i) \in Slots
                               /\ slots[Place(stat, i)].active
                               /\ HoldsEntry(Place(stat, i), Len(log) - n + 1 + i)
      /\ \A t \in Slots : slots[t].active =>
           \E i \in 0 .. n - 1 : t = Place(stat, i)
  <2>1. \A i \in 0 .. n - 1 : i \in 0 .. NSlots
    BY <1>1, SizesAssumption
  <2>2. QED BY <1>0, <1>1, <2>1, Places DEF Ring, Latest
<1>3. IsFiniteSet(used) /\ Cardinality(used) = n
  <2> DEFINE f == [i \in 0 .. n - 1 |-> Place(stat, i)]
  <2>1. /\ IsFiniteSet(0 .. n - 1) /\ Cardinality(0 .. n - 1) = n
    <3>1. /\ IsFiniteSet(0 .. n - 1)
          /\ Cardinality(0 .. n - 1) =
               IF 0 > n - 1 THEN 0 ELSE (n - 1) - 0 + 1
      <4>1. 0 \in Int /\ n - 1 \in Int
        BY <1>1
      <4>2. QED BY <4>1, FS_Interval
    <3>2. QED BY <1>1, <3>1
  <2>2. f \in Bijection(0 .. n - 1, used)
    <3>1. f \in [0 .. n - 1 -> used]
      BY <1>2
    <3>2. \A i, j \in 0 .. n - 1 : f[i] = f[j] => i = j
      <4>1. \A i \in 0 .. n - 1 : i \in 0 .. NSlots - 1
        BY <1>1, SizesAssumption
      <4>2. QED BY <1>1, <4>1, Places
    <3>3. \A t \in used : \E i \in 0 .. n - 1 : f[i] = t
      BY <1>2
    <3> HIDE DEF f, used
    <3>4. QED
      BY <3>1, <3>2, <3>3 DEF Bijection, Injection, Surjection, IsInjective
  <2>3. ExistsBijection(0 .. n - 1, used)
    BY <2>2 DEF ExistsBijection
  <2> HIDE DEF used
  <2>4. QED BY <2>1, <2>3, FS_Bijection
<1>4. \A k \in Len(log) - n + 1 .. Len(log) : \E s \in used : HoldsEntry(s, k)
  <2> SUFFICES ASSUME NEW k \in Len(log) - n + 1 .. Len(log)
               PROVE  \E s \in used : HoldsEntry(s, k)
    OBVIOUS
  <2>1. /\ k - (Len(log) - n + 1) \in 0 .. n - 1
        /\ Len(log) - n + 1 + (k - (Len(log) - n + 1)) = k
    BY <1>1
  <2>2. QED BY <1>2, <2>1
<1>5. ASSUME NEW w \in Words
      PROVE  (\E s \in used : w >= slots[s].offset
                              /\ w < slots[s].offset + slots[s].len)
             <=> Taken(stat, w)
  <2>1. ASSUME NEW i \in 0 .. n - 1, Covers(Place(stat, i), w)
        PROVE  Taken(stat, w)
    <3>1. /\ i < m => /\ slots[Place(stat, i)].offset >= stat.endInsert
                      /\ EndOf(Place(stat, i)) <= stat.beginAppend
          /\ ~(i < m) => EndOf(Place(stat, i)) <= stat.beginInsert
      BY <1>0, <1>1 DEF Ring, Regions
    <3>2. /\ w \in Int /\ slots[Place(stat, i)].offset \in Nat
          /\ EndOf(Place(stat, i)) \in Nat
      <4>1. TypeOK /\ w \in Int
        BY IndexRange DEF IInv, TypeInv
      <4>2. /\ slots[Place(stat, i)].offset \in Nat
            /\ slots[Place(stat, i)].len \in Nat
        BY <1>2, <4>1, SlotFacts
      <4>3. QED BY <4>1, <4>2 DEF EndOf
    <3>3. QED
      BY <1>1, <2>1, <3>1, <3>2, StatFields DEF Covers, Taken
  <2>2. Taken(stat, w) => \E i \in 0 .. n - 1 : Covers(Place(stat, i), w)
    BY <1>0, <1>1 DEF Ring, Regions
  <2>3. QED BY <1>2, <2>1, <2>2 DEF Covers, EndOf
<1>6. QED
  <2>1. {w \in Words : \E s \in used : /\ w >= slots[s].offset
                                      /\ w < slots[s].offset + slots[s].len}
        = {w \in Words : Taken(stat, w)}
    BY <1>5
  <2>2. {w \in Words : Taken(stat, w)} =
        {w \in Words : \/ w < stat.beginInsert
                       \/ w >= stat.endInsert /\ w < stat.beginAppend}
    BY DEF Taken
  <2>3. QED BY <1>1, <1>3, <1>4, <2>1, <2>2

(* Whenever nobody writes, the slots in use are exactly those from oldest to *)
(* youngest round the ring (what Fmq::_check verifies before a queue is      *)
(* opened for writing), for every ring, buffer and set of fitting lengths,   *)
(* any number of writers and any reports of the readers.                     *)
THEOREM AreaStaysExact == Smooth => (Spec => []ActiveAreaExact)
<1>1. IInv /\ RingInv => ActiveAreaExact
  BY RingArea
<1>2. QED BY <1>1, RingHolds, PTL

(* The offset check of _free_oldest_slot never fails, so the writers of a    *)
(* queue never wipe it.                                                      *)
THEOREM WritersNeverWipe == Smooth => (Spec => []NeverReinitialised)
<1>1. IInv /\ RingInv => NeverReinitialised
  BY DEF RingInv, NeverReinitialised
<1>2. QED BY <1>1, RingHolds, PTL

(* The messages kept are the latest ones, whole and without a hole, and the  *)
(* three region pointers of stat account for every word they occupy.         *)
THEOREM LatestRetained == Smooth => (Spec => []RetainsLatest)
<1>1. IInv /\ RingInv => RetainsLatest
  BY RingLatest
<1>2. QED BY <1>1, RingHolds, PTL
=============================================================================
