--------------------------- MODULE FmqUsers_proofs ---------------------------
(* Theorems about the processes that use a file message queue without its    *)
(* lock: the readers, and the write side as they see it.                     *)
EXTENDS FmqFifoInv, FmqOpenInv, FmqQueue_proofs, WellFoundedInduction

(* The history only grows, one entry at a time. *)
LEMMA LogGrows ==
  ASSUME TypeInv, [Next]_vars
  PROVE  /\ Len(log) \in Nat /\ Len(log') \in Nat /\ Len(log) <= Len(log')
         /\ \A k \in 1 .. Len(log) : log'[k] = log[k]
         /\ ReadIds \subseteq ReadIds'
         /\ log' # log => ChooseOffset
<1>1. log \in Seq(Entry) /\ Len(log) \in Nat
  BY DEF TypeInv, TypeOK
<1>2. CASE log' = log
  BY <1>1, <1>2 DEF ReadIds
<1>3. CASE ChooseOffset
  <2>1. PICK e : log' = Append(log, e)
    BY <1>3 DEF ChooseOffset
  <2>2. /\ Len(log') = Len(log) + 1
        /\ \A k \in 1 .. Len(log) : log'[k] = log[k]
    BY <1>1, <2>1, SMT
  <2>3. \A k \in 1 .. Len(log) : k \in 1 .. Len(log')
    BY <1>1, <2>2, SMT
  <2>4. ReadIds \subseteq ReadIds'
    BY <2>2, <2>3 DEF ReadIds
  <2>5. Len(log') \in Nat /\ Len(log) <= Len(log')
    BY <1>1, <2>2, SMT
  <2>6. QED BY <1>1, <1>3, <2>2, <2>4, <2>5
<1>4. log' = log \/ ChooseOffset
  BY DEF Next, WriterNext, HolderStep, BeginWrite, WaitForReader, WakeUp,
         StopWaiting, RingHasRoom, TooLarge, Packed, SwitchToInsert,
         FreeOldestSlot, OffsetMismatch, WriteWord, WriteSlot, WriteStat,
         ClearBuf, ClearSlot, ClearStat, Abandon, ReaderReports, vars
<1>5. QED BY <1>2, <1>3, <1>4

(* Slots in use lie inside the buffer, whatever fails. *)
LEMMA InsideStep ==
  ASSUME TypeInv, SlotsInside, [Next]_vars
  PROVE  SlotsInside'
<1>1. CASE slots' = slots
  BY <1>1 DEF SlotsInside
<1>2. CASE \E s \in Slots : slots' = [slots EXCEPT ![s] = EmptySlot]
  BY <1>2 DEF SlotsInside, EmptySlot, TypeInv, TypeOK
<1>3. CASE WriteSlot
  <2>1. job \in Job /\ off + job.len <= BufSize
    <3>1. /\ Storing /\ job \in Job /\ RoomAt(st, off, job.len)
          /\ st \in StatType /\ off \in Nat
      BY <1>3, IndexRange DEF WriteSlot, Storing, TypeInv, TypeOK
    <3>2. st.endInsert <= BufSize /\ st.endInsert \in Nat /\ job.len \in Nat
      BY <3>1, StatFields, JobTypes
    <3>3. QED BY <3>1, <3>2, SizesAssumption, SMT DEF RoomAt
  <2>2. QED
    BY <1>3, <2>1, JobTypes DEF WriteSlot, SlotsInside, TypeInv, TypeOK
<1>4. ASSUME FreeOldestSlot
      PROVE  slots' = slots \/ \E s \in Slots :
                                  slots' = [slots EXCEPT ![s] = EmptySlot]
  <2>1. CASE st.oldestSlot \in Slots
    BY <1>4, <2>1 DEF FreeOldestSlot
  <2>2. CASE st.oldestSlot \notin Slots
    BY <1>4, <2>2 DEF FreeOldestSlot, TypeInv, TypeOK
  <2>3. QED BY <2>1, <2>2
<1>5. ASSUME ClearSlot
      PROVE  slots' = slots \/ \E s \in Slots :
                                  slots' = [slots EXCEPT ![s] = EmptySlot]
  <2>1. CASE done \in Slots
    BY <1>5, <2>1 DEF ClearSlot
  <2>2. CASE done \notin Slots
    BY <1>5, <2>2 DEF ClearSlot, TypeInv, TypeOK
  <2>3. QED BY <2>1, <2>2
<1>6. \/ slots' = slots \/ WriteSlot \/ FreeOldestSlot \/ ClearSlot
  BY DEF Next, WriterNext, HolderStep, BeginWrite, WaitForReader, WakeUp,
         StopWaiting, RingHasRoom, TooLarge, Packed, SwitchToInsert,
         ChooseOffset, OffsetMismatch, WriteWord, WriteStat, device,
         ClearBuf, ClearStat, Abandon, ReaderReports, vars
<1>7. QED BY <1>1, <1>2, <1>3, <1>4, <1>5, <1>6

LEMMA InitTraced ==
  /\ InitStat.youngestId = Unset /\ InitStat.blockingWrite = FALSE
  /\ Unset \in ReadIds
BY DEF InitStat, ReadIds

(* Ids in a status and serials in the buffer come from the history. *)
LEMMA TracedStep ==
  ASSUME TypeInv, Traced, [Next]_vars
  PROVE  Traced'
<1>0. /\ TypeInv' /\ ReadIds \subseteq ReadIds' /\ Len(log) \in Nat
      /\ Len(log') \in Nat /\ Len(log) <= Len(log')
      /\ stat \in StatType /\ st \in StatType
  BY TypeStep, LogGrows DEF TypeInv, TypeOK
<1>1. BlockingWrite = FALSE =>
        /\ stage' # "block" /\ \A p \in Writers : waiting'[p] = NoJob
        /\ ~stat'.blockingWrite /\ ~st'.blockingWrite
  <2> SUFFICES ASSUME BlockingWrite = FALSE
               PROVE  /\ stage' # "block"
                      /\ \A p \in Writers : waiting'[p] = NoJob
                      /\ ~stat'.blockingWrite /\ ~st'.blockingWrite
    OBVIOUS
  <2>0. /\ stage # "block" /\ \A p \in Writers : waiting[p] = NoJob
        /\ ~stat.blockingWrite /\ ~st.blockingWrite
    BY DEF Traced
  <2>1. stage' # "block" /\ waiting' = waiting
    BY <2>0 DEF Next, WriterNext, HolderStep, BeginWrite, WaitForReader,
       WakeUp, StopWaiting, RingHasRoom, TooLarge, Packed, SwitchToInsert,
       FreeOldestSlot, OffsetMismatch, ChooseOffset, WriteWord, WriteSlot,
       WriteStat, ClearBuf, ClearSlot, ClearStat, Abandon, vars, local,
       Release
  <2>2. \A len : Freed(st, len).blockingWrite = st.blockingWrite
    BY <1>0 DEF Freed, StatType
  <2>3. Published(st).blockingWrite = st.blockingWrite
    BY <1>0 DEF Published, StatType
  <2>4. [st EXCEPT !.appendMode = FALSE].blockingWrite = st.blockingWrite
    BY <1>0 DEF StatType
  <2>5. stat' \in {stat, Published(st), InitStat}
    BY DEF Next, WriterNext, HolderStep, BeginWrite, WaitForReader,
       WakeUp, StopWaiting, RingHasRoom, TooLarge, Packed, SwitchToInsert,
       FreeOldestSlot, OffsetMismatch, ChooseOffset, WriteWord, WriteSlot,
       WriteStat, ClearBuf, ClearSlot, ClearStat, Abandon, vars, device
  <2>6. ~stat'.blockingWrite
    BY <2>0, <2>3, <2>5, InitTraced
  <2>7. \/ st' \in {st, stat, InitStat, [st EXCEPT !.appendMode = FALSE]}
        \/ \E len : st' = Freed(st, len)
    BY <2>0 DEF Next, WriterNext, HolderStep, BeginWrite, WaitForReader,
       WakeUp, StopWaiting, RingHasRoom, TooLarge, Packed, SwitchToInsert,
       FreeOldestSlot, OffsetMismatch, ChooseOffset, WriteWord, WriteSlot,
       WriteStat, ClearBuf, ClearSlot, ClearStat, Abandon, vars, local,
       Release
  <2>8. ~st'.blockingWrite
    BY <2>0, <2>2, <2>4, <2>7, InitTraced
  <2>9. QED BY <2>0, <2>1, <2>6, <2>8
<1>2. stat'.youngestId \in ReadIds /\ st'.youngestId \in ReadIds
  <2>0. stat.youngestId \in ReadIds /\ st.youngestId \in ReadIds
    BY DEF Traced
  <2>1. WriteStat => Published(st).youngestId \in ReadIds
    <3>1. WriteStat => Storing
      BY DEF WriteStat, Storing
    <3>2. Storing => Len(log) \in 1 .. Len(log) /\ log[Len(log)].id = job.id
      BY <1>0, SMT DEF Traced
    <3>3. Published(st).youngestId = job.id
      BY <1>0 DEF Published, StatType
    <3>4. QED BY <3>1, <3>2, <3>3 DEF ReadIds
  <2>2. \A len : Freed(st, len).youngestId = st.youngestId
    BY <1>0 DEF Freed, StatType
  <2>3. /\ [st EXCEPT !.appendMode = FALSE].youngestId = st.youngestId
        /\ [st EXCEPT !.blockingWrite = TRUE].youngestId = st.youngestId
    BY <1>0 DEF StatType
  <2>4. \A id : [stat EXCEPT !.lastIdRead = id].youngestId = stat.youngestId
    BY <1>0 DEF StatType
  <2>5. \/ stat' \in {stat, InitStat}
        \/ WriteStat /\ stat' = Published(st)
        \/ \E id \in ReadIds : stat' = [stat EXCEPT !.lastIdRead = id]
    BY DEF Next, WriterNext, HolderStep, BeginWrite, WaitForReader,
       WakeUp, StopWaiting, RingHasRoom, TooLarge, Packed, SwitchToInsert,
       FreeOldestSlot, OffsetMismatch, ChooseOffset, WriteWord, WriteSlot,
       WriteStat, ClearBuf, ClearSlot, ClearStat, Abandon, vars, device,
       ReaderReports
  <2>6. stat'.youngestId \in ReadIds
    BY <2>0, <2>1, <2>4, <2>5, InitTraced
  <2>7. \/ st' \in {st, stat, InitStat, [st EXCEPT !.appendMode = FALSE],
                    [st EXCEPT !.blockingWrite = TRUE]}
        \/ \E len : st' = Freed(st, len)
    BY DEF Next, WriterNext, HolderStep, BeginWrite, WaitForReader,
       WakeUp, StopWaiting, RingHasRoom, TooLarge, Packed, SwitchToInsert,
       FreeOldestSlot, OffsetMismatch, ChooseOffset, WriteWord, WriteSlot,
       WriteStat, ClearBuf, ClearSlot, ClearStat, Abandon, vars, local,
       Release, ReaderReports
  <2>8. st'.youngestId \in ReadIds
    BY <2>0, <2>2, <2>3, <2>7, InitTraced
  <2>9. QED BY <2>6, <2>8
<1>3. Storing' => Len(log') > 0 /\ log'[Len(log')].id = job'.id
  <2>1. CASE ChooseOffset
    BY <1>0, <2>1 DEF ChooseOffset, TypeInv, TypeOK
  <2>2. CASE ~ChooseOffset
    <3>1. log' = log
      BY <2>2, LogGrows
    <3>2. Storing' => Storing /\ job' = job
      BY <2>2 DEF Next, WriterNext, HolderStep, BeginWrite, WaitForReader,
       WakeUp, StopWaiting, RingHasRoom, TooLarge, Packed, SwitchToInsert,
       FreeOldestSlot, OffsetMismatch, WriteWord, WriteSlot,
       WriteStat, ClearBuf, ClearSlot, ClearStat, Abandon, vars, local,
       Release, ReaderReports, Storing
    <3>3. QED BY <3>1, <3>2 DEF Traced
  <2>3. QED BY <2>1, <2>2
<1>4. \A w \in Words : buf'[w].ser <= Len(log')
  <2>0. \A w \in Words : buf[w].ser <= Len(log) /\ buf[w].ser \in Nat
    BY DEF Traced, TypeInv, TypeOK, Cell
  <2>1. CASE buf' = buf
    BY <1>0, <2>0, <2>1, SMT
  <2>2. CASE WriteWord
    <3>1. \A w \in Words : buf'[w].ser \in {buf[w].ser, Len(log)}
      BY <2>2 DEF WriteWord, TypeInv, TypeOK
    <3>2. QED BY <1>0, <2>0, <3>1, SMT
  <2>3. CASE ClearBuf
    <3>1. \A w \in Words : buf'[w].ser \in {buf[w].ser, 0}
      BY <2>3 DEF ClearBuf, TypeInv, TypeOK, NoWord, BareCookie
    <3>2. QED BY <1>0, <2>0, <3>1, SMT
  <2>4. buf' = buf \/ WriteWord \/ ClearBuf
    BY DEF Next, WriterNext, HolderStep, BeginWrite, WaitForReader,
       WakeUp, StopWaiting, RingHasRoom, TooLarge, Packed, SwitchToInsert,
       FreeOldestSlot, OffsetMismatch, ChooseOffset, WriteSlot,
       WriteStat, ClearSlot, ClearStat, Abandon, vars, device,
       ReaderReports
  <2>5. QED BY <2>1, <2>2, <2>3, <2>4
<1>5. stat'.youngestId \in ReadIds' /\ st'.youngestId \in ReadIds'
  BY <1>0, <1>2
<1>6. QED BY <1>1, <1>3, <1>4, <1>5 DEF Traced

-----------------------------------------------------------------------------
(* The readers' objects.                                                     *)

(* A slot number a reader asks for is in the table, or one before it.        *)
LEMMA ReaderSlots ==
  /\ \A s \in Slots \cup {-2, -1} : NextSlot(s) \in Slots \cup {-1}
  /\ \A s \in Slots \cup {-1} : PrevSlot(s) \in Slots \cup {-2}
BY SizesAssumption, SMT DEF NextSlot, PrevSlot, Slots

LEMMA ClosedOK ==
  ASSUME NEW id \in Ids \cup {Unset, PhantomId},
         NEW s \in Slots \cup {-2, -1}, NEW g \in {"closed", "ready"}
  PROVE  LET n == [stage |-> g, st |-> InitStat, lastId |-> id,
                   lastSlot |-> s, copy |-> EmptySlot]
         IN  n \in Reader /\ ReaderOK(n)
<1>1. InitStat \in StatType /\ EmptySlot \in CopyType
  BY InitTypes, IndexRange DEF EmptySlot, CopyType
<1>2. QED
  BY <1>1, InitTraced DEF Reader, ReaderOK, ReaderStages

LEMMA CopyFacts ==
  ASSUME TypeInv, SlotsInside, NEW s \in Slots \cup {-1}
  PROVE  SlotAt(s) \in CopyType /\ (SlotAt(s).active => CopyOK(SlotAt(s)))
<1>1. CASE s \in Slots
  <2>1. slots[s] \in SlotType
    BY <1>1 DEF TypeInv, TypeOK
  <2>2. QED
    BY <1>1, <2>1 DEF SlotAt, SlotType, CopyType, CopyOK, SlotsInside
<1>2. CASE s \notin Slots
  BY <1>2, IndexRange DEF SlotAt, PhantomSlot, CopyType, CopyOK
<1>3. QED BY <1>1, <1>2

(* The entry a reader takes for a message was written under that id.         *)
LEMMA CheckedId ==
  ASSUME TypeInv, Traced, NEW c \in CopyType, CopyOK(c), EntryChecks(c)
  PROVE  /\ c.id \in ReadIds /\ c.id \in Ids
         /\ c.offset + c.len - 1 \in Words
         /\ buf[c.offset + c.len - 1].ser \in 1 .. Len(log)
<1>1. c.len \in Nat /\ c.offset \in Nat /\ c.len > 0
  BY IndexRange DEF CopyType, EntryChecks
<1>2. c.id \in Ids /\ c.offset + c.len <= BufSize
  BY <1>1 DEF CopyOK
<1>3. c.offset + c.len - 1 \in Words
  BY <1>1, <1>2, SizesAssumption, SMT DEF Words
<1>4. buf[c.offset + c.len - 1].ser \in 1 .. Len(log)
  <2>1. /\ buf[c.offset + c.len - 1].ser \in Nat
        /\ buf[c.offset + c.len - 1].ser <= Len(log)
    BY <1>3 DEF TypeInv, TypeOK, Traced, Cell
  <2>2. Len(log) \in Nat /\ buf[c.offset + c.len - 1].ser # 0
    BY DEF TypeInv, TypeOK, EntryChecks
  <2>3. QED BY <2>1, <2>2, SMT
<1>5. c.id \in ReadIds
  BY <1>4 DEF EntryChecks, ReadIds
<1>6. QED BY <1>2, <1>3, <1>4, <1>5

(* A nonempty set of numbers below a bound has a greatest member. *)
LEMMA Greatest ==
  ASSUME NEW n \in Nat, NEW S \in SUBSET (1 .. n), S # {}
  PROVE  \E k \in S : \A j \in S : j <= k
<1> DEFINE T == {n - k : k \in S}
<1>1. T \subseteq Nat /\ T # {}
  <2>1. \A k \in S : n - k \in Nat
    BY SMT
  <2>2. QED BY <2>1
<1>2. PICK R : R = OpToRel(<, Nat)
  OBVIOUS
<1>3. \A x, y \in Nat : x < y => <<x, y>> \in R
  BY <1>2 DEF OpToRel
<1>4. IsWellFoundedOn(R, Nat)
  BY <1>2, NatLessThanWellFounded
<1>5. \E x \in T : \A y \in T : ~(<<y, x>> \in R)
  <2> HIDE DEF T
  <2>1. QED BY <1>1, <1>4, WFMin
<1>6. PICK x \in T : \A y \in T : ~(<<y, x>> \in R)
  BY <1>5
<1>7. PICK k \in S : x = n - k
  BY <1>6
<1>8. ASSUME NEW j \in S PROVE j <= k
  <2>1. /\ n - j \in T /\ n - j \in Nat /\ n - k \in Nat
        /\ j \in Nat /\ k \in Nat
    BY <1>1
  <2>2. ~(n - j < n - k)
    BY <1>3, <1>6, <1>7, <2>1
  <2>3. QED BY <2>1, <2>2, SMT
<1>9. QED BY <1>8

(* The latest entry written for an id that was written. *)
LEMMA SerialFound ==
  ASSUME TypeInv, NEW id \in ReadIds, id # Unset
  PROVE  /\ SerialOf(id) \in 1 .. Len(log)
         /\ log[SerialOf(id)].id = id
<1> DEFINE with == {k \in 1 .. Len(log) : log[k].id = id}
<1>1. Len(log) \in Nat
  BY DEF TypeInv, TypeOK
<1>2. with # {} /\ with \in SUBSET (1 .. Len(log))
  BY DEF ReadIds
<1>3. \E k \in with : \A j \in with : j <= k
  <2> HIDE DEF with
  <2>1. QED BY <1>1, <1>2, Greatest
<1>4. SerialOf(id) \in with
  BY <1>3 DEF SerialOf
<1>5. QED BY <1>4

(* Every step of a reader leaves it a well-formed object. *)
LEMMA ReaderMoves ==
  ASSUME ReaderInv, NEW r \in Readers,
         OpenAtStart(r) \/ OpenAtEnd(r) \/ ReaderStep(r)
  PROVE  \E n \in Reader : ReaderOK(n) /\ rd' = [rd EXCEPT ![r] = n]
<1>0. /\ TypeInv /\ Traced /\ SlotsInside /\ rd[r] \in Reader
      /\ ReaderOK(rd[r]) /\ stat \in StatType
      /\ rd \in [Readers -> Reader]
  BY DEF ReaderInv, TypeInv, TypeOK
<1>1. /\ rd[r].st \in StatType /\ rd[r].copy \in CopyType
      /\ rd[r].lastId \in Ids \cup {Unset, PhantomId}
      /\ rd[r].lastSlot \in Slots \cup {-2, -1}
      /\ rd[r].stage \in ReaderStages
  BY <1>0 DEF Reader
<1>2. Target(r) \in Slots \cup {-1}
  BY <1>1, ReaderSlots, StatFields DEF Target, Unset
<1>3. ASSUME NEW id \in Ids \cup {Unset, PhantomId},
             NEW s \in Slots \cup {-2, -1}, Ready(r, id, s)
      PROVE  \E n \in Reader : ReaderOK(n) /\ rd' = [rd EXCEPT ![r] = n]
  BY <1>3, ClosedOK DEF Ready
<1>4. ASSUME NEW id \in ReadIds, id \in Ids \cup {Unset},
             NEW s \in Slots \cup {-1}, Positioned(r, id, s)
      PROVE  \E n \in Reader : ReaderOK(n) /\ rd' = [rd EXCEPT ![r] = n]
  <2>1. CASE rd[r].st.blockingWrite
    <3> DEFINE n == [rd[r] EXCEPT !.stage = "update", !.lastId = id,
                                  !.lastSlot = s, !.copy = EmptySlot]
    <3>1. rd' = [rd EXCEPT ![r] = n]
      BY <1>4, <2>1, <1>0 DEF Positioned
    <3>2. n \in Reader
      BY <1>0, <1>4, InitTypes, IndexRange DEF Reader, ReaderStages,
         CopyType, EmptySlot
    <3>3. ReaderOK(n)
      BY <1>0, <1>4, <2>1, WritersAssumption DEF Reader, ReaderOK
    <3>4. QED BY <3>1, <3>2, <3>3
  <2>2. CASE ~rd[r].st.blockingWrite
    BY <1>3, <1>4, <2>2 DEF Positioned
  <2>3. QED BY <2>1, <2>2
<1>5. ASSUME NEW id \in Ids \cup {Unset, PhantomId}, GiveUp(r, id)
      PROVE  \E n \in Reader : ReaderOK(n) /\ rd' = [rd EXCEPT ![r] = n]
  <2>1. CASE rd[r].stage \in {"next", "nextMsg"}
    <3> DEFINE n == [rd[r] EXCEPT !.stage = "youngest", !.lastId = id,
                                  !.lastSlot = Target(r), !.copy = EmptySlot]
    <3>1. rd' = [rd EXCEPT ![r] = n]
      BY <1>0, <1>5, <2>1 DEF GiveUp
    <3>2. n \in Reader
      BY <1>0, <1>2, InitTypes, IndexRange DEF Reader, ReaderStages,
         CopyType, EmptySlot
    <3>3. ReaderOK(n)
      BY <1>0 DEF Reader, ReaderOK
    <3>4. QED BY <3>1, <3>2, <3>3
  <2>2. CASE rd[r].stage \notin {"next", "nextMsg"}
    BY <1>2, <1>3, <1>5, <2>2 DEF GiveUp
  <2>3. QED BY <2>1, <2>2
<1>6. Unset \in ReadIds /\ Unset \in Ids \cup {Unset, PhantomId}
  BY InitTraced
<1>7. CASE OpenAtStart(r)
  <2>1. PrevSlot(stat.oldestSlot) \in Slots \cup {-2, -1}
    BY <1>0, StatFields, ReaderSlots DEF Unset
  <2>2. QED BY <1>3, <1>6, <1>7, <2>1 DEF OpenAtStart
<1>8. CASE OpenAtEnd(r)
  <2> DEFINE n == [rd[r] EXCEPT !.stage = "seekEnd", !.st = stat,
                                !.lastSlot = PrevSlot(stat.oldestSlot)]
  <2>1. PrevSlot(stat.oldestSlot) \in Slots \cup {-2, -1}
    BY <1>0, StatFields, ReaderSlots DEF Unset
  <2>2. rd' = [rd EXCEPT ![r] = n]
    BY <1>0, <1>8 DEF OpenAtEnd
  <2>3. n \in Reader
    BY <1>0, <2>1 DEF Reader, ReaderStages
  <2>4. ReaderOK(n)
    BY <1>0 DEF Reader, ReaderOK, Traced
  <2>5. QED BY <2>2, <2>3, <2>4
<1>9. CASE SeekEnd(r)
  <2>1. CASE Positioned(r, Unset, Unset)
    BY <1>4, <1>6, <2>1 DEF Unset
  <2>2. ASSUME SlotHolding(rd[r].st.youngestId) # Unset,
               Positioned(r, rd[r].st.youngestId,
                          SlotHolding(rd[r].st.youngestId))
        PROVE  \E n \in Reader : ReaderOK(n) /\ rd' = [rd EXCEPT ![r] = n]
    <3>1. rd[r].st.youngestId \in ReadIds
      BY <1>0 DEF ReaderOK
    <3>2. rd[r].st.youngestId \in Ids \cup {Unset}
      BY <1>1, StatFields
    <3>3. SlotHolding(rd[r].st.youngestId) \in Slots
      BY <2>2 DEF SlotHolding
    <3>4. QED BY <1>4, <2>2, <3>1, <3>2, <3>3
  <2>3. CASE rd' = [rd EXCEPT ![r] = Closed]
    BY <2>3, <1>6, ClosedOK DEF Closed, Unset
  <2>4. QED BY <1>9, <2>1, <2>2, <2>3 DEF SeekEnd
<1>10. CASE PollStat(r)
  <2>1. CASE Ready(r, Unset, Unset)
    BY <1>3, <1>6, <2>1 DEF Unset
  <2>2. CASE UNCHANGED rd
    BY <1>0, <2>2
  <2>3. CASE rd' = [rd EXCEPT ![r].stage = "next", ![r].st = stat]
    <3> DEFINE n == [rd[r] EXCEPT !.stage = "next", !.st = stat]
    <3>1. rd' = [rd EXCEPT ![r] = n]
      BY <1>0, <2>3
    <3>2. n \in Reader
      BY <1>0 DEF Reader, ReaderStages
    <3>3. ReaderOK(n)
      BY <1>0 DEF Reader, ReaderOK, Traced
    <3>4. QED BY <3>1, <3>2, <3>3
  <2>4. QED BY <1>10, <2>1, <2>2, <2>3 DEF PollStat
<1>11. CASE ReadSlot(r)
  <2>1. CASE GiveUp(r, Unset)
    BY <1>5, <1>6, <2>1
  <2>2. CASE ~GiveUp(r, Unset)
    <3> DEFINE g == IF rd[r].stage = "next" THEN "nextMsg" ELSE "youngestMsg"
               n == [rd[r] EXCEPT !.copy = SlotAt(Target(r)), !.stage = g]
    <3>1. rd' = [rd EXCEPT ![r] = n] /\ SlotAt(Target(r)).active
      BY <1>0, <1>11, <2>2 DEF ReadSlot, Follows
    <3>2. SlotAt(Target(r)) \in CopyType /\ CopyOK(SlotAt(Target(r)))
      BY <1>0, <1>2, <3>1, CopyFacts
    <3>3. n \in Reader
      BY <1>0, <3>2 DEF Reader, ReaderStages
    <3>4. ReaderOK(n)
      BY <1>0, <3>2 DEF Reader, ReaderOK
    <3>5. QED BY <3>1, <3>3, <3>4
  <2>3. QED BY <2>1, <2>2
<1>12. CASE ReadMsg(r)
  <2>1. CopyOK(rd[r].copy)
    BY <1>0, <1>12 DEF ReadMsg, ReaderOK
  <2>2. CASE EntryChecks(rd[r].copy)
    <3>1. rd[r].copy.id \in ReadIds /\ rd[r].copy.id \in Ids
      BY <1>0, <1>1, <2>1, <2>2, CheckedId
    <3>2. QED BY <1>2, <1>4, <1>12, <2>2, <3>1 DEF ReadMsg
  <2>3. CASE ~EntryChecks(rd[r].copy)
    <3>1. rd[r].copy.id \in Ids \cup {Unset, PhantomId}
      BY <1>1 DEF CopyType
    <3>2. QED BY <1>5, <1>12, <2>3, <3>1 DEF ReadMsg
  <2>4. QED BY <2>2, <2>3
<1>13. CASE UpdateLastIdRead(r)
  BY <1>1, <1>3, <1>13 DEF UpdateLastIdRead
<1>14. QED
  BY <1>7, <1>8, <1>9, <1>10, <1>11, <1>12, <1>13 DEF ReaderStep

(* What readers do to the queue the write side expects of them: a report of  *)
(* an id that was written, in blocking mode only, and nothing else.          *)
LEMMA ReaderIsNext ==
  ASSUME ReaderInv, [ReaderNext]_rvars
  PROVE  [Next]_vars
<1>1. CASE WriterNext
  BY <1>1 DEF Next
<1>2. CASE UNCHANGED rvars
  BY <1>2 DEF rvars
<1>3. ASSUME NEW r \in Readers,
             OpenAtStart(r) \/ OpenAtEnd(r) \/ ReaderStep(r)
      PROVE  [Next]_vars
  <2>1. CASE UpdateLastIdRead(r)
    <3>1. ReaderOK(rd[r]) /\ rd[r].stage = "update"
      BY <2>1 DEF ReaderInv, UpdateLastIdRead
    <3>2. BlockingWrite /\ rd[r].lastId \in ReadIds
      BY <3>1 DEF ReaderOK
    <3>3. QED BY <2>1, <3>2 DEF Next, UpdateLastIdRead
  <2>2. QED
    BY <1>3, <2>1 DEF OpenAtStart, OpenAtEnd, ReaderStep, SeekEnd, PollStat,
                      ReadSlot, ReadMsg
<1>4. QED BY <1>1, <1>2, <1>3 DEF ReaderNext

LEMMA ReaderInitInv == ReaderInit => ReaderInv
<1> SUFFICES ASSUME ReaderInit PROVE ReaderInv
  OBVIOUS
<1>1. TypeInv /\ Init
  BY TypeInit DEF ReaderInit
<1>2. log = <<>> /\ Len(log) = 0
  BY <1>1 DEF Init
<1>3. \A w \in Words : buf[w].ser = 0
  BY <1>1 DEF Init, NoWord, BareCookie
<1>4. Traced
  BY <1>1, <1>2, <1>3, InitTraced DEF Init, Traced, Storing
<1>5. SlotsInside
  BY <1>1 DEF Init, SlotsInside, EmptySlot
<1>6. Closed \in Reader /\ ReaderOK(Closed)
  BY ClosedOK DEF Closed, Unset
<1>7. NoDelivery \in Delivery
  BY DEF NoDelivery, Delivery
<1>8. QED BY <1>1, <1>4, <1>5, <1>6, <1>7 DEF ReaderInit, ReaderInv

(* The history of what was handed over is well formed too. *)
LEMMA LastMoves ==
  ASSUME ReaderInv, [ReaderNext]_rvars
  PROVE  \/ last' = last
         \/ \E r \in Readers, d \in Delivery : last' = [last EXCEPT ![r] = d]
<1>0. /\ TypeInv /\ Traced /\ last \in [Readers -> Delivery]
      /\ rd \in [Readers -> Reader]
  BY DEF ReaderInv
<1>1. ASSUME NEW r \in Readers, SeekEnd(r), last' # last
      PROVE  \E d \in Delivery : last' = [last EXCEPT ![r] = d]
  <2> DEFINE k == SerialOf(rd[r].st.youngestId)
             d == [last[r] EXCEPT !.ser = k]
  <2>1. rd[r].st.youngestId \in ReadIds /\ rd[r].st.youngestId # Unset
    BY <1>1 DEF ReaderInv, ReaderOK, SeekEnd
  <2>2. k \in Nat
    BY <1>0, <2>1, SerialFound
  <2>3. d \in Delivery
    BY <1>0, <2>2 DEF Delivery
  <2>4. last' = [last EXCEPT ![r] = d]
    BY <1>0, <1>1 DEF SeekEnd
  <2>5. QED BY <2>3, <2>4
<1>2. ASSUME NEW r \in Readers, ReadMsg(r), EntryChecks(rd[r].copy),
             Deliver(r, rd[r].copy)
      PROVE  \E d \in Delivery : last' = [last EXCEPT ![r] = d]
  <2> DEFINE c == rd[r].copy
  <2>1. c \in CopyType /\ CopyOK(c)
    BY <1>0, <1>2 DEF Reader, ReaderInv, ReaderOK, ReadMsg
  <2>2. buf[c.offset + c.len - 1].ser \in 1 .. Len(log)
    BY <1>0, <1>2, <2>1, CheckedId
  <2>3. buf[c.offset + c.len - 1].ser \in Nat /\ 1 - last[r].n \in {0, 1}
    BY <1>0, <2>2 DEF Delivery
  <2>4. BeyondStat(rd[r].st, c.id) \in BOOLEAN
    BY DEF BeyondStat
  <2> DEFINE k == buf[c.offset + c.len - 1].ser
             whole == \A w \in 1 .. c.len :
                        buf[c.offset + w - 1] = [ser |-> k, word |-> w]
             d == [ser |-> k, n |-> 1 - last[r].n, whole |-> whole,
                   ahead |-> BeyondStat(rd[r].st, c.id)]
  <2>5. last' = [last EXCEPT ![r] = d]
    BY <1>2 DEF Deliver
  <2>6. whole \in BOOLEAN
    OBVIOUS
  <2>7. d \in Delivery
    <3> HIDE DEF k, whole
    <3>1. k \in Nat
      BY <2>3 DEF k
    <3>2. QED BY <2>3, <2>4, <2>6, <3>1 DEF Delivery
  <2>8. QED BY <2>5, <2>7
<1>3. CASE \E r \in Readers : SeekEnd(r)
  BY <1>1, <1>3
<1>4. CASE \E r \in Readers : ReadMsg(r)
  BY <1>2, <1>4 DEF ReadMsg
<1>5. QED
  BY <1>3, <1>4 DEF ReaderNext, rvars, OpenAtStart, OpenAtEnd, ReaderStep,
                    PollStat, ReadSlot, UpdateLastIdRead

LEMMA ReaderInvStep == ReaderInv /\ [ReaderNext]_rvars => ReaderInv'
<1> SUFFICES ASSUME ReaderInv, [ReaderNext]_rvars PROVE ReaderInv'
  OBVIOUS
<1>0. [Next]_vars /\ TypeInv /\ Traced /\ SlotsInside
  BY ReaderIsNext DEF ReaderInv
<1>1. TypeInv' /\ Traced' /\ SlotsInside'
  BY <1>0, TypeStep, TracedStep, InsideStep
<1>2. \A x \in Reader : ReaderOK(x) => ReaderOK(x)'
  <2>1. ReadIds \subseteq ReadIds'
    BY <1>0, LogGrows
  <2>2. QED BY <2>1 DEF ReaderOK
<1>3. last' \in [Readers -> Delivery]
  BY LastMoves DEF ReaderInv
<1>4. \/ rd' = rd
      \/ \E r \in Readers, n \in Reader :
            ReaderOK(n) /\ rd' = [rd EXCEPT ![r] = n]
  BY ReaderMoves DEF ReaderNext, rvars
<1>5. rd' \in [Readers -> Reader]
  BY <1>4 DEF ReaderInv
<1>6. \A r \in Readers : ReaderOK(rd'[r])
  BY <1>4 DEF ReaderInv
<1>7. \A r \in Readers : ReaderOK(rd[r])'
  <2> SUFFICES ASSUME NEW r \in Readers PROVE ReaderOK(rd[r])'
    OBVIOUS
  <2>1. rd'[r] \in Reader /\ ReaderOK(rd'[r])
    BY <1>5, <1>6
  <2>2. PICK x \in Reader : x = rd'[r]
    BY <2>1
  <2>3. ReaderOK(x)'
    BY <1>2, <2>1, <2>2
  <2>4. QED BY <2>2, <2>3 DEF ReaderOK
<1>8. QED BY <1>1, <1>3, <1>5, <1>7 DEF ReaderInv

(* What readers do, however many there are and wherever they stand between   *)
(* two device accesses, is covered by what the write side assumes of them:   *)
(* a queue with readers is a queue of FmqQueue, so that every theorem about  *)
(* the write side holds beside them.                                         *)
THEOREM ReadersAreHarmless == ReaderSpec => Spec
<1>1. ReaderInit => Init /\ ReaderInv
  BY ReaderInitInv DEF ReaderInit
<1>2. ReaderInv /\ [ReaderNext]_rvars => [Next]_vars
  BY ReaderIsNext
<1>3. ReaderInv /\ [ReaderNext]_rvars => ReaderInv'
  BY ReaderInvStep
<1>4. QED BY <1>1, <1>2, <1>3, PTL DEF ReaderSpec, Spec

(* A reader's object is always one the code can be in: the slot it asks for  *)
(* is in the table or the one before it, and a slot it took for a message    *)
(* lies in the buffer, so that _read_msg reads inside the file.              *)
THEOREM ReadersStayInside == ReaderSpec => []ReaderInv
<1>1. ReaderInit => ReaderInv
  BY ReaderInitInv
<1>2. ReaderInv /\ [ReaderNext]_rvars => ReaderInv'
  BY ReaderInvStep
<1>3. QED BY <1>1, <1>2, PTL DEF ReaderSpec

-----------------------------------------------------------------------------
(* What a slot in use is worth, as long as nothing fails.                    *)

(* A slot in use points at a whole entry, also while its writer has not yet  *)
(* published it.                                                             *)
LEMMA InUseWhole ==
  ASSUME IInv, RingInv, NEW t \in Slots, slots[t].active
  PROVE  /\ slots[t].len > 0 /\ slots[t].len \in Nat /\ slots[t].offset \in Nat
         /\ \E k \in 1 .. Len(log) :
              /\ HoldsEntry(t, k)
              /\ k <= Newest \/ (stage = "stat" /\ k = Len(log))
<1>0. /\ TypeInv /\ TypeOK /\ Len(log) \in Nat
      /\ slots[t].len \in Nat /\ slots[t].offset \in Nat
  BY SlotFacts DEF IInv, TypeInv, TypeOK
<1>1. slots[t].len > 0
  BY DEF IInv, DeviceOK, SlotsOK
<1>2. PICK n \in 0 .. NSlots, m \in 0 .. NSlots : Ring(Cur, n, m)
  BY DEF RingInv
<1>3. CASE \E i \in 0 .. n - 1 : t = Place(Cur, i)
  <2>1. PICK i \in 0 .. n - 1 : t = Place(Cur, i)
    BY <1>3
  <2>2. HoldsEntry(Place(Cur, i), Newest - n + 1 + i)
    BY <1>2 DEF Ring, Latest
  <2>3. PICK k : k = Newest - n + 1 + i
    OBVIOUS
  <2>4. HoldsEntry(t, k)
    BY <2>1, <2>2, <2>3 DEF HoldsEntry
  <2>5. n <= Newest /\ Newest \in {Len(log), Len(log) - 1}
    BY <1>2 DEF Ring, Counts, Newest
  <2>6. k \in 1 .. Len(log) /\ k <= Newest
    BY <1>0, <2>3, <2>5, SizesAssumption, SMT
  <2>7. QED BY <1>0, <1>1, <2>4, <2>6
<1>4. CASE stage = "stat" /\ t = job.slot
  <2>1. /\ Storing /\ Len(log) > 0 /\ done = job.len
        /\ log[Len(log)] = [id |-> job.id, slot |-> job.slot,
                            len |-> job.len]
        /\ slots[t] = [active |-> TRUE, id |-> job.id, len |-> job.len,
                       offset |-> off]
        /\ \A i \in 1 .. job.len :
              buf[off + i - 1] = [ser |-> Len(log), word |-> i]
    BY <1>4 DEF IInv, EntryOK, Storing
  <2>2. HoldsEntry(t, Len(log))
    BY <1>4, <2>1 DEF HoldsEntry
  <2>3. Len(log) \in 1 .. Len(log)
    BY <1>0, <2>1, SMT
  <2>4. QED BY <1>0, <1>1, <1>4, <2>2, <2>3
<1>5. QED BY <1>2, <1>3, <1>4 DEF Ring, Latest

(* A message is handed over by _read_msg, from a slot number in the table.   *)
LEMMA DeliveryIsRead ==
  ASSUME ReaderInv, [ReaderNext]_rvars, NEW r \in Readers, Delivered(r)
  PROVE  /\ ReadMsg(r) /\ EntryChecks(rd[r].copy)
         /\ Deliver(r, rd[r].copy)
<1>1. CASE \E q \in Readers : ReadMsg(q) /\ EntryChecks(rd[q].copy)
                              /\ Deliver(q, rd[q].copy)
  <2>1. PICK q \in Readers : ReadMsg(q) /\ EntryChecks(rd[q].copy)
                              /\ Deliver(q, rd[q].copy)
    BY <1>1
  <2>2. r # q => last'[r] = last[r]
    BY <2>1 DEF ReaderInv, Deliver
  <2>3. QED BY <2>1, <2>2 DEF Delivered
<1>2. CASE \E q \in Readers : SeekEnd(q)
  BY <1>2 DEF SeekEnd, Delivered, ReaderInv, Delivery
<1>3. CASE last' = last
  BY <1>3 DEF Delivered
<1>4. QED
  BY <1>1, <1>2, <1>3
     DEF ReaderNext, rvars, OpenAtStart, OpenAtEnd, ReaderStep, PollStat,
         ReadSlot, ReadMsg, UpdateLastIdRead

(* The words between are of one entry if the slot has not changed. *)
LEMMA ReadsWhole ==
  ASSUME IInv, RingInv, ReaderInv, [ReaderNext]_rvars, NEW r \in Readers,
         Delivered(r), SlotAt(Target(r)) = rd[r].copy
  PROVE  last'[r].whole
<1> DEFINE c == rd[r].copy
<1>1. Deliver(r, c) /\ EntryChecks(c) /\ ReadMsg(r)
  BY DeliveryIsRead
<1>2. CopyOK(c)
  BY <1>1 DEF ReaderInv, ReaderOK, ReadMsg
<1>3. Target(r) \in Slots /\ slots[Target(r)] = c
  BY <1>1 DEF EntryChecks, SlotAt, PhantomSlot
<1>4. PICK t \in Slots : t = Target(r)
  BY <1>3
<1>5. slots[t] = c /\ slots[t].active
  BY <1>2, <1>3, <1>4 DEF CopyOK
<1>6. PICK k \in 1 .. Len(log) : HoldsEntry(t, k)
  BY <1>5, InUseWhole
<1>7. c.len \in Nat /\ c.offset \in Nat /\ c.len > 0
  BY <1>5, InUseWhole
<1>8. \A w \in 1 .. c.len : buf[c.offset + w - 1] = [ser |-> k, word |-> w]
  BY <1>5, <1>6 DEF HoldsEntry
<1>9. buf[c.offset + c.len - 1].ser = k
  <2>1. c.len \in 1 .. c.len
    BY <1>7, SMT
  <2>2. buf[c.offset + c.len - 1] = [ser |-> k, word |-> c.len]
    BY <1>8, <2>1
  <2>3. QED BY <2>2
<1>10. last'[r].whole = \A w \in 1 .. c.len :
         buf[c.offset + w - 1] =
           [ser |-> buf[c.offset + c.len - 1].ser, word |-> w]
  BY <1>1 DEF Deliver, ReaderInv
<1>11. QED BY <1>8, <1>9, <1>10

LEMMA ReaderRing ==
  Smooth => (ReaderSpec => [](IInv /\ RingInv /\ ReaderInv))
<1> SUFFICES ASSUME Smooth
             PROVE  ReaderSpec => [](IInv /\ RingInv /\ ReaderInv)
  OBVIOUS
<1>1. Spec => [](IInv /\ RingInv)
  BY RingHolds
<1>2. QED BY <1>1, ReadersAreHarmless, ReadersStayInside, PTL

(* An entry that passed the checks and whose slot still reads the same is    *)
(* whole: a writer zeroes a slot before it reuses any of its words.          *)
THEOREM UnchangedSlotIsWhole == Smooth => (ReaderSpec => WholeIfSlotUnchanged)
<1> SUFFICES ASSUME Smooth PROVE ReaderSpec => WholeIfSlotUnchanged
  OBVIOUS
<1>1. IInv /\ RingInv /\ ReaderInv /\ [ReaderNext]_rvars =>
        [\A r \in Readers :
           Delivered(r) /\ SlotAt(Target(r)) = rd[r].copy
             => last'[r].whole]_rvars
  BY ReadsWhole
<1>2. QED BY <1>1, ReaderRing, PTL DEF ReaderSpec, WholeIfSlotUnchanged

-----------------------------------------------------------------------------
(* Ids and slots follow the order of the messages.                           *)

(* A step that logs and publishes nothing. *)
LEMMA SerialKept ==
  ASSUME SerialInv, log' = log, Newest' = Newest,
         stat'.youngestId = stat.youngestId,
         stat'.youngestSlot = stat.youngestSlot,
         Writing' => /\ Writing /\ job' = job /\ (Storing => Storing')
                     /\ st'.youngestId = st.youngestId
                     /\ st'.youngestSlot = st.youngestSlot,
         \A p \in Writers : waiting'[p] # NoJob =>
            waiting'[p].id = Newest /\ Len(log) < MaxMsgs
  PROVE  SerialInv'
<1>1. Points(stat)'
  BY DEF SerialInv, Points
<1>2. Writing' => job'.id = Newest' /\ Points(st)'
                  /\ (Storing' \/ Len(log') < MaxMsgs)
  BY DEF SerialInv, Points
<1>3. QED
  BY <1>1, <1>2 DEF SerialInv

LEMMA SerialInit == Init => SerialInv
<1> SUFFICES ASSUME Init PROVE SerialInv
  OBVIOUS
<1>1. /\ Len(log) = 0 /\ Newest = 0 /\ stage = "idle"
      /\ \A p \in Writers : waiting[p] = NoJob
  BY DEF Init, Newest, Storing
<1>2. Points(stat)
  BY <1>1 DEF Init, InitStat, Points, Unset
<1>3. QED
  BY <1>1, <1>2, WritersAssumption DEF SerialInv, Writing

(* Steps of the lock holder before the entry is logged. *)
LEMMA SerialPrepare ==
  ASSUME IInv, SerialInv,
         \/ StopWaiting \/ RingHasRoom \/ TooLarge \/ Packed
         \/ SwitchToInsert \/ FreeOldestSlot \/ WaitForReader
  PROVE  SerialInv'
<1>1. /\ Writing /\ ~Storing /\ log' = log /\ stat' = stat /\ st \in StatType
      /\ TypeInv /\ stage # "idle"
  BY DEF StopWaiting, RingHasRoom, TooLarge, Packed, SwitchToInsert, MustFree,
         FreeOldestSlot, WaitForReader, Writing, Storing, device, IInv,
         TypeInv, TypeOK
<1>2. ~Storing'
  BY DEF StopWaiting, RingHasRoom, TooLarge, Packed, SwitchToInsert,
         FreeOldestSlot, WaitForReader, Storing, Release
<1>3. Newest' = Newest
  BY <1>1, <1>2 DEF Newest
<1>4. \A len : /\ Freed(st, len).youngestId = st.youngestId
               /\ Freed(st, len).youngestSlot = st.youngestSlot
  BY <1>1 DEF Freed, StatType
<1>5. /\ [st EXCEPT !.appendMode = FALSE].youngestId = st.youngestId
      /\ [st EXCEPT !.appendMode = FALSE].youngestSlot = st.youngestSlot
      /\ [st EXCEPT !.blockingWrite = TRUE].youngestId = st.youngestId
      /\ [st EXCEPT !.blockingWrite = TRUE].youngestSlot = st.youngestSlot
  BY <1>1 DEF StatType
<1>6. Writing' => /\ job' = job
                  /\ \/ st' \in {st, [st EXCEPT !.appendMode = FALSE],
                                 [st EXCEPT !.blockingWrite = TRUE]}
                     \/ \E len : st' = Freed(st, len)
  BY DEF StopWaiting, RingHasRoom, TooLarge, Packed, SwitchToInsert,
         FreeOldestSlot, WaitForReader, Release, Writing
<1>7. Writing' => /\ Writing /\ job' = job /\ (Storing => Storing')
                  /\ st'.youngestId = st.youngestId
                  /\ st'.youngestSlot = st.youngestSlot
  BY <1>1, <1>4, <1>5, <1>6
<1>8. \A p \in Writers : waiting'[p] # NoJob =>
        waiting'[p].id = Newest /\ Len(log) < MaxMsgs
  <2>1. \A p \in Writers : waiting[p] = NoJob
    BY <1>1 DEF IInv, WaitOK
  <2>2. CASE WaitForReader
    BY <1>1, <2>1, <2>2 DEF WaitForReader, SerialInv, TypeInv, TypeOK
  <2>3. CASE ~WaitForReader
    BY <2>1, <2>3 DEF StopWaiting, RingHasRoom, TooLarge, Packed,
       SwitchToInsert, FreeOldestSlot, WaitForReader
  <2>4. QED BY <2>2, <2>3
<1>9. QED BY <1>1, <1>3, <1>7, <1>8, SerialKept

(* Taking the lock. *)
LEMMA SerialBegin ==
  ASSUME IInv, RingInv, SerialInv, Apart, NEW p \in Writers
  PROVE  /\ \A len \in Lens : BeginWrite(p, len) => SerialInv'
         /\ WakeUp(p) => SerialInv'
<1>1. /\ TypeInv /\ Len(log) \in Nat /\ stat \in StatType
  BY DEF IInv, TypeInv, TypeOK
<1>2. lock = Unset => /\ stage = "idle" /\ Newest = Len(log)
  BY DEF RingInv, Newest, Storing
<1>3. ASSUME NEW len \in Lens, BeginWrite(p, len)
      PROVE  SerialInv'
  <2>1. /\ log' = log /\ stat' = stat /\ st' = stat /\ waiting' = waiting
        /\ stage' \in {"block", "ring"} /\ Newest = Len(log)
        /\ job'.id = NextId(stat.youngestId) /\ Len(log) < MaxMsgs
    BY <1>2, <1>3 DEF BeginWrite, device
  <2>2. Newest' = Newest
    BY <2>1 DEF Newest, Storing
  <2>3. job'.id = Newest
    BY <1>1, <2>1, SizesAssumption, WritersAssumption, SMT
       DEF SerialInv, Points, NextId, Apart
  <2>4. Points(stat)' /\ Points(st)'
    BY <2>1, <2>2 DEF SerialInv, Points
  <2>5. QED BY <2>1, <2>2, <2>3, <2>4 DEF SerialInv
<1>4. ASSUME WakeUp(p)
      PROVE  SerialInv'
  <2>1. /\ log' = log /\ stat' = stat /\ st' = stat /\ job' = waiting[p]
        /\ stage' = "block" /\ Newest = Len(log) /\ waiting[p] # NoJob
        /\ \A q \in Writers : waiting'[q] \in {waiting[q], NoJob}
    BY <1>1, <1>2, <1>4 DEF WakeUp, device, TypeInv, TypeOK
  <2>2. Newest' = Newest
    BY <2>1 DEF Newest, Storing
  <2>3. job'.id = Newest /\ Len(log) < MaxMsgs
    BY <2>1 DEF SerialInv
  <2>4. Points(stat)' /\ Points(st)'
    BY <2>1, <2>2 DEF SerialInv, Points
  <2>5. QED BY <2>1, <2>2, <2>3, <2>4 DEF SerialInv
<1>5. QED BY <1>3, <1>4

LEMMA WrapNext ==
  ASSUME NEW s \in Nat, NEW d \in Nat, s < NSlots, d < NSlots - 1
  PROVE  NextSlot(Wrap(s + d)) = Wrap(s + (d + 1))
<1>1. NSlots \in Nat /\ NSlots > 0
  BY SizesAssumption
<1>2. CASE s + d < NSlots
  <2>1. Wrap(s + d) = s + d
    BY <1>1, <1>2 DEF Wrap
  <2>2. Wrap(s + (d + 1)) = IF s + d < NSlots - 1 THEN s + d + 1 ELSE 0
    BY <1>1, <1>2, SMT DEF Wrap
  <2>3. QED BY <1>1, <1>2, <2>1, <2>2, SMT DEF NextSlot
<1>3. CASE s + d >= NSlots
  <2>1. Wrap(s + d) = s + d - NSlots
    BY <1>1, <1>3, SMT DEF Wrap
  <2>2. Wrap(s + (d + 1)) = s + d + 1 - NSlots
    BY <1>1, <1>3, SMT DEF Wrap
  <2>3. s + d - NSlots < NSlots - 1
    BY <1>1, SMT
  <2>4. QED BY <1>1, <2>1, <2>2, <2>3, SMT DEF NextSlot
<1>4. QED BY <1>1, <1>2, <1>3, SMT

(* A new entry gets the next id and the next slot. *)
LEMMA SerialLog ==
  ASSUME IInv, SerialInv, ChooseOffset
  PROVE  SerialInv'
<1>1. /\ TypeInv /\ Len(log) \in Nat /\ log \in Seq(Entry) /\ Writing
      /\ ~Storing /\ stage # "idle" /\ NSlots \in Nat /\ NSlots > 0
  BY SizesAssumption
     DEF IInv, TypeInv, TypeOK, ChooseOffset, Writing, Storing
<1>2. PICK e : e = [id |-> job.id, slot |-> job.slot, len |-> job.len]
  OBVIOUS
<1>3. PICK L \in Nat : L = Len(log)
  BY <1>1
<1>4. /\ Len(log') = L + 1 /\ log'[L + 1] = e
      /\ \A k \in 1 .. L : log'[k] = log[k]
  BY <1>1, <1>2, <1>3 DEF ChooseOffset
<1>5. /\ Newest = L /\ Newest' = L /\ Storing' /\ Writing'
      /\ job' = job /\ st' = st /\ stat' = stat /\ waiting' = waiting
  BY <1>1, <1>3, <1>4
     DEF ChooseOffset, Newest, Storing, Writing, device
<1>6. /\ e.id = L /\ e.slot = NextSlot(stat.youngestSlot)
      /\ stat.youngestSlot = IF L = 0 THEN Unset ELSE log[L].slot
      /\ L < MaxMsgs
  BY <1>1, <1>2, <1>3, <1>5
     DEF SerialInv, IInv, JobOK, WriteSlotOf, Points
<1>7. \A k \in 1 .. L + 1 : log'[k].id = k - 1
  <2> SUFFICES ASSUME NEW k \in 1 .. L + 1 PROVE log'[k].id = k - 1
    OBVIOUS
  <2>1. CASE k = L + 1
    BY <1>4, <1>6, <2>1
  <2>2. CASE k # L + 1
    <3>1. k \in 1 .. L
      BY <2>2
    <3>2. QED BY <1>3, <1>4, <3>1 DEF SerialInv
  <2>3. QED BY <2>1, <2>2
<1>8. log'[1].slot = 0
  <2>1. CASE L = 0
    <3>1. NextSlot(Unset) = 0
      BY <1>1, SMT DEF NextSlot, Unset
    <3>2. QED BY <1>4, <1>6, <2>1, <3>1
  <2>2. CASE L # 0
    <3>1. 1 \in 1 .. L /\ L > 0
      BY <2>2
    <3>2. QED BY <1>3, <1>4, <3>1 DEF SerialInv
  <2>3. QED BY <2>1, <2>2
<1>9. \A k \in 1 .. L : log[k].slot \in Nat /\ log[k].slot < NSlots
  <2>1. \A k \in 1 .. L : log[k] \in Entry
    BY <1>1, <1>3
  <2>2. QED BY <1>1, <2>1, SMT DEF Entry, Slots
<1>10. ASSUME NEW j \in 1 .. L + 1, NEW k \in 1 .. L + 1, j <= k,
              k - j < NSlots
       PROVE  log'[k].slot = Wrap(log'[j].slot + (k - j))
  <2>1. CASE k <= L
    <3>1. j \in 1 .. L /\ k \in 1 .. L
      BY <1>10, <2>1
    <3>2. log[k].slot = Wrap(log[j].slot + (k - j))
      BY <1>3, <1>10, <3>1 DEF SerialInv
    <3>3. QED BY <1>4, <3>1, <3>2
  <2>2. CASE k = L + 1 /\ j = L + 1
    <3>1. e.slot \in Nat /\ e.slot < NSlots
      <4>1. stat.youngestSlot \in Slots \cup {Unset}
        BY <1>1, StatFields DEF TypeInv, TypeOK
      <4>2. e.slot \in Slots
        BY <1>6, <4>1, IndexRange
      <4>3. QED BY <1>1, <4>2, SMT DEF Slots
    <3>2. Wrap(e.slot + 0) = e.slot
      BY <3>1, SMT DEF Wrap
    <3>3. k - j = 0
      BY <2>2
    <3>4. QED BY <1>4, <2>2, <3>2, <3>3
  <2>3. CASE k = L + 1 /\ j <= L
    <3>1. j \in 1 .. L /\ L \in 1 .. L /\ L - j < NSlots /\ L - j \in Nat
          /\ k - j = (L - j) + 1 /\ L - j < NSlots - 1 /\ L # 0
      BY <1>1, <1>10, <2>3, SMT
    <3>2. log[L].slot = Wrap(log[j].slot + (L - j))
      <4>1. j <= L
        BY <2>3
      <4>2. \A a, b \in 1 .. L : a <= b /\ b - a < NSlots =>
              log[b].slot = Wrap(log[a].slot + (b - a))
        BY <1>3 DEF SerialInv
      <4>3. QED BY <3>1, <4>1, <4>2
    <3>3. e.slot = NextSlot(log[L].slot)
      BY <1>6, <3>1
    <3>5. NextSlot(Wrap(log[j].slot + (L - j)))
            = Wrap(log[j].slot + ((L - j) + 1))
      <4>1. PICK s \in Nat : s = log[j].slot /\ s < NSlots
        BY <1>9, <3>1
      <4>2. PICK d \in Nat : d = L - j /\ d < NSlots - 1
        BY <3>1
      <4>3. NextSlot(Wrap(s + d)) = Wrap(s + (d + 1))
        BY <4>1, <4>2, WrapNext
      <4>4. QED BY <4>1, <4>2, <4>3
    <3>6. log'[j].slot = log[j].slot /\ log'[k].slot = e.slot
      BY <1>4, <2>3, <3>1
    <3>7. QED BY <3>1, <3>2, <3>3, <3>5, <3>6
  <2>4. QED BY <1>3, <2>1, <2>2, <2>3
<1>11. Points(stat)' /\ Points(st)'
  <2>1. L # 0 => L \in 1 .. L
    OBVIOUS
  <2>2. QED BY <1>1, <1>4, <1>5, <2>1 DEF SerialInv, Points
<1>12. \A p \in Writers : waiting'[p] = NoJob
  BY <1>1, <1>5 DEF IInv, WaitOK
<1>13. Len(log') <= MaxMsgs /\ job'.id = Newest'
  BY <1>2, <1>4, <1>5, <1>6, WritersAssumption, SMT
<1>14. QED
  BY <1>4, <1>5, <1>7, <1>8, <1>10, <1>11, <1>12, <1>13 DEF SerialInv

(* Storing and publishing it. *)
LEMMA SerialStore ==
  ASSUME IInv, SerialInv, WriteWord \/ WriteSlot \/ WriteStat
  PROVE  SerialInv'
<1>1. /\ TypeInv /\ Len(log) \in Nat /\ st \in StatType /\ Storing
      /\ Writing /\ log' = log /\ Newest = Len(log) - 1
      /\ \A p \in Writers : waiting'[p] = NoJob
  BY DEF IInv, WaitOK, TypeInv, TypeOK, WriteWord, WriteSlot, WriteStat,
         Writing, Storing, Newest
<1>2. CASE WriteWord \/ WriteSlot
  <2>1. /\ stage' \in {"entry", "slot", "stat"} /\ stat' = stat /\ st' = st
        /\ job' = job
    BY <1>2 DEF WriteWord, WriteSlot
  <2>2. Newest' = Newest /\ Storing'
    BY <1>1, <2>1 DEF Newest, Storing
  <2>3. QED BY <1>1, <2>1, <2>2, SerialKept
<1>3. CASE WriteStat
  <2>1. /\ Published(st).youngestId = job.id
        /\ Published(st).youngestSlot = job.slot
    BY <1>1 DEF Published, StatType
  <2>2. ~Writing' /\ Newest' = Len(log) /\ stat' = Published(st)
    BY <1>1, <1>3 DEF WriteStat, Release, Writing, Storing, Newest
  <2>3. log[Len(log)].slot = job.slot /\ Len(log) > 0
        /\ job.id = Len(log) - 1
    BY <1>1 DEF IInv, EntryOK, SerialInv
  <2>4. Points(stat)'
    BY <1>1, <2>1, <2>2, <2>3 DEF Points
  <2>5. QED BY <1>1, <2>2, <2>4 DEF SerialInv
<1>4. QED BY <1>2, <1>3

LEMMA SerialStep ==
  Smooth /\ Apart /\ IInv /\ RingInv /\ SerialInv /\ [Next]_vars => SerialInv'
<1> SUFFICES ASSUME Smooth, Apart, IInv, RingInv, SerialInv, [Next]_vars
             PROVE  SerialInv'
  OBVIOUS
<1>1. CASE \E p \in Writers : \E len \in Lens : BeginWrite(p, len)
  BY <1>1, SerialBegin
<1>2. CASE \E p \in Writers : WakeUp(p)
  BY <1>2, SerialBegin
<1>3. CASE HolderStep
  <2>1. ~ClearBuf /\ ~ClearSlot /\ ~ClearStat
    BY DEF RingInv, Reinitialising, ClearBuf, ClearSlot, ClearStat
  <2>2. QED
    BY <1>3, <2>1, SerialPrepare, SerialLog, SerialStore, RingNoMismatch
       DEF HolderStep
<1>4. ~Abandon
  BY DEF Smooth, Abandon
<1>5. CASE \E id \in ReadIds : ReaderReports(id)
  <2>1. stat \in StatType
    BY DEF IInv, TypeInv, TypeOK
  <2>2. /\ stat'.youngestId = stat.youngestId
        /\ stat'.youngestSlot = stat.youngestSlot
    BY <1>5, <2>1 DEF ReaderReports, StatType
  <2>3. /\ log' = log /\ stage' = stage /\ job' = job /\ st' = st
        /\ waiting' = waiting
    BY <1>5 DEF ReaderReports, local
  <2>4. Newest' = Newest /\ (Writing' <=> Writing) /\ (Storing' <=> Storing)
    BY <2>3 DEF Newest, Storing, Writing
  <2>5. \A p \in Writers : waiting'[p] # NoJob =>
            waiting'[p].id = Newest /\ Len(log) < MaxMsgs
    BY <2>3 DEF SerialInv
  <2>6. QED BY <2>2, <2>3, <2>4, <2>5, SerialKept
<1>6. CASE UNCHANGED vars
  <2>1. /\ log' = log /\ stage' = stage /\ job' = job /\ st' = st
        /\ stat' = stat /\ waiting' = waiting
    BY <1>6 DEF vars, device, local
  <2>2. Newest' = Newest /\ (Writing' <=> Writing) /\ (Storing' <=> Storing)
    BY <2>1 DEF Newest, Storing, Writing
  <2>3. \A p \in Writers : waiting'[p] # NoJob =>
            waiting'[p].id = Newest /\ Len(log) < MaxMsgs
    BY <2>1 DEF SerialInv
  <2>4. QED BY <2>1, <2>2, <2>3, SerialKept
<1>7. QED
  BY <1>1, <1>2, <1>3, <1>4, <1>5, <1>6 DEF Next, WriterNext

-----------------------------------------------------------------------------
(* Which messages have been given up.                                        *)

LEMMA LogFacts ==
  ASSUME IInv, SerialInv
  PROVE  /\ Len(log) \in Nat /\ Newest \in Nat \cup {-1}
         /\ Newest <= Len(log) /\ Len(log) <= Newest + 1
         /\ \A k \in 1 .. Len(log) : /\ log[k].slot \in Slots
                                     /\ log[k].id = k - 1
         /\ NSlots \in Nat /\ NSlots > 0
<1>1. log \in Seq(Entry) /\ Len(log) \in Nat
  BY DEF IInv, TypeInv, TypeOK
<1>2. \A k \in 1 .. Len(log) : log[k].slot \in Slots
  <2>1. \A k \in 1 .. Len(log) : log[k] \in Entry
    BY <1>1
  <2>2. QED BY <2>1 DEF Entry
<1>3. /\ Newest \in {Len(log), Len(log) - 1}
      /\ \A k \in 1 .. Len(log) : log[k].id = k - 1
  BY DEF Newest, SerialInv
<1>4. /\ Newest \in Nat \cup {-1} /\ Newest <= Len(log)
      /\ Len(log) <= Newest + 1
  BY <1>1, <1>3, SMT
<1>5. QED BY <1>1, <1>2, <1>3, <1>4, SizesAssumption

(* The slot a message in use lies in tells which message it is. *)
LEMMA InUse ==
  ASSUME IInv, RingInv, SerialInv, NEW t \in Slots, slots[t].active
  PROVE  LET k == slots[t].id + 1
         IN  /\ k \in 1 .. Len(log) /\ HoldsEntry(t, k) /\ log[k].slot = t
             /\ ~Gone(k)
             /\ k <= Newest \/ (stage = "stat" /\ k = Len(log))
<1>1. PICK k \in 1 .. Len(log) :
        /\ HoldsEntry(t, k)
        /\ k <= Newest \/ (stage = "stat" /\ k = Len(log))
  BY InUseWhole
<1>2. slots[t].id = k - 1 /\ log[k].slot = t
  BY <1>1, LogFacts DEF HoldsEntry
<1>3. slots[t].id + 1 = k
  BY <1>2, LogFacts, SMT
<1>4. ~Gone(k)
  BY <1>1, LogFacts DEF Gone, Retained
<1>5. QED BY <1>1, <1>2, <1>3, <1>4

(* All up to some message have been given up, and no more than NSlots are    *)
(* kept.                                                                     *)
LEMMA GoneUpTo ==
  ASSUME IInv, RingInv, SerialInv
  PROVE  \E g \in Int : /\ g <= Newest /\ Newest - NSlots <= g
                        /\ \A k \in Int : Gone(k) <=> k <= g
<1>1. PICK n \in 0 .. NSlots, m \in 0 .. NSlots : Ring(Cur, n, m)
  BY DEF RingInv
<1>2. /\ n \in Nat /\ n <= NSlots /\ Newest \in Int
  BY LogFacts, SMT
<1>3. PICK g \in Int : g = Newest - n
  BY <1>2
<1>4. ASSUME NEW k \in Int, k <= g, k >= 1, Retained(k)
      PROVE  FALSE
  <2>1. PICK s \in Slots : slots[s].active /\ HoldsEntry(s, k)
    BY <1>4 DEF Retained
  <2>2. k \in 1 .. Len(log) /\ k <= Newest
    BY <1>2, <1>3, <1>4, LogFacts, SMT
  <2>3. slots[s].id + 1 = k
    BY <2>1, <2>2, LogFacts DEF HoldsEntry
  <2>4. CASE \E i \in 0 .. n - 1 : s = Place(Cur, i)
    <3>1. PICK i \in 0 .. n - 1 : s = Place(Cur, i)
      BY <2>4
    <3>2. HoldsEntry(Place(Cur, i), Newest - n + 1 + i)
      BY <1>1 DEF Ring, Latest
    <3>3. Newest - n + 1 + i \in 1 .. Len(log)
      <4>1. n <= Newest
        BY <1>1 DEF Ring, Counts
      <4>2. QED BY <1>2, <4>1, LogFacts, SMT
    <3>4. log[Newest - n + 1 + i].id = Newest - n + i
      BY <1>2, <3>3, LogFacts, SMT
    <3>5. slots[s].id = Newest - n + i
      BY <3>1, <3>2, <3>4 DEF HoldsEntry
    <3>6. QED BY <1>2, <1>3, <1>4, <2>3, <3>5, SMT
  <2>5. CASE stage = "stat" /\ s = job.slot
    <3>1. slots[s].id = job.id /\ job.id = Newest
      BY <2>5 DEF IInv, EntryOK, SerialInv, Writing
    <3>2. QED BY <1>2, <2>2, <2>3, <3>1, SMT
  <2>6. QED BY <1>1, <2>1, <2>4, <2>5 DEF Ring, Latest
<1>5. ASSUME NEW k \in Int, g < k, k <= Newest
      PROVE  k >= 1 /\ Retained(k)
  <2>1. n <= Newest
    BY <1>1 DEF Ring, Counts
  <2>2. k >= 1 /\ k - g - 1 \in 0 .. n - 1
        /\ Newest - n + 1 + (k - g - 1) = k
    BY <1>2, <1>3, <1>5, <2>1, SMT
  <2>3. PICK i \in 0 .. n - 1 : i = k - g - 1
    BY <2>2
  <2>4. PICK t : t = Place(Cur, i)
    OBVIOUS
  <2>5. slots[t].active /\ HoldsEntry(t, k)
    BY <1>1, <2>2, <2>3, <2>4 DEF Ring, Latest, HoldsEntry
  <2>6. t \in Slots
    <3>1. Cur \in StatType
      BY CurFacts DEF IInv
    <3>2. i \in 0 .. NSlots
      BY <1>2, LogFacts, SMT
    <3>3. QED BY <2>4, <3>1, <3>2, Places
  <2>7. QED BY <2>2, <2>5, <2>6 DEF Retained
<1>6. \A k \in Int : Gone(k) <=> k <= g
  BY <1>2, <1>3, <1>4, <1>5 DEF Gone
<1>7. g <= Newest /\ Newest - NSlots <= g
  BY <1>2, <1>3, LogFacts, SMT
<1>8. QED BY <1>6, <1>7

(* Messages in the same slot are NSlots apart, or more. *)
LEMMA SlotOrder ==
  ASSUME IInv, SerialInv, NEW q \in 1 .. Len(log), NEW k \in 1 .. Len(log)
  PROVE  /\ log[k].slot = log[q].slot /\ k > q - NSlots => k >= q
         /\ log[k].slot = NextSlot(log[q].slot) /\ k > q + 1 - NSlots
              => k >= q + 1
         /\ k = q + 1 => log[k].slot = NextSlot(log[q].slot)
<1>1. /\ NSlots \in Nat /\ NSlots > 0 /\ q \in Nat /\ k \in Nat
      /\ log[k].slot \in Slots /\ log[q].slot \in Slots
  BY LogFacts
<1>2. PICK s \in Nat, u \in Nat : /\ s = log[k].slot /\ u = log[q].slot
                                  /\ s < NSlots /\ u < NSlots
  BY <1>1, SMT DEF Slots
<1>3. \A a, b \in 1 .. Len(log) : a <= b /\ b - a < NSlots =>
        log[b].slot = Wrap(log[a].slot + (b - a))
  BY DEF SerialInv
<1>4. ASSUME s = u, k > q - NSlots, k < q
      PROVE  FALSE
  <2>1. k <= q /\ q - k < NSlots
    BY <1>1, <1>4
  <2>2. u = Wrap(s + (q - k))
    BY <1>2, <1>3, <2>1
  <2>3. QED BY <1>1, <1>2, <1>4, <2>2, SMT DEF Wrap
<1>5. ASSUME s = NextSlot(u), k > q + 1 - NSlots, k <= q
      PROVE  FALSE
  <2>1. k <= q /\ q - k < NSlots /\ q - k < NSlots - 1 /\ q - k \in Nat
    BY <1>1, <1>5
  <2>2. u = Wrap(s + (q - k))
    BY <1>2, <1>3, <2>1
  <2>3. s = Wrap(s + ((q - k) + 1))
    BY <1>2, <1>5, <2>1, <2>2, WrapNext
  <2>4. PICK d \in Nat : d = q - k
    BY <2>1
  <2>5. s = Wrap(s + (d + 1)) /\ d < NSlots - 1
    BY <2>1, <2>3, <2>4
  <2>6. QED BY <1>1, <1>2, <2>5, SMT DEF Wrap
<1>6. ASSUME k = q + 1
      PROVE  s = NextSlot(u)
  <2>1. CASE NSlots = 1
    BY <1>2, <2>1, SMT DEF NextSlot
  <2>2. CASE NSlots # 1
    <3>1. q <= k /\ k - q < NSlots /\ k - q = 1
      BY <1>1, <1>6, <2>2
    <3>2. s = Wrap(u + 1)
      BY <1>2, <1>3, <3>1
    <3>3. QED BY <1>1, <1>2, <3>2, SMT DEF NextSlot, Wrap
  <2>3. QED BY <2>1, <2>2
<1>7. QED BY <1>1, <1>2, <1>4, <1>5, <1>6

(* A message that was given up does not come back; the newest only grows.    *)
LEMMA GoneStays ==
  ASSUME Smooth, IInv, RingInv, SerialInv, [Next]_vars
  PROVE  /\ Newest <= Newest'
         /\ \A k \in Int : Gone(k) => Gone(k)'
<1>0. /\ TypeInv /\ log \in Seq(Entry) /\ Len(log) \in Nat
      /\ \A k \in 1 .. Len(log) : log'[k] = log[k]
      /\ Len(log') \in Nat /\ Len(log) <= Len(log')
      /\ log' # log => ChooseOffset
  BY LogGrows DEF IInv, TypeInv, TypeOK
<1>1. Newest <= Newest'
  <2>1. CASE ChooseOffset
    <3>1. Newest = Len(log) /\ Newest' = Len(log') - 1
      BY <2>1 DEF ChooseOffset, Newest, Storing
    <3>2. Len(log') = Len(log) + 1
      BY <1>0, <2>1 DEF ChooseOffset
    <3>3. QED BY <1>0, <3>1, <3>2, SMT
  <2>2. CASE ~ChooseOffset
    <3>1. log' = log
      BY <1>0, <2>2
    <3>2. Storing' => Storing
      BY <2>2 DEF Next, WriterNext, HolderStep, BeginWrite, WaitForReader,
         WakeUp, StopWaiting, RingHasRoom, TooLarge, Packed, SwitchToInsert,
         FreeOldestSlot, OffsetMismatch, WriteWord, WriteSlot, WriteStat,
         ClearBuf, ClearSlot, ClearStat, Abandon, ReaderReports, vars,
         local, Release, Storing
    <3>3. QED BY <1>0, <3>1, <3>2, SMT DEF Newest
  <2>3. QED BY <2>1, <2>2
<1>2. \/ slots' = slots
      \/ \E s : slots' = [slots EXCEPT ![s] = EmptySlot]
      \/ /\ Storing /\ log' = log
         /\ slots' = [slots EXCEPT ![job.slot] =
                        [active |-> TRUE, id |-> job.id, len |-> job.len,
                         offset |-> off]]
  BY DEF Next, WriterNext, HolderStep, BeginWrite, WaitForReader,
         WakeUp, StopWaiting, RingHasRoom, TooLarge, Packed, SwitchToInsert,
         FreeOldestSlot, OffsetMismatch, ChooseOffset, WriteWord, WriteSlot,
         WriteStat, ClearBuf, ClearSlot, ClearStat, Abandon, ReaderReports,
         vars, device, Storing
<1>3. ASSUME NEW k \in Int, Gone(k), k >= 1, NEW s \in Slots,
             slots'[s].active, HoldsEntry(s, k)'
      PROVE  FALSE
  <2>1. k \in 1 .. Len(log) /\ k <= Newest /\ log'[k] = log[k]
        /\ log[k].id = k - 1
    <3>1. k \in 1 .. Len(log) /\ k <= Newest
      BY <1>3, LogFacts, SMT DEF Gone
    <3>2. QED BY <1>0, <3>1, LogFacts
  <2>2. slots'[s].id = k - 1
    BY <1>3, <2>1 DEF HoldsEntry
  <2>3. slots'[s] = slots[s]
    <3>1. CASE slots' = slots
      BY <3>1
    <3>2. CASE \E u : slots' = [slots EXCEPT ![u] = EmptySlot]
      BY <1>0, <1>3, <3>2 DEF EmptySlot, TypeInv, TypeOK
    <3>3. CASE /\ Storing /\ log' = log
               /\ slots' = [slots EXCEPT ![job.slot] =
                        [active |-> TRUE, id |-> job.id, len |-> job.len,
                         offset |-> off]]
      <4>1. job.id = Newest
        BY <3>3 DEF SerialInv, Writing, Storing
      <4>2. s # job.slot
        BY <1>0, <1>3, <2>1, <2>2, <3>3, <4>1, LogFacts
           DEF TypeInv, TypeOK
      <4>3. QED BY <3>3, <4>2
    <3>4. QED BY <1>2, <3>1, <3>2, <3>3
  <2>4. slots[s].active /\ slots[s].id + 1 = k
    BY <1>3, <2>1, <2>2, <2>3
  <2>5. ~Gone(k)
    BY <2>4, InUse
  <2>6. QED BY <1>3, <2>5
<1>4. ASSUME NEW k \in Int, Gone(k)
      PROVE  Gone(k)'
  <2>1. k <= Newest'
    <3>1. Newest' \in Int
      BY <1>0 DEF Newest
    <3>2. QED BY <1>1, <1>4, <3>1, LogFacts, SMT DEF Gone
  <2>2. QED BY <1>3, <1>4, <2>1 DEF Gone, Retained
<1>5. QED BY <1>1, <1>4

(* A slot in use is only ever overwritten when its message is given up.      *)
LEMMA SlotStays ==
  ASSUME Smooth, IInv, RingInv, SerialInv, [Next]_vars, NEW t \in Slots,
         slots[t].active, slots'[t] # slots[t],
         NEW k, k = slots[t].id + 1
  PROVE  Gone(k)'
<1>1. /\ k \in 1 .. Len(log) /\ log[k].slot = t
      /\ k <= Newest \/ (stage = "stat" /\ k = Len(log))
  BY InUse
<1>2. ~WriteSlot
  <2> SUFFICES ASSUME WriteSlot PROVE FALSE
    OBVIOUS
  <2>1. t = job.slot /\ stage = "slot" /\ Writing /\ Cur = st
    BY DEF WriteSlot, Writing, Cur
  <2>2. PICK n \in 0 .. NSlots, m \in 0 .. NSlots : Ring(Cur, n, m)
    BY DEF RingInv
  <2>3. n < NSlots /\ job.slot = Place(Cur, n) /\ Cur \in StatType
    BY <2>1, <2>2, CurFacts DEF Ring, Keeps, Counts, RingInv, IInv
  <2>4. PICK i \in 0 .. n - 1 : t = Place(Cur, i)
    BY <2>1, <2>2 DEF Ring, Latest
  <2>5. n \in 0 .. NSlots - 1 /\ i \in 0 .. NSlots - 1 /\ i # n
    BY <2>3, LogFacts, SMT
  <2>6. QED BY <2>1, <2>3, <2>4, <2>5, Places
<1>3. ~ClearSlot
  BY DEF RingInv, Reinitialising, ClearSlot
<1>4. FreeOldestSlot
  BY <1>2, <1>3 DEF Next, WriterNext, HolderStep, BeginWrite, WaitForReader,
         WakeUp, StopWaiting, RingHasRoom, TooLarge, Packed, SwitchToInsert,
         OffsetMismatch, ChooseOffset, WriteWord,
         WriteStat, ClearBuf, ClearStat, Abandon, ReaderReports,
         vars, device
<1>5. /\ stage # "stat" /\ log' = log /\ Newest' = Newest
      /\ ~slots'[t].active
  BY <1>4 DEF FreeOldestSlot, MustFree, Newest, Storing, EmptySlot,
              IInv, TypeInv, TypeOK
<1>6. ~Retained(k)'
  BY <1>1, <1>5 DEF Retained, HoldsEntry
<1>7. Gone(k)'
  BY <1>1, <1>5, <1>6 DEF Gone
<1>8. QED BY <1>7

-----------------------------------------------------------------------------
(* Where a reader stands.                                                    *)

LEMMA ReaderFields ==
  ASSUME NEW x \in Reader
  PROVE  /\ x.st.youngestId \in Int /\ x.lastId \in Int /\ x.copy.id \in Int
         /\ x.st \in StatType /\ x.copy \in CopyType
         /\ x.stage \in ReaderStages
         /\ x.lastSlot \in Slots \cup {-2, -1}
         /\ Seen(x) \in Int
<1>1. /\ x.st \in StatType /\ x.copy \in CopyType
      /\ x.lastId \in Ids \cup {Unset, PhantomId}
      /\ x.stage \in ReaderStages /\ x.lastSlot \in Slots \cup {-2, -1}
  BY DEF Reader
<1>2. x.st.youngestId \in Ids \cup {Unset}
  BY <1>1, StatFields
<1>3. x.copy.id \in Ids \cup {PhantomId}
  BY <1>1 DEF CopyType
<1>4. /\ x.st.youngestId \in Int /\ x.lastId \in Int /\ x.copy.id \in Int
  BY <1>1, <1>2, <1>3, SizesAssumption, SMT DEF Ids, Unset, PhantomId
<1>5. QED BY <1>1, <1>4 DEF Seen

(* What the writers do takes a reader out of no position. *)
LEMMA PositionKept ==
  ASSUME Smooth, IInv, RingInv, SerialInv, [Next]_vars,
         NEW x \in Reader, x.stage \in Reads => CopyOK(x.copy),
         NEW p \in Nat, NEW ahead \in BOOLEAN, Position(x, p, ahead)
  PROVE  Position(x, p, ahead)'
<1>1. /\ Newest <= Newest' /\ Newest \in Int /\ Newest' \in Int
      /\ Newest <= Len(log)
      /\ Len(log) \in Nat /\ Len(log') \in Nat /\ Len(log) <= Len(log')
      /\ \A k \in 1 .. Len(log) : log'[k] = log[k] /\ k \in 1 .. Len(log')
      /\ \A k \in Int : Gone(k) => Gone(k)'
      /\ NSlots \in Nat
  <2>1. /\ Len(log) \in Nat /\ Len(log') \in Nat /\ Len(log) <= Len(log')
        /\ \A k \in 1 .. Len(log) : log'[k] = log[k]
    BY LogGrows DEF IInv
  <2>2. Newest' \in Int
    BY <2>1 DEF Newest
  <2>3. \A k \in 1 .. Len(log) : k \in 1 .. Len(log')
    BY <2>1, SMT
  <2>4. QED BY <2>1, <2>2, <2>3, GoneStays, LogFacts
<1>2. /\ x.st.youngestId \in Int /\ x.lastId \in Int /\ x.copy.id \in Int
      /\ Seen(x) \in Int
  BY ReaderFields
<1>3. \A k \in Int : k <= Newest => k <= Newest'
  BY <1>1, SMT
<1>4. /\ p <= Len(log') /\ (ahead \/ p <= Newest')
      /\ p # 0 => Newest' >= 1
      /\ p # 0 /\ x.stage \in {"update", "ready", "next", "nextMsg"} =>
           x.lastSlot \in Slots
  BY <1>1, <1>3, SMT DEF Position
<1>5. x.stage = "seekEnd" => x.st.youngestId < Newest'
  BY <1>1, <1>2, SMT DEF Position
<1>6. x.stage \in Polls => Seen(x) \in 1 .. Newest'
                           /\ x.st.youngestSlot = log'[Seen(x)].slot
  <2> SUFFICES ASSUME x.stage \in Polls
               PROVE  Seen(x) \in 1 .. Newest'
                      /\ x.st.youngestSlot = log'[Seen(x)].slot
    OBVIOUS
  <2>1. Seen(x) \in 1 .. Newest /\ x.st.youngestSlot = log[Seen(x)].slot
    BY DEF Position
  <2>2. Seen(x) \in 1 .. Newest' /\ Seen(x) \in 1 .. Len(log)
    BY <1>1, <2>1, SMT
  <2>3. QED BY <1>1, <2>1, <2>2
<1>7. p # 0 => p \in 1 .. Len(log) /\ p + 1 \in Int
  BY <1>1 DEF Position
<1>8. p # 0 /\ AfterMessage(x, p) => AfterMessage(x, p)'
  BY <1>1, <1>7 DEF AfterMessage
<1>9. ASSUME NEW k \in Int, Lost(k, p, ahead)
      PROVE  Lost(k, p, ahead)'
  BY <1>1, <1>9 DEF Lost
<1>10. AfterLost(x, p, ahead) => AfterLost(x, p, ahead)'
  BY <1>2, <1>9 DEF AfterLost
<1>11. ASSUME AfterSlot(x, p, ahead)
       PROVE  AfterSlot(x, p, ahead)'
  <2>1. PICK q \in 1 .. Newest :
               /\ x.lastSlot = log[q].slot
               /\ Gone(q + 1 - NSlots)
               /\ (q > p /\ Gone(p + 1)) \/ (ahead /\ q >= p - 1)
    BY <1>11 DEF AfterSlot
  <2>2. q \in 1 .. Newest' /\ q \in 1 .. Len(log)
    BY <1>1, SMT
  <2>3. PICK b \in Int : b = q + 1 - NSlots
    BY <1>1
  <2>4. PICK e \in Int : e = p + 1
    OBVIOUS
  <2>5. Gone(b)' /\ (Gone(e) => Gone(e)')
    BY <1>1, <2>1, <2>3
  <2>6. Gone(q + 1 - NSlots)' /\ (Gone(p + 1) => Gone(p + 1)')
    BY <2>3, <2>4, <2>5
  <2>7. x.lastSlot = log'[q].slot
    BY <1>1, <2>1, <2>2
  <2>8. QED BY <1>11, <2>1, <2>2, <2>6, <2>7 DEF AfterSlot
<1>12. Gone(p + 1) => Gone(p + 1)'
  BY <1>1
<1>13. ASSUME x.stage \in Reads, CopyTrue(x)
       PROVE  CopyTrue(x)'
  <2>1. PICK k : k = x.copy.id + 1
    OBVIOUS
  <2>2. PICK s : s = AsksFor(x)
    OBVIOUS
  <2>3. /\ k \in 1 .. Len(log) /\ k > Seen(x) - NSlots /\ log[k].slot = s
        /\ Gone(k) \/ slots[s] = x.copy
    BY <1>13, <2>1, <2>2 DEF CopyTrue
  <2>4. s \in Slots /\ x.copy.active
    BY <1>13, <2>3, LogFacts DEF CopyOK
  <2>5. Gone(k)' \/ slots'[s] = x.copy
    BY <1>1, <2>1, <2>3, <2>4, SlotStays
  <2>6. k \in 1 .. Len(log') /\ log'[k].slot = s
    BY <1>1, <2>3
  <2>7. QED BY <2>1, <2>2, <2>3, <2>5, <2>6 DEF CopyTrue, AsksFor, Seen
<1>14. \A k : MayFollow(k, p, ahead) => MayFollow(k, p, ahead)'
  BY <1>12 DEF MayFollow
<1>15. ASSUME x.lastId + 1 \in Int
       PROVE  Lost(x.lastId + 1, p, ahead) => Lost(x.lastId + 1, p, ahead)'
  BY <1>9, <1>15
<1>16. QED
  BY <1>2, <1>4, <1>5, <1>6, <1>8, <1>10, <1>11, <1>12, <1>13, <1>14, <1>15
     DEF Position, Polls, Reads, Seen

(* Ids do not fold back in the history there is. *)
LEMMA PrevOf ==
  ASSUME IInv, SerialInv, Apart, NEW k \in 1 .. Len(log), NEW i \in Int,
         i < Len(log), PrevId(k - 1) = i
  PROVE  k = i + 2
<1>1. /\ i < MaxId - 1 /\ MaxId \in Nat /\ k \in Int
  BY LogFacts, SizesAssumption, WritersAssumption, SMT DEF SerialInv, Apart
<1>2. QED BY <1>1, SMT DEF PrevId

LEMMA ModSmall ==
  ASSUME NEW M \in Nat, M > 0, NEW i \in Int
  PROVE  /\ 0 <= i /\ i < M => i % M = i
         /\ i < 0 /\ -M <= i => i % M = i + M
BY SMT

(* A message that was not ahead of a status has been published by then.      *)
LEMMA NotAhead ==
  ASSUME IInv, SerialInv, Apart, NEW x \in Reader,
         Seen(x) \in 1 .. Newest, NEW id \in Ids, id < Len(log),
         ~BeyondStat(x.st, id)
  PROVE  id + 1 <= Newest
<1>1. PICK d \in 0 .. NSlots - 1 : id = (x.st.youngestId - d) % MaxId
  BY DEF BeyondStat
<1>2. PICK y \in Int : y = x.st.youngestId
  BY ReaderFields
<1>3. /\ 0 <= y /\ y < Newest /\ Newest <= Len(log) /\ Len(log) <= MaxMsgs
      /\ Len(log) \in Nat /\ Newest \in Int /\ id \in Int /\ d \in Nat
      /\ MaxMsgs \in Nat /\ MaxId \in Nat /\ MaxId > NSlots /\ NSlots \in Nat
      /\ MaxMsgs + NSlots <= MaxId /\ d < NSlots
  BY <1>2, LogFacts, SizesAssumption, WritersAssumption
     DEF Seen, SerialInv, Apart, Ids
<1>4. PICK i \in Int : i = y - d
  BY <1>2, <1>3
<1>5. id = i % MaxId /\ MaxId > 0
  BY <1>1, <1>2, <1>3, <1>4
<1>6. 0 <= i => id = i
  <2>1. i < MaxId
    BY <1>3, <1>4, SMT
  <2>2. QED BY <1>3, <1>5, <2>1, ModSmall
<1>7. i < 0 => id = i + MaxId
  <2>1. -MaxId <= i
    BY <1>3, <1>4, SMT
  <2>2. QED BY <1>3, <1>5, <2>1, ModSmall
<1>8. QED BY <1>3, <1>4, <1>6, <1>7, SMT

(* The copy of a slot whose message is still there passes the checks.        *)
LEMMA KeptPasses ==
  ASSUME IInv, RingInv, SerialInv, NEW x \in Reader, CopyTrue(x),
         CopyOK(x.copy), ~Gone(x.copy.id + 1)
  PROVE  EntryChecks(x.copy)
<1>1. PICK t : t = AsksFor(x)
  OBVIOUS
<1>2. t \in Slots /\ slots[t] = x.copy /\ slots[t].active
  BY <1>1, LogFacts DEF CopyTrue, CopyOK
<1>3. PICK k \in 1 .. Len(log) : HoldsEntry(t, k)
  BY <1>2, InUseWhole
<1>4. /\ slots[t].len \in Nat /\ slots[t].offset \in Nat /\ slots[t].len > 0
      /\ log[k].len = slots[t].len /\ log[k].id = slots[t].id
  BY <1>2, <1>3, InUseWhole DEF HoldsEntry
<1>5. 1 \in 1 .. log[k].len /\ log[k].len \in 1 .. log[k].len
  BY <1>4
<1>6. /\ buf[slots[t].offset + 1 - 1] = [ser |-> k, word |-> 1]
      /\ buf[slots[t].offset + slots[t].len - 1]
           = [ser |-> k, word |-> slots[t].len]
  BY <1>3, <1>4, <1>5 DEF HoldsEntry
<1>7. slots[t].offset + 1 - 1 = slots[t].offset
  BY <1>4
<1>8. k # 0
  BY LogFacts
<1>9. QED BY <1>2, <1>4, <1>6, <1>7, <1>8 DEF EntryChecks

(* What holds of one reader. *)
LEMMA ReaderFacts ==
  ASSUME OrderInv, NEW r \in Readers
  PROVE  /\ IInv /\ RingInv /\ SerialInv /\ TypeInv /\ Traced /\ SlotsInside
         /\ rd[r] \in Reader /\ ReaderOK(rd[r])
         /\ last[r].ser \in Nat /\ last[r].ahead \in BOOLEAN
         /\ Position(rd[r], last[r].ser, last[r].ahead)
         /\ Target(r) = AsksFor(rd[r])
         /\ rd \in [Readers -> Reader] /\ last \in [Readers -> Delivery]
         /\ stat \in StatType
BY DEF OrderInv, ReaderInv, PositionInv, Target, AsksFor, Delivery, TypeInv,
       TypeOK

(* Opening, and the steps that look at stat or report the position. *)
LEMMA PositionOpen ==
  ASSUME OrderInv, NEW r \in Readers,
         OpenAtStart(r) \/ OpenAtEnd(r) \/ PollStat(r) \/ UpdateLastIdRead(r)
  PROVE  Position(rd'[r], last'[r].ser, last'[r].ahead)
<1> DEFINE x == rd[r]
           p == last[r].ser
           ahead == last[r].ahead
<1>0. /\ x \in Reader /\ p \in Nat /\ Position(x, p, ahead) /\ last' = last
      /\ rd \in [Readers -> Reader]
      /\ Newest \in Int /\ Newest <= Len(log) /\ Len(log) <= Newest + 1
      /\ Len(log) \in Nat
  BY ReaderFacts, LogFacts
     DEF OpenAtStart, OpenAtEnd, PollStat, UpdateLastIdRead
<1>1. Points(stat) /\ stat.youngestId = Newest - 1
  BY ReaderFacts DEF SerialInv, Points
<1>2. CASE OpenAtStart(r)
  <2>1. p = 0 /\ rd'[r].stage = "ready"
    BY <1>0, <1>2 DEF OpenAtStart, Position, Ready
  <2>2. QED BY <1>0, <2>1 DEF Position, Polls, Reads
<1>3. CASE OpenAtEnd(r)
  <2>1. p = 0 /\ rd'[r].stage = "seekEnd" /\ rd'[r].st = stat
    BY <1>0, <1>3 DEF OpenAtEnd, Position, Reader
  <2>2. rd'[r].st.youngestId < Newest
    BY <1>0, <1>1, <2>1, SMT
  <2>3. QED BY <1>0, <2>1, <2>2 DEF Position, Polls, Reads
<1>4. CASE UpdateLastIdRead(r)
  <2>1. /\ rd'[r].stage = "ready" /\ rd'[r].lastId = x.lastId
        /\ rd'[r].lastSlot = x.lastSlot /\ x.stage = "update"
    BY <1>0, <1>4 DEF UpdateLastIdRead, Ready
  <2>2. p # 0 => AfterMessage(x, p) /\ x.lastSlot \in Slots
    BY <1>0, <2>1 DEF Position
  <2>3. p # 0 => AfterMessage(rd'[r], p) /\ rd'[r].lastSlot \in Slots
    BY <2>1, <2>2 DEF AfterMessage
  <2>4. QED BY <1>0, <2>1, <2>3 DEF Position, Polls, Reads
<1>5. CASE PollStat(r)
  <2>1. CASE stat.youngestId = Unset
    <3>1. p = 0
      BY <1>0, <1>1, <2>1, SMT DEF Position, Unset
    <3>2. rd'[r].stage = "ready"
      BY <1>0, <1>5, <2>1 DEF PollStat, Ready
    <3>3. QED BY <1>0, <3>1, <3>2 DEF Position, Polls, Reads
  <2>2. CASE rd' = rd
    BY <1>0, <2>2
  <2>3. CASE /\ stat.youngestId # Unset /\ stat.youngestId # x.lastId
             /\ rd' = [rd EXCEPT ![r].stage = "next", ![r].st = stat]
    <3>1. PICK n : n = rd'[r]
      OBVIOUS
    <3>2. /\ n.stage = "next" /\ n.st = stat /\ n.lastId = x.lastId
          /\ n.lastSlot = x.lastSlot /\ x.stage = "ready"
      BY <1>0, <1>5, <2>3, <3>1 DEF PollStat, Reader
    <3>3. Seen(n) = Newest /\ Newest >= 1
      <4>1. stat.youngestId \in Ids
        BY <2>3, ReaderFacts, StatFields
      <4>2. QED BY <1>0, <1>1, <3>2, <4>1, SMT DEF Seen, Ids
    <3>4. n.st.youngestSlot = log[Newest].slot
      BY <1>1, <3>2, <3>3, SMT DEF Points
    <3>5. p # 0 => /\ x.lastSlot \in Slots
                   /\ \/ AfterMessage(x, p) \/ AfterLost(x, p, ahead)
                      \/ AfterSlot(x, p, ahead)
      BY <1>0, <3>2 DEF Position
    <3>6. p # 0 => /\ n.lastSlot \in Slots
                   /\ \/ AfterMessage(n, p) \/ AfterLost(n, p, ahead)
                      \/ AfterSlot(n, p, ahead)
      BY <3>2, <3>5 DEF AfterMessage, AfterLost, AfterSlot
    <3>7. p # 0 => Newest > p \/ (ahead /\ Newest >= p - 1)
      <4> SUFFICES ASSUME p # 0
                   PROVE  Newest > p \/ (ahead /\ Newest >= p - 1)
        OBVIOUS
      <4>1. CASE ahead
        BY <1>0, <4>1, SMT DEF Position
      <4>2. CASE ~ahead
        <5>1. p <= Newest
          BY <1>0, <4>2 DEF Position
        <5>2. CASE AfterMessage(x, p)
          <6>1. Newest - 1 # p - 1
            BY <1>1, <2>3, <5>2 DEF AfterMessage
          <6>2. QED BY <1>0, <5>1, <6>1, SMT
        <5>3. CASE AfterLost(x, p, ahead)
          <6>1. x.lastId + 1 > p /\ x.lastId + 1 <= Newest
            BY <4>2, <5>3 DEF AfterLost, Lost, Gone
          <6>2. x.lastId + 1 \in Int
            BY <1>0, ReaderFields
          <6>3. QED BY <1>0, <6>1, <6>2, SMT
        <5>4. CASE AfterSlot(x, p, ahead)
          <6>1. PICK q \in 1 .. Newest : q > p
            BY <4>2, <5>4 DEF AfterSlot
          <6>2. QED BY <1>0, <6>1, SMT
        <5>5. QED BY <3>5, <5>2, <5>3, <5>4
      <4>3. QED BY <4>1, <4>2
    <3>8. Seen(n) \in 1 .. Newest /\ n.st.youngestSlot = log[Seen(n)].slot
      BY <1>0, <3>3, <3>4
    <3>9. Position(n, p, ahead)
      BY <1>0, <3>2, <3>3, <3>6, <3>7, <3>8 DEF Position, Polls, Reads
    <3>10. QED BY <1>0, <3>1, <3>9
  <2>4. QED BY <1>5, <2>1, <2>2, <2>3 DEF PollStat
<1>6. QED BY <1>2, <1>3, <1>4, <1>5

(* The slot _find_slot_for_id finds for the youngest id: its own, or that of *)
(* an empty slot when the id is 0 and the next message is gone as well.      *)
LEMMA SlotFound ==
  ASSUME IInv, RingInv, SerialInv, NEW k \in 1 .. Len(log),
         SlotHolding(k - 1) # Unset
  PROVE  /\ SlotHolding(k - 1) \in Slots
         /\ SlotHolding(k - 1) = log[k].slot \/ Gone(k + 1)
<1>1. PICK s : s = SlotHolding(k - 1)
  OBVIOUS
<1>2. /\ s \in Slots /\ slots[s].id = k - 1
      /\ \A t \in Slots : slots[t].id = k - 1 => s <= t
  <2> DEFINE with == {t \in Slots : slots[t].id = k - 1}
  <2>1. with # {}
    BY DEF SlotHolding
  <2>2. \E t \in with : \A u \in with : t <= u
    <3>1. PICK N \in Nat : N = NSlots
      BY LogFacts
    <3>2. PICK M : M = {N - t : t \in with}
      OBVIOUS
    <3>3. M # {} /\ M \in SUBSET (1 .. N)
      <4>1. \A t \in with : N - t \in 1 .. N
        BY <3>1, SMT DEF Slots
      <4>2. QED BY <2>1, <3>2, <4>1
    <3>4. PICK m \in M : \A j \in M : j <= m
      BY <3>3, Greatest
    <3>5. PICK t \in with : m = N - t
      BY <3>2, <3>4
    <3>6. ASSUME NEW u \in with PROVE t <= u
      <4>1. N - u <= N - t
        BY <3>2, <3>4, <3>5
      <4>2. u \in Int /\ t \in Int
        BY DEF Slots
      <4>3. QED BY <4>1, <4>2, SMT
    <3>7. QED BY <3>6
  <2>3. s = CHOOSE t \in with : \A u \in with : t <= u
    BY <1>1, <2>1 DEF SlotHolding
  <2>4. s \in with /\ \A u \in with : s <= u
    <3> HIDE DEF with
    <3>1. QED BY <2>2, <2>3
  <2>5. QED BY <2>4
<1>3. SUFFICES ASSUME ~Gone(k + 1) PROVE s = log[k].slot
  BY <1>1, <1>2
<1>4. CASE slots[s].active
  <2>1. slots[s].id + 1 = k
    BY <1>2, LogFacts, SMT
  <2>2. log[slots[s].id + 1].slot = s
    BY <1>2, <1>4, InUse
  <2>3. QED BY <2>1, <2>2
<1>5. CASE ~slots[s].active
  <2>1. k = 1
    <3>1. slots[s].id = 0
      BY <1>2, <1>5 DEF IInv, DeviceOK, SlotsOK, EmptySlot
    <3>2. QED BY <1>2, <3>1, LogFacts, SMT
  <2>2. log[1].slot = 0 /\ 0 \in Slots /\ 1 \in 1 .. Len(log)
    BY <2>1, IndexRange, LogFacts DEF SerialInv
  <2>3. CASE s = 0
    BY <2>1, <2>2, <2>3
  <2>4. CASE s # 0
    <3>1. slots[0].id # 0
      <4>1. ~(s <= 0)
        BY <1>2, <2>4, SMT DEF Slots
      <4>2. QED BY <1>2, <2>1, <2>2, <4>1
    <3>2. slots[0].active
      BY <2>2, <3>1 DEF IInv, DeviceOK, SlotsOK, EmptySlot
    <3>3. PICK j : j = slots[0].id + 1
      OBVIOUS
    <3>4. j \in 1 .. Len(log) /\ log[j].slot = 0
      BY <2>2, <3>2, <3>3, InUse
    <3>5. j \in Int /\ j > 1
      <4>1. slots[0].id \in Ids
        BY <2>2 DEF IInv, TypeInv, TypeOK, SlotType
      <4>2. QED BY <3>1, <3>3, <4>1, SMT DEF Ids
    <3>6. j > NSlots
      <4>1. 1 > j - NSlots => 1 >= j
        BY <2>2, <3>4, SlotOrder
      <4>2. QED BY <3>5, <4>1, LogFacts, SMT
    <3>7. /\ s \in Nat /\ s < NSlots /\ s + 1 \in 1 .. Len(log)
          /\ s + 1 <= Newest /\ 2 <= s + 1 /\ s + 1 \in Int
      BY <1>2, <2>4, <3>4, <3>6, LogFacts, SMT DEF Slots
    <3>8. log[s + 1].slot = s
      <4>1. 1 <= s + 1 /\ (s + 1) - 1 < NSlots
        BY <3>7
      <4>2. log[s + 1].slot = Wrap(log[1].slot + ((s + 1) - 1))
        BY <2>2, <3>7, <4>1 DEF SerialInv
      <4>3. Wrap(0 + ((s + 1) - 1)) = s
        BY <3>7, LogFacts, SMT DEF Wrap
      <4>4. QED BY <2>2, <4>2, <4>3
    <3>9. ~Gone(s + 1)
      <4>1. PICK g \in Int : \A i \in Int : Gone(i) <=> i <= g
        BY GoneUpTo
      <4>2. ~Gone(2) /\ 2 \in Int
        BY <1>3, <2>1
      <4>3. ~(2 <= g)
        BY <4>1, <4>2
      <4>4. ~(s + 1 <= g)
        BY <3>7, <4>3, SMT
      <4>5. QED BY <3>7, <4>1, <4>4
    <3>10. Retained(s + 1)
      BY <3>7, <3>9 DEF Gone
    <3>11. slots[s].active
      BY <3>8, <3>10 DEF Retained, HoldsEntry
    <3>12. QED BY <1>5, <3>11
  <2>5. QED BY <2>3, <2>4
<1>6. QED BY <1>4, <1>5

LEMMA PositionSeek ==
  ASSUME OrderInv, NEW r \in Readers, SeekEnd(r)
  PROVE  Position(rd'[r], last'[r].ser, last'[r].ahead)
<1> DEFINE x == rd[r]
<1>0. /\ x \in Reader /\ Position(x, 0, last[r].ahead) /\ last[r].ser = 0
      /\ x.stage = "seekEnd" /\ x.st.youngestId < Newest
      /\ rd \in [Readers -> Reader] /\ last \in [Readers -> Delivery]
      /\ Newest \in Int /\ Newest <= Len(log) /\ Len(log) \in Nat
      /\ x.st.youngestId \in Int /\ x.st.youngestId \in ReadIds
      /\ TypeInv /\ IInv /\ RingInv /\ SerialInv
  <2>1. x.stage = "seekEnd"
    BY DEF SeekEnd
  <2>2. /\ x \in Reader /\ Position(x, last[r].ser, last[r].ahead)
        /\ rd \in [Readers -> Reader] /\ last \in [Readers -> Delivery]
        /\ ReaderOK(x) /\ TypeInv /\ IInv /\ RingInv /\ SerialInv
    BY ReaderFacts
  <2>3. last[r].ser = 0 /\ x.st.youngestId < Newest
    BY <2>1, <2>2 DEF Position
  <2>4. QED BY <2>1, <2>2, <2>3, LogFacts, ReaderFields DEF ReaderOK
<1>1. CASE last' = last /\ rd'[r].stage \in {"ready", "update", "closed"}
  <2>1. last'[r].ser = 0
    BY <1>0, <1>1
  <2>2. PICK n : n = rd'[r]
    OBVIOUS
  <2>3. PICK b : b = last'[r].ahead
    OBVIOUS
  <2>4. 0 <= Len(log) /\ 0 <= Newest
    <3>1. x.st.youngestId \in Ids \cup {Unset}
      BY <1>0, ReaderFields, StatFields
    <3>2. QED BY <1>0, <3>1, SMT DEF Ids, Unset
  <2>5. n.stage \notin Polls /\ n.stage \notin Reads
        /\ n.stage \notin {"seekEnd", "next", "youngest"}
    BY <1>1, <2>2 DEF Polls, Reads
  <2>6. Position(n, 0, b)
    BY <2>4, <2>5 DEF Position
  <2>7. QED BY <2>1, <2>2, <2>3, <2>6
<1>2. CASE Positioned(r, Unset, Unset) /\ UNCHANGED last
  <2>1. rd'[r].stage \in {"ready", "update"}
    BY <1>0, <1>2 DEF Positioned, Ready, Reader
  <2>2. QED BY <1>1, <1>2, <2>1
<1>3. CASE rd' = [rd EXCEPT ![r] = Closed] /\ UNCHANGED last
  BY <1>0, <1>1, <1>3 DEF Closed
<1>4. ASSUME NEW id, id = x.st.youngestId, id # Unset,
             SlotHolding(id) # Unset, Positioned(r, id, SlotHolding(id)),
             last' = [last EXCEPT ![r].ser = SerialOf(id)]
      PROVE  Position(rd'[r], last'[r].ser, last'[r].ahead)
  <2>1. PICK k : k = SerialOf(id)
    OBVIOUS
  <2>2. k \in 1 .. Len(log) /\ log[k].id = id
    BY <1>0, <1>4, <2>1, SerialFound
  <2>3. id = k - 1 /\ k <= Newest
    <3>1. log[k].id = k - 1
      BY <1>0, <2>2, LogFacts
    <3>2. QED BY <1>0, <1>4, <2>2, <3>1, SMT
  <2>4. SlotHolding(id) \in Slots
        /\ (SlotHolding(id) = log[k].slot \/ Gone(k + 1))
    BY <1>0, <1>4, <2>2, <2>3, SlotFound
  <2>5. PICK n : n = rd'[r]
    OBVIOUS
  <2>6. /\ n.stage \in {"ready", "update"} /\ n.lastId = id
        /\ n.lastSlot = SlotHolding(id)
    BY <1>0, <1>4, <2>5 DEF Positioned, Ready, Reader
  <2>7. AfterMessage(n, k)
    BY <2>3, <2>4, <2>6 DEF AfterMessage
  <2>8. last'[r].ser = k
    BY <1>0, <1>4, <2>1 DEF Delivery
  <2>9. PICK b : b = last'[r].ahead
    OBVIOUS
  <2>10. k <= Len(log) /\ Newest >= 1
    BY <1>0, <2>2, <2>3, SMT
  <2>11. Position(n, k, b)
    BY <2>3, <2>4, <2>6, <2>7, <2>10 DEF Position, Polls, Reads
  <2>12. QED BY <2>5, <2>8, <2>9, <2>11
<1>5. QED BY <1>2, <1>3, <1>4 DEF SeekEnd

(* What is given up is given up in order. *)
LEMMA GoneBelow ==
  ASSUME IInv, RingInv, SerialInv, NEW j \in Int, NEW i \in Int,
         Gone(j), i <= j
  PROVE  Gone(i)
<1>1. PICK g \in Int : \A k \in Int : Gone(k) <=> k <= g
  BY GoneUpTo
<1>2. i <= g
  BY <1>1, SMT
<1>3. QED BY <1>1, <1>2

(* A slot in use, looked at with a status that has seen message y. *)
LEMMA InSlot ==
  ASSUME IInv, RingInv, SerialInv, NEW t \in Slots, slots[t].active,
         NEW y \in Int, y <= Newest, NEW k, k = slots[t].id + 1
  PROVE  /\ k \in 1 .. Len(log) /\ log[k].slot = t /\ ~Gone(k)
         /\ k > y - NSlots /\ slots[t].len > 0 /\ slots[t].id = k - 1
<1>1. k \in 1 .. Len(log) /\ log[k].slot = t /\ ~Gone(k)
  BY InUse
<1>2. PICK g \in Int : /\ Newest - NSlots <= g
                       /\ \A i \in Int : Gone(i) <=> i <= g
  BY GoneUpTo
<1>3. k > y - NSlots
  BY <1>1, <1>2, LogFacts, SMT
<1>4. slots[t].id \in Int
  BY SlotFacts DEF IInv, TypeInv, TypeOK, SlotType, Ids
<1>5. QED BY <1>1, <1>3, <1>4, InUseWhole

(* A message that is not in its slot has been given up. *)
LEMMA MissingGone ==
  ASSUME IInv, RingInv, SerialInv, NEW k \in 1 .. Newest, NEW t,
         t = log[k].slot, ~(slots[t].active /\ slots[t].id = k - 1)
  PROVE  Gone(k)
<1>1. k \in 1 .. Len(log)
  BY LogFacts, SMT
<1>2. ASSUME NEW s \in Slots, slots[s].active, HoldsEntry(s, k)
      PROVE  FALSE
  <2>1. s = t /\ slots[s].id = k - 1
    BY <1>1, <1>2, LogFacts DEF HoldsEntry
  <2>2. QED BY <1>2, <2>1
<1>3. QED BY <1>2 DEF Gone, Retained

(* What a reader takes for its next message may follow the last one.         *)
LEMMA FollowsOn ==
  ASSUME Apart, IInv, RingInv, SerialInv, NEW x \in Reader, NEW p \in Nat,
         p # 0, NEW ahead \in BOOLEAN, Position(x, p, ahead),
         x.stage \in {"next", "youngest"}, NEW t \in Slots, t = AsksFor(x),
         slots[t].active,
         x.lastId = Unset \/ PrevId(slots[t].id) = x.lastId
  PROVE  MayFollow(slots[t].id + 1, p, ahead)
<1>1. PICK k : k = slots[t].id + 1
  OBVIOUS
<1>2. PICK y : y = Seen(x)
  OBVIOUS
<1>3. /\ y \in 1 .. Newest /\ y \in Int /\ y <= Newest
      /\ x.st.youngestSlot = log[y].slot
      /\ y > p \/ (ahead /\ y >= p - 1)
  BY <1>2 DEF Position, Polls
<1>4. /\ k \in 1 .. Len(log) /\ log[k].slot = t /\ ~Gone(k)
      /\ k > y - NSlots /\ slots[t].id = k - 1 /\ k \in Int
  BY <1>1, <1>3, InSlot
<1>5. x.lastId \in Int /\ Len(log) \in Nat /\ Newest <= Len(log)
      /\ Newest \in Int
  BY ReaderFields, LogFacts
<1>6. ASSUME NEW j \in Int, j = x.lastId + 1, x.lastId # Unset,
             Lost(j, p, ahead)
      PROVE  MayFollow(k, p, ahead)
  <2>1. x.lastId < Len(log)
    BY <1>5, <1>6, SMT DEF Lost, Gone
  <2>2. k = x.lastId + 2
    BY <1>4, <1>5, <1>6, <2>1, PrevOf
  <2>3. k = j + 1
    BY <1>5, <1>6, <2>2, SMT
  <2>4. j > p \/ (ahead /\ j >= p - 1)
    BY <1>6 DEF Lost
  <2>5. j >= p + 1 => Gone(p + 1)
    BY <1>6, GoneBelow DEF Lost
  <2>6. QED BY <1>6, <2>3, <2>4, <2>5, SMT DEF MayFollow
<1>7. CASE x.stage = "next"
  <2>1. AfterMessage(x, p) \/ AfterLost(x, p, ahead) \/ AfterSlot(x, p, ahead)
    BY <1>7 DEF Position
  <2>2. CASE AfterMessage(x, p)
    <3>1. x.lastId = p - 1 /\ x.lastId # Unset
      BY <2>2, SMT DEF AfterMessage, Unset
    <3>2. p - 1 < Len(log)
      BY <1>5, SMT DEF Position
    <3>3. k = (p - 1) + 2
      BY <1>4, <1>5, <3>1, <3>2, PrevOf
    <3>4. k = p + 1
      BY <3>3
    <3>5. QED BY <1>1, <3>4, SMT DEF MayFollow
  <2>3. CASE AfterLost(x, p, ahead)
    BY <1>1, <1>5, <1>6, <2>3 DEF AfterLost
  <2>4. CASE AfterSlot(x, p, ahead)
    <3>1. PICK q \in 1 .. Newest :
             /\ x.lastSlot = log[q].slot
             /\ Gone(q + 1 - NSlots)
             /\ (q > p /\ Gone(p + 1)) \/ (ahead /\ q >= p - 1)
      BY <2>4 DEF AfterSlot
    <3>2. q \in 1 .. Len(log) /\ q \in Int /\ NSlots \in Nat
      BY <1>5, LogFacts, SMT
    <3>3. log[k].slot = NextSlot(log[q].slot)
      BY <1>4, <1>7, <3>1 DEF AsksFor
    <3>4. k > q + 1 - NSlots
      <4>1. PICK b \in Int : b = q + 1 - NSlots
        BY <3>2
      <4>2. k <= b => Gone(k)
        BY <1>4, <3>1, <4>1, GoneBelow
      <4>3. QED BY <1>4, <4>1, <4>2
    <3>5. k >= q + 1
      BY <1>4, <3>2, <3>3, <3>4, SlotOrder
    <3>6. MayFollow(k, p, ahead)
      BY <1>4, <3>1, <3>2, <3>5, SMT DEF MayFollow
    <3>7. QED BY <1>1, <3>6
  <2>5. QED BY <2>1, <2>2, <2>3, <2>4
<1>8. CASE x.stage = "youngest"
  <2>1. CASE x.lastId = Unset
    <3>1. Gone(p + 1) \/ ahead
      BY <1>8, <2>1 DEF Position
    <3>2. y \in 1 .. Len(log) /\ log[k].slot = log[y].slot
      BY <1>3, <1>4, <1>5, <1>8, SMT DEF AsksFor
    <3>3. k >= y
      BY <1>4, <3>2, SlotOrder
    <3>4. MayFollow(k, p, ahead)
      BY <1>3, <1>4, <3>1, <3>3, SMT DEF MayFollow
    <3>5. QED BY <1>1, <3>4
  <2>2. CASE x.lastId # Unset
    BY <1>1, <1>5, <1>6, <1>8, <2>2 DEF Position
  <2>3. QED BY <2>1, <2>2
<1>9. QED BY <1>7, <1>8

(* Where the reader does not find it, the one after its last is gone.        *)
LEMMA NothingFollows ==
  ASSUME Apart, IInv, RingInv, SerialInv, NEW x \in Reader, NEW p \in Nat,
         p # 0, NEW ahead \in BOOLEAN, ~ahead, Position(x, p, ahead),
         x.stage = "next", NEW t \in Slots, t = AsksFor(x),
         ~(slots[t].active /\ PrevId(slots[t].id) = x.lastId)
  PROVE  Gone(p + 1)
<1>1. PICK y : y = Seen(x)
  OBVIOUS
<1>2. y \in 1 .. Newest /\ y > p /\ Newest \in Int /\ Newest <= Len(log)
      /\ Len(log) \in Nat
  BY <1>1, LogFacts DEF Position, Polls
<1>3. p \in 1 .. Len(log) /\ p + 1 \in 1 .. Newest /\ p + 1 \in 1 .. Len(log)
  BY <1>2, SMT
<1>4. CASE AfterMessage(x, p)
  <2>1. CASE x.lastSlot = log[p].slot
    <3>1. t = NextSlot(log[p].slot)
      BY <2>1 DEF AsksFor
    <3>2. PICK k \in Int : k = p + 1
      OBVIOUS
    <3>3. log[k].slot = t
      BY <1>3, <3>1, <3>2, SlotOrder
    <3>4. ~(slots[t].active /\ slots[t].id = k - 1)
      <4>1. PrevId(p) = p - 1
        BY <1>2, SMT DEF PrevId
      <4>2. x.lastId = p - 1 /\ k - 1 = p
        BY <1>4, <3>2 DEF AfterMessage
      <4>3. QED BY <4>1, <4>2
    <3>5. QED BY <1>3, <3>2, <3>3, <3>4, MissingGone
  <2>2. QED BY <1>4, <2>1 DEF AfterMessage
<1>5. CASE AfterLost(x, p, ahead)
  <2>1. PICK j \in Int : j = x.lastId + 1
    BY ReaderFields
  <2>2. Gone(j) /\ p + 1 <= j
    BY <1>5, <2>1, SMT DEF AfterLost, Lost
  <2>3. QED BY <2>2, GoneBelow
<1>6. CASE AfterSlot(x, p, ahead)
  BY <1>6 DEF AfterSlot
<1>7. QED BY <1>4, <1>5, <1>6 DEF Position

(* The step that reads a slot. *)
LEMMA PositionSlot ==
  ASSUME Apart, OrderInv, NEW r \in Readers, ReadSlot(r)
  PROVE  Position(rd'[r], last'[r].ser, last'[r].ahead)
<1>1. PICK x : x = rd[r]
  OBVIOUS
<1>2. PICK p : p = last[r].ser
  OBVIOUS
<1>3. PICK ahead : ahead = last[r].ahead
  OBVIOUS
<1>4. PICK n : n = rd'[r]
  OBVIOUS
<1>5. PICK t : t = Target(r)
  OBVIOUS
<1>6. PICK y : y = Seen(x)
  OBVIOUS
<1>7. /\ IInv /\ RingInv /\ SerialInv /\ x \in Reader /\ p \in Nat
      /\ ahead \in BOOLEAN /\ Position(x, p, ahead) /\ t = AsksFor(x)
      /\ rd \in [Readers -> Reader] /\ last' = last
      /\ x.stage \in {"next", "youngest"}
  BY <1>1, <1>2, <1>3, <1>5, ReaderFacts DEF ReadSlot
<1>8. /\ y \in 1 .. Newest /\ y \in Int /\ y <= Newest
      /\ y \in 1 .. Len(log)
      /\ x.st.youngestSlot = log[y].slot /\ x.st.youngestSlot \in Slots
      /\ p # 0 => y > p \/ (ahead /\ y >= p - 1)
      /\ p <= Len(log) /\ (ahead \/ p <= Newest)
      /\ p # 0 => Newest >= 1
      /\ p # 0 /\ x.stage = "next" => x.lastSlot \in Slots
  <2>1. /\ y \in 1 .. Newest /\ y \in Int /\ y <= Newest
        /\ x.st.youngestSlot = log[y].slot
        /\ p # 0 => y > p \/ (ahead /\ y >= p - 1)
        /\ p <= Len(log) /\ (ahead \/ p <= Newest)
        /\ p # 0 => Newest >= 1
        /\ p # 0 /\ x.stage = "next" => x.lastSlot \in Slots
    BY <1>6, <1>7 DEF Position, Polls
  <2>2. y \in 1 .. Len(log)
    BY <1>7, <2>1, LogFacts, SMT
  <2>3. QED BY <1>7, <2>1, <2>2, LogFacts
<1>9. p # 0 \/ x.stage = "youngest" => t \in Slots
  <2>1. CASE x.stage = "youngest"
    BY <1>7, <1>8, <2>1 DEF AsksFor
  <2>2. CASE x.stage = "next" /\ p # 0
    <3>1. t = NextSlot(x.lastSlot) /\ x.lastSlot \in Slots
      BY <1>7, <1>8, <2>2 DEF AsksFor
    <3>2. QED BY <3>1, SizesAssumption, SMT DEF NextSlot, Slots
  <2>3. QED BY <1>7, <2>1, <2>2
<1>10. CASE /\ Follows(r, SlotAt(t))
            /\ rd' = [rd EXCEPT ![r].copy = SlotAt(t), ![r].stage =
                        IF rd[r].stage = "next" THEN "nextMsg"
                                                ELSE "youngestMsg"]
  <2>1. /\ n.stage = IF x.stage = "next" THEN "nextMsg" ELSE "youngestMsg"
        /\ n.copy = SlotAt(t) /\ n.st = x.st /\ n.lastSlot = x.lastSlot
    BY <1>1, <1>4, <1>7, <1>10 DEF Reader
  <2>2. /\ n.stage \in Reads /\ n.stage \in Polls
        /\ n.stage \notin {"closed", "seekEnd", "update", "ready", "next",
                           "youngest"}
        /\ Seen(n) = y /\ AsksFor(n) = t
        /\ n.stage = "nextMsg" => n.lastSlot = x.lastSlot /\ x.stage = "next"
    BY <1>6, <1>7, <2>1 DEF Reads, Polls, Seen, AsksFor
  <2>3. CASE t \in Slots
    <3>1. /\ n.copy = slots[t] /\ slots[t].active
          /\ x.lastId = Unset \/ PrevId(slots[t].id) = x.lastId
      BY <1>1, <1>10, <2>1, <2>3 DEF SlotAt, Follows
    <3>2. PICK k : k = slots[t].id + 1
      OBVIOUS
    <3>3. /\ k \in 1 .. Len(log) /\ log[k].slot = t /\ ~Gone(k)
          /\ k > y - NSlots /\ slots[t].len > 0
      BY <1>7, <1>8, <2>3, <3>1, <3>2, InSlot
    <3>4. CopyTrue(n) /\ n.copy.len > 0
      BY <2>2, <3>1, <3>2, <3>3 DEF CopyTrue
    <3>5. p # 0 => MayFollow(n.copy.id + 1, p, ahead)
      BY <1>7, <2>3, <3>1, FollowsOn
    <3>6. Position(n, p, ahead)
      BY <1>8, <2>1, <2>2, <3>4, <3>5 DEF Position
    <3>7. QED BY <1>2, <1>3, <1>4, <1>7, <3>6
  <2>4. CASE t \notin Slots
    <3>1. p = 0 /\ n.copy.len = 0
      BY <1>9, <2>1, <2>4 DEF SlotAt, PhantomSlot
    <3>2. Position(n, p, ahead)
      BY <1>8, <2>1, <2>2, <3>1 DEF Position
    <3>3. QED BY <1>2, <1>3, <1>4, <1>7, <3>2
  <2>5. QED BY <2>3, <2>4
<1>11. CASE ~Follows(r, SlotAt(t)) /\ GiveUp(r, Unset) /\ x.stage = "next"
  <2>1. /\ n.stage = "youngest" /\ n.lastId = Unset /\ n.st = x.st
    BY <1>1, <1>4, <1>7, <1>11 DEF GiveUp, Reader
  <2>2. p # 0 => Gone(p + 1) \/ ahead
    <3> SUFFICES ASSUME p # 0, ~ahead PROVE Gone(p + 1)
      OBVIOUS
    <3>1. t \in Slots /\ ~(slots[t].active /\ PrevId(slots[t].id) = x.lastId)
      BY <1>1, <1>9, <1>11 DEF Follows, SlotAt
    <3>2. QED BY <1>7, <1>11, <3>1, NothingFollows
  <2>3. Seen(n) = y
    BY <1>6, <2>1 DEF Seen
  <2>4. Position(n, p, ahead)
    BY <1>8, <2>1, <2>2, <2>3 DEF Position, Polls, Reads
  <2>5. QED BY <1>2, <1>3, <1>4, <1>7, <2>4
<1>12. CASE ~Follows(r, SlotAt(t)) /\ GiveUp(r, Unset)
            /\ x.stage = "youngest"
  <2>1. n.stage = "ready" /\ n.lastId = Unset /\ n.lastSlot = t
    BY <1>1, <1>4, <1>5, <1>7, <1>12 DEF GiveUp, Ready
  <2>2. t \in Slots /\ t = log[y].slot
    BY <1>7, <1>8, <1>9, <1>12 DEF AsksFor
  <2>3. y + 1 - NSlots \in Int /\ y + 1 - NSlots <= y /\ p + 1 \in Int
    BY <1>7, <1>8, LogFacts, SMT
  <2>4. CASE x.lastId = Unset
    <3>1. ~(slots[t].active /\ slots[t].id = y - 1)
      BY <1>1, <1>12, <2>2, <2>4 DEF Follows, SlotAt
    <3>2. Gone(y)
      BY <1>7, <1>8, <2>2, <3>1, MissingGone
    <3>3. Gone(y + 1 - NSlots)
      BY <1>7, <1>8, <2>3, <3>2, GoneBelow
    <3>4. p # 0 => Gone(p + 1) \/ ahead
      BY <1>7, <1>12, <2>4 DEF Position
    <3>5. p # 0 => AfterSlot(n, p, ahead)
      BY <1>7, <1>8, <2>1, <2>2, <3>3, <3>4, SMT DEF AfterSlot
    <3>6. Position(n, p, ahead)
      BY <1>8, <2>1, <2>2, <3>5 DEF Position, Polls, Reads
    <3>7. QED BY <1>2, <1>3, <1>4, <1>7, <3>6
  <2>5. CASE x.lastId # Unset
    <3>1. PICK j \in Int : j = x.lastId + 1
      BY <1>7, ReaderFields
    <3>2. p # 0 => Lost(j, p, ahead) /\ j > y - NSlots
      BY <1>6, <1>7, <1>12, <2>5, <3>1 DEF Position
    <3>3. p # 0 => Gone(y + 1 - NSlots)
      <4>1. p # 0 => Gone(j) /\ y + 1 - NSlots <= j
        BY <1>7, <1>8, <3>1, <3>2, LogFacts, SMT DEF Lost
      <4>2. QED BY <1>7, <2>3, <3>1, <4>1, GoneBelow
    <3>4. p # 0 => Gone(p + 1) \/ ahead
      <4>1. p # 0 => ahead \/ (Gone(j) /\ p + 1 <= j)
        BY <1>7, <3>1, <3>2, SMT DEF Lost
      <4>2. QED BY <1>7, <2>3, <3>1, <4>1, GoneBelow
    <3>5. p # 0 => AfterSlot(n, p, ahead)
      BY <1>7, <1>8, <2>1, <2>2, <3>3, <3>4, SMT DEF AfterSlot
    <3>6. Position(n, p, ahead)
      BY <1>8, <2>1, <2>2, <3>5 DEF Position, Polls, Reads
    <3>7. QED BY <1>2, <1>3, <1>4, <1>7, <3>6
  <2>6. QED BY <2>4, <2>5
<1>13. QED BY <1>1, <1>5, <1>7, <1>10, <1>11, <1>12 DEF ReadSlot

(* The entry that passes the checks is that of the slot. *)
LEMMA CheckedSerial ==
  ASSUME IInv, SerialInv, TypeInv, Traced, NEW c \in CopyType, CopyOK(c),
         EntryChecks(c)
  PROVE  buf[c.offset + c.len - 1].ser = c.id + 1
<1>1. PICK e : e = buf[c.offset + c.len - 1].ser
  OBVIOUS
<1>2. e \in 1 .. Len(log) /\ log[e].id = c.id
  BY <1>1, CheckedId DEF EntryChecks
<1>3. log[e].id = e - 1 /\ e \in Int
  BY <1>2, LogFacts
<1>4. QED BY <1>1, <1>2, <1>3, SMT

(* The step that reads a message. *)
LEMMA PositionRead ==
  ASSUME Apart, OrderInv, NEW r \in Readers, ReadMsg(r)
  PROVE  Position(rd'[r], last'[r].ser, last'[r].ahead)
<1>1. PICK x : x = rd[r]
  OBVIOUS
<1>2. PICK p : p = last[r].ser
  OBVIOUS
<1>3. PICK ahead : ahead = last[r].ahead
  OBVIOUS
<1>4. PICK n : n = rd'[r]
  OBVIOUS
<1>5. PICK t : t = Target(r)
  OBVIOUS
<1>6. PICK y : y = Seen(x)
  OBVIOUS
<1>7. PICK c : c = x.copy
  OBVIOUS
<1>8. PICK k : k = c.id + 1
  OBVIOUS
<1>9. /\ IInv /\ RingInv /\ SerialInv /\ TypeInv /\ Traced
      /\ x \in Reader /\ p \in Nat
      /\ ahead \in BOOLEAN /\ Position(x, p, ahead) /\ t = AsksFor(x)
      /\ rd \in [Readers -> Reader] /\ last \in [Readers -> Delivery]
      /\ x.stage \in Reads /\ x.stage \in Polls
      /\ x.stage \in {"nextMsg", "youngestMsg"}
      /\ CopyOK(c) /\ c \in CopyType
  <2>1. x.stage \in {"nextMsg", "youngestMsg"}
    BY <1>1 DEF ReadMsg
  <2>2. /\ IInv /\ RingInv /\ SerialInv /\ TypeInv /\ Traced
        /\ x \in Reader /\ p \in Nat
        /\ ahead \in BOOLEAN /\ Position(x, p, ahead) /\ t = AsksFor(x)
        /\ rd \in [Readers -> Reader] /\ last \in [Readers -> Delivery]
        /\ ReaderOK(x)
    BY <1>1, <1>2, <1>3, <1>5, ReaderFacts
  <2>3. QED BY <1>7, <2>1, <2>2, ReaderFields DEF Reads, Polls, ReaderOK
<1>10. /\ y \in 1 .. Newest /\ y \in Int
       /\ x.st.youngestSlot = log[y].slot
       /\ p # 0 => y > p \/ (ahead /\ y >= p - 1)
       /\ p <= Len(log) /\ (ahead \/ p <= Newest)
       /\ p # 0 => Newest >= 1
       /\ c.len > 0 => CopyTrue(x)
       /\ p # 0 => c.len > 0 /\ MayFollow(k, p, ahead)
  BY <1>6, <1>7, <1>8, <1>9 DEF Position
<1>11. Newest \in Int /\ Newest <= Len(log) /\ Len(log) \in Nat
  BY <1>9, LogFacts
<1>12. c.len > 0 => /\ k \in 1 .. Len(log) /\ k > y - NSlots
                    /\ log[k].slot = t /\ t \in Slots /\ c.id = k - 1
                    /\ c.id # Unset /\ c.id \in Int
  <2> SUFFICES ASSUME c.len > 0
               PROVE  /\ k \in 1 .. Len(log) /\ k > y - NSlots
                      /\ log[k].slot = t /\ t \in Slots /\ c.id = k - 1
                      /\ c.id # Unset /\ c.id \in Int
    OBVIOUS
  <2>1. k \in 1 .. Len(log) /\ k > y - NSlots /\ log[k].slot = t
    BY <1>6, <1>7, <1>8, <1>9, <1>10 DEF CopyTrue
  <2>2. t \in Slots /\ c.id \in Int
    BY <1>7, <1>9, <2>1, LogFacts, ReaderFields
  <2>3. c.id = k - 1 /\ c.id # Unset
    BY <1>8, <2>1, <2>2, SMT DEF Unset
  <2>4. QED BY <2>1, <2>2, <2>3
<1>13. CASE /\ EntryChecks(c) /\ Deliver(r, c)
            /\ Positioned(r, c.id, Target(r))
  <2>1. c.len > 0
    BY <1>13 DEF EntryChecks
  <2>2. last'[r].ser = k /\ last'[r].ahead = BeyondStat(x.st, c.id)
    BY <1>1, <1>8, <1>9, <1>13, CheckedSerial DEF Deliver, Delivery
  <2>3. /\ n.stage \in {"update", "ready"} /\ n.lastId = c.id
        /\ n.lastSlot = t
    BY <1>1, <1>4, <1>5, <1>9, <1>13 DEF Positioned, Ready, Reader
  <2>4. AfterMessage(n, k)
    BY <1>12, <2>1, <2>3 DEF AfterMessage
  <2>5. PICK b : b = BeyondStat(x.st, c.id)
    OBVIOUS
  <2>6. b \/ k <= Newest
    <3>1. c.id \in Ids
      BY <1>9, <1>13, CheckedId
    <3>2. c.id < Len(log)
      BY <1>11, <1>12, <2>1, SMT
    <3>3. QED BY <1>6, <1>8, <1>9, <1>10, <2>5, <3>1, <3>2, NotAhead
  <2>7. k <= Len(log) /\ Newest >= 1
    BY <1>10, <1>11, <1>12, <2>1, SMT
  <2>8. Position(n, k, b)
    BY <1>12, <2>1, <2>3, <2>4, <2>6, <2>7 DEF Position, Polls, Reads
  <2>9. QED BY <1>4, <2>2, <2>5, <2>8
<1>14. CASE ~EntryChecks(c) /\ GiveUp(r, c.id) /\ UNCHANGED last
  <2>1. /\ n.st = x.st \/ n.stage = "ready"
        /\ n.lastId = c.id /\ n.lastSlot = t
        /\ n.stage = IF x.stage = "nextMsg" THEN "youngest" ELSE "ready"
    BY <1>1, <1>4, <1>5, <1>9, <1>14 DEF GiveUp, Ready, Reader
  <2>2. p # 0 => Lost(k, p, ahead)
    <3>1. p # 0 => Gone(k)
      BY <1>7, <1>8, <1>9, <1>10, <1>14, KeptPasses
    <3>2. QED BY <1>10, <3>1 DEF Lost, MayFollow
  <2>3. p # 0 => /\ n.lastId # Unset /\ n.lastId + 1 = k /\ k > y - NSlots
                 /\ n.lastSlot \in Slots
    BY <1>8, <1>10, <1>12, <2>1
  <2>4. CASE n.stage = "youngest"
    <3>1. Seen(n) = y /\ n.st = x.st
      BY <1>6, <2>1, <2>4 DEF Seen
    <3>2. Position(n, p, ahead)
      BY <1>10, <2>2, <2>3, <2>4, <3>1 DEF Position, Polls, Reads
    <3>3. QED BY <1>2, <1>3, <1>4, <1>14, <3>2
  <2>5. CASE n.stage = "ready"
    <3>1. p # 0 => AfterLost(n, p, ahead)
      BY <2>2, <2>3 DEF AfterLost
    <3>2. Position(n, p, ahead)
      BY <1>10, <2>3, <2>5, <3>1 DEF Position, Polls, Reads
    <3>3. QED BY <1>2, <1>3, <1>4, <1>14, <3>2
  <2>6. QED BY <1>9, <2>1, <2>4, <2>5
<1>15. QED BY <1>1, <1>7, <1>13, <1>14 DEF ReadMsg

(* No step takes a reader out of its position. *)
LEMMA PositionStep ==
  ASSUME Smooth, Apart, OrderInv, [ReaderNext]_rvars
  PROVE  PositionInv'
<1>1. [Next]_vars /\ ReaderInv' /\ IInv /\ RingInv /\ SerialInv /\ ReaderInv
  BY ReaderIsNext, ReaderInvStep DEF OrderInv
<1>2. SUFFICES ASSUME NEW q \in Readers
               PROVE  Position(rd[q], last[q].ser, last[q].ahead)'
  BY DEF PositionInv
<1>3. PICK x : x = rd'[q]
  OBVIOUS
<1>4. PICK p : p = last'[q].ser
  OBVIOUS
<1>5. PICK ahead : ahead = last'[q].ahead
  OBVIOUS
<1>6. /\ x \in Reader /\ p \in Nat /\ ahead \in BOOLEAN
      /\ x.stage \in Reads => CopyOK(x.copy)
  BY <1>1, <1>3, <1>4, <1>5 DEF ReaderInv, ReaderOK, CopyOK, Reads, Delivery
<1>7. Position(x, p, ahead)
  <2>1. CASE rd'[q] = rd[q] /\ last'[q] = last[q]
    BY <1>3, <1>4, <1>5, <2>1, ReaderFacts
  <2>2. ASSUME NEW r \in Readers,
               OpenAtStart(r) \/ OpenAtEnd(r) \/ ReaderStep(r)
        PROVE  Position(rd'[q], last'[q].ser, last'[q].ahead)
    <3>1. CASE r = q
      BY <2>2, <3>1, PositionOpen, PositionSeek, PositionSlot, PositionRead
         DEF ReaderStep
    <3>2. CASE r # q
      <4>1. rd'[q] = rd[q]
        BY <1>1, <2>2, <3>2, ReaderMoves DEF ReaderInv
      <4>2. last'[q] = last[q]
        BY <1>1, <2>2, <3>2
           DEF ReaderInv, OpenAtStart, OpenAtEnd, ReaderStep, SeekEnd,
               PollStat, ReadSlot, ReadMsg, Deliver, UpdateLastIdRead
      <4>3. QED BY <4>1, <4>2, ReaderFacts
    <3>3. QED BY <3>1, <3>2
  <2>3. QED BY <1>3, <1>4, <1>5, <2>1, <2>2 DEF ReaderNext, rvars
<1>8. Position(x, p, ahead)'
  BY <1>1, <1>6, <1>7, PositionKept
<1>9. QED BY <1>3, <1>4, <1>5, <1>8

LEMMA PositionInit == ReaderInit => PositionInv
<1> SUFFICES ASSUME ReaderInit, NEW r \in Readers
             PROVE  Position(rd[r], last[r].ser, last[r].ahead)
  BY DEF PositionInv
<1>1. rd[r] = Closed /\ last[r] = NoDelivery
  BY DEF ReaderInit
<1>2. PICK x : x = rd[r]
  OBVIOUS
<1>3. x.stage = "closed"
  BY <1>1, <1>2 DEF Closed
<1>4. Len(log) = 0 /\ Newest = 0
  BY DEF ReaderInit, Init, Newest, Storing
<1>5. last[r].ser = 0
  BY <1>1 DEF NoDelivery
<1>6. PICK b : b = last[r].ahead
  OBVIOUS
<1>7. Position(x, 0, b)
  BY <1>3, <1>4 DEF Position, Polls, Reads
<1>8. QED BY <1>2, <1>5, <1>6, <1>7

(* As long as nothing fails and no id comes round, every reader stands at,   *)
(* or just after, a message it was handed or lost, whatever the writers do   *)
(* between two of its device accesses.                                       *)
THEOREM OrderHolds == Smooth /\ Apart => (ReaderSpec => []OrderInv)
<1> SUFFICES ASSUME Smooth, Apart PROVE ReaderSpec => []OrderInv
  OBVIOUS
<1>1. ReaderSpec => [](IInv /\ RingInv /\ ReaderInv)
  BY ReaderRing
<1>2. ReaderInit => SerialInv /\ PositionInv
  BY SerialInit, PositionInit DEF ReaderInit
<1>3. IInv /\ RingInv /\ ReaderInv /\ SerialInv /\ PositionInv
        /\ [ReaderNext]_rvars => SerialInv' /\ PositionInv'
  BY SerialStep, ReaderIsNext, PositionStep DEF OrderInv
<1>4. ReaderSpec => [](SerialInv /\ PositionInv)
  BY <1>1, <1>2, <1>3, PTL DEF ReaderSpec
<1>5. IInv /\ RingInv /\ ReaderInv /\ SerialInv /\ PositionInv => OrderInv
  BY DEF OrderInv
<1>6. QED BY <1>1, <1>4, <1>5, PTL

(* A delivery hands over a message that may follow the last one. *)
LEMMA DeliveryFollows ==
  ASSUME OrderInv, [ReaderNext]_rvars, NEW r \in Readers, Delivered(r)
  PROVE  /\ last'[r].ser \in Nat
         /\ last[r].ser # 0 =>
              MayFollow(last'[r].ser, last[r].ser, last[r].ahead)
         /\ last'[r].ser > last[r].ser \/ last[r].ser # 0
<1> DEFINE c == rd[r].copy
<1>1. ReadMsg(r) /\ EntryChecks(c) /\ Deliver(r, c)
  BY DeliveryIsRead DEF OrderInv
<1>2. /\ IInv /\ SerialInv /\ TypeInv /\ Traced /\ c \in CopyType /\ CopyOK(c)
      /\ rd[r] \in Reader /\ rd[r].stage \in Reads
      /\ Position(rd[r], last[r].ser, last[r].ahead)
      /\ last[r].ser \in Nat /\ last \in [Readers -> Delivery]
  BY <1>1, ReaderFacts, ReaderFields DEF ReaderOK, ReadMsg, Reads
<1>3. last'[r].ser = c.id + 1
  BY <1>1, <1>2, CheckedSerial DEF Deliver, Delivery
<1>4. last'[r].ser \in 1 .. Len(log)
  BY <1>1, <1>2, CheckedId DEF Deliver, Delivery
<1>5. last[r].ser # 0 => MayFollow(c.id + 1, last[r].ser, last[r].ahead)
  BY <1>2 DEF Position
<1>6. last[r].ser = 0 => last'[r].ser > last[r].ser
  BY <1>4, SMT
<1>7. last'[r].ser \in Nat
  BY <1>4, SMT
<1>8. QED BY <1>3, <1>5, <1>6, <1>7

(* Messages are handed over in the order in which they were written; a       *)
(* reader that was handed one ahead of the status it had read may get that   *)
(* one again, or the one before it, and nothing older.                       *)
THEOREM ReadersKeepOrder ==
  Smooth /\ Apart => (ReaderSpec => InOrderUnlessAhead)
<1> SUFFICES ASSUME Smooth, Apart PROVE ReaderSpec => InOrderUnlessAhead
  OBVIOUS
<1>1. ASSUME OrderInv, [ReaderNext]_rvars, NEW r \in Readers, Delivered(r)
      PROVE  \/ last'[r].ser > last[r].ser
             \/ last[r].ahead /\ last'[r].ser >= last[r].ser - 1
  BY <1>1, DeliveryFollows DEF MayFollow
<1>2. OrderInv /\ [ReaderNext]_rvars =>
        [\A r \in Readers : Delivered(r) =>
           \/ last'[r].ser > last[r].ser
           \/ last[r].ahead /\ last'[r].ser >= last[r].ser - 1]_rvars
  BY <1>1
<1>3. QED BY <1>2, OrderHolds, PTL DEF ReaderSpec, InOrderUnlessAhead

(* A reader that misses messages has been overrun: the one after its last    *)
(* was given up by the writers - or its last was ahead of the status.        *)
THEOREM ReadersSkipOnlyLost ==
  Smooth /\ Apart => (ReaderSpec => SkipsOnlyIfOverrun)
<1> SUFFICES ASSUME Smooth, Apart PROVE ReaderSpec => SkipsOnlyIfOverrun
  OBVIOUS
<1>1. ASSUME OrderInv, [ReaderNext]_rvars, NEW r \in Readers, Delivered(r),
             last[r].ser # 0, last'[r].ser > last[r].ser + 1
      PROVE  ~Retained(last[r].ser + 1) \/ last[r].ahead
  <2>1. Gone(last[r].ser + 1) \/ last[r].ahead
    BY <1>1, DeliveryFollows DEF MayFollow
  <2>2. last[r].ser + 1 >= 1
    BY <1>1, ReaderFacts
  <2>3. QED BY <2>1, <2>2 DEF Gone
<1>2. OrderInv /\ [ReaderNext]_rvars =>
        [\A r \in Readers :
           Delivered(r) /\ last[r].ser # 0 /\ last'[r].ser > last[r].ser + 1
             => ~Retained(last[r].ser + 1) \/ last[r].ahead]_rvars
  BY <1>1
<1>3. QED BY <1>2, OrderHolds, PTL DEF ReaderSpec, SkipsOnlyIfOverrun

-----------------------------------------------------------------------------
(* Writers that open the queue: what the unlocked check has seen is sound.    *)

(* The first and the last word of an entry, which is all that the check      *)
(* reads, stand for the whole of it: a mark of a re-initialisation can only  *)
(* be over these two.                                                        *)
LEMMA WholeEntry ==
  ASSUME IInv, NEW t \in Slots, Checked(t), slots[t].active
  PROVE  Intact(t)
<1>1. TypeInv /\ TypeOK /\ DeviceOK /\ InActiveRegion(stat, t) /\ EntryReads(slots[t])
  BY DEF IInv, TypeInv, Checked
<1>2. t = WriteSlotOf(stat) => stat.oldestSlot = t
  BY <1>1, WriteSlotPublished DEF TypeOK
<1>3. PICK k \in 1 .. Len(log) : Owned(t, k)
  BY <1>1, <1>2 DEF DeviceOK, Content
<1> DEFINE at0 == slots[t].offset
           len == log[k].len
<1>4. /\ log[k].slot = t /\ log[k].id = slots[t].id /\ len = slots[t].len
      /\ at0 \in Nat /\ len \in Nat /\ len >= 2 /\ at0 + len <= BufSize
  <2>1. log[k] \in Entry
    <3>1. log \in Seq(Entry) /\ k \in 1 .. Len(log)
      BY <1>1, <1>3 DEF TypeOK
    <3> QED
      BY ONLY <3>1
  <2>2. log[k].len \in Lens
    BY <2>1 DEF Entry
  <2>4. log[k].len \in Nat /\ log[k].len >= 2
    <3>1. \A n \in Lens : n \in Nat /\ n >= 2
      BY ONLY WritersAssumption, SMT
    <3> QED
      BY ONLY <2>2, <3>1
  <2>3. /\ slots[t].offset \in Nat /\ slots[t].offset + slots[t].len <= BufSize
    BY <1>1, SlotFacts DEF DeviceOK, SlotsOK
  <2> QED
    BY <1>3, <2>3, <2>4 DEF Owned
<1>5. \A i \in 1 .. len : \/ buf[at0 + i - 1] = [ser |-> k, word |-> i]
                          \/ Marked(at0 + i - 1)
  BY <1>3 DEF Owned
<1>6. buf[at0].word = 1 /\ buf[at0 + len - 1].ser # 0
  BY <1>1, <1>4 DEF EntryReads
<1>7. ASSUME NEW i \in 1 .. len
      PROVE  \/ buf[at0 + i - 1] = [ser |-> k, word |-> i]
             \/ i = 1 /\ buf[at0 + i - 1] = BareCookie
  <2>1. at0 + i - 1 \in Words
    BY <1>4, SizesAssumption DEF Words
  <2>2. CASE Marked(at0 + i - 1)
    <3>1. i # len
      BY <1>6, <2>2 DEF Marked
    <3>2. at0 + i - 1 \in {0, BufSize - 1} /\ buf[at0 + i - 1].ser = 0
      BY <2>2 DEF Marked
    <3>3. i = 1
      BY <1>4, <3>1, <3>2, SizesAssumption
    <3>4. at0 + i - 1 = at0
      BY <1>4, <3>3
    <3>5. buf[at0] \in Cell /\ buf[at0].ser = 0 /\ buf[at0].word = 1
      BY <1>1, <1>6, <2>1, <3>2, <3>4 DEF TypeOK
    <3>6. buf[at0] = BareCookie
      BY <3>5 DEF Cell, BareCookie
    <3> QED
      BY <3>3, <3>4, <3>6
  <2> QED
    BY <1>5, <2>2
<1> HIDE DEF at0, len
<1>8. \A w \in 1 .. log[k].len :
        LET c == buf[slots[t].offset + w - 1]
        IN  c = [ser |-> k, word |-> w] \/ (w = 1 /\ c = BareCookie)
  BY <1>7 DEF at0, len
<1>9. QED
  BY <1>3, <1>4, <1>8 DEF Intact, len

LEMMA KnownSound ==
  ASSUME IInv, OpenInv
  PROVE  RepairedOnOpen
<1> SUFFICES ASSUME NEW p \in Writers, op[p].stage = "open", op[p].calm
             PROVE  Sound
  BY DEF RepairedOnOpen
<1>1. \A t \in Slots : Checked(t)
  BY DEF OpenInv, CalmOK
<1>2. QED
  BY <1>1, WholeEntry DEF Checked, Sound

LEMMA OpenTypes == ClosedOp \in Opening /\ NoTable \in [Slots -> SlotType]
BY InitTypes, IndexRange, SizesAssumption
   DEF ClosedOp, Opening, OpStages, NoTable, Unset

LEMMA OpenInitOK == OpenInit => OpenInv
<1> SUFFICES ASSUME OpenInit PROVE OpenInv
  OBVIOUS
<1>1. op = [p \in Writers |-> ClosedOp] /\ lock = Unset /\ stage = "idle"
      /\ \A p \in Writers : waiting[p] = NoJob
  BY DEF OpenInit, Init
<1>2. op \in [Writers -> Opening]
  BY <1>1, OpenTypes
<1>3. \A p \in Writers : op[p].stage = "closed" /\ op[p].calm = FALSE
  BY <1>1 DEF ClosedOp
<1>4. QED
  BY <1>1, <1>2, <1>3 DEF OpenInv, HolderOK, PlaceOK, CalmOK, ClosedOp

(* The slots on disk stay as they are: so does what the check found.         *)
LEMMA CheckedKept ==
  ASSUME Agree(stat', stat), UNCHANGED <<slots, buf, log>>, NEW t
  PROVE  Checked(t)' <=> Checked(t)
BY DEF Agree, Checked, InActiveRegion, EntryReads

LEMMA CalmKept ==
  ASSUME NEW q \in Writers, CalmOK(q), op'[q] = op[q],
         lock' \in {lock, Unset}, Agree(stat', stat), UNCHANGED <<slots, buf, log>>
  PROVE  CalmOK(q)'
<1>1. \A t \in Slots : Checked(t)' <=> Checked(t)
  BY CheckedKept
<1>2. \A t : InActiveRegion(stat', t) <=> InActiveRegion(stat, t)
  BY DEF Agree, InActiveRegion
<1>3. QED
  BY <1>1, <1>2 DEF CalmOK, Agree

(* A process alone goes on with its opening; of the device at most the       *)
(* position of a reader changes.                                             *)
LEMMA OpenAlone ==
  ASSUME TypeOK, OpenInv, NEW p \in Writers, op' \in [Writers -> Opening],
         \A q \in Writers \ {p} : op'[q] = op[q],
         op[p].stage # "clearing", op'[p].stage # "clearing",
         op[p].stage = "open" => lock # p /\ waiting[p] = NoJob,
         Agree(stat', stat), UNCHANGED <<slots, buf, log, lock, stage, waiting>>,
         PlaceOK(p)', CalmOK(p)'
  PROVE  OpenInv'
<1>1. HolderOK /\ \A q \in Writers : PlaceOK(q) /\ CalmOK(q)
  BY DEF OpenInv
<1>2. lock # p
  BY <1>1, WritersAssumption DEF HolderOK
<1>3. HolderOK'
  <2>1. lock # Unset => op'[lock] = op[lock]
    <3>1. lock # Unset => lock \in Writers
      BY DEF TypeOK
    <3> QED
      BY <1>2, <3>1
  <2>2. waiting[p] = NoJob
    BY <1>1 DEF HolderOK
  <2> QED
    BY <1>1, <2>1, <2>2 DEF HolderOK, Reinitialising
<1>4. \A q \in Writers \ {p} : PlaceOK(q)' /\ CalmOK(q)'
  BY <1>1, CalmKept DEF PlaceOK
<1>5. QED
  BY <1>3, <1>4 DEF OpenInv
(* The device is left alone and the lock taken to re-initialise it.          *)
LEMMA InvStartClear ==
  ASSUME BlockingWrite = FALSE \/ OneWriter, IInv, OpenInv,
         NEW p \in Writers, StartClear(p)
  PROVE  IInv'
<1>1. /\ lock = Unset /\ lock' = p /\ stage' = "clearBuf"
      /\ UNCHANGED <<stat, slots, buf, st, job, off, done, waiting, log>>
  BY DEF StartClear, device
<1>2. TypeInv'
  BY <1>1 DEF IInv, TypeInv, TypeOK, Stages, Writing, Storing
<1>3. waiting[p] = NoJob
  BY DEF OpenInv, HolderOK, StartClear
<1>4. \A q \in Writers : waiting[q] = NoJob
  BY <1>3 DEF IInv, WaitOK, OneWriter
<1>5. WaitOK'
  BY <1>1, <1>4 DEF IInv, WaitOK
<1>6. DeviceOK'
  BY <1>1, DeviceUnchanged DEF IInv
<1>7. JobOK' /\ EntryOK' /\ ClearOK' /\ ~Writing'
  BY <1>1 DEF JobOK, EntryOK, ClearOK, Writing, Storing
<1>8. QED
  BY <1>2, <1>5, <1>6, <1>7 DEF IInv

(* A process that dies without the lock leaves nothing but its sleep.        *)
LEMMA InvForgets ==
  ASSUME IInv, NEW p \in Writers, waiting' = [waiting EXCEPT ![p] = NoJob],
         UNCHANGED <<device, local, log>>
  PROVE  IInv'
<1>1. UNCHANGED <<stat, slots, buf, lock, stage, st, job, off, done, log>>
  BY DEF device, local
<1>2. waiting \in [Writers -> Job \cup {NoJob}]
  BY DEF IInv, TypeInv, TypeOK
<1>3. /\ waiting' \in [Writers -> Job \cup {NoJob}]
      /\ \A q \in Writers : waiting'[q] \in {waiting[q], NoJob}
  BY <1>2
<1>4. TypeInv'
  BY <1>1, <1>3 DEF IInv, TypeInv, TypeOK, Writing, Storing
<1>5. WaitOK'
  BY <1>1, <1>3 DEF IInv, WaitOK, WriteSlotOf
<1>6. DeviceOK'
  BY <1>1, DeviceUnchanged DEF IInv
<1>7. QED
  BY <1>1, <1>4, <1>5, <1>6
     DEF IInv, Writing, Storing, Fits, WriteSlotOf, JobOK, EntryOK, ClearOK

LEMMA InvOpenStep ==
  ASSUME BlockingWrite = FALSE \/ OneWriter, IInv, OpenInv, [OpenNext]_ovars
  PROVE  IInv'
<1>1. CASE [Next]_vars
  BY <1>1, InvStep
<1>2. ASSUME NEW p \in Writers, OpenStep(p) PROVE IInv'
  <2>1. CASE ReportPosition(p)
    <3>1. op[p].lastId \in Ids \cup {Unset}
      BY DEF OpenInv, Opening
    <3> QED
      BY <2>1, <3>1, InvReport DEF ReportPosition
  <2>2. CASE StartClear(p)
    BY <2>2, InvStartClear
  <2>3. CASE FinishClear(p)
    BY <1>1, <2>3 DEF FinishClear, Next, WriterNext, HolderStep
  <2>4. CASE OpenStat(p) \/ ReadTable(p) \/ CheckSlot(p) \/ CheckEntry(p)
             \/ SeekEndRdwr(p)
    BY <1>1, <2>4 DEF OpenStat, ReadTable, CheckSlot, CheckEntry, SeekEndRdwr
  <2> QED
    BY <1>2, <2>1, <2>2, <2>3, <2>4 DEF OpenStep
<1>3. ASSUME NEW p \in Writers, Die(p) PROVE IInv'
  <2>1. CASE Abandon
    BY <1>1, <2>1 DEF Next, WriterNext
  <2>2. CASE /\ waiting' = [waiting EXCEPT ![p] = NoJob]
             /\ UNCHANGED <<device, local, log>>
    BY <2>2, InvForgets
  <2> QED
    BY <1>3, <2>1, <2>2 DEF Die
<1>4. ASSUME NEW p \in Writers, Close(p) PROVE IInv'
  BY <1>1, <1>4 DEF Close
<1>5. ASSUME NEW p \in Writers, NEW len \in Lens, OpenWrite(p, len) PROVE IInv'
  BY <1>1, <1>5 DEF OpenWrite, Next, WriterNext
<1>6. ASSUME NEW p \in Writers, OpenWakeUp(p) PROVE IInv'
  BY <1>1, <1>6 DEF OpenWakeUp, Next, WriterNext
<1>7. CASE HolderGoesOn
  BY <1>1, <1>7 DEF HolderGoesOn, Next, WriterNext
<1>8. CASE UNCHANGED ovars
  BY <1>1, <1>8 DEF ovars
<1>9. QED
  BY <1>2, <1>3, <1>4, <1>5, <1>6, <1>7, <1>8 DEF OpenNext
(* The fields of an object, one by one. *)
LEMMA ObjectFields ==
  ASSUME NEW o \in Opening
  PROVE  /\ o.stage \in OpStages /\ o.st \in StatType
         /\ o.lastId \in Ids \cup {Unset} /\ o.table \in [Slots -> SlotType]
         /\ o.next \in 0 .. NSlots /\ o.calm \in BOOLEAN
BY DEF Opening

LEMMA ObjectMoves ==
  ASSUME NEW o \in Opening, NEW s \in OpStages, NEW i \in Ids \cup {Unset},
         NEW t \in [Slots -> SlotType], NEW n \in 0 .. NSlots,
         NEW d \in StatType, NEW c \in BOOLEAN
  PROVE  /\ [stage |-> s, st |-> d, lastId |-> i, table |-> t, next |-> n,
             calm |-> c] \in Opening
         /\ [o EXCEPT !.calm = c] \in Opening
         /\ [o EXCEPT !.next = n] \in Opening
         /\ [o EXCEPT !.stage = s] \in Opening
         /\ [o EXCEPT !.lastId = i] \in Opening
         /\ [o EXCEPT !.stage = s, !.next = n] \in Opening
         /\ [o EXCEPT !.stage = s, !.table = t] \in Opening
         /\ [o EXCEPT !.stage = s, !.table = t, !.next = n] \in Opening
         /\ [o EXCEPT !.stage = s, !.st = d, !.calm = c] \in Opening
         /\ [o EXCEPT !.stage = s, !.st = d, !.lastId = i] \in Opening
         /\ [o EXCEPT !.lastId = i, !.stage = s] \in Opening
BY DEF Opening

(* One object changes. *)
LEMMA OneMoves ==
  ASSUME op \in [Writers -> Opening], NEW p \in Writers, NEW o \in Opening,
         op' = [op EXCEPT ![p] = o]
  PROVE  /\ op' \in [Writers -> Opening] /\ op'[p] = o
         /\ \A q \in Writers \ {p} : op'[q] = op[q]
OBVIOUS

LEMMA ObjectEnters ==
  ASSUME op \in [Writers -> Opening], NEW p \in Writers,
         NEW s \in OpStages, Enter(p, s)
  PROVE  /\ op' \in [Writers -> Opening]
         /\ \A q \in Writers \ {p} : op'[q] = op[q]
         /\ op'[p].stage = s /\ op'[p].next = 0
         /\ op'[p].calm = op[p].calm /\ op'[p].st = op[p].st
         /\ op'[p].lastId = op[p].lastId
<1> DEFINE o == [op[p] EXCEPT !.stage = s, !.table = NoTable, !.next = 0]
<1>1. op[p] \in Opening /\ 0 \in 0 .. NSlots
  BY SizesAssumption
<1>2. o \in Opening
  BY <1>1, OpenTypes, ObjectFields, ObjectMoves
<1>3. op' = [op EXCEPT ![p] = o]
  BY DEF Enter
<1>4. /\ o.stage = s /\ o.next = 0 /\ o.calm = op[p].calm /\ o.st = op[p].st
      /\ o.lastId = op[p].lastId
  BY <1>1 DEF Opening
<1> HIDE DEF o
<1>5. QED
  BY <1>2, <1>3, <1>4, OneMoves

LEMMA ObjectCloses ==
  ASSUME op \in [Writers -> Opening], NEW p \in Writers,
         ClosedAgain(p) \/ op' = [op EXCEPT ![p] = ClosedOp]
  PROVE  /\ op' \in [Writers -> Opening]
         /\ \A q \in Writers \ {p} : op'[q] = op[q]
         /\ op'[p].stage = "closed" /\ op'[p].next = 0 /\ op'[p].calm = FALSE
<1>1. op[p].lastId \in Ids \cup {Unset}
  BY ObjectFields
<1>2. /\ ClosedOp \in Opening /\ ClosedOp.stage = "closed"
      /\ ClosedOp.next = 0 /\ ClosedOp.calm = FALSE
  BY OpenTypes DEF ClosedOp
<1>3. ASSUME NEW i \in Ids \cup {Unset}
      PROVE  LET o == [ClosedOp EXCEPT !.lastId = i]
             IN  /\ o \in Opening
                 /\ o.stage = "closed" /\ o.next = 0 /\ o.calm = FALSE
  BY <1>2 DEF Opening
<1>4. PICK o \in Opening : /\ op' = [op EXCEPT ![p] = o]
                           /\ o.stage = "closed" /\ o.next = 0 /\ o.calm = FALSE
  <2>1. CASE ClosedAgain(p)
    <3>1. PICK i \in Ids \cup {Unset} :
            op' = [op EXCEPT ![p] = [ClosedOp EXCEPT !.lastId = i]]
      BY <1>1, <2>1 DEF ClosedAgain
    <3> QED
      BY <1>3, <3>1
  <2>2. CASE op' = [op EXCEPT ![p] = ClosedOp]
    BY <1>2, <2>2
  <2> QED
    BY <2>1, <2>2
<1>5. QED
  BY <1>4, OneMoves

(* A check that fails, or is done with, enters its next stage.               *)
LEMMA OpenEnters ==
  ASSUME TypeOK, OpenInv, NEW p \in Writers, UNCHANGED vars,
         op[p].stage \in {"table", "slot", "entry"},
         \/ Enter(p, "clear")
         \/ /\ Enter(p, "seek") /\ op[p].stage = "slot" /\ op[p].next = NSlots
  PROVE  OpenInv'
<1>1. /\ op \in [Writers -> Opening] /\ CalmOK(p)
      /\ UNCHANGED <<stat, slots, buf, lock, stage, waiting, log>>
  BY DEF OpenInv, vars, device, local
<1>2. PICK s \in {"clear", "seek"} :
        /\ Enter(p, s)
        /\ s = "seek" => op[p].stage = "slot" /\ op[p].next = NSlots
  OBVIOUS
<1>3. /\ op' \in [Writers -> Opening]
      /\ \A q \in Writers \ {p} : op'[q] = op[q]
      /\ op'[p].stage = s /\ op'[p].next = 0
      /\ op'[p].calm = op[p].calm /\ op'[p].st = op[p].st
  <2>1. s \in OpStages
    BY <1>2 DEF OpStages
  <2> QED
    BY <1>1, <1>2, <2>1, ObjectEnters
<1>4. Agree(stat', stat) /\ \A t \in Slots : Checked(t)' <=> Checked(t)
  BY <1>1, CheckedKept DEF Agree
<1>5. CalmOK(p)'
  <2>1. ASSUME op[p].calm, s = "seek" PROVE \A t \in Slots : Checked(t)
    <3>1. \A t \in Slots : t < NSlots
      BY SizesAssumption DEF Slots
    <3> QED
      BY <1>1, <1>2, <2>1, <3>1 DEF CalmOK
  <2>2. op[p].calm => lock = Unset
    BY <1>1 DEF CalmOK
  <2>3. ASSUME op[p].calm, s = "seek" PROVE Agree(op'[p].st, stat')
    BY <1>1, <1>2, <1>3, <2>3 DEF CalmOK
  <2> QED
    BY <1>1, <1>2, <1>3, <1>4, <2>1, <2>2, <2>3 DEF CalmOK
<1>6. PlaceOK(p)'
  BY <1>2, <1>3 DEF PlaceOK
<1>7. op[p].stage # "clearing" /\ op'[p].stage # "clearing"
  BY <1>2, <1>3
<1>8. op[p].stage # "open"
  OBVIOUS
<1>9. QED
  BY <1>1, <1>3, <1>4, <1>5, <1>6, <1>7, <1>8, OpenAlone

LEMMA OpenBegins ==
  ASSUME TypeOK, OpenInv, NEW p \in Writers, OpenStat(p) \/ ReadTable(p)
  PROVE  OpenInv'
<1>1. /\ op \in [Writers -> Opening] /\ CalmOK(p) /\ PlaceOK(p)
      /\ op[p] \in Opening
  BY DEF OpenInv
<1>2. UNCHANGED <<stat, slots, buf, lock, stage, waiting, log>>
  BY DEF OpenStat, ReadTable, vars, device, local
<1>3. Agree(stat', stat)
  BY <1>2 DEF Agree
<1>4. CASE OpenStat(p)
  <2> DEFINE o == [op[p] EXCEPT !.stage = "table", !.st = stat,
                                !.calm = (lock = Unset)]
  <2>1. op' = [op EXCEPT ![p] = o]
    BY <1>4 DEF OpenStat
  <2>2. o \in Opening
    <3>1. /\ "table" \in OpStages /\ stat \in StatType
          /\ (lock = Unset) \in BOOLEAN
      BY DEF OpStages, TypeOK
    <3>2. \A c \in BOOLEAN :
            [op[p] EXCEPT !.stage = "table", !.st = stat, !.calm = c] \in Opening
      BY <1>1, <3>1 DEF Opening
    <3> QED
      BY <3>1, <3>2, Zenon
  <2>3. /\ o.stage = "table" /\ o.st = stat /\ o.calm = (lock = Unset)
        /\ o.next = op[p].next
    BY <1>1 DEF Opening
  <2> HIDE DEF o
  <2>4. /\ op' \in [Writers -> Opening] /\ op'[p] = o
        /\ \A q \in Writers \ {p} : op'[q] = op[q]
    BY <1>1, <2>1, <2>2, OneMoves
  <2>5. op[p].stage = "closed"
    BY <1>4 DEF OpenStat
  <2>6. CalmOK(p)'
    BY <1>2, <2>3, <2>4 DEF CalmOK, Agree
  <2>7. PlaceOK(p)'
    BY <1>1, <2>3, <2>4, <2>5 DEF PlaceOK
  <2> QED
    BY <1>2, <1>3, <2>3, <2>4, <2>5, <2>6, <2>7, OpenAlone
<1>5. CASE ReadTable(p)
  <2>0. op[p].stage = "table" /\ UNCHANGED vars
    BY <1>5 DEF ReadTable
  <2>1. CASE op' = [op EXCEPT ![p].stage = "slot", ![p].table = slots]
    <3> DEFINE o == [op[p] EXCEPT !.stage = "slot", !.table = slots]
    <3>1. op' = [op EXCEPT ![p] = o]
      BY <2>1
    <3>2. o \in Opening
      BY <1>1, ObjectMoves, ObjectFields, SizesAssumption DEF OpStages, TypeOK
    <3>3. /\ o.stage = "slot" /\ o.st = op[p].st /\ o.calm = op[p].calm
          /\ o.next = op[p].next /\ o.table = slots
      BY <1>1 DEF Opening
    <3> HIDE DEF o
    <3>4. /\ op' \in [Writers -> Opening] /\ op'[p] = o
          /\ \A q \in Writers \ {p} : op'[q] = op[q]
      BY <1>1, <3>1, <3>2, OneMoves
    <3>5. \A t \in Slots : ~(t < o.next)
      BY <1>1, <2>0, <3>3, SizesAssumption DEF PlaceOK, Slots
    <3>6. CalmOK(p)'
      BY <1>1, <1>2, <2>0, <3>3, <3>4, <3>5 DEF CalmOK
    <3>7. PlaceOK(p)'
      BY <3>3, <3>4 DEF PlaceOK
    <3> QED
      BY <1>2, <1>3, <2>0, <3>3, <3>4, <3>6, <3>7, OpenAlone
  <2>2. CASE Enter(p, "clear")
    BY <2>0, <2>2, OpenEnters
  <2> QED
    BY <1>5, <2>1, <2>2 DEF ReadTable
<1>6. QED
  BY <1>4, <1>5

LEMMA OpenChecksSlot ==
  ASSUME TypeOK, OpenInv, NEW p \in Writers, CheckSlot(p)
  PROVE  OpenInv'
<1> DEFINE s == op[p].next
           active == op[p].table[s].active
           should == InActiveRegion(op[p].st, s)
<1>1. /\ op \in [Writers -> Opening] /\ CalmOK(p) /\ op[p] \in Opening
      /\ s \in 0 .. NSlots /\ op[p].table \in [Slots -> SlotType]
      /\ op[p].stage = "slot" /\ UNCHANGED vars
  BY DEF OpenInv, Opening, CheckSlot
<1>2. UNCHANGED <<stat, slots, buf, lock, stage, waiting, log>>
  BY <1>1 DEF vars, device, local
<1>3. Agree(stat', stat) /\ \A t \in Slots : Checked(t)' <=> Checked(t)
  BY <1>2, CheckedKept DEF Agree
<1>4. ASSUME op[p].calm
      PROVE  /\ lock = Unset /\ op[p].table = slots
             /\ Agree(op[p].st, stat)
             /\ \A t \in Slots : t < s => Checked(t)
             /\ should <=> InActiveRegion(stat, s)
  <2>1. /\ lock = Unset /\ op[p].table = slots
        /\ Agree(op[p].st, stat)
        /\ \A t \in Slots : t < s => Checked(t)
    BY <1>1, <1>4 DEF CalmOK
  <2> QED
    BY <2>1 DEF Agree, InActiveRegion
<1>5. CASE s < NSlots /\ ~active /\ ~should
           /\ op' = [op EXCEPT ![p].next = s + 1]
  <2> DEFINE o == [op[p] EXCEPT !.next = s + 1]
  <2>1. op' = [op EXCEPT ![p] = o]
    BY <1>5
  <2>2. s \in Slots /\ s + 1 \in 0 .. NSlots
    BY <1>1, <1>5, SizesAssumption DEF Slots
  <2>3. o \in Opening
    BY <1>1, <2>2 DEF Opening
  <2>4. /\ o.stage = "slot" /\ o.st = op[p].st /\ o.calm = op[p].calm
        /\ o.next = s + 1 /\ o.table = op[p].table
    BY <1>1 DEF Opening
  <2> HIDE DEF o
  <2>5. /\ op' \in [Writers -> Opening] /\ op'[p] = o
        /\ \A q \in Writers \ {p} : op'[q] = op[q]
    BY <1>1, <2>1, <2>3, OneMoves
  <2>6. op[p].calm => Checked(s)
    BY <1>4, <1>5 DEF Checked
  <2>7. \A t \in Slots : t < s + 1 => t < s \/ t = s
    BY <2>2 DEF Slots
  <2>8. CalmOK(p)'
    <3>1. op[p].calm => \A t \in Slots : t < s + 1 => Checked(t)'
      BY <1>3, <1>4, <2>6, <2>7
    <3> QED
      BY <1>2, <1>4, <2>4, <2>5, <3>1 DEF CalmOK
  <2>9. PlaceOK(p)'
    BY <2>4, <2>5 DEF PlaceOK
  <2> QED
    BY <1>1, <1>2, <1>3, <2>4, <2>5, <2>8, <2>9, OpenAlone
<1>6. CASE s < NSlots /\ active /\ should
           /\ op' = [op EXCEPT ![p].table[s] = slots[s], ![p].stage = "entry"]
  <2> DEFINE T == [op[p].table EXCEPT ![s] = slots[s]]
             o == [op[p] EXCEPT !.table = T, !.stage = "entry"]
  <2>1. op' = [op EXCEPT ![p] = o]
    BY <1>6
  <2>2. s \in Slots
    BY <1>1, <1>6, SizesAssumption DEF Slots
  <2>3. T \in [Slots -> SlotType]
    BY <1>1, <2>2 DEF TypeOK
  <2>4. op[p].table = slots => T = slots
    BY <2>2 DEF TypeOK
  <2> HIDE DEF T
  <2>5. o \in Opening
    BY <1>1, <2>3 DEF Opening, OpStages
  <2>6. /\ o.stage = "entry" /\ o.st = op[p].st /\ o.calm = op[p].calm
        /\ o.next = s /\ o.table = T
    BY <1>1 DEF Opening
  <2> HIDE DEF o
  <2>7. /\ op' \in [Writers -> Opening] /\ op'[p] = o
        /\ \A q \in Writers \ {p} : op'[q] = op[q]
    BY <1>1, <2>1, <2>5, OneMoves
  <2>8. CalmOK(p)'
    <3>1. ASSUME op[p].calm
          PROVE  slots[s].active /\ InActiveRegion(stat, s)
      BY <1>4, <1>6, <3>1
    <3> QED
      BY <1>2, <1>3, <1>4, <2>2, <2>4, <2>6, <2>7, <3>1 DEF CalmOK
  <2>9. PlaceOK(p)'
    BY <2>2, <2>6, <2>7 DEF PlaceOK
  <2> QED
    BY <1>1, <1>2, <1>3, <2>6, <2>7, <2>8, <2>9, OpenAlone
<1>7. CASE Enter(p, "seek") /\ s = NSlots
  BY <1>1, <1>7, OpenEnters
<1>8. CASE Enter(p, "clear")
  BY <1>1, <1>8, OpenEnters
<1>9. QED
  BY <1>5, <1>6, <1>7, <1>8 DEF CheckSlot

LEMMA OpenChecksEntry ==
  ASSUME TypeOK, OpenInv, NEW p \in Writers, CheckEntry(p)
  PROVE  OpenInv'
<1> DEFINE s == op[p].next
<1>1. /\ op \in [Writers -> Opening] /\ CalmOK(p) /\ op[p] \in Opening
      /\ s \in 0 .. NSlots
      /\ op[p].stage = "entry" /\ UNCHANGED vars
  BY DEF OpenInv, Opening, CheckEntry
<1>2. UNCHANGED <<stat, slots, buf, lock, stage, waiting, log>>
  BY <1>1 DEF vars, device, local
<1>3. Agree(stat', stat) /\ \A t \in Slots : Checked(t)' <=> Checked(t)
  BY <1>2, CheckedKept DEF Agree
<1>4. ASSUME op[p].calm
      PROVE  /\ lock = Unset /\ op[p].table = slots
             /\ Agree(op[p].st, stat)
             /\ \A t \in Slots : t < s => Checked(t)
             /\ slots[s].active /\ InActiveRegion(stat, s)
  BY <1>1, <1>4 DEF CalmOK
<1>5. CASE EntryReads(op[p].table[s])
           /\ op' = [op EXCEPT ![p].stage = "slot", ![p].next = s + 1]
  <2> DEFINE o == [op[p] EXCEPT !.stage = "slot", !.next = s + 1]
  <2>1. op' = [op EXCEPT ![p] = o]
    BY <1>5
  <2>2. s \in Slots /\ s + 1 \in 0 .. NSlots
    <3>1. s \in Slots
      BY <1>1 DEF OpenInv, PlaceOK
    <3> QED
      BY <3>1, SizesAssumption DEF Slots
  <2>3. o \in Opening
    BY <1>1, <2>2 DEF Opening, OpStages
  <2>4. /\ o.stage = "slot" /\ o.st = op[p].st /\ o.calm = op[p].calm
        /\ o.next = s + 1 /\ o.table = op[p].table
    BY <1>1 DEF Opening
  <2> HIDE DEF o
  <2>5. /\ op' \in [Writers -> Opening] /\ op'[p] = o
        /\ \A q \in Writers \ {p} : op'[q] = op[q]
    BY <1>1, <2>1, <2>3, OneMoves
  <2>6. op[p].calm => Checked(s)
    BY <1>4, <1>5 DEF Checked
  <2>7. \A t \in Slots : t < s + 1 => t < s \/ t = s
    BY <2>2 DEF Slots
  <2>8. CalmOK(p)'
    <3>1. op[p].calm => \A t \in Slots : t < s + 1 => Checked(t)'
      BY <1>3, <1>4, <2>6, <2>7
    <3> QED
      BY <1>2, <1>4, <2>4, <2>5, <3>1 DEF CalmOK
  <2>9. PlaceOK(p)'
    BY <2>4, <2>5 DEF PlaceOK
  <2> QED
    BY <1>1, <1>2, <1>3, <2>4, <2>5, <2>8, <2>9, OpenAlone
<1>6. CASE Enter(p, "clear")
  BY <1>1, <1>6, OpenEnters
<1>7. QED
  BY <1>5, <1>6 DEF CheckEntry

LEMMA OpenSeeks ==
  ASSUME TypeOK, OpenInv, NEW p \in Writers, SeekEndRdwr(p)
  PROVE  OpenInv'
<1> DEFINE id == op[p].st.youngestId
<1>1. /\ op \in [Writers -> Opening] /\ CalmOK(p) /\ op[p] \in Opening
      /\ id \in Ids \cup {Unset}
      /\ op[p].stage = "seek" /\ UNCHANGED vars
  BY StatFields DEF OpenInv, Opening, SeekEndRdwr
<1>2. UNCHANGED <<stat, slots, buf, lock, stage, waiting, log>>
  BY <1>1 DEF vars, device, local
<1>3. Agree(stat', stat) /\ \A t \in Slots : Checked(t)' <=> Checked(t)
  BY <1>2, CheckedKept DEF Agree
<1>4. ASSUME op[p].calm
      PROVE  lock = Unset /\ \A t \in Slots : Checked(t)
  BY <1>1, <1>4 DEF CalmOK
<1> HIDE DEF id
<1>5. ASSUME NEW n \in {"update", "open"},
             op' = [op EXCEPT ![p].lastId = id, ![p].stage = n]
      PROVE  OpenInv'
  <2> DEFINE o == [op[p] EXCEPT !.lastId = id, !.stage = n]
  <2>1. op' = [op EXCEPT ![p] = o]
    BY <1>5
  <2>2. o \in Opening
    <3>1. n \in OpStages
      BY DEF OpStages
    <3> QED
      BY <1>1, <3>1 DEF Opening
  <2>3. o.stage = n /\ o.calm = op[p].calm
    BY <1>1 DEF Opening
  <2> HIDE DEF o
  <2>4. /\ op' \in [Writers -> Opening] /\ op'[p] = o
        /\ \A q \in Writers \ {p} : op'[q] = op[q]
    BY <1>1, <2>1, <2>2, OneMoves
  <2>5. CalmOK(p)'
    BY <1>2, <1>3, <1>4, <2>3, <2>4 DEF CalmOK
  <2>6. PlaceOK(p)'
    BY <2>3, <2>4 DEF PlaceOK
  <2> QED
    BY <1>1, <1>2, <1>3, <2>3, <2>4, <2>5, <2>6, OpenAlone
<1>6. CASE ClosedAgain(p)
  <2>1. /\ op' \in [Writers -> Opening]
        /\ \A q \in Writers \ {p} : op'[q] = op[q]
        /\ op'[p].stage = "closed" /\ op'[p].next = 0 /\ op'[p].calm = FALSE
    BY <1>1, <1>6, ObjectCloses
  <2>2. CalmOK(p)' /\ PlaceOK(p)'
    BY <2>1 DEF CalmOK, PlaceOK
  <2> QED
    BY <1>1, <1>2, <1>3, <2>1, <2>2, OpenAlone
<1>7. QED
  BY <1>5, <1>6 DEF SeekEndRdwr, id

LEMMA OpenReports ==
  ASSUME TypeOK, OpenInv, NEW p \in Writers, ReportPosition(p)
  PROVE  OpenInv'
<1>1. /\ op \in [Writers -> Opening] /\ CalmOK(p)
      /\ op[p].stage = "update" /\ Enter(p, "open")
      /\ UNCHANGED <<slots, buf, lock, stage, waiting, log>>
  BY DEF OpenInv, ReportPosition, ReaderReports, local
<1>2. Agree(stat', stat)
  <2>1. stat' = [stat EXCEPT !.lastIdRead = op[p].lastId]
    BY DEF ReportPosition, ReaderReports
  <2> QED
    BY <2>1 DEF Agree, TypeOK, StatType
<1>3. \A t \in Slots : Checked(t)' <=> Checked(t)
  BY <1>1, <1>2, CheckedKept
<1>4. /\ op' \in [Writers -> Opening]
      /\ \A q \in Writers \ {p} : op'[q] = op[q]
      /\ op'[p].stage = "open" /\ op'[p].calm = op[p].calm
  BY <1>1, ObjectEnters DEF OpStages
<1>5. op[p].calm => lock = Unset /\ \A t \in Slots : Checked(t)
  BY <1>1 DEF CalmOK
<1>6. CalmOK(p)'
  BY <1>1, <1>3, <1>4, <1>5 DEF CalmOK
<1>7. PlaceOK(p)'
  BY <1>4 DEF PlaceOK
<1>8. QED
  BY <1>1, <1>2, <1>4, <1>6, <1>7, OpenAlone

LEMMA OpenCloses ==
  ASSUME TypeOK, OpenInv, NEW p \in Writers, Close(p)
  PROVE  OpenInv'
<1>1. /\ op \in [Writers -> Opening] /\ op[p].stage = "open"
      /\ lock # p /\ waiting[p] = NoJob
      /\ UNCHANGED <<stat, slots, buf, lock, stage, waiting, log>>
  BY DEF OpenInv, Close, vars, device, local
<1>2. Agree(stat', stat)
  BY <1>1 DEF Agree
<1>3. /\ op' \in [Writers -> Opening]
      /\ \A q \in Writers \ {p} : op'[q] = op[q]
      /\ op'[p].stage = "closed" /\ op'[p].next = 0 /\ op'[p].calm = FALSE
  BY <1>1, ObjectCloses DEF Close
<1>4. CalmOK(p)' /\ PlaceOK(p)'
  BY <1>3 DEF CalmOK, PlaceOK
<1>5. QED
  BY <1>1, <1>2, <1>3, <1>4, OpenAlone

(* Whoever takes the lock to write, or to re-initialise, ends the calm.      *)
LEMMA OpenUncalm ==
  ASSUME op \in [Writers -> Opening], NEW on \in BOOLEAN,
         op' = [q \in Writers |-> Calm(q, on)]
  PROVE  /\ op' \in [Writers -> Opening]
         /\ \A q \in Writers : /\ op'[q].stage = op[q].stage
                               /\ op'[q].next = op[q].next
                               /\ ~on => op'[q].calm = FALSE
<1>1. ASSUME NEW q \in Writers
      PROVE  /\ Calm(q, on) \in Opening
             /\ Calm(q, on).stage = op[q].stage
             /\ Calm(q, on).next = op[q].next
             /\ ~on => Calm(q, on).calm = FALSE
  <2>1. PICK c \in BOOLEAN : /\ Calm(q, on) = [op[q] EXCEPT !.calm = c]
                             /\ ~on => c = FALSE
    <3>1. op[q] \in Opening
      OBVIOUS
    <3>2. op[q].calm \in BOOLEAN
      BY <3>1, ObjectFields
    <3>3. (op[q].calm /\ on) \in BOOLEAN /\ (~on => (op[q].calm /\ on) = FALSE)
      BY <3>2
    <3> QED
      BY <3>3, Zenon DEF Calm
  <2> QED
    BY <2>1 DEF Opening
<1>2. QED
  BY <1>1

LEMMA OpenLocks ==
  ASSUME OpenInv, NEW p \in Writers,
         \/ \E len \in Lens : OpenWrite(p, len)
         \/ IInv /\ OpenWakeUp(p)
  PROVE  OpenInv'
<1>1. op \in [Writers -> Opening] /\ HolderOK /\ \A q \in Writers : PlaceOK(q)
  BY DEF OpenInv
<1>2. /\ op' = [q \in Writers |-> Calm(q, FALSE)] /\ lock = Unset /\ lock' = p
      /\ stage' \in {"block", "ring"}
  BY DEF OpenWrite, OpenWakeUp, BeginWrite, WakeUp
<1>3. /\ op' \in [Writers -> Opening]
      /\ \A q \in Writers : /\ op'[q].stage = op[q].stage
                            /\ op'[q].next = op[q].next
                            /\ op'[q].calm = FALSE
  BY <1>1, <1>2, OpenUncalm
<1>4. \A q \in Writers : CalmOK(q)' /\ PlaceOK(q)'
  BY <1>1, <1>3 DEF CalmOK, PlaceOK
<1>5. op[p].stage = "open"
  BY <1>1 DEF OpenWrite, OpenWakeUp, WakeUp, HolderOK
<1>6. \A q \in Writers : waiting'[q] # NoJob => waiting[q] # NoJob
  <2>1. CASE \E len \in Lens : OpenWrite(p, len)
    BY <2>1 DEF OpenWrite, BeginWrite
  <2>2. CASE IInv /\ OpenWakeUp(p)
    BY <2>2 DEF OpenWakeUp, WakeUp, IInv, TypeInv, TypeOK
  <2> QED
    BY <2>1, <2>2
<1>7. \A q \in Writers : op[q].stage # "clearing"
  BY <1>1, <1>2, WritersAssumption DEF HolderOK
<1>8. HolderOK'
  <2>1. lock' # Unset /\ stage' # "idle"
    BY <1>2, WritersAssumption
  <2> QED
    BY <1>1, <1>2, <1>3, <1>5, <1>6, <1>7, <2>1 DEF HolderOK
<1>9. QED
  BY <1>3, <1>4, <1>8 DEF OpenInv

LEMMA OpenStartsClear ==
  ASSUME OpenInv, NEW p \in Writers, StartClear(p)
  PROVE  OpenInv'
<1>1. /\ op \in [Writers -> Opening] /\ HolderOK
      /\ \A q \in Writers : PlaceOK(q) /\ CalmOK(q)
  BY DEF OpenInv
<1>2. /\ lock = Unset /\ lock' = p /\ stage' = "clearBuf"
      /\ op[p].stage = "clear" /\ waiting' = waiting
  BY DEF StartClear
<1>3. ASSUME NEW q \in Writers
      PROVE  /\ op'[q] \in Opening
             /\ op'[q].next = op[q].next
             /\ q = p => op'[q].stage = "clearing"
             /\ q # p => op'[q].calm = FALSE /\ op'[q].stage = op[q].stage
  <2>1. op[q] \in Opening
    BY <1>1
  <2>2. CASE q = p
    <3>1. op'[q] = [op[q] EXCEPT !.stage = "clearing"]
      BY <2>2 DEF StartClear
    <3> QED
      BY <2>1, <2>2, <3>1 DEF Opening, OpStages
  <2>3. CASE q # p
    <3>1. op'[q] = [op[q] EXCEPT !.calm = op[q].calm /\ FALSE]
      BY <2>3 DEF StartClear, Calm
    <3>2. (op[q].calm /\ FALSE) = FALSE
      OBVIOUS
    <3>3. op'[q] = [op[q] EXCEPT !.calm = FALSE]
      BY <3>1, <3>2, Zenon
    <3> QED
      BY <2>1, <2>3, <3>3 DEF Opening
  <2> QED
    BY <2>2, <2>3
<1>4. op' \in [Writers -> Opening]
  <2>1. DOMAIN op' = Writers /\ op' = [q \in DOMAIN op' |-> op'[q]]
    BY DEF StartClear
  <2> QED
    BY <1>3, <2>1
<1>5. \A q \in Writers : CalmOK(q)' /\ PlaceOK(q)'
  BY <1>1, <1>2, <1>3 DEF CalmOK, PlaceOK
<1>6. \A q \in Writers : op[q].stage # "clearing"
  BY <1>1, <1>2, WritersAssumption DEF HolderOK
<1>7. HolderOK'
  <2>1. lock' # Unset /\ stage' # "idle" /\ Reinitialising'
    BY <1>2, WritersAssumption DEF Reinitialising
  <2> QED
    BY <1>1, <1>2, <1>3, <1>6, <2>1 DEF HolderOK
<1>8. QED
  BY <1>4, <1>5, <1>7 DEF OpenInv

(* While somebody holds the lock, calm is only who re-initialises.           *)
LEMMA CalmWhileLocked ==
  ASSUME OpenInv, lock # Unset, NEW q \in Writers, op[q].calm
  PROVE  q = lock /\ op[q].stage = "clearing"
BY DEF OpenInv, CalmOK, HolderOK

LEMMA OpenHolder ==
  ASSUME TypeOK, OpenInv, HolderGoesOn
  PROVE  OpenInv'
<1>1. /\ op \in [Writers -> Opening] /\ HolderOK /\ HolderStep /\ op' = op
      /\ \A q \in Writers : PlaceOK(q) /\ ~Clearing(q)
  BY DEF OpenInv, HolderGoesOn
<1>2. stage # "idle" /\ lock # Unset /\ lock \in Writers
  <2>1. stage # "idle"
    BY <1>1
       DEF HolderStep, WaitForReader, StopWaiting, RingHasRoom, TooLarge,
           Packed, SwitchToInsert, FreeOldestSlot, OffsetMismatch, MustFree,
           ChooseOffset, WriteWord, WriteSlot, WriteStat, ClearBuf, ClearSlot,
           ClearStat
  <2> QED
    BY <1>1, <2>1 DEF HolderOK, TypeOK
<1>3. PICK h \in Writers : h = lock
  BY <1>2
<1>4. \/ lock' = h /\ stage' # "idle"
      \/ lock' = Unset /\ stage' = "idle"
  <2>1. CASE WaitForReader \/ TooLarge \/ WriteStat \/ ClearStat
    BY <2>1 DEF WaitForReader, TooLarge, WriteStat, ClearStat, Release
  <2>2. CASE StopWaiting \/ RingHasRoom \/ Packed \/ SwitchToInsert
    BY <1>2, <1>3, <2>2 DEF StopWaiting, RingHasRoom, Packed, SwitchToInsert
  <2>3. CASE FreeOldestSlot \/ OffsetMismatch \/ ChooseOffset
    BY <1>3, <2>3 DEF FreeOldestSlot, OffsetMismatch, ChooseOffset
  <2>4. CASE WriteWord \/ WriteSlot
    BY <1>3, <2>4 DEF WriteWord, WriteSlot
  <2>5. CASE ClearBuf \/ ClearSlot
    BY <1>3, <2>5 DEF ClearBuf, ClearSlot
  <2> QED
    BY <1>1, <2>1, <2>2, <2>3, <2>4, <2>5 DEF HolderStep
<1>5. ASSUME op[h].stage = "clearing"
      PROVE  lock' = h /\ Reinitialising' /\ waiting' = waiting
  <2>1. stage \in {"clearBuf", "clearSlots", "clearStat"}
    BY <1>1, <1>2, <1>3, <1>5 DEF HolderOK, Reinitialising
  <2>2. stage # "clearStat"
    BY <1>1, <1>3, <1>5 DEF Clearing
  <2>3. ClearBuf \/ ClearSlot
    BY <1>1, <2>1, <2>2
       DEF HolderStep, WaitForReader, StopWaiting, RingHasRoom, TooLarge,
           Packed, SwitchToInsert, FreeOldestSlot, OffsetMismatch, MustFree,
           ChooseOffset, WriteWord, WriteSlot, WriteStat, ClearStat
  <2> QED
    BY <1>3, <2>3 DEF ClearBuf, ClearSlot, Reinitialising
<1>6. \A q \in Writers : waiting'[q] # NoJob => waiting[q] # NoJob \/ q = h
  <2>1. waiting' = waiting \/ WaitForReader
    BY <1>1
       DEF HolderStep, StopWaiting, RingHasRoom, TooLarge,
           Packed, SwitchToInsert, FreeOldestSlot, OffsetMismatch,
           ChooseOffset, WriteWord, WriteSlot, WriteStat, ClearBuf, ClearSlot,
           ClearStat
  <2> QED
    BY <1>3, <2>1 DEF WaitForReader, TypeOK
<1>7. op[h].stage \in {"clearing", "open"}
  BY <1>1, <1>2, <1>3 DEF HolderOK
<1>8. HolderOK'
  <2>1. h # Unset
    BY WritersAssumption
  <2>2. \A q \in Writers : op'[q].stage = "clearing" => lock' = q
    BY <1>1, <1>3, <1>5 DEF HolderOK
  <2>3. \A q \in Writers : waiting'[q] # NoJob => op'[q].stage = "open"
    BY <1>1, <1>5, <1>6, <1>7 DEF HolderOK
  <2>4. lock' # Unset => IF op'[lock'].stage = "clearing" THEN Reinitialising'
                         ELSE op'[lock'].stage = "open"
    BY <1>1, <1>4, <1>5, <1>7
  <2> QED
    BY <1>4, <2>1, <2>2, <2>3, <2>4 DEF HolderOK
<1>9. ASSUME NEW q \in Writers PROVE CalmOK(q)'
  <2>1. CASE op[q].calm
    <3>1. q = h /\ op[q].stage = "clearing"
      BY <1>2, <1>3, <2>1, CalmWhileLocked
    <3> QED
      BY <1>1, <3>1 DEF CalmOK
  <2>2. CASE ~op[q].calm
    BY <1>1, <2>2 DEF CalmOK
  <2> QED
    BY <2>1, <2>2
<1>10. QED
  BY <1>1, <1>8, <1>9 DEF OpenInv, PlaceOK

LEMMA OpenFinishesClear ==
  ASSUME IInv, OpenInv, NEW p \in Writers, FinishClear(p)
  PROVE  OpenInv'
<1> DEFINE o == [op[p] EXCEPT !.stage = "open", !.st = InitStat,
                              !.lastId = Unset]
<1>1. /\ op \in [Writers -> Opening] /\ op[p] \in Opening
      /\ HolderOK /\ lock = p /\ stage = "clearStat" /\ op[p].stage = "clearing"
      /\ \A q \in Writers : PlaceOK(q)
  BY DEF OpenInv, FinishClear, Clearing
<1>2. /\ stat' = InitStat /\ lock' = Unset /\ stage' = "idle"
      /\ UNCHANGED <<slots, buf, waiting, log>>
  BY DEF FinishClear, ClearStat, Release
<1>3. op' = [op EXCEPT ![p] = o]
  BY DEF FinishClear
<1>4. o \in Opening /\ o.stage = "open"
  BY <1>1, InitTypes DEF Opening, OpStages
<1> HIDE DEF o
<1>5. /\ op' \in [Writers -> Opening] /\ op'[p].stage = "open"
      /\ \A q \in Writers \ {p} : op'[q] = op[q]
  BY <1>1, <1>3, <1>4, OneMoves
<1>6. \A q \in Writers \ {p} : ~op[q].calm
  BY <1>1, CalmWhileLocked, WritersAssumption
<1>7. \A t \in Slots : Checked(t)'
  <2>1. \A t \in Slots : ~slots'[t].active
    BY <1>1, <1>2 DEF IInv, ClearOK
  <2>2. \A t \in Slots : ~InActiveRegion(stat', t)
    BY <1>2 DEF InActiveRegion, InitStat, Unset
  <2> QED
    BY <2>1, <2>2 DEF Checked
<1>8. \A q \in Writers : CalmOK(q)' /\ PlaceOK(q)'
  BY <1>1, <1>2, <1>5, <1>6, <1>7 DEF CalmOK, PlaceOK
<1>9. HolderOK'
  BY <1>1, <1>2, <1>5, WritersAssumption DEF HolderOK
<1>10. QED
  BY <1>5, <1>8, <1>9 DEF OpenInv

LEMMA OpenDies ==
  ASSUME BlockingWrite = FALSE \/ OneWriter, IInv, OpenInv,
         NEW p \in Writers, Die(p)
  PROVE  OpenInv'
<1>1. /\ op \in [Writers -> Opening] /\ HolderOK
      /\ op' = [op EXCEPT ![p] = ClosedOp]
      /\ \A q \in Writers : PlaceOK(q) /\ CalmOK(q)
  BY DEF OpenInv, Die
<1>2. /\ op' \in [Writers -> Opening]
      /\ \A q \in Writers \ {p} : op'[q] = op[q]
      /\ op'[p].stage = "closed" /\ op'[p].next = 0 /\ op'[p].calm = FALSE
  BY <1>1, ObjectCloses
<1>3. CalmOK(p)' /\ PlaceOK(p)'
  BY <1>2 DEF CalmOK, PlaceOK
<1>4. CASE lock = p /\ Abandon
  <2>1. lock' = Unset /\ stage' = "idle" /\ waiting' = waiting /\ lock # Unset
    BY <1>4 DEF Abandon, Release
  <2>2. \A q \in Writers \ {p} : ~op[q].calm
    BY <1>4, <2>1, CalmWhileLocked
  <2>3. \A q \in Writers \ {p} : CalmOK(q)' /\ PlaceOK(q)'
    BY <1>1, <1>2, <2>2 DEF CalmOK, PlaceOK
  <2>4. \A q \in Writers : waiting[q] = NoJob
    BY <1>1, <2>1 DEF IInv, WaitOK, HolderOK
  <2>5. HolderOK'
    BY <1>1, <1>2, <1>4, <2>1, <2>4 DEF HolderOK
  <2> QED
    BY <1>2, <1>3, <2>3, <2>5 DEF OpenInv
<1>5. CASE /\ lock # p /\ waiting' = [waiting EXCEPT ![p] = NoJob]
           /\ UNCHANGED <<device, local, log>>
  <2>1. UNCHANGED <<stat, slots, buf, lock, stage, log>>
    BY <1>5 DEF device, local
  <2>2. Agree(stat', stat)
    BY <2>1 DEF Agree
  <2>3. \A q \in Writers \ {p} : CalmOK(q)' /\ PlaceOK(q)'
    BY <1>1, <1>2, <2>1, <2>2, CalmKept DEF PlaceOK
  <2>4. /\ waiting'[p] = NoJob
        /\ \A q \in Writers \ {p} : waiting'[q] = waiting[q]
    BY <1>5 DEF IInv, TypeInv, TypeOK
  <2>5. lock # Unset => lock \in Writers \ {p}
    BY <1>5 DEF IInv, TypeInv, TypeOK
  <2>6. HolderOK'
    BY <1>1, <1>2, <1>5, <2>1, <2>4, <2>5 DEF HolderOK, Reinitialising
  <2> QED
    BY <1>2, <1>3, <2>3, <2>6 DEF OpenInv
<1>6. QED
  BY <1>4, <1>5 DEF Die

LEMMA OpenUnchanged ==
  ASSUME OpenInv, UNCHANGED ovars
  PROVE  OpenInv'
<1>1. UNCHANGED <<stat, slots, buf, lock, stage, waiting, log, op>>
  BY DEF ovars, vars, device, local
<1>2. \A q \in Writers : CalmOK(q)' /\ PlaceOK(q)'
  <2>1. Agree(stat', stat)
    BY <1>1 DEF Agree
  <2> QED
    BY <1>1, <2>1, CalmKept DEF OpenInv, PlaceOK
<1>3. HolderOK'
  BY <1>1 DEF OpenInv, HolderOK, Reinitialising
<1>4. QED
  BY <1>1, <1>2, <1>3 DEF OpenInv

LEMMA OpenInvStep ==
  ASSUME BlockingWrite = FALSE \/ OneWriter, IInv, OpenInv, [OpenNext]_ovars
  PROVE  OpenInv'
<1>1. TypeOK
  BY DEF IInv, TypeInv
<1>2. ASSUME NEW p \in Writers, OpenStep(p) PROVE OpenInv'
  <2>1. CASE OpenStat(p) \/ ReadTable(p)
    BY <1>1, <2>1, OpenBegins
  <2>2. CASE CheckSlot(p) \/ CheckEntry(p)
    BY <1>1, <2>2, OpenChecksSlot, OpenChecksEntry
  <2>3. CASE SeekEndRdwr(p) \/ ReportPosition(p)
    BY <1>1, <2>3, OpenSeeks, OpenReports
  <2>4. CASE StartClear(p) \/ FinishClear(p)
    BY <2>4, OpenStartsClear, OpenFinishesClear
  <2> QED
    BY <1>2, <2>1, <2>2, <2>3, <2>4 DEF OpenStep
<1>3. ASSUME NEW p \in Writers, Die(p) PROVE OpenInv'
  BY <1>3, OpenDies
<1>4. ASSUME NEW p \in Writers, Close(p) PROVE OpenInv'
  BY <1>1, <1>4, OpenCloses
<1>5. ASSUME NEW p \in Writers, NEW len \in Lens, OpenWrite(p, len)
      PROVE  OpenInv'
  BY <1>5, OpenLocks
<1>6. ASSUME NEW p \in Writers, OpenWakeUp(p) PROVE OpenInv'
  BY <1>6, OpenLocks
<1>7. CASE HolderGoesOn
  BY <1>1, <1>7, OpenHolder
<1>8. CASE UNCHANGED ovars
  BY <1>8, OpenUnchanged
<1>9. QED
  BY <1>2, <1>3, <1>4, <1>5, <1>6, <1>7, <1>8 DEF OpenNext

(* Crash recovery, for writers that do not block and for a lone writer that  *)
(* does: whoever has opened the queue while nobody wrote finds its slots the *)
(* published ones and every message in them whole, wherever the writers      *)
(* before it died.                                                           *)
THEOREM OpenedIsSound ==
  BlockingWrite = FALSE \/ OneWriter => (OpenSpec => []RepairedOnOpen)
<1> SUFFICES ASSUME BlockingWrite = FALSE \/ OneWriter
             PROVE  OpenSpec => []RepairedOnOpen
  OBVIOUS
<1>1. OpenInit => IInv /\ OpenInv
  BY InvInit, OpenInitOK DEF OpenInit
<1>2. IInv /\ OpenInv /\ [OpenNext]_ovars => IInv' /\ OpenInv'
  BY InvOpenStep, OpenInvStep
<1>3. IInv /\ OpenInv => RepairedOnOpen
  BY KnownSound
<1>4. QED
  BY <1>1, <1>2, <1>3, PTL DEF OpenSpec

-----------------------------------------------------------------------------
(* Why opening leaves a sound queue alone.                                   *)

LEMMA YoungestKept ==
  ASSUME YoungestOK, stat'.youngestSlot = stat.youngestSlot,
         stat'.youngestId = stat.youngestId, stat'.oldestSlot = stat.oldestSlot,
         \A t \in Slots : \/ slots'[t] = slots[t]
                          \/ ~slots'[t].active
                          \/ t # stat.youngestSlot,
         stat \in StatType
  PROVE  YoungestOK'
<1>1. stat.youngestSlot # Unset => stat.youngestSlot \in Slots
  BY StatFields
<1>2. QED
  BY <1>1 DEF YoungestOK

(* The write slot is not the youngest one. *)
LEMMA NotTheYoungest ==
  ASSUME stat \in StatType, NSlots > 1, stat.youngestSlot # Unset
  PROVE  WriteSlotOf(stat) # stat.youngestSlot
<1>1. stat.youngestSlot \in Slots
  BY StatFields
<1>2. QED
  BY <1>1, SizesAssumption, SMT DEF WriteSlotOf, NextSlot, Slots

LEMMA YoungestStep ==
  ASSUME IInv, YoungestOK, NSlots > 1, [Next]_vars
  PROVE  YoungestOK'
<1>1. TypeOK /\ stat \in StatType /\ slots \in [Slots -> SlotType]
  BY DEF IInv, TypeInv, TypeOK
<1>2. CASE UNCHANGED <<stat, slots>>
  BY <1>1, <1>2, YoungestKept
<1>3. CASE FreeOldestSlot
  <2>1. stat' = stat /\ slots' = [slots EXCEPT ![st.oldestSlot] = EmptySlot]
    BY <1>3 DEF FreeOldestSlot
  <2>2. \A t \in Slots : slots'[t] = slots[t] \/ ~slots'[t].active
    BY <1>1, <2>1 DEF EmptySlot
  <2> QED
    BY <1>1, <2>1, <2>2, YoungestKept
<1>4. CASE WriteSlot
  <2>1. /\ stat' = stat /\ job.slot = WriteSlotOf(stat)
        /\ \A t \in Slots : t # job.slot => slots'[t] = slots[t]
    BY <1>1, <1>4 DEF WriteSlot, IInv, JobOK, Writing
  <2>2. \A t \in Slots : slots'[t] = slots[t] \/ t # stat.youngestSlot
    <3>1. CASE stat.youngestSlot = Unset
      BY <3>1, IndexRange DEF Unset
    <3>2. CASE stat.youngestSlot # Unset
      BY <1>1, <2>1, <3>2, NotTheYoungest
    <3> QED
      BY <3>1, <3>2
  <2> QED
    BY <1>1, <2>1, <2>2, YoungestKept
<1>5. CASE WriteStat
  <2>1. /\ stat' = Published(st) /\ slots' = slots /\ stage = "stat"
        /\ job \in Job /\ st \in StatType /\ slots[job.slot].id = job.id
    BY <1>5 DEF WriteStat, IInv, TypeInv, TypeOK, Writing, EntryOK
  <2>2. /\ stat'.youngestSlot = job.slot /\ stat'.youngestId = job.id
        /\ stat'.oldestSlot = IF st.oldestSlot = Unset THEN job.slot
                                                       ELSE st.oldestSlot
    BY <2>1 DEF Published, StatType
  <2>3. job.slot # Unset
    BY <2>1, IndexRange DEF Job, Unset
  <2> QED
    BY <2>1, <2>2, <2>3 DEF YoungestOK
<1>6. CASE ClearSlot
  <2>1. stat' = stat /\ slots' = [slots EXCEPT ![done] = EmptySlot]
    BY <1>6 DEF ClearSlot
  <2>2. \A t \in Slots : slots'[t] = slots[t] \/ ~slots'[t].active
    BY <1>1, <2>1 DEF EmptySlot
  <2> QED
    BY <1>1, <2>1, <2>2, YoungestKept
<1>7. CASE ClearStat
  <2>1. stat' = InitStat
    BY <1>7 DEF ClearStat
  <2> QED
    BY <2>1 DEF YoungestOK, InitStat
<1>8. ASSUME NEW id, ReaderReports(id) PROVE YoungestOK'
  <2>1. stat' = [stat EXCEPT !.lastIdRead = id] /\ slots' = slots
    BY <1>8 DEF ReaderReports
  <2>2. /\ stat'.youngestSlot = stat.youngestSlot
        /\ stat'.youngestId = stat.youngestId
        /\ stat'.oldestSlot = stat.oldestSlot
    BY <1>1, <2>1 DEF StatType
  <2> QED
    BY <1>1, <2>1, <2>2, YoungestKept
<1>9. CASE HolderStep
  <2>1. \/ UNCHANGED <<stat, slots>> \/ FreeOldestSlot \/ WriteSlot
        \/ WriteStat \/ ClearSlot \/ ClearStat
    BY <1>9
       DEF HolderStep, WaitForReader, StopWaiting, RingHasRoom, TooLarge,
           Packed, SwitchToInsert, OffsetMismatch, ChooseOffset, WriteWord,
           ClearBuf, device
  <2> QED
    BY <1>2, <1>3, <1>4, <1>5, <1>6, <1>7, <2>1
<1>10. QED
  BY <1>2, <1>8, <1>9
     DEF Next, WriterNext, BeginWrite, WakeUp, Abandon, vars, device

LEMMA YoungestOpenStep ==
  ASSUME IInv, YoungestOK, NSlots > 1, [OpenNext]_ovars
  PROVE  YoungestOK'
<1>0. stat \in StatType
  BY DEF IInv, TypeInv, TypeOK
<1>1. CASE [Next]_vars
  BY <1>1, YoungestStep
<1>2. CASE UNCHANGED <<stat, slots>>
  BY <1>0, <1>2, YoungestKept
<1>3. ASSUME NEW p \in Writers, OpenStep(p) PROVE YoungestOK'
  <2>1. CASE ReportPosition(p)
    <3>1. /\ stat' = [stat EXCEPT !.lastIdRead = op[p].lastId]
          /\ slots' = slots
      BY <2>1 DEF ReportPosition, ReaderReports
    <3>2. /\ stat'.youngestSlot = stat.youngestSlot
          /\ stat'.youngestId = stat.youngestId
          /\ stat'.oldestSlot = stat.oldestSlot
      BY <1>0, <3>1 DEF StatType
    <3> QED
      BY <1>0, <3>1, <3>2, YoungestKept
  <2>2. CASE FinishClear(p)
    BY <1>1, <2>2 DEF FinishClear, Next, WriterNext, HolderStep
  <2>3. CASE ~ReportPosition(p) /\ ~FinishClear(p)
    BY <1>2, <1>3, <2>3
       DEF OpenStep, OpenStat, ReadTable, CheckSlot, CheckEntry, SeekEndRdwr,
           StartClear, vars, device
  <2> QED
    BY <2>1, <2>2, <2>3
<1>4. ASSUME NEW p \in Writers, Die(p) \/ Close(p) PROVE YoungestOK'
  BY <1>2, <1>4 DEF Die, Close, Abandon, vars, device
<1>5. ASSUME NEW p \in Writers, NEW len \in Lens, OpenWrite(p, len)
      PROVE  YoungestOK'
  BY <1>1, <1>5 DEF OpenWrite, Next, WriterNext
<1>6. ASSUME NEW p \in Writers, OpenWakeUp(p) PROVE YoungestOK'
  BY <1>1, <1>6 DEF OpenWakeUp, Next, WriterNext
<1>7. CASE HolderGoesOn
  BY <1>1, <1>7 DEF HolderGoesOn, Next, WriterNext
<1>8. CASE UNCHANGED ovars
  BY <1>1, <1>8 DEF ovars
<1>9. QED
  BY <1>3, <1>4, <1>5, <1>6, <1>7, <1>8 DEF OpenNext

(* A sound slot passes the check of its entry. *)
LEMMA IntactReads ==
  ASSUME TypeOK, NEW t \in Slots, Intact(t)
  PROVE  EntryReads(slots[t])
<1>1. PICK k \in 1 .. Len(log) :
        /\ log[k].slot = t /\ log[k].id = slots[t].id
        /\ log[k].len = slots[t].len
        /\ \A w \in 1 .. log[k].len :
             LET c == buf[slots[t].offset + w - 1]
             IN  c = [ser |-> k, word |-> w] \/ (w = 1 /\ c = BareCookie)
  BY DEF Intact
<1> DEFINE at0 == slots[t].offset
           len == slots[t].len
<1>2. log[k] \in Entry
  <2>1. log \in Seq(Entry) /\ k \in 1 .. Len(log)
    BY <1>1 DEF TypeOK
  <2> QED
    BY ONLY <2>1
<1>3. log[k].len \in Lens
  BY <1>2 DEF Entry
<1>4. len \in Nat /\ len >= 2 /\ at0 \in Nat
  <2>1. \A n \in Lens : n \in Nat /\ n >= 2
    BY ONLY WritersAssumption, SMT
  <2> QED
    BY <1>1, <1>3, <2>1, SlotFacts
<1>5. \A w \in 1 .. len : \/ buf[at0 + w - 1] = [ser |-> k, word |-> w]
                          \/ w = 1 /\ buf[at0 + w - 1] = BareCookie
  BY <1>1
<1>6. k \in Nat /\ k # 0
  BY <1>1 DEF TypeOK
<1> HIDE DEF at0, len
<1>7. buf[at0].word = 1
  <2>1. 1 \in 1 .. len /\ at0 + 1 - 1 = at0
    BY <1>4
  <2>2. buf[at0 + 1 - 1] \in {[ser |-> k, word |-> 1], BareCookie}
    BY <1>5, <2>1
  <2>3. buf[at0] \in {[ser |-> k, word |-> 1], BareCookie}
    BY <2>1, <2>2, Zenon
  <2> QED
    BY <2>3 DEF BareCookie
<1>8. buf[at0 + len - 1] = [ser |-> k, word |-> len]
  <2>1. len \in 1 .. len /\ len # 1
    BY <1>4
  <2> QED
    BY <1>5, <2>1
<1>9. /\ buf[at0 + len - 1].ser = k /\ buf[at0 + len - 1].word = len /\ len > 0
  BY <1>4, <1>8
<1>10. QED
  BY <1>1, <1>6, <1>7, <1>9 DEF EntryReads, at0, len

LEMMA ObjectStaysNew ==
  ASSUME OpenInv, ReuseObject = FALSE, \A p \in Writers : NewObject(p),
         [OpenNext]_ovars, NEW q \in Writers
  PROVE  NewObject(q)'
<1>1. op \in [Writers -> Opening] /\ op[q] \in Opening /\ NewObject(q)
  BY DEF OpenInv
<1>2. CASE op'[q] = op[q]
  BY <1>1, <1>2 DEF NewObject
<1>3. CASE /\ op'[q].lastId = op[q].lastId
           /\ op'[q].stage \notin {"closed", "table", "slot", "entry"}
             \/ op[q].stage \in {"closed", "table", "slot", "entry"}
  BY <1>1, <1>3 DEF NewObject
<1>4. CASE op'[q].lastId = Unset \/ op'[q].stage \in {"update", "open"}
  BY <1>4 DEF NewObject
<1>5. ASSUME op' = [r \in Writers |-> Calm(r, FALSE)] PROVE NewObject(q)'
  <2>1. op'[q].lastId = op[q].lastId /\ op'[q].stage = op[q].stage
    BY <1>1, <1>5 DEF Calm, Opening
  <2> QED
    BY <1>1, <2>1 DEF NewObject
<1>6. ASSUME NEW p \in Writers, NEW s, s \notin {"closed", "table", "slot", "entry"},
             Enter(p, s)
      PROVE  NewObject(q)'
  <2>1. q = p => op'[q].stage = s
    BY <1>1, <1>6 DEF Enter, Opening
  <2>2. q # p => op'[q] = op[q]
    BY <1>1, <1>6 DEF Enter
  <2> QED
    BY <1>2, <1>6, <2>1, <2>2 DEF NewObject
<1>7. ASSUME NEW p \in Writers,
             ClosedAgain(p) \/ op' = [op EXCEPT ![p] = ClosedOp]
      PROVE  NewObject(q)'
  <2>1. q # p => op'[q] = op[q]
    BY <1>1, <1>7 DEF ClosedAgain
  <2>2. q = p => op'[q].lastId = Unset
    BY <1>1, <1>7 DEF ClosedAgain, ClosedOp
  <2> QED
    BY <1>2, <1>4, <2>1, <2>2
<1>8. ASSUME NEW p \in Writers, OpenStep(p) PROVE NewObject(q)'
  <2>1. CASE OpenStat(p) \/ ReadTable(p)
    <3>1. CASE Enter(p, "clear")
      BY <1>6, <3>1
    <3>2. CASE ~Enter(p, "clear")
      <4>1. op'[q].lastId = op[q].lastId
        <5>1. CASE q # p
          BY <1>1, <2>1, <3>2, <5>1 DEF OpenStat, ReadTable
        <5>2. CASE q = p /\ OpenStat(p)
          BY <1>1, <5>2 DEF OpenStat, Opening
        <5>3. CASE q = p /\ ReadTable(p)
          BY <1>1, <3>2, <5>3 DEF ReadTable, Opening
        <5> QED
          BY <2>1, <5>1, <5>2, <5>3
      <4>2. op[q].stage \in {"closed", "table"} \/ op'[q] = op[q]
        BY <1>1, <2>1, <3>2 DEF OpenStat, ReadTable
      <4> QED
        BY <1>2, <1>3, <4>1, <4>2
    <3> QED
      BY <3>1, <3>2
  <2>2. CASE CheckSlot(p) \/ CheckEntry(p)
    <3>1. CASE Enter(p, "clear") \/ Enter(p, "seek")
      BY <1>6, <3>1
    <3>2. CASE ~Enter(p, "clear") /\ ~Enter(p, "seek")
      <4>1. op'[q].lastId = op[q].lastId
        BY <1>1, <2>2, <3>2 DEF CheckSlot, CheckEntry, Opening
      <4>2. op[q].stage \in {"slot", "entry"} \/ op'[q] = op[q]
        BY <1>1, <2>2, <3>2 DEF CheckSlot, CheckEntry
      <4> QED
        BY <1>2, <1>3, <4>1, <4>2
    <3> QED
      BY <3>1, <3>2
  <2>3. CASE SeekEndRdwr(p)
    <3>1. CASE ClosedAgain(p)
      BY <1>7, <3>1
    <3>2. CASE ~ClosedAgain(p)
      <4>1. op'[q] = op[q] \/ op'[q].stage \in {"update", "open"}
        BY <1>1, <2>3, <3>2 DEF SeekEndRdwr, Opening
      <4> QED
        BY <1>2, <1>4, <4>1
    <3> QED
      BY <3>1, <3>2
  <2>4. CASE ReportPosition(p)
    BY <1>6, <2>4 DEF ReportPosition
  <2>5. CASE StartClear(p)
    <3>1. /\ q = p => op'[q].stage = "clearing"
          /\ q # p => op'[q].lastId = op[q].lastId /\ op'[q].stage = op[q].stage
      BY <1>1, <2>5 DEF StartClear, Calm, Opening
    <3> QED
      BY <1>1, <3>1 DEF NewObject
  <2>6. CASE FinishClear(p)
    <3>1. op'[q] = op[q] \/ op'[q].stage = "open"
      BY <1>1, <2>6 DEF FinishClear, Opening
    <3> QED
      BY <1>2, <1>4, <3>1
  <2> QED
    BY <1>8, <2>1, <2>2, <2>3, <2>4, <2>5, <2>6 DEF OpenStep
<1>9. QED
  BY <1>2, <1>5, <1>7, <1>8
     DEF OpenNext, OpenWrite, OpenWakeUp, HolderGoesOn, Die, Close, ovars

(* Only a check that fails sends a process to clear the queue.               *)
LEMMA ClearedByCheck ==
  ASSUME op \in [Writers -> Opening], [OpenNext]_ovars, NEW q \in Writers,
         op[q].stage # "clear", op'[q].stage = "clear"
  PROVE  ReadTable(q) \/ CheckSlot(q) \/ CheckEntry(q)
<1>1. op[q] \in Opening
  OBVIOUS
<1>2. op' # op /\ op'[q] # op[q]
  OBVIOUS
<1>3. op' # [r \in Writers |-> Calm(r, FALSE)]
  <2>1. Calm(q, FALSE).stage = op[q].stage
    BY <1>1 DEF Calm, Opening
  <2> QED
    BY <2>1
<1>4. ASSUME NEW p \in Writers,
             ClosedAgain(p) \/ op' = [op EXCEPT ![p] = ClosedOp]
      PROVE  FALSE
  <2>1. p # q => op'[q] = op[q]
    BY <1>4 DEF ClosedAgain
  <2>2. p = q => op'[q].stage = "closed"
    BY <1>4, ObjectCloses
  <2> QED
    BY <1>2, <2>1, <2>2
<1>5. ASSUME NEW p \in Writers, OpenStep(p)
      PROVE  ReadTable(q) \/ CheckSlot(q) \/ CheckEntry(q)
  <2>1. CASE p # q /\ ~StartClear(p)
    BY <1>2, <1>5, <2>1
       DEF OpenStep, OpenStat, ReadTable, CheckSlot, CheckEntry, SeekEndRdwr,
           ClosedAgain, ReportPosition, Enter, FinishClear
  <2>2. CASE StartClear(p)
    <3>1. op'[q].stage \in {"clearing", op[q].stage}
      BY <1>1, <2>2 DEF StartClear, Calm, Opening
    <3> QED
      BY <3>1
  <2>3. CASE p = q /\ OpenStat(p)
    <3>1. op'[q].stage = "table"
      BY <1>1, <2>3 DEF OpenStat, Opening
    <3> QED
      BY <3>1
  <2>4. CASE p = q /\ SeekEndRdwr(p)
    <3>1. ~ClosedAgain(p)
      BY <1>4
    <3>2. op'[q].stage \in {"update", "open"}
      BY <1>1, <2>4, <3>1 DEF SeekEndRdwr, Opening
    <3> QED
      BY <3>2
  <2>5. CASE p = q /\ (ReportPosition(p) \/ FinishClear(p))
    <3>1. op'[q].stage = "open"
      BY <1>1, <2>5 DEF ReportPosition, Enter, FinishClear, Opening
    <3> QED
      BY <3>1
  <2> QED
    BY <1>5, <2>1, <2>2, <2>3, <2>4, <2>5 DEF OpenStep
<1>6. QED
  BY <1>2, <1>3, <1>4, <1>5
     DEF OpenNext, OpenWrite, OpenWakeUp, HolderGoesOn, Die, Close, ovars

LEMMA SoundNotCleared ==
  ASSUME IInv, OpenInv, KeptInv, NEW q \in Writers, op[q].calm, Sound,
         op'[q].stage = "clear",
         ReadTable(q) \/ CheckSlot(q) \/ CheckEntry(q)
  PROVE  FALSE
<1>1. /\ op \in [Writers -> Opening] /\ op[q] \in Opening /\ CalmOK(q)
      /\ TypeOK /\ stat \in StatType /\ YoungestOK /\ PlaceOK(q) /\ NewObject(q)
  BY DEF OpenInv, IInv, TypeInv, TypeOK, KeptInv
<1>2. CASE ReadTable(q)
  <2>1. /\ op[q].stage = "table"
        /\ op[q].st.youngestId # Unset /\ ~Holds(slots, op[q].st.youngestId)
    BY <1>1, <1>2 DEF ReadTable, Opening
  <2>2. op[q].st.youngestId = stat.youngestId
    BY <1>1, <2>1 DEF CalmOK, Agree
  <2>3. stat.youngestSlot # Unset /\ stat.oldestSlot # Unset
    BY <1>1, <2>1, <2>2 DEF YoungestOK
  <2>4. stat.youngestSlot \in Slots /\ stat.oldestSlot \in Slots
    BY <1>1, <2>3, StatFields
  <2>5. InActiveRegion(stat, stat.youngestSlot)
    BY <2>4, IndexRange DEF InActiveRegion, Slots
  <2>6. slots[stat.youngestSlot].active
    BY <2>4, <2>5 DEF Sound
  <2>7. slots[stat.youngestSlot].id = stat.youngestId
    BY <1>1, <2>3, <2>6 DEF YoungestOK
  <2> QED
    BY <2>1, <2>2, <2>4, <2>7 DEF Holds
<1>3. CASE CheckSlot(q)
  <2> DEFINE s == op[q].next
  <2>1. /\ op[q].stage = "slot" /\ s < NSlots
        /\ \/ op[q].table[s].active # InActiveRegion(op[q].st, s)
           \/ op[q].table[s].active /\ ~Expected(q, slots[s])
    <3>1. op[q].stage = "slot"
      BY <1>3 DEF CheckSlot
    <3>2. \/ Enter(q, "seek")
          \/ op' = [op EXCEPT ![q].next = s + 1]
          \/ op' = [op EXCEPT ![q].table[s] = slots[s], ![q].stage = "entry"]
          \/ /\ s < NSlots
             /\ \/ op[q].table[s].active # InActiveRegion(op[q].st, s)
                \/ op[q].table[s].active /\ ~Expected(q, slots[s])
      BY <1>3 DEF CheckSlot
    <3>3. Enter(q, "seek") => op'[q].stage = "seek"
      BY <1>1 DEF Enter, Opening
    <3>4. op' = [op EXCEPT ![q].next = s + 1] => op'[q].stage = "slot"
      BY <1>1, <3>1 DEF Opening
    <3>5. op' = [op EXCEPT ![q].table[s] = slots[s], ![q].stage = "entry"]
            => op'[q].stage = "entry"
      BY <1>1 DEF Opening
    <3>6. op'[q].stage \notin {"seek", "slot", "entry"}
      OBVIOUS
    <3> QED
      BY ONLY <3>1, <3>2, <3>3, <3>4, <3>5, <3>6
  <2>2. s \in Slots
    BY <1>1, <2>1, SizesAssumption DEF Opening, Slots
  <2>3. op[q].table = slots /\ Agree(op[q].st, stat)
    BY <1>1, <2>1 DEF CalmOK
  <2>4. slots[s].active <=> InActiveRegion(op[q].st, s)
    BY <2>2, <2>3 DEF Sound, Agree, InActiveRegion
  <2>5. op[q].lastId = Unset
    BY <1>1, <2>1 DEF NewObject
  <2>6. slots[s].active \in BOOLEAN /\ InActiveRegion(op[q].st, s) \in BOOLEAN
    BY <1>1, <2>2 DEF TypeOK, SlotType, InActiveRegion
  <2> HIDE DEF s
  <2>7. slots[s].active = InActiveRegion(op[q].st, s)
    BY <2>4, <2>6, Zenon
  <2> QED
    BY <2>1, <2>3, <2>5, <2>7 DEF Expected
<1>4. CASE CheckEntry(q)
  <2>1. /\ op[q].stage = "entry"
        /\ ~EntryReads(op[q].table[op[q].next])
    <3>1. op[q].stage = "entry"
      BY <1>4 DEF CheckEntry
    <3>2. op' = [op EXCEPT ![q].stage = "slot", ![q].next = op[q].next + 1]
            => op'[q].stage = "slot"
      BY <1>1 DEF Opening
    <3> QED
      BY <1>4, <3>1, <3>2 DEF CheckEntry
  <2>2. op[q].next \in Slots /\ op[q].table = slots /\ slots[op[q].next].active
    BY <1>1, <2>1 DEF CalmOK, PlaceOK
  <2>3. EntryReads(slots[op[q].next])
    BY <1>1, <2>2, IntactReads DEF Sound
  <2> QED
    BY <2>1, <2>2, <2>3
<1>5. QED
  BY <1>2, <1>3, <1>4

(* Opening never wipes a sound queue that nobody writes to, provided that    *)
(* the process opens it with a new Fmq object and the ring has more than one *)
(* slot.  (TLC breaks it without either.)                                    *)
THEOREM SoundIsKept ==
  (BlockingWrite = FALSE \/ OneWriter) /\ ReuseObject = FALSE /\ NSlots > 1
    => (OpenSpec => SoundQueueKept)
<1> SUFFICES ASSUME BlockingWrite = FALSE \/ OneWriter, ReuseObject = FALSE,
                    NSlots > 1
             PROVE  OpenSpec => SoundQueueKept
  OBVIOUS
<1> DEFINE I == IInv /\ OpenInv /\ KeptInv
<1>1. OpenInit => I
  <2>1. OpenInit => YoungestOK
    BY DEF OpenInit, Init, InitStat, YoungestOK
  <2>2. OpenInit => \A p \in Writers : NewObject(p)
    BY DEF OpenInit, ClosedOp, NewObject
  <2> QED
    BY <2>1, <2>2, InvInit, OpenInitOK DEF OpenInit, KeptInv
<1>2. I /\ [OpenNext]_ovars => I'
  BY InvOpenStep, OpenInvStep, YoungestOpenStep, ObjectStaysNew DEF KeptInv
<1>3. I /\ [OpenNext]_ovars =>
        [\A p \in Writers :
           op[p].calm /\ op[p].stage # "clear" /\ op'[p].stage = "clear"
             => ~Sound]_ovars
  BY ClearedByCheck, SoundNotCleared DEF OpenInv
<1>4. QED
  BY <1>1, <1>2, <1>3, PTL DEF OpenSpec, SoundQueueKept

-----------------------------------------------------------------------------
(* A blocking writer and its reader.                                         *)

LEMMA NewestNat ==
  ASSUME IInv, SerialInv
  PROVE  /\ Newest \in Nat /\ Newest <= Len(log) /\ Len(log) <= Newest + 1
         /\ Len(log) \in Nat /\ (Storing => Newest = Len(log) - 1)
<1>1. Storing => Len(log) > 0
  BY DEF IInv, EntryOK
<1>2. Len(log) \in Nat
  BY LogFacts
<1>3. QED BY <1>1, <1>2, SMT DEF Newest

(* A message counts as kept if its slot still bears its id. *)
LEMMA RetainedIs ==
  ASSUME IInv, RingInv, SerialInv, NEW k \in 1 .. Newest
  PROVE  Retained(k) <=> /\ slots[log[k].slot].active
                         /\ slots[log[k].slot].id = k - 1
<1>1. k \in 1 .. Len(log) /\ k \in Int
  BY NewestNat, SMT
<1>2. ASSUME Retained(k)
      PROVE  slots[log[k].slot].active /\ slots[log[k].slot].id = k - 1
  BY <1>1, <1>2, LogFacts DEF Retained, HoldsEntry
<1>3. ASSUME slots[log[k].slot].active, slots[log[k].slot].id = k - 1
      PROVE  Retained(k)
  <2>1. log[k].slot \in Slots
    BY <1>1, LogFacts
  <2>2. HoldsEntry(log[k].slot, slots[log[k].slot].id + 1)
    BY <1>3, <2>1, InUse
  <2>3. slots[log[k].slot].id + 1 = k
    BY <1>1, <1>3
  <2>4. QED BY <1>3, <2>1, <2>2, <2>3 DEF Retained
<1>4. QED BY <1>2, <1>3

(* Where a message kept lies. *)
LEMMA RoomFacts ==
  ASSUME IInv, RingInv, SerialInv, NEW t \in Slots,
         slots[t].active, slots[t].id < Newest
  PROVE  /\ slots[t].offset \in Nat /\ slots[t].len \in Nat /\ slots[t].len > 0
         /\ slots[t].id \in Nat
         /\ EndOf(t) = slots[t].offset + slots[t].len
         /\ \/ ~Cur.appendMode /\ EndOf(t) <= Cur.beginInsert
            \/ /\ slots[t].offset >= Cur.endInsert
               /\ EndOf(t) <= Cur.beginAppend
         /\ Cur.appendMode => Cur.beginInsert = 0
<1>1. /\ slots[t].offset \in Nat /\ slots[t].len \in Nat /\ slots[t].len > 0
  BY InUseWhole
<1>2. slots[t].id \in Nat
  BY IndexRange DEF IInv, TypeInv, TypeOK, SlotType
<1>3. PICK n \in 0 .. NSlots, m \in 0 .. NSlots : Ring(Cur, n, m)
  BY DEF RingInv
<1>4. ~(stage = "stat" /\ t = job.slot)
  <2>1. stage = "stat" => slots[job.slot].id = Newest
    BY DEF IInv, EntryOK, SerialInv, Writing
  <2>2. Newest \in Nat
    BY NewestNat
  <2>3. QED BY <1>2, <2>1, <2>2
<1>5. PICK i \in 0 .. n - 1 : t = Place(Cur, i)
  BY <1>3, <1>4 DEF Ring, Latest
<1>6. n \in Nat /\ m \in Nat /\ m <= n /\ (Cur.appendMode => m = n)
  BY <1>3, SizesAssumption DEF Ring, Counts
<1>7. IF i < m THEN /\ slots[t].offset >= Cur.endInsert
                    /\ EndOf(t) <= Cur.beginAppend
               ELSE EndOf(t) <= Cur.beginInsert
  BY <1>3, <1>5 DEF Ring, Regions
<1>8. Cur.appendMode => i < m
  BY <1>6, SMT
<1>9. Cur.appendMode => Cur.beginInsert = 0
  BY <1>3, <1>6, SMT DEF Ring, Chained
<1>10. QED BY <1>1, <1>2, <1>7, <1>8, <1>9 DEF EndOf

LEMMA RetainedAre ==
  IInv /\ RingInv /\ SerialInv =>
    \A k \in 1 .. Newest :
      Retained(k) <=> slots[log[k].slot].active /\ slots[log[k].slot].id = k - 1
BY RetainedIs

LEMMA RetainedThen ==
  (IInv /\ RingInv /\ SerialInv =>
     \A k \in 1 .. Newest :
       Retained(k) <=> slots[log[k].slot].active /\ slots[log[k].slot].id = k - 1)'
BY RetainedAre, PTL

LEMMA RoomThen ==
  (IInv /\ RingInv /\ SerialInv =>
     \A t \in Slots : slots[t].active /\ slots[t].id < Newest =>
       /\ slots[t].offset \in Nat /\ slots[t].len \in Nat /\ slots[t].len > 0
       /\ EndOf(t) = slots[t].offset + slots[t].len
       /\ \/ ~Cur.appendMode /\ EndOf(t) <= Cur.beginInsert
          \/ /\ slots[t].offset >= Cur.endInsert
             /\ EndOf(t) <= Cur.beginAppend)'
<1>1. IInv /\ RingInv /\ SerialInv =>
        \A t \in Slots : slots[t].active /\ slots[t].id < Newest =>
          /\ slots[t].offset \in Nat /\ slots[t].len \in Nat /\ slots[t].len > 0
          /\ EndOf(t) = slots[t].offset + slots[t].len
          /\ \/ ~Cur.appendMode /\ EndOf(t) <= Cur.beginInsert
             \/ /\ slots[t].offset >= Cur.endInsert
                /\ EndOf(t) <= Cur.beginAppend
  BY RoomFacts
<1>2. QED BY <1>1, PTL

(* Only a slot that changes can cost a message. *)
LEMMA RetainedStays ==
  ASSUME IInv, RingInv, SerialInv, IInv', RingInv', SerialInv', [Next]_vars,
         NEW k \in 1 .. Newest, Newest <= Newest', Newest' \in Nat, Retained(k),
         slots'[log[k].slot] = slots[log[k].slot]
  PROVE  Retained(k)'
<1>1. k \in 1 .. Len(log) /\ k \in 1 .. Newest'
  BY NewestNat, SMT
<1>2. log'[k] = log[k]
  BY <1>1, LogGrows DEF IInv
<1>3. slots'[log'[k].slot].active /\ slots'[log'[k].slot].id = k - 1
  BY <1>2, RetainedIs
<1>4. QED BY <1>1, <1>3, RetainedThen

(* A step that moves no message and no pointer. *)
LEMMA KeptLie ==
  ASSUME IInv, RingInv, SerialInv, IInv', RingInv', SerialInv', [Next]_vars,
         NEW most \in Nat, WellKept(most), Agree(Cur', Cur), Newest' = Newest,
         slots' = slots, InHand' >= InHand
  PROVE  WellKept(most)'
<1>1. /\ Cur'.appendMode = Cur.appendMode /\ Cur'.beginAppend = Cur.beginAppend
      /\ Cur'.beginInsert = Cur.beginInsert /\ NSlots \in Nat
      /\ InHand \in Int /\ InHand' \in Int /\ Newest \in Nat /\ Newest' \in Nat
  BY NewestNat, SizesAssumption DEF Agree, InHand
<1>a. PICK n \in Nat : n = Newest
  BY <1>1
<1>b. PICK a \in Int, b \in Int : a = InHand /\ b = InHand'
  BY <1>1
<1>2. FirstTurn' => FirstTurn
  <2>1. (FirstTurn <=> n + a <= NSlots) /\ (FirstTurn' <=> n + b <= NSlots)
    BY <1>a, <1>b DEF FirstTurn
  <2>2. b >= a
    BY <1>b
  <2>3. n + b <= NSlots => n + a <= NSlots
    BY <1>1, <2>2, SMT
  <2>4. QED BY <2>1, <2>3
<1>3. RoomOK(most)'
  BY <1>1 DEF WellKept, RoomOK, EndOf
<1>4. FirstOK(most)'
  BY <1>1, <1>2 DEF WellKept, FirstOK
<1>5. ASSUME NEW k \in 1 .. Newest',
             k > Newest' - NSlots + 1 + InHand' \/ FirstTurn'
      PROVE  Retained(k)'
  <2>a. Newest' = n /\ InHand' = b /\ NSlots' = NSlots
    BY <1>a, <1>b
  <2>b. k > n - NSlots + 1 + b \/ FirstTurn'
    BY <1>5, <2>a
  <2>0. /\ k \in 1 .. n /\ b >= a /\ NSlots \in Int
        /\ k > n - NSlots + 1 + b \/ FirstTurn
    BY <1>1, <1>2, <2>a, <2>b, <1>b, SizesAssumption
  <2>1. k \in 1 .. Newest /\ (k > Newest - NSlots + 1 + InHand \/ FirstTurn)
    <3>1. k > n - NSlots + 1 + b => k > n - NSlots + 1 + a
      BY <2>0, SMT
    <3>2. QED BY <2>0, <3>1, <1>a, <1>b
  <2>2. Retained(k)
    BY <2>1 DEF WellKept, AllKept
  <2>3. Newest <= Newest'
    BY <1>1
  <2>4. slots'[log[k].slot] = slots[log[k].slot]
    OBVIOUS
  <2>5. QED BY <1>1, <2>1, <2>2, <2>3, <2>4, RetainedStays
<1>6. QED BY <1>3, <1>4, <1>5 DEF WellKept, AllKept

(* In the first turn of the ring there is always room to append. *)
LEMMA FirstAppends ==
  ASSUME IInv, RingInv, SerialInv, NEW most \in Nat, WellKept(most),
         \A len \in Lens : len <= most, NSlots * most <= BufSize,
         stage = "fit", FirstTurn
  PROVE  AppendRoom(st, job.len)
<1>1. Cur = st /\ InHand = 1 /\ Writing
  BY DEF Cur, Writing, InHand
<1>2. /\ job.len \in Nat /\ job.len <= most /\ st.beginAppend \in Nat
      /\ NSlots \in Nat /\ BufSize \in Nat
  BY <1>1, JobTypes, StatFields, SizesAssumption, IndexRange
     DEF IInv, TypeInv, TypeOK, Job
<1>3. PICK n \in Nat : n = Newest
  BY NewestNat
<1>4. /\ st.appendMode /\ st.beginAppend <= n * most /\ n + 1 <= NSlots
  BY <1>1, <1>3 DEF WellKept, FirstOK, FirstTurn
<1>5. (n + 1) * most <= NSlots * most
  BY <1>2, <1>4, SMT
<1>6. (n + 1) * most = n * most + most
  BY <1>3, SMT
<1>7. PICK u \in Int, v \in Int : u = n * most /\ v = NSlots * most
  BY <1>2, <1>3, SMT
<1>8. st.beginAppend <= u /\ u + most <= v /\ v <= BufSize
  BY <1>4, <1>5, <1>6, <1>7
<1>9. BufSize - st.beginAppend >= job.len
  BY <1>2, <1>7, <1>8, SMT
<1>10. QED BY <1>4, <1>9 DEF AppendRoom

LEMMA KeptSwitch ==
  ASSUME IInv, RingInv, SerialInv, IInv', RingInv', SerialInv', [Next]_vars,
         NEW most \in Nat, WellKept(most),
         \A len \in Lens : len <= most, NSlots * most <= BufSize,
         SwitchToInsert
  PROVE  WellKept(most)'
<1>1. /\ stage = "fit" /\ stage' = "fit" /\ Cur = st /\ Cur' = st'
      /\ slots' = slots /\ Newest' = Newest /\ InHand' = InHand
      /\ st \in StatType /\ st.appendMode /\ ~AppendRoom(st, job.len)
      /\ st' = [st EXCEPT !.appendMode = FALSE]
  BY DEF SwitchToInsert, device, Cur, Writing, Newest, Storing, InHand,
         IInv, TypeInv, TypeOK
<1>2. /\ st'.beginInsert = st.beginInsert /\ st'.beginAppend = st.beginAppend
      /\ st'.appendMode = FALSE
  BY <1>1 DEF StatType
<1>3. /\ job.len \in Nat /\ job.len <= most /\ BufSize \in Nat
      /\ st.beginAppend \in Nat
  BY <1>1, JobTypes, StatFields, SizesAssumption, IndexRange
     DEF IInv, TypeInv, TypeOK, Job, Writing
<1>4. BufSize - st.beginAppend < most
  BY <1>1, <1>3, SMT DEF AppendRoom
<1>5. FirstTurn' <=> FirstTurn
  BY <1>1 DEF FirstTurn
<1>6. ~FirstTurn
  BY <1>1, FirstAppends
<1>7. ASSUME NEW t \in Slots, slots[t].active, slots[t].id < Newest,
             NEW size \in Int, size = (Newest - slots[t].id) * most
      PROVE  IF EndOf(t) <= st.beginInsert
             THEN st.beginInsert - slots[t].offset <= size
             ELSE slots[t].offset - st.beginInsert + size + most > BufSize
  <2>1. /\ slots[t].offset \in Nat /\ slots[t].len \in Nat /\ slots[t].len > 0
        /\ EndOf(t) = slots[t].offset + slots[t].len /\ st.beginInsert = 0
    BY <1>1, <1>7, RoomFacts
  <2>2. st.beginAppend - slots[t].offset <= size
    BY <1>1, <1>7 DEF WellKept, RoomOK
  <2>3. slots[t].offset - 0 + size + most > BufSize
    BY <1>3, <1>4, <2>1, <2>2, SMT
  <2>4. ~(EndOf(t) <= 0)
    BY <2>1, SMT
  <2>5. QED BY <2>1, <2>3, <2>4
<1>8. \A t \in Slots : slots[t].active /\ slots[t].id < Newest =>
        (Newest - slots[t].id) * most \in Int
  BY RoomFacts, NewestNat, SMT
<1>9. RoomOK(most)'
  BY <1>1, <1>2, <1>7, <1>8 DEF RoomOK, EndOf
<1>10. FirstOK(most)'
  BY <1>5, <1>6 DEF FirstOK
<1>11. AllKept'
  <2>1. SUFFICES ASSUME NEW k \in 1 .. Newest, k > Newest - NSlots + 1 + InHand
                 PROVE  Retained(k)'
    BY <1>1, <1>5, <1>6 DEF AllKept
  <2>2. Retained(k)
    BY <2>1 DEF WellKept, AllKept
  <2>3. Newest' \in Nat /\ Newest <= Newest'
    BY <1>1, NewestNat
  <2>4. QED BY <1>1, <2>1, <2>2, <2>3, RetainedStays
<1>12. QED BY <1>9, <1>10, <1>11 DEF WellKept

LEMMA KeptSlot ==
  ASSUME IInv, RingInv, SerialInv, IInv', RingInv', SerialInv', [Next]_vars,
         NEW most \in Nat, WellKept(most), WriteSlot
  PROVE  WellKept(most)'
<1>1. /\ stage = "slot" /\ stage' = "stat" /\ Cur = st /\ Cur' = st
      /\ Newest' = Newest /\ InHand' = InHand /\ st' = st
      /\ Writing /\ job.slot \in Slots
      /\ slots' = [slots EXCEPT ![job.slot] =
                     [active |-> TRUE, id |-> job.id, len |-> job.len,
                      offset |-> off]]
      /\ slots \in [Slots -> SlotType]
  <2>1. /\ stage = "slot" /\ stage' = "stat" /\ st' = st /\ log' = log
        /\ slots' = [slots EXCEPT ![job.slot] =
                       [active |-> TRUE, id |-> job.id, len |-> job.len,
                        offset |-> off]]
    BY DEF WriteSlot
  <2>2. Writing /\ job \in Job /\ slots \in [Slots -> SlotType]
    BY <2>1 DEF Writing, IInv, TypeInv, TypeOK
  <2>3. Cur = st /\ Cur' = st' /\ Newest' = Newest /\ InHand' = InHand
    BY <2>1 DEF Cur, Writing, Newest, Storing, InHand
  <2>4. QED BY <2>1, <2>2, <2>3 DEF Job
<1>2. job.id = Newest /\ Newest \in Nat /\ Newest' \in Nat /\ Newest <= Newest'
  BY <1>1, NewestNat DEF SerialInv
<1>3. ASSUME NEW t \in Slots, slots'[t].id < Newest
      PROVE  slots'[t] = slots[t]
  BY <1>1, <1>2, <1>3
<1>4. RoomOK(most)'
  BY <1>1, <1>3 DEF WellKept, RoomOK, EndOf
<1>5. FirstTurn' <=> FirstTurn
  BY <1>1 DEF FirstTurn
<1>6. FirstOK(most)'
  BY <1>1, <1>5 DEF WellKept, FirstOK
<1>7. ASSUME NEW k \in 1 .. Newest, Retained(k)
      PROVE  slots'[log[k].slot] = slots[log[k].slot]
  <2>1. slots[log[k].slot].active /\ slots[log[k].slot].id = k - 1
    BY <1>7, RetainedIs
  <2>2. log[k].slot \in Slots
    BY NewestNat, LogFacts
  <2>3. SUFFICES ASSUME slots'[log[k].slot] # slots[log[k].slot] PROVE FALSE
    OBVIOUS
  <2>6. log[k].slot = job.slot
    BY <1>1, <2>3
  <2>7. PICK n \in 0 .. NSlots, m \in 0 .. NSlots : Ring(Cur, n, m)
    BY DEF RingInv
  <2>8. n < NSlots /\ job.slot = Place(Cur, n) /\ Cur \in StatType
    BY <1>1, <2>7, CurFacts DEF Ring, Keeps, Counts, RingInv, IInv
  <2>9. PICK i \in 0 .. n - 1 : job.slot = Place(Cur, i)
    BY <1>1, <2>1, <2>2, <2>6, <2>7 DEF Ring, Latest
  <2>10. n \in 0 .. NSlots - 1 /\ i \in 0 .. NSlots - 1 /\ i # n
    BY <2>8, LogFacts, SMT
  <2>11. QED BY <2>8, <2>9, <2>10, Places
<1>8. AllKept'
  <2>1. SUFFICES ASSUME NEW k \in 1 .. Newest,
                        k > Newest - NSlots + 1 + InHand \/ FirstTurn
                 PROVE  Retained(k)'
    BY <1>1, <1>5 DEF AllKept
  <2>2. Retained(k)
    BY <2>1 DEF WellKept, AllKept
  <2>3. QED BY <1>2, <1>7, <2>1, <2>2, RetainedStays
<1>9. QED BY <1>4, <1>6, <1>8 DEF WellKept

(* The slot of the message that is given up, and its number. *)
LEMMA OldestGoes ==
  ASSUME IInv, RingInv, SerialInv, MustFree
  PROVE  /\ Cur = st /\ st.oldestSlot \in Slots
         /\ slots[st.oldestSlot].active
         /\ slots[st.oldestSlot].offset = st.endInsert
         /\ \E n \in 1 .. NSlots :
              /\ n <= Newest
              /\ slots[st.oldestSlot].id = Newest - n
              /\ IF stage = "ring" THEN n = NSlots ELSE n < NSlots
<1>1. PICK n \in 0 .. NSlots, m \in 0 .. NSlots : Ring(Cur, n, m)
  BY DEF RingInv
<1>2. /\ Cur = st /\ st.oldestSlot \in Slots /\ Place(st, 0) = st.oldestSlot
      /\ slots[st.oldestSlot].offset = st.endInsert /\ n \in Nat /\ n > 0
  BY <1>1, OldestInPlace
<1>3. 0 \in 0 .. n - 1
  BY <1>2
<1>4. /\ slots[st.oldestSlot].active
      /\ HoldsEntry(st.oldestSlot, Newest - n + 1 + 0)
  BY <1>1, <1>2, <1>3 DEF Ring, Latest
<1>5. n <= Newest /\ Newest \in Nat
  BY <1>1, NewestNat DEF Ring, Counts
<1>6. PICK k \in Int : k = Newest - n + 1 + 0
  BY <1>5
<1>7. k \in 1 .. Len(log) /\ k - 1 = Newest - n
  BY <1>2, <1>5, <1>6, NewestNat, SMT
<1>8. slots[st.oldestSlot].id = Newest - n
  BY <1>4, <1>6, <1>7, LogFacts DEF HoldsEntry
<1>9. IF stage = "ring" THEN n = NSlots ELSE n < NSlots
  <2>1. CASE stage = "ring"
    BY <1>1, <2>1, FullRing DEF MustFree
  <2>2. CASE stage = "fit"
    BY <1>1, <2>2 DEF Ring, Keeps
  <2>3. QED BY <2>1, <2>2 DEF MustFree
<1>10. QED BY <1>2, <1>4, <1>5, <1>8, <1>9

(* Give up the oldest message: in the upper region it is the last but one    *)
(* that the ring would have cost.                                            *)
LEMMA OldestIsDue ==
  ASSUME IInv, RingInv, SerialInv, NEW most \in Nat, RoomOK(most),
         \A len \in Lens : len <= most, NSlots * most <= BufSize,
         MustFree, stage = "fit"
  PROVE  slots[st.oldestSlot].id <= Newest - NSlots + 1
<1> DEFINE o == st.oldestSlot
<1>1. /\ Cur = st /\ o \in Slots /\ slots[o].active
      /\ slots[o].offset = st.endInsert
  BY OldestGoes
<1>2. PICK n \in 1 .. NSlots : slots[o].id = Newest - n /\ n < NSlots
  BY OldestGoes
<1>3. /\ st \in StatType /\ RegionsOK(st) /\ Writing /\ ~st.appendMode
      /\ ~InsertRoom(st, job.len) /\ job \in Job
  BY DEF MustFree, IInv, TypeInv, TypeOK, Writing
<1>4. /\ job.len \in Nat /\ job.len <= most /\ BufSize \in Nat /\ NSlots \in Nat
      /\ st.beginInsert \in Nat /\ st.endInsert \in Nat
      /\ st.beginInsert <= st.endInsert
      /\ st.endInsert - st.beginInsert < job.len
  BY <1>3, JobTypes, StatFields, SizesAssumption, IndexRange, SMT
     DEF Job, RegionsOK, InsertRoom
<1>5. Newest \in Nat /\ n \in Nat
  BY NewestNat
<1>6. slots[o].id < Newest /\ Newest - slots[o].id = n
  BY <1>2, <1>5
<1>7. ~(EndOf(o) <= st.beginInsert)
  <2>1. EndOf(o) = slots[o].offset + slots[o].len /\ slots[o].len \in Nat
        /\ slots[o].len > 0
    BY <1>1, <1>6, RoomFacts
  <2>2. QED BY <1>1, <1>4, <2>1, SMT
<1>8. st.endInsert - st.beginInsert + n * most + most > BufSize
  BY <1>1, <1>3, <1>6, <1>7 DEF RoomOK
<1>9. PICK u \in Int, v \in Int : u = n * most /\ v = NSlots * most
  BY <1>4, <1>5, SMT
<1>10. u + most + most > v
  BY <1>4, <1>8, <1>9, SMT
<1>11. n + 2 > NSlots
  <2>1. SUFFICES ASSUME n + 2 <= NSlots PROVE FALSE
    BY <1>4, <1>5
  <2>2. PICK d \in Nat : NSlots = n + 2 + d
    <3>1. NSlots - (n + 2) \in Nat /\ NSlots = n + 2 + (NSlots - (n + 2))
      BY <1>4, <1>5, <2>1
    <3>2. QED BY <3>1
  <2>3. NSlots * most = n * most + most + most + d * most
    BY <1>5, <2>2, SMT
  <2>4. d * most \in Nat
    BY <2>2, SMT
  <2>5. QED BY <1>9, <1>10, <2>3, <2>4, SMT
<1>12. QED BY <1>2, <1>4, <1>5, <1>11, SMT

LEMMA KeptFree ==
  ASSUME IInv, RingInv, SerialInv, IInv', RingInv', SerialInv', [Next]_vars,
         NEW most \in Nat, WellKept(most),
         \A len \in Lens : len <= most, NSlots * most <= BufSize,
         FreeOldestSlot
  PROVE  WellKept(most)'
<1> DEFINE o == st.oldestSlot
           merged == st.endInsert + slots[o].len >= st.beginAppend
<1>1. /\ MustFree /\ st' = Freed(st, slots[o].len)
      /\ slots' = [slots EXCEPT ![o] = EmptySlot]
      /\ stage' = IF stage = "ring" THEN "pack" ELSE "fit"
      /\ log' = log
  BY DEF FreeOldestSlot
<1>2. /\ Cur = st /\ o \in Slots /\ slots[o].active
      /\ slots \in [Slots -> SlotType]
      /\ stage \in {"ring", "fit"}
  BY <1>1, OldestGoes DEF IInv, TypeInv, TypeOK, MustFree
<1>3. /\ st \in StatType /\ RegionsOK(st)
      /\ Cur' = st' /\ Newest = Len(log) /\ Newest' = Newest
      /\ InHand' = 1 /\ InHand = IF stage = "ring" THEN 0 ELSE 1
  BY <1>1, <1>2 DEF IInv, TypeInv, TypeOK, Writing, Cur, Newest, Storing, InHand
<1>4. Newest \in Nat /\ NSlots \in Nat /\ Newest' \in Nat /\ Newest <= Newest'
  BY <1>3, NewestNat, SizesAssumption
<1>5. /\ st.beginInsert \in Nat /\ st.endInsert \in Nat /\ st.beginAppend \in Nat
      /\ st.beginInsert <= st.endInsert /\ st.endInsert <= st.beginAppend
  BY <1>3, StatFields, IndexRange DEF RegionsOK
<1>6. IF merged
      THEN st'.appendMode = TRUE /\ st'.beginAppend = st.beginInsert
      ELSE /\ st'.appendMode = st.appendMode
           /\ st'.beginAppend = st.beginAppend
           /\ st'.beginInsert = st.beginInsert
  BY <1>1, <1>3 DEF Freed, StatType
<1>7. \A t \in Slots : slots'[t].active => t # o /\ slots'[t] = slots[t]
  BY <1>1, <1>2 DEF EmptySlot
<1>8. RoomOK(most)'
  <2>1. SUFFICES ASSUME NEW t \in Slots, slots'[t].active, slots'[t].id < Newest'
                 PROVE
          LET size == (Newest' - slots'[t].id) * most
          IN  IF Cur'.appendMode
              THEN Cur'.beginAppend - slots'[t].offset <= size
              ELSE IF EndOf(t)' <= Cur'.beginInsert
              THEN Cur'.beginInsert - slots'[t].offset <= size
              ELSE slots'[t].offset - Cur'.beginInsert + size + most > BufSize
    BY DEF RoomOK
  <2>2. /\ slots'[t] = slots[t] /\ EndOf(t)' = EndOf(t) /\ slots[t].active
        /\ slots[t].id < Newest
    BY <1>3, <1>7, <2>1 DEF EndOf
  <2>3. PICK size : size = (Newest - slots[t].id) * most
    OBVIOUS
  <2>4. slots[t].offset \in Nat /\ slots[t].id \in Nat
    BY <2>2, RoomFacts
  <2>5. size \in Int
    BY <1>4, <2>3, <2>4, SMT
  <2>6. IF st.appendMode
        THEN st.beginAppend - slots[t].offset <= size
        ELSE IF EndOf(t) <= st.beginInsert
        THEN st.beginInsert - slots[t].offset <= size
        ELSE slots[t].offset - st.beginInsert + size + most > BufSize
    BY <1>2, <2>2, <2>3 DEF WellKept, RoomOK
  <2>7. CASE ~merged
    BY <1>3, <1>6, <2>2, <2>3, <2>6, <2>7
  <2>8. CASE merged
    <3>1. EndOf(t)' <= Cur'.beginAppend
      BY <1>3, <1>6, <2>1, <2>8, RoomThen
    <3>2. EndOf(t) <= st.beginInsert
      BY <1>3, <1>6, <2>2, <2>8, <3>1
    <3>3. st.beginInsert - slots[t].offset <= size
      BY <1>5, <2>4, <2>5, <2>6, <3>2, SMT
    <3>4. QED BY <1>3, <1>6, <2>2, <2>3, <2>8, <3>3
  <2>9. QED BY <2>7, <2>8
<1>9. PICK n \in 1 .. NSlots :
        /\ n <= Newest /\ slots[o].id = Newest - n
        /\ IF stage = "ring" THEN n = NSlots ELSE n < NSlots
  BY <1>1, OldestGoes
<1>10. slots[o].id <= Newest - NSlots + 1
  <2>1. CASE stage = "ring"
    BY <1>4, <1>9, <2>1
  <2>2. CASE stage = "fit"
    BY <1>1, <2>2, OldestIsDue DEF WellKept
  <2>3. QED BY <1>2, <2>1, <2>2
<1>11. ~FirstTurn'
  <2>1. CASE stage = "ring"
    <3>1. ~(Newest + 1 <= NSlots)
      BY <1>4, <1>9, <2>1
    <3>2. QED BY <1>3, <3>1 DEF FirstTurn
  <2>2. CASE stage = "fit"
    <3>1. ~FirstTurn
      <4>1. ~AppendRoom(st, job.len)
        BY <1>1, <2>2 DEF MustFree, AppendRoom
      <4>2. QED BY <2>2, <4>1, FirstAppends
    <3>2. QED BY <1>3, <2>2, <3>1 DEF FirstTurn
  <2>3. QED BY <1>2, <2>1, <2>2
<1>12. FirstOK(most)'
  BY <1>11 DEF FirstOK
<1>13. AllKept'
  <2>1. SUFFICES ASSUME NEW k \in 1 .. Newest, k > Newest - NSlots + 1 + 1
                 PROVE  Retained(k)'
    BY <1>3, <1>11 DEF AllKept
  <2>2. k > Newest - NSlots + 1 + InHand
    BY <1>2, <1>3, <1>4, <2>1
  <2>3. Retained(k)
    BY <2>1, <2>2 DEF WellKept, AllKept
  <2>4. slots[log[k].slot].id = k - 1
    BY <2>3, RetainedIs
  <2>5. slots[o].id \in Int /\ slots[o].id # k - 1
    BY <1>4, <1>9, <1>10, <2>1, SMT
  <2>6. log[k].slot \in Slots
    BY NewestNat, LogFacts
  <2>7. slots'[log[k].slot] = slots[log[k].slot]
    BY <1>1, <1>2, <2>4, <2>5, <2>6
  <2>8. QED BY <1>4, <2>3, <2>7, RetainedStays
<1>14. QED BY <1>8, <1>12, <1>13 DEF WellKept

(* Publish: the new message is the last of its region. *)
LEMMA KeptPublish ==
  ASSUME IInv, RingInv, SerialInv, IInv', RingInv', SerialInv', [Next]_vars,
         NEW most \in Nat, WellKept(most),
         \A len \in Lens : len <= most, WriteStat
  PROVE  WellKept(most)'
<1>1. /\ stage = "stat" /\ stage' = "idle" /\ slots' = slots /\ log' = log
      /\ stat' = Published(st)
  BY DEF WriteStat, Release
<1>2. /\ Writing /\ Storing /\ Cur = st /\ Cur' = stat'
      /\ InHand = 1 /\ InHand' = 0 /\ Newest' = Len(log)
      /\ RoomAt(st, off, job.len) /\ job \in Job /\ off \in Offsets
      /\ st \in StatType /\ RegionsOK(st)
  BY <1>1 DEF Writing, Storing, Cur, InHand, Newest, IInv, TypeInv, TypeOK
<1>3. PICK n \in Nat : n = Newest /\ Len(log) = n + 1
  BY <1>2, NewestNat
<1>4. /\ job.slot \in Slots /\ job.id = n
      /\ log[n + 1].slot = job.slot
      /\ slots[job.slot] = [active |-> TRUE, id |-> job.id, len |-> job.len,
                            offset |-> off]
  BY <1>1, <1>2, <1>3 DEF IInv, EntryOK, SerialInv, Job
<1>5. /\ job.len \in Nat /\ job.len > 0 /\ job.len <= most /\ off \in Nat
      /\ st.beginInsert \in Nat /\ st.endInsert \in Nat /\ st.beginAppend \in Nat
      /\ BufSize \in Nat /\ NSlots \in Nat
  BY <1>2, JobTypes, StatFields, SizesAssumption, IndexRange, WritersAssumption
     DEF Job
<1>6. IF st.appendMode
      THEN /\ stat'.appendMode = TRUE /\ off = st.beginAppend
           /\ stat'.beginAppend = st.beginAppend + job.len
      ELSE /\ stat'.appendMode = FALSE /\ off = st.beginInsert
           /\ stat'.beginInsert = st.beginInsert + job.len
           /\ st.beginInsert + job.len <= st.endInsert
  BY <1>1, <1>2 DEF Published, StatType, RoomAt
<1>7. FirstTurn' <=> FirstTurn
  <2>1. (FirstTurn <=> n + 1 <= NSlots) /\ (FirstTurn' <=> n + 1 + 0 <= NSlots)
    BY <1>2, <1>3 DEF FirstTurn
  <2>2. QED BY <1>3, <2>1
<1>8. RoomOK(most)'
  <2>0. SUFFICES ASSUME NEW t \in Slots, slots'[t].active, slots'[t].id < Newest'
                 PROVE
          LET size == (Newest' - slots'[t].id) * most
          IN  IF Cur'.appendMode
              THEN Cur'.beginAppend - slots'[t].offset <= size
              ELSE IF EndOf(t)' <= Cur'.beginInsert
              THEN Cur'.beginInsert - slots'[t].offset <= size
              ELSE slots'[t].offset - Cur'.beginInsert + size + most > BufSize
    BY DEF RoomOK
  <2>a. Newest' = n + 1 /\ EndOf(t)' = EndOf(t)
    BY <1>1, <1>2, <1>3 DEF EndOf
  <2>1. /\ slots[t].active /\ slots[t].id < n + 1
    BY <1>1, <1>2, <2>0, <2>a
  <2>2. slots[t].id \in Nat
    BY SizesAssumption DEF IInv, TypeInv, TypeOK, SlotType, Ids
  <2>3. PICK d \in Int : d = n + 1 - slots[t].id
    BY <2>2
  <2>4. PICK z \in Int : z = d * most
    BY SMT
  <2>5. IF stat'.appendMode
        THEN stat'.beginAppend - slots[t].offset <= z
        ELSE IF EndOf(t) <= stat'.beginInsert
        THEN stat'.beginInsert - slots[t].offset <= z
        ELSE slots[t].offset - stat'.beginInsert + z + most > BufSize
    <3>1. CASE slots[t].id = n
      <4>1. PICK k : k = slots[t].id + 1
        OBVIOUS
      <4>2. log[k].slot = t
        BY <2>1, <4>1, InUse
      <4>3. t = job.slot
        BY <1>4, <3>1, <4>1, <4>2
      <4>4. slots[t].offset = off /\ EndOf(t) = off + job.len
        BY <1>4, <4>3 DEF EndOf
      <4>5. d = 1
        BY <2>3, <3>1
      <4>6. z = most
        BY <2>4, <4>5, SMT
      <4>7. QED BY <1>5, <1>6, <4>4, <4>6, SMT
    <3>2. CASE slots[t].id # n
      <4>1. slots[t].id < n
        BY <2>1, <2>2, <3>2, SMT
      <4>2. PICK c \in Int : c = n - slots[t].id /\ d = c + 1
        BY <2>2, <2>3
      <4>3. PICK y \in Int : y = c * most
        BY SMT
      <4>4. z = y + most
        BY <2>4, <4>2, <4>3, SMT
      <4>5. IF st.appendMode
            THEN st.beginAppend - slots[t].offset <= y
            ELSE IF EndOf(t) <= st.beginInsert
            THEN st.beginInsert - slots[t].offset <= y
            ELSE slots[t].offset - st.beginInsert + y + most > BufSize
        BY <1>2, <1>3, <2>1, <4>1, <4>2, <4>3 DEF WellKept, RoomOK
      <4>6. /\ slots[t].offset \in Nat /\ slots[t].len \in Nat
            /\ slots[t].len > 0
            /\ EndOf(t) = slots[t].offset + slots[t].len
            /\ ~st.appendMode /\ ~(EndOf(t) <= st.beginInsert) =>
                 slots[t].offset >= st.endInsert
        <5>1. slots[t].id < Newest
          BY <1>3, <4>1
        <5>2. QED BY <1>2, <2>1, <5>1, RoomFacts
      <4>7. CASE st.appendMode
        BY <1>5, <1>6, <4>4, <4>5, <4>6, <4>7, SMT
      <4>8. CASE ~st.appendMode
        BY <1>5, <1>6, <4>4, <4>5, <4>6, <4>8, SMT
      <4>9. QED BY <4>7, <4>8
    <3>3. QED BY <3>1, <3>2
  <2>6. d = Newest' - slots'[t].id
    <3>1. Newest' \in Int /\ slots'[t].id = slots[t].id
      BY <1>1, <2>a
    <3>2. QED BY <2>2, <2>3, <2>a, <3>1
  <2>7. QED BY <1>1, <1>2, <2>4, <2>5, <2>6, <2>a
<1>9. FirstOK(most)'
  <2>1. SUFFICES ASSUME FirstTurn
                 PROVE  stat'.appendMode /\ stat'.beginAppend <= (n + 1) * most
    BY <1>2, <1>3, <1>7 DEF FirstOK
  <2>2. st.appendMode /\ st.beginAppend <= n * most
    BY <1>2, <1>3, <2>1 DEF WellKept, FirstOK
  <2>3. PICK y \in Int : y = n * most
    BY SMT
  <2>4. (n + 1) * most = y + most
    BY <2>3, SMT
  <2>5. stat'.beginAppend <= y + most
    BY <1>5, <1>6, <2>2, <2>3, SMT
  <2>6. QED BY <1>6, <2>2, <2>4, <2>5
<1>10. AllKept'
  <2>0. /\ Newest' = n + 1 /\ InHand' = 0 /\ Newest' \in Int /\ NSlots \in Int
        /\ 1 .. Newest' = 1 .. n + 1
    BY <1>2, <1>3, SizesAssumption
  <2>b. \A k \in 1 .. n + 1 :
          k > Newest' - NSlots + 1 + InHand' <=> k > n + 1 - NSlots + 1 + 0
    BY <2>0
  <2>1. SUFFICES ASSUME NEW k \in 1 .. n + 1,
                        k > n + 1 - NSlots + 1 + 0 \/ FirstTurn
                 PROVE  Retained(k)'
    BY <1>7, <2>0, <2>b DEF AllKept
  <2>2. CASE k = n + 1
    <3>1. slots'[log'[k].slot].active /\ slots'[log'[k].slot].id = k - 1
      BY <1>1, <1>3, <1>4, <2>2
    <3>2. k \in 1 .. Newest'
      BY <1>2, <1>3
    <3>3. QED BY <3>1, <3>2, RetainedThen
  <2>3. CASE k # n + 1
    <3>1. k \in 1 .. Newest
      BY <1>3, <2>3
    <3>2. n + 1 - NSlots + 1 + 0 = n - NSlots + 1 + 1
      BY <1>5
    <3>3. k > Newest - NSlots + 1 + InHand \/ FirstTurn
      BY <1>2, <1>3, <2>1, <3>2
    <3>4. Retained(k)
      BY <3>1, <3>3 DEF WellKept, AllKept
    <3>5. Newest <= Newest' /\ Newest' \in Nat
      BY <1>2, <1>3
    <3>6. QED BY <1>1, <3>1, <3>4, <3>5, RetainedStays
  <2>4. QED BY <2>2, <2>3
<1>11. QED BY <1>8, <1>9, <1>10 DEF WellKept

LEMMA NothingTooLarge ==
  ASSUME Smooth, IInv
  PROVE  ~TooLarge
<1>1. SUFFICES ASSUME stage = "pack" PROVE ~(job.len > BufSize)
  BY DEF TooLarge
<1>2. job \in Job
  BY <1>1 DEF IInv, TypeInv, Writing
<1>3. job.len \in Lens /\ job.len \in Nat /\ job.len <= BufSize
  BY <1>2, WritersAssumption DEF Job, Smooth
<1>4. QED BY <1>3, SizesAssumption

LEMMA KeptStep ==
  ASSUME Smooth, IInv, RingInv, SerialInv, IInv', RingInv', SerialInv',
         [Next]_vars, NEW most \in Nat, WellKept(most),
         \A len \in Lens : len <= most, NSlots * most <= BufSize
  PROVE  WellKept(most)'
<1> DEFINE Still == /\ Agree(Cur', Cur) /\ Newest' = Newest /\ slots' = slots
                    /\ InHand' >= InHand
<1>1. SUFFICES \/ Still \/ SwitchToInsert \/ FreeOldestSlot
               \/ WriteSlot \/ WriteStat
  BY KeptLie, KeptSwitch, KeptFree, KeptSlot, KeptPublish
<1>2. stat \in StatType /\ st \in StatType
  BY DEF IInv, TypeInv, TypeOK
<1>3. ASSUME NEW p \in Writers, NEW len \in Lens, BeginWrite(p, len)
      PROVE  Still
  <2>1. stage = "idle"
    BY <1>3 DEF BeginWrite, RingInv
  <2>2. stage' \in {"block", "ring"} /\ st' = stat /\ log' = log /\ slots' = slots
    BY <1>3 DEF BeginWrite, device
  <2>3. QED BY <2>1, <2>2 DEF Cur, Writing, Agree, Newest, Storing, InHand
<1>4. ASSUME NEW p \in Writers, WakeUp(p)
      PROVE  Still
  <2>1. stage = "idle"
    BY <1>4 DEF WakeUp, RingInv
  <2>2. stage' = "block" /\ st' = stat /\ log' = log /\ slots' = slots
    BY <1>4 DEF WakeUp, device
  <2>3. QED BY <2>1, <2>2 DEF Cur, Writing, Agree, Newest, Storing, InHand
<1>5. CASE WaitForReader
  <2>1. /\ stage = "block" /\ stage' = "idle" /\ stat' = stat /\ log' = log
        /\ slots' = slots
    BY <1>5 DEF WaitForReader, Release, device
  <2>2. Agree(st, stat)
    BY <2>1 DEF IInv, JobOK
  <2>3. QED BY <2>1, <2>2 DEF Cur, Writing, Agree, Newest, Storing, InHand
<1>6. CASE StopWaiting
  <2>1. /\ stage = "block" /\ stage' = "ring" /\ log' = log /\ slots' = slots
        /\ st' = [st EXCEPT !.blockingWrite = TRUE]
    BY <1>6 DEF StopWaiting, device
  <2>2. Agree(st', st)
    BY <1>2, <2>1 DEF Agree, StatType
  <2>3. QED BY <2>1, <2>2 DEF Cur, Writing, Newest, Storing, InHand
<1>7. CASE RingHasRoom \/ Packed
  <2>1. /\ stage \in {"ring", "pack"} /\ stage' \in {"pack", "fit"} /\ st' = st
        /\ log' = log /\ slots' = slots
    BY <1>7 DEF RingHasRoom, Packed, device
  <2>2. QED BY <2>1 DEF Cur, Writing, Agree, Newest, Storing, InHand
<1>8. ~TooLarge
  BY NothingTooLarge
<1>9. ~OffsetMismatch
  BY DEF OffsetMismatch, RingInv, Reinitialising
<1>10. CASE ChooseOffset
  <2>1. /\ stage = "fit" /\ stage' = "entry" /\ st' = st /\ slots' = slots
        /\ \E e : log' = Append(log, e)
    BY <1>10 DEF ChooseOffset, device
  <2>2. log \in Seq(Entry)
    BY DEF IInv, TypeInv, TypeOK
  <2>3. Len(log') = Len(log) + 1 /\ Len(log) \in Nat
    BY <2>1, <2>2, SMT
  <2>4. Newest = Len(log) /\ Newest' = Len(log') - 1
    BY <2>1 DEF Newest, Storing
  <2>5. Newest' = Newest
    BY <2>3, <2>4
  <2>6. QED BY <2>1, <2>5 DEF Cur, Writing, Agree, InHand
<1>11. CASE WriteWord
  <2>1. /\ stage = "entry" /\ stage' \in {"entry", "slot"} /\ st' = st
        /\ log' = log /\ slots' = slots
    BY <1>11 DEF WriteWord
  <2>2. QED BY <2>1 DEF Cur, Writing, Agree, Newest, Storing, InHand
<1>12. ~ClearBuf /\ ~ClearSlot /\ ~ClearStat
  BY DEF ClearBuf, ClearSlot, ClearStat, RingInv, Reinitialising
<1>13. ~Abandon
  BY DEF Abandon, Smooth
<1>14. ASSUME NEW id \in ReadIds, ReaderReports(id)
       PROVE  Still
  <2>1. /\ stage' = stage /\ st' = st /\ log' = log /\ slots' = slots
        /\ stat' = [stat EXCEPT !.lastIdRead = id]
    BY <1>14 DEF ReaderReports, local
  <2>2. Agree(stat', stat)
    BY <1>2, <2>1 DEF Agree, StatType
  <2>3. Agree(Cur', Cur)
    BY <2>1, <2>2 DEF Cur, Writing, Agree
  <2>4. Newest' = Newest /\ InHand' = InHand
    BY <2>1 DEF Newest, Storing, InHand
  <2>5. InHand \in Int
    BY DEF InHand
  <2>6. QED BY <2>1, <2>3, <2>4, <2>5
<1>15. CASE UNCHANGED vars
  <2>1. /\ stage' = stage /\ st' = st /\ log' = log /\ slots' = slots
        /\ stat' = stat
    BY <1>15 DEF vars, device, local
  <2>2. QED BY <2>1 DEF Cur, Writing, Agree, Newest, Storing, InHand
<1>16. QED
  BY <1>3, <1>4, <1>5, <1>6, <1>7, <1>8, <1>9, <1>10, <1>11, <1>12, <1>13,
     <1>14, <1>15 DEF Next, WriterNext, HolderStep

LEMMA KeptInit ==
  ASSUME Init, NEW most \in Nat
  PROVE  WellKept(most)
<1>1. /\ stage = "idle" /\ log = <<>> /\ stat = InitStat
      /\ \A s \in Slots : ~slots[s].active
  BY DEF Init, EmptySlot
<1>2. Newest = 0 /\ InHand = 0 /\ Cur = InitStat
  BY <1>1 DEF Newest, Storing, InHand, Cur, Writing
<1>3. InitStat.appendMode = TRUE /\ InitStat.beginAppend = 0
  BY DEF InitStat
<1>4. 0 <= 0 * most
  BY SMT
<1>5. QED BY <1>1, <1>2, <1>3, <1>4 DEF WellKept, RoomOK, FirstOK, AllKept

LEMMA LastRead ==
  ASSUME NEW s \in StatType
  PROVE  s.lastIdRead \in Int
BY DEF StatType, Ids, Unset

(* What the reader has not taken yet is still there. *)
LEMMA UnreadKept ==
  IInv /\ SerialInv /\ ReaderInv /\ AllKept /\ BlockOK =>
    \A r \in Readers : \A k \in 1 .. Newest : k > last[r].ser => Retained(k)
<1>1. SUFFICES ASSUME IInv, SerialInv, ReaderInv, AllKept, BlockOK,
                      NEW r \in Readers, NEW k \in 1 .. Newest,
                      k > last[r].ser
               PROVE  k > Newest - NSlots + 1 + InHand \/ FirstTurn
  BY DEF AllKept
<1>2. PICK n \in Nat : n = Newest
  BY <1>1, NewestNat
<1>3. PICK p \in Nat : p = last[r].ser
  BY <1>1 DEF ReaderInv, Delivery
<1>4. NSlots \in Nat /\ k \in Nat /\ k >= p + 1
  BY <1>1, <1>2, <1>3, SizesAssumption
<1>5. CASE InHand = 1
  <2>1. Writing /\ stage # "block"
    BY <1>5 DEF InHand, Writing
  <2>2. PICK l : l = st.lastIdRead
    OBVIOUS
  <2>3. l \in Int
    BY <1>1, <2>2, LastRead DEF IInv, TypeInv, TypeOK
  <2>4. n + 1 <= l + NSlots /\ (l = 0 \/ l < p)
    BY <1>1, <1>2, <1>3, <2>1, <2>2 DEF BlockOK, Reported
  <2>5. CASE l = 0
    BY <1>2, <1>4, <1>5, <2>4, <2>5 DEF FirstTurn
  <2>6. CASE l < p
    <3>1. k > n - NSlots + 1 + 1
      BY <1>4, <2>3, <2>4, <2>6, SMT
    <3>2. QED BY <1>2, <1>5, <3>1
  <2>7. QED BY <2>4, <2>5, <2>6
<1>6. CASE InHand = 0
  <2>2. PICK l : l = stat.lastIdRead
    OBVIOUS
  <2>3. l \in Int
    BY <1>1, <2>2, LastRead DEF IInv, TypeInv, TypeOK
  <2>4. n <= l + NSlots /\ (l = 0 \/ l < p)
    BY <1>1, <1>2, <1>3, <2>2 DEF BlockOK, Reported
  <2>5. CASE l = 0
    BY <1>2, <1>4, <1>6, <2>4, <2>5 DEF FirstTurn
  <2>6. CASE l < p
    <3>1. k > n - NSlots + 1 + 0
      BY <1>4, <2>3, <2>4, <2>6, SMT
    <3>2. QED BY <1>2, <1>6, <3>1
  <2>7. QED BY <2>4, <2>5, <2>6
<1>7. QED BY <1>5, <1>6 DEF InHand

LEMMA UnreadKeptThen ==
  (IInv /\ SerialInv /\ ReaderInv /\ AllKept /\ BlockOK =>
     \A r \in Readers : \A k \in 1 .. Newest :
       k > last[r].ser => Retained(k))'
BY UnreadKept, PTL

(* A step that leaves stat alone keeps the writer within the ring if it      *)
(* goes on with its copy, or begins with the one on disk.                    *)
LEMMA BlockSame ==
  ASSUME BlockOK, rd' = rd, last' = last, stat' = stat,
         Newest \in Nat, Newest' = Newest,
         Writing' => \/ /\ Writing /\ st'.lastIdRead = st.lastIdRead
                        /\ stage = "block" => stage' = "block"
                        /\ stage' = "block" => stage = "block"
                     \/ stage' = "block" /\ st'.lastIdRead = stat.lastIdRead
  PROVE  BlockOK'
<1>1. \A r \in Readers : Reported(stat, r)' /\ Reported(stat, r)
  BY DEF BlockOK, Reported, Joined
<1>2. ASSUME Writing'
      PROVE  /\ \/ st'.lastIdRead = st.lastIdRead /\ Writing
                \/ st'.lastIdRead = stat.lastIdRead
             /\ \A r \in Readers : Reported(st, r)'
             /\ st'.lastIdRead >= 0
  BY <1>1, <1>2 DEF BlockOK, Reported, Joined
<1>3. ASSUME Writing', NEW d, d = IF stage' = "block" THEN 0 ELSE 1
      PROVE  Newest + d <= st'.lastIdRead + NSlots
  <2>1. CASE /\ Writing /\ st'.lastIdRead = st.lastIdRead
             /\ stage = "block" <=> stage' = "block"
    BY <1>3, <2>1 DEF BlockOK
  <2>2. CASE stage' = "block" /\ st'.lastIdRead = stat.lastIdRead
    BY <1>3, <2>2 DEF BlockOK
  <2>3. QED BY <1>3, <2>1, <2>2
<1>4. QED BY <1>1, <1>2, <1>3 DEF BlockOK

(* The writer blocks while the message it would overwrite is the last one    *)
(* that was reported.                                                        *)
LEMMA BlockWriter ==
  ASSUME Smooth, BlockingWrite = TRUE, IInv, RingInv, SerialInv, ReaderInv,
         BlockOK, WriterNext, rd' = rd, last' = last
  PROVE  BlockOK'
<1>1. /\ stat \in StatType /\ st \in StatType /\ Newest \in Nat
      /\ NSlots \in Nat /\ stage \in Stages
  BY NewestNat, SizesAssumption DEF IInv, TypeInv, TypeOK
<1>2. ASSUME NEW p \in Writers, NEW len \in Lens, BeginWrite(p, len)
      PROVE  BlockOK'
  <2>1. stage = "idle"
    BY <1>2 DEF BeginWrite, RingInv
  <2>2. stage' = "block" /\ st' = stat /\ log' = log /\ stat' = stat
    BY <1>2 DEF BeginWrite, device
  <2>3. Newest' = Newest
    BY <2>1, <2>2 DEF Newest, Storing
  <2>4. QED BY <1>1, <2>2, <2>3, BlockSame
<1>3. ASSUME NEW p \in Writers, WakeUp(p)
      PROVE  BlockOK'
  <2>1. stage = "idle"
    BY <1>3 DEF WakeUp, RingInv
  <2>2. stage' = "block" /\ st' = stat /\ log' = log /\ stat' = stat
    BY <1>3 DEF WakeUp, device
  <2>3. Newest' = Newest
    BY <2>1, <2>2 DEF Newest, Storing
  <2>4. QED BY <1>1, <2>2, <2>3, BlockSame
<1>4. CASE WaitForReader
  <2>1. stage = "block" /\ stage' = "idle" /\ stat' = stat /\ log' = log
    BY <1>4 DEF WaitForReader, Release, device
  <2>2. Newest' = Newest /\ ~Writing'
    BY <2>1 DEF Newest, Storing, Writing
  <2>3. QED BY <1>1, <2>1, <2>2, BlockSame
<1>5. CASE StopWaiting
  <2>1. /\ stage = "block" /\ stage' = "ring" /\ stat' = stat /\ log' = log
        /\ st' = [st EXCEPT !.blockingWrite = TRUE] /\ OverwriteId # st.lastIdRead
    BY <1>5 DEF StopWaiting, device
  <2>2. /\ Newest' = Newest /\ Writing /\ st'.lastIdRead = st.lastIdRead
    BY <1>1, <2>1 DEF Newest, Storing, Writing, StatType
  <2>3. job.id = Newest
    BY <2>2 DEF SerialInv
  <2>4. PICK l : l = st.lastIdRead
    OBVIOUS
  <2>5. l \in Int /\ Newest <= l + NSlots /\ l >= 0
    <3>1. l \in Int
      BY <1>1, <2>4, LastRead
    <3>2. Newest + 0 <= l + NSlots /\ l >= 0
      BY <2>1, <2>2, <2>4 DEF BlockOK
    <3>3. QED BY <1>1, <3>1, <3>2
  <2>6. Newest + 1 <= l + NSlots
    <3>1. SUFFICES ASSUME Newest = l + NSlots PROVE FALSE
      BY <1>1, <2>5
    <3>2. ~(job.id - NSlots < 0) /\ job.id - NSlots = l
      BY <1>1, <2>3, <2>5, <3>1
    <3>3. QED BY <2>1, <2>4, <3>2 DEF OverwriteId
  <2>7. \A r \in Readers : Reported(st, r)' /\ Reported(stat, r)'
    BY <2>1, <2>2 DEF BlockOK, Reported, Joined
  <2>8. QED BY <2>1, <2>2, <2>4, <2>5, <2>6, <2>7 DEF BlockOK
<1>6. CASE RingHasRoom \/ Packed \/ SwitchToInsert \/ FreeOldestSlot
  <2>1. /\ stage \in {"ring", "pack", "fit"} /\ stage' \in {"pack", "fit"}
        /\ stat' = stat /\ log' = log
    BY <1>6 DEF RingHasRoom, Packed, SwitchToInsert, FreeOldestSlot, MustFree,
                device
  <2>2. st'.lastIdRead = st.lastIdRead
    BY <1>1, <1>6 DEF RingHasRoom, Packed, SwitchToInsert, FreeOldestSlot,
                      Freed, StatType
  <2>3. Newest' = Newest /\ Writing
    BY <2>1 DEF Newest, Storing, Writing
  <2>4. QED BY <1>1, <2>1, <2>2, <2>3, BlockSame
<1>7. ~TooLarge
  BY NothingTooLarge
<1>8. CASE OffsetMismatch
  <2>1. /\ stage \in {"ring", "fit"} /\ stage' = "clearBuf" /\ stat' = stat
        /\ log' = log
    BY <1>8 DEF OffsetMismatch, MustFree, device
  <2>2. Newest' = Newest /\ ~Writing'
    BY <2>1 DEF Newest, Storing, Writing
  <2>3. QED BY <1>1, <2>1, <2>2, BlockSame
<1>9. CASE ChooseOffset
  <2>1. /\ stage = "fit" /\ stage' = "entry" /\ st' = st /\ stat' = stat
        /\ \E e : log' = Append(log, e)
    BY <1>9 DEF ChooseOffset, device
  <2>2. log \in Seq(Entry)
    BY DEF IInv, TypeInv, TypeOK
  <2>3. Len(log') = Len(log) + 1 /\ Len(log) \in Nat
    BY <2>1, <2>2, SMT
  <2>4. Newest = Len(log) /\ Newest' = Len(log') - 1 /\ Writing
    BY <2>1 DEF Newest, Storing, Writing
  <2>5. Newest' = Newest
    BY <2>3, <2>4
  <2>6. QED BY <1>1, <2>1, <2>4, <2>5, BlockSame
<1>10. CASE WriteWord \/ WriteSlot
  <2>1. /\ stage \in {"entry", "slot"} /\ stage' \in {"entry", "slot", "stat"}
        /\ st' = st /\ stat' = stat /\ log' = log
    BY <1>10 DEF WriteWord, WriteSlot
  <2>2. Newest' = Newest /\ Writing
    BY <2>1 DEF Newest, Storing, Writing
  <2>3. QED BY <1>1, <2>1, <2>2, BlockSame
<1>11. CASE WriteStat
  <2>1. /\ stage = "stat" /\ stage' = "idle" /\ log' = log
        /\ stat' = Published(st)
    BY <1>11 DEF WriteStat, Release
  <2>2. /\ Writing /\ ~Writing' /\ Newest' = Len(log) /\ Storing
    BY <2>1 DEF Newest, Storing, Writing
  <2>3. /\ stat'.lastIdRead = st.lastIdRead /\ stat'.youngestId = job.id
    BY <1>1, <2>1 DEF Published, StatType
  <2>4. job.id # Unset
    BY <2>2 DEF IInv, TypeInv, Job, Ids, Unset
  <2>5. Newest' = Newest + 1
    BY <2>2, NewestNat
  <2>6. Newest + 1 <= st.lastIdRead + NSlots /\ st.lastIdRead >= 0
    BY <2>1, <2>2 DEF BlockOK
  <2>7. \A r \in Readers : Reported(stat, r)'
    BY <2>2, <2>3 DEF BlockOK, Reported, Joined
  <2>8. QED BY <2>2, <2>3, <2>4, <2>5, <2>6, <2>7 DEF BlockOK
<1>12. ~ClearBuf /\ ~ClearSlot /\ ~ClearStat /\ ~Abandon
  BY DEF ClearBuf, ClearSlot, ClearStat, RingInv, Reinitialising, Abandon, Smooth
<1>13. QED
  BY <1>2, <1>3, <1>4, <1>5, <1>6, <1>7, <1>8, <1>9, <1>10, <1>11, <1>12
     DEF WriterNext, HolderStep

(* What the reader may do: stay where it is, join, or take the next message. *)
LEMMA LineOpens ==
  ASSUME "START" \notin OpenAt, OrderInv, BlockOK, NEW r \in Readers,
         InLine(rd[r], last[r].ser),
         OpenAtStart(r) \/ OpenAtEnd(r) \/ PollStat(r) \/ UpdateLastIdRead(r)
  PROVE  /\ InLine(rd'[r], last'[r].ser) /\ last'[r].ser = last[r].ser
         /\ Joined(rd'[r]) <=> Joined(rd[r])
<1>1. PICK x : x = rd[r]
  OBVIOUS
<1>2. PICK p : p = last[r].ser
  OBVIOUS
<1>3. PICK n : n = rd'[r]
  OBVIOUS
<1>4. /\ x \in Reader /\ rd \in [Readers -> Reader] /\ p \in Nat
      /\ Points(stat) /\ InLine(x, p) /\ stat \in StatType
      /\ Newest \in Nat
  BY <1>1, <1>2, ReaderFacts, NewestNat DEF SerialInv
<1>5. last'[r].ser = p
  BY <1>2 DEF OpenAtStart, OpenAtEnd, PollStat, UpdateLastIdRead
<1>6. CASE OpenAtEnd(r)
  <2>1. x.stage = "closed" /\ n.stage = "seekEnd" /\ n.st = stat
    BY <1>1, <1>3, <1>4, <1>6 DEF OpenAtEnd, Reader
  <2>2. stat.youngestId = Unset => ~stat.blockingWrite
    BY DEF BlockOK
  <2>3. InLine(n, p) /\ ~Joined(n) /\ ~Joined(x)
    BY <1>4, <2>1, <2>2 DEF InLine, Joined
  <2>4. QED BY <1>1, <1>2, <1>3, <1>5, <2>3
<1>7. CASE PollStat(r)
  <2>1. x.stage = "ready" /\ Joined(x)
    BY <1>1, <1>7 DEF PollStat, Joined
  <2>2. /\ p <= Newest
        /\ IF p = 0 THEN x.lastId = Unset /\ x.lastSlot = Unset
                    ELSE x.lastId = p - 1 /\ x.lastSlot = log[p].slot
    BY <1>4, <2>1 DEF InLine
  <2>3. CASE stat.youngestId = Unset
    <3>1. p = 0
      <4>1. Newest - 1 = -1
        BY <1>4, <2>3 DEF Points, Unset
      <4>2. QED BY <1>4, <2>2, <4>1
    <3>2. n.stage = "ready" /\ n.lastId = Unset /\ n.lastSlot = Unset
      BY <1>1, <1>3, <1>4, <1>7, <2>3 DEF PollStat, Ready
    <3>3. InLine(n, p) /\ Joined(n)
      BY <2>2, <3>1, <3>2 DEF InLine, Joined
    <3>4. QED BY <1>1, <1>2, <1>3, <1>5, <2>1, <3>3
  <2>4. CASE stat.youngestId # Unset /\ stat.youngestId = x.lastId
    <3>1. n = x
      BY <1>1, <1>3, <1>7, <2>4 DEF PollStat
    <3>2. QED BY <1>1, <1>2, <1>3, <1>4, <1>5, <3>1
  <2>5. CASE stat.youngestId # Unset /\ stat.youngestId # x.lastId
    <3>1. /\ n.stage = "next" /\ n.lastId = x.lastId
          /\ n.lastSlot = x.lastSlot /\ n.st = stat
      BY <1>1, <1>3, <1>4, <1>7, <2>5 DEF PollStat, Reader
    <3>2. Seen(n) = Newest
      BY <1>4, <3>1 DEF Seen, Points
    <3>3. p < Newest
      <4>1. Newest # 0
        BY <1>4, <2>5 DEF Points, Unset
      <4>2. p = Newest => x.lastId = stat.youngestId
        BY <1>4, <2>2, <4>1 DEF Points
      <4>3. QED BY <1>4, <2>2, <2>5, <4>2
    <3>4. InLine(n, p) /\ Joined(n)
      BY <2>2, <3>1, <3>2, <3>3 DEF InLine, Joined
    <3>5. QED BY <1>1, <1>2, <1>3, <1>5, <2>1, <3>4
  <2>6. QED BY <2>3, <2>4, <2>5
<1>8. CASE UpdateLastIdRead(r)
  <2>1. x.stage = "update" /\ Joined(x)
    BY <1>1, <1>8 DEF UpdateLastIdRead, Joined
  <2>2. n.stage = "ready" /\ n.lastId = x.lastId /\ n.lastSlot = x.lastSlot
    BY <1>1, <1>3, <1>4, <1>8 DEF UpdateLastIdRead, Ready
  <2>3. InLine(n, p) /\ Joined(n)
    BY <1>4, <2>1, <2>2 DEF InLine, Joined
  <2>4. QED BY <1>1, <1>2, <1>3, <1>5, <2>1, <2>3
<1>9. ~OpenAtStart(r)
  BY DEF OpenAtStart
<1>10. QED BY <1>6, <1>7, <1>8, <1>9

LEMMA LineJoins ==
  ASSUME OrderInv, AllKept, BlockOK, NEW r \in Readers,
         InLine(rd[r], last[r].ser), SeekEnd(r)
  PROVE  /\ InLine(rd'[r], last'[r].ser) /\ last'[r].ser \in 0 .. Newest
         /\ ~Joined(rd[r])
         /\ ~Joined(rd'[r]) => last'[r].ser = last[r].ser
<1>1. PICK x : x = rd[r]
  OBVIOUS
<1>2. PICK n : n = rd'[r]
  OBVIOUS
<1>3. /\ x \in Reader /\ rd \in [Readers -> Reader]
      /\ last \in [Readers -> Delivery] /\ last[r].ser \in Nat
      /\ IInv /\ RingInv /\ SerialInv /\ TypeInv /\ ReaderInv
      /\ ReaderOK(x) /\ Position(x, last[r].ser, last[r].ahead)
      /\ Newest \in Nat /\ Newest <= Len(log) /\ Len(log) \in Nat
  BY <1>1, ReaderFacts, NewestNat DEF OrderInv
<1>4. x.stage = "seekEnd" /\ ~Joined(x) /\ last[r].ser = 0
  BY <1>1 DEF SeekEnd, Joined, InLine
<1>5. /\ x.st.youngestId \in ReadIds /\ x.st.youngestId < Newest
      /\ x.st.youngestId = Unset => ~x.st.blockingWrite
  BY <1>1, <1>3, <1>4 DEF ReaderOK, Position, InLine
<1>6. CASE x.st.youngestId = Unset
  <2>1. Ready(r, Unset, Unset) /\ last' = last
    BY <1>1, <1>5, <1>6 DEF SeekEnd, Positioned
  <2>2. n.stage = "ready" /\ n.lastId = Unset /\ n.lastSlot = Unset
    BY <1>2, <1>3, <2>1 DEF Ready
  <2>3. InLine(n, 0) /\ Joined(n)
    BY <1>3, <2>2 DEF InLine, Joined
  <2>4. last'[r].ser = 0 /\ 0 \in 0 .. Newest
    BY <1>3, <1>4, <2>1
  <2>5. QED BY <1>1, <1>2, <1>4, <2>3, <2>4
<1>7. CASE rd' = [rd EXCEPT ![r] = Closed] /\ last' = last
  <2>1. n.stage = "closed" /\ last'[r].ser = 0 /\ 0 \in 0 .. Newest
    BY <1>2, <1>3, <1>4, <1>7 DEF Closed
  <2>2. InLine(n, 0) /\ ~Joined(n)
    BY <1>3, <2>1 DEF InLine, Joined
  <2>3. QED BY <1>1, <1>2, <1>4, <2>1, <2>2
<1>8. ASSUME NEW id, id = x.st.youngestId, id # Unset, SlotHolding(id) # Unset,
             Positioned(r, id, SlotHolding(id)),
             last' = [last EXCEPT ![r].ser = SerialOf(id)]
      PROVE  /\ InLine(n, last'[r].ser) /\ last'[r].ser \in 0 .. Newest
             /\ Joined(n)
  <2>1. PICK k : k = SerialOf(id)
    OBVIOUS
  <2>2. k \in 1 .. Len(log) /\ log[k].id = id
    BY <1>3, <1>5, <1>8, <2>1, SerialFound
  <2>3. id = k - 1 /\ k <= Newest /\ k \in Nat
    <3>1. log[k].id = k - 1
      BY <1>3, <2>2, LogFacts
    <3>2. QED BY <1>3, <1>5, <1>8, <2>2, <3>1, SMT
  <2>4. SlotHolding(id) = log[k].slot \/ Gone(k + 1)
    BY <1>3, <1>8, <2>2, <2>3, SlotFound
  <2>5. ~Gone(k + 1)
    <3>1. SUFFICES ASSUME k + 1 <= Newest PROVE Retained(k + 1)
      BY <2>3 DEF Gone
    <3>2. k + 1 \in 1 .. Newest /\ k + 1 > last[r].ser
      BY <1>3, <1>4, <2>3, <3>1
    <3>3. QED BY <1>3, <3>2, UnreadKept
  <2>6. /\ n.stage \in {"ready", "update"} /\ n.lastId = id
        /\ n.lastSlot = SlotHolding(id)
    BY <1>2, <1>3, <1>8 DEF Positioned, Ready, Reader
  <2>7. last'[r].ser = k
    BY <1>3, <1>8, <2>1 DEF Delivery
  <2>8. k # 0 /\ k > 0 /\ k \in 0 .. Newest
    BY <1>3, <2>2, <2>3
  <2>9. InLine(n, k) /\ Joined(n)
    BY <2>3, <2>4, <2>5, <2>6, <2>8 DEF InLine, Joined
  <2>10. QED BY <2>7, <2>8, <2>9
<1>9. QED BY <1>1, <1>2, <1>4, <1>6, <1>7, <1>8 DEF SeekEnd

(* The slot it asks for is that of the next message. *)
LEMMA LineAsks ==
  ASSUME OrderInv, AllKept, BlockOK, NEW r \in Readers, NEW x, x = rd[r],
         NEW p, p = last[r].ser, InLine(x, p), x.stage \in {"next", "nextMsg"},
         NEW t, t = log[p + 1].slot
  PROVE  /\ p \in Nat /\ p + 1 \in 1 .. Newest /\ p + 1 \in 1 .. Len(log)
         /\ Target(r) = t /\ t \in Slots /\ NextSlot(x.lastSlot) = t
         /\ slots[t].active /\ slots[t].id = p /\ ~Gone(p + 1)
         /\ Joined(x)
<1>1. /\ x \in Reader /\ p \in Nat /\ IInv /\ RingInv /\ SerialInv /\ ReaderInv
      /\ Position(x, p, last[r].ahead)
      /\ Newest \in Nat /\ Newest <= Len(log) /\ Len(log) \in Nat
  BY ReaderFacts, NewestNat DEF OrderInv
<1>2. /\ Joined(x) /\ p < Seen(x) /\ Seen(x) \in 1 .. Newest
      /\ IF p = 0 THEN x.lastId = Unset /\ x.lastSlot = Unset
                  ELSE x.lastId = p - 1 /\ x.lastSlot = log[p].slot
  BY <1>1 DEF InLine, Joined, Position, Polls
<1>3. p + 1 \in 1 .. Newest /\ p + 1 \in 1 .. Len(log)
  BY <1>1, <1>2, SMT
<1>4. NextSlot(x.lastSlot) = t
  <2>1. CASE p = 0
    <3>1. log[1].slot = 0
      BY <1>1, <1>3 DEF SerialInv
    <3>2. NextSlot(Unset) = 0
      BY SizesAssumption DEF NextSlot, Unset
    <3>3. p + 1 = 1
      BY <2>1
    <3>4. QED BY <1>2, <2>1, <3>1, <3>2, <3>3
  <2>2. CASE p # 0
    <3>1. p \in 1 .. Len(log)
      BY <1>1, <1>3, <2>2
    <3>2. PICK k : k = p + 1
      OBVIOUS
    <3>3. log[k].slot = NextSlot(log[p].slot)
      BY <1>1, <1>3, <3>1, <3>2, SlotOrder
    <3>4. QED BY <1>2, <2>2, <3>2, <3>3
  <2>3. QED BY <2>1, <2>2
<1>5. Target(r) = t
  BY <1>4 DEF Target
<1>6. t \in Slots
  BY <1>1, <1>3, LogFacts
<1>7. p + 1 > p
  BY <1>1
<1>8. Retained(p + 1)
  BY <1>1, <1>3, <1>7, UnreadKept
<1>9. slots[t].active /\ slots[t].id = p
  <2>1. PICK k : k = p + 1
    OBVIOUS
  <2>2. slots[log[k].slot].active /\ slots[log[k].slot].id = k - 1
    BY <1>1, <1>3, <1>8, <2>1, RetainedIs
  <2>3. k - 1 = p
    BY <1>1, <2>1
  <2>4. QED BY <2>1, <2>2, <2>3
<1>10. ~Gone(p + 1)
  BY <1>1, <1>3, <1>8 DEF Gone
<1>11. QED BY <1>1, <1>2, <1>3, <1>4, <1>5, <1>6, <1>9, <1>10

LEMMA LineLooks ==
  ASSUME OrderInv, AllKept, BlockOK, NEW r \in Readers,
         InLine(rd[r], last[r].ser), ReadSlot(r)
  PROVE  /\ InLine(rd'[r], last'[r].ser) /\ last'[r].ser = last[r].ser
         /\ Joined(rd'[r]) /\ Joined(rd[r])
<1>1. PICK x : x = rd[r]
  OBVIOUS
<1>2. PICK n : n = rd'[r]
  OBVIOUS
<1>3. PICK p : p = last[r].ser
  OBVIOUS
<1>4. PICK t : t = log[p + 1].slot
  OBVIOUS
<1>5. x \in Reader /\ rd \in [Readers -> Reader] /\ last'[r].ser = p
  BY <1>1, <1>3, ReaderFacts DEF ReadSlot
<1>6. x.stage = "next"
  BY <1>1 DEF ReadSlot, InLine, Joined
<1>7. /\ p \in Nat /\ Target(r) = t /\ t \in Slots
      /\ slots[t].active /\ slots[t].id = p /\ Joined(x) /\ InLine(x, p)
  BY <1>1, <1>3, <1>4, <1>6, LineAsks
<1>8. Follows(r, slots[t])
  <2>1. x.lastId = Unset \/ (p # 0 /\ x.lastId = p - 1)
    BY <1>7, <1>6 DEF InLine
  <2>2. p # 0 => PrevId(slots[t].id) = p - 1
    BY <1>7 DEF PrevId
  <2>3. QED BY <1>1, <1>7, <2>1, <2>2 DEF Follows
<1>9. SlotAt(Target(r)) = slots[t]
  BY <1>7 DEF SlotAt
<1>10. rd' = [rd EXCEPT ![r].copy = slots[t], ![r].stage = "nextMsg"]
  BY <1>1, <1>6, <1>8, <1>9 DEF ReadSlot
<1>11. /\ n.stage = "nextMsg" /\ n.copy = slots[t] /\ n.st = x.st
       /\ n.lastId = x.lastId /\ n.lastSlot = x.lastSlot
  BY <1>1, <1>2, <1>5, <1>10 DEF Reader
<1>12. InLine(n, p) /\ Joined(n)
  BY <1>4, <1>6, <1>7, <1>11 DEF InLine, Joined, Seen
<1>13. QED BY <1>1, <1>2, <1>3, <1>5, <1>7, <1>12

(* The message it takes is the next one. *)
LEMMA LineTakes ==
  ASSUME OrderInv, AllKept, BlockOK, NEW r \in Readers,
         InLine(rd[r], last[r].ser), ReadMsg(r)
  PROVE  /\ InLine(rd'[r], last'[r].ser)
         /\ last'[r].ser = last[r].ser + 1 /\ last'[r].ser <= Newest
         /\ Joined(rd'[r]) /\ Joined(rd[r])
<1>1. PICK x : x = rd[r]
  OBVIOUS
<1>2. PICK n : n = rd'[r]
  OBVIOUS
<1>3. PICK p : p = last[r].ser
  OBVIOUS
<1>4. PICK t : t = log[p + 1].slot
  OBVIOUS
<1>5. PICK c : c = x.copy
  OBVIOUS
<1>6. /\ x \in Reader /\ rd \in [Readers -> Reader]
      /\ last \in [Readers -> Delivery] /\ c \in CopyType
      /\ IInv /\ RingInv /\ SerialInv /\ TypeInv /\ Traced
      /\ ReaderOK(x) /\ Position(x, p, last[r].ahead)
  BY <1>1, <1>3, <1>5, ReaderFacts, ReaderFields
<1>7. x.stage = "nextMsg"
  BY <1>1 DEF ReadMsg, InLine, Joined
<1>8. /\ p \in Nat /\ p + 1 \in 1 .. Newest /\ Target(r) = t /\ t \in Slots
      /\ slots[t].active /\ ~Gone(p + 1) /\ Joined(x) /\ InLine(x, p)
  BY <1>1, <1>3, <1>4, <1>7, LineAsks
<1>9. c.id = p /\ c = slots[t]
  BY <1>4, <1>5, <1>7, <1>8 DEF InLine
<1>10. c.len > 0 /\ CopyOK(c)
  BY <1>5, <1>6, <1>7, <1>8, <1>9, InUseWhole DEF ReaderOK
<1>11. EntryChecks(c)
  <2>1. CopyTrue(x)
    BY <1>5, <1>6, <1>7, <1>10 DEF Position, Reads
  <2>2. ~Gone(x.copy.id + 1)
    BY <1>5, <1>8, <1>9
  <2>3. QED BY <1>5, <1>6, <1>10, <2>1, <2>2, KeptPasses
<1>12. Deliver(r, c) /\ Positioned(r, p, t)
  BY <1>1, <1>5, <1>8, <1>9, <1>11 DEF ReadMsg
<1>13. last'[r].ser = p + 1
  <2>1. last'[r].ser = buf[c.offset + c.len - 1].ser
    BY <1>6, <1>12 DEF Deliver
  <2>2. buf[c.offset + c.len - 1].ser = c.id + 1
    BY <1>6, <1>10, <1>11, CheckedSerial
  <2>3. QED BY <1>9, <2>1, <2>2
<1>14. /\ n.stage \in {"ready", "update"} /\ n.lastId = p /\ n.lastSlot = t
  BY <1>1, <1>2, <1>6, <1>12 DEF Positioned, Ready, Reader
<1>15. PICK q : q = p + 1
  OBVIOUS
<1>16. q # 0 /\ q > 0 /\ q <= Newest /\ q - 1 = p
  BY <1>8, <1>15
<1>17. InLine(n, q) /\ Joined(n)
  BY <1>4, <1>14, <1>15, <1>16 DEF InLine, Joined
<1>18. QED BY <1>1, <1>2, <1>3, <1>8, <1>13, <1>15, <1>16, <1>17

(* A step of the reader, as FmqFifo sees it. *)
Goes(x, p, n, q) ==
  \/ (Joined(x) <=> Joined(n)) /\ q = p
  \/ ~Joined(x) /\ Joined(n) /\ q \in 0 .. Newest
  \/ Joined(x) /\ Joined(n) /\ q = p + 1 /\ q <= Newest

LEMMA ReaderGoes ==
  ASSUME "START" \notin OpenAt, OrderInv, AllKept, BlockOK, NEW r \in Readers,
         InLine(rd[r], last[r].ser),
         OpenAtStart(r) \/ OpenAtEnd(r) \/ ReaderStep(r)
  PROVE  /\ InLine(rd[r], last[r].ser)'
         /\ Goes(rd[r], last[r].ser, rd'[r], last'[r].ser)
         /\ slots' = slots /\ log' = log /\ stage' = stage /\ st' = st
         /\ Newest' = Newest
<1>1. slots' = slots /\ log' = log /\ stage' = stage /\ st' = st
  BY DEF OpenAtStart, OpenAtEnd, ReaderStep, SeekEnd, PollStat, ReadSlot,
         ReadMsg, UpdateLastIdRead, ReaderReports, vars, device, local
<1>2. Newest' = Newest
  BY <1>1 DEF Newest, Storing
<1>3. /\ InLine(rd'[r], last'[r].ser)
      /\ Goes(rd[r], last[r].ser, rd'[r], last'[r].ser)
  <2>1. CASE \/ OpenAtStart(r) \/ OpenAtEnd(r) \/ PollStat(r)
             \/ UpdateLastIdRead(r)
    BY <2>1, LineOpens DEF Goes
  <2>2. CASE SeekEnd(r)
    BY <2>2, LineJoins DEF Goes
  <2>3. CASE ReadSlot(r)
    BY <2>3, LineLooks DEF Goes
  <2>4. CASE ReadMsg(r)
    BY <2>4, LineTakes DEF Goes
  <2>5. QED BY <2>1, <2>2, <2>3, <2>4 DEF ReaderStep
<1>4. InLine(rd[r], last[r].ser)'
  BY <1>1, <1>2, <1>3 DEF InLine, Seen, Joined
<1>5. QED BY <1>1, <1>2, <1>3, <1>4

(* The reader reports what it took last, and never less than before. *)
LEMMA BlockReader ==
  ASSUME "START" \notin OpenAt, \A q, s \in Readers : q = s,
         OrderInv, AllKept, BlockOK, NEW r \in Readers,
         InLine(rd[r], last[r].ser),
         OpenAtStart(r) \/ OpenAtEnd(r) \/ ReaderStep(r)
  PROVE  BlockOK'
<1>1. /\ Goes(rd[r], last[r].ser, rd'[r], last'[r].ser)
      /\ stage' = stage /\ st' = st /\ Newest' = Newest
  BY ReaderGoes
<1>2. /\ rd[r] \in Reader /\ last[r].ser \in Nat /\ stat \in StatType
      /\ st \in StatType /\ IInv /\ SerialInv /\ Newest \in Nat
      /\ NSlots \in Nat
  BY ReaderFacts, NewestNat, SizesAssumption DEF IInv, TypeInv, TypeOK
<1>3. PICK p \in Nat : p = last[r].ser
  BY <1>2
<1>4. PICK q : q = last'[r].ser
  OBVIOUS
<1>5. /\ Joined(rd[r]) => Joined(rd'[r]) /\ q >= p
      /\ q \in Int
  BY <1>1, <1>2, <1>3, <1>4 DEF Goes
<1>6. ASSUME NEW s \in StatType, \A u \in Readers : Reported(s, u)
      PROVE  s.lastIdRead = 0 \/ (Joined(rd'[r]) /\ s.lastIdRead < q)
  <2>1. s.lastIdRead \in Int
    BY LastRead
  <2>2. s.lastIdRead = 0 \/ (Joined(rd[r]) /\ s.lastIdRead < p)
    BY <1>3, <1>6 DEF Reported
  <2>3. QED BY <1>3, <1>5, <2>1, <2>2, SMT
<1>7. Writing' => \A u \in Readers : Reported(st, u)'
  <2>1. SUFFICES ASSUME Writing' PROVE Reported(st, r)'
    OBVIOUS
  <2>2. Writing /\ \A u \in Readers : Reported(st, u)
    BY <1>1, <2>1 DEF Writing, BlockOK
  <2>3. QED BY <1>1, <1>2, <1>4, <1>6, <2>2 DEF Reported
<1>8. Writing' =>
        /\ Newest' + (IF stage' = "block" THEN 0 ELSE 1)
             <= st'.lastIdRead + NSlots
        /\ st'.lastIdRead >= 0
  BY <1>1 DEF Writing, BlockOK
<1>9. CASE stat' = stat
  <2>1. \A u \in Readers : Reported(stat, u)'
    <3>1. SUFFICES Reported(stat, r)'
      OBVIOUS
    <3>2. QED BY <1>2, <1>4, <1>6, <1>9 DEF Reported, BlockOK
  <2>2. QED BY <1>1, <1>7, <1>8, <1>9, <2>1 DEF BlockOK
<1>10. CASE UpdateLastIdRead(r)
  <2>1. /\ stat' = [stat EXCEPT !.lastIdRead = rd[r].lastId]
        /\ rd[r].stage = "update" /\ last' = last
    BY <1>10 DEF UpdateLastIdRead, ReaderReports
  <2>2. rd[r].lastId = p - 1 /\ p > 0 /\ Joined(rd[r])
    BY <1>3, <2>1 DEF InLine, Joined
  <2>3. /\ stat'.lastIdRead = p - 1 /\ stat'.youngestId = stat.youngestId
        /\ stat'.blockingWrite = stat.blockingWrite
    BY <1>2, <2>1, <2>2 DEF StatType
  <2>4. stat.lastIdRead <= p - 1 /\ stat.lastIdRead \in Int
    <3>1. stat.lastIdRead \in Int
      BY <1>2, LastRead
    <3>2. stat.lastIdRead = 0 \/ stat.lastIdRead < p
      BY <1>3 DEF BlockOK, Reported
    <3>3. QED BY <1>3, <2>2, <3>1, <3>2, SMT
  <2>5. Newest <= (p - 1) + NSlots
    <3>1. Newest <= stat.lastIdRead + NSlots
      BY DEF BlockOK
    <3>2. QED BY <1>2, <1>3, <2>4, <3>1, SMT
  <2>6. p - 1 >= 0 /\ p - 1 < p
    BY <1>3, <2>2
  <2>7. q = p /\ Joined(rd'[r])
    BY <1>3, <1>4, <1>5, <2>1, <2>2
  <2>8. Reported(stat, r)'
    BY <1>4, <2>3, <2>6, <2>7 DEF Reported
  <2>9. \A u \in Readers : Reported(stat, u)'
    BY <2>8
  <2>10. stat'.youngestId = Unset => ~stat'.blockingWrite
    BY <2>3 DEF BlockOK
  <2>11. QED BY <1>1, <1>7, <1>8, <2>3, <2>5, <2>6, <2>9, <2>10 DEF BlockOK
<1>11. QED
  BY <1>9, <1>10 DEF OpenAtStart, OpenAtEnd, ReaderStep, SeekEnd, PollStat,
     ReadSlot, ReadMsg, vars, device

LEMMA NewestThen == (IInv /\ SerialInv => Newest \in Nat)'
<1>1. IInv /\ SerialInv => Newest \in Nat
  BY NewestNat
<1>2. QED BY <1>1, PTL

(* The writers leave a reader where it is. *)
LEMMA LineWriter ==
  ASSUME Smooth, OrderInv, OrderInv', AllKept', BlockOK, BlockOK', AllKept,
         [Next]_vars, NEW r \in Readers, rd' = rd, last' = last,
         InLine(rd[r], last[r].ser)
  PROVE  InLine(rd[r], last[r].ser)'
<1>1. PICK x : x = rd[r]
  OBVIOUS
<1>2. PICK p : p = last[r].ser
  OBVIOUS
<1>3. /\ x \in Reader /\ p \in Nat /\ IInv /\ RingInv /\ SerialInv
      /\ ReaderOK(x) /\ Position(x, p, last[r].ahead) /\ InLine(x, p)
      /\ Newest \in Nat /\ Newest <= Len(log) /\ Len(log) \in Nat
      /\ IInv' /\ RingInv' /\ SerialInv' /\ ReaderInv'
  BY <1>1, <1>2, ReaderFacts, NewestNat DEF OrderInv
<1>4. /\ Newest <= Newest' /\ Newest' \in Int
      /\ \A k \in 1 .. Len(log) : log'[k] = log[k]
  <2>1. Newest' \in Int
    BY <1>3, NewestThen
  <2>2. QED BY <1>3, <2>1, GoneStays, LogGrows DEF IInv
<1>5. p <= Newest'
  BY <1>3, <1>4 DEF InLine
<1>6. p # 0 => log'[p] = log[p]
  <2>1. p # 0 => p \in 1 .. Len(log)
    BY <1>3 DEF InLine
  <2>2. QED BY <1>4, <2>1
<1>7. ASSUME x.stage = "nextMsg"
      PROVE  slots'[log'[p + 1].slot] = slots[log[p + 1].slot]
  <2>1. PICK t : t = log[p + 1].slot
    OBVIOUS
  <2>2. /\ p + 1 \in 1 .. Newest /\ p + 1 \in 1 .. Len(log) /\ t \in Slots
        /\ slots[t].active /\ slots[t].id = p
    BY <1>1, <1>2, <1>3, <1>7, <2>1, LineAsks
  <2>3. log'[p + 1].slot = t
    BY <1>4, <2>1, <2>2
  <2>4. SUFFICES ASSUME slots'[t] # slots[t] PROVE FALSE
    BY <2>1, <2>3
  <2>5. PICK k : k = p + 1
    OBVIOUS
  <2>6. Gone(k)'
    BY <1>3, <2>2, <2>4, <2>5, SlotStays
  <2>7. k \in 1 .. Newest' /\ k > p
    BY <1>3, <1>4, <2>2, <2>5, SMT
  <2>8. Retained(k)'
    BY <1>2, <1>3, <2>7, UnreadKeptThen
  <2>9. QED BY <2>6, <2>7, <2>8 DEF Gone
<1>8. InLine(x, p)'
  BY <1>3, <1>5, <1>6, <1>7 DEF InLine, Joined, Seen
<1>9. QED BY <1>1, <1>2, <1>8

LEMMA PairStep ==
  ASSUME NEW most \in Nat, Paired(most), PairInv(most), OrderInv',
         [ReaderNext]_rvars
  PROVE  PairInv(most)'
<1>1. /\ Smooth /\ BlockingWrite = TRUE /\ \A q, r \in Readers : q = r
      /\ "START" \notin OpenAt /\ \A len \in Lens : len <= most
      /\ NSlots * most <= BufSize
  BY DEF Paired
<1>2. /\ OrderInv /\ IInv /\ RingInv /\ SerialInv /\ ReaderInv
      /\ IInv' /\ RingInv' /\ SerialInv' /\ ReaderInv'
      /\ WellKept(most) /\ AllKept /\ BlockOK
      /\ \A r \in Readers : InLine(rd[r], last[r].ser)
  BY DEF PairInv, OrderInv, WellKept
<1>3. [Next]_vars
  BY <1>2, ReaderIsNext
<1>4. WellKept(most)'
  BY <1>1, <1>2, <1>3, KeptStep
<1>5. AllKept'
  BY <1>4 DEF WellKept
<1>6. CASE WriterNext /\ UNCHANGED <<rd, last>>
  <2>1. BlockOK'
    BY <1>1, <1>2, <1>6, BlockWriter
  <2>2. \A r \in Readers : InLine(rd[r], last[r].ser)'
    BY <1>1, <1>2, <1>3, <1>5, <1>6, <2>1, LineWriter
  <2>3. QED BY <1>4, <2>1, <2>2 DEF PairInv
<1>7. ASSUME NEW r \in Readers, OpenAtStart(r) \/ OpenAtEnd(r) \/ ReaderStep(r)
      PROVE  PairInv(most)'
  <2>1. BlockOK'
    BY <1>1, <1>2, <1>7, BlockReader
  <2>2. InLine(rd[r], last[r].ser)'
    BY <1>1, <1>2, <1>7, ReaderGoes
  <2>3. \A q \in Readers : InLine(rd[q], last[q].ser)'
    BY <1>1, <2>2
  <2>4. QED BY <1>4, <2>1, <2>3 DEF PairInv
<1>8. CASE UNCHANGED rvars
  <2>1. /\ stat' = stat /\ slots' = slots /\ stage' = stage /\ st' = st
        /\ log' = log /\ rd' = rd /\ last' = last
    BY <1>8 DEF rvars, vars, device, local
  <2>2. BlockOK'
    BY <1>2, <2>1 DEF BlockOK, Reported, Joined, Newest, Storing, Writing
  <2>3. \A r \in Readers : InLine(rd[r], last[r].ser)'
    BY <1>2, <2>1 DEF InLine, Joined, Seen, Newest, Storing
  <2>4. QED BY <1>4, <2>2, <2>3 DEF PairInv
<1>9. QED BY <1>6, <1>7, <1>8 DEF ReaderNext

LEMMA PairInit ==
  ASSUME NEW most \in Nat, ReaderInit, OrderInv
  PROVE  PairInv(most)
<1>1. /\ Init /\ stage = "idle" /\ log = <<>> /\ stat = InitStat
      /\ \A r \in Readers : rd[r] = Closed /\ last[r] = NoDelivery
  BY DEF ReaderInit, Init
<1>2. Newest = 0 /\ ~Writing
  BY <1>1 DEF Newest, Storing, Writing
<1>3. /\ InitStat.lastIdRead = 0 /\ InitStat.blockingWrite = FALSE
  BY DEF InitStat
<1>4. BlockOK
  BY <1>1, <1>2, <1>3, SizesAssumption DEF BlockOK, Reported
<1>5. Closed.stage = "closed" /\ NoDelivery.ser = 0
  BY DEF Closed, NoDelivery
<1>6. \A r \in Readers : InLine(rd[r], last[r].ser)
  BY <1>1, <1>2, <1>5 DEF InLine, Joined
<1>7. QED BY <1>1, <1>4, <1>6, KeptInit DEF PairInv

(* One blocking writer, one reader and a buffer with room for a ring of the  *)
(* longest messages: what the reader has not taken is in the queue, the next *)
(* message in the slot where the reader looks for it.                        *)
THEOREM UnreadStay ==
  \A most \in Nat : Paired(most) => (ReaderSpec => []PairInv(most))
<1> SUFFICES ASSUME NEW most \in Nat, Paired(most)
             PROVE  ReaderSpec => []PairInv(most)
  OBVIOUS
<1>1. ReaderSpec => []OrderInv
  BY OrderHolds DEF Paired
<1>2. ReaderInit /\ OrderInv => PairInv(most)
  BY PairInit
<1>3. PairInv(most) /\ OrderInv' /\ [ReaderNext]_rvars => PairInv(most)'
  BY PairStep
<1>4. QED BY <1>1, <1>2, <1>3, PTL DEF ReaderSpec

-----------------------------------------------------------------------------
(* The channel.                                                              *)
LEMMA SentIsNewest == SentCount = Newest
BY DEF SentCount, Newest, Storing

LEMMA SentIsNewestThen == SentCount' = Newest'
BY DEF SentCount, Newest, Storing

LEMMA ChannelInit == ReaderInit => Channel!FifoInit
<1>1. SUFFICES ASSUME ReaderInit PROVE Channel!FifoInit
  OBVIOUS
<1>2. stage = "idle" /\ log = <<>> /\ \A r \in Readers : rd[r] = Closed
  BY <1>1 DEF ReaderInit, Init
<1>3. SentCount = 0
  BY <1>2 DEF SentCount
<1>4. Closed.stage = "closed"
  BY DEF Closed
<1>5. QED BY <1>2, <1>3, <1>4 DEF Channel!FifoInit, Channel!Absent

(* Only the write of stat makes a message known. *)
LEMMA NewestMoves ==
  ASSUME Smooth, IInv, RingInv, SerialInv, [Next]_vars
  PROVE  Newest' = Newest \/ (WriteStat /\ Newest' = Newest + 1)
<1>1. CASE WriteStat
  <2>1. stage = "stat" /\ stage' = "idle" /\ log' = log
    BY <1>1 DEF WriteStat, Release
  <2>2. Storing /\ Newest' = Len(log)
    BY <2>1 DEF Newest, Storing
  <2>3. QED BY <1>1, <2>2, NewestNat
<1>2. CASE ChooseOffset
  <2>1. stage = "fit" /\ stage' = "entry" /\ \E e : log' = Append(log, e)
    BY <1>2 DEF ChooseOffset
  <2>2. log \in Seq(Entry)
    BY DEF IInv, TypeInv, TypeOK
  <2>3. Len(log') = Len(log) + 1 /\ Len(log) \in Nat
    BY <2>1, <2>2, SMT
  <2>4. Newest = Len(log) /\ Newest' = Len(log') - 1
    BY <2>1 DEF Newest, Storing
  <2>5. QED BY <2>3, <2>4
<1>3. CASE ~WriteStat /\ ~ChooseOffset
  <2>1. log' = log
    BY <1>3, LogGrows DEF IInv
  <2>2. Storing' <=> Storing
    <3>1. ~Abandon /\ ~ClearBuf /\ ~ClearSlot /\ ~ClearStat
      BY DEF Abandon, Smooth, ClearBuf, ClearSlot, ClearStat, RingInv,
             Reinitialising
    <3>2. lock = Unset => ~Storing
      BY DEF RingInv, Storing
    <3>3. QED
      BY <1>3, <3>1, <3>2 DEF Next, WriterNext, HolderStep, BeginWrite, WakeUp,
         WaitForReader, StopWaiting, RingHasRoom, TooLarge, Packed,
         SwitchToInsert, FreeOldestSlot, OffsetMismatch, MustFree, WriteWord,
         WriteSlot, Release, ReaderReports, vars, local, Storing
  <2>3. QED BY <2>1, <2>2 DEF Newest
<1>4. QED BY <1>1, <1>2, <1>3

(* The writer is never a whole ring ahead when it publishes. *)
LEMMA RoomToPut ==
  ASSUME IInv, SerialInv, ReaderInv, BlockOK, WriteStat,
         NEW r \in Readers
  PROVE  Newest - last[r].ser < NSlots
<1>1. stage = "stat" /\ Writing
  BY DEF WriteStat, Writing
<1>2. /\ st \in StatType /\ last[r].ser \in Nat /\ Newest \in Nat
      /\ NSlots \in Nat
  BY NewestNat, SizesAssumption DEF IInv, TypeInv, TypeOK, ReaderInv, Delivery
<1>3. st.lastIdRead \in Int
  BY <1>2, LastRead
<1>4. /\ Newest + 1 <= st.lastIdRead + NSlots
      /\ st.lastIdRead = 0 \/ st.lastIdRead < last[r].ser
  BY <1>1 DEF BlockOK, Reported
<1>5. QED BY <1>2, <1>3, <1>4, SMT

(* Where a reader stands, as FmqFifo counts. *)
Standing(r) == IF rd[r].stage \in {"closed", "seekEnd"} THEN -1 ELSE last[r].ser

LEMMA ChannelStep ==
  ASSUME NEW most \in Nat, Paired(most), PairInv(most), [ReaderNext]_rvars
  PROVE  [Channel!FifoNext]_<<SentCount, [r \in Readers |-> Standing(r)]>>
<1>1. /\ Smooth /\ \A q, r \in Readers : q = r /\ "START" \notin OpenAt
      /\ OrderInv /\ IInv /\ RingInv /\ SerialInv /\ ReaderInv
      /\ AllKept /\ BlockOK /\ [Next]_vars
      /\ \A r \in Readers : InLine(rd[r], last[r].ser)
  BY ReaderIsNext DEF Paired, PairInv, OrderInv, WellKept
<1> DEFINE pos == [r \in Readers |-> Standing(r)]
<1>2. SentCount = Newest /\ SentCount' = Newest' /\ Newest \in Nat
  BY <1>1, SentIsNewest, SentIsNewestThen, NewestNat
<1>3. CASE UNCHANGED <<rd, last>>
  <2>1. pos' = pos
    BY <1>3 DEF Standing
  <2>2. CASE Newest' = Newest
    BY <1>2, <2>1, <2>2
  <2>3. CASE WriteStat /\ Newest' = Newest + 1
    <3>1. \A r \in Readers : Newest - pos[r] < NSlots \/ pos[r] = -1
      BY <1>1, <2>3, RoomToPut DEF Standing
    <3>2. Channel!Put
      BY <1>2, <2>1, <2>3, <3>1 DEF Channel!Put, Channel!Absent, Standing
    <3>3. QED BY <3>2 DEF Channel!FifoNext
  <2>4. QED BY <1>1, <2>2, <2>3, NewestMoves
<1>4. ASSUME NEW r \in Readers, OpenAtStart(r) \/ OpenAtEnd(r) \/ ReaderStep(r)
      PROVE  [Channel!FifoNext]_<<SentCount, pos>>
  <2>1. /\ Goes(rd[r], last[r].ser, rd'[r], last'[r].ser)
        /\ Newest' = Newest /\ last[r].ser \in Nat
        /\ InLine(rd[r], last[r].ser) /\ InLine(rd[r], last[r].ser)'
    BY <1>1, <1>4, ReaderGoes, ReaderFacts
  <2>2. PICK a : a = Standing(r)
    OBVIOUS
  <2>3. PICK b : b = Standing(r)'
    OBVIOUS
  <2>4. \/ b = a
        \/ a = -1 /\ b \in 0 .. Newest
        \/ a \in Nat /\ b = a + 1 /\ b <= Newest
    BY <2>1, <2>2, <2>3 DEF Goes, Standing, Joined
  <2>5. /\ pos = [u \in Readers |-> a] /\ pos' = [u \in Readers |-> b]
    BY <1>1, <2>2, <2>3
  <2>6. pos' = [pos EXCEPT ![r] = b]
    BY <1>1, <2>5
  <2>7. CASE b = a
    BY <1>2, <2>1, <2>5, <2>7
  <2>8. CASE a = -1 /\ b \in 0 .. Newest
    <3>1. Channel!Join(r)
      BY <1>2, <2>1, <2>5, <2>6, <2>8 DEF Channel!Join, Channel!Absent, Standing
    <3>2. QED BY <3>1 DEF Channel!FifoNext
  <2>9. CASE a \in Nat /\ b = a + 1 /\ b <= Newest
    <3>1. a # -1 /\ a < Newest
      BY <1>2, <2>9
    <3>2. pos[r] = a
      BY <2>5
    <3>3. pos' = [pos EXCEPT ![r] = pos[r] + 1]
      BY <2>6, <2>9, <3>2
    <3>4. Channel!Get(r)
      BY <1>2, <2>1, <3>1, <3>2, <3>3 DEF Channel!Get, Channel!Absent, Standing
    <3>5. QED BY <3>4 DEF Channel!FifoNext
  <2>10. QED BY <2>4, <2>7, <2>8, <2>9
<1>5. QED BY <1>3, <1>4 DEF ReaderNext, rvars

(* With one blocking writer, one reader that joins at the end, and a buffer  *)
(* that holds a ring of the longest messages - what the code asks of whoever *)
(* sizes it - the queue is a bounded first-in, first-out channel: no message *)
(* is lost, repeated or reordered, however the steps of the two fall.        *)
THEOREM BlockingIsFifo ==
  \A most \in Nat : Paired(most) => (ReaderSpec => FifoChannel)
<1> SUFFICES ASSUME NEW most \in Nat, Paired(most)
             PROVE  ReaderSpec => FifoChannel
  OBVIOUS
<1>1. ReaderSpec => []PairInv(most)
  BY UnreadStay
<1>2. ReaderInit => Channel!FifoInit
  BY ChannelInit
<1>3. PairInv(most) /\ [ReaderNext]_rvars =>
        [Channel!FifoNext]_<<SentCount, [r \in Readers |-> Standing(r)]>>
  BY ChannelStep
<1>4. QED
  BY <1>1, <1>2, <1>3, PTL DEF ReaderSpec, FifoChannel, Channel!FifoSpec,
                               Standing
=============================================================================
