---------------------------- MODULE FmqReaderInv ----------------------------
(* Inductive invariants of the readers, for the proofs about them.           *)
EXTENDS FmqReader, FmqQueueInv

(* Every id in a status and every serial in the buffer was logged before,    *)
(* and only writers that block mark the status as blocking.                  *)
Traced ==
  /\ BlockingWrite = FALSE =>
       /\ stage # "block" /\ \A p \in Writers : waiting[p] = NoJob
       /\ ~stat.blockingWrite /\ ~st.blockingWrite
  /\ stat.youngestId \in ReadIds /\ st.youngestId \in ReadIds
  /\ Storing => Len(log) > 0 /\ log[Len(log)].id = job.id
  /\ \A w \in Words : buf[w].ser <= Len(log)

ReaderStages == {"closed", "seekEnd", "ready", "next", "nextMsg", "youngest",
                 "youngestMsg", "update"}

CopyType == [active : BOOLEAN, id : Ids \cup {PhantomId}, len : Offsets,
             offset : Offsets]

Reader == [stage : ReaderStages, st : StatType,
           lastId : Ids \cup {Unset, PhantomId},
           lastSlot : Slots \cup {-2, -1}, copy : CopyType]

Delivery == [ser : Nat, whole : BOOLEAN, ahead : BOOLEAN, n : {0, 1}]

(* A slot that was taken for a message lies in the buffer. *)
CopyOK(c) == /\ c.active
             /\ c.len > 0 => c.id \in Ids /\ c.offset + c.len <= BufSize

ReaderOK(x) ==
  /\ x.st.youngestId \in ReadIds
  /\ BlockingWrite = FALSE => ~x.st.blockingWrite
  /\ x.stage = "update" => BlockingWrite /\ x.lastId \in ReadIds
  /\ x.stage \in {"nextMsg", "youngestMsg"} => CopyOK(x.copy)

(* Slots in use lie in the buffer, whatever fails (a part of IInv that needs *)
(* no assumption on the writers).                                            *)
SlotsInside == \A t \in Slots : slots[t].active =>
                 slots[t].offset + slots[t].len <= BufSize

ReaderInv ==
  /\ TypeInv /\ Traced /\ SlotsInside
  /\ rd \in [Readers -> Reader]
  /\ last \in [Readers -> Delivery]
  /\ \A r \in Readers : ReaderOK(rd[r])

-----------------------------------------------------------------------------
(* Where a reader stands, as long as nothing fails: PositionInv strengthens  *)
(* InOrderUnlessAhead and SkipsOnlyIfOverrun.                                *)

(* No id comes round again between two accesses of a reader. *)
Apart == MaxMsgs + NSlots <= MaxId

(* A status points at the newest message. *)
Points(s) ==
  /\ s.youngestId = Newest - 1
  /\ s.youngestSlot = IF Newest = 0 THEN Unset ELSE log[Newest].slot

(* Messages get the ids from 0 on and the slots round the ring. *)
SerialInv ==
  /\ Len(log) <= MaxMsgs
  /\ Writing => job.id = Newest /\ Points(st)
                /\ (Storing \/ Len(log) < MaxMsgs)
  /\ \A p \in Writers : waiting[p] # NoJob =>
       waiting[p].id = Newest /\ Len(log) < MaxMsgs
  /\ Points(stat)
  /\ \A k \in 1 .. Len(log) : log[k].id = k - 1
  /\ Len(log) > 0 => log[1].slot = 0
  /\ \A j, k \in 1 .. Len(log) : j <= k /\ k - j < NSlots =>
       log[k].slot = Wrap(log[j].slot + (k - j))

(* Message k was there and has been given up; it will not come back. *)
Gone(k) == k <= Newest /\ (k >= 1 => ~Retained(k))

(* After message p, was it ahead or not, message k may be handed over.       *)
MayFollow(k, p, ahead) ==
  /\ k > p \/ (ahead /\ k >= p - 1)
  /\ k > p + 1 => Gone(p + 1) \/ ahead

(* The reader had message k in its hands, but it has been given up. *)
Lost(k, p, ahead) == Gone(k) /\ (k > p \/ (ahead /\ k >= p - 1))

(* Its position, between two messages: after message p; after one that was   *)
(* lost; or after a slot where it has found nothing it could use.            *)
AfterMessage(x, p) ==
  /\ x.lastId = p - 1
  /\ x.lastSlot = log[p].slot \/ Gone(p + 1)

AfterLost(x, p, ahead) ==
  x.lastId # Unset /\ Lost(x.lastId + 1, p, ahead)

AfterSlot(x, p, ahead) ==
  /\ x.lastId = Unset
  /\ \E q \in 1 .. Newest :
       /\ x.lastSlot = log[q].slot
       /\ Gone(q + 1 - NSlots)
       /\ (q > p /\ Gone(p + 1)) \/ (ahead /\ q >= p - 1)

Polls    == {"next", "nextMsg", "youngest", "youngestMsg"}
Reads    == {"nextMsg", "youngestMsg"}
Seen(x)  == x.st.youngestId + 1      \* the youngest message of its stat

(* The slot it asks for: Target, of a reader in this state. *)
AsksFor(x) == IF x.stage \in {"next", "nextMsg"}
              THEN NextSlot(x.lastSlot) ELSE x.st.youngestSlot

(* The slot it has read is that of a message, given up since or not.         *)
CopyTrue(x) ==
  LET k == x.copy.id + 1
  IN  /\ k \in 1 .. Len(log)
      /\ k > Seen(x) - NSlots
      /\ log[k].slot = AsksFor(x)
      /\ Gone(k) \/ slots[AsksFor(x)] = x.copy

Position(x, p, ahead) ==
  /\ p <= Len(log) /\ (ahead \/ p <= Newest)
  /\ p # 0 => Newest >= 1
  /\ p # 0 /\ x.stage \in {"update", "ready", "next", "nextMsg"} =>
       x.lastSlot \in Slots
  /\ x.stage \in {"closed", "seekEnd"} => p = 0
  /\ x.stage = "seekEnd" => x.st.youngestId < Newest
  /\ x.stage \in Polls =>
       /\ Seen(x) \in 1 .. Newest /\ x.st.youngestSlot = log[Seen(x)].slot
       /\ p # 0 => Seen(x) > p \/ (ahead /\ Seen(x) >= p - 1)
  /\ x.stage = "update" /\ p # 0 => AfterMessage(x, p)
  /\ x.stage \in {"ready", "next"} /\ p # 0 =>
       AfterMessage(x, p) \/ AfterLost(x, p, ahead) \/ AfterSlot(x, p, ahead)
  /\ x.stage = "youngest" /\ p # 0 =>
       IF x.lastId = Unset THEN Gone(p + 1) \/ ahead
       ELSE Lost(x.lastId + 1, p, ahead) /\ x.lastId + 1 > Seen(x) - NSlots
  /\ x.stage \in Reads =>
       /\ x.copy.len > 0 => CopyTrue(x)
       /\ p # 0 => x.copy.len > 0 /\ MayFollow(x.copy.id + 1, p, ahead)

PositionInv ==
  \A r \in Readers : Position(rd[r], last[r].ser, last[r].ahead)

OrderInv == IInv /\ RingInv /\ SerialInv /\ ReaderInv /\ PositionInv
=============================================================================
