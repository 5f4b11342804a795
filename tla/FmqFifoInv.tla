----------------------------- MODULE FmqFifoInv -----------------------------
(* The inductive invariant behind FifoChannel: why, with blocking writes,    *)
(* one writer and one reader, no message is given up before it is read.      *)
EXTENDS FmqReaderInv

(* The use that FifoChannel is about: one process writes and blocks, one     *)
(* reads and joins at the end, nothing fails, no id comes round again, and   *)
(* the slots wrap before the buffer does (what the code asks of its users):  *)
(* the buffer holds a ring of messages, none longer than most.               *)
Paired(most) ==
  /\ Smooth /\ Apart
  /\ BlockingWrite = TRUE
  /\ \A q, r \in Readers : q = r
  /\ "START" \notin OpenAt
  /\ \A len \in Lens : len <= most
  /\ NSlots * most <= BufSize

(* From the word where a message begins to the one where the next will go    *)
(* there are at most so many words as it and those after it may have; in the *)
(* upper region add the end of the buffer, where one more did not fit.       *)
RoomOK(most) ==
  \A t \in Slots : slots[t].active /\ slots[t].id < Newest =>
    LET size == (Newest - slots[t].id) * most
    IN  IF Cur.appendMode
        THEN Cur.beginAppend - slots[t].offset <= size
        ELSE IF EndOf(t) <= Cur.beginInsert
        THEN Cur.beginInsert - slots[t].offset <= size
        ELSE slots[t].offset - Cur.beginInsert + size + most > BufSize

(* Messages kept or soon to be: a write may give one up for its slot, and    *)
(* one more for its words - but none in the first turn of the ring.          *)
InHand == IF stage \in {"pack", "fit", "entry", "slot", "stat"} THEN 1 ELSE 0
FirstTurn == Newest + InHand <= NSlots

FirstOK(most) ==
  FirstTurn => Cur.appendMode /\ Cur.beginAppend <= Newest * most

AllKept ==
  \A k \in 1 .. Newest :
    k > Newest - NSlots + 1 + InHand \/ FirstTurn => Retained(k)

WellKept(most) == RoomOK(most) /\ FirstOK(most) /\ AllKept

(* The writer keeps within one ring of the last id reported, in stat or in   *)
(* the copy that it may put back; and the reader is not behind either.       *)
Joined(x) == x.stage \notin {"closed", "seekEnd"}
Reported(s, r) ==
  s.lastIdRead = 0 \/ (Joined(rd[r]) /\ s.lastIdRead < last[r].ser)

BlockOK ==
  /\ Newest <= stat.lastIdRead + NSlots
  /\ stat.lastIdRead >= 0
  /\ stat.youngestId = Unset => ~stat.blockingWrite
  /\ \A r \in Readers : Reported(stat, r)
  /\ Writing =>
       /\ Newest + (IF stage = "block" THEN 0 ELSE 1) <= st.lastIdRead + NSlots
       /\ st.lastIdRead >= 0
       /\ \A r \in Readers : Reported(st, r)

(* A reader x stands after the last message it took, p, and finds the next   *)
(* one in the slot after it, as soon as stat has published that.             *)
InLine(x, p) ==
  /\ p <= Newest
  /\ ~Joined(x) => p = 0
  /\ x.stage = "seekEnd" /\ x.st.youngestId = Unset => ~x.st.blockingWrite
  /\ Joined(x) =>
       /\ x.stage \in {"update", "ready", "next", "nextMsg"}
       /\ IF p = 0 THEN x.lastId = Unset /\ x.lastSlot = Unset
                   ELSE x.lastId = p - 1 /\ x.lastSlot = log[p].slot
       /\ x.stage = "update" => p > 0
       /\ x.stage \in {"next", "nextMsg"} => p < Seen(x)
       /\ x.stage = "nextMsg" =>
            x.copy.id = p /\ x.copy = slots[log[p + 1].slot]

PairInv(most) ==
  /\ OrderInv
  /\ WellKept(most)
  /\ BlockOK
  /\ \A r \in Readers : InLine(rd[r], last[r].ser)
=============================================================================
