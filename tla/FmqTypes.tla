------------------------------ MODULE FmqTypes ------------------------------
(* The shape of a file message queue (FMQ): the status struct, the slot      *)
(* table, the buffer, and the index arithmetic every other module uses.      *)
(* Lengths and offsets are counted in 32-bit words, the unit the code pads   *)
(* every stored message to.                                                  *)
EXTENDS Integers

CONSTANTS NSlots,     \* stat.nslots
          BufSize,    \* stat.buf_size, in words
          MaxId       \* Q_MAX_ID: ids run from 0 to MaxId - 1 and fold back

(* An id must outlive one turn of the slot ring (in the code 10^9 against    *)
(* some thousands of slots).                                                 *)
ASSUME SizesAssumption == /\ NSlots \in Nat \ {0}
                          /\ BufSize \in Nat \ {0}
                          /\ MaxId \in Nat
                          /\ MaxId > NSlots

Slots   == 0 .. NSlots - 1
Offsets == 0 .. BufSize
Words   == 0 .. BufSize - 1
Ids     == 0 .. MaxId - 1
Unset   == -1                      \* youngest/oldest before the first message

-----------------------------------------------------------------------------
(* Names with an underscore are slips of the definition that follows them:  *)
(* a property is worth checking if such a slip breaks it.                    *)
NextSlot_WrapsLate(s) == IF s >= NSlots THEN 0 ELSE s + 1
NextSlot(s) == IF s >= NSlots - 1 THEN 0 ELSE s + 1
PrevSlot(s) == IF s = 0 THEN NSlots - 1 ELSE s - 1
NextId(i)   == IF i = MaxId - 1 THEN 0 ELSE i + 1
PrevId(i)   == IF i = 0 THEN MaxId - 1 ELSE i - 1

(* The slots between oldest and youngest, inclusive, going round the ring. *)
InActiveRegion(st, s) ==
  /\ st.youngestSlot >= 0
  /\ st.oldestSlot >= 0
  /\ IF st.youngestSlot >= st.oldestSlot
     THEN s >= st.oldestSlot /\ s <= st.youngestSlot
     ELSE s >= st.oldestSlot \/ s <= st.youngestSlot

-----------------------------------------------------------------------------
InitStat ==
  [youngestId |-> Unset, youngestSlot |-> Unset, oldestSlot |-> Unset,
   beginInsert |-> 0, endInsert |-> 0, beginAppend |-> 0,
   appendMode |-> TRUE, blockingWrite |-> FALSE, lastIdRead |-> 0]

StatType ==
  [youngestId : Ids \cup {Unset}, youngestSlot : Slots \cup {Unset},
   oldestSlot : Slots \cup {Unset},
   beginInsert : Offsets, endInsert : Offsets, beginAppend : Offsets,
   appendMode : BOOLEAN, blockingWrite : BOOLEAN,
   lastIdRead : Ids \cup {Unset}]

EmptySlot == [active |-> FALSE, id |-> 0, len |-> 0, offset |-> 0]

SlotType == [active : BOOLEAN, id : Ids, len : Offsets, offset : Offsets]

(* A word of the buffer names the write it belongs to (a serial number that  *)
(* the program does not keep) and its place in the stored entry: word 1      *)
(* carries the magic cookie and slot number, the last word the id.  Serial 0 *)
(* is a word no message owns; initialising a queue puts a bare cookie at     *)
(* offset 0.                                                                 *)
NoWord     == [ser |-> 0, word |-> 0]
BareCookie == [ser |-> 0, word |-> 1]
Cell       == [ser : Nat, word : Nat]
=============================================================================
