----------------------------- MODULE LdataInfo ------------------------------
(* The latest data information of a data directory (LdataInfo): writers put  *)
(* each new information into an ASCII file, an XML file and a message queue; *)
(* readers poll for it without a lock.  A reader uses the queue first, then  *)
(* the XML file, then the ASCII file, and may save what it has read last in  *)
(* a file of its own, to go on from there when it is started again.          *)
(* An information is a number: its place in the order of the writes.         *)
EXTENDS Integers, Sequences, FiniteSets

CONSTANTS
  Writers,
  Modes,        \* what the reader uses: "queue" (all three), "files", "xml"
  FmqNSlots,    \* the values of _fmqNSlots
  MaxTime,      \* bound: the last second, in each mode
  MaxWrites,    \* bound: writes begun
  MaxFaults     \* bound: writes that fail, come out short or whose process
                \* dies, deaths of the reader, state files that cannot be
                \* saved and errors of the queue, all together, in each
                \* mode and for each number of slots

ASSUME LdataAssumption ==
  /\ Modes \subseteq {"queue", "files", "xml"}
  /\ FmqNSlots \subseteq Nat \ {0, 1}
  /\ MaxTime \in [Modes -> Nat \ {0}] /\ MaxWrites \in Nat
  /\ MaxFaults \in [Modes -> [FmqNSlots -> Nat]]

VARIABLES
  mode,      \* what the reader uses; it does not change
  nslots,    \* _fmqNSlots; it does not change
  now,       \* the clock, in seconds
  file,      \* _infoPath and _xmlPath
  lock,      \* the writers that hold the lock on _lockPath
  fmq,       \* the queue: what has been written to it, its mod time, and
             \* whether its slots and its status agree
  writer,    \* where each writer is, what it writes, and its temporary file
  reader,    \* the LdataInfo object of the reader
  saved,     \* the file of _latestReadInfo
  handed,    \* history: the last information that read has returned
  stale,     \* history: the state file does not tell of what was read last
  mishaps,   \* history: what has cost the reader its place in the queue
  writes, faults   \* history: see the bounds

Formats == {"ascii", "xml"}
Sources == Formats \cup {"fmq"}
None == [id |-> 0, whole |-> TRUE, time |-> 0]
Infos == 0 .. MaxWrites
Files == [id : Infos, whole : BOOLEAN, time : Nat]
Idle == [at |-> "idle", fmt |-> "ascii", id |-> 0, tmp |-> None]
Mishaps == {"error", "cleared", "unsaved", "lost"}

(* Places in the queue that are no message's: the queue is not open, or was  *)
(* empty when it was read.                                                   *)
Closed == -1
Blank == -2

(* The reader's object: where it is in read, its place in the queue (the     *)
(* message read last), the sources it has yet to try, the file it looks at,  *)
(* what stat has told of it, _prevModTime and the information it holds.      *)
Off == [at |-> "off", pos |-> Closed, ok |-> {}, fmt |-> "xml",
        seen |-> None, prevModTime |-> 0, id |-> 0]

shared == <<file, lock, fmq, writer, writes>>
own == <<reader, saved, handed, stale, mishaps>>
lvars == <<mode, nslots, now, shared, own, faults>>

LdataInit ==
  /\ mode \in Modes /\ nslots \in FmqNSlots
  /\ now = 1
  /\ file = [f \in Formats |-> None]
  /\ lock = {}
  /\ fmq = [sent |-> <<>>, time |-> 0, slots |-> "sound"]
  /\ writer = [w \in Writers |-> Idle]
  /\ reader = Off
  /\ saved = Closed
  /\ handed = 0 /\ stale = FALSE /\ mishaps = {}
  /\ writes = 0 /\ faults = 0
LdataTypeOK ==
  /\ mode \in Modes /\ nslots \in FmqNSlots /\ now \in Nat
  /\ file \in [Formats -> Files]
  /\ lock \subseteq Writers
  /\ fmq \in [sent : Seq(Infos), time : Nat,
              slots : {"sound", "freed", "behind"}]
  /\ writer \in [Writers -> [at : {"idle", "tmp", "fill", "unlink", "rename",
                                   "fmq"},
                             fmt : Formats, id : Infos, tmp : Files]]
  /\ reader \in [at : {"off", "poll", "check", "try", "open", "bad", "save",
                       "saving", "return"},
                 pos : Int, ok : SUBSET Sources, fmt : Formats, seen : Files,
                 prevModTime : Nat, id : Infos]
  /\ saved \in Int /\ handed \in Infos /\ stale \in BOOLEAN
  /\ mishaps \subseteq Mishaps
  /\ writes \in 0 .. MaxWrites /\ faults \in Nat

-----------------------------------------------------------------------------
(* Writing: the lock, each file by way of a temporary file that is named     *)
(* with the writer's pid, the queue.                                         *)

Go(w, at) == writer' = [writer EXCEPT ![w].at = at]

LockForWrite_Skipped(w) ==
  /\ writer[w].at = "idle" /\ writes < MaxWrites
  /\ lock' = lock \cup {w}
  /\ writes' = writes + 1
  /\ writer' = [writer EXCEPT ![w] = [Idle EXCEPT !.at = "tmp",
                                                 !.id = writes + 1]]
  /\ UNCHANGED <<mode, nslots, now, file, fmq, own, faults>>

LockForWrite(w) ==
  /\ lock = {}
  /\ writer[w].at = "idle" /\ writes < MaxWrites
  /\ lock' = {w}
  /\ writes' = writes + 1
  /\ writer' = [writer EXCEPT ![w] = [Idle EXCEPT !.at = "tmp",
                                                 !.id = writes + 1]]
  /\ UNCHANGED <<mode, nslots, now, file, fmq, own, faults>>

OpenTmp(w) ==
  /\ writer[w].at = "tmp"
  /\ writer' = [writer EXCEPT ![w].at = "fill", ![w].tmp =
                  [id |-> writer[w].id, whole |-> FALSE, time |-> now]]
  /\ UNCHANGED <<mode, nslots, now, file, lock, fmq, writes, own, faults>>

FillTmp(w) ==
  /\ writer[w].at = "fill"
  /\ writer' = [writer EXCEPT ![w].at = "unlink", ![w].tmp.whole = TRUE,
                              ![w].tmp.time = now]
  /\ UNCHANGED <<mode, nslots, now, file, lock, fmq, writes, own, faults>>

(* The content does not all reach the file; nothing looks whether it did. *)
FillTmpShort(w) ==
  /\ writer[w].at = "fill" /\ faults < MaxFaults[mode][nslots]
  /\ faults' = faults + 1
  /\ writer' = [writer EXCEPT ![w].at = "unlink", ![w].tmp.time = now]
  /\ UNCHANGED <<mode, nslots, now, file, lock, fmq, writes, own>>

UnlinkFile(w) ==
  /\ writer[w].at = "unlink"
  /\ file' = [file EXCEPT ![writer[w].fmt] = None]
  /\ Go(w, "rename")
  /\ UNCHANGED <<mode, nslots, now, lock, fmq, writes, own, faults>>

RenameTmp(w) ==
  /\ writer[w].at = "rename"
  /\ file' = [file EXCEPT ![writer[w].fmt] = writer[w].tmp]
  /\ writer' = [writer EXCEPT ![w].fmt = "xml", ![w].tmp = None,
                ![w].at = IF writer[w].fmt = "ascii" THEN "tmp" ELSE "fmq"]
  /\ UNCHANGED <<mode, nslots, now, lock, fmq, writes, own, faults>>

FinishWrite(w) ==
  /\ lock' = lock \ {w}
  /\ writer' = [writer EXCEPT ![w] = Idle]

(* The queue keeps a number of messages; the oldest slot is freed for the    *)
(* next one when all are taken.  A slot that was freed by a write that then  *)
(* died may pass the consistency check of the next (when what was left in it *)
(* begins where the oldest message should): the lengths then agree, or the   *)
(* check fails in the write after that.                                      *)
WriteFmqAndUnlock(w) ==
  /\ writer[w].at = "fmq" /\ fmq.slots # "behind"
  /\ \E s \in {"sound", "behind"} :
       /\ fmq.slots = "sound" => s = "sound"
       /\ fmq' = [sent |-> Append(fmq.sent, writer[w].id), time |-> now,
                  slots |-> s]
  /\ FinishWrite(w)
  /\ UNCHANGED <<mode, nslots, now, file, writes, own, faults>>

(* The check of the slot to be freed fails: the queue is cleared, its        *)
(* numbers start again, and the write fails.                                 *)
ClearFmqAndUnlock(w) ==
  /\ writer[w].at = "fmq" /\ fmq.slots # "sound"
  /\ fmq' = [sent |-> <<>>, time |-> now, slots |-> "sound"]
  /\ mishaps' = mishaps \cup {"cleared"}
  /\ FinishWrite(w)
  /\ UNCHANGED <<mode, nslots, now, file, writes, reader, saved, handed, stale,
                 faults>>

(* A step of the write fails, or the process dies: the lock goes with it,    *)
(* and nobody looks at its temporary file again.                             *)
AbandonWrite(w) ==
  /\ writer[w].at # "idle" /\ faults < MaxFaults[mode][nslots]
  /\ faults' = faults + 1
  /\ FinishWrite(w)
  /\ UNCHANGED <<mode, nslots, now, file, fmq, writes, own>>

FmqThere == fmq.time # 0

(* It dies in the write to the queue, after it has created the queue, or     *)
(* after it has freed the oldest slot, of which the status does not tell.    *)
AbandonInFmq(w) ==
  /\ writer[w].at = "fmq" /\ faults < MaxFaults[mode][nslots]
  /\ faults' = faults + 1
  /\ \/ ~FmqThere /\ fmq' = [fmq EXCEPT !.time = now]
     \/ /\ fmq.slots = "sound" /\ Len(fmq.sent) >= nslots
        /\ fmq' = [fmq EXCEPT !.slots = "freed", !.time = now]
  /\ FinishWrite(w)
  /\ UNCHANGED <<mode, nslots, now, file, writes, own>>

-----------------------------------------------------------------------------
(* Reading: which sources are there, then each in turn until one has an      *)
(* answer.                                                                   *)

Sent == DOMAIN fmq.sent
Youngest == Len(fmq.sent)
Freed == {k \in {Youngest + 1 - nslots} : fmq.slots = "freed"}
Retained == {k \in Sent \ Freed : k > Youngest - nslots}
Exists(f) == file[f] # None
Reads(r) == reader' = r
Polling == [Off EXCEPT !.at = "poll", !.pos = reader.pos,
                       !.prevModTime = reader.prevModTime]

(* Where a queue is opened: its last message is the next to be read. *)
AtLast == IF Sent = {} THEN Blank ELSE Youngest - 1

(* What is saved is read back, and the queue opened after that message, or   *)
(* at the last one if it is no longer there.  An empty slot is taken for the *)
(* first message.                                                            *)
Resume_AtLast == IF saved = Closed THEN Closed ELSE AtLast

Resume ==
  CASE saved = Closed \/ ~FmqThere -> Closed
    [] FmqThere /\ saved \in Retained -> saved
    [] FmqThere /\ saved = 1 /\ (Youngest < nslots \/ Freed # {}) -> saved
    [] OTHER -> AtLast

StartReader ==
  /\ reader.at = "off"
  /\ Reads([Off EXCEPT !.at = "poll", !.pos = Resume])
  /\ UNCHANGED <<mode, nslots, now, shared, saved, handed, stale, mishaps,
                 faults>>

CheckFmqAndXml ==
  /\ reader.at = "poll"
  /\ Reads([reader EXCEPT !.at = "check",
       !.ok = {s \in Sources : \/ s = "xml" /\ Exists(s)
                               \/ s = "fmq" /\ mode = "queue" /\ FmqThere}])
  /\ UNCHANGED <<mode, nslots, now, shared, saved, handed, stale, mishaps,
                 faults>>

CheckAscii ==
  /\ reader.at = "check"
  /\ Reads([reader EXCEPT !.at = "try",
       !.ok = @ \cup {s \in {"ascii"} : mode # "xml" /\ Exists(s)}])
  /\ UNCHANGED <<mode, nslots, now, shared, saved, handed, stale, mishaps,
                 faults>>

NoSourceLeft ==
  /\ reader.at = "try" /\ reader.ok = {}
  /\ Reads(Polling)
  /\ UNCHANGED <<mode, nslots, now, shared, saved, handed, stale, mishaps,
                 faults>>

(* The queue is opened at its last message, unless it is open already; the   *)
(* message that follows the one read last is read, or the youngest if that   *)
(* has been overwritten.  After a read of the empty queue the first slot is  *)
(* tried, with whatever message it has.                                      *)
Position_AtEnd == IF reader.pos = Closed THEN Youngest ELSE reader.pos

Position == IF reader.pos = Closed THEN AtLast ELSE reader.pos
NextMessages ==
  IF Position = Blank
  THEN {Youngest} \cup {k \in Retained : (k - 1) % nslots = 0}
  ELSE {IF Position + 1 \in Retained THEN Position + 1 ELSE Youngest}

ReadFmq ==
  /\ reader.at = "try" /\ "fmq" \in reader.ok
  /\ \/ Sent = {} /\ Reads([Polling EXCEPT !.pos = Blank])
     \/ Sent # {} /\ Position = Youngest
          /\ Reads([Polling EXCEPT !.pos = Position])
     \/ Sent # {} /\ Position # Youngest
          /\ \E k \in NextMessages :
               Reads([reader EXCEPT !.at = "save", !.pos = k,
                        !.id = fmq.sent[k], !.prevModTime = fmq.time])
  /\ UNCHANGED <<mode, nslots, now, shared, saved, handed, stale, mishaps,
                 faults>>

(* Any error of the queue closes it, and the files are tried instead. *)
ReadFmqFails ==
  /\ reader.at = "try" /\ "fmq" \in reader.ok
  /\ faults < MaxFaults[mode][nslots]
  /\ faults' = faults + 1 /\ mishaps' = mishaps \cup {"error"}
  /\ Reads([reader EXCEPT !.pos = Closed, !.ok = @ \ {"fmq"}])
  /\ UNCHANGED <<mode, nslots, now, shared, saved, handed, stale>>

(* The state file is written like any other, by unlink and rename. *)
SaveUnlink ==
  /\ reader.at = "save"
  /\ saved' = Closed /\ stale' = TRUE
  /\ Reads([reader EXCEPT !.at = "saving"])
  /\ UNCHANGED <<mode, nslots, now, shared, handed, mishaps, faults>>

SaveRename ==
  /\ reader.at = "saving"
  /\ saved' = reader.pos /\ stale' = FALSE
  /\ Reads([reader EXCEPT !.at = "return"])
  /\ UNCHANGED <<mode, nslots, now, shared, handed, mishaps, faults>>

(* A state file that cannot be written is worth a warning only: what it said *)
(* before stays, if it was not removed yet, and the information is returned. *)
SaveFails ==
  /\ reader.at \in {"save", "saving"} /\ faults < MaxFaults[mode][nslots]
  /\ faults' = faults + 1
  /\ stale' = TRUE
  /\ Reads([reader EXCEPT !.at = "return"])
  /\ UNCHANGED <<mode, nslots, now, shared, saved, handed, mishaps>>

ReturnInfo ==
  /\ reader.at = "return"
  /\ handed' = reader.id
  /\ Reads(Polling)
  /\ UNCHANGED <<mode, nslots, now, shared, saved, stale, mishaps, faults>>

StatFile(f) ==
  /\ reader.at = "try" /\ f \in reader.ok /\ "fmq" \notin reader.ok
  /\ f = "ascii" => "xml" \notin reader.ok
  /\ Reads(IF ~Exists(f) \/ file[f].time = reader.prevModTime
           THEN Polling
           ELSE [reader EXCEPT !.at = "open", !.fmt = f, !.seen = file[f]])
  /\ UNCHANGED <<mode, nslots, now, shared, saved, handed, stale, mishaps,
                 faults>>

(* The file is opened by name: it may be gone, or be another than the one    *)
(* stat has told of.  Of an XML file as many bytes are read as stat has      *)
(* told, which fails unless the other file has as many.  An ASCII file that  *)
(* is cut in its last number still reads.                                    *)
ReadWorks ==
  /\ reader.at = "open"
  /\ Exists(reader.fmt) /\ (file[reader.fmt].whole \/ reader.fmt = "ascii")
  /\ Reads([reader EXCEPT !.at = "return", !.id = file[reader.fmt].id,
                          !.prevModTime = reader.seen.time])
  /\ UNCHANGED <<mode, nslots, now, shared, saved, handed, stale, mishaps,
                 faults>>

ReadFails ==
  /\ reader.at = "open"
  /\ \/ ~Exists(reader.fmt) \/ ~file[reader.fmt].whole
     \/ reader.fmt = "xml" /\ file[reader.fmt] # reader.seen
  /\ Reads([reader EXCEPT !.at = "bad"])
  /\ UNCHANGED <<mode, nslots, now, shared, saved, handed, stale, mishaps,
                 faults>>

(* Whatever has the name by now is removed. *)
RemoveBad_Keeps ==
  /\ reader.at = "bad"
  /\ Reads([reader EXCEPT !.at = "try", !.ok = @ \ {reader.fmt}])
  /\ UNCHANGED <<mode, nslots, now, shared, saved, handed, stale, mishaps,
                 faults>>

RemoveBad ==
  /\ reader.at = "bad"
  /\ file' = [file EXCEPT ![reader.fmt] = None]
  /\ Reads([reader EXCEPT !.at = "try", !.ok = @ \ {reader.fmt}])
  /\ UNCHANGED <<mode, nslots, now, lock, fmq, writer, writes, saved, handed,
                 stale, mishaps, faults>>

ReaderDies ==
  /\ reader.at # "off" /\ faults < MaxFaults[mode][nslots]
  /\ faults' = faults + 1
  /\ mishaps' = mishaps
       \cup {m \in {"unsaved"} : stale}
       \cup {m \in {"lost"} : reader.at = "return" /\ reader.pos # Closed
                                /\ ~stale}
  /\ Reads(Off)
  /\ UNCHANGED <<mode, nslots, now, shared, saved, handed, stale>>

Tick ==
  /\ now < MaxTime[mode]
  /\ now' = now + 1
  /\ UNCHANGED <<mode, nslots, shared, own, faults>>

-----------------------------------------------------------------------------

WriteStep(w) ==
  \/ OpenTmp(w) \/ FillTmp(w) \/ UnlinkFile(w) \/ RenameTmp(w)
  \/ WriteFmqAndUnlock(w) \/ ClearFmqAndUnlock(w)

WriteFault(w) == FillTmpShort(w) \/ AbandonWrite(w) \/ AbandonInFmq(w)

ReadStep ==
  \/ StartReader \/ CheckFmqAndXml \/ CheckAscii \/ NoSourceLeft
  \/ ReadFmq \/ SaveUnlink \/ SaveRename \/ ReturnInfo
  \/ (\E f \in Formats : StatFile(f)) \/ ReadWorks \/ ReadFails \/ RemoveBad

ReadFault == ReadFmqFails \/ SaveFails \/ ReaderDies

LdataNext ==
  \/ \E w \in Writers : LockForWrite(w) \/ WriteStep(w) \/ WriteFault(w)
  \/ ReadStep \/ ReadFault
  \/ Tick

LdataSpec ==
  /\ LdataInit /\ [][LdataNext]_lvars
  /\ WF_lvars(ReadStep)
  /\ \A w \in Writers : WF_lvars(WriteStep(w))

-----------------------------------------------------------------------------

(* What the order of the informations rests on: every writer at work holds   *)
(* the lock, only one does, and what it renames is what it has written.      *)
OneWriter ==
  /\ \A v, w \in lock : v = w
  /\ \A w \in Writers : writer[w].at # "idle" => w \in lock
TmpOwn ==
  \A w \in Writers :
    writer[w].at \in {"fill", "unlink", "rename"}
      => writer[w].tmp.id = writer[w].id
QueueThere == now # 0 /\ (Sent # {} => FmqThere)

LdataInv == LdataTypeOK /\ OneWriter /\ TmpOwn /\ QueueThere

(* What NeverBack and SkipsOnlyWhenLost rest on.  The writer at work has the *)
(* latest number, and nothing older comes into the files or the queue any    *)
(* more.                                                                     *)
IdsInOrder ==
  /\ \A w \in Writers : writer[w].at # "idle" =>
       writer[w].id = writes /\ \A k \in Sent : fmq.sent[k] < writes
  /\ \A k \in Sent : fmq.sent[k] <= writes
  /\ \A j, k \in Sent : j < k => fmq.sent[j] < fmq.sent[k]
  /\ \A f \in Formats : file[f].id <= writes

(* A reader of the XML file has nothing newer than the file, if there is one.*)
XmlInOrder ==
  mode = "xml" =>
    /\ reader.ok \subseteq {"xml"} /\ reader.fmt = "xml"
    /\ reader.at \notin {"save", "saving"}
    /\ handed <= writes
    /\ Exists("xml") => handed <= file["xml"].id
    /\ reader.at = "return" =>
         /\ handed <= reader.id /\ reader.id <= writes
         /\ Exists("xml") => reader.id <= file["xml"].id

(* Without mishaps an open queue goes on after the message handed over last, *)
(* or that message is gone; a state file that is not stale tells of it.      *)
AtMessage == reader.pos \notin {Closed, Blank}
SavedRight ==
  saved # Closed =>
    /\ saved \in Sent
    /\ ~stale => fmq.sent[saved] = IF reader.at = "return" THEN reader.id
                                                           ELSE handed
PlaceRight ==
  /\ reader.at \in {"save", "saving"} =>
       reader.pos \in Sent /\ reader.id = fmq.sent[reader.pos]
  /\ reader.at = "return" /\ reader.pos # Closed =>
       reader.pos \in Sent /\ reader.id = fmq.sent[reader.pos]
  /\ reader.at \in {"poll", "check", "try"} /\ AtMessage =>
       \E j \in Sent : /\ fmq.sent[j] = handed
                       /\ j = reader.pos \/ j \notin Retained
  /\ reader.at \in {"check", "try"} /\ reader.pos # Closed =>
       "fmq" \in reader.ok
  /\ reader.at \in {"open", "bad"} => reader.pos = Closed
  /\ reader.at = "off" => ~stale
  /\ reader.at # "off" /\ reader.pos = Closed => saved = Closed
PlaceSaved ==
  /\ "fmq" \in reader.ok => mode = "queue" /\ FmqThere
  /\ saved # Closed => mode = "queue"
  /\ reader.pos # Closed => mode = "queue" /\ FmqThere
  /\ reader.at \in {"save", "saving"} =>
       mode = "queue" /\ reader.pos # Closed
  /\ mishaps = {} => SavedRight /\ PlaceRight

OrderInv == LdataInv /\ IdsInOrder /\ XmlInOrder /\ PlaceSaved

(* A reader of the XML file alone is never handed an older information       *)
(* after a newer one, though it compares modification times of one second,   *)
(* may stat one file and open the next, and does not lock.                   *)
NeverBack == [][mode = "xml" => handed' >= handed]_lvars

(* Once a reader has a place in the queue, no information is passed over     *)
(* unless the one handed over last has left the queue, or one of these has   *)
(* happened: the queue was cleared or had an error, or the reader has died   *)
(* while its state file did not tell of what it had read last, or after the  *)
(* file told of it and before it was returned.  A save that fails costs      *)
(* nothing as long as the reader lives, nor do other deaths and restarts.    *)
SkipsOnlyWhenLost ==
  [][\A k \in Sent :
       (/\ reader.at = "try" /\ reader'.at = "save"
        /\ AtMessage /\ mishaps = {}
        /\ handed < fmq.sent[k] /\ fmq.sent[k] < reader'.id)
         => \A h \in Retained : fmq.sent[h] # handed]_lvars

Silent == writes = MaxWrites /\ \A w \in Writers : writer[w].at = "idle"

(* Once the writers are silent, a reader that uses the queue is handed the   *)
(* last information in it, through deaths, errors and saves that fail,       *)
(* unless it has died between saving and returning it, or the queue was      *)
(* cleared: a reader that was at the number of its youngest message before   *)
(* takes that message for one it has read.                                   *)
GetsLatest ==
  (mode = "queue" /\ Silent /\ Sent # {})
    ~> (\/ mishaps \cap {"lost", "cleared"} # {}
        \/ Sent # {} /\ handed = fmq.sent[Youngest])

(* Once the writers are silent, a reader of the XML file is handed what the  *)
(* file holds or removes the file: it does not try a file that cannot be     *)
(* read for ever.  What was written in the second of the file it read last   *)
(* is not looked at.                                                         *)
GetsXmlLatest ==
  (mode = "xml" /\ Silent /\ Exists("xml"))
    ~> (\/ ~Exists("xml") \/ handed = file["xml"].id
        \/ reader.prevModTime = file["xml"].time)
=============================================================================
