-------------------------- MODULE LdataInfo_proofs --------------------------
(* Proofs about the latest data information, for any number of writers, any  *)
(* number of writes and whatever fails.                                      *)
EXTENDS LdataInfo, TLAPS

WriterType ==
  [at : {"idle", "tmp", "fill", "unlink", "rename", "fmq"}, fmt : Formats,
   id : Infos, tmp : Files]

FmqType ==
  [sent : Seq(Infos), time : Nat, slots : {"sound", "freed", "behind"}]

ReaderType ==
  [at : {"off", "poll", "check", "try", "open", "bad", "save", "saving",
         "return"},
   pos : Int, ok : SUBSET Sources, fmt : Formats, seen : Files,
   prevModTime : Nat, id : Infos]

LEMMA Types ==
  LdataTypeOK <=>
    /\ mode \in Modes /\ nslots \in FmqNSlots /\ now \in Nat
    /\ file \in [Formats -> Files] /\ lock \subseteq Writers
    /\ fmq \in FmqType /\ writer \in [Writers -> WriterType]
    /\ reader \in ReaderType
    /\ saved \in Int /\ handed \in Infos /\ stale \in BOOLEAN
    /\ mishaps \subseteq Mishaps
    /\ writes \in 0 .. MaxWrites /\ faults \in Nat
BY DEF LdataTypeOK, WriterType, FmqType, ReaderType

LEMMA Blanks ==
  /\ None \in Files /\ None.whole
  /\ Idle \in WriterType /\ Idle.at = "idle"
  /\ Off \in ReaderType /\ Off.ok = {}
<1>1. None \in Files /\ None.whole /\ 0 \in Infos
  BY LdataAssumption DEF None, Files, Infos
<1>2. Idle \in WriterType /\ Idle.at = "idle"
  BY <1>1 DEF Idle, WriterType, Formats
<1>3. Off \in ReaderType /\ Off.ok = {}
  BY <1>1 DEF Off, ReaderType, Formats, Closed
<1> QED
  BY <1>1, <1>2, <1>3

LEMMA InitInv == LdataInit => LdataInv
<1> SUFFICES ASSUME LdataInit PROVE LdataInv
  OBVIOUS
<1>1. LdataTypeOK
  <2>1. fmq \in FmqType /\ Sent = {}
    BY DEF LdataInit, FmqType, Sent
  <2>2. now \in Nat /\ writes \in 0 .. MaxWrites /\ handed \in Infos
    BY LdataAssumption DEF LdataInit, Infos
  <2>3. /\ file \in [Formats -> Files] /\ writer \in [Writers -> WriterType]
        /\ reader \in ReaderType
    BY Blanks DEF LdataInit
  <2>4. /\ saved \in Int /\ faults \in Nat
        /\ mishaps \subseteq Mishaps /\ lock \subseteq Writers
        /\ mode \in Modes /\ nslots \in FmqNSlots
    BY DEF LdataInit, Closed
  <2>5. stale \in BOOLEAN
    BY DEF LdataInit
  <2> QED
    BY <2>1, <2>2, <2>3, <2>4, <2>5
       DEF LdataTypeOK, WriterType, FmqType, ReaderType
<1>2. OneWriter /\ TmpOwn
  BY Blanks DEF LdataInit, OneWriter, TmpOwn
<1>3. QueueThere
  BY DEF LdataInit, QueueThere, Sent
<1> QED
  BY <1>1, <1>2, <1>3 DEF LdataInv

-----------------------------------------------------------------------------
(* The writers' steps.  Each moves one writer on; what the queue does has    *)
(* lemmas of its own.                                                        *)

LEMMA WriterMoved ==
  ASSUME LdataInv, NEW w \in Writers, NEW r \in WriterType,
         writer' = [writer EXCEPT ![w] = r],
         UNCHANGED <<mode, nslots, reader, saved, handed, stale>>, now' = now,
         file' \in [Formats -> Files], fmq' \in FmqType, QueueThere',
         lock' \subseteq lock \cup {w}, r.at # "idle" => w \in lock',
         lock = {} \/ lock' \subseteq lock,
         \A v \in lock : v # w => v \in lock',
         mishaps' \subseteq Mishaps,
         writes' \in 0 .. MaxWrites, faults' \in Nat,
         r.at \in {"fill", "unlink", "rename"} => r.tmp.id = r.id
  PROVE  LdataInv'
<1>1. LdataTypeOK /\ OneWriter /\ TmpOwn
  BY DEF LdataInv
<1>2. writer \in [Writers -> WriterType] /\ lock \subseteq Writers
  BY <1>1, Types
<1>3. /\ writer'[w] = r
      /\ \A v \in Writers : v # w => writer'[v] = writer[v]
      /\ writer' \in [Writers -> WriterType]
  BY <1>2
<1>4. LdataTypeOK'
  BY <1>1, <1>2, <1>3, Types DEF LdataTypeOK, WriterType, FmqType, ReaderType
<1>5. OneWriter'
  BY <1>1, <1>2, <1>3 DEF OneWriter
<1>6. TmpOwn'
  BY <1>1, <1>3 DEF TmpOwn
<1> QED
  BY <1>4, <1>5, <1>6 DEF LdataInv

LEMMA SameQueue ==
  ASSUME LdataInv, UNCHANGED <<fmq, now>> PROVE QueueThere'
BY DEF LdataInv, QueueThere, Sent, FmqThere

LEMMA InvTypes ==
  ASSUME LdataInv
  PROVE  /\ mode \in Modes /\ nslots \in FmqNSlots /\ now \in Nat \ {0}
         /\ file \in [Formats -> Files] /\ lock \subseteq Writers
         /\ fmq \in FmqType /\ writer \in [Writers -> WriterType]
         /\ reader \in ReaderType
         /\ saved \in Int /\ handed \in Infos /\ stale \in BOOLEAN
         /\ mishaps \subseteq Mishaps
         /\ writes \in 0 .. MaxWrites /\ faults \in Nat
BY Types DEF LdataInv, QueueThere

LEMMA LockInv ==
  ASSUME NEW w \in Writers, LdataInv, LockForWrite(w)
  PROVE  LdataInv'
<1> DEFINE r == [Idle EXCEPT !.at = "tmp", !.id = writes + 1]
<1>1. /\ writer' = [writer EXCEPT ![w] = r] /\ lock = {} /\ lock' = {w}
      /\ writes' = writes + 1 /\ writes < MaxWrites
      /\ UNCHANGED <<mode, nslots, now, file, fmq, own, faults>>
  BY DEF LockForWrite
<1>2. writes' \in 0 .. MaxWrites /\ writes + 1 \in Infos
  BY <1>1, LdataAssumption, InvTypes DEF Infos
<1>3. r \in WriterType /\ r.at = "tmp"
  BY <1>2, Blanks DEF WriterType
<1> HIDE DEF r
<1> QED
  BY <1>1, <1>2, <1>3, InvTypes, SameQueue, WriterMoved DEF own

LEMMA FileWriteInv ==
  ASSUME NEW w \in Writers, LdataInv,
         \/ OpenTmp(w) \/ FillTmp(w) \/ FillTmpShort(w)
         \/ UnlinkFile(w) \/ RenameTmp(w)
  PROVE  LdataInv'
<1>1. /\ writer[w] \in WriterType /\ writer[w].at # "idle" /\ w \in lock
      /\ writer[w].at \in {"fill", "unlink", "rename"}
           => writer[w].tmp.id = writer[w].id
  BY InvTypes
     DEF OpenTmp, FillTmp, FillTmpShort, UnlinkFile, RenameTmp, LdataInv,
         OneWriter, TmpOwn
<1>2. /\ UNCHANGED <<mode, nslots, now, lock, fmq, writes, own>>
      /\ faults' \in {faults, faults + 1}
  BY DEF OpenTmp, FillTmp, FillTmpShort, UnlinkFile, RenameTmp
<1>3. file' \in [Formats -> Files]
  BY <1>1, Blanks, InvTypes
     DEF OpenTmp, FillTmp, FillTmpShort, UnlinkFile, RenameTmp, WriterType
<1>4. PICK r \in WriterType :
        /\ writer' = [writer EXCEPT ![w] = r]
        /\ r.at \in {"fill", "unlink", "rename"} => r.tmp.id = r.id
  <2>1. CASE OpenTmp(w)
    <3> DEFINE t == [id |-> writer[w].id, whole |-> FALSE, time |-> now]
    <3>1. t \in Files /\ t.id = writer[w].id
      BY <1>1, InvTypes DEF WriterType, Files
    <3> HIDE DEF t
    <3> DEFINE r == [writer[w] EXCEPT !.at = "fill", !.tmp = t]
    <3>2. r \in WriterType /\ r.tmp.id = r.id
      BY <1>1, <3>1 DEF WriterType
    <3>3. writer' = [writer EXCEPT ![w] = r]
      BY <2>1, InvTypes DEF OpenTmp, t
    <3> QED
      BY <3>2, <3>3
  <2>2. CASE FillTmp(w) \/ FillTmpShort(w)
    <3>1. writer[w].tmp \in Files
      BY <1>1 DEF WriterType
    <3>2. PICK t :
            /\ t \in Files /\ t.id = writer[w].tmp.id
            /\ writer' = [writer EXCEPT ![w] =
                            [writer[w] EXCEPT !.at = "unlink", !.tmp = t]]
      <4>1. CASE FillTmp(w)
        <5> DEFINE u == [writer[w].tmp EXCEPT !.whole = TRUE, !.time = now]
        <5>1. u \in Files /\ u.id = writer[w].tmp.id
          BY <3>1, InvTypes DEF Files
        <5>2. writer' = [writer EXCEPT ![w] =
                           [writer[w] EXCEPT !.at = "unlink", !.tmp = u]]
          BY <1>1, <4>1, InvTypes DEF FillTmp, WriterType, Files
        <5> QED
          BY <5>1, <5>2
      <4>2. CASE FillTmpShort(w)
        <5> DEFINE u == [writer[w].tmp EXCEPT !.time = now]
        <5>1. u \in Files /\ u.id = writer[w].tmp.id
          BY <3>1, InvTypes DEF Files
        <5>2. writer' = [writer EXCEPT ![w] =
                           [writer[w] EXCEPT !.at = "unlink", !.tmp = u]]
          BY <1>1, <4>2, InvTypes DEF FillTmpShort, WriterType, Files
        <5> QED
          BY <5>1, <5>2
      <4> QED
        BY <2>2, <4>1, <4>2
    <3> DEFINE r == [writer[w] EXCEPT !.at = "unlink", !.tmp = t]
    <3>4. writer[w].at = "fill"
      BY <2>2 DEF FillTmp, FillTmpShort
    <3>5. r \in WriterType /\ r.tmp.id = r.id
      BY <1>1, <3>2, <3>4 DEF WriterType
    <3> QED
      BY <3>2, <3>5
  <2>3. CASE UnlinkFile(w)
    <3> DEFINE r == [writer[w] EXCEPT !.at = "rename"]
    <3>1. r \in WriterType /\ r.tmp.id = r.id
      BY <1>1, <2>3 DEF UnlinkFile, WriterType
    <3>2. writer' = [writer EXCEPT ![w] = r]
      BY <2>3, InvTypes DEF UnlinkFile, Go
    <3> QED
      BY <3>1, <3>2
  <2>4. CASE RenameTmp(w)
    <3>1. PICK at \in {"tmp", "fmq"} :
            writer' = [writer EXCEPT ![w].fmt = "xml", ![w].tmp = None,
                                     ![w].at = at]
      BY <2>4 DEF RenameTmp
    <3> DEFINE r == [writer[w] EXCEPT !.fmt = "xml", !.tmp = None, !.at = at]
    <3>2. r \in WriterType /\ r.at \notin {"fill", "unlink", "rename"}
      BY <1>1, Blanks DEF WriterType, Formats
    <3>3. writer' = [writer EXCEPT ![w] = r]
      BY <3>1, InvTypes
    <3> QED
      BY <3>2, <3>3
  <2> QED
    BY <2>1, <2>2, <2>3, <2>4
<1>5. faults' \in Nat
  BY <1>2, InvTypes
<1> QED
  BY <1>1, <1>2, <1>3, <1>4, <1>5, InvTypes, SameQueue, WriterMoved DEF own

(* What becomes of the queue when a write ends, one way or another. *)
LEMMA QueueAfter ==
  ASSUME LdataInv, NEW w \in Writers,
         \/ WriteFmqAndUnlock(w) \/ ClearFmqAndUnlock(w)
         \/ AbandonWrite(w) \/ AbandonInFmq(w)
  PROVE  /\ fmq' \in FmqType /\ QueueThere' /\ now' = now
         /\ \/ /\ fmq'.sent = Append(fmq.sent, writer[w].id)
               /\ WriteFmqAndUnlock(w) /\ mishaps' = mishaps
            \/ /\ fmq'.sent = <<>>
               /\ ClearFmqAndUnlock(w) /\ mishaps' = mishaps \cup {"cleared"}
            \/ /\ fmq'.sent = fmq.sent
               /\ fmq'.slots \in {fmq.slots, "freed"}
               /\ mishaps' = mishaps
         /\ fmq.time # 0 => fmq'.time # 0
<1>1. /\ fmq \in FmqType /\ now \in Nat \ {0} /\ writer[w].id \in Infos
      /\ (Sent # {} => FmqThere)
  BY InvTypes DEF LdataInv, QueueThere, WriterType
<1>2. CASE WriteFmqAndUnlock(w)
  <2>1. PICK s \in {"sound", "behind"} :
          fmq' = [sent |-> Append(fmq.sent, writer[w].id), time |-> now,
                  slots |-> s]
    BY <1>2 DEF WriteFmqAndUnlock
  <2>2. /\ fmq' \in FmqType /\ fmq'.time = now
        /\ fmq'.sent = Append(fmq.sent, writer[w].id)
    BY <1>1, <2>1 DEF FmqType
  <2>3. UNCHANGED <<now, mishaps>>
    BY <1>2 DEF WriteFmqAndUnlock, own
  <2>4. QueueThere'
    BY <1>1, <2>2, <2>3 DEF QueueThere, FmqThere
  <2> QED
    BY <1>1, <1>2, <2>2, <2>3, <2>4
<1>3. CASE ClearFmqAndUnlock(w)
  BY <1>1, <1>3 DEF ClearFmqAndUnlock, FmqType, QueueThere, FmqThere
<1>4. CASE AbandonWrite(w)
  BY <1>1, <1>4 DEF AbandonWrite, QueueThere, FmqThere, Sent, own
<1>5. CASE AbandonInFmq(w)
  <2>1. \/ fmq' = [fmq EXCEPT !.time = now]
        \/ fmq' = [fmq EXCEPT !.slots = "freed", !.time = now]
    BY <1>5 DEF AbandonInFmq
  <2>2. /\ fmq' \in FmqType /\ fmq'.sent = fmq.sent /\ fmq'.time = now
        /\ fmq'.slots \in {fmq.slots, "freed"}
    BY <1>1, <2>1 DEF FmqType
  <2> QED
    BY <1>1, <1>5, <2>2 DEF AbandonInFmq, QueueThere, FmqThere, own
<1> QED
  BY <1>2, <1>3, <1>4, <1>5

LEMMA EndOfWriteInv ==
  ASSUME NEW w \in Writers, LdataInv,
         \/ WriteFmqAndUnlock(w) \/ ClearFmqAndUnlock(w)
         \/ AbandonWrite(w) \/ AbandonInFmq(w)
  PROVE  LdataInv'
<1>1. /\ UNCHANGED <<mode, nslots, now, file, writes>>
      /\ UNCHANGED <<reader, saved, handed, stale>>
      /\ FinishWrite(w) /\ faults' \in {faults, faults + 1}
  BY DEF WriteFmqAndUnlock, ClearFmqAndUnlock, AbandonWrite, AbandonInFmq, own
<1>2. mishaps' \subseteq Mishaps /\ fmq' \in FmqType /\ QueueThere'
  BY QueueAfter, InvTypes DEF Mishaps
<1>3. /\ writer' = [writer EXCEPT ![w] = Idle] /\ lock' = lock \ {w}
      /\ faults' \in Nat /\ w \in Writers
  BY <1>1, InvTypes DEF FinishWrite
<1> QED
  BY <1>1, <1>2, <1>3, Blanks, InvTypes, WriterMoved

-----------------------------------------------------------------------------
(* The reader's steps.  All but RemoveBad leave what writers share alone. *)

LEMMA ReaderOnly ==
  ASSUME LdataInv, UNCHANGED <<mode, nslots, now, shared>>,
         reader' \in ReaderType,
         saved' \in Int, handed' \in Infos, stale' \in BOOLEAN,
         mishaps' \subseteq Mishaps, faults' \in Nat
  PROVE  LdataInv'
<1> USE DEF LdataInv, shared
<1>1. LdataTypeOK'
  BY DEF LdataTypeOK, ReaderType
<1>2. OneWriter' /\ TmpOwn'
  BY DEF OneWriter, TmpOwn
<1> QED
  BY <1>1, <1>2, SameQueue

LEMMA Facts ==
  ASSUME LdataInv
  PROVE  /\ fmq.sent \in Seq(Infos) /\ Youngest \in Nat /\ fmq.time \in Nat
         /\ Sent = 1 .. Youngest /\ Sent \subseteq Nat \ {0}
         /\ \A k \in Sent : fmq.sent[k] \in Infos /\ fmq.sent[k] \in Nat
         /\ writes \in Nat /\ handed \in Nat /\ nslots \in Nat \ {0, 1}
         /\ \A f \in Formats : file[f] \in Files /\ file[f].id \in Nat
         /\ AtLast \in Int /\ Resume \in Int
         /\ Polling \in ReaderType /\ Polling.ok = {}
         /\ reader.id \in Nat /\ reader.pos \in Int
         /\ Sent # {} => FmqThere
<1>1. fmq.sent \in Seq(Infos) /\ fmq.time \in Nat /\ nslots \in FmqNSlots
      /\ reader \in ReaderType
  BY InvTypes DEF FmqType
<1>2. Infos \subseteq Nat
  BY LdataAssumption DEF Infos
<1>3. nslots \in Nat \ {0, 1} /\ writes \in Nat /\ handed \in Nat
  <2>1. nslots \in Nat \ {0, 1}
    BY <1>1, LdataAssumption
  <2>2. writes \in 0 .. MaxWrites /\ handed \in Infos
    BY InvTypes
  <2> QED
    BY <1>2, <2>1, <2>2, LdataAssumption
<1>4. Youngest \in Nat /\ Sent = 1 .. Youngest
  BY <1>1 DEF Sent, Youngest
<1>5. \A k \in Sent : fmq.sent[k] \in Infos /\ fmq.sent[k] \in Nat
  <2>1. \A k \in 1 .. Len(fmq.sent) : fmq.sent[k] \in Infos
    BY <1>1
  <2>2. Sent = 1 .. Len(fmq.sent)
    BY <1>4 DEF Youngest
  <2>3. \A k \in Sent : fmq.sent[k] \in Infos
    BY <2>1, <2>2
  <2> QED
    BY <1>2, <2>3
<1>6. \A f \in Formats : file[f] \in Files /\ file[f].id \in Nat
  <2>1. \A g \in Files : g.id \in Nat
    BY <1>2 DEF Files
  <2>2. file \in [Formats -> Files]
    BY InvTypes
  <2> QED
    BY <2>1, <2>2
<1>7. AtLast \in Int /\ Resume \in Int
  BY <1>4, InvTypes DEF AtLast, Blank, Closed, Resume
<1>8. Polling \in ReaderType /\ Polling.ok = {}
  BY <1>1, Blanks DEF Polling, ReaderType
<1>9. reader.id \in Nat /\ reader.pos \in Int
  BY <1>1, <1>2 DEF ReaderType
<1> QED
  BY <1>1, <1>3, <1>4, <1>5, <1>6, <1>7, <1>8, <1>9 DEF LdataInv, QueueThere

LEMMA StartInv == LdataInv /\ StartReader => LdataInv'
<1> SUFFICES ASSUME LdataInv, StartReader PROVE LdataInv'
  OBVIOUS
<1>1. reader' \in ReaderType
  BY Facts, Blanks DEF StartReader, Reads, ReaderType
<1> QED
  BY <1>1, ReaderOnly, InvTypes DEF StartReader

LEMMA CheckInv ==
  LdataInv /\ (CheckFmqAndXml \/ CheckAscii) => LdataInv'
<1> SUFFICES ASSUME LdataInv, CheckFmqAndXml \/ CheckAscii
             PROVE  LdataInv'
  OBVIOUS
<1>1. /\ UNCHANGED <<mode, nslots, now, shared>>
      /\ UNCHANGED <<saved, handed, stale, mishaps, faults>>
  BY DEF CheckFmqAndXml, CheckAscii
<1>2. reader' \in ReaderType
  <2>1. PICK ok, at : /\ reader' = [reader EXCEPT !.at = at, !.ok = ok]
                     /\ at \in {"check", "try"}
                     /\ ok \in SUBSET Sources
    <3>1. reader.ok \in SUBSET Sources
      BY InvTypes DEF ReaderType
    <3>2. CASE CheckFmqAndXml
      BY <3>2 DEF CheckFmqAndXml, Reads
    <3>3. CASE CheckAscii
      <4> DEFINE more == {s \in {"ascii"} : mode # "xml" /\ Exists(s)}
      <4>1. more \subseteq Sources
        BY DEF Sources, Formats
      <4>2. reader' = [reader EXCEPT !.at = "try", !.ok = @ \cup more]
        BY <3>3 DEF CheckAscii, Reads
      <4>3. reader.ok \cup more \in SUBSET Sources
        BY <3>1, <4>1
      <4> QED
        BY <4>2, <4>3
    <3> QED
      BY <3>2, <3>3
  <2> QED
    BY <2>1, InvTypes DEF ReaderType
<1> QED
  BY <1>1, <1>2, ReaderOnly, InvTypes

LEMMA PollInv == LdataInv /\ (NoSourceLeft \/ ReturnInfo) => LdataInv'
<1> SUFFICES ASSUME LdataInv, NoSourceLeft \/ ReturnInfo PROVE LdataInv'
  OBVIOUS
<1>1. /\ UNCHANGED <<mode, nslots, now, shared>>
      /\ UNCHANGED <<saved, stale, mishaps, faults>>
      /\ handed' = handed \/ handed' = reader.id
      /\ reader' = Polling
  BY DEF NoSourceLeft, ReturnInfo, Reads
<1>2. handed' \in Infos
  BY <1>1, InvTypes DEF ReaderType
<1> QED
  BY <1>1, <1>2, Facts, ReaderOnly, InvTypes

(* The message that is read is one of those in the queue. *)
LEMMA NextMessagesThere ==
  ASSUME LdataInv, Sent # {}
  PROVE  NextMessages \subseteq Sent /\ Position \in Int
<1>1. Youngest \in Sent
  BY Facts
<1>2. Retained \subseteq Sent
  BY DEF Retained
<1> QED
  BY <1>1, <1>2, Facts DEF NextMessages, Position

LEMMA ReadFmqInv == LdataInv /\ ReadFmq => LdataInv'
<1> SUFFICES ASSUME LdataInv, ReadFmq PROVE LdataInv'
  OBVIOUS
<1>1. /\ UNCHANGED <<mode, nslots, now, shared>>
      /\ UNCHANGED <<saved, handed, stale, mishaps, faults>>
  BY DEF ReadFmq
<1>2. reader' \in ReaderType
  <2>1. CASE reader' = [Polling EXCEPT !.pos = Blank]
    <3>1. Blank \in Int
      BY DEF Blank
    <3> QED
      BY <2>1, <3>1, Facts DEF ReaderType
  <2>2. CASE Sent # {} /\ reader' = [Polling EXCEPT !.pos = Position]
    BY <2>2, Facts, NextMessagesThere DEF ReaderType
  <2>3. ASSUME Sent # {}, NEW k \in NextMessages,
               reader' = [reader EXCEPT !.at = "save", !.pos = k,
                            !.id = fmq.sent[k], !.prevModTime = fmq.time]
        PROVE  reader' \in ReaderType
    <3>1. k \in Int /\ fmq.sent[k] \in Infos /\ fmq.time \in Nat
      BY <2>3, Facts, NextMessagesThere
    <3> QED
      BY <2>3, <3>1, InvTypes DEF ReaderType
  <2> QED
    BY <2>1, <2>2, <2>3 DEF ReadFmq, Reads
<1> QED
  BY <1>1, <1>2, ReaderOnly, InvTypes

LEMMA ReadFmqFailsInv == LdataInv /\ ReadFmqFails => LdataInv'
<1> SUFFICES ASSUME LdataInv, ReadFmqFails PROVE LdataInv'
  OBVIOUS
<1> DEFINE Rest == reader.ok \ {"fmq"}
<1>1. /\ UNCHANGED <<mode, nslots, now, shared>>
      /\ UNCHANGED <<saved, handed, stale>>
      /\ faults' = faults + 1 /\ mishaps' = mishaps \cup {"error"}
      /\ reader' = [reader EXCEPT !.pos = Closed, !.ok = Rest]
  BY DEF ReadFmqFails, Reads
<1>2. Rest \in SUBSET Sources
  <2>1. reader.ok \in SUBSET Sources
    BY InvTypes DEF ReaderType
  <2> QED
    BY <2>1
<1> HIDE DEF Rest
<1>3. reader' \in ReaderType
  <2>1. Closed \in Int
    BY DEF Closed
  <2> QED
    BY <1>1, <1>2, <2>1, InvTypes DEF ReaderType
<1>4. faults' \in Nat /\ mishaps' \subseteq Mishaps
  BY <1>1, InvTypes DEF Mishaps
<1> QED
  BY <1>1, <1>3, <1>4, ReaderOnly, InvTypes

LEMMA SaveInv ==
  LdataInv /\ (SaveUnlink \/ SaveRename \/ SaveFails) => LdataInv'
<1> SUFFICES ASSUME LdataInv, SaveUnlink \/ SaveRename \/ SaveFails
             PROVE  LdataInv'
  OBVIOUS
<1>1. /\ UNCHANGED <<mode, nslots, now, shared, handed, mishaps>>
      /\ saved' \in {saved, Closed, reader.pos} /\ stale' \in BOOLEAN
      /\ faults' \in {faults, faults + 1}
  BY DEF SaveUnlink, SaveRename, SaveFails
<1>2. reader' \in ReaderType
  BY InvTypes DEF SaveUnlink, SaveRename, SaveFails, Reads, ReaderType
<1>3. saved' \in Int /\ faults' \in Nat
  BY <1>1, InvTypes DEF Closed, ReaderType
<1> QED
  BY <1>1, <1>2, <1>3, ReaderOnly, InvTypes

LEMMA StatFileInv ==
  ASSUME NEW f \in Formats, LdataInv, StatFile(f)
  PROVE  LdataInv'
<1>1. \/ reader' = Polling
      \/ reader' = [reader EXCEPT !.at = "open", !.fmt = f, !.seen = file[f]]
  BY DEF StatFile, Reads
<1>2. reader' \in ReaderType
  BY <1>1, Facts, InvTypes DEF ReaderType
<1> QED
  BY <1>2, ReaderOnly, InvTypes DEF StatFile

LEMMA ReadFileInv == LdataInv /\ (ReadWorks \/ ReadFails) => LdataInv'
<1> SUFFICES ASSUME LdataInv, ReadWorks \/ ReadFails PROVE LdataInv'
  OBVIOUS
<1>1. \/ reader' = [reader EXCEPT !.at = "return",
                      !.id = file[reader.fmt].id,
                      !.prevModTime = reader.seen.time]
      \/ reader' = [reader EXCEPT !.at = "bad"]
  BY DEF ReadWorks, ReadFails, Reads
<1>2. file[reader.fmt].id \in Infos /\ reader.seen.time \in Nat
  <2>1. file[reader.fmt] \in Files /\ reader.seen \in Files
    BY InvTypes DEF ReaderType
  <2> QED
    BY <2>1 DEF Files
<1>3. reader' \in ReaderType
  BY <1>1, <1>2, InvTypes DEF ReaderType
<1> QED
  BY <1>3, ReaderOnly, InvTypes DEF ReadWorks, ReadFails

LEMMA RemoveBadInv == LdataInv /\ RemoveBad => LdataInv'
<1> SUFFICES ASSUME LdataInv, RemoveBad PROVE LdataInv'
  OBVIOUS
<1> DEFINE Rest == reader.ok \ {reader.fmt}
<1>1. reader' = [reader EXCEPT !.at = "try", !.ok = Rest]
  BY DEF RemoveBad, Reads
<1>2. Rest \in SUBSET Sources
  <2>1. reader.ok \in SUBSET Sources
    BY InvTypes DEF ReaderType
  <2> QED
    BY <2>1
<1> HIDE DEF Rest
<1>3. reader' \in ReaderType
  BY <1>1, <1>2, InvTypes DEF ReaderType
<1>4. LdataTypeOK'
  BY <1>3, Blanks DEF RemoveBad, LdataInv, LdataTypeOK, ReaderType
<1>5. OneWriter' /\ TmpOwn' /\ QueueThere'
  BY SameQueue DEF RemoveBad, LdataInv, OneWriter, TmpOwn
<1> QED
  BY <1>4, <1>5 DEF LdataInv

LEMMA DiesInv == LdataInv /\ ReaderDies => LdataInv'
<1> SUFFICES ASSUME LdataInv, ReaderDies PROVE LdataInv'
  OBVIOUS
<1>1. /\ UNCHANGED <<mode, nslots, now, shared>>
      /\ UNCHANGED <<saved, handed, stale>>
      /\ faults' = faults + 1 /\ reader' = Off
      /\ mishaps' \subseteq mishaps \cup {"unsaved", "lost"}
  BY DEF ReaderDies, Reads
<1>2. faults' \in Nat /\ mishaps' \subseteq Mishaps
  BY <1>1, InvTypes DEF Mishaps
<1> QED
  BY <1>1, <1>2, Blanks, ReaderOnly, InvTypes

LEMMA TickInv == LdataInv /\ Tick => LdataInv'
<1> SUFFICES ASSUME LdataInv, Tick PROVE LdataInv'
  OBVIOUS
<1>1. now' \in Nat \ {0}
  BY InvTypes DEF Tick
<1>2. LdataTypeOK'
  BY <1>1 DEF Tick, shared, own, LdataInv, LdataTypeOK
<1>3. QueueThere'
  BY <1>1 DEF Tick, shared, LdataInv, QueueThere, Sent, FmqThere
<1> QED
  BY <1>2, <1>3 DEF Tick, shared, own, LdataInv, OneWriter, TmpOwn

LEMMA StutterInv == LdataInv /\ UNCHANGED lvars => LdataInv'
BY DEF lvars, shared, own, LdataInv, LdataTypeOK, OneWriter, TmpOwn,
   QueueThere, Sent, FmqThere

LEMMA NextInv == LdataInv /\ [LdataNext]_lvars => LdataInv'
<1> SUFFICES ASSUME LdataInv, [LdataNext]_lvars PROVE LdataInv'
  OBVIOUS
<1>1. ASSUME NEW w \in Writers,
             LockForWrite(w) \/ WriteStep(w) \/ WriteFault(w)
      PROVE  LdataInv'
  BY <1>1, LockInv, FileWriteInv, EndOfWriteInv DEF WriteStep, WriteFault
<1>2. CASE ReadStep
  BY <1>2, StartInv, CheckInv, PollInv, ReadFmqInv, SaveInv, StatFileInv,
     ReadFileInv, RemoveBadInv DEF ReadStep
<1>3. CASE ReadFault \/ Tick
  BY <1>3, ReadFmqFailsInv, SaveInv, DiesInv, TickInv DEF ReadFault
<1>4. CASE UNCHANGED lvars
  BY <1>4, StutterInv
<1> QED
  BY <1>1, <1>2, <1>3, <1>4 DEF LdataNext

-----------------------------------------------------------------------------
(* The order of the informations. *)

(* A message that has left the queue is not found again. *)
LEMMA GoneStaysGone ==
  ASSUME LdataInv, NEW k \in Sent, k \notin Retained, nslots' = nslots,
         NEW e,
         \/ fmq'.sent = Append(fmq.sent, e)
         \/ fmq'.sent = fmq.sent /\ fmq'.slots \in {fmq.slots, "freed"}
  PROVE  k \notin Retained'
<1>1. Youngest \in Nat /\ k \in Nat /\ nslots \in Nat
  BY Facts
<1>2. \/ k <= Youngest - nslots
      \/ k = Youngest + 1 - nslots /\ fmq.slots = "freed"
  <2>1. k \in Freed => k = Youngest + 1 - nslots /\ fmq.slots = "freed"
    BY DEF Freed
  <2>2. k \in Freed \/ ~(k > Youngest - nslots)
    BY DEF Retained
  <2> QED
    BY <1>1, <2>1, <2>2
<1>3. CASE fmq'.sent = Append(fmq.sent, e)
  <2>1. Youngest' = Youngest + 1
    BY <1>3, Facts DEF Youngest
  <2> QED
    BY <1>1, <1>2, <2>1 DEF Retained
<1>4. CASE fmq'.sent = fmq.sent /\ fmq'.slots \in {fmq.slots, "freed"}
  <2>1. Youngest' = Youngest
    BY <1>4 DEF Youngest
  <2>2. fmq.slots = "freed" => fmq'.slots = "freed"
    BY <1>4
  <2>3. CASE k <= Youngest - nslots
    BY <1>1, <2>1, <2>3 DEF Retained
  <2>4. CASE k = Youngest + 1 - nslots /\ fmq.slots = "freed"
    BY <2>1, <2>2, <2>4 DEF Retained, Freed
  <2> QED
    BY <1>2, <2>3, <2>4
<1> QED
  BY <1>3, <1>4

LEMMA OrderInit == LdataInit => IdsInOrder /\ XmlInOrder /\ PlaceSaved
<1> SUFFICES ASSUME LdataInit PROVE IdsInOrder /\ XmlInOrder /\ PlaceSaved
  OBVIOUS
<1>1. /\ Sent = {} /\ writes = 0 /\ handed = 0 /\ saved = Closed
      /\ reader = Off /\ ~stale
  BY DEF LdataInit, Sent
<1>2. \A f \in Formats : file[f] = None
  BY DEF LdataInit
<1>3. \A w \in Writers : writer[w].at = "idle"
  BY Blanks DEF LdataInit
<1>4. IdsInOrder /\ XmlInOrder
  BY <1>1, <1>2, <1>3 DEF IdsInOrder, XmlInOrder, Off, None, Exists, Formats
<1>5. PlaceSaved
  BY <1>1 DEF PlaceSaved, SavedRight, PlaceRight, Off
<1> QED
  BY <1>4, <1>5

(* The files, the queue and the writers stay: so does the order of ids. *)
LEMMA IdsKept ==
  ASSUME IdsInOrder, UNCHANGED <<fmq, writer, writes>>,
         \A f \in Formats : file'[f] \in {file[f], None},
         writes \in Nat
  PROVE  IdsInOrder'
<1>1. \A f \in Formats : file'[f].id <= writes'
  BY DEF IdsInOrder, None
<1> QED
  BY <1>1 DEF IdsInOrder, Sent

LEMMA XmlKept ==
  ASSUME XmlInOrder, UNCHANGED <<mode, handed, reader, writes>>,
         Exists("xml")' => Exists("xml") /\ file'["xml"] = file["xml"]
  PROVE  XmlInOrder'
BY DEF XmlInOrder

(* The reader's place stays right while the queue goes on. *)
LEMMA PlaceKept ==
  ASSUME LdataInv, PlaceSaved,
         UNCHANGED <<mode, nslots, handed, reader, saved, stale, mishaps>>,
         fmq.time # 0 => fmq'.time # 0,
         NEW e,
         \/ fmq'.sent = Append(fmq.sent, e)
         \/ fmq'.sent = fmq.sent /\ fmq'.slots \in {fmq.slots, "freed"}
  PROVE  PlaceSaved'
<1>1. \A k \in Sent : k \in Sent' /\ fmq'.sent[k] = fmq.sent[k]
  <2>1. fmq.sent \in Seq(Infos) /\ Sent = 1 .. Len(fmq.sent)
    BY Facts DEF Youngest
  <2>2. CASE fmq'.sent = Append(fmq.sent, e)
    <3>1. DOMAIN Append(fmq.sent, e) = 1 .. Len(fmq.sent) + 1
      BY <2>1
    <3>2. \A k \in 1 .. Len(fmq.sent) : Append(fmq.sent, e)[k] = fmq.sent[k]
      BY <2>1
    <3>3. \A k \in 1 .. Len(fmq.sent) : k \in 1 .. Len(fmq.sent) + 1
      BY <2>1
    <3> QED
      BY <2>1, <2>2, <3>1, <3>2, <3>3 DEF Sent
  <2>3. CASE fmq'.sent = fmq.sent
    BY <2>3 DEF Sent
  <2> QED
    BY <2>2, <2>3
<1>2. \A k \in Sent : k \notin Retained => k \notin Retained'
  BY GoneStaysGone
<1>3. FmqThere => FmqThere'
  BY DEF FmqThere
<1>4. SavedRight => SavedRight'
  BY <1>1 DEF SavedRight
<1>5. PlaceRight => PlaceRight'
  <2> SUFFICES ASSUME PlaceRight PROVE PlaceRight'
    OBVIOUS
  <2>1. reader.at \in {"poll", "check", "try"} /\ AtMessage =>
          \E j \in Sent' : /\ fmq'.sent[j] = handed
                           /\ j = reader.pos \/ j \notin Retained'
    BY <1>1, <1>2 DEF PlaceRight
  <2> QED
    BY <1>1, <2>1 DEF PlaceRight, AtMessage
<1> QED
  BY <1>3, <1>4, <1>5 DEF PlaceSaved

-----------------------------------------------------------------------------
LEMMA LockOrder ==
  ASSUME OrderInv, NEW w \in Writers, LockForWrite(w)
  PROVE  IdsInOrder' /\ XmlInOrder' /\ PlaceSaved'
<1>1. /\ LdataInv /\ writes' = writes + 1 /\ lock = {}
      /\ UNCHANGED <<mode, nslots, file, fmq, reader, saved, handed, stale,
                     mishaps>>
      /\ writer' = [writer EXCEPT ![w] = [Idle EXCEPT !.at = "tmp",
                                                      !.id = writes + 1]]
      /\ IdsInOrder /\ XmlInOrder /\ PlaceSaved
  BY DEF LockForWrite, own, OrderInv
<1>2. \A v \in Writers : writer[v].at = "idle"
  BY <1>1 DEF LdataInv, OneWriter
<1>3. /\ writer'[w].id = writes'
      /\ \A v \in Writers : v # w => writer'[v].at = "idle"
  BY <1>1, <1>2, InvTypes DEF Idle
<1>4. IdsInOrder'
  <2>1. \A k \in Sent : fmq.sent[k] <= writes /\ fmq.sent[k] \in Nat
    BY <1>1, Facts DEF IdsInOrder
  <2>2. \A f \in Formats : file[f].id <= writes /\ file[f].id \in Nat
    BY <1>1, Facts DEF IdsInOrder
  <2>3. writes \in Nat
    BY <1>1, Facts
  <2>4. \A n \in Nat : n <= writes => n < writes' /\ n <= writes'
    BY <1>1, <2>3
  <2>5. /\ \A k \in Sent : fmq.sent[k] < writes' /\ fmq.sent[k] <= writes'
        /\ \A f \in Formats : file[f].id <= writes'
    BY <2>1, <2>2, <2>4
  <2> QED
    BY <1>1, <1>3, <2>5 DEF IdsInOrder, Sent
<1>5. XmlInOrder'
  <2>1. handed \in Nat /\ writes \in Nat /\ reader.id \in Nat
    BY <1>1, Facts
  <2> QED
    BY <1>1, <2>1 DEF XmlInOrder, Exists
<1>6. PlaceSaved'
  BY <1>1, PlaceKept
<1> QED
  BY <1>4, <1>5, <1>6

(* The steps that put the file together. *)
LEMMA FileOrder ==
  ASSUME OrderInv, NEW w \in Writers,
         OpenTmp(w) \/ FillTmp(w) \/ FillTmpShort(w) \/ UnlinkFile(w)
  PROVE  IdsInOrder' /\ XmlInOrder' /\ PlaceSaved'
<1>1. /\ LdataInv /\ IdsInOrder /\ XmlInOrder /\ PlaceSaved
      /\ UNCHANGED <<mode, nslots, fmq, writes, reader, saved, handed, stale,
                     mishaps>>
      /\ writer[w].at # "idle"
  BY DEF OpenTmp, FillTmp, FillTmpShort, UnlinkFile, own, OrderInv
<1>2. \A f \in Formats : file'[f] \in {file[f], None}
  BY <1>1, InvTypes DEF OpenTmp, FillTmp, FillTmpShort, UnlinkFile
<1>3. \A v \in Writers : /\ writer'[v].id = writer[v].id
                         /\ writer'[v].at # "idle" => writer[v].at # "idle"
  BY <1>1, InvTypes
     DEF OpenTmp, FillTmp, FillTmpShort, UnlinkFile, Go, WriterType
<1>4. IdsInOrder'
  <2>1. \A f \in Formats : file'[f].id <= writes'
    BY <1>1, <1>2, Facts DEF IdsInOrder, None
  <2> QED
    BY <1>1, <1>3, <2>1 DEF IdsInOrder, Sent
<1>5. XmlInOrder'
  BY <1>1, <1>2, XmlKept DEF Exists, Formats
<1>6. PlaceSaved'
  BY <1>1, PlaceKept
<1> QED
  BY <1>4, <1>5, <1>6

LEMMA RenameOrder ==
  ASSUME OrderInv, NEW w \in Writers, RenameTmp(w)
  PROVE  IdsInOrder' /\ XmlInOrder' /\ PlaceSaved'
<1>1. /\ LdataInv /\ IdsInOrder /\ XmlInOrder /\ PlaceSaved
      /\ UNCHANGED <<mode, nslots, fmq, writes, reader, saved, handed, stale,
                     mishaps>>
      /\ writer[w].at = "rename" /\ writer[w].fmt \in Formats
      /\ file' = [file EXCEPT ![writer[w].fmt] = writer[w].tmp]
      /\ file \in [Formats -> Files]
  BY InvTypes DEF RenameTmp, own, OrderInv, WriterType
<1>2. writer[w].tmp.id = writes
  BY <1>1 DEF LdataInv, TmpOwn, IdsInOrder
<1>3. \A v \in Writers : writer'[v].id = writer[v].id
                         /\ (writer'[v].at # "idle" => writer[v].at # "idle")
  BY <1>1, InvTypes DEF RenameTmp, WriterType
<1>4. \A f \in Formats : file'[f] = file[f] \/ file'[f].id = writes
  BY <1>1, <1>2
<1>5. writes \in Nat
  BY <1>1, Facts
<1>6. IdsInOrder'
  <2>1. \A f \in Formats : file'[f].id <= writes'
    BY <1>1, <1>4, <1>5 DEF IdsInOrder
  <2> QED
    BY <1>1, <1>3, <2>1 DEF IdsInOrder, Sent
<1>7. XmlInOrder'
  <2>1. file'["xml"] = file["xml"] \/ file'["xml"].id = writes
    BY <1>4 DEF Formats
  <2> QED
    BY <1>1, <2>1 DEF XmlInOrder, Exists
<1>8. PlaceSaved'
  BY <1>1, PlaceKept
<1> QED
  BY <1>6, <1>7, <1>8

(* The end of a write: the queue grows, is cleared, or stays as it is. *)
LEMMA EndOrder ==
  ASSUME OrderInv, NEW w \in Writers,
         \/ WriteFmqAndUnlock(w) \/ ClearFmqAndUnlock(w)
         \/ AbandonWrite(w) \/ AbandonInFmq(w)
  PROVE  IdsInOrder' /\ XmlInOrder' /\ PlaceSaved'
<1>1. /\ LdataInv /\ IdsInOrder /\ XmlInOrder /\ PlaceSaved
      /\ UNCHANGED <<mode, nslots, file, writes, reader, saved, handed, stale>>
      /\ writer[w].at # "idle" /\ writer' = [writer EXCEPT ![w] = Idle]
  BY DEF WriteFmqAndUnlock, ClearFmqAndUnlock, AbandonWrite, AbandonInFmq,
         FinishWrite, own, OrderInv
<1>2. writer[w].id = writes /\ \A k \in Sent : fmq.sent[k] < writes
  BY <1>1 DEF IdsInOrder
<1>3. \A v \in Writers : writer'[v].at = "idle"
  <2>1. \A v \in Writers : v # w => writer[v].at = "idle"
    BY <1>1 DEF LdataInv, OneWriter
  <2> QED
    BY <1>1, <2>1, InvTypes, Blanks
<1>4. writes \in Nat /\ Youngest \in Nat /\ Sent = 1 .. Youngest
      /\ \A k \in Sent : fmq.sent[k] \in Nat
  BY <1>1, Facts
<1>5. XmlInOrder'
  BY <1>1, XmlKept DEF Exists
<1>6. CASE fmq'.sent = Append(fmq.sent, writer[w].id) /\ WriteFmqAndUnlock(w)
  <2>1. /\ Sent' = 1 .. Youngest + 1 /\ fmq'.sent[Youngest + 1] = writes
        /\ \A k \in Sent : k \in Sent' /\ fmq'.sent[k] = fmq.sent[k]
        /\ \A k \in Sent' : k \in Sent \/ k = Youngest + 1
    <3>1. fmq.sent \in Seq(Infos) /\ writer[w].id \in Infos
      BY <1>1, Facts, InvTypes DEF WriterType
    <3>2. Len(fmq'.sent) = Len(fmq.sent) + 1 /\ Len(fmq.sent) \in Nat
      BY <1>6, <3>1
    <3>3. Sent' = 1 .. Len(fmq.sent) + 1 /\ Sent = 1 .. Len(fmq.sent)
      BY <1>6, <3>1, <3>2 DEF Sent
    <3>4. \A k \in 1 .. Len(fmq.sent) : fmq'.sent[k] = fmq.sent[k]
      BY <1>6, <3>1
    <3>5. fmq'.sent[Len(fmq.sent) + 1] = writes
      BY <1>2, <1>6, <3>1
    <3> QED
      BY <3>2, <3>3, <3>4, <3>5 DEF Youngest
  <2>2. \A k \in Sent' : fmq'.sent[k] <= writes'
    BY <1>1, <1>2, <1>4, <2>1
  <2>3. \A j, k \in Sent' : j < k => fmq'.sent[j] < fmq'.sent[k]
    <3> SUFFICES ASSUME NEW j \in Sent', NEW k \in Sent', j < k
                 PROVE  fmq'.sent[j] < fmq'.sent[k]
      OBVIOUS
    <3>1. j \in Sent
      BY <1>4, <2>1
    <3>2. CASE k \in Sent
      BY <1>1, <2>1, <3>1, <3>2 DEF IdsInOrder
    <3>3. CASE k = Youngest + 1
      BY <1>2, <2>1, <3>1, <3>3
    <3> QED
      BY <2>1, <3>2, <3>3
  <2>4. IdsInOrder'
    BY <1>1, <1>3, <2>2, <2>3 DEF IdsInOrder
  <2>5. PlaceSaved'
    BY <1>1, <1>6, QueueAfter, PlaceKept DEF WriteFmqAndUnlock, own
  <2> QED
    BY <1>5, <2>4, <2>5
<1>7. CASE fmq'.sent = <<>> /\ mishaps' = mishaps \cup {"cleared"}
  <2>1. Sent' = {}
    BY <1>7 DEF Sent
  <2>2. IdsInOrder'
    BY <1>1, <1>3, <2>1 DEF IdsInOrder
  <2>3. FmqThere => FmqThere'
    BY <1>1, QueueAfter DEF FmqThere
  <2>4. PlaceSaved'
    BY <1>1, <1>7, <2>3 DEF PlaceSaved
  <2> QED
    BY <1>5, <2>2, <2>4
<1>8. CASE fmq'.sent = fmq.sent /\ fmq'.slots \in {fmq.slots, "freed"}
           /\ mishaps' = mishaps
  <2>1. IdsInOrder'
    BY <1>1, <1>3, <1>8 DEF IdsInOrder, Sent
  <2>2. PlaceSaved'
    BY <1>1, <1>8, QueueAfter, PlaceKept
  <2> QED
    BY <1>5, <2>1, <2>2
<1> QED
  BY <1>1, <1>6, <1>7, <1>8, QueueAfter

-----------------------------------------------------------------------------
(* The reader's steps: what writers share is left alone. *)

LEMMA IdsAlone ==
  ASSUME LdataInv, IdsInOrder, UNCHANGED shared
  PROVE  IdsInOrder'
<1>1. UNCHANGED <<file, fmq, writer, writes>> /\ writes \in Nat
  BY Facts DEF shared
<1> QED
  BY <1>1, IdsKept

LEMMA SharedAlone ==
  ASSUME UNCHANGED shared, UNCHANGED <<mode, nslots>>
  PROVE  /\ UNCHANGED <<file, fmq, writes>>
         /\ Sent' = Sent /\ Retained' = Retained
         /\ Youngest' = Youngest /\ FmqThere' = FmqThere
         /\ \A f : Exists(f)' = Exists(f)
BY DEF shared, Sent, Retained, Freed, Youngest, FmqThere, Exists

LEMMA PollOrder ==
  ASSUME LdataInv, NEW n
  PROVE  /\ Polling.at = "poll" /\ Polling.ok = {} /\ Polling.fmt = "xml"
         /\ Polling.pos = reader.pos
         /\ Off.at = "off" /\ Off.ok = {} /\ Off.fmt = "xml"
         /\ Off.pos = Closed
         /\ [Polling EXCEPT !.pos = n].at = "poll"
         /\ [Polling EXCEPT !.pos = n].ok = {}
         /\ [Polling EXCEPT !.pos = n].fmt = "xml"
         /\ [Polling EXCEPT !.pos = n].pos = n
BY DEF Polling, Off

LEMMA StartOrder ==
  ASSUME OrderInv, StartReader
  PROVE  XmlInOrder' /\ PlaceSaved'
<1>1. /\ LdataInv /\ XmlInOrder /\ PlaceSaved
      /\ UNCHANGED <<mode, nslots, shared, saved, handed, stale, mishaps>>
      /\ reader.at = "off"
  BY DEF StartReader, OrderInv
<1>2. /\ reader'.at = "poll" /\ reader'.ok = {} /\ reader'.fmt = "xml"
      /\ reader'.pos = Resume
  BY DEF StartReader, Reads, Off
<1>3. XmlInOrder'
  BY <1>1, <1>2, SharedAlone DEF XmlInOrder
<1>4. Resume # Closed => saved # Closed /\ FmqThere
  BY DEF Resume
<1>5. mishaps = {} => SavedRight' /\ PlaceRight'
  <2> SUFFICES ASSUME mishaps = {} PROVE SavedRight' /\ PlaceRight'
    OBVIOUS
  <2>1. SavedRight /\ PlaceRight /\ ~stale
    BY <1>1 DEF PlaceSaved, PlaceRight
  <2>2. SavedRight'
    BY <1>1, <1>2, <2>1, SharedAlone DEF SavedRight
  <2>3. Resume = Closed => saved = Closed
    <3>1. saved # Closed => saved \in Nat \ {0} /\ FmqThere
      BY <1>1, <2>1, Facts DEF SavedRight
    <3>2. AtLast # Closed
      BY <1>1, Facts DEF AtLast, Blank, Closed
    <3> QED
      BY <3>1, <3>2 DEF Resume
  <2>4. Resume # Closed => saved \in Sent /\ fmq.sent[saved] = handed
    BY <1>1, <1>4, <2>1 DEF SavedRight
  <2>5. Resume = Closed \/ Resume = saved \/ saved \notin Retained
    BY DEF Resume
  <2>6. AtMessage' => \E j \in Sent : /\ fmq.sent[j] = handed
                                      /\ j = Resume \/ j \notin Retained
    BY <1>2, <2>4, <2>5 DEF AtMessage
  <2>7. PlaceRight'
    BY <1>1, <1>2, <2>3, <2>6, SharedAlone DEF PlaceRight
  <2> QED
    BY <2>2, <2>7
<1>6. PlaceSaved'
  BY <1>1, <1>2, <1>4, <1>5, SharedAlone DEF PlaceSaved
<1> QED
  BY <1>3, <1>6

LEMMA CheckOrder ==
  ASSUME OrderInv, CheckFmqAndXml \/ CheckAscii
  PROVE  XmlInOrder' /\ PlaceSaved'
<1>1. /\ LdataInv /\ XmlInOrder /\ PlaceSaved /\ reader \in ReaderType
      /\ UNCHANGED <<mode, nslots, shared, saved, handed, stale, mishaps>>
  BY InvTypes DEF CheckFmqAndXml, CheckAscii, OrderInv
<1>2. /\ reader'.fmt = reader.fmt /\ reader'.pos = reader.pos
      /\ reader.at \in {"poll", "check"} /\ reader'.at \in {"check", "try"}
      /\ reader'.at = "check" => reader.at = "poll"
  BY <1>1 DEF CheckFmqAndXml, CheckAscii, Reads, ReaderType
<1>3. /\ "fmq" \in reader'.ok => mode = "queue" /\ FmqThere
      /\ mode = "xml" /\ reader.ok \subseteq {"xml"} => reader'.ok \subseteq {"xml"}
      /\ mode = "queue" /\ FmqThere
           /\ (reader.at = "check" => "fmq" \in reader.ok)
           => "fmq" \in reader'.ok
  <2>1. CASE CheckFmqAndXml
    <3>1. reader'.ok = {s \in Sources : \/ s = "xml" /\ Exists(s)
                                        \/ s = "fmq" /\ mode = "queue" /\ FmqThere}
          /\ reader.at = "poll"
      BY <1>1, <2>1 DEF CheckFmqAndXml, Reads, ReaderType
    <3> QED
      BY <3>1 DEF Sources
  <2>2. CASE CheckAscii
    <3>1. reader'.ok = reader.ok \cup {s \in {"ascii"} : mode # "xml" /\ Exists(s)}
          /\ reader.at = "check"
      BY <1>1, <2>2 DEF CheckAscii, Reads, ReaderType
    <3>2. "fmq" \in reader.ok => mode = "queue" /\ FmqThere
      BY <1>1 DEF PlaceSaved
    <3> QED
      BY <3>1, <3>2
  <2> QED
    BY <2>1, <2>2
<1>4. XmlInOrder'
  BY <1>1, <1>2, <1>3, SharedAlone DEF XmlInOrder
<1>5. mishaps = {} => SavedRight' /\ PlaceRight'
  <2> SUFFICES ASSUME mishaps = {} PROVE SavedRight' /\ PlaceRight'
    OBVIOUS
  <2>1. SavedRight /\ PlaceRight
    BY <1>1 DEF PlaceSaved
  <2>2. SavedRight'
    BY <1>1, <1>2, <2>1, SharedAlone DEF SavedRight
  <2>3. reader.pos # Closed => "fmq" \in reader'.ok
    BY <1>1, <1>2, <1>3, <2>1 DEF PlaceSaved, PlaceRight
  <2>4. PlaceRight'
    BY <1>1, <1>2, <2>1, <2>3, SharedAlone DEF PlaceRight, AtMessage
  <2> QED
    BY <2>2, <2>4
<1>6. PlaceSaved'
  BY <1>1, <1>2, <1>3, <1>5, SharedAlone DEF PlaceSaved
<1> QED
  BY <1>4, <1>6

LEMMA ReturnOrder ==
  ASSUME OrderInv, NoSourceLeft \/ ReturnInfo
  PROVE  XmlInOrder' /\ PlaceSaved'
<1>1. /\ LdataInv /\ XmlInOrder /\ PlaceSaved /\ reader \in ReaderType
      /\ UNCHANGED <<mode, nslots, shared, saved, stale, mishaps>>
      /\ reader' = Polling
  BY InvTypes DEF NoSourceLeft, ReturnInfo, Reads, OrderInv
<1>2. /\ reader'.at = "poll" /\ reader'.ok = {} /\ reader'.fmt = "xml"
      /\ reader'.pos = reader.pos
  BY <1>1, PollOrder
<1>3. \/ reader.at = "try" /\ handed' = handed
      \/ reader.at = "return" /\ handed' = reader.id
  BY DEF NoSourceLeft, ReturnInfo
<1>4. XmlInOrder'
  BY <1>1, <1>2, <1>3, SharedAlone DEF XmlInOrder
<1>5. mishaps = {} => SavedRight' /\ PlaceRight'
  <2> SUFFICES ASSUME mishaps = {} PROVE SavedRight' /\ PlaceRight'
    OBVIOUS
  <2>1. SavedRight /\ PlaceRight
    BY <1>1 DEF PlaceSaved
  <2>2. SavedRight'
    BY <1>1, <1>2, <1>3, <2>1, SharedAlone DEF SavedRight
  <2>3. AtMessage => \E j \in Sent : /\ fmq.sent[j] = handed'
                                     /\ j = reader.pos \/ j \notin Retained
    BY <1>3, <2>1 DEF PlaceRight, AtMessage
  <2>4. PlaceRight'
    BY <1>1, <1>2, <1>3, <2>1, <2>3, SharedAlone DEF PlaceRight, AtMessage
  <2> QED
    BY <2>2, <2>4
<1>6. PlaceSaved'
  BY <1>1, <1>2, <1>5, SharedAlone DEF PlaceSaved
<1> QED
  BY <1>4, <1>6

(* What ReadFmq may do, one way to a line. *)
LEMMA ReadFmqWays ==
  ASSUME LdataInv, ReadFmq
  PROVE  /\ reader.at = "try" /\ "fmq" \in reader.ok
         /\ UNCHANGED <<mode, nslots, now, shared>>
         /\ UNCHANGED <<saved, handed, stale, mishaps, faults>>
         /\ \/ /\ reader'.at = "poll" /\ reader'.ok = {} /\ reader'.fmt = "xml"
               /\ reader'.pos = Blank
            \/ /\ reader'.at = "poll" /\ reader'.ok = {} /\ reader'.fmt = "xml"
               /\ reader'.pos = reader.pos /\ reader.pos # Closed
            \/ /\ Sent # {} /\ Position # Youngest
               /\ \E k \in NextMessages :
                    /\ reader' = [reader EXCEPT !.at = "save", !.pos = k,
                                   !.id = fmq.sent[k], !.prevModTime = fmq.time]
                    /\ reader'.at = "save" /\ reader'.ok = reader.ok
                    /\ reader'.pos = k /\ reader'.id = fmq.sent[k]
                    /\ k \in Sent
<1>1. CASE reader' = [Polling EXCEPT !.pos = Blank]
  BY <1>1, PollOrder DEF ReadFmq
<1>2. CASE Sent # {} /\ Position = Youngest
           /\ reader' = [Polling EXCEPT !.pos = Position]
  <2>1. reader.pos # Closed
    BY <1>2, Facts DEF Position, AtLast
  <2>2. Position = reader.pos
    BY <2>1 DEF Position
  <2> QED
    BY <1>2, <2>1, <2>2, PollOrder DEF ReadFmq
<1>3. ASSUME Sent # {}, Position # Youngest, NEW k \in NextMessages,
             reader' = [reader EXCEPT !.at = "save", !.pos = k,
                          !.id = fmq.sent[k], !.prevModTime = fmq.time]
      PROVE  /\ reader'.at = "save" /\ reader'.ok = reader.ok
             /\ reader'.pos = k /\ reader'.id = fmq.sent[k]
             /\ k \in Sent
  BY <1>3, NextMessagesThere, InvTypes DEF ReaderType
<1> QED
  BY <1>1, <1>2, <1>3 DEF ReadFmq, Reads

LEMMA ReadFmqOrder ==
  ASSUME OrderInv, ReadFmq
  PROVE  XmlInOrder' /\ PlaceSaved'
<1>1. /\ LdataInv /\ XmlInOrder /\ PlaceSaved
      /\ UNCHANGED <<mode, nslots, shared, saved, handed, stale, mishaps>>
      /\ reader.at = "try" /\ "fmq" \in reader.ok
      /\ mode = "queue" /\ FmqThere
  BY ReadFmqWays DEF OrderInv, PlaceSaved
<1>2. XmlInOrder'
  BY <1>1 DEF XmlInOrder
<1>3. mishaps = {} => SavedRight /\ PlaceRight
  BY <1>1 DEF PlaceSaved
<1>4. reader'.at \in {"poll", "save"}
  BY <1>1, ReadFmqWays
<1>5. SavedRight => SavedRight'
  BY <1>1, <1>4, SharedAlone DEF SavedRight
<1>6. CASE reader'.at = "poll" /\ reader'.ok = {} /\ reader'.pos = Blank
  <2>1. PlaceRight => PlaceRight'
    BY <1>1, <1>6, SharedAlone DEF PlaceRight, AtMessage, Blank, Closed
  <2> QED
    BY <1>1, <1>2, <1>3, <1>5, <1>6, <2>1, SharedAlone DEF PlaceSaved
<1>7. CASE reader'.at = "poll" /\ reader'.ok = {} /\ reader'.pos = reader.pos
           /\ reader.pos # Closed
  <2>1. PlaceRight => PlaceRight'
    BY <1>1, <1>7, SharedAlone DEF PlaceRight, AtMessage
  <2> QED
    BY <1>1, <1>2, <1>3, <1>5, <1>7, <2>1, SharedAlone DEF PlaceSaved
<1>8. ASSUME NEW k \in Sent, reader'.at = "save", reader'.ok = reader.ok,
             reader'.pos = k, reader'.id = fmq.sent[k]
      PROVE  XmlInOrder' /\ PlaceSaved'
  <2>1. k # Closed
    BY <1>1, Facts DEF Closed
  <2>2. PlaceRight => PlaceRight'
    BY <1>1, <1>8, <2>1, SharedAlone DEF PlaceRight, AtMessage
  <2> QED
    BY <1>1, <1>2, <1>3, <1>5, <1>8, <2>1, <2>2, SharedAlone DEF PlaceSaved
<1> QED
  BY <1>1, <1>6, <1>7, <1>8, ReadFmqWays

LEMMA SaveOrder ==
  ASSUME OrderInv, SaveUnlink \/ SaveRename \/ SaveFails
  PROVE  XmlInOrder' /\ PlaceSaved'
<1>1. /\ LdataInv /\ XmlInOrder /\ PlaceSaved /\ reader \in ReaderType
      /\ UNCHANGED <<mode, nslots, shared, handed, mishaps>>
  BY InvTypes DEF SaveUnlink, SaveRename, SaveFails, OrderInv
<1>2. /\ reader'.ok = reader.ok /\ reader'.pos = reader.pos
      /\ reader'.id = reader.id /\ reader.at \in {"save", "saving"}
      /\ \/ reader'.at = "saving" /\ saved' = Closed /\ stale'
         \/ reader'.at = "return" /\ saved' = reader.pos
         \/ reader'.at = "return" /\ saved' = saved /\ stale'
  BY <1>1 DEF SaveUnlink, SaveRename, SaveFails, Reads, ReaderType
<1>3. mode = "queue" /\ reader.pos # Closed
  BY <1>1, <1>2 DEF PlaceSaved
<1>4. XmlInOrder'
  BY <1>1, <1>3 DEF XmlInOrder
<1>5. mishaps = {} => SavedRight' /\ PlaceRight'
  <2> SUFFICES ASSUME mishaps = {} PROVE SavedRight' /\ PlaceRight'
    OBVIOUS
  <2>1. SavedRight /\ PlaceRight
    BY <1>1 DEF PlaceSaved
  <2>2. reader.pos \in Sent /\ reader.id = fmq.sent[reader.pos]
    BY <1>2, <2>1 DEF PlaceRight
  <2>3. SavedRight'
    BY <1>1, <1>2, <2>1, <2>2, SharedAlone DEF SavedRight
  <2>4. PlaceRight'
    BY <1>1, <1>2, <1>3, <2>2, SharedAlone DEF PlaceRight
  <2> QED
    BY <2>3, <2>4
<1>6. PlaceSaved'
  BY <1>1, <1>2, <1>3, <1>5, SharedAlone DEF PlaceSaved
<1> QED
  BY <1>4, <1>6

(* Without mishaps, a reader that has a place in the queue tries no file. *)
LEMMA NoPlaceKept ==
  ASSUME LdataInv, PlaceSaved,
         mishaps = {} => reader.pos = Closed /\ reader.at \notin {"off", "return"},
         UNCHANGED <<mode, nslots, fmq, saved, handed, stale, mishaps>>,
         reader'.ok \subseteq reader.ok, reader'.pos = reader.pos,
         reader'.at \in {"poll", "open", "return", "bad", "try"}
  PROVE  PlaceSaved'
<1>1. Sent' = Sent /\ FmqThere' = FmqThere
  BY DEF Sent, FmqThere
<1>2. mishaps = {} => SavedRight' /\ PlaceRight'
  <2> SUFFICES ASSUME mishaps = {} PROVE SavedRight' /\ PlaceRight'
    OBVIOUS
  <2>1. saved = Closed
    BY DEF PlaceSaved, PlaceRight
  <2>2. SavedRight'
    BY <2>1 DEF SavedRight
  <2>3. PlaceRight'
    BY <2>1 DEF PlaceRight, AtMessage
  <2> QED
    BY <2>2, <2>3
<1> QED
  BY <1>1, <1>2 DEF PlaceSaved

LEMMA FileStepOrder ==
  ASSUME OrderInv,
         (\E f \in Formats : StatFile(f)) \/ ReadWorks \/ ReadFails
  PROVE  XmlInOrder' /\ PlaceSaved'
<1>1. /\ LdataInv /\ XmlInOrder /\ PlaceSaved /\ reader \in ReaderType
      /\ IdsInOrder
      /\ UNCHANGED <<mode, nslots, shared, saved, handed, stale, mishaps>>
      /\ UNCHANGED <<file, fmq, writes>>
  BY InvTypes, SharedAlone DEF StatFile, ReadWorks, ReadFails, OrderInv
<1>2. /\ reader.at \in {"try", "open"}
      /\ reader.at = "try" => "fmq" \notin reader.ok
  BY DEF StatFile, ReadWorks, ReadFails
<1>3. mishaps = {} => reader.pos = Closed /\ reader.at \notin {"off", "return"}
  BY <1>1, <1>2 DEF PlaceSaved, PlaceRight
<1>4. ASSUME NEW f \in Formats, StatFile(f) PROVE XmlInOrder' /\ PlaceSaved'
  <2>1. \/ reader' = Polling
        \/ reader' = [reader EXCEPT !.at = "open", !.fmt = f, !.seen = file[f]]
    BY <1>4 DEF StatFile, Reads
  <2>2. f \in reader.ok
    BY <1>4 DEF StatFile
  <2>3. /\ reader'.at \in {"poll", "open"} /\ reader'.pos = reader.pos
        /\ reader'.fmt \in {f, "xml"} /\ reader'.ok \subseteq reader.ok
    BY <1>1, <2>1, PollOrder DEF ReaderType
  <2>4. XmlInOrder'
    BY <1>1, <2>2, <2>3 DEF XmlInOrder, Exists
  <2>5. PlaceSaved'
    BY <1>1, <1>3, <2>3, NoPlaceKept
  <2> QED
    BY <2>4, <2>5
<1>5. CASE ReadWorks
  <2>1. /\ reader'.at = "return" /\ reader'.ok = reader.ok
        /\ reader'.fmt = reader.fmt /\ reader'.id = file[reader.fmt].id
        /\ reader'.pos = reader.pos
        /\ Exists(reader.fmt) /\ reader.fmt \in Formats
    BY <1>1, <1>5 DEF ReadWorks, Reads, ReaderType
  <2>2. file[reader.fmt].id <= writes /\ file[reader.fmt].id \in Nat
    BY <1>1, <2>1, Facts DEF IdsInOrder
  <2>3. XmlInOrder'
    BY <1>1, <2>1, <2>2 DEF XmlInOrder, Exists
  <2>4. PlaceSaved'
    BY <1>1, <1>3, <2>1, NoPlaceKept
  <2> QED
    BY <2>3, <2>4
<1>6. CASE ReadFails
  <2>1. /\ reader'.at = "bad" /\ reader'.ok = reader.ok
        /\ reader'.fmt = reader.fmt /\ reader'.pos = reader.pos
    BY <1>1, <1>6 DEF ReadFails, Reads, ReaderType
  <2>2. XmlInOrder'
    BY <1>1, <2>1 DEF XmlInOrder, Exists
  <2>3. PlaceSaved'
    BY <1>1, <1>3, <2>1, NoPlaceKept
  <2> QED
    BY <2>2, <2>3
<1> QED
  BY <1>4, <1>5, <1>6

LEMMA RemoveOrder ==
  ASSUME OrderInv, RemoveBad
  PROVE  IdsInOrder' /\ XmlInOrder' /\ PlaceSaved'
<1>1. /\ LdataInv /\ XmlInOrder /\ PlaceSaved /\ reader \in ReaderType
      /\ IdsInOrder /\ writes \in Nat
      /\ UNCHANGED <<mode, nslots, fmq, writer, writes, saved, handed, stale,
                     mishaps>>
      /\ reader.at = "bad"
      /\ file \in [Formats -> Files]
      /\ file' = [file EXCEPT ![reader.fmt] = None]
  BY InvTypes, Facts DEF RemoveBad, OrderInv
<1>2. /\ reader'.at = "try" /\ reader'.ok = reader.ok \ {reader.fmt}
      /\ reader'.fmt = reader.fmt /\ reader'.pos = reader.pos
  BY <1>1 DEF RemoveBad, Reads, ReaderType
<1>3. \A f \in Formats : file'[f] \in {file[f], None}
  BY <1>1
<1>4. IdsInOrder'
  BY <1>1, <1>3, IdsKept
<1>5. XmlInOrder'
  BY <1>1, <1>2, <1>3 DEF XmlInOrder, Exists, Formats
<1>6. mishaps = {} => reader.pos = Closed /\ reader.at \notin {"off", "return"}
  BY <1>1 DEF PlaceSaved, PlaceRight
<1>7. PlaceSaved'
  BY <1>1, <1>2, <1>6, NoPlaceKept
<1> QED
  BY <1>4, <1>5, <1>7

LEMMA DiesOrder ==
  ASSUME OrderInv, ReaderDies
  PROVE  XmlInOrder' /\ PlaceSaved'
<1>1. /\ LdataInv /\ XmlInOrder /\ PlaceSaved
      /\ UNCHANGED <<mode, nslots, shared, saved, handed, stale>>
      /\ reader.at # "off"
  BY DEF ReaderDies, OrderInv
<1>2. /\ reader'.at = "off" /\ reader'.ok = {} /\ reader'.fmt = "xml"
      /\ reader'.pos = Closed
  BY <1>1, PollOrder DEF ReaderDies, Reads
<1>3. mishaps' = {} => /\ mishaps = {} /\ ~stale
                       /\ reader.at = "return" => reader.pos = Closed
  BY DEF ReaderDies
<1>4. XmlInOrder'
  BY <1>1, <1>2, SharedAlone DEF XmlInOrder
<1>5. mishaps' = {} => SavedRight' /\ PlaceRight'
  <2> SUFFICES ASSUME mishaps' = {} PROVE SavedRight' /\ PlaceRight'
    OBVIOUS
  <2>1. SavedRight /\ PlaceRight
    BY <1>1, <1>3 DEF PlaceSaved
  <2>2. reader.at = "return" => saved = Closed
    BY <1>3, <2>1 DEF PlaceRight
  <2>3. SavedRight'
    BY <1>1, <1>2, <2>1, <2>2, SharedAlone DEF SavedRight
  <2>4. PlaceRight'
    BY <1>1, <1>2, <1>3 DEF PlaceRight
  <2> QED
    BY <2>3, <2>4
<1>6. PlaceSaved'
  BY <1>1, <1>2, <1>5, SharedAlone DEF PlaceSaved
<1> QED
  BY <1>4, <1>6

LEMMA FailsOrder ==
  ASSUME OrderInv, ReadFmqFails
  PROVE  XmlInOrder' /\ PlaceSaved'
<1>1. /\ LdataInv /\ XmlInOrder /\ PlaceSaved /\ reader \in ReaderType
      /\ UNCHANGED <<mode, nslots, shared, saved, handed>>
  BY InvTypes DEF ReadFmqFails, OrderInv
<1>2. /\ reader'.at = reader.at /\ reader'.ok = reader.ok \ {"fmq"}
      /\ reader'.fmt = reader.fmt /\ reader.at = "try"
      /\ reader'.pos = Closed /\ mishaps' # {}
  BY <1>1 DEF ReadFmqFails, Reads, ReaderType
<1>3. XmlInOrder'
  BY <1>1, <1>2, SharedAlone DEF XmlInOrder
<1>4. PlaceSaved'
  BY <1>1, <1>2, SharedAlone DEF PlaceSaved
<1> QED
  BY <1>3, <1>4

LEMMA OrderStep == OrderInv /\ [LdataNext]_lvars => OrderInv'
<1> SUFFICES ASSUME OrderInv, [LdataNext]_lvars PROVE OrderInv'
  OBVIOUS
<1>1. LdataInv /\ LdataInv' /\ IdsInOrder /\ XmlInOrder /\ PlaceSaved
  BY NextInv DEF OrderInv
<1>2. ASSUME NEW w \in Writers,
             LockForWrite(w) \/ WriteStep(w) \/ WriteFault(w)
      PROVE  IdsInOrder' /\ XmlInOrder' /\ PlaceSaved'
  BY <1>2, LockOrder, FileOrder, RenameOrder, EndOrder
     DEF WriteStep, WriteFault
<1>3. CASE RemoveBad
  BY <1>1, <1>3, RemoveOrder DEF OrderInv
<1>4. CASE (ReadStep /\ ~RemoveBad) \/ ReadFault
  <2>1. XmlInOrder' /\ PlaceSaved'
    BY <1>4, StartOrder, CheckOrder, ReturnOrder, ReadFmqOrder, SaveOrder,
       FileStepOrder, DiesOrder, FailsOrder DEF ReadStep, ReadFault
  <2>2. UNCHANGED shared
    BY <1>4
       DEF ReadStep, ReadFault, StartReader, CheckFmqAndXml, CheckAscii,
           NoSourceLeft, ReadFmq, SaveUnlink, SaveRename, SaveFails,
           ReturnInfo, StatFile, ReadWorks, ReadFails, ReadFmqFails, ReaderDies
  <2> QED
    BY <1>1, <2>1, <2>2, IdsAlone DEF OrderInv
<1>5. CASE Tick \/ UNCHANGED lvars
  <2>1. /\ UNCHANGED <<mode, nslots, handed, reader, saved, stale, mishaps>>
        /\ UNCHANGED shared
    BY <1>5 DEF Tick, lvars, own
  <2>2. UNCHANGED <<file, fmq, writes>>
    BY <2>1 DEF shared
  <2>3. XmlInOrder'
    BY <1>1, <2>1, <2>2, XmlKept DEF Exists
  <2>4. PlaceSaved'
    BY <1>1, <2>1, <2>2, PlaceKept
  <2> QED
    BY <1>1, <2>1, <2>3, <2>4, IdsAlone DEF OrderInv
<1> QED
  BY <1>1, <1>2, <1>3, <1>4, <1>5 DEF LdataNext, OrderInv

(* The invariant of the order of informations: numbers only grow, in the     *)
(* files and in the queue, and while nothing has cost the reader its place   *)
(* it goes on after the message handed over last, for any number of writers, *)
(* of slots and of writes, files that come out short and state files that    *)
(* cannot be saved.                                                          *)
THEOREM LdataOrder == LdataSpec => []OrderInv
<1>1. LdataInit => OrderInv
  BY InitInv, OrderInit DEF OrderInv
<1>2. OrderInv /\ [LdataNext]_lvars => OrderInv'
  BY OrderStep
<1>3. QED
  BY <1>1, <1>2, PTL DEF LdataSpec

(* A reader of the XML file never goes back, for any number of writers, of   *)
(* writes, and whatever dies or fails.                                       *)
THEOREM LdataNeverBack == LdataSpec => NeverBack
<1>1. OrderInv /\ [LdataNext]_lvars => [mode = "xml" => handed' >= handed]_lvars
  <2> SUFFICES ASSUME OrderInv, LdataNext, mode = "xml"
               PROVE  handed' >= handed
    OBVIOUS
  <2>1. handed \in Nat /\ XmlInOrder /\ reader.id \in Nat
    BY Facts DEF OrderInv
  <2>2. CASE ReturnInfo
    BY <2>1, <2>2 DEF ReturnInfo, XmlInOrder
  <2>3. CASE ~ReturnInfo
    <3>1. handed' = handed
      BY <2>3
         DEF LdataNext, LockForWrite, WriteStep, OpenTmp, FillTmp, UnlinkFile,
             RenameTmp, WriteFmqAndUnlock, ClearFmqAndUnlock, WriteFault,
             FillTmpShort, AbandonWrite, AbandonInFmq, ReadStep, StartReader,
             CheckFmqAndXml, CheckAscii, NoSourceLeft, ReadFmq, SaveUnlink,
             SaveRename, StatFile, ReadWorks, ReadFails, RemoveBad, ReadFault,
             ReadFmqFails, SaveFails, ReaderDies, Tick, own
    <3> QED
      BY <2>1, <3>1
  <2> QED
    BY <2>2, <2>3
<1>2. QED
  BY <1>1, LdataOrder, PTL DEF LdataSpec, NeverBack

(* What the reader takes next from the queue follows what it has handed over *)
(* last, if that is still there.                                             *)
LEMMA TakesTheNext ==
  ASSUME OrderInv, ReadFmq, reader'.at = "save", AtMessage, mishaps = {},
         NEW h \in Retained, fmq.sent[h] = handed
  PROVE  h + 1 \in Sent /\ reader'.id = fmq.sent[h + 1]
<1>1. /\ LdataInv /\ IdsInOrder /\ PlaceRight
      /\ reader.at = "try" /\ Youngest \in Nat /\ Sent = 1 .. Youngest
      /\ nslots \in Nat \ {0, 1}
  BY Facts, ReadFmqWays DEF OrderInv, PlaceSaved
<1>2. PICK j \in Sent : /\ fmq.sent[j] = handed
                        /\ j = reader.pos \/ j \notin Retained
  BY <1>1 DEF PlaceRight
<1>3. h \in Sent
  BY DEF Retained
<1>4. h = j
  <2>1. \A k \in Sent : fmq.sent[k] \in Nat
    BY <1>1, Facts
  <2>2. h < j => fmq.sent[h] < fmq.sent[j]
    BY <1>1, <1>2, <1>3 DEF IdsInOrder
  <2>3. j < h => fmq.sent[j] < fmq.sent[h]
    BY <1>1, <1>2, <1>3 DEF IdsInOrder
  <2>4. fmq.sent[j] = fmq.sent[h] /\ fmq.sent[h] \in Nat
    BY <1>2, <1>3, <2>1
  <2>5. h \in Nat /\ j \in Nat
    BY <1>1, <1>2, <1>3
  <2> QED
    BY <2>2, <2>3, <2>4, <2>5
<1>5. Position = h /\ Position # Blank
  <2>1. reader.pos = h
    BY <1>2, <1>4
  <2> QED
    BY <2>1 DEF Position, AtMessage
<1>6. PICK k \in NextMessages : reader'.id = fmq.sent[k] /\ Position # Youngest
  BY <1>1, ReadFmqWays
<1>7. h + 1 \in Retained
  <2>1. h \in Nat /\ h < Youngest /\ h > Youngest - nslots
    BY <1>1, <1>3, <1>5, <1>6 DEF Retained
  <2>2. h + 1 \in Sent /\ h + 1 > Youngest + 1 - nslots
    BY <1>1, <2>1
  <2> QED
    BY <1>1, <2>1, <2>2 DEF Retained, Freed
<1>8. k = h + 1
  BY <1>5, <1>6, <1>7 DEF NextMessages
<1> QED
  BY <1>6, <1>7, <1>8 DEF Retained

(* A reader of the queue passes over an information only if the one it has   *)
(* handed over last has left the queue, or a mishap has cost it its place:   *)
(* for any length of the queue, any number of writers, however often the     *)
(* reader dies with its place saved, and however many saves fail before one  *)
(* that works.                                                               *)
THEOREM LdataSkipsOnlyLost == LdataSpec => SkipsOnlyWhenLost
<1> DEFINE Skips(k) == /\ reader.at = "try" /\ reader'.at = "save"
                       /\ AtMessage /\ mishaps = {}
                       /\ handed < fmq.sent[k] /\ fmq.sent[k] < reader'.id
<1>1. OrderInv /\ [LdataNext]_lvars =>
        [\A k \in Sent : Skips(k) => \A h \in Retained : fmq.sent[h] # handed]_lvars
  <2> SUFFICES ASSUME OrderInv, LdataNext, NEW k \in Sent, Skips(k),
                      NEW h \in Retained, fmq.sent[h] = handed
               PROVE  FALSE
    OBVIOUS
  <2>1. ReadFmq
    <3>1. reader' # reader /\ reader.at = "try" /\ reader'.at = "save"
          /\ LdataInv /\ reader \in ReaderType
      BY InvTypes DEF OrderInv
    <3>2. ReadStep \/ ReadFault
      BY <3>1
         DEF LdataNext, LockForWrite, WriteStep, OpenTmp, FillTmp, UnlinkFile,
             RenameTmp, WriteFmqAndUnlock, ClearFmqAndUnlock, WriteFault,
             FillTmpShort, AbandonWrite, AbandonInFmq, Tick, own
    <3>3. ~ReadFault
      <4>1. ReaderDies => reader'.at = "off"
        BY <3>1, PollOrder DEF ReaderDies, Reads
      <4>2. ReadFmqFails => reader'.at = reader.at
        BY <3>1 DEF ReadFmqFails, Reads, ReaderType
      <4>3. ~SaveFails
        BY <3>1 DEF SaveFails
      <4> QED
        BY <3>1, <4>1, <4>2, <4>3 DEF ReadFault
    <3>4. ~NoSourceLeft /\ \A f \in Formats : ~StatFile(f)
      <4>1. Polling.at = "poll"
        BY <3>1, PollOrder
      <4>2. NoSourceLeft => reader' = Polling
        BY DEF NoSourceLeft, Reads
      <4>3. ASSUME NEW f \in Formats, StatFile(f)
            PROVE  reader'.at \in {"poll", "open"}
        BY <3>1, <4>1, <4>3 DEF StatFile, Reads, ReaderType
      <4> QED
        BY <3>1, <4>1, <4>2, <4>3
    <3> QED
      BY <3>1, <3>2, <3>3, <3>4
         DEF ReadStep, StartReader, CheckFmqAndXml, CheckAscii, SaveUnlink,
             SaveRename, ReturnInfo, ReadWorks, ReadFails, RemoveBad
  <2>2. h + 1 \in Sent /\ reader'.id = fmq.sent[h + 1]
    BY <2>1, TakesTheNext
  <2>3. /\ Sent \subseteq Nat /\ \A j \in Sent : fmq.sent[j] \in Nat
        /\ h \in Sent /\ h \in Nat /\ k \in Nat
        /\ \A i, j \in Sent : i < j => fmq.sent[i] < fmq.sent[j]
    BY Facts DEF OrderInv, IdsInOrder, Retained
  <2>4. fmq.sent[h] < fmq.sent[k] /\ fmq.sent[k] < fmq.sent[h + 1]
    BY <2>2
  <2>5. h < k
    <3>1. k < h => fmq.sent[k] < fmq.sent[h]
      BY <2>3
    <3>2. fmq.sent[k] \in Nat /\ fmq.sent[h] \in Nat
      BY <2>3
    <3>3. k # h
      BY <2>4, <3>2
    <3> QED
      BY <2>3, <2>4, <3>1, <3>2, <3>3
  <2>6. k < h + 1
    <3>1. h + 1 < k => fmq.sent[h + 1] < fmq.sent[k]
      BY <2>2, <2>3
    <3>2. fmq.sent[k] \in Nat /\ fmq.sent[h + 1] \in Nat
      BY <2>2, <2>3
    <3>3. k # h + 1
      BY <2>4, <3>2
    <3> QED
      BY <2>3, <2>4, <3>1, <3>2, <3>3
  <2> QED
    BY <2>3, <2>5, <2>6
<1>2. QED
  BY <1>1, LdataOrder, PTL DEF LdataSpec, SkipsOnlyWhenLost
=============================================================================
