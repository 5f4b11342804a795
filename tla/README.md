# A formal model of LROSE's infrastructure: message queues, thread pools, servers, latest-data files

LROSE (the Lidar Radar Open Software Environment) is a large collection of
libraries and several hundred programs for weather radar and lidar data.  Most
of it is numerical: it reads a file, computes, writes a file.  What holds a
running system together is a small infrastructure layer: file message queues
(FMQ), latest-data files, compute thread pools and data servers.  There many
processes and threads work on shared state, and that layer is what this project
models, checks and proves.

Paths below are relative to `src/codebase/libs/`; a line number alone refers to
the file of the component that the paragraph is about (section 1).

## 1. Inventory

| Component | State | Operations | Hard behaviour | What makes it correct | Modelled |
|---|---|---|---|---|---|
| FMQ write side (`Fmq/src/Fmq/Fmq.cc`) | stat file: status struct and slot table; buffer file; per object `_stat`, `_slots` | `writeMsg`, `_space_avail`, `_free_oldest_slot`, `_clear` | several writer processes under one file lock, crashes between device writes, ring and buffer wrapping independently, blocking writes that drop the lock | published messages are intact, newest ones kept, region pointers account for the buffer, writes end | yes |
| FMQ reading (same file) | `_lastIdRead`, `_lastSlotRead` | `readMsg`, `readMsgBlocking`, `seek` | no lock: stat, slot and entry are read at different moments; overrun | order, integrity, no needless skips, catching up; lossless in blocking mode | partly |
| FMQ opening (same file) | as above | `init`, `closeMsgQueue`, `_check_and_clear` | check without the lock, re-initialisation under it, creation by truncation | a damaged queue is repaired, a sound one kept | partly |
| FMQ devices | files or shared memory segments, locks or semaphores | read, write, seek, lock, `update_last_id_read` | atomicity of each access | struct-sized accesses are seen whole | file device, as the grain of the actions |
| Threads and pool (`toolsa/src/threads/TaThread*.cc`) | start, complete, exit flags; avail and done pools, two counters | `signalRunToStart`, `getNextThread`, `addThreadToDone`, `checkAllDone`, destructor | lost wake-ups, shut-down while threads run, a parent that writes a thread's job without a lock | every job run and collected once, nobody waits for ever | yes |
| Double queue (`TaThreadDoubleQue.cc`) | available and active deques | `thread`, `waitForThreads`, `releaseThreads` | re-use of a thread that may still run | a thread's info is replaced only when it is at rest; the release returns | yes |
| Polling queue (`TaThreadPollingQue.cc`, `TaThreadSimplePolling.cc`) | `_waiting`, `_complete`, `_thread_index` | `waitForAnyOneThread`, `reactivate`, destructor | one flag and one index for all threads | each result handed over once and copied while its thread rests | yes |
| Data servers (`dsserver/src/DsServer`) | client count, thread list, last action time | accept, deny, spawn, purge, quiesce, exit | children that fail, stop or end at any moment; a count that must match them | the count, the limit, and that the server leaves when and only when it should | yes |
| Latest-data information (`didss/src/LdataInfo/LdataInfo.cc`) | `_latest_data_info` files, an FMQ of them, a reader's state file | `write`, `read`, `readForced` | unlink and rename, content that is written unchecked, time stamps of one second, a queue left half written, a position that cannot be saved, restarts | nothing older after newer, what is skipped was lost, the latest arrives | partly |
| `DsFmq`, `DsFmqServer` | socket, one `DsFmq` per client | open, read, write, close by request | client and server lose each other | a request is carried out once | no |
| Queue wrappers (`NowcastQueue`, `DsRadarQueue`, ...) | none beyond one `Fmq` | assemble, disassemble | - | conversion | no |
| Locator and data mapper | request and reply | - | retries | - | no |
| Spdb | index and data files | put, get, compress | one lock, crash between files | index matches data | no |
| Radx, Mdv, Ncxx, radar, math libraries | - | - | arithmetic on real data | - | no, out of reach of finite checks |
| Applications, displays | - | - | - | - | no |

Components interact as follows.

* Writers and readers of an FMQ never talk to each other: all they share is the
  two files.  Writers exclude one another with a lock on the stat file; readers
  take no lock and rely on each struct being read whole (checksums, up to five
  tries) and on the cookie and id around each message.  In blocking mode the
  reader also writes `last_id_read` into the status struct, without the lock.  A
  process that opens a queue for writing checks it without the lock and
  re-initialises it under the lock if the check fails.
* A thread pool and its application share memory.  The flags of a thread are
  under one mutex and condition variable each, the pools under another mutex.
  The job of a thread (`setCovRay`, `info`) is under no lock at all: only the
  order of the calls protects it.
* The boss of a data server and its children share nothing but `waitpid`; the
  boss and the threads of a threaded server share the list of threads.
* Writers and readers of the latest-data information share files in a directory
  and an FMQ; writers lock, readers do not.  `DsFmqServer` is a client of the
  `Fmq` class.  `LdataInfo` is not: it uses the older C library of the same queue
  (`toolsa/src/fmq`), whose open neither checks the queue nor repairs it.  There a
  queue that a dead writer has left half written is found out, if at all, by the
  consistency check of a later write, which clears it.

## 2. Modules

| Module | Models |
|---|---|
| `FmqTypes` | status struct, slots, the words of the buffer, slot and id arithmetic, `_slot_in_active_region` |
| `FmqQueue` | the write side: `_write`, `_write_msg`, `_space_avail`, `_free_oldest_slot`, `_clear`; failures |
| `FmqQueueInv` | the inductive invariants of the write side: `TypeInv`, `IInv`, `RingInv` |
| `FmqQueue_proofs` | theorems about the write side |
| `FmqReader` | `FmqQueue` composed with readers that take no lock |
| `FmqReaderInv` | the inductive invariants of the readers: `ReaderInv`, `SerialInv`, `PositionInv` |
| `FmqFifo` | abstract: a bounded first-in, first-out channel with readers that join |
| `FmqFifoInv` | the inductive invariant behind that refinement: `PairInv` |
| `FmqOpen` | `FmqQueue` composed with processes that open, check, repair, die and re-open |
| `FmqOpenInv` | the inductive invariants of the openers: `OpenInv`, `KeptInv` |
| `FmqUsers_proofs` | theorems about readers and openers |
| `TaThread` | the flags and the loop of one compute thread, and what a parent does to it |
| `TaThreadPool` | the pool and the two loops that applications run over it |
| `TaDoubleQue` | the double queue with the rounds of the applications, with and without threads |
| `JobSharing` | abstract: jobs are started, run and collected once, never more open than threads |
| `TaPollingQue` | the polling queue with the loop of `DsEnsembleAnyTrigger` |
| `PolledWork` | abstract: workers that work over and over, a caller that takes one result per call |
| `DsServer` | the boss of a data server, forking or threaded, with its clients |
| `LdataInfo` | writers and a reader of the latest-data information |
| `QueueLemmas` | lemmas about sequences without repetition |
| `TaThreadPool_proofs`, `TaDoubleQue_proofs`, `TaPollingQue_proofs`, `DsServer_proofs`, `LdataInfo_proofs` | theorems about these components |
| `MC*` | constants for TLC |

Definitions named `X_Slip` (with an underscore) are plausible slips of `X`; they
are not part of the model and serve to show that the properties depend on `X`.

### FMQ

`stat`, `slots` and `buf` are the two files.  `lock` is the holder of the file
lock; `stage`, `st`, `job`, `off`, `done` are its locals: where it is in
`_write_msg` or `_clear`, its copy `_stat`, the `write_slot`, `write_id` and
`stored_len`, the offset, and how far a multi-step write has come.  Only the
holder has live locals, with one exception: a writer asleep in the
blocking-write loop keeps its `write_slot` and `write_id`, in `waiting`.

Lengths and offsets are in 32-bit words, as `_write_msg` pads every message to
them.  A word of the buffer is a pair (serial number of the write, place in its
entry): that is enough to say whose word it is, whether it can pass for a cookie
or an id, and whether a message is whole.  `log` is a history variable, the
entries whose writing began; only properties and serial numbers use it.  Fields
that no control flow depends on (times, type, compression) are left out.

One action per device access of the lock holder, because that is what an
unlocked reader, or the process after a crash, can tell apart: `BeginWrite`
(lock, read stat, choose slot and id), `WaitForReader`, `WakeUp`, `StopWaiting`
(blocking mode), `RingHasRoom`, `TooLarge`, `Packed`, `SwitchToInsert`,
`FreeOldestSlot`, `OffsetMismatch`, `ChooseOffset` (the space loop), `WriteWord`
(the entry, word by word), `WriteSlot`, `WriteStat`, `ClearBuf`, `ClearSlot`,
`ClearStat` (re-initialisation), and `Abandon`: the holder dies or an error makes
`_write_msg` return, at any point.  Of the readers the write side sees only
`ReaderReports`.  `WriterNext` is all that writers do; `FmqReader` and `FmqOpen`
compose it with processes that report what they have really read.

A reader reads stat (`PollStat`), a slot (`ReadSlot`), an entry (`ReadMsg`) and
may report its position (`UpdateLastIdRead`).  The read of an entry is one action
since its writing is not: every mixture of old and new words is reached already.
The reads guarded by a checksum are one atomic read.  An opener reads stat, the
table and the entries in the same way (`OpenStat`, `ReadTable`, `CheckSlot`,
`CheckEntry`, `SeekEndRdwr`, `ReportPosition`), and may go on to `StartClear`.
A slot number of -1 passes the range checks of `_read_slot`, so the ten words
before the table, the tail of the status struct, are read as a slot;
`PhantomSlot` stands for it.

### Threads

`TaThread` has five variables, each a function of the thread: where it is in
`_run` (`at`), and the flags `start`, `complete`, `exit`, `cancel`.  A critical
section is one action, because nothing else can be seen of it.  A wait on a
condition variable in a `while` over its flag is an action enabled when the flag
is set: a spurious wake-up only finds the flag unset again.  In the pool, whose
waits have no such loop (`_emptyCond`), the wait is a state of its own
(`parked`) and `WakeSpuriously` an action.  A cancelled thread dies at the next
cancellation point (`ActOnCancel`).

`TaThreadPool` has the two pools, `_readyForDoneCheck` and the two counters; the
parent runs either the loop of the `TaThreadPool.hh` example or the one of the
Radx applications (`style`).  The destructor holds the mutex while it cancels and joins
(`held`), so it is three actions and no thread can enter the pool meanwhile.
`TaDoubleQue` has the two deques and a parent that runs rounds of jobs; the
release goes through its four passes thread by thread.  `TaPollingQue` has the
one flag, the one index and the 'waiting' state; a thread that is cancelled while
it waits on `_waitingCond` dies with `_waitingMutex` held (`lost`).

### Servers

`DsServer`: the place of the boss in `waitForClients`, the connection it has in
hand, the backlog, `_numClients`, `_doShutdown`, and the time since the last
action; per client where it is, its child or thread included.  One action per step of the loop: `GetClient`,
`TimedOut`, `Deny`, `Spawn`, `SpawnFails`, `PurgeCompleted`, `Check`,
`ExitMethod`.  Around the boss clients connect, are served, and children may be
stopped and continued by signals, which `waitpid` with `WUNTRACED` reports.
The two kinds of server differ in `Spawn` and `PurgeCompleted`.

### Latest-data information

`LdataInfo` numbers each information by the order of the writes.  A file is the
number it holds, whether it is whole, and its modification time in seconds.  A
writer takes the lock; then for each format it opens and fills a temporary file of
its own (the name ends with its pid, 1375-1380), unlinks the final name and
renames; then it writes to the queue and unlocks.  It may die or fail between any
two steps.  What the code does not check can go wrong without its notice: the content of
the file may come out short and be renamed all the same (`FillTmpShort`).

`fmq` is the queue as the sequence of the messages sent, of which the last
`_fmqNSlots` are retained.  It is written by the C library: a writer that dies in
the write after it has freed the oldest slot leaves a table that does not agree
with the status (`AbandonInFmq`, `fmq.slots`); a later write finds that out by
its check (`fmq_write.c:646`), clears the queue, numbers and all, and fails
(`ClearFmqAndUnlock`), or passes it by chance and goes on.

The reader tries the queue, the XML file and the ASCII file in that order.  It
saves its position by unlink and rename, or fails to, which is worth a warning
only (`SaveFails`, 1903-1906); returns; and may die at any point and be started
again, at the position it saved or, if that is no longer in the queue, at the
last message.

These steps of the code are one step here: opening, seeking and reading the
queue; the accesses of one write to the queue, but for the death between freeing
a slot and the status; the clear.  The state file is either written or not: one
with short content is unreadable, and counts as a save that failed after the unlink.
A reader does not take an entry before the status publishes it, the buffer does
not give up messages before the ring does, and the queue has two slots or more.
What happens between the device accesses of a write is the subject of `FmqQueue` and `FmqReader`.

## 3. Runs

| Run | Question | Result |
|---|---|---|
| `queue_write` | two writers, nothing fails, all messages fit | `TypeOK`, `ActiveAreaExact`, `NeverReinitialised`, `RetainsLatest`, `WriteReturns` hold |
| `queue_failures` | one blocking writer that may die or fail anywhere, messages too large, readers that report any id at any moment | `PublishedNotOverwritten` and `IInv` hold |
| `reader_overrun` | one reader beside a writer that overruns it, opened at START or END | `InOrderUnlessAhead`, `WholeIfSlotUnchanged`, `SkipsOnlyIfOverrun`, `CatchesUp` hold |
| `reader_blocking` | blocking writes, one writer, one reader | `FifoChannel` (refinement of `FmqFifo`), `BlockedWriterPublishes` hold |
| `open_recover` | one writer process that dies anywhere, closes, opens again | `RepairedOnOpen`, `SoundQueueKept`, `RestartedWriterReturns` hold |
| `pool_share` | a pool, both loops, run after run, then the destructor | `AllJobsDoneOnce`, `OnePlace`, `QuietWhenOver`, `NoDataRace`, `RunsEnd`, `SharesJobs` (refinement of `JobSharing`) hold |
| `double_share` | a double queue, threaded or not, released with jobs active or not | `DequesOK`, `NoJobLost`, `InfoNotReplaced`, `ReleaseReturns`, `SharesJobs` hold |
| `poll_share` | a polling queue and its destructor | `OneAnswer`, `CopiedAtRest`, `NoThreadIdle`, `HandsOverWork` (refinement of `PolledWork`) hold |
| `polling_unthreaded` | a polling queue of one thread | `UnthreadedReturns` violated |
| `server_serve` | both kinds of server: failed forks, stopped children, SHUTDOWN, denials | `ClientsCounted`, `LimitKept`, `LeavesOnlyIfTold`, `EveryClientAnswered`, `PurgesInTheEnd` hold |
| `server_quiet` | the server exits when it has been quiescent long enough | `ExitsWhenQuiet` violated |
| `ldata_poll` | two writers and a reader that die and fail anywhere, of a queue with all three sources or of the XML file alone | `NeverBack`, `SkipsOnlyWhenLost`, `GetsLatest`, `GetsXmlLatest` hold |

### Bounds, and why they are enough

* FMQ: three slots and seven words: messages of two and three words let the ring
  wrap before the buffer and the buffer before the ring; a message of seven words
  makes the space loop free everything; eight does not fit.  `reader_blocking`
  takes three slots and nine words, just enough for a ring of the longest
  messages, because the code asks for a ring that wraps before the buffer (the
  warning at `Fmq.cc:2008-2014`).  `MaxMsgs` (5 to 7)
  bounds the entries written in one behaviour: five overwrite every slot position
  at least once, six cross it twice.  `MaxId` is `Q_MAX_ID`: 5 makes ids fold back
  within a run; `reader_overrun` and `open_recover` take 9, more than `MaxMsgs`,
  because in the code 10^9 ids lie between two uses of one.  Two writers suffice
  for what the lock protects: there is no state per writer except `waiting` and,
  in `FmqOpen`, the object of an opener.
* Threads: three threads and four or five jobs, so that some thread gets a
  second job while another still has its first, and a run ends with threads
  in every state; runs may be split at every job.  Spurious wake-ups, parks and
  rounds need no bound.
* Server: three clients for a limit of two, so that one is denied; each may come
  again.  One failed fork and one stopped child are enough to set the count off by
  one either way.  `MaxJoined` only bounds how long a threaded server goes on
  counting down; after it nobody connects any more.  A
  quiescent time of 0 makes the check succeed after one timeout.
* Latest data: two writers are what the lock must keep apart, four writes.  The seconds and the
  faults are bounded for each mode and number of slots (`SecondsByMode`,
  `FaultsByInstance`), so that the run goes where something can happen.  A queue of two
  slots is full after two writes, the third may die in the queue, and the fourth
  clears it: one fault.  In a queue of three slots a reader that has lost its
  place passes over a message whose predecessor is still there: this takes two faults, a save
  that fails and a death.  What follows a clear is excused anyway, so that no write is needed
  after it.  Seconds tell files apart: two for the reader of the XML file, one
  for the reader of the queue, which does not compare them until the queue fails.

`CHECK_DEADLOCK FALSE` is said where the system may stop: FMQ runs (nobody has
to write once `MaxMsgs` is reached, and a dead process does nothing), the polling
queue (its destructor can really hang, see section 4) and its unthreaded
variant (which hangs by its finding).

### Fairness

* FMQ: weak fairness of the lock holder (a process that holds the lock never
  waits for anything in the code), of each reader's steps (`_read_blocking` polls)
  and of the wake-up of a sleeping writer (`umsleep(200)` in a loop).  Nobody has
  to open or to write.  In `BlockedWriterPublishes` there is one writer, so that
  weak fairness of waking is enough.
* Threads: weak fairness of each thread (a step it can take, it takes; a method
  returns) and of the parent in the middle of a run, a call or a release.  It
  need not begin any of them.  Spurious wake-ups have none.
* Server: weak fairness of the boss, of the passing of time, of each child or
  thread being served (every read and write of the dialogue has a time limit) and
  of a stopped child being made to go on.  Clients need not come.
* Latest data: weak fairness of the reader's steps (its application polls) and of
  each writer in the middle of a write.  Nobody has to begin a write, and nothing
  has to fail.

## 4. What the models show of the code

### The two violated runs

1. `server_quiet` (`DsProcessServer.cc:760`): once `checkQuiescence` has found the
   server quiescent, `exitMethod` asks again and calls the exit off if the answer
   is still yes.  A forking server at rest never exits.  (The comment at
   `DsProcessServer.hh:258` says that it does.)  `LeavesOnlyIfTold` states the
   reverse side: only a SHUTDOWN makes it leave.
2. `polling_unthreaded` (`TaThreadQue.cc:116`): with fewer than two threads
   `thread()` runs the method and then `_after` in the caller, which waits for a
   flag that only the same caller would set.  (The comment at `TaThreadQue.hh:31`
   says that one thread works.)

### Consequences found by changing the constants

These need no run of their own; all but the last show up within seconds when a
constant of the run named is changed, or the property named put into its
configuration.

* `queue_write` with `LensWithTooLarge`: `ActiveAreaExact` fails.  The oldest slot
  is freed on disk before the size check; the rejected message leaves stat and
  table in disagreement, which the next opener answers with a wipe.
* `queue_write` with `MayFail = TRUE`: `WriteReturns` fails.  With every slot zeroed
  by failed writes, the space loop frees empty slots for ever while it holds the
  lock.  Re-opening repairs this (`RestartedWriterReturns`); a process that keeps
  the queue open after a failed write does not re-open.
* `reader_blocking` with two writers: `FifoChannel` fails.  `write_slot` and
  `write_id` survive the sleep in the blocking loop, and two writers that slept
  through the same wait write the same slot and id.
* `reader_blocking` with `BufSize = 8`, one word less: `FifoChannel` fails.  The
  blocking loop watches the slots only (2639), so that a message is freed for its
  words before it is read.  The warning at 2008 asks that "the slots wrap BEFORE
  the buffer wraps"; what is needed, and by `BlockingIsFifo` enough, is
  `BufSize >= NSlots * m`, m being the length of the longest message.
* `reader_blocking` with `BlockingWrite = FALSE`: `FifoChannel` fails.  A slot is
  written before the stat that publishes it, so a reader can be ahead of its stat
  and then fall back.  `InOrderUnlessAhead` says exactly how far out of order this
  goes.
* `open_recover` with two writers, two slots, five words, no failures and
  `NeverReinitialised`: violated.  `_open_rdwr` checks without the lock; beside a
  write in progress the check fails and the queue is wiped.  `fmq.doc:436-440`
  describes writers that open the queue for each write.
* `open_recover` with `ReuseObject = TRUE`: `SoundQueueKept` fails.  `init` does not
  reset `_lastIdRead`, so an object that had the queue open before
  (`radar/src/fmq/ClickPointFmq.cc:308`) takes the first slot for a message out of
  turn, and wipes.
* `open_recover` with `NSlots = 1`: `SoundQueueKept` fails.  In a ring of one slot a
  writer that dies between `_write_slot` and `_write_stat` has overwritten the
  slot that stat publishes.  The queue passes the check, but the seek to the end
  looks for `youngest_id`, which no slot holds any more, and the queue is wiped.
* A reader opened at START of an empty queue looks at slot -1 first
  (`_prev_slot(-1)` is -2) and falls back to the youngest message, skipping those
  before it: the reason why `SkipsOnlyIfOverrun` says nothing of the first message.

### Read in the code while modelling

Polling queue: the release waits for the completion of threads that never
complete, or for `_waitingMutex`, which a cancelled thread took with it:
`ReleaseThreads` may hang, and no property says otherwise.  `~DsEnsembleAnyTrigger`
deletes its elements (lines 128-134 of its file) before the base destructor releases the threads
that use them.  Nothing keeps a slow thread from being passed over.
`TaThreadDoubleQue::releaseThreads` destroys two mutexes (91-92) that
`~TaThreadQue` destroys again (46-47).  `RadxCov2Mom` pairs the i-th result with
the i-th job, though results come in order of completion.

Servers: `_numClients` is "the number of clients currently being handled"
(`DsProcessServer.hh:272`), but not always.  A threaded server never counts a
client up (`DsThreadedServer.cc:389` only counts down), so that the number is
minus that of the threads joined and the limit is not enforced.  A failed fork
counts as a child for ever (`DsProcessServer.cc:387`); a stopped child counts as
gone, and once more when it ends (808-824).  `ClientsCounted` says where the
comment is right: for a forking server, until one of the two happens.  Without any
of its three conditions it is violated within seconds, which is why it has
them.  A denied
client makes the boss `continue` without a purge (318): `PurgesInTheEnd` holds
only if clients stop coming.  The `exit(0)` of a threaded server ends the threads
being served.  A doc comment says that a `maxQuiescentSecs` that is not positive
disables the check; the code tests for a negative one.

Latest data: a reader that cannot read a file unlinks whatever has the name by
then (1477, 1718).  The ASCII fallback can hand over an older information after a
newer one, which is why `NeverBack` speaks of the XML file alone.  Times of one
second hide a second write within it.  `print` and `printAsXml` are not checked
(2184-2188, 2237-2241): a truncated file is renamed into place and the write
reports success.  Readers of the XML file remove it and wait for the next
(`GetsXmlLatest`); an ASCII file that is cut in its last line may be read as a whole
one, with another lead time.

The state file is unlinked before it is replaced and saved before `read` returns,
so a death in between skips or repeats (the comment at 307-312 says that no data
is lost).  If it cannot be written (1903-1906) the old position stays: a reader
that dies then, and whose old position has left the queue when it is started
again, goes to the last message, past others that it has not seen, although the
one it read last is still there.  `SkipsOnlyWhenLost` and `GetsLatest` name these
cases ("unsaved", "lost").  After an error of the queue the reader opens it again
at the last message.  After a clear the numbers start again: a reader that was at
the number which is now that of the youngest message believes it has read it, and
waits for the one after ("cleared").  The `fcntl` lock is one per process, not per object.

## 5. Proofs

All theorems hold for every value of the constants that the named assumptions
allow.  The proofs have one lemma per action and, under it, one step per
conjunct that the action can disturb.

### FMQ write side (`FmqQueue_proofs`; `SizesAssumption`, `WritersAssumption`)

* `TypeCorrect`: `Spec => []TypeInv`.  `TypeOK` alone is not inductive: that
  `beginInsert + len` stays an offset needs that the entry fits where it was put
  (`RoomAt`), which needs that the regions are ordered (`RegionsOK`).  Freeing a
  slot keeps the order because a sum that reaches `beginAppend` is reset by the
  merge.  Failures and blocking writes are included.
* `TypesHold`: `Spec => []TypeOK`, its corollary.
* `PublishedSafe`: `Spec => []PublishedNotOverwritten`, by the inductive invariant
  `IInv`, for any number of writers that do not block or a single one that does
  (`OneWriter`).

The argument of `PublishedSafe`.  Three things may disagree after a failure:
stat on disk, the holder's copy of it, and the table.  `IInv` says what they
still agree on.  Slots in use occupy disjoint words (`SlotsOK`); all of them but
the *write slot*, the one after the youngest on disk, lie outside the free
regions of stat (`Fits`), and as long as a write is in progress also outside
those of the holder's copy; a slot in use holds its own words (`Content`), the
write slot only if stat counts it as the oldest.  A write goes to the write slot
(`JobOK`) and to words that are free in the holder's copy, hence outside all
other slots; and if the write slot is the oldest published one it has been freed
before.  Publishing moves the write slot on by one, and the new one is published
only if it is the oldest.  The exception for the write slot is what makes the
invariant survive a crash between `WriteSlot` and `WriteStat`: such a record may
point into what stat calls free.  A writer that sleeps in the blocking-write loop
keeps its job, so the job must still name the write slot when it wakes (`WaitOK`):
true while nobody else writes.  What readers report changes only `last_id_read`,
and no conjunct of `IInv` mentions that field.

* `InvHolds` is `IInv` itself.

While nothing goes wrong (`Smooth`: no process dies or fails, every message fits
the buffer, and the writers do not block or there is only one) much more holds:
`AreaStaysExact`, `WritersNeverWipe` and `LatestRetained` prove
`ActiveAreaExact`, `NeverReinitialised` and `RetainsLatest`, by `RingInv`.  None of the three
parts of `Smooth` can go: section 4 names the run that breaks `ActiveAreaExact`
with a message that is too large; a death leaves a slot freed that stat counts;
and two sleepers that wake up one after the other write the same slot.

`RingInv` describes the queue as a sequence: n messages from the oldest slot on
round the ring, the m oldest of them in `[endInsert, beginAppend)` and the others
in `[0, beginInsert)`, each beginning where the one before it ends (`Chained`).
That is what the offset check of `_free_oldest_slot` compares, so
`NeverReinitialised` needs it.  `Regions` adds that they take up all the words of the two
regions, `Latest` that they are the newest entries of the log and that no other
slot is in use, and `Counts` how n, m and append mode depend on one another:
the merge of the two regions, when the last message of the upper one is freed, is the
step that needs it (`m > 0` in insert mode).

### FMQ readers (`FmqUsers_proofs`; also `ReadersAssumption`)

`ReadersAreHarmless` proves `ReaderSpec => Spec`: all a reader does to the shared state is
a `ReaderReports` of an id that was in a status once, so every theorem of the write side holds
beside real readers.  It rests on `ReadersStayInside`, which needs no hypothesis: the
object of a reader is always one that the code can be in, and a slot taken for
a message lies in the buffer.  `UnchangedSlotIsWhole` then follows from `RingInv`.

`OrderHolds`, `ReadersKeepOrder` and `ReadersSkipOnlyLost` are about where a
reader stands among the messages, for any number of readers and writers, under `Smooth` and
`Apart` (`MaxMsgs + NSlots <= MaxId`: no id is used twice in one behaviour; in the
code ids go up to 10^9, and a reader would have to sleep through that many
messages to take one for another).  `SerialInv` turns ids and slots into positions in the log: the
message numbered k has id k - 1 and the slots go round.  `PositionInv` says, for
each stage of the call, what the reader's object means: between two calls it stands after the
message handed over last (`AfterMessage`), after one it had in its hands and
lost (`AfterLost`), or after a slot in which it found nothing (`AfterSlot`).
The copy of a slot that it holds is that of a message which is there still, or has been given up
since and does not come back (`Gone`).  Being *ahead* is part of all of it: a
slot is written before the status that publishes it.

`BlockingIsFifo` proves `FifoChannel`: every step is one of `FmqFifo` or a stutter
under the refinement mapping of `FmqReader`.  Its hypotheses, `Paired(m)`, are those of the
promise: `Smooth` and `Apart`; one writer that blocks, and one reader that joins at the
end; no message longer than m, and `NSlots * m <= BufSize`.  (The run keeps all of them
but `Apart`: there ids do fold back, which the proof leaves out.)  `UnreadStay` is its
invariant, `PairInv`: `OrderInv` with three parts.

* `WellKept`: no message is given up but the one that the ring would have cost, or the
  one after it.  A message is given up for its words in the upper region, when the insert
  region below it is too small for the new one, and because one message did not fit
  above.  So the messages from it to the newest and those two need more than
  `BufSize`, hence more than `NSlots * m` words, and at least `NSlots - 1` are kept (`RoomOK`).
  In the first turn nothing is given up (`FirstOK`), which matters because
  `last_id_read` is 0 both for "message 0 was read" and for "nothing was read".
* `BlockOK`: the newest message is at most one ring ahead of `last_id_read`, in stat
  and in the copy that the writer will put back over it; and neither is ahead of the reader.
  A stale `last_id_read` only makes the writer wait longer.
* `InLine`: the reader stands after the message it took last and finds the next
  one in the slot after it; the branches of `_read_next` that give up are
  never taken.

### FMQ openers (`FmqUsers_proofs`)

`OpenedIsSound` proves `RepairedOnOpen`: writers may die between any two device
accesses, the re-initialisation included.  `OpenInv` extends `IInv` by what an
opener has verified so far if nobody has written since it began (`CalmOK`): its
copies are those on disk and the slots before `next` agree with the active region and
hold entries that read well.  The check reads only the first and last word of an
entry.  That these two stand for the whole entry is the part of `IInv` called
`Owned`: the words of a slot in use are its own, save those that an
interrupted re-initialisation has put its marks over, and such a mark (`Marked`)
is at the first or last word of the buffer, where the check sees it.

`SoundIsKept` proves `SoundQueueKept` under two more hypotheses, both needed
(section 4): the process opens with a new object, and the ring has more than one
slot.  `KeptInv` is what that adds: the youngest slot, if in use, holds
`youngest_id`, since no write goes there.

### Thread pool (`TaThreadPool_proofs`; `NumThreadsAssumption`, `NumJobsAssumption`)

`PoolInvariant` proves `PoolInv`; `PoolOnePlace`, `PoolQuiet`,
`PoolRunsJobsOnce` and `PoolNoDataRace` follow.  The heart is counting:
`nStarted = nDone + Cardinality(Busy)` (`CountsOK`), where a thread becomes busy
by the very step that counts it as started and stops being busy in `addThreadToDone`.
So when `checkAllDone` finds the counters equal and the done pool empty, no
thread is busy: this gives `QuietWhenOver`, and with `JobsOK` (the jobs before
`next` are those of open threads and those collected, each once) that every job
has been run and collected.  `PoolSharesJobs` is a step simulation of `JobSharing`: every step
of the pool is one of its steps or a stutter (that jobs are finished at all
is left to TLC).  `OnePlace` keeps the pools disjoint, so that a
thread is never handed out while it is busy.

### Double queue (`TaDoubleQue_proofs`; the same assumptions)

`DoubleInvariant` proves `DoubleInv`; `DoubleDeques` and `DoubleInfoKept` follow.  The
deques are disjoint and with the parent's hand hold every thread once.  An active
thread is at work or has a completion to report, never both; all others are at
rest.  That takes `ParentOK` (which place has a thread in hand; the one being
waited for in `waitForThreads` is in the available deque already, and not in the
active one) and `ThreadsOK` (a thread at rest has a job that is collected, or
none).  A thread is given a new info at the place "inThread" only, where it is at
rest, whether it came from the available deque or was waited for.

`DoubleNoJobLost` adds `JobsInv`: the jobs given out are those collected and those that
threads hold, each thread its own; the ones run are those collected and those
whose thread has passed its method.  The release counts too: what its passes have
not reached is as `DoubleInv` has it, and what they have is ended.  From the same two
invariants, `DoubleSharesJobs` is the step simulation of `JobSharing`.

### Polling queue (`TaPollingQue_proofs`; `NumThreadsAssumption`)

`PollInvariant` proves `PollInv`; `PollOneAnswer`, `PollCopiedAtRest` and
`PollNoThreadIdle` follow.  While the parent waits there is exactly one of: the
'waiting' state, one thread that has taken it and not reported, a report.  So the
one index is never overwritten.  `PollHandsOverWork` is a step simulation: every
step of the queue is one of `PolledWork` under the refinement mapping, or a
stutter.  (That the calls return is left to TLC.)

### Server (`DsServer_proofs`; `ServerAssumption`)

`ServerInvariant` proves `ServerInv`; `ServerCounts` (`ClientsCounted`), `ServerLimit`
and `ServerLeaves` follow.  Its part `CountsExplained` says what `_numClients` is in
every case, the miscounts included, as an induction must: the set of children changes by one
element in exactly the steps that change `_numClients`, or one of the two
histories of miscounts; a cardinality argument per step.  `ServerLeaves` needs `ExitOK`: what holds when the boss
reaches its exit is just what makes `exitMethod` refuse.

### Latest data (`LdataInfo_proofs`; `LdataAssumption`)

`LdataOrder` proves `OrderInv`, and from it `LdataNeverBack` and
`LdataSkipsOnlyLost`.  Its parts:

* `LdataInv`: types; whoever is writing holds the lock and is alone (`OneWriter`),
  and what it renames is what it has written, whole or not (`TmpOwn`).
* `IdsInOrder`: the numbers of the informations grow along the queue, and the one being
  written is newer than all that was put into the files or the queue before.
* `XmlInOrder`: so the XML file never goes back, and what the reader has handed
  over is not newer than the file.
* `PlaceSaved`: unless a mishap has intervened, the place that the reader holds
  in the queue is that of the information it handed over last, or that one has left
  the queue (`PlaceRight`); and the state file says so too, unless it is `stale`,
  between its removal and its replacement or since a save that failed
  (`SavedRight`).  A reader that starts when it is not stale is therefore where it was.

Nothing is assumed of deaths, errors, short files, failed saves or removals.
`OrderInv` was checked with TLC too, in all three modes, before it was proved.

### Only model-checked

All liveness, the progress that `SharesJobs` and `HandsOverWork` ask for
included, which the proof system does not handle.  Every safety property of the
runs has a theorem.

## 6. Not modelled, and why

* FMQ: seeking to the last message, back, or to an id, selection by type (they
  choose another position or repeat `_read_next`; what `LdataInfo` uses of them is in
  its module); creation (`w+`), blocking opens, `setSingleWriter`, shared memory;
  readers beside a wipe.  The contents of compressed messages: a decompression
  error is the same exit as a wrong id.  A torn read of one struct: the checksum is taken to
  work.
* Threads: `waitUntilNotBusy`, `terminate` and `cancel` are called by nobody.  The work
  of a job is one step.
* Servers: the dialogue with a client is the one action that ends it; it depends
  on the server built on the class.
* Latest data: `max_valid_age`, `writeFmq` alone, `readForced` by users (which passes
  `update_prev_mod_time` where `_readXml` and `_readAscii` expect `forced`, 729 and 739), the decoding of the XML (which overwrites `_prevModTime`, 2835-2838), `DsLdataInfo`, which registers the same
  information with the data mapper.
* `DsFmq` and `DsFmqServer`: each request is one call of the local methods in a child of a
  server that `DsServer` models.  Queue wrappers have no state beyond one `Fmq`.
* Locator and data mapper: one request and one reply over a socket, retries that
  start an external program.  Spdb: sequential arithmetic on an index under one
  lock.  The radar and math libraries and the applications: numerical code and
  displays, whose correctness is about real data and not about states.

The model covers the infrastructure layer, a small part of the repository's
lines by far: the rest is numerical, generated, vendored or graphical.

## 7. Plan

1. `FmqCreate`: creation by truncation, two creators, blocking opens that find a
   queue half made, `_createdOnOpen`; readers beside a re-initialisation.  Two
   creators and one reader, two slots.
2. `DsFmqServer` over `DsServer` and `FmqReader`: requests lost with their
   connection.
