# ztools: models, checks and proofs

ztools is a C++ library of building blocks for trading programs (shared-memory
channels between processes, a lock-free queue, a thread pool, clocks and
calendars, columnar data files) with a Python script that keeps external
repositories in step.  This directory holds TLA+ models of the parts whose
correctness depends on order, failure or sharing, the TLC configurations that
check them on small instances, and TLAPS proofs of the most important results
for every value of the constants.  `PROJECT.json` maps each definition to the
source lines it models, and lists the runs, the hazards and the theorems.

To check: `tlc -config MCThreadPool.cfg MCThreadPool.tla`, and likewise for the
other configurations; `tlapm SpscQueueProofs.tla`, and likewise for
the other modules whose names end in `Proofs`.

## 1. The system

| Component | State it keeps | Operations | What is hard | What makes it correct |
|---|---|---|---|---|
| `SpscQueue` (algo/SpscQueue.h) | ring of raw slots, `headIndex_`, `tailIndex_` | push, emplace, try_*, get_cell/advance_head, front, pop, size | two threads, no lock, objects built and destroyed in place | no data race, no object lost, leaked or destroyed twice, FIFO |
| Shared memory (shm.cpp) | a file with a `ShmHeader` | CreateShm, LinkShm, ReleaseShm | processes start and die in any order; plain stores | a header once complete stays complete |
| Channel, fixed size (tool/channel.cpp) | control block (`curr_idx`, `warp`, ...), ring of N messages | RegisterPublisher/Subscriber, createChannel/linkChannel, Publish, GetData | no back pressure, restarts in mid-message | the last N-1 messages are whole; a reader never gets an older message |
| Channel, variable length | the same, messages laid end to end | PublishVar, PollVar | the wrap is found by data, not by index | the next message is found across the wrap |
| `ThreadPool` (tool/thread_pool.h) | queue of tasks, mutex, condition variable, `stop` | enqueue, the worker's loop, the destructor | notify after unlock, stop against enqueue | every accepted task runs once; the destructor returns |
| `sync_external.py` | a directory of repositories, links, copies and backups | one job per project on a thread pool, two cleanups, a summary | any command may fail, the run may be killed, developers edit meanwhile | a status tells the truth, no edit is lost, every run ends |
| `Admin` (tool/admin.cpp) | a mailbox in shared memory | IssueCmd, ReadCmd, WriteReturn, ReadReturn | torn strings, time stamps as sequence numbers | each command executed once, each answer for its command |
| `InputData`, `X_Data`, `DayData` (io/input_data*.cpp) | typed pools of column vectors, views into them | new_*_vec, clear, read, merge_read, merge | pointers kept across clear() | each vector has one owner; each column holds its own data |
| `InputData::merge_read(config)` (io/input_data1.cpp) | a table that grows day by day and entry by entry | one call | rows joined by key, columns missing on some days, names given twice | each value stands in its row and column |
| `Clock` (time/clock.cpp) | a point in time, a list of trading days, an index into it | construct, copy, Set, Update, UpdateTime | an index kept from call to call, the list replaced on the way, evenings and nights | the trading day shown is that of the time |
| `BizDayConfig` (time/bizday.cpp), GenAllDaysInYear | sorted business days | init, next, prev, offset, prev_n, ranges | an init that fails halfway or comes second | the queries agree with the set of days |
| `TapList` (algo/taplist.h) | a ring of cells in blocks | push, pop, erase, clear, steal, iterators | blocks linked in under iterators with cached neighbours | the contents of a std::list |
| `MemPool`, `StackAllocator` (tool/mem_pool.h) | chunks, a free list; a stack | allocate, deallocate, mark | any order of return, old markers | no memory with two callers, none lost |
| `EventBus` (tool/event_bus.h) | a vector of callbacks per event | subscribe, fire_event | callbacks that subscribe and fire | each firing calls the callbacks it began with |
| Gz files (io/gz.h) | buffers of records | open, append, write, flush, read, get_one | failed and short writes, a buffer carried to another stream | records arrive in order and once |
| Archiver (io/archiver.h) | one buffer of bytes | save_checkpoint, load_checkpoint | three families of overloads that must agree; a kill while saving | a whole file restores its value |
| CSV and feather files (io/csv_helper.cpp, feather_helper.cpp) | a temporary file and the file | write, read | kills, full disks, two writers | the file is the whole of one table |
| Process helpers (proc.cpp, unix.cpp, bash_cmd.cpp) | a pid file | EnsureOneInstance, WriteProgramPid | check and act apart, pids used again | one instance |
| Small containers (set.h, bitmap.h, intlist.h, dag.h), raw sockets | an array, a set, a map; a socket | single accesses | nothing over time | not modelled |
| Configuration, strings, templates, logging | none over time | parsing and formatting | nothing over time | not modelled |

Interactions.  A channel is a `Shm` file plus the control block after its
header; `ChannelMgr` lets the publisher create it, `ChannelCoordinator` a third
process.  Subscribers map the same file and poll.  `Admin` uses the same shared
memory.  Threads meet in `SpscQueue` and `ThreadPool`; the workers of
`sync_external.py` share the directory and a dictionary of statuses, and main
reads both after the pool has been left.  The data readers fill `InputData`
pools, and `DayData` points into them.  The other components are called by
their user's thread and share nothing.

## 2. The modules

```
BoundedFifo  <-implements-  SpscQueue   <- MCSpscQueue,  SpscQueueProofs
TaskPool     <-implements-  ThreadPool  <- MCThreadPool, ThreadPoolProofs
Shm  <-EXTENDS-  Channel                <- MCChannel,    ChannelProofs
                 VarChannel             <- MCVarChannel, VarChannelProofs
                 SyncExternal           <- MCSyncExternal, SyncExternalProofs
                 InputData              <- MCInputData, InputDataProofs
                 TapList                <- MCTapList, Ordered
Gz, MergeRead                           <- Ordered
Pools, StackAllocator, EventBus, Clock, Calendar,
Admin, PidFile, TableFiles              <- Components
Ordered     <-EXTENDS-  MCComponents (which adds Archiver), OrderedProofs
Components  <-EXTENDS-  MCComponents, ComponentsProofs
```

Operators whose names begin with `Mut` stand just before the definition they
vary: each is that definition with a plausible bug, and shows which property
notices it.

**SpscQueue** models one access to shared memory per step.  `slots` holds the
objects, `Raw` where there is none; `pcP`/`pcC` are the positions of the two
threads in their operations; `seenHead` is the head that `size()` has loaded
before it loads the tail.  `push` is `emplace` with its argument.  A load that
finds the ring full changes nothing and is not a step.  `Front` is also the
destructor's loop.  The indices are published with release and loaded with
acquire, each has a single writer, and so interleaving these steps is enough.
Refinement: the abstract queue is the slots from `FirstLive` (the tail, or one
past it once `pop()` has destroyed the object) to the head.

**Shm** models CreateShm store by store: the three stores of magic, date and
size have nothing between them that orders them, so they happen in any order;
a kill may come between any two.  The header's pid and creation time are read
by nobody and left out.

**Channel** adds the control block, the slots, publisher and subscriber.  A
memcpy into a slot is two steps with `Torn` between them; a message is its
index and the life of the channel (`epoch`) it belongs to.  `done`, `cur` and
`i` are the locals of the subscriber's loop in demo/test_channel.cpp, which
visits a slot without checking whether the publisher has lapped it.

**VarChannel** measures lengths in headers.  A subscriber that reads inside a
message takes payload for a header: `HeadersAt` then allows every header, also
one that leads past the memory.  The loop of demo/test_var_channel.cpp reads the
header again after PollVar, so the two reads are independent choices, and it
goes behind the message without looking where that is: the next PollVar does.  A
message that wraps is zeroes, copy, count, each with a kill before it; one
longer than the memory is copied to the start and leaves `pdata` beyond the end
(what it writes there is outside of the model), after which PublishVar throws.
`warp` is 0 until a Register that gets as far as storing 1.

**ThreadPool** makes each critical section one step, and the notification after
it another.  `Wake` is both a delivered notification and a spurious wake-up,
which the standard allows; `NotifyOne` wakes any sleeping worker.  Running tasks
enqueue others until `stop`.  `Stop` requires that no client is inside
`enqueue`, which is the usual contract of a destructor.

**SyncExternal** makes one step of each git command or directory operation,
each of which may fail as the code lets it.  `pc` is the place in
`clone_project`, `update_repo`, `checkout_commit` or `process_local_project`;
`phase` the place in main.  `Kill` ends the run and leaves of each running
command what it may have made so far (`Leftovers`).  `raised` is the exception
an archive url causes outside of the try block: the pool still waits for the
other jobs, then main ends without cleanup and summary.

**InputData** makes a step of each call, as nothing there runs concurrently: the
question is what a long sequence of calls does to pointers handed out before.
`store` holds the InputData objects (the vectors in use, the pools, and what
each vector holds), `day` the pointers of each DayData with its names and its
`x2data`.  What a vector holds is a path: which column of which file, laid out
by the rows of which other file.  `Pointer` remembers what it was made to show
and how often its owner had been cleared then, so `ColumnsTrue` can be stated of
those pointers the code promises something about.  `ReadFile`, `NewDoubles`,
`Chosen` and `Merged` are the loops over columns, as recursive functions.  The
callers' side is assumed as the class needs it: `read` fills a new DayData, the
index is built once, `merge_read` is called on another reader than the one that
filled the day.

**TapList** keeps the ring as two functions on cells, with head and tail as the
code's iterators: a cell with the neighbours it had when they got there.
`contents` is the list a std::list would hold and `place` where the caller's
iterator is in it, from `rend()`, one before the first, to `end()`.  `lost` marks
the moment the list follows the pointer past a block that `extend` leaves behind,
clears to a cell outside of its ring, or gives the head a neighbour that its cell
no longer has: in `erase_from_begin` on an empty list, where the head becomes the
tail as it was cached, and in `erase_from_end`, which does the same with `head =
tail` whenever nothing is left (up to `rend()`, or on an empty list).

**Pools** and **StackAllocator** are mem_pool.h, one action per branch of
`allocate` and per operation; a holder's pools differ by thread and share nothing.

**EventBus** makes each call of a callback a step, so that a callback's own
subscriptions and firings come between; firings are a stack of frames, and a
frame knows whether the storage it walks over has been moved.

**Archiver** gives each overload its operator: `Write`, `Read` and `Bytes`
recurse over the type, a byte being the pair of the value it belongs to and its
index in it, so that two families that disagree show.  Saving is three steps
(buffer filled, file emptied, bytes written) with a kill between any two.  Sizes
go through an int where the code has one (`AsInt`): in `addSize`, in what saving
and loading answer and in the size of the file; `IntMax` is small in the run.

**Clock** has one hour for each part of the day the code tells apart (before 6,
the day, from 18 on) and days as numbers; reads outside the list give `Unread`.
The target of an assignment keeps its index until the day is set again, which
may throw.  **Calendar** is BizDayConfig and the weekday arithmetic of
GenAllDaysInYear.

**Gz** leaves zlib outside: a gzwrite that fails has taken any part and the
stream stays failed; an open that fails leaves the file and a stream on which
every call fails.  **Admin** makes two steps of each strcpy and one of the
stamp, with a clock that need not advance between them.  **PidFile** separates
reading the file, looking up the process, emptying the file and writing it,
which a full disk leaves empty, and lets processes end and pids come back.
**MergeRead** takes a step per entry and day, a value being the path of where it
came from.  **TableFiles** has inodes, so that two writers of one temporary name,
and a rename under an open file, do what they do, and kinds of cells, which say
what printing with six digits, `stod` and `stoi` make of them (a fraction is lost
in a key, a text makes the reader throw).

**Components** and **Ordered** declare the constants and variables of the eleven
of these that share no state and have no recursive operator, instantiate them
side by side and state the properties of each: Ordered has TapList, Gz and
MergeRead, whose properties are about an order that has to be kept, Components
the others.  They are two modules so that their proofs, OrderedProofs and
ComponentsProofs, can be two.
**MCComponents** extends both, adds the archiver, which recurses over types, and
runs the twelve in one run: `which` chooses one and the others rest, so the
states are the sum of theirs and not the product.

## 3. The runs

| Run | Instance | States | What it shows |
|---|---|---|---|
| spsc_queue | 3 slots, 2 values | 13,288 | `NoDataRace`, `SlotLifetimes`, `HeldIsLive`; implements `BoundedFifo`; `EmplaceReturns` |
| channel | N = 2, both modes, 2 days, 2 lives, 3 messages | 833,370 | `WindowRetained`, `HeaderStays`, `VisitNeverStale`, `SubscriberCatchesUp`, with any process killed at any step |
| channel_init | as above, 1 life | violation | finding 1 |
| var_channel | 8 units, lengths 2 and 3, warp 0 or 1 in each life, 2 lives, 5 messages | 2,847,637 | `FindsNext`, `LastIntact` |
| var_channel_header_only | lengths 1 and 2 | violation | finding 2 |
| thread_pool | 3 workers, 2 clients, 4 tasks | 7,245 | `NoLostWakeup`, `NobodySleepsOn`; implements `TaskPool`; `EveryTaskRuns`, `DestructorReturns` |
| sync_external | 2 projects, 3 configurations, 2 runs, 2 commits, 1 edit | 653,533 | `StatusTrue`, `WorkKept`, `Tidy`, `RunEnds` |
| sync_summary | the same | violation | finding 3 |
| input_data | 2 readers, 2 days, 4 files, 5 calls | 163,837 | `DeletedOnce`, `ColumnsTrue`, `NamesDistinct` |
| input_data_merge | 1 reader, the same | violation | finding 4 |
| components | twelve components, each on a small instance (below) | 512,323 | `MirrorsList`, `MemoryOnce`, `HeardInOrder`, `CheckpointRestores`, `DaysTrue`, `NothingLost`, `AnswersBelong`, `OneInstance`, `MergeTrue`, `TableSurvives` |
| tap_list | blocks of 2 cells | violation | finding 5 |

Why these bounds are enough.  Three slots hold two values: the ring is empty,
half full and full, and the indices wrap with each.  A channel of two slots is
lapped by the third message, and two lives are needed for leftovers of the first
to lie under the second.  Eight units hold three messages of the longest length
but one unit (3 * 3 - 1), so messages end before, at and across the end of the
memory, and `LastIntact` is at its limit; with less memory a message that wraps
overwrites the last one counted (as one longer than the memory does, which this
run does not publish and the proofs admit).  Three workers and two clients give
notifications that find nobody, that wake a worker whose task another has taken,
and that meet spurious wake-ups.  Two runs are needed for what one run (or its
kill) leaves behind to meet the next; one backup allowed and two made is the
case that prunes (main allows 5; 0, where the slice would remove none, is
excluded by `BoundsAssumption`).  The files of `MCInputData` have a column of
ints that read copies, a column that is not wanted, a missing tick and no rows;
four calls (load or read and index, two merge_reads or a clear, a second read)
are enough to recycle a vector that is still pointed to, and the fifth uses it.

In *components*: three blocks of two cells let a list be extended twice under an
iterator; two chunks of two cells exhaust a pool that began with one; four
callbacks make a vector grow without moving and by moving, inside a firing and
an inner one; the archived types use each overload, and a stack, a list and an
array inside of others, and, with an int that ends at 31, sizes on both sides of
that end and a sum of nested ones beyond it; five days with a weekend between,
and lists that begin and end inside of them, put every hour before, in and after
trading; records fill a gz buffer of two in every way twice, and a reader's with
one left over; two commands in four microseconds share some and not others;
three programs of two command lines and three pids leave a pid for a stranger;
lists of up to three of eleven entries make a later entry find its rows in another
order, twice, on another day or not, and a column named twice in one file (no
file names one more often); two writers and two inodes meet at each step of a
write.

Deadlock is checked where the system goes on (`Freed` and `Destroyed` stand for
its end), and not for the channels, the script, the readers and the twelve
components, which may stop when every process is down or the bounds are used up.

Fairness.  *SpscQueue*: both threads are scheduled; a consumer that polls finds
what is there again and again (strong fairness of `Front`, as `size()` calls may
come in between); nobody has to push or to destroy.  *Channel*: the subscriber's
loop, which has no exit, goes on while the process is up; nothing of the
publisher or the owner.  *ThreadPool*: threads are scheduled, a mutex that is
free again and again is got, tasks return; no spurious wake-up and no call is
assumed.  *SyncExternal*: commands end, worker threads and main go on; nothing
of kills, developers and remotes.  *InputData* and the twelve components have no
liveness: their operations are loops over data that end by themselves.  A git
command that waits for a password, or an rsync that fills its stderr while the
script reads its stdout, does not end and is outside of this.

## 4. What is proved

For every value of the constants, with TLAPS (no assumption but the named
ASSUMEs of the modules):

- **SpscQueueProofs** (from `CapacityAssumption`, `RawAssumption`).  The
  inductive invariant is `IInv == TypeOK /\ ProducerKnows /\ ConsumerKnows /\
  SlotLifetimes`.  `SlotLifetimes` alone is not inductive: that `Construct`
  finds a raw slot needs what the producer learnt from its load of the tail,
  which the consumer can only have moved further (`ProducerKnows`); that `Use`
  and `PopDestroy` find an object needs that the consumer still owns the tail
  slot, also when it came from `size()` with an old head (`ConsumerKnows`: the
  distance it computes is at most the real one).  From it: `TypeCorrect`,
  `RaceFree`, `LifetimesCorrect`, `FrontIsLive`, and `RefinesFifo`: a publish
  appends to the abstract queue, the destruction in `pop()` removes its head,
  every other step stutters.  The arithmetic of the wrap is in lemmas about
  `Succ`, `Distance`, `InUse` and `After`.
- **ThreadPoolProofs** (from `WorkersAssumption`, `ClientsAssumption`,
  `MaxTasksAssumption`).  The inductive invariant is `IInv == TypeOK /\
  Accounted /\ Stopping /\ NobodySleepsOn`: `Accounted` says that the queue is
  the last of the tasks accepted and every earlier one is with one worker or
  finished; `Stopping` what holds once the destructor has begun.  From it:
  `TypeCorrect`, `NobodySleepsOnHolds`, `NoWakeupLost` (by counting: each step
  that adds a task adds a notification, each that uses one up leaves a worker
  awake, and a worker only goes to sleep on an empty queue) and
  `RefinesTaskPool`.
- **OrderedProofs**, the list (from `TapAssumption`: a block has two cells or
  more, as `PrepareVec` takes for granted).  `MirrorsList` says where the
  elements are and nothing of the free cells, which later calls use.  `RingInv`
  adds that some N cells form a ring (`Looped`): `next` leads through all of
  them and back, `prev` leads back the same way except where it is out of the
  blocks.  The list is the first `num` of them (`ListHolds`); that head and
  tail, which are cached, agree with their cells is part of it.  `extend` keeps
  the cells of the list and puts a block where the free ones were
  (`ExtendLooped`); the other calls turn the ring, so that it begins at the new
  tail (`Turned`).  An iterator of the caller may have an old `next`: then a
  later cell has a `prev` out of the blocks (`Stands`, `CutAfter`); as
  `operator++` compares that `next` with the tail to know that the ring is full,
  this is what keeps it from walking around the ring.  One at `rend()` is on the
  ring's last cell, which holds no element (`Before`), until `push_back` takes
  that cell.  One lemma for each call (`AppendHolds`, `PrependHolds`,
  `DropHolds`, `KeepHolds`, ...) says what the list holds after it.  From it
  `ListMirrored`.
- **OrderedProofs**, gz files and texts (from `GzAssumption`: the length of the
  reader's buffer is a number, a text a sequence of the model's characters).
  `GzInv`: what is in the file and the buffer is what was given, and a reader is
  never behind the end of the file.  `TextInv`: the lines and the line so far
  are, with an end after each line, what was read without its carriage returns
  (`TakeKeeps`: one character more; `AfterIs`: one gzread), until the last line
  is added (`Added`).  The recursive functions this compares with exist by
  `StepsExist`.  From the two, `RecordsKept`, which is `NothingLost`.
- **OrderedProofs**, merge_read (from `MergeAssumption`: there is a trading day,
  which `merge_read` makes sure of before it begins; an entry renames two columns
  to two names, as one prefix and one suffix do; files have rows and columns in
  some order).  `MergeTrue` speaks of the table at the end.  `MergeInv` speaks of
  it after every day of every entry: the index leads to the row of each key
  (`Tabled`), the columns differ in their names and each has its values
  (`Titled`), and of every column that all days of its entry have and no other
  entry gives, each row holds the value of the last day read that has its key,
  or NaN if none has (`Laid`, `Shown`, `PathTo`).
  The first entry makes the rows as it reads
  (`FirstDayLaid`), a later one finds them through the index (`LaterDayLaid`);
  for either, a column laid before stays as it was (`AllIs`), and the rows one
  more day brings are behind the others (`RowsGrow`).  From it `MergeLaid`.
- **ComponentsProofs**, the pools (from `PoolsAssumption`).  The inductive
  invariant is `PoolsInv == TypeOK /\ CurrentChunk /\ NoDoubleHand`: that the
  next cell of a chunk is a cell needs that a count above zero belongs to a
  chunk (`CurrentChunk`), and that it is with nobody needs that the cells with
  callers and on the free list are exactly the ones counted out.  That the
  constructor's free list has each cell once is arithmetic: lemmas `Divides`,
  `Smaller`, `Larger` and `Quotient` give division with remainder and its
  uniqueness, `PreparedCells` the list. From it: `TypeCorrect` and `NeverTwice`.
- **ChannelProofs** (from `NAssumption`, `BoundsAssumption`, `ModesAssumption`,
  `DaysAssumption`).  `ChannelInv` adds to the types where the publisher stands.
  `WindowRetained` alone is not inductive: that the memcpy spares the window
  needs that `pdata` is the slot behind the last message counted
  (`PublisherAt`), unless the publisher began before a reset of `curr_idx` and
  has counted nothing since, or is stuck at the end of the memory; and the
  subscriber's visits need to know of every slot what has overwritten it
  (`SlotsFresh`) and that its `cur` is at most `curr_idx` (`Remembers`).
  `OwnerInv` is the order of the owner's stores.  Lemmas `SameSlot` and
  `NextSlot` are the arithmetic of the ring.  From it: `TypeCorrect`,
  `WindowKept`, `NeverStale`, `HeaderKept`.
- **VarChannelProofs** (from `LensAssumption`, which admits any lengths,
  and `BoundsAssumption`).  `VarInv` says where the last message lies, that `pdata`
  is behind it or at the start after the end (`Behind`), that what is being
  copied is beside it (`Apart`), and that a message copied and not yet counted
  is whole (`Written`).  A message put at the start spares the last one only if
  three of the longest fit (`RoomForThree`, the hypothesis of `LastKept`).
  `TypeCorrect` needs no such hypothesis: the publisher's pointer is in the memory
  or at its end unless a message is longer than the memory, and the subscriber's,
  whatever it took for a header, at most one msg_len behind a place in the memory,
  as PollVar goes to the start from anywhere else (`PolledIn`).
  `NextFound` needs that two of the longest fit and that every message is longer
  than its header (`RoomForTwo`): finding 2 is what happens otherwise.  Its
  inductive invariant `OrderInv` adds to `VarInv` what is known of every unit of
  the memory (`Units`), that message 0 goes to the start (`First`), and, for
  every message of this life whose header is in memory, where the next one is:
  behind it, or at the start with zeroes, a copy under way or something newer
  behind it (`Succession`).  `FindsNext` alone says this of the subscriber's
  message only, and a publisher that wraps, overwrites and is killed changes
  what lies behind any of them.  `InStep` ties the subscriber's `data` to it.
- **ComponentsProofs**, the others (from `StackAssumption`: sizes are numbers;
  `PidAssumption`: 0 is no pid; `TablesAssumption`: a column holds what its type
  admits).  One inductive invariant for each component:
  `StackInv` (`BlocksApart`, and a marker needs a buffer; an old marker may
  raise the top, and everything held stays below it) gives `NeverOverlap`, and
  with `NeverTwice` `HandedOnce`.
  `PidInv` says that running processes have different pids, that without
  `overlap` one program at most is on its way (`WayAlone`), and that what it has
  found out about a running one stays true (`Found`): the file holds the running
  program's pid, so the second one reads that pid, looks up that process, and
  goes on only when the command lines differ; then its `ClearFile` is what
  `mixed` records, as is a pid that a full disk did not take.  From it `RunsOnce`.
  `BusInv` says of every firing on the stack that what it has called is the
  beginning of what the event had when it began, that those callbacks are still
  the beginning of the vector (which only grows), and that a vector that has
  moved has grown (`Walk`); only the innermost firing moves, but a subscription
  in it may be to the event of any firing below.  From it `CalledInOrder`.
  `MailInv` says where the server may be for each place of the client
  (`AtClient`) and that in a server's life commands are executed in their order,
  each once (`ReadOnce`), as long as no command goes astray: issued after one its
  client gave up or died waiting for, or found by a new server when it was
  answered already or nobody waits for it.  Both sides see each other by the
  order of stamps only.  From it `OwnAnswers`, which says no more than that: a
  server killed before its stamp leaves the command to the next, which executes
  it again.
  `TableInv`: the two names never lead to one inode, and without `muddle` only
  one process writes, what it writes is under the temporary name (`Writing`) and
  the file is whole (`FileWhole`).  `muddle` is two writers at a time, and
  write_csv on a full disk, which renames a cut file: nothing is claimed of
  either.  From it `WholeTables`, with a lemma on which columns of numbers come
  back from a csv file whose keys are numbers: not those with a NaN or with
  doubles of more than six digits, nor a key column with fractions.
  `ClockInv` (from `ClockAssumption`: every list holds its days in their order,
  which the code takes for granted when it compares the first and the last with
  the day and walks from the index it kept; the generated one reaches from the
  year before to the year after) says where the index stands (`Placed`) and
  which days were read there (`Fields`), and that since the last call that set
  every field the clock was moved within its day only, and forward: an evening
  once begun lasts, and `UpdateTime` may keep `isTradingDay` and the index.
  `AdjustIs` is the walk down and up from an index that any earlier list may
  have left, `Around` what the days around the place found are.  From it
  `TradingDayShown`, the clock's part of `DaysTrue`.  It also shows that what is
  read before the list when the index is 0 never reaches the hour of trading.
  `CalendarInv` (from `CalendarAssumption`: dates and years are positive, a line
  of a file is a date, a blank or a header) says that every key of the index is
  a day of the list and, after an init that ended well, that the list is in its
  order (`SortedIs`) and every day a key.  In a list in its order `Lower` and
  `Upper`, which count days, are where the searches stop (`BelowIs`, `AtMostIs`);
  what each query answers follows (`RangeIs`, `NextIs`, `OffsetIs`, `PrevIs`,
  the last two where no day is listed twice, `StrictIs`).  The weekdays need no
  invariant: `WeekdayIs` makes `Weekday` a count of days modulo 7, `DayOfYear`
  numbers the days of a year without a gap across months and leap days, and
  `WeeksHave` counts 260 working days in 52 weeks.  The three parts together are
  `DaysAgree`.
- **InputDataProofs** (from `FilesAssumption`: a file names no column twice and
  its keys are ints; `ObjectsAssumption`: a reader is not a day;
  `BoundsAssumption`).  The inductive invariant `InputInv` has two layers.
  `StoreOK` of an InputData: the vectors in use and in the pool are, each once,
  the ones it made (`Owns`), all have contents, and `cols` leads to vectors in
  use.  `DayOK` of a day: a pointer of the current life of its owner leads to a
  vector in use that shows what it should (`PointerOK`), and no two lead to one
  (`Apart`).  `DeletedOnce` needs `Owns` only; `ColumnsTrue` needs both, as
  new_type_vec may hand out any vector that is not in use.  What a call does to
  an InputData is one of two things (`Evolves`): clear it, which makes every
  pointer of that life stale, or leave what is in use in place; lemma `DayStays`
  concludes that the days it does not fill stay as they are, so each call's
  proof is about the day it fills.  The loops over columns are recursive
  functions; what holds after every round is proved with the least number for
  which it fails (`LeastNat`, `UpTo`), once for each loop: `ReadFacts`,
  `DoublesFacts`, `ChosenFacts`, `MergedOK`.  From it: `TypeCorrect`,
  `EachDeletedOnce`, `NoNameTwice`, which hold whatever is called, and
  `ColumnsStayTrue` and `MergesKeepColumns` under `~Overlap`: that merge does not
  meet a column of merge_read, which is finding 4 and the only way to break
  either.  The invariant says the same of the keys without that hypothesis.
- **SyncExternalProofs** (from `ProjectsAssumption`, `ConfigsAssumption`,
  `BoundsAssumption`).  `SyncInv` says of each job what its place tells of its
  tree and configuration (`JobInv`: a tree to be fetched is a repository, one to
  be cloned absent, one to be checked out no older than the remote was), and how
  far main has tidied up (`MainInv`).  A step of one job does not touch what is
  said of the others (`JobAlone`).  From it: `TypeCorrect`, `StatusesTrue`,
  `LeftTidy`, `WorkAlwaysKept`; for the last, `LeftoversFacts` covers the kill
  in the middle of each command.

`MaxTasks` is a constant of the proof like any other: the theorems hold for
every bound.

Only model-checked: liveness (`EmplaceReturns`, `EveryTaskRuns`,
`DestructorReturns`, `SubscriberCatchesUp`, `RunEnds`), which TLAPS does not
reach. Of *components*: `CheckpointRestores`, as `Archiver` is recursive over
types and a module with RECURSIVE operators is out of the provers' reach; and
`ComponentsTypeOK`, a conjunction of all types, of which the invariants above
contain the parts their proofs need.

## 5. Findings

1. *channel_init.* `curr_idx` is stored after the header is complete and after
   `topic_n`; a subscriber that links in between polls 0, not the -1 of
   channel.h:16, and visits a slot nobody has written.
2. *var_channel_header_only.* `PollVar` tests `data + sizeof(header) >=
   data_boundary`, so it misses a message that is only a header and ends at the
   boundary, where `PublishVar` puts it.
3. *sync_summary.* `clone_project` reports "x Error", the summary looks for
   "X": a failed clone ends in "All projects cloned successfully!".
4. *input_data_merge.* `DayData::merge` looks for the column in `x2data`, where
   `merge_read` does not enter its columns: instead of "already find col" it
   writes over the column that is there.
5. *tap_list.* `extend` sets the tail's prev to `vec + m_size`, one past the new
   block: the `push_front` that has found the list full writes there.  The list
   leaves its ring in another way too: `erase_from_begin` on an empty list makes
   the tail the head as it was cached (taplist.h:230), and after `--end()` on a
   list of one element has linked in a block and the element was popped, the
   head then has a `next` that is off the ring, where later elements go.
   `erase_from_end` up to `rend()`, or on an empty list, makes the head the tail
   as it was cached (taplist.h:235), with the same effect.

Behaviours the models have and the code does not handle, stated here because no
property can hold of them: a file created and not yet given its size can never
be created or linked again (a SIGBUS in each process that tries); a coordinator
that creates a tube again under a live publisher leaves `pdata` where it was, so
that messages lie in other slots than readers compute (`strayed`); a subscriber
the publisher has lapped is not told; a subscriber that joins a variable-length
channel late always ends with "not support yet!"; a clone killed halfway is
"dirty" and skipped by every later run; the oldest backup is the first by name,
not by time, and a link that was backed up cannot be removed by `rmtree`, which
then ends every run before its summary; `save_feather` without names throws on a
day that has a column of `merge_read`, for the reason of finding 4; a reader used
again empties the columns of the days it filled before (`Current`).

The other components have more of this kind.  *Admin*: the demo's client maps
the mailbox with `OpenForRead`, for reading only, and its first `IssueCmd` ends
it; an answer written in the same microsecond as its command is never seen; a
new server executes the last command again; the check of a command's length
(admin.cpp:46) admits one whose terminating zero lies outside.  *Gz*: `flush`
answers 0 when gzwrite fails, which the usage comment (`ret < 0`) does not take
for an error, and keeps the records, which a retry then writes twice; the
destructor drops what is buffered.  *Archiver*: `write_to_file` says "return
false when error" and ignores what fwrite answers; a file that was cut is read
past its end; `addSize` takes an int, so a run of bytes beyond it is counted
short and the buffer overrun, or as less than 0.  *TableFiles*: `write_csv`
renames over the file whatever became of its stream; the csv reader takes a
column that holds "nan" for text and leaves it out, cuts the fractions off a key
column and throws on a key that is no number.  *PidFile*: two programs started
together both pass, and one with another command line on the same file, or a
full disk, hides the first.  *Clock*: a copy of a strict clock is not strict;
the day before the first and the second day after the last are read outside of
the list; `isPrevTradingDay` compares with the real yesterday and not the
clock's.  *TapList*: the destructor does not free the last block.  *EventBus*:
subscribing to an event inside of its own firing may free the vector under the
walk.  *MergeRead*: a column that a later day's file lacks ends up shorter than
the table, one that a file names twice longer, and one that two entries give is
written by both if the first day of the second does not have it.  *Backups* of
the script are pruned by name, so the newest may go; a client still in `enqueue`
when the pool is destroyed notifies a condition variable that is gone.

## 6. Not modelled

Left out because they keep no state over time: parsers, strings, templates, the
conversions between times and their texts (all of time.cpp but
`GenAllDaysInYear`, the formatting half of clock.cpp).  Pure I/O: file helpers,
raw sockets, `BashCommand` (one fork, one pipe), `ExecRedirect`.  Run once before
main: registry and logging.  The small containers set.h, bitmap.h, intlist.h and
dag.h are single accesses of an array, a set or a map.  Third-party code:
ini.cpp.  `PROJECT.json` says so for each.

Inside modelled components: the contents of messages and files, the cost of
anything, memory orders weaker than the code's acquire and release; in
`SyncExternal` nested or repeated project names, local sources that are
repositories themselves, tags as opposed to branches, and the log files; in
`InputData` bool columns, metadata-only reads, a second `build_index` (which
appends to `sorted_ticks` and `m_ukeys` once more) and float vectors, which only
`write_feather` makes in an object it never clears (`clear()` would put them
into the pool and keep them in the list as well); in `Archiver` the overload for
std::array, which the compiler never chooses because its size has another type;
in `Clock` minutes and seconds, which no branch looks at; in `PidFile` the
variant that scans /proc; in `TableFiles` the choice of columns by name and
pattern; in `Gz` a gzread that fails, and a read_gz_file whose open fails (it
throws at once); in `VarChannel` what a message longer than the memory writes
beyond it; in `MergeRead` files that name a column more than twice; clocks whose
index lies outside of the list they were assigned, after a `SetTradingDayInfo`
that threw.

## 7. Plan

Done: `SpscQueue` and `ThreadPool` with their abstract specifications and
proofs; `Shm`, `Channel`, `VarChannel`; `SyncExternal`; `InputData` and
`MergeRead`; the clock and the calendar; the containers, pools and the event
bus; gz files, archiver, table files; the mailbox and the pid file; proofs of
the channels, the script, the pools, the stack, the event bus, the mailbox, the
pid file, the table files, the gz files, the clock, the calendar, the readers,
merge_read and the list.

Theorems to come: the types of all components.
