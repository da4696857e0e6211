# SSD-Emulator: a verification development

The repository holds three programs around one idea, a flash translation
layer (FTL) in user space under an ordinary block device:

* the **emulator**: a Linux block driver over a RAM disk
  (`src/main/c/kernel`), and an application that tells it, request by request,
  which physical page each logical page is on. There are two applications, one
  in C (`src/main/c/ftl`) and one in Scala (`src/main/scala`);
* **FlashSim** (`src/main/c/flashsim`): a discrete-event simulator of a
  solid-state disk with six translation layers;
* libraries: a locality-sensitive hashing library (`lshmine`) and the
  correlation miners the Scala application uses to prefetch mapping entries.

Paths below are relative to `src/`, whose `src/main/...` is the code.

## 1. Inventory

| component | state it keeps | operations | properties that make it correct |
|---|---|---|---|
| **DFTL** (`scala/.../ftl/DFTL.scala`) | three lists of blocks, per block its live lpns and two counters, the table lpn -> (block, ppn, cached, dirty), the cache list | `read` `write` `trim` `cache` `gc`; inside them `force_gc`, `move`, `write_withoutGC`, `clean_cache` | lists partition the blocks; a block lists the pages that point to it; one page, one lpn; a block is erased only when dead; collection never runs out of pages and ends |
| **Request loop and background thread** (`scala/.../ssd_blkdev/main.scala`) | the request and its map, `_heartbeat` | one turn of `while (true)`, `GCThread.run` | a page given to the driver is still the page of the table when the driver uses it; what was written is read back; every request is answered |
| **Kernel driver** (`c/kernel/ssd_blkdev.c`) | RAM disk, page buffer, three flags with wait queues, `request_size`, `request_map`, `user_app` | worker: `ssd_request_func`, `ssd_transfer`, page reads and writes; `ioctl`: register, get size, get lbn, set ppn, move page; `release` | size, map and answer belong to the same request; buffer and disk agree; no lost wake-up, over restarts of the application too |
| **C application** (`c/ftl/ftl_main.c`, `user_ftl.c`, `direct_ftl.c`) | size and map of the current request, the FTL's map | register, `init`, the loop of ioctls | as above, its other half |
| **C dftl** (`c/ftl/dftl.c`) | block array, table | `read`, `write`; collection is an empty function | a write gives a page nobody has |
| **CPFTL** (`scala/.../ftl/CPFTL.scala`, `cminer`, `bloom`) | the access sequence, the tree of mined correlations | `realRead` with `prefetch`; an actor that mines | prefetching changes the cache and nothing else |
| **FlashSim flash** (`flashsim/ssd_page.cpp` ... `ssd_package.cpp`) | state of pages and blocks, counters | write, invalidate, erase | a page is written once between erases; counters agree with states |
| **FlashSim block manager** (`ssd_bm.cpp`) | active, free and invalid lists, per-plane counters | get, allocate, invalidate, erase, the on-demand collection `insert_events` | a block has one owner; a free one exists when asked for |
| **FlashSim FTLs** (`flashsim/FTLs`: page, BAST, FAST, DFTL, BDFTL) | each its maps, log blocks, cached mapping | read, write, trim, `cleanup_block`, merges | a read goes to the newest copy; a merge keeps every live page |
| **FlashSim controller, channels, RAID** | the schedule of each channel | `lock`, `unlock`, striping | no two transfers overlap on one channel |
| Direct FTL, statistics, console, configuration, test drivers, LSH library | none that a decision of the program reads | | |

How they interact. In the emulator the worker of the driver publishes the size
of a request, then its map, and waits; the application picks both up through
ioctls, translates, writes the map back and raises the third flag; the worker
then copies pages. The Scala application adds a second thread: `GCThread` and
the request loop share the FTL under `gc_thread.synchronized`, and both make
the driver copy pages (`Device.move`). In FlashSim a single thread calls down
from `Ssd` over the controller to the FTL and the block manager; all the
ordering is in the events' times.

What is hard. In the emulator: the hand-over of a request through flags that
outlive requests and applications; collection, which runs in the middle of a
host write, moves other pages and itself needs free pages; the driver's
transfer, which runs when the lock has been released; a one-page buffer that is
reloaded only when its label differs. In FlashSim: list arithmetic at the edges
of blocks, merges, and states that are read after the collection that a
preceding call started. `PROJECT.json` lists every such place under `hazards`,
at its line.

## 2. Modules

    DFTL            the translation layer of the Scala application
      DFTLProofs      its theorems and their proofs
      MCDFTL          a TLC instance
      Emulator        DFTL + request loop + GCThread + the lock
        EmulatedDisk    Emulator + the contents of the disk
          MCEmulator      a TLC instance that collects in the background
          BlockDevice     what a host expects of a disk; EmulatedDisk implements it
          EmulatedDiskProofs  theorems about both, the refinement too, on DFTLProofs
          MCEmulatedDisk  three TLC instances
    Miner           the miners: pure operators
      Cpftl           CPFTL's reads, mailbox and actor
        CpftlProofs     theorems about both and their proofs
        MCCpftl         a TLC instance
    BlkDriver       the kernel driver, the C application, the C dftl
      BlkDriverProofs its theorems and their proofs
      MCBlkDriver     two TLC instances
    Flash           FlashSim's pages, blocks and block manager, as operators
      Bast, Fast, PageFtl         a translation layer each
      DftlParent                  what DFTL and BDFTL share, cleaning by cost
        FlashDftl, FlashBdftl
      Simulator       the controller with the layer that is configured
        SimulatorProofs   theorems about it with BAST and with PAGE, and their proofs
        FlashDftlProofs   theorems about it with DFTL, and their proofs
          FlashDftlSpareProofs  more of them, for devices with room to spare
        MCSimulator       three TLC instances
    Channel         a bus channel of FlashSim and the locks of the controller
      ChannelProofs   its theorems and their proofs
      MCChannel       a TLC instance

### DFTL

The variables are the fields of the Scala class: `free_block`, `gc_block`,
`full_block` are the three `ListBuffer`s; `lpns`, `clean`, `dirty` are the
fields of `dftl_block`; `block`, `ppn`, and membership in `cached` and
`unsaved`, are the four fields of a table entry; `dftl_cache` is the list of
cached entries. The value of an unmapped entry is the code's: `ppn =
TotalPages`, `block = null` (`NoBlock`).

`Read`, `Trim` and `Cache` are one action each. `Write` and `Gc` are cut
because a run of `force_gc` changes state many times and the rest of the system
can tell the states apart; `pc` names the method the thread that holds the lock
is in and no other operation starts until `pc = "idle"`. So `write` is `Write`,
then (if at most two blocks are free) `ForceGc`, a `MoveRead`/`MoveWrite` pair
for every page of the victim, `MoveDone`, `EraseBlock`, and at last
`WriteData`. `Read`, `Trim` and the page writes have the cache traffic of the
code inside them.

Two things are kept as the code has them although they look odd: `trim` flags
an entry `cached` and `dirty` but tests `cached` only after it has set it, so
the entry is in the cache and never on the cache list (`TrimEntry`); and
`realRead` of a cached entry does not move it to the tail, while `cache` does.

`Cache` may run between the steps of `move`, since `CPFTL.realRead` prefetches
before every read, the collector's included. The mined correlations are
abstracted to *any* entry.

### Emulator and EmulatedDisk

One turn of `main`'s loop is `GetRequest`, `Acquire`, then for each page of the
request `TranslateRead`, or (`ReadOld` for a partial write,) `StartWrite`, the
steps of `DFTL` and `FinishWrite`, and at last `SetPpn`, which resets the
heartbeat and gives up the lock. `Transfer` and `EndRequest` are the driver's.
`Beat` and `BackgroundGc` are a turn of `GCThread.run` below and at the
threshold. They need the lock free (`IsUnlocked`), as `synchronized` does.

The driver that `main.scala` talks to is not the one in the repository:
`main.scala` reads map entries of 88 bytes with one physical sector number per
sector, `ssd_blkdev.h` declares entries with one `ppn` and one `new_ppn`. So
here the driver is *external* and modelled by how `main.scala` uses it: a
request is a range of sectors in one map entry, and is transferred after
`SSD_BLKDEV_SET_PPN`. The driver of the repository is in `BlkDriver`.

`EmulatedDisk` labels each sector of each physical page with the logical page
whose newest data it holds, or `Junk`. That is enough to tell whether a read
returns what was last written, and keeps the data out of the state. `written`
and `kept` are history variables: the sectors the host has written, and those
written since the page was last begun without a copy of its old contents.

### BlkDriver

An action is what runs between two points where the other side can see
something: the worker's `PostSize`, `FillMap`, `PostLba`, `TakePpn`, `Transfer`
(one map entry), `EndRequest` follow `ssd_request_func` and `ssd_transfer`;
`GetReqSize`/`ClearSize`, `GetLbn`/`ClearLba`, `SetPpn`/`SetFlag` are the
ioctls, each in two steps because `wait_event_interruptible`, the copy and the
reset of the flag are not atomic against the worker. `Translate` is the loop of
`ftl_main.c` over what `struct ftl` promises. `Kill` delivers a signal at any
point: in user mode, and in the interruptible waits whose result the driver
ignores (the handler then goes on, copies what is there and resets the flag).
`Die` is `release`, which clears `user_app` only if the closing task is the one
that registered. `Register` starts an application, again too.

The FTL behind `struct ftl` is one of two. `used = NoDftl` is any FTL that
keeps the promise of the interface: a read gives the page the last write gave,
a write gives a page no other logical page has. Otherwise it is the C `dftl`
(`NextOfDftl`): pages are given one after the other, `used` counts them, and
when none is left `dftl_free_block` loops, as `dftl_gc` is empty. An entry that
no write has touched has the value that `dftl_init`, or one of the other FTLs,
starts with (`FirstTables`).

`MovePage` (the ioctl of that name) and `TransferFails` (`kzalloc` returns
NULL) are kept out of `Next`, in specifications of their own (`MoveSpec`,
`FailSpec`), since each breaks a property that holds without it.

### Flash

A request to FlashSim is a chain of calls on one thread, so `Flash` has no
actions: an object's method is an operator from the state before the call to
the state after it, and a translation layer's `read`, `write`, `trim` are
compositions of them. `Program` is `Page::_write` with its assertion that the
page is empty, `WritePage` is `Block::write`, `InvalidatePage` and `Erase` are
the block's; `GetPageBlock`, `GetFreeBlock`, `EraseAndInvalidate`,
`PromoteBlock`, `InsertEvents` and the collection by cost (in `DftlParent`) are
the block manager's. Package, die and plane only hand a call down. An assertion
that fails, an index outside an array, or the `std::bad_alloc` of a log block
too many, ends the program (`Return`, `asserted`).

A block can be erased `BLOCK_ERASES` times (`erases_remaining`, `Wear`). The
next erase fails, and the block manager asserts that it does not (the page layer
only prints). No layer levels wear, so a long run ends there, whatever the
layer. The model keeps this end apart from the others: `worn_out` is set, and
nothing more is served (`IsRunning`). `AssertionsHold` is about all the other
assertions.

`simpleCurrentFree` is initialised nowhere in the code. `Init` therefore takes
it from a set, `FirstFree`, of numbers of blocks, `NumberOfBlocks` standing for
everything at or beyond the end; a value in the middle of a block is left out.

### The translation layers

* `Bast` keeps `data_list` and `log_map` as the class does. `Write` is
  `Prepared` (find, allocate or merge the log block, which may merge a victim
  first) and `WriteLog`: the log's next page, and `Replaced`, which is the data
  block's page if that was ever written and only otherwise the log's own old
  page, for the second `set_replace_address` overwrites the first.
* `Fast` has one block map, one sequential log block and a list of random log
  blocks that all logical blocks share. Switch, sequential merge and random
  merge are operators; `Write` chooses among them as `write_to_log_block` does.
* `DftlParent` is what `FtlImpl_DftlParent` is in the code: the page map, the
  cached mapping table (only its counter and the set of cached entries: any
  cached entry may be the one evicted), the next data page, `cleanup_block`.
  Taking a block may collect, which copies pages, which takes blocks, which may
  collect (finding 5): `InsertEventsByCost` is a recursive function of the
  parent's state, and the operators below it take as argument the function that
  they may call. `CollectFirst` is a collection that begins outside a
  `cleanup_block`, `Nested` one that begins inside; the second sets `nested`, a
  history variable. `Sound` (in `Simulator`) says that none began inside.
* `FlashDftl` maps every page by itself. `FlashBdftl` maps a block as a whole
  until the first write out of order turns it over to the page map.
* `PageFtl` keeps a counter of pages and the bitmap of trimmed ones.

`Simulator` is `Controller`: its constructor chooses the layer, `event_arrive`
hands it reads, writes and trims. The contents of a page are the logical page
whose newest data it holds. `live` is a history variable, the pages written and
not trimmed since. Whether the host trims is fixed at the start (`trimming`),
since several properties are true only of hosts that do not.

### Channel

`channel` is the object: the table of reserved times, `ready_at`, and as
history the slots granted and the latest start time asked for (`horizon`).
`Lock` is `Channel::lock` with the `unlock` that it begins with: `Live` drops
what has ended, `Sched` is the search for a gap. `IssueRead`, `IssueWrite` and
`IssueErase` are the locks `Controller::issue` takes; a read takes two, the
second without its start time, as in the code.

### Miner and Cpftl

`CMine` follows `CMiner.scala` level by level: lists of places, grouped by what
follows. `Counted` is the reference definition, by counting embeddings; it says
what the code computes, which is not what the class is named for: the first
level is never grouped, and every mined sequence gets the first two frequent
pages of the input as its beginning. `Cpftl` is the request thread (`Read`
sends the access; `Prefetch` searches later) and the actor (`ReceiveAccess`,
`ReceiveSequence`), over a FIFO mailbox. `Search` returns the sequences that
contain the page, or all of them: the two ends of what Bloom filters allow.
What prefetching does to the mapping cache is the action `Cache` of `DFTL`.

## 3. Runs

Bounds are the constants of each `.cfg`. All runs check deadlock except
`simulator`, `fast_stale` and `dftl_nested` (a failed assertion and an index out
of range end the program, and so does the bound on requests), `channel` (which ends after
`MaxEvents`) and `cpftl` (which ends after `MaxReads`).

| run | instance | what it shows |
|---|---|---|
| `dftl` | 3 blocks of 3 pages, 2 in reserve; cache of 1; one translation page | all operations in any order: list partition, page accounting, block list = table, injective mapping, cache list, no empty list where a head is taken, enough space, erase only dead blocks, collection maps and unmaps nothing, operations end |
| `emulator` | 14 blocks of 2 pages of a sector, 8 in reserve; 21 writes to begin with and 3 free requests; threshold 2 | background collection takes the lock again and again and moves live pages: the driver is given current pages, a request is answered, the system implements `BlockDevice`; once the host is quiet, collection reaches `ReserveBlocks / 2` free blocks and rests |
| `disk` | 3 blocks of 2 pages of 2 sectors, one page per request, threshold 2 | everything but the rest of an uncopied partial write survives the collections of the host's writes; the system implements `BlockDevice` |
| `disk_batch` | two pages per request | **violated**: see finding 1 |
| `disk_partial` | as `disk` | **violated**: see finding 2 |
| `driver` | 2 pages of 2 sectors, 2 logical pages, requests of 1 or 2 pages or a part of one; kills and restarts anywhere; any FTL and the C dftl | the worker transfers with what was given for this very request; both sides agree on its length; the buffer holds the page of its label; reads see the last write; the two wait for each other only if an application died with a request in hand; otherwise, once an application stays up, requests end |
| `driver_move` | `MoveSpec` | **violated**: see finding 3 |
| `simulator` | the five layers, each in a device of its size (below) | reads find the newest data over switches, merges, cleaning and eviction; no block is lost or owned twice; counters count; no assertion fails before a block is worn; the page maps and the reverse map agree |
| `fast_stale` | FAST | **violated**: see finding 4 |
| `dftl_nested` | DFTL, 3 blocks of 2 pages, one logical block, a cache of 2, up to 9 requests | **violated**: see finding 5 |
| `channel` | 3 events of any kind, start times up to 7 in any order | one transmission at a time in the table, the first free time for each, overlap only after a late request |
| `cpftl` | 2 logical pages, sequences of 6, 12 reads; each of the miners | every read is mined once and in order; CMiner finds what counting finds; in the end every full sequence has been mined |

Why the bounds are enough. In `dftl` there are three logical pages on nine
physical ones with the smallest reserve that the theorem `SpaceSuffices`
allows, so nearly every write collects; victims have zero, one, two and three
live pages, waiting blocks queue up behind trims, the cache overflows at every
miss. What a larger geometry could add is the subject of the proofs, which hold
for all of them. `Gc` is left out of `MCNext`: with two blocks in
reserve its goal is one free block, which is never missed between operations;
it collects in `emulator`.

In `emulator` the goal `ReserveBlocks \div 2` has to be well above the two blocks
at which writes collect, hence eight in reserve and a goal of four. `Warmup`
writes every page, every second and every fourth, which leaves two free blocks
and blocks with one live page each; the three requests that follow are any. So
the collector has three rounds to go, each moves pages, and
it can do them before a request, between two, while one waits for the lock, and
(were it not for the answer's reset of the heartbeat) under a transfer: that is
what the mutant of `MapCurrent` does. A collector that picked the block with the
fewest invalid pages would go round for ever and leave the request waiting: the
mutant of `RequestsAnswered` and `CollectionSettles`.

In `disk` one logical page can be on any of six physical pages, three of them at
or beyond `TotalPages`, and partial writes of either half mix with the
collections that writes start. With two blocks in reserve the background
collector is always at its goal; there it only takes the lock. `Threshold` is
1024 in the code; the runs use 2 (the violated ones 1), which makes background
collection as early as the timing assumption below allows. `MaxPages = 1` in
`disk` and `emulator` is a restriction, not a convenience: with 2, `disk_batch`
shows that `MapCurrent` fails.

In `driver` the two parties have at most one request in flight, so what could
go wrong between two requests needs two; the run has any number, since nothing
counts them. A request of two pages and one of one page are what it takes to
tell sizes apart; two sectors are what it takes to write a part of a page.

`RequestsEnd` asks for an end only of runs in which an application stays up from
some time on (`<>[](app # "dead")`); then also a request that was announced to an
application that died, or while none was there, has to end. It excuses a request
that an application held when it died (`lost`), which does hang, as
`WedgedOnlyByCrash` says in turn of nothing else, and a C `dftl` that stays out
of pages.

In `simulator` a block of two pages is the smallest whose log can be written
in and out of order. A block has two erases (`BlockErases`), in BAST one
(`BastErases`: with two it has eight times the states; its properties are proved
for every number). PAGE, BAST and FAST do reach the erase of a worn block; DFTL,
within its requests, does not. BAST has four blocks for two logical blocks and one log
block, so every change of block chooses a victim (with a single log the
victim's index is `random() % 1 - 1`, the value below zero). FAST has two
random log blocks besides the sequential one, and eight blocks, because it
erases late; eleven requests fill both logs and merge twice. DFTL has one
logical block on four and a cache of one entry: every access of the other page
evicts, and ten requests write every physical page and clean. BDFTL needs five
requests for a block that is filled, turned over to the page map and
overwritten; it is far from collecting then, so what its properties say of
`cleanup_block` is shown for DFTL only. In FAST `ReadsNewest` asks that a read
finds data of its page, not the newest: that fails (`fast_stale`). Nothing in the code keeps the host below the number of blocks; the
host is taken to leave the spare ones alone (`HasRoom`). The bounds on requests
are only there for the layers whose states are too many; BAST and PAGE have
none. `FastTrimRequests` bounds the hosts that trim, of which only the types
are checked in FAST.

In `channel` three events are needed: two that leave a gap and one that goes
into it, or two in the table and one that is late. Start times up to 7 leave
room for a gap shorter and one longer than a transmission (1 or 3). In `cpftl`
12 reads are two full sequences, so a sequence can be sent while the accesses
of the next one are waiting; the splits of CMiner are of four accesses, so six
are a split and a half.

### Fairness

* `MCDFTL!MCSpec`: weak fairness of the steps inside an operation. The thread
  that holds the lock waits for nothing there. Nothing is assumed of the
  operations themselves: nobody need call them.
* `Emulator!EFairness`: weak fairness of the request loop's steps and the
  driver's transfer together, of the collector's steps, of `Beat` (seconds
  pass), and of `BackgroundGc` (`GCThread` calls `gc` again, without a sleep,
  as long as it returns true). `Acquire` is only weakly fair, for a Java
  monitor promises no more: the collector reaches its goal after finitely many
  rounds and then leaves the lock alone. `GetRequest` is not fair: the host may
  stop.
* `BlkDriver!Spec`: weak fairness of the worker and of the application
  (threads the kernel schedules). No fairness of `Fetch`, `Register`, `Kill`.
* `Cpftl!Spec`: weak fairness of the actor, which its dispatcher runs while it
  has messages. Nobody need read.

### Refinement

`BlockDevice` is what a host expects: it hands in a request, its accesses are
performed in order, it gets an answer; a sector that was written holds its data
(`held`) and only a write to its own page, while the host waits for it, changes
that. `ImplementsDevice` is the claim that `EmulatedDisk` does this, under the
mapping: `pending` is what is not yet translated of the request behind what is
translated but not transferred; `waiting` is whether the loop has a request;
`held` are the sectors written whose physical page, by the table, holds their
last data. Translation, caching, both collections, copies and seconds are
stuttering steps. The abstract device does not promise more than the code
keeps: while a write to a page is pending any of the page's sectors may be lost
(finding 2 is such a loss), or come back (`Disturb`).

### Timing assumption

While the driver transfers, the lock is free, and only the count of seconds
keeps the background thread from moving pages that are being transferred.
`InTime` says that a transfer ends within `Threshold` heartbeats of the answer
(in the code: 1024 seconds). Without it `MapCurrent` and `Durable` are not true
of the code, and nothing in the code enforces it.

## 4. Findings

1. `disk_batch`: `main.scala` translates all pages of a request before it hands
   the map over. The write of a later page may collect and move an earlier one;
   the driver is then sent to the page the table has left.
2. `disk_partial`: a partial write copies the old page only if
   `old_ppn < TotalPages`, but `TotalPages` is a valid physical page, as all
   pages of the reserve blocks are. Mapped pages there are taken for unmapped
   ones and the rest of the page is lost. `KeptDurable` (which passes) says
   that this is the only way that data is lost in this instance.
3. `driver_move`: `SSD_BLKDEV_MOVE_PAGE` labels the page buffer with the new
   page without loading it, so the next access to that page uses the contents
   of another.
4. `fast_stale`: FAST reads the first entry of its log that names the page. A
   page that was written to the log twice is read at its older copy. The trace
   ends there; the two other faults of FAST listed below are not shown by it.
5. `dftl_nested`: `cleanup_block` of DFTL asks for the page of a copy with
   `get_free_data_page(event, false)`, so that no collection starts there; but
   when that takes a block and the free list is down to one, `get_page_block`
   (`ssd_bm.cpp:88-92`) calls `insert_events` all the same. The nested collection
   cleans the block that the outer one is in the middle of, erases it and frees
   it; the outer one goes on, copies an erased page over the mapping, and frees
   the block again. In the run a page that was written is then mapped to an
   erased page. `DftlUnnested` (section 5) says which devices are safe from it.

What else the models show of the code, without a run of its own; mostly no line
of the repository says otherwise, or the behaviour is undefined:

* The driver. When `ssd_transfer` fails after announcing the size (`FailSpec`),
  the application is one request ahead for good, and a later request is
  transferred with entries nobody has filled: `MapGiven` is lost.
* Channels. `BUS_TABLE_SIZE` is never enforced, so a lock never fails. The
  second lock of a read is asked for at the time taken since its start, not at
  a time of the clock, so it is nearly always late; transmissions may overlap
  after a late request (`ExclusiveUnlessLate` says only then).
* `CMiner`. The prefix of every mined sequence, see above. `Kept` keeps an
  infrequent sequence if it is much rarer than its father.
* FAST. A trim erases a block that stays in the list of logs, which is then
  owned twice; it may drop a sequential log block whose next switch indexes
  `data_list[-1]`. The merge leaves out index 0 of a log block, and a write out
  of order starts a new sequential block whatever its offset.
* DFTL. A trim counts `cmt` down for an entry that stays marked as cached, so
  the cache outgrows its limit; the counter is never too large (`CmtCovered`).
* DFTL and BDFTL. A trim writes `reverse_trans_map[-1]`, the word before the
  array, which no code reads: the model leaves the write out.
* FlashSim as a whole. It ends, by an assertion, when a block has been erased
  `BLOCK_ERASES` times and is erased again: the block is given out like any other.
* BDFTL. The transfer of a block to the page map keeps only pages that have a
  page mapping, which in a block-mapped block are none (`OptimalUnmapped`): the
  rest is lost to reads. A trim in a block without a physical one computes its
  address from -1. The collection of a transferred block reads elements of
  `reverse_trans_map` that were never set.
* PAGE. A trim takes a whole block's pages off the counter, which may wrap.

So the properties of FAST (but for its types), the reads, owners and maps of
BDFTL and the counter of PAGE are about hosts that do not trim, and BDFTL's
reads about the pages that still have a mapping. The properties of DFTL and
BDFTL are about the states before a collection has begun in a `cleanup_block`
(`Sound`): after that nothing is left of them.

## 5. Proofs

`DFTLProofs` proves, of `DFTL!Spec` and for every value of the constants that
satisfies `ConfigAssumption`:

| theorem | statement |
|---|---|
| `TypeCorrect` | the type invariant |
| `BlocksSound`, `PagesAccounted` | `Partition`, `PageAccounting` |
| `MappingSound`, `PagesUnshared` | `MappingConsistent`, `MappingInjective` |
| `CacheSound` | `CacheConsistent` |
| `MoveSound` | `MoveConsistent`: what is left of `move`'s loop is what is left of its victim |
| `EraseSafe` | the action property `EraseOnlyDead` |
| `CollectionSafe` | the action property `CollectionKeepsData` |
| `SpaceSuffices` | `FreeSpace`, if `ReserveBlocks >= 2` |
| `NoEmptyList` | `HeadsExist`, if `ReserveBlocks >= 2` |

`ConfigAssumption` asks for a non-empty visible part (`ReserveBlocks <
NumberOfBlocks`), non-zero sizes, and that the number of logical pages is a
multiple of `MappingPerPage`: `clean_cache` walks whole translation pages and
would leave the array otherwise.

The argument. `Partition` alone is not inductive: that a block taken from the
free list is not also full follows from its counters, and that a trimmed page
is on its block's list follows from the table. `StateInv` is the conjunction
`BlockInv` (types, partition, accounting and both mapping properties), `CacheInv`,
the types of the call variables, and `MoveConsistent`, without which
`MoveWrite` could place a page that its victim no longer holds. There is a
lemma per change of state: `CacheEntryInv`, `TrimEntryInv`, `TrimPageInv`,
`WriteInv`, `EraseInv`, `MoveWriteKeepsMove`, on lemmas about `RemoveFirst`,
`Append`, `SubSeq` and `Tail` on sequences without duplicates. `InitState` and
`NextState` put them together.

`SpaceSuffices` answers the question that made the model worth writing: can
`free_block.head` be taken when nothing is free? Collection starts with two
free blocks at most, one of them partly written, needs a page for each live
page of its victim, and gains a block. It runs dry only if a victim has no
invalid page. `SomeInvalidPage` is the pigeonhole argument: with two reserve
blocks and so few clean pages, the live pages are too few to fill the full
blocks, so the block with the most invalid pages has one. `FreeSpace` states
the number of pages left at each point of an operation, and `ForceGc` chooses
its victim by `IsVictim`.

`EmulatedDiskProofs` builds on them. It proves, of
`Emulator!ESpec` and `EmulatedDisk!DSpec`, for every geometry, every
`Threshold`, and any host:

| theorem | statement |
|---|---|
| `UsesLayer`, `DiskUsesEmulator` | a step of the disk is a step of the loop or a stutter, a step of the loop one of `DFTL`: the theorems above hold in the application |
| `ApplicationNeverEmpty` | `HeadsExist` in the application, if `ReserveBlocks >= 2` |
| `LoopTypeCorrect`, `DiskTypeCorrect` | `ETypeOK` and `DTypeOK`, if `ReserveBlocks >= 1` |
| `CollectionWaits` | the action property that no step changes a block list or the table while the driver transfers, for any `MaxPages` |
| `TranslationCurrent` | `MapCurrent`, if `MaxPages = 1` |
| `KeptIsDurable` | `KeptDurable`, if `MaxPages = 1` |
| `DiskIsDevice` | `ImplementsDevice`: the emulated disk implements `BlockDevice`, if `MaxPages = 1` |

`MaxPages = 1` is a hypothesis because the statements are false without it:
`disk_batch` violates `MapCurrent` with two pages in a request (finding 1).
`ReserveBlocks >= 1` is one because the type invariants have `TotalPages`, which
stands for "no page" in an entry, among the pages; without a reserve it is not
one. The timing assumption (section 3) is in `ESpec`, as the guard of `Beat`.

The argument. `LoopInv` says which operation of the layer may be at work in
which phase of the loop, that a write's page is mapped once it has been
translated, and that `heartbeat <= elapsed` while the driver transfers: the
answer has reset the count, a transfer is over within `Threshold` seconds, so
the collector is below its threshold until it is over. With `StateInv` of
`DFTLProofs` this is inductive (`NextLoop`), and each step of the loop is one of
the layer or leaves it alone (`StepOfLayer`), so the lemmas of the layer are
used as they stand. `OnePage` adds that the one entry of the map is the
table's; a write of the same request is the only thing that could move it.

`KeptDurable` is stated between requests; inside one, `KeptHeld` needs to know
that a partial write still finds what it copies. Between the read of the old
page number and the copy, the write may collect, and the page may be moved or
its block erased. `OldPage` says that the old page keeps the data all the same:
until the new page is chosen nothing writes to a page in use (`PageUsed`), the
copies of a collection go to clean pages, and after `EraseBlock`, which makes
clean pages of used ones, no copy follows before the loop has taken its page and
copied. So the data is there although nobody protects the page: erasing a block
resets its lists and counters and nothing else.

The refinement goes action by action (`DeviceNext`): translation hands an access
on, the transfer is where the abstract device performs it, and every other step
leaves `held` as it was or, while a write to a page is pending, changes it for
that page alone.

`ChannelProofs` proves, of `Channel!Spec`, for all delays and start times, any
number of events in any order (`ChannelAssumption`: the control delay is not
zero):

| theorem | statement |
|---|---|
| `ChannelTypeOK` | the types, and that no slot ends after `ready_at` |
| `ChannelExclusive` | `TableExclusive`: entries of the table are disjoint |
| `ChannelFirstFit` | `FirstFit`: the search finds the first time that is free and long enough |
| `ChannelOverlapsOnlyLate` | `ExclusiveUnlessLate`: two transmissions overlap only if one was asked for late |

The argument. That entries are disjoint is nearly inductive: `SchedFits` shows
that what the search returns is free, whether it is before the first entry, in
a gap or after the last; `SchedEarliest` that nothing earlier is. The search
looks only at neighbours, so both rest on `EntryBefore`: before a free time
there is either no entry or one that is followed by a gap. Disjointness of all
slots *ever granted* needs a statement about forgotten ones, which the table no
longer holds: `Good` says that a slot that is not in the table has ended by
`horizon`, the latest start time asked for. A request that is not late starts at
`horizon` or after, so it cannot meet a forgotten slot. `LockKeepsGood` is the
step for one lock; a read uses it twice.

`BlkDriverProofs` proves, of `BlkDriver!Spec`, for any number of pages, logical
pages, sectors and pages per request, any set of partial requests, and
applications killed and restarted at any point (`DriverAssumption`: at least one
page, no more logical than physical pages):

| theorem | statement |
|---|---|
| `DriverTypeOK` | the type invariant |
| `DriverMapGiven` | `MapGiven`: what is transferred was given for this request |
| `DriverInStep` | `InStep`: while the application works on a map, both sides agree on it |
| `DriverWedgedOnlyByCrash` | `WedgedOnlyByCrash`: no wake-up is lost otherwise |
| `DriverBufferMatchesDisk` | `BufferMatchesDisk`: the buffer holds the page of its label |
| `FailureKeepsBuffer` | `TypeOK` and `BufferMatchesDisk`, of `FailSpec` |
| `DriverReadsLastWrite` | `ReadsLastWrite`, for any FTL that keeps the promise of `struct ftl` and for the C dftl |

The argument. `Handshake` says that a flag is up only while the step it
announces is still to be taken for the request at hand (`FlagInv`), what each
side's copy of the map belongs to, except a copy made by an ioctl that a kill
has ended (`WorkerInv`, `AppInv`), and who has an unanswered request in hand
(`CrashInv`). `DataInv` follows the translated entries on their way
(`OnItsWay`), in the application's map, the driver's, or half transferred:
each leads from a page that holds what was written to the page the table names
now, and no entry writes over a page that the table or a later entry still
needs (`EntryInv`). Two cases keep it from being simpler. After a restart the
entries on their way are older than the table, so the claim on the table is made
for a page that was written since (`Fresh`). After a death between translation
and answer the table is ahead of the disk (`Stuck`): it stays so until the next
application begins with a new table. `MoveSpec` and `FailSpec` add the steps
that break `BufferMatchesDisk` and `MapGiven` (see Findings); these theorems do
not cover them. `FailureKeepsBuffer` says what is left with the second: of
`FailSpec` it proves the types and `BufferMatchesDisk`, which rest on no
handshake.

`CpftlProofs` proves, of `Cpftl!Spec`, for any set of pages, number of reads,
length of the access sequence, support, and split sizes and depths as the
miners' assertions allow (`CpftlAssumption`):

| theorem | statement |
|---|---|
| `TypeCorrect` | `TypeOK`: whichever miner it is, the tree holds sequences of logical pages, so a prefetch asks for logical pages |
| `ReadsMinedInOrder` | `AccessesInOrder`: every read is mined once, in the order of the reads |

The argument. `AccessesInOrder` is inductive with the types of the four
sequences it relates (`OrderInv`); the work is in what sending and receiving a
message does to the sequences and the accesses in the mailbox (`BoxAppend`,
`BoxHead`), which rests on what `FlattenSeq` does to `Append` and to a sequence
put in front (`FlattenAppend`, `FlattenCons`). `FlattenSeq` and the levels of
`MiningNext` are recursive functions: `FlattenDef` and `MiningNextType` show
that they exist and what they give, by induction over a set of numbers
(`NatSetInduction`, from the well-foundedness of `<`), since the library's
induction theorems take an operator. The types of the miners go through every
operator of `Miner`, level by level (`Places`).

`SimulatorProofs` proves, of `Simulator!Spec` while the layer is BAST, for any number
of blocks, pages in a block, logical blocks and logs, wherever the first free
block is, and for hosts that trim or not (`SimulatorAssumption`: sizes are not
zero, there are two blocks or more, a block can be erased any fixed number of
times, and the values of `simpleCurrentFree` are
blocks of the device or its end):

| theorem | statement |
|---|---|
| `BastInvariant` | the inductive invariant `BastInv` |
| `BastTyped` | `TypeOK`: above all, the unsigned counters do not wrap, and there are no more logs than the limit |
| `BastReads` | `ReadsNewest`: a read of a page that was written finds its last data |
| `BastBlocks` | `BlocksOwned`: every block is a data block, a log, or free, once |
| `BastCounts` | `CountersAgree` |
| `BastAsserts` | `AssertionsHold`: with one block to spare no assertion fails but that of a worn block |
| `BastDataPages` | `DataPagesNewest` |

The argument. `Good` is the invariant of a state of the simulator. `Owned` gives
every block one owner, `Clean` says that what is free is erased, `Held` what the
pages of logs and data blocks hold. `ReadsNewest` alone is far from inductive: a
merge may copy a page from the log or from the data block, and a log page that
was overwritten may still be valid, because the second `set_replace_address` of
a write overwrites the first. `HeldAt` therefore says of each place of a logical
block: what the log maps is a valid, newest copy, below the log's next page; a
valid page of the data block is newest too, and then the log does not map that
place; and every page in use is in one of the two. `LogFresh` says that the rest
of a log is empty, so that the next write finds an empty page.

A call is a composition of operators, so each operator has a lemma from `Good` to
`Good`: `SwitchMergeFacts`, `RandomMergeFacts`, `AllocateLogBlockFacts`,
`WriteLogFacts`, `TrimLogFacts`, `TrimDataFacts` and their parts. All of them
work on one logical block; `Moved` and `InPlace` are the frame lemmas, which
give the owners and everything about the other logical blocks, so that what is
left is the block at hand. An operation takes a block before it gives any back,
hence `Owned` and `Clean` with the set of blocks at hand. `RoomLeft` counts:
data blocks are no more than logical blocks, logs no more than the limit, so
with one block more than both there is a free one, and `Failed` follows a failed
assertion to the end of the call, where nothing of the call is kept.

Of the page layer it proves, for every size:

| theorem | statement |
|---|---|
| `PageTyped` | `TypeOK` |
| `PageCounts` | `CountersAgree`: for a host that does not trim, the counter never exceeds the pages of the device |

`PageInv` is inductive with the record's types. The test for a full device is
one for equality, so the bound matters: a counter that passed it would never be
found full again. The wrap-around of the unsigned counter stays in the model
(`Wraps`); only a trim can reach it.

`FlashDftlProofs` proves, of `Simulator!Spec` while the layer is DFTL, for every
geometry, every size of the cache, any number of requests, and for hosts that
trim or not (`simpleCurrentFree` is zero here, as in the runs), from
`SimulatorAssumption` (two blocks or more, since a collection looks at the last
two of its index).

| theorem | statement |
|---|---|
| `DftlInvariant` | the inductive invariant `DftlInv` |
| `DftlTyped` | `TypeOK`, while `Sound` |
| `DftlReads` | `ReadsNewest`: a read of a page that was written and not trimmed since finds its last data, wherever collections have moved it |
| `DftlBlocks` | `BlocksOwned`: free blocks are free once, erased, not mapped, not being written |
| `DftlMaps` | `MapsAgree`: a mapped page is valid and the reverse map leads back from it; a valid page is mapped |
| `DftlCounts` | `CountersAgree` |
| `DftlAsserts` | `AssertionsHold`: with two blocks more than the host uses no assertion fails but that of a worn block |

`FlashDftlSpareProofs` adds, on the same assumptions:

| theorem | statement |
|---|---|
| `DftlUnnested` | on a `Spacious` device no collection ever begins in a `cleanup_block`, and no assertion fails but that of a worn block |
| `DftlReadsSpacious` | there `DftlReadsNewest`, what `dftl_nested` violates, holds in every state |

`Spacious` is more than 20 blocks and at most `NumberOfBlocks - 3` logical ones.
It is not a convenience: in random simulations of larger instances a collection
did begin in a `cleanup_block` with 20 blocks, and with one logical block more.

The argument. `Good` is the invariant of a state of the simulator; its parts are
`Space` (every block is free, or filled in order, or the one being written,
empty behind `current_page`; the two lists and the counters of blocks account
for them), `Maps` (the two maps and the labels of the pages agree), `Ordered`
(`active_cost` holds each block once, in the order of the number of their
invalid pages, which the candidates of a collection depend on) and `Counted`
(`cmt` and the cached entries). In the middle of a `cleanup_block` the page map
is behind the pages: `Maps` has the table `moved` of the copies as a parameter,
and `To` is where a logical page is once they are entered. `active_cost` has to
be kept through `UpdateBlock`, which moves one element of an ordered sequence to
the place that its number of invalid pages gives it (`Reordered`).

Every operator has a lemma from `Good` to `Good`, or to a *void* state (`Void`),
one of which nothing more is claimed: a collection has begun in a
`cleanup_block`, or an assertion has failed although the device is not `Roomy`.
Void states stay void to the end of the call. That is why the function
`InsertEventsByCost`, whose recursion the prover cannot follow, is never looked
into: where `Nested` calls it, the state is marked already, and the lemmas about
the operators hold for any function `gc` in its place. The outermost call is
unfolded once (`CollectFirst`).

`AssertionsHold` is a matter of room (`RoomFacts`). Were there no block to take
after a collection, all would be in use, and the collection would have found
nothing to collect (`Settled`): by the order of the index, all blocks but at most
one are full of valid pages. `Crowded` is the pigeonhole argument that the logical
pages are too few for that.

`DftlUnnested` adds to the invariant what is true between requests (`Open`): two
blocks are unused (`Ready`), and the last page written is valid or not all
logical pages are mapped (`Fresh`). A cleanup copies fewer pages than a block
has, since its victim has an invalid one; so it takes one unused block, or both
and then has pages left in the second (`Left`), and gives one back. A
collection that is due and finds nothing to collect means that every used page
is valid but the rest of one block, and then a third block is unused
(`SpareRoom`, by counting again); so a block that is taken for a write leaves
two (`Gained`).

### Only model-checked

Liveness (`OperationsEnd`, `CollectionSettles`, `RequestsAnswered`,
`RequestsEnd`, `SequencesMined`): the prover has no rule for fairness or
`ENABLED`. `MinedAsCounted`, that CMiner finds what counting finds: an induction
over the levels and the input. The parts of `Simulator`'s properties that are
about FAST and BDFTL: not attempted. What is left of them in DFTL after a
collection has begun in a `cleanup_block`, which is that nothing is claimed.

## 6. What is not modelled

* Delays, statistics and printing: no decision of the program reads them
  (times are modelled where they decide, in `Channel`).
* In `DFTL`: integer overflow (page numbers are far below 2^31).
* In `Emulator`: a request that consists of several map entries, two of which
  may be parts of one page; the capacity of the driver's disk against
  `TotalPages` (the host stays inside `TotalPages` pages); start-up and the
  shutdown hook; `DirectFTL`, which has no state.
* In `BlkDriver`: a request whose pages are cut into several segments. Its
  `request_size` is then smaller than its number of map entries (a hazard
  without a property). A refused segment leaves a half-filled map behind;
  `TransferFails` models the failed allocation, which leaves none. What a
  request is answered with while no application is registered. Loading and
  unloading of the module.
* In `BlkDriver`: a signal that ends an interruptible wait
  (`ssd_blkdev.c:79` and `:85`) while the application lives on. The application
  installs no handler, so the signals of the model are fatal.
* In `Cpftl`: an exception in the actor's `NewSequence` handler, from the dump of
  the sequence to `/tmp` or from the miner (`CPFTL.scala:82-87`). Akka then restarts the
  actor with an empty `accessSequence`, and both sequences are lost:
  `AccessesInOrder` and `SequencesMined` are about runs without one.
* In `DftlParent`: the write-back of a dirty entry walks its whole translation
  page (`trans_map[vpnBase + i]`, `dftl_parent.cpp:204-211`), past the end of the
  map when that is not a multiple of the page; the time stamps that it reads and
  sets decide only about noop events.
* In `Flash`: the wear statistics (`update_wear_stats`, `get_least_worn`), which
  no layer asks for, and `Plane::_merge`, which none issues. Whether a cached mapping is
  dirty, since it only decides about noop events. What a read returns of a page
  that was never written.
* FlashSim's RAID (striping over independent simulators), configuration,
  statistics and test drivers.
* The LSH library: third-party numeric code. The miner that uses it is modelled
  for every function from the pages of a split to a bucket.

## 7. Plan

Done: the modules of section 2. Left:

1. **Proofs** of `BlocksOwned` and `CountersAgree` of `Fast` for hosts that do
   not trim, on lemmas like those `SimulatorProofs` has about the block manager;
   of BDFTL's properties, on the lemmas about `DftlParent` in `FlashDftlProofs`.
2. **Segments**: `request_size` against the number of map entries in
   `BlkDriver`, with the size of the buffer on either side.
3. **Larger instances** of FAST and DFTL in `Simulator`, one layer at a time.
