# Verification of the uthread package and the programs that use it

The repository collects the code of an introductory course on computer systems. Its one piece of
system software is **uthread**, a user-level thread package (`a11/uthreads/`, with byte-identical
copies in `a10/uthreads/` and `examples/uthread/` and earlier versions under `a9/`): a scheduler that
multiplexes uthreads over kernel threads, mutexes, condition variables and semaphores. A score of small
concurrent programs run on it, and in `a9` programs that read a simulated disk, whose completions come
as timer signals. Beside it stand sequential components: an allocator, reference-counted lists and trees,
a growing list, promises, an ordered tree, and four simulators of the SM213 computer with the assembly
programs they are given. Paths below are relative to `src/`.

This directory holds TLA+ models of those parts, the TLC configurations that check them and proofs
about the core modules. `PROJECT.json` is the index: components, runs, at least one mutant per
property, the source lines each definition stands for, findings, hazards and theorems.

## 1. Inventory

| Part | State it keeps | Operations | What is hard |
|---|---|---|---|
| Scheduler, `a11/uthreads/uthread.c` | `TCB.state`, `TCB.joiner`, the saved stack pointer, one current uthread per processor | `uthread_init`, `create`, `yield`, `block`, `unblock`, `join`, `detach`, the internal `uthread_stop`, `uthread_switch`, `uthread_start` | a processor goes on reading the TCB it came from after it has given that stack up; two processors spin for each other's threads; three parties can be the last to touch a dead thread |
| Ready queue, same file | `ready_queue`, `ready_queue_spinlock`, `pthread_mutex`, `pthread_wakeup`, `pthread_num_sleeping` | `ready_queue_enqueue`, `ready_queue_dequeue` | an enqueue races with a processor that is falling asleep |
| Intrusive queue, same file | `head`, `tail`, one `next` per TCB | `uthread_enqueue`, `uthread_dequeue` | one `next` pointer: a thread must be on one queue at most |
| Spinlock, `spinlock.h` | a word, the SIGALRM mask | `spinlock_lock`, `spinlock_unlock` | nested locks and the mask |
| Mutex and condition variables, `uthread_mutex_cond.c` | `holder`, `reader_count`, `waiter_queue`, `reader_waiter_queue`, a queue per condition | `lock`, `lock_readonly`, `unlock`, `wait`, `signal`, `broadcast` | Mesa semantics: barging between an unlock and the woken thread's test; a waiter is queued, then unlocks, then blocks |
| Semaphores, two versions of `uthread_sem.c` | `value`, `waiter_queue` | `wait`, `signal` | hand-off with negative values against re-testing |
| `a11/traffic.c`, `a11/traffic_sem.c` | the street: direction, occupancy, counters; the cars | `enterStreet`, `leaveStreet`, `car` | the street is turned on stale counters; permits outlive the places they stood for |
| `a10/smoke.c` | the agent's count, the helpers' flags, eight condition variables | agent, three helpers, three smokers | a signal to nobody is lost |
| `a10/phil-*.c` | a mutex and a flag per fork | get, put, eat | circular waiting, an unlocked read |
| `bounded-buffer.c`, `pc_spinlock.c`, `pc_mutex_cond.c`, `a10/q3.c` | a ring, a counter, a counter of arrivals | produce, consume, wait for all | one signal per item; the test outside the lock |
| Allocator, `a5/5.5/implicit.c` | the words of the heap | `mymalloc`, `myfree` | the metadata is found by walking over words written earlier |
| Disk and its readers, `a9/` | a queue of pending reads, a callback queue, the signal mask, a flag or a count or blocked uthreads | schedule, timer interrupt, poll, join | a handler may interrupt the program anywhere the mask allows, also another handler, and wait for a lock on its own stack |
| `a10/q1.c`, `q2.c`, `q4.c`, `ping_pong_sem.c`, `racedemo.c`, `sor.c` | turns, a count, a stack, a matrix | join, lock, wait, signal, push and pop, barrier | who may go on, and what a thread reads while another one writes |
| Reference counts, `a5/5.6`, `a7/q3` | counts of elements, a list and a tree of them | keep, free, add, delete | who owns which reference |
| Growing list and `trunc.c`, `a8`; promises, `a9`; ordered tree and sort, `a4`, `a3` | an array and its room; a chain of promises; a tree | append, insert, remove, map, fold, filter; resolve, then; insert | growth, memory that was not written, order of calls |
| SM213 simulators, `a8/sm.c`, `a8/sm-jt.c`, `a6/CPU.java`, `a2/A2code` | registers, program counter, memory | the instruction cycle | four dispatchers for one machine |
| Assembly programs | the simulated memory | 28 programs | most were written by hand from a C program, and where they differ nothing says so |

**How they interact.** The mutex and semaphore code call `uthread_block` and `uthread_unblock` and
keep their own waiter queues in the same `next` field that the ready queue uses; the scheduler calls
the ready queue; the kernel threads meet at the ready queue, at the join lock and in the spin of
`uthread_switch`. The programs call mutexes, conditions and semaphores only, and share plain
variables under them. There is no persistence and no network: nothing here crashes and restarts, and
no message is lost. Only `a9` uses a timer signal, and there it is what interleaves with the program.

**What makes each part correct.** The scheduler: a uthread runs on one processor at a time, none is
lost, none is touched after it was freed, what is queued runs. The ready queue: no processor sleeps
through an enqueue. The mutex: exclusion, and whoever waits is woken. The semaphore: as many returns
from wait as permits. The programs: what their asserts and comments say (one-way street, matching
smokers, no deadlock, first in first out, counters in range) and that they finish. The allocator: the
callers' areas do not overlap. The disk readers: nobody goes on before its data is there, and no
completion is lost. The data structures: counts are the references, order is kept, nothing is lost in
growth. The simulators: they agree, and the assembly programs leave what their C programs leave, or it is known that they do not.

## 2. Modules

```
UthreadQueue                                        (the pointers behind all queues)
ReadyQueue  <--EXTENDS--  UthreadSched  <--EXTENDS--  UthreadUnblock, UthreadSchedEarly
    ^ refines                   ^ EXTENDS
ReadyQueueIdle              UthreadSched_proofs (with UthreadUnblock and UthreadSchedEarly)

Monitor  <--refines--  UthreadMutex  <--EXTENDS--  UthreadMutex_proofs
    : what Traffic, Smoke, BoundedBuffer, Pool, Handoffs and Rendezvous use (helpers in Waiting)
Semaphore  <--refines--  UthreadSem  <--EXTENDS--  UthreadSem_proofs
    : what TrafficSem and Handoffs use
DiskReads <--EXTENDS-- DiskReads_proofs
BoundedQueue <--refines-- BoundedBuffer
Heap <--refines-- HeapImplicit <--EXTENDS-- HeapImplicit_proofs
Assembler <-- Sm213, Sm213Programs

MCPackage  = one of UthreadQueue, ReadyQueueIdle, UthreadUnblock, UthreadSchedEarly, DiskReads
MCPrograms = one of Traffic, TrafficSem, Smoke, Philosophers, BoundedBuffer, Pool, Rendezvous,
             Handoffs, RaceStack, Sor
MCData     = one of HeapImplicit, Sm213, RefCounts, GrowList, BinaryTree, Promises
MCPackage <--EXTENDS-- MCPackage_proofs (instances of UthreadSched_proofs and DiskReads_proofs)
MCPrograms <--EXTENDS-- MCPrograms_proofs
MCData <--EXTENDS-- MCData_proofs (with HeapImplicit_proofs)
```

The three last modules put parts that do not interact into one state space: a variable that never
changes says which one runs, the variables of the others stay at their initial values, and every
property is that part's own.

The repository holds the package several times. `uthread.c` and `uthread_mutex_cond.c` are the same bytes
in `a10/uthreads/`, `a11/uthreads/` and `examples/uthread/`, and `uthread_sem.c` in the first two. A
definition in the map names one of the copies; it stands for all of them.

The layers are cut where the code is cut. `ReadyQueueIdle` justifies the atomic queue the scheduler
model uses. `UthreadUnblock` justifies the token that `UthreadMutex` and `UthreadSem` have for a
thread that was unblocked before it blocked. `UthreadMutex` and `UthreadSem` justify that a program's
section under its mutex is one step. These justifications are arguments at the interfaces, not one
composed specification: every layer is checked against the contract the next one assumes.

### ReadyQueue, ReadyQueueIdle
`ReadyQueueIdle` has a step per access to the spinlock, the pthread mutex, the condition variable,
`pthread_num_sleeping` and the queue, for any number of processors. `queue`, `spinlock`, `mutex` and
`sleepers` are the variables of the code; `waiting` is who is in `pthread_cond_wait`; `pc` names the
place within `ready_queue_enqueue` (`e_...`) and `ready_queue_dequeue` (`d_...`). `pthread_cond_wait`
may return without a signal. `ReadyQueue` is the abstract queue: an enqueue appends a thread not yet
there and wakes one sleeper if there is one. In the refinement an enqueue takes effect at its signal,
and a processor is asleep from the moment it found the queue empty under the spinlock.

### UthreadSched
`pc[p]` follows a processor through `uthread_stop` and `uthread_switch`:
`dequeue` - `save` - `spin` - `post` - `recheck` - (`reap` | `requeue`) - `resume`, with `join` and
`release` for the sections under the join lock. `cur`, `to`, `from`, `stop` are the locals
`uthread_self()`, `to_thread`, `from_thread`, `stopping_thread_state`. `Save` sets the state of the
old thread, `Switch` is the end of the spin and the change of stacks, `PostDying` and `PostRunable`
are the two reads of `from_thread->state` that the code makes without a lock, each a step of its own.
Registers and stacks are abstracted to which processor is on which uthread. The client is arbitrary
within the constant `Calls`, which says who makes which call; a handle is joined or detached once. `waiters` stands for all waiter queues of clients: a thread is on it before it
blocks and `Unblock` takes it off. Two uthreads that join the same one are not modelled: `uthread.h:20` calls joining and
detaching mutually exclusive, and the unlocked look at `joiner` (651) is only met as the code intends it.

### UthreadUnblock
Adds `owed` and `running`, what `uthread.h` promises to a thread that is unblocked while it is not
blocked, and the call `UnblockAny` of a client that does not look.

### UthreadQueue
`head`, `tail` and `next` as in the code; `content` is a history variable, the uthreads of each queue in
order. `uthread_enqueue` is the whole function, with the test of line 140 that refuses a uthread with a
next pointer and the last one of the same queue. Its guard states what the callers guarantee: the uthread
is not last on another queue.

### UthreadSchedEarly
The scheduler of `a9/sRead` and `a9/treasureHunt` over the variables of `UthreadSched`: a yielding uthread
is enqueued before it stops, `PostEarly` only looks for a dying one, and an idle processor's base uthread is
on the ready queue and yields for ever.

### DiskReads
One kernel thread. `pc[u]` is where a uthread is, `frames` is the stack of signal handlers on top of the
running one, `lock[l]` the depth at which a lock is held, `mask` and `isInterrupt` the signal state.
A handler takes reads off one by one; after `Deliver` SIGALRM is let in and `Interrupt` may push another
frame. `spinlock_unlock` unmasks SIGALRM whatever else is held, as the code does. Load and store of
`handle_read` are apart. A lock that is wanted by a handler and held below it on the same stack can never
come free (`Hangs`).

### UthreadMutex, Monitor
`holder`, `reader_count` and the queues are the fields of the structs, `woken` are the threads whose
unblock has come and whose `uthread_block` has not returned. `Lock` and `LockReadonly` are one turn
of the loop under the mutex's spinlock; `Wait`, `WaitUnlock` and `Unblocked` are the three parts of
`uthread_cond_wait`, so that others run between them. `Monitor` is the header's promise. There a thread
waits from its unlock on: in the refinement, the last of a condition's queue does not count as waiting
while it has still to unlock (`WaitersOf`).

### UthreadSem, Semaphore
`version` selects the file: hand-off (`a10`, `a11`) or re-test (`examples/uthread`). `Signal` is a
thread giving its permit back, `Add` one that adds a permit. Abstractly there are only permits; with
hand-off a permit belongs to the woken thread from the signal on.

### Programs
A step is a section under the program's mutex, up to its `wait` or unlock. Histograms, waiting times
and printing are left out. `Traffic` and `TrafficSem`: `enterStreet`, `leaveStreet`, `Start` and
`Finish` are the code's; `trips` counts a car's iterations, and a car draws any direction. `Smoke`:
`helperNotes` is the flag and the two tests, `helperResets` what follows the smoker's answer.
`Philosophers`: three programs by `version`, a lock and a flag per fork; `Look` is the read of the
other flag without its mutex. The philosopher sleeps between writing its own flag and that read, so
the model gives it the value last written. `BoundedBuffer`: the ring with its indices. `Pool`:
`pc_spinlock.c` (`SpinEnds`, then `Locked`) and `pc_mutex_cond.c` (`Monitor`). `Rendezvous`: `q3.c`.
`Handoffs`: four programs by `version`; the increments of `q2.c` are a read and a write. `RaceStack`: four
versions of `racedemo.c`; `malloc` gives any address that is not allocated, also one just freed. `Sor`: an
element at a time, with the numbers of `matrix_set_initial_values`.

### The sequential parts
`RefCounts`: both repositories' versions by `version`; a client keeps, adds, deletes and frees in any
order what it has a reference to. `GrowList`: the array with its room and with memory nobody wrote
(`Junk`); `wanted` is the sequence the client put together. `list_map1` looks for an element of its own list
behind the end of that list, and when the list is full behind its memory; `found` is what it finds there, at
each index any of `Words`: NULL, somebody's block, or no address. What is not NULL it writes to and frees,
and the result has the element all the same; with no address the program is dead. `BinaryTree`: insertion of every sequence of
numbers, the in-order walk, and the sort on the same numbers. `Promises`: `expects` remembers what each
promise was made for.

### Sm213, Assembler, Sm213Programs
`Sm213` runs the simulators side by side: `SmSwitch`, `jumpTable`, `A6Switch` and `A2Switch` are their
dispatchers, `Execute` what an instruction does, on 32-bit registers and the bytes of memory. `Assembler`
places code and data where `.pos` says. `Sm213Programs` has the assembly programs, each with a `computes`
that is translated from the C program it was written from; `max.s`, `calc.s` and `a6/code/q3.s` have none
that compiles, and there it is what their comments say. `matches` says whether the assembly does that on
these inputs: where it does not (`Differs`), the property asks that the memory is not what the C program leaves. The second part gives inputs, and the ASSUMEs compare the encoding with bytes the sources quote and the switch of `SB-switch.c` with its jump
table.

### HeapImplicit, Heap
`mem` is the words of the heap, `live` the areas callers have. `mymalloc` and `myfree` are the code on
those words, with its own walk; after a malloc the caller overwrites all of its area, as `main.c`
does, with a value that reads as a header of negative size. `Heap` promises aligned areas inside the
heap that do not overlap.

Operators whose comment begins with "Variant:" are slips one could make in that code. No
specification uses them; each is paired in `PROJECT.json` with the property that notices it.

## 3. Runs

| Run | Instance | Distinct states | What it shows |
|---|---|---|---|
| `sched` | 2 processors, 3 uthreads: Main creates, joins, detaches; t1 yields, unblocks, exits; t2 blocks, joins, unblocks | 32,021 | no uthread on two processors, none freed too early or twice, none lost; terminated threads are freed, queued ones run, joins return |
| `mutex` | 4 threads, 2 conditions | 26,040 | exclusion, fields, one queue per thread, no lost wakeup, progress, and the monitor contract |
| `sem` | 4 threads, up to 3 permits, initially 1, both versions | 3,234 | the semaphore contract, the meaning of `value`, no lost wakeup, and with hand-off every waiter is served |
| `package` | see below | 115,363 | intrusive queues stay linked; no processor sleeps through an enqueue; a running uthread's unblock is remembered; the earlier scheduler; the disk readers get their data and finish but for the known hangs |
| `programs` | see below | 80,681 | the programs' properties |
| `data` | see below | 132,935 | the heap, the simulators and 28 assembly programs, counts, lists, trees, promises |
| six violation runs | 2 to 4 threads, or one program | | the findings of section 4 |

Bounds. Two processors are enough for every order of two steps of `uthread_switch`; three uthreads
let one be queued while two run, and give the join, the yield and the block each a thread. Four threads
on the mutex allow a writer inside, one waiting, a barging one and a reader.
`package`: two queues and three uthreads (one queue can have a first, a middle and a last while the other
fills); three processors on the ready queue, so that two can sleep while the third enqueues; two
processors and three uthreads for the unblocks and for the earlier scheduler; three blocks to read and
handlers two deep: a second handler meets everything the first one can hold, and a third would meet
nothing new.
`programs`: 3 cars, `MaxOccupancy` 2, two crossings (one with semaphores), three offers of the
agent, 3 philosophers with 2 meals, 2 producers and 2 consumers with 2 items each, a ring of 3 slots
(2 values), a pool of 2 items, 3 threads that meet, two increments, three rounds of ping-pong, three
elements for the stack and three addresses, a 4 by 4 matrix for four threads and two iterations. With
`MaxOccupancy` below the number of cars the street fills; the ring wraps; two waiters are on a condition at
once; an address is used again; every square borders on all others.
`data`: twelve heap words hold three live blocks with a gap on either side, and 0, 4 and 9 bytes give the
smallest block, an exact one and a rounded one, and splits that leave less than a block; two elements
(one may be a number and one a string, or equal), three list nodes, three places in the tree and five
references; a list of five items that grows twice; every sequence of up to five of four numbers; five
promises; every program on the inputs of `Sm213Programs`, with negative numbers, ties, the ends of the
ranges that the programs test for, and the inputs on which a difference overflows or a shift rounds down; what
`list_map1` finds is any of three words at every index.

`CHECK_DEADLOCK FALSE` stands only where the system may really stop: `mutex` (all threads may wait on
conditions that nobody has to signal) and the programs (they end, and `traffic.c`, `traffic_sem.c`,
`smoke.c` and `phil-rightfork.c` can stop for good), in `package` (the readers end) and in `data` (the
parts end or come to a bound of the instance). In `sched`, when every uthread has exited or blocked for
good, the processors sleep and only spurious wake-ups remain, so that `QueuedRuns` and `JoinReturns`, not
the deadlock check, are what rules out that somebody is left behind.

## 4. Findings

* `sched_block_yield`: `uthread_switch` reads `from_thread->state` after the thread was given up. A
  thread that **blocked** may meanwhile have been unblocked, resumed on another processor and have
  **yielded** there; both processors see `TS_RUNABLE` (`uthread.c:543-553`), both requeue it, and it runs
  twice. Two processors and two uthreads suffice. The comment at 585 promises otherwise.
* `sched_block_exit`: the same read (543) finds `TS_DYING` when that thread has **terminated** on the other
  processor instead. If it was detached it is freed while the other processor still runs on its stack.
* `sched_unblock_lost`: an unblock of a thread on the ready queue is dropped by the test at line 140;
  `uthread.h:37` promises that the next `uthread_block` returns at once. Clients that only unblock what
  they take off a waiter queue do not meet it.
* `traffic_turns`: `leaveStreet` turns the street when the counter of the other side is positive, but a
  car leaves that counter some time after its last crossing: the street is turned for nobody, against
  the comment at `traffic.c:122`. The waiting cars of the other side are not signalled then.
* `traffic_sem_full`: permits signalled for places seen earlier are used without another look, and
  `count` reaches `MAX_OCCUPANCY + 1`, an index past `occupancyHistogram`.
* `smoke_late_helper`: the agent's wait "until all other threads are waiting for a signal" counts the
  smokers only; a helper that comes late misses the first offer.

The passing runs state what else is known to go wrong, and that nothing more does. `AssemblyMatchesC` asks
of these programs that they do *not* leave what the C program (or the comment) says:
* `a2/A2code/CPU.java:101`: the indexed load of `a2` shifts the number of the index register instead of its
  value, so that it refuses the first block of the test program beside it (here: that it ends with a fault).
* `SA-dynamic-call.s` gives an object a word less than its struct has, so that the next object
  overwrites `i`, which `SA-dynamic-call.c` keeps; its comments say `sizeof`.
* `a3/code/q1.s` does not store what its last comment says it assigns, and has no instructions for the
  statements of `q1.c` on `p` and `j`.
* `math.s` shifts where `math.c` divides, which differs for an odd negative sum; `a6/code/q3.s` likewise.
* `S6-if.s` tests the sign of `a - b`, which overflows when they are far apart; `max.s` likewise.

`ListHoldsWanted` asks that what `list_map1` (`a8/list.c:123`) finds behind its list does damage whenever it is not
NULL: it is written through and freed. In `DiskReads` a
handler can find the callback queue empty between `disk_schedule_read` and `queue_enqueue`; two handlers
can lose a decrement of `pending_reads`; and a handler can wait for a lock on its own stack when it hits
another service routine with `queue` or `ready` locked, or the idle uthread with `pthread_mutex`
(`OnlyKnownHangs`, `ReadsComplete`). `str_element.c` compares structures with `strcmp`, so that
`TreesSorted` orders strings of `a7/q3` in any way. `racedemo.c` loses elements with no lock and with the
broken one, as it means to show.

## 5. Fairness

* `sched`: `WF(Step(p))` per processor: the kernel schedules every kernel thread that can go on. The
  spin is a guard, so a processor that spins is waiting, not fair-scheduled into progress. Processors
  that sleep need a wake-up; spurious ones are possible and not assumed.
* `mutex`, `sem`: `WF` per thread for what is not a choice of the client: a runnable thread runs
  (this is `QueuedRuns` one layer down), and who holds unlocks. Nobody has to call.
* `package`: on the ready queue `WF` for what a processor does unhindered and `SF` for taking a lock:
  spinlocks and pthread mutexes do not pass the same thread over for ever. In `DiskReads` the processor goes
  on, time passes, and a pending signal is delivered once it is unmasked (`SF(Interrupt)`, because the mask
  goes up and down).
* `programs`: `WF` per thread (in `phil`, per philosopher). Finishing is claimed of `phil-ordered`
  only: `phil-random` may give up for ever and `phil-rightfork` may deadlock. Weak fairness is enough
  because meals are finite: a neighbour that wins often enough is done. Of `racedemo.c` it is not claimed:
  its spinlock promises nothing to the thread that spins.

For `smoke.c`, `ProgramsFinish` supposes that the three helpers wait before the agent makes its first
offer; that the code does not see to it is a finding. The liveness of the street programs is not claimed:
`traffic_turns` shows why it would fail.

## 6. Proofs

**`UthreadSched_proofs`** (`Invariance`, `Typing`, `RunsOnOneProcessor`), for any processors and
uthreads. `OneProcessor` alone is not inductive: that a dequeued thread is not running elsewhere
depends on where else it could be. The strengthening says that there is at most one *token* for a
uthread: a processor has the token of what it runs (`HasCur`), of what it dequeued (`to`) and of what
yielded or exited on it until requeued or reaped (`HasFrom`); else it is on the ready queue, on a
waiter queue or with the thread it joins (`Awaits`). A thread that blocks gives the token away before
it has stopped, and until `Save` its state RUNNING keeps others in the spin. `PcInv` ties locals to
`pc`, `BaseInv` keeps base uthreads at home, `StateInv` ties states to places. The assumption
`SafeCalls` (no uthread both yields or exits and blocks or joins) is what the code needs: without it
`sched_block_yield` and `sched_block_exit` violate the conclusions. It is a hypothesis of the theorems and not an
ASSUME, so that the other runs are not restricted by it; the instance of `sched` satisfies it.

**The life of a uthread** (`MemorySafety`, `NobodyIsLost`, in the same module), on top of that invariant and
under the same `SafeCalls`. `HandleInv` follows the one handle of a uthread: whoever is about to
join or detach it has taken it, and is alone with that. `FreedInv` says that a freed uthread is terminated, that
no processor has it in `uthread_self()`, in `to_thread` or in a `from_thread` it will still read (`Apart`), and
that nobody has a handle of it; terminated uthreads are on no queue by the token invariant.
`NobodyIsLost` is the converse of the token's uniqueness: every live uthread has one (`Tokens`), a
token is only ever handed on, and where the token is tells where the uthread is.

**`UthreadSched_proofs`, the unblocks** (`UnblockIsKept`), for any processors and uthreads and **any** clients that keep
`SafeCalls`, also those that unblock a uthread twice, so that it may run twice: the tokens are not available.
The invariant follows the one unblock a running uthread is owed (`Pending`): it is on the ready queue, then
in `to_thread` of a processor that spins, then on the stack of that processor, which finds the uthread
BLOCKED; each step moves it to the next place or pays it. That a uthread which yields as well can lose it is
the run `sched_unblock_lost`.

**`MCPackage_proofs`, the ready queue** (`Invariance`, `WakeupsArrive`, `Implementation`), for any finite set of
processors and any uthreads. The places of the processors say who holds which lock (`Locks`) and
who is counted in `pthread_num_sleeping` (`Sleeping`); a uthread that is being enqueued is in nobody else's hands
(`Args`) and is the last of the queue until it has been signalled (`Order`); and as long as somebody sleeps, the
queue is no longer than the processors that will look at it, plus one between the enqueue and its signal
(`Enough`). With these, every step maps to an enqueue, a dequeue, a processor that falls asleep or wakes, or a
stutter of `ReadyQueue`.

**`UthreadMutex_proofs`** (`Invariance`, `Typing`, `Exclusion`, `FieldsTell`, `WakeupsArrive`, `OneQueueEach`,
`Implementation`), for
any finite set of threads and any conditions. The inductive invariant is
`TypeOK /\ Inside /\ Queues /\ NoLostWakeup`. `Inside` ties `holder` and `reader_count` to the threads
inside; `Queues` says that a queued thread is blocked in the loop that queued it, not yet woken, and
queued once: without it a dequeue could wake a thread that is not there. `OneQueueEach` adds the converse
(`Located`: who is about to block is on a queue or woken), which is what the intrusive queue asks of its
callers. `Implementation` maps every step to a step or a stutter of `Monitor`; it needs that only the last
of a condition's queue can be between its enqueue and its unlock (`LastToUnlock`), because it holds the mutex.

**`UthreadSem_proofs`** (`Invariance`, `Values`, `WakeupsArrive`, `Implementation`), for any finite set of threads and
any initial value, both versions. `Implementation` maps every step to a P, a V or a stutter of
`Semaphore`; it needs that woken threads are blocked and that a woken thread is not queued, so that
`Permits` counts each hand-off once. `WakeupsArrive` is that while threads are queued, as many are on their way
as there are permits nobody holds.

**`MCPrograms_proofs`, the dining philosophers** (`Invariance`, `DeadlockFree`), for any number of philosophers and meals and all three
programs. The invariant says which forks and flags a philosopher has at which
place and in which order it takes them (`Locks`, `Flags`, `Order`). When nobody can go on, a fork that somebody waits for
belongs to a philosopher who waits for its second fork. If that one took the left fork first, its right
neighbour is in the same place, and so on around the table (`RingRight`, `RingLeft`, by the least element of
a set of naturals). In `phil-ordered` the last philosopher cannot be there, in `phil-random` somebody saw the
flag of its other fork up (`Circle`); only in `phil-rightfork` can the ring close.

**`MCPackage_proofs`, the intrusive queue** (`QueuesStayLinked`, `FreeIsOnNone`), for any queues and uthreads. `QueuesLinked`
is inductive together with the types: a uthread that `uthread_enqueue` takes for free has no next pointer
and is not last on any queue, so it is on none, and appending it disturbs no other queue because queues
share no uthread; what is dequeued is the only one to lose its next pointer.

**`UthreadSched_proofs`, the earlier scheduler** (`EarlyThreads`), for any number of processors and uthreads
that keep `SafeExits`. Base uthreads are queued like all others, so all uthreads have tokens. A uthread gives
its token away before it has stopped, to the ready queue, a waiter queue or the uthread it joins, and only one
that terminates keeps it until the processor that switched away from it has reaped it: the token is always at
exactly one place (`At`, `EarlyTokens`), and goes from one to the next (`TokensMove`). `SafeExits` asks that a
uthread which terminates does not also yield, block or join. It is needed: `uthread_switch` reads the state of
`from_thread` when that may long run elsewhere (`a9/sRead/uthread.c:537`), and if it has exited by then, its old
processor and its new one both take it for theirs to reap. TLC reaches
that with two processors when a uthread yields and exits and Main creates it, detaches it and yields; all programs of `a9` start one (`uthread_init (1)`), and
cannot.

**`MCPackage_proofs`, the unblocks** (`UnblockedUthreadsRun`): `UnblockIsKept` carried to
the package as the run checks it, by an instance of that module, for any uthreads that keep `SafeCalls`
(`SchedAssumption`). `EarlyUthreadsKept` is the same of the earlier scheduler.

**`DiskReads_proofs`** (`ReadResults`, `ReadHangs`), for any number of blocks and any depth of interrupts on top
of each other, all four programs (`Limits`: at least one block; of a program with
nothing to read nothing is claimed). The invariant `DInv` has three layers. *Locks*: a spinlock that a uthread
holds is held with SIGALRM masked and no handler on top (`Signals`, `Holders`), and a handler that holds
`prq_mutex` is the innermost; so the lock that the innermost handler finds taken belongs to an interrupt service
routine below it, or is `pthread_mutex`, which the base uthread takes without the mask. That is `OnlyKnownHangs`.
*The queue*: a handler takes reads in the order of the disk, but its service routine takes the first entry of
the program's queue, and another handler may have come between. Handlers may exchange entries; what they have
taken together is still a beginning of what the disk has done, shorter by one for every handler that has its
read and no entry yet (`Queued`). *The uses*: with one read on its way the flag is clear only when all are done
(`Flag`), and in `tRead` a uthread is ready once before its read and again only by the entry of its own read
(`Started`, `Results`). `MCPackage_proofs` carries both to the package as it is checked (`ResultsAreThere`,
`HandlersHangAsKnown`), by an instance of the module.

**`HeapImplicit_proofs`** (`LayoutKept`, `Typing`, `TilingKept`, `HeapImplemented`), for any heap size and any
requests. A *layout* is what the words spell out: the blocks' addresses, their sizes and which of them are
in use (`Tiles`, `Written`). The invariant is that there is a layout whose used blocks are exactly the
areas callers have and in which no two free blocks are neighbours. Then every lemma is about a layout and
a write: a block that is marked, split or joined changes the words of its own header and trailer and no
other's, because blocks do not overlap. The addresses that the loop of `mymalloc`
visits are a recursive function of the words: that there is such a function, and that it visits the blocks of a layout
and nothing else, is an induction over the heap from its end (`WalkExists`, `WalkOverLayout`). From the layout follow the tiling and, since areas
lie within blocks of their own, every step of `Heap`.

**`MCPrograms_proofs`** proves all safety properties of the other programs too, for any number of threads, any sizes
and any rounds (the named assumptions of `MCPrograms`: finite sets of threads, sizes that are naturals, a
ring with at least one slot, addresses other than 0). A program runs while the variables of the others stay (`OnlyOneRuns`), so
each has its own invariant:
* `traffic.c`, `traffic_sem.c` (`StreetIsOneWay`, `StreetIsCounted`): the counters are the sizes of sets of
  cars by place and direction, so that each step moves one car between two sets; the waiting lines hold
  each car once. For the semaphores, permits, queued cars and cars that were passed but have not entered
  add up, which is why the counters agree even where the street is overfull.
* `q1.c`, `q2.c`, `q3.c`, `q4.c`, `ping_pong_sem.c` (`NobodyGoesEarly`): whose turn it is follows from the
  flags and permits; the count of `q2.c` is a function of the holder's round.
* `smoke.c` (same theorem): a turn goes through phases (offer, notes of two helpers, the call, the smoke,
  the resets), and a signal of a phase can only meet the threads of that phase, waiting or not. It is the
  phases that tell that a smoker is called for the pair on the table and not for one of an earlier turn.
* `bounded-buffer.c` (`BufferImplemented`): the ring between its indices is the abstract queue; every step
  is an append, a removal or a stutter of `BoundedQueue`.
* `pc_spinlock.c`, `pc_mutex_cond.c`, `racedemo.c`, `sor.c` (`SharedDataSurvives`, which states the types
  and bounds of all programs too): with the pool, the tests made under the lock hold until it is released.
  With the stack, what is allocated is what is linked from the top and what a thread has in its hands,
  and no element is both. In the matrix all threads
  are in the same iteration and on the same side of its barrier, and what is done of a square is what one
  thread computes there.

**`MCData_proofs`, the promises** (`PromisesSettleTogether`), for any number of promises. The invariant adds to the
property who waits for whom: a promise points to one made later that expects it (`PLinks`), and what is not made yet
has nothing (`PFresh`). So the promises that `promise_resolve` goes through are in the order of their making, and its
recursion ends at one that nobody waits behind (`ChainIsWay`; `GivenValues` for the values on the way). None of them was resolved
before, because each expects the one before it, and nothing else expects one of them.

**`MCData_proofs`, the reference counts** (`CountsAreReferences`, `ElementTreeSorted`), for any number of elements and
nodes and both versions. The count of an element is the sum of three numbers: references of the client, nodes of
the list, places in the tree (`References`). `ListIs` says that the nodes from `head` on are a sequence
without repetition, linked both ways, and that only they have elements; the walk of `list_delete` then finds
each node once (`ListedIs`, `ListedDrops`), and `list_delete_element` leaves such a sequence (`ListRemove`). An operation
that keeps or frees changes one of the three numbers and the counts alike (`KeepCounts`, `FreeCounts`). The order of the
tree needs that every place is reached from the root, so that a new leaf was compared with all nodes above it.
`HeapAmongTheParts` is that the specification the run checks is, for the heap, the one of `HeapImplicit`.

**`MCData_proofs`, the growing list** (`ListIsKept`), for any first size and growth factor that the code could be built
with. The invariant `ListOf` says that the first `len` places of the data are the sequence of the client, and nothing of
the others, which may be junk. The loops of `list_insert` and `list_remove` are recursive functions over the index; what
the data is at each index is known (`LoopDownMoves`, `LoopUpMoves`), and two functions that begin and go on alike are equal
(`SameRecursion`). `RoomMade` is that `expand_list` makes a place before `list_append` or `list_insert` writes to it.

**`MCData_proofs`, the simulators** (`SwitchAndTablesAgree`, `OrdinaryProgramsAgree`), for any state of memory and registers.
The four tables give one instruction the same name, but for illegal ones and those that a simulator lacks
(`SameDispatch`), and an instruction of one name does the same in each (`SameExecuteC`, `SameExecuteJava`). So `sm.c` and
`sm-jt.c` never part while they fetch bytes. The Java ones part from them in two places, which `Parting` names: `a6` jumps with an
unsigned offset (opcode 12), `a2` indexes with another register (opcode 2, the first block of `test.s`). `Ordinary` is the
premise that neither happens and no access is refused. The other programs that are modelled meet it on the simulators they run on;
`AssemblyMatchesC` includes that nothing is refused. None of them has an illegal opcode or a `jr` with a negative offset: that
the simulators agree, and part, there as well is what the theorems say and the runs do not.

**Assumptions of `MCData_proofs`:** the bounds are naturals, the first size of a list is positive and its growth factor at
least two (`DataAssumption`); the programs run on simulators there are (`ProgramsAssumption`); and those of the heap.

**Only model-checked.** All liveness properties (out of the prover's reach, as is ENABLED).
`AssemblyMatchesC`, which is about 28 programs on the inputs of `Sm213Programs`; for other inputs nothing is claimed.
Of `ListHoldsWanted` what `trunc` computes, and the half of `TreesSorted` about `BinaryTree`: map, fold, filter and the sort
are folds over sequences, and what they compute would need induction over data.

## 7. Not modelled

* Programs that only yield and print (`ping_pong.c`, `multi_pong.c`, `test_switch.c`), `simple_race.c`
  (the race of `q2.c` without its mutex), and two that call an interface which no library of the
  repository has (`reader_writer_pong.c`, `parallel_ave.c`). `sor.c` calls it too, but only its barrier.
* The version of `racedemo.c` that yields before `uthread_init`: what `uthread_self` finds then is
  undefined.
* Which block a uthread of `tRead.c` reads (it gets the address of main's loop variable), the contents of
  the disk, the latencies. `queue_destroy` reads an element after it freed it and is called by nobody.
* `uthread_cond_naked_signal` of `a9/treasureHunt`, called by nobody. `destroy` functions only give memory
  back.
* Requests near the ends of `int` in `implicit.c`.
* The system calls of the simulators (input and output), and the programs of `a7` that need them (`examples/`,
  `vuln.s`, `vuln_comments.s`, `proof.s`, `shellcode.s`, `test.s`). `a6/code/q2.s` uses a label `s` that it does not define
  and has no more than the loop of `S5-loop.s`; `a3/code/q2.s` and `q3.s` are empty.
* `a6/code/q3.c` does not compile (it swaps structures through an int) and has `s[0]` where it means `s[i]`: the
  comments of `q3.s` are what is checked.
* `a8/test.c`, whose functions for `list_map1` read the word they are given.
* Other language examples (`a7`) and the exercises on stack overflow: no state a
  property could be about. `namelist.c` prints its arguments.

Three hazards of `PROJECT.json` have no property; each has its reason there.

## 8. Plan

1. Proofs: `map`, `fold` and `filter` of `list.c` and the insertion of `BinaryTree`, by recursive functions in place of the folds.
2. A liveness property of `traffic_sem.c` with more cars than `MAX_OCCUPANCY`;
   `get_size_to_allocate` in 32 bits; the blocks that `tRead.c` reads.
