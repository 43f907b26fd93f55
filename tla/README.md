# A TLA+ development for eel5733-project

The repository holds seven assignments of an operating-systems course: small C
programs that coordinate processes and threads (hw1-hw4) and Linux drivers
(hw5-hw7).  This directory models them in TLA+, checks the models with TLC on
small instances, and proves with TLAPS, for every value of the constants, the
safety invariants that TLC checks and the refinement of the ring.  Paths below are relative to the repository's `src/`.

## 1. Inventory

| Component | State | Operations | What is hard |
|---|---|---|---|
| **hw3 eft / bank** (`hw3/eft.c`, `hw3/bank.c`) | the account table and its capacity, a lock for the bank, a semaphore and a flag per account, the balances | `addAccount` (main), `transaction` (tellers), `printResult` | balances are updated outside the bank's lock; two locks are waited for with a third in hand; `realloc` moves semaphores that tellers point to |
| **hw3 ring buffer** (`hw3/ringbuffer.c`) | slots, head, tail, three semaphores | `insertIntoRingBuf`, `removeFromRingBuff` | slot accounting, wrap of the counters |
| **hw6 two-mode device** (`hw6/assignment6.c`) | mode, two counters of open files, two semaphores, two wait queues | open, release, read, write, two ioctls | `sem2` is held from open to release, waits that depend on what users do, signals, switching while others are inside |
| **hw2 threaded location updater** (`hw2/*.c`) | a linked queue, a mutex, two condition variables | `safeRead`, `safeWrite` | waiting under an `if`; a shadowed bound |
| **hw4 mmap location updater** (`hw4/*.c`) | the ring again, in shared memory, with named semaphores | the same two, `init_semaphores`, `fork` | death of one process, two instances on one set of names |
| **hw1 calendar** (`hw1/calendar.c`, `hw1/filter.c`) | dates with events and the event printed last | insert, update, earliest event, `filterCalendarEvent` | aliasing of what was printed, deletions, unknown dates |
| **hw1 location updater** (`hw1/location_updater.c`) | two pipes and their open ends in three processes | fork, dup2, close | end of file when the last write end is closed |
| **hw5 character driver** (`hw5/char_driver.c`) | a ram disk with a semaphore per device, a position per file | lseek, read, write, clear | a shared position, ends and wraps, signals |
| **hw7 USB keyboard** (`hw7/usbkbd.c`) | LEDs wanted, LEDs sent, whether the request is in flight, the emulated mode; two key reports | LED event, LED completion, key interrupt, open, close, probe, disconnect | events and completions in any order, failed submissions, teardown beside them |
| test programs, tests, build files | - | - | no logic of their own |

How they interact: `eft`'s main thread calls `addAccount` directly and sends
the transfers through one ring per teller; the tellers call `transaction`.
hw2 and hw4 run hw1's two filters as threads and as processes around a queue;
hw1's location updater runs them as programs around a pipe.  The drivers are
called by user programs through the kernel.

What makes each correct:

* bank: no update of a balance is lost, no money is made, the table printed is
  the one a serial run would print, nobody waits for ever, no pointer is used
  after `realloc` moved the table;
* ring: a bounded FIFO whatever the interleaving; no slot is lost;
* two-mode device: one file in MODE1, no copy beside a write, counters that
  agree with the files across switches, wake-ups that are not lost, and no
  deadlock beyond those the assignment's `solution.md` describes;
* keyboard: it comes to show the LEDs of the last event, the keys taken to be
  down are those of the last report, nothing is freed in use or leaked;
* calendar: what was printed last for a date is its first event;
* hw1's pipeline: no line is lost, and the end of the input reaches every filter;
* hw4: an instance works on semaphores and lines of its own, and ends;
* ram disk: no copy leaves it, and reads in turn pass over nothing.

The hazards in `PROJECT.json` give the line where each could go wrong.

## 2. Modules

| Module | Models | Kind |
|---|---|---|
| `BoundedQueue` | what a ring promises: a FIFO of at most Capacity lines | abstract specification |
| `RingBuffer` | `hw3/ringbuffer.c` | detailed specification, implements `BoundedQueue` |
| `Bank` | `hw3/bank.c`: `initBank`, `addAccount`, `resize`, `transaction` | detailed specification |
| `Eft` | `hw3/eft.c` and the tellers' loop; extends `Bank`, uses rings as bounded FIFOs | composition |
| `E2Device` | `hw6/assignment6.c` | detailed specification |
| `ThreadedQueue` | `hw2/threaded_location_updater.c`, `hw2/queue.c` | detailed specification |
| `SharedRing` | `hw4/*.c`: several instances of the program | detailed specification |
| `Calendar` | `hw1/calendar.c`, `filterCalendarEvent` of `hw1/filter.c`, `hw1/calendar_filter.c` | detailed specification |
| `LocationUpdater` | `hw1/location_updater.c`, `hw1/email_filter.c`; extends `Calendar` | composition |
| `CharDriver` | `hw5/char_driver.c` | detailed specification |
| `Keyboard` | `hw7/usbkbd.c`, with the USB core and the input core around it | detailed specification |
| `EftProofs` | theorems about `Bank` and `Eft` | proofs |
| `RingBufferProofs`, `E2DeviceProofs`, `ThreadedQueueProofs`, `SharedRingProofs`, `CharDriverProofs`, `KeyboardProofs` | theorems about the module of that name | proofs |
| `LocationUpdaterProofs` | theorems about `Calendar` and `LocationUpdater` | proofs |
| `MC...` | small instances of the module of that name | model checking |

Some actions are preceded by "a variant that ...": a definition that changes
the action the way a plausible bug would.  No specification uses them; each is
put in the place of its action to see that a property notices.

### The grain of a step

Everywhere a step is one semaphore operation together with the code up to the
next one: code between two operations of a semaphore touches shared state only
under a lock, or is split further where it does not.  It does not in four
places, and there the steps are finer: lines 80 and 81 of `bank.c` are a load
and a store each; line 34 (`size++`, before the lock) is a step; the read and
the write of a ring's counter are separate; and a copy of the device begins
and ends in different steps.

### Bank and Eft

`pc[t]` says which of `transaction`'s lines teller t is before, `fromAcc` and
`toAcc` are its two pointers (slots, 0 for NULL), `seenIn` the allocation of the
table they point into.  `realloc` increments `allocation` or leaves it, as it
chooses; a teller whose pointers are of an older allocation can only take
`UseAfterFree`.  The other undefined behaviours are `NullDereference` (an
account the table does not have) and `ScanUnwritten` (the scan reaches the slot
that `addAccount` has counted but not stored, in memory no one has zeroed).
Each sets `fault` and ends the run: nothing is claimed of what follows.

`Eft` adds main's program counter (the line it reads, the markers it has sent,
the tellers it has joined), a ring per teller, and the input file, which is part
of the state and never changes.  A ring there is a sequence with atomic
operations.  That is what the run `ring` shows of `RingBuffer`, and main is the
only producer and a teller the only consumer of its ring.

The branch of `tellerInit` that adds an account (104-107) is not modelled: main
puts only transfers and END into a ring.  Balances are integers and do not
overflow.  Account numbers are positive.

### E2Device

`sem1`, `sem2`, the counters and the mode are the driver's.  `op[t]` is the call
that thread t is in and `pc[t]` where in it; user space is an environment that
may open, call and close in any order the kernel allows (a file is released when
no call on it is under way).  `ProcessOf`, chosen once, says which threads share
their files.  `wake_up_interruptible` moves the sleepers to the
test of their condition; the condition is tested before sleeping, too, without
the lock, as `wait_event_interruptible` does.  With `Signals` TRUE, a wait for a
semaphore may be interrupted, and the thread goes on without it, since the code
ignores the result.

### ThreadedQueue

`pc["email"]` and `pc["calendar"]` are the two threads, `queue` the TAILQ with
its head first, `mutex` the owner of `q_mutex`.  A line is its position in the
input, so that its way through the queue can be followed; of the filters only
whether `filterEmail` keeps it is modelled.  Each condition variable has one
thread that can wait on it, so being in `"waiting"` is the waiters' set.
`SpuriousWake` is the library's freedom to return from a wait unasked;
`unasked` remembers it.  An empty first line of the input can never be read
(`scanf` returns 0, not EOF, and consumes nothing): no `ReadLine` is enabled on it.
The global `qsize` is set by no one; the argument goes into a local variable of
the same name.

### SharedRing

`bound` is the system's table of semaphore names: each name stands for the
semaphore of the instance that made it, or of an earlier run (`Left`).  `sems` is
what an instance opened under each name, and `value` the semaphores.  The nine
calls of `init_semaphores` and `initSharedRingBuffer` are one step each (`SetUp`
gives their order), so that two instances may be anywhere in theirs.  A
`sem_open` of a missing name is taken to make the program exit (line 20 of
`shared_ring_buffer.c` compares with NULL, which is glibc's `SEM_FAILED`).  The ring is that of
hw3, with one process on each side; `insertIntoSharedRingBuf` is the copy, the
counter and the first post, `PostMut` the second.  `ConsumerDies` stands for the
NULL date that `filterCalendarEvent` meets.

### Calendar and LocationUpdater

The events of a date are a sequence and a pointer to one is its index: they are
appended and overwritten in place, never moved.  `getEarliestEvent` is the scan
of the code, as a recursive function; the property compares it with `First`, a
definition by what is wanted.  `Filter` is one line through
`calendar_filter.c`: it changes the calendar, prints or not, or fails (a change
for a date without events dereferences NULL; `fate` ends the run).

`LocationUpdater` puts the two filters and main around two pipes.  `ends` is the
set of pipe ends that a process holds, and a pipe is at its end when it is empty
and nobody holds its write end.  The trailing newline of the `scanf` format
makes a filter look one character ahead, so that it has the last line of a pipe
only when another follows or the pipe is at its end (`Readable`).  What the email
filter prints waits in stdio's buffer and goes into the second pipe later.  Closes,
forks and execs are steps; fork and exec may fail.

### CharDriver

`f_pos` is the position in the file, `ppos` the copy of it that the kernel hands
to `mycdrv_read` and `mycdrv_write` and stores back afterwards (`Begin`, `Back`).
`Down` and `DownUp` include the interruption whose result the code ignores: a
thread may always go on, and `up` afterwards.  A position is at most `MaxPosition`
and a size is of a type one bit wider (`SizeRange`), so that
the sums of lines 44, 47, 87 and 104 wrap as in C.  `mycdrv_lseek` and the ioctl
are one step each: what a second one in the middle of them could leave in
`f_pos`, some order of whole ones leaves too.

### Keyboard

The state is that of `struct usb_kbd`, what the keyboard shows (`lit`), and where
each of the two requests is: idle, in flight, or given back with a status and
waiting for its handler.  The USB core (`LedsArrive`, `ReportArrives`,
`TransferFails`, refusals in `Submit`) and users (LED events, open, close) are the
environment.  A byte is the set of its bits.  `leds_lock` makes an LED event
and the LED handler one step each.  Probe is a step per allocation, each of which
may fail; disconnect is a step per call, so that events, opens and handlers fall
between them; `usb_kill_urb` waits until the request is idle and has submissions
refused meanwhile.  `held` is the memory the driver has.

## 3. What the runs check

| Run | Instance | States | Properties |
|---|---|---|---|
| `ring` | 2 producers, 2 consumers, capacity 2 (that of `eft.c`), counters modulo 4 | 189,838 | see below |
| `eft` | 8 files, up to 3 tellers, rings of 2, a table that starts with 3 slots | 70,804 | see below |
| `e2` | 3 threads, in processes of their own or two in one, 2 files each, no signals | 45,259 | see below |
| `threaded` | inputs of up to 4 lines, waits may return unasked | 31,508 | see below |
| `threaded_size` | the same, waits return on signals only | stops at the violation | `WaitsWhenFull`, violated |
| `e2_signals` | `e2` with signals | stops at the violation | `Mode2CopyExclusion`, violated |
| `keyboard_leds` | 3 LEDs, no keys | 137,284 | see below |
| `keyboard_keys` | a modifier, 4 scan codes, reports of 2 codes, no LEDs | 80,010 | see below |
| `calendar` | 2 titles, dates, times and places, 4 events | 66,498 | see below |
| `location_updater` | inputs of up to 3 lines of 5 kinds, 2 of 8 lines; pipes of 2 lines | 43,579 | see below |
| `shared_ring` | 2 instances, inputs of 3 lines and of 1, rings of 2 | 486,491 | see below |
| `char` | 3 threads, 2 files, a disk of 2 bytes, positions up to 3 | 601,242 | see below |

**ring.**  `ImplementsQueue`: every step is a step of the bounded FIFO or a
stutter.  `SlotsAccounted`: the two semaphores and the threads between a wait
and its post add up to the capacity.  `HeadIsRemoved`: a line does not stay at
the head for ever.  Two threads on each side are needed for threads of one side
to race; with 4 counter values both counters wrap.

**eft.**  The files are written so that each makes one situation possible:
opposite transfers and a chain with a table that grows (`Cycle`), a full ring
(`Busy`), a number used twice (`Duplicate`), an account after a transfer with
and without room (`LateFits`, `LateGrows`), unknown accounts (`Unknown`), a
transfer before its account (`Early`), a self-transfer (`Self`).

* `AccountExclusion`, `NoLostUpdate`: lines 80-81 of `bank.c`, which no lock
  covers, are nevertheless exclusive per account.
* `TransientWait`: whoever waits for an account with the bank's lock in hand
  (75-76) waits for a teller that is about to post it and needs nothing more.
* `NoWildAccess`: if every account comes before the transfers that name it, and
  all accounts come first or fit into the first table, no undefined behaviour is
  met.  Both conditions matter: in `LateGrows` tellers use freed memory.
* `Conservation`: balances add up to the initial ones and the transfers half
  done, at every step.
* `SerialResult`: the table printed is the one of a serial run.
* `Termination`: on such files without self-transfers the program ends.
* `SelfTransferHangs`: with a self-transfer it never does.
* `BankInv`: the inductive invariant of section 5.

**e2.**  `CopyExclusion`: no copy runs beside a write, in either mode and across
switches.  `OneFileInMode1`, `CountsAgree`: see section 1.  `NoLostWakeup`: a
thread asleep in an ioctl sleeps because another file is open.  `Sem1Released`:
line 181 waits for `sem2` with `sem1` in hand, and never for long, since in
MODE2 nobody has `sem2`.  The exception is `SwitchedTwice`: threads that share a file
may both wait for MODE1 and both switch, as neither looks at the mode again after
its wait (172-178); the second one then waits for the `sem2` that the first one took,
with `sem1` in hand, and the device is stopped for good.  `OpenAdmitted`: users that have one file each, do not
switch, use it in one thread at a time and close it are all admitted.
`DeadlockForms`: if all threads block each other it is in one of five ways.
Three are the deadlocks of `hw6/solution.md`; two are not described there: a
process with two files of its own in MODE2 asks for MODE1 and waits for itself,
and the double switch above.  Two more things befall threads that share a file: a
copy that one began in MODE1 goes on while the other switches to MODE2, where
other processes copy (`CopyExclusion` excepts it), and one that waits for a switch
the other makes is not woken by it (`NoLostWakeup`).  Three processes are
the least with an owner, a waiting opener and a third one that switches or
wakes; two files are the least for a process to block itself.

**e2_signals.**  `solution.md:35` says that the copies of MODE2 are made before
`sem1` is given back, which "prevents the data race".  The result of
`down_interruptible` is ignored (45, 82, 109): an interrupted thread goes on
without `sem1` and ups it on its way out, and two copies run at once.

**threaded.**  The waits are under an `if` (75, 86).  `NullReadUnasked` and
`BoundHeld` say that this is harmless as long as waits return on signals alone:
an empty queue is read, or the bound exceeded, only after a wait returned
unasked.  Both do happen then.  `InOrder`: the lines that are kept arrive in
order, once each, and all of them before the calendar filter ends, unasked
wake-ups or not.  `Ends`: the program ends unless a NULL line was used.  Four
lines suffice for the queue to be full, empty, and overfull by two.

**threaded_size.**  The program's message (21) calls its argument the size of the
queue.  It is the size of nothing: the writer waits at one line.  (`README.md`
also starts the program without the argument, upon which it exits.)

**keyboard_leds.**  `LedsShown`: at rest the keyboard shows the LEDs of the last
event, transformed as the two modes require, unless the last transfer failed; and
`led_urb_submitted` means what the comment on it says.  It holds although the
buffer is uninitialised: `sent` says that there was a transfer.  `LedsSettle`: unless
events never cease it comes to show them.  A refused or failed transfer is not
tried again (199, 213), and the keyboard may then show old LEDs until the next event.  Both
properties except it: they say how far this can reach, not that it cannot happen.  `MemoryHeld`: no
allocation is leaked by a probe that fails, and no request is in flight or has a
handler to run without its memory.

**keyboard_keys.**  `KeysFollow`.  Scan codes 49 and 50 have one key (line 38), so
when one is released while the other is held the key is taken to be up.  Two
slots are enough for a code to move and for a release and a press to meet.

**calendar.**  `PrintedIsFirst` and `PrintsNews` relate what was printed last to what
the calendar holds.  Four events are enough for two of one title, a deleted one
among live ones and an earlier one on another date.  `earliestEvent`, which
`insertCalendarEvent` does not initialise, is never read before it is set (a date's
first line always prints).  "NA" is printed again for every further deletion.

**location_updater.**  `LinesArrive`: the lines that are events reach the calendar in
order, and no line is left in a buffer or pipe at the end: the email filter ends only
when its pipe is empty and nobody can write to it, and what stdio has kept is written
before it has ended.  `EndsOrHangs`: the program
ends, because every process closes the write ends it does not use, except when a
filter died: main holds the read end of the pipe it writes to (34 comes after the
loop), so that it gets no SIGPIPE but waits for ever on a full pipe.  The inputs of
eight lines are long enough to fill both pipes with all buffers.

**shared_ring.**  `OwnLines`: the unlinks at the start make an instance independent of
semaphores that an earlier run left and of an instance that already runs;
instances that are set up at the same time may share semaphores.  The
property excepts them: it says that nothing else makes instances share, and nothing of
what becomes of those that do.  `EndsOrOrphans`: both processes end, except that the producer waits
for ever when its consumer has died.

**char.**  `InBounds`: a copy stays on the disk wherever threads that share the file
seek, with the wraps and with ignored interruptions.  `NoSkip`: two reads at once may
get the same bytes, but while nobody seeks no byte is passed over.

TLC's deadlock check is on in `ring`, the keyboard runs and `char`; elsewhere a
finished program stops, or the code really deadlocks or hangs, which
`DeadlockForms`, `EndsOrHangs` and `EndsOrOrphans` describe.

## 4. Fairness

* `RingSpec`, `Spec` of `Eft` and `Spec` of `ThreadedQueue` assume weak fairness of every thread: the
  scheduler runs a thread that stays able to run.  No POSIX semaphore is assumed
  to serve its waiters in order.  `HeadIsRemoved` and `Termination` hold without
  that, because the competitors run out of work.
* `SharedRing` and `LocationUpdater` assume weak fairness of every process, from its
  first step (nobody has to start a second instance).  A process that may die is
  not bound to.
* `Keyboard` assumes that the USB core completes the LED transfers it accepts, with
  success or not, and runs the handler.  Users, reports and unplugging owe nothing.
* `E2Device` assumes strong fairness of a thread's steps inside the driver: the
  kernel's semaphores hand over in order of arrival, so a waiter is not
  overtaken for ever.  Nothing is assumed of user space, except in
  `OpenAdmitted`, which says so: there, users close their files.

## 5. What is proved

Every safety invariant that a run checks, the refinement, and the action property
of the calendar are theorems.  `PROJECT.json` lists them with what each says; here is
where they come from.  None of the properties is inductive as it stands: each
proof is of an invariant that says how the state came about.  TLC has checked
these invariants on the instances of section 3 (`EftInv` with `to` and `at` computed
from the state).

What is assumed is in the `ASSUME` of the modules.  Sets of threads and
processes, tellers and scan codes are finite (a sum or a count over them has to
be one) and a device has a thread; a ring's capacity divides the range of its
counters; there is a worker for every ring that main fills; scan codes of keys are
4 to 254, those below being no keys to the driver (`hw7/usbkbd.c:119,126`) and 255 one that
the input core does not report (334); pipes have room for two
lines, the buffer of a filter for one.  The theorems about `E2Device` assume `~Signals`:
with signals some of them are false (run `e2_signals`).

**Bank** (`BankCorrect`, `EftUsesBank`, `EftAccountExclusion`, `EftNoLostUpdate`,
`EftTransientWait`).  `BankCorrect` is about the bank whoever calls it, and
`EftUsesBank`, `Spec => BankSpec`, gives it to the program.  That two tellers do not
work on one account follows from their having its semaphore, which follows from the
way they came there.  `BankInv` says how:

* `LockInv`: a teller between two operations of the bank's lock is the only one
  that has it.
* `TableInv`, `PointerInv`: slots are filled in order, and pointers are to slots
  in use, so that adding an account disturbs no teller.
* `SemInv`: the accounts' semaphores are mutexes of the tellers that `Holds`
  names, which include those that only pass (64-65, 70-71).
* `ActiveInv`: the flag is set exactly on the accounts of tellers between 77 and
  84, and clear when a teller is about to take both; the wait at 75-76 can
  therefore only be for a passing teller.
* `NoLostUpdate` is then preserved.

The proof has one step per action of the bank, with one lemma per conjunct for
main and one for the tellers (`MainKeeps...`, `TellerKeeps...`).  `SemStep` and
`LockStep` say once what taking, keeping and giving back a semaphore does.

**Eft** (`EftNoWildAccess`, `EftSelfTransferHangs`, `EftConservation`,
`EftSerialResult`).  These speak of the lines of the file, of which the bank knows
nothing.  `EftInv` adds to `BankInv`:

* `SlotsInv`, `AddInv`, `PointerLines`: the slots are those of the account lines read, in
  their order, and a teller's pointers are to those its transfer names.
* `EndInv`: `END` is the last line of a ring, and a teller that has ended has an
  empty one, so that main joins tellers that are done.
* `WildInv`: on files with a meaning no allocation goes away under a teller.
* `Handed(to, at)`, under an existential: for every transfer read, the teller it
  was given to, and where it is: at a place of that teller's ring, with the
  teller, or done.  It plays the part of a history variable.
* `Applied(to, at)`: the balance of an account is its first one, plus the values of the
  transfers past their credit, minus those past their debit.

At the end every transfer is done, so that `Applied` is the serial balance
(`EftSerialResult`); one of an account to itself is never done
(`EftSelfTransferHangs`).  Sums are `SumFunctionOnSet` of the community modules, a fold
over a CHOOSE; `SumTakes` and `SumAdds` say what a proof needs of them.  They are
proved by the smallest set of which they are false (`SmallestSet`).

**RingBuffer** (`RingInvariant`, `RingTypes`, `RingImplementsQueue`).  `RingInv` counts
the threads between a wait and its post: with the two semaphores they account for all slots.
With `mut` held, the index a thread has read is still the ring's.  The refinement maps the slots from head to
tail to the queue; `Capacity` dividing the range of the counters is what lets
them wrap, and 2^32 and `eft.c`'s two slots satisfy it.

**E2Device** (`DeviceTypes`, `DeviceCounts`, `DeviceExclusive`, `DeviceCopies`,
`DeviceWakes`, `DeviceDeadlocks`, `DeviceStuck`).  `DeviceInv` says who has `sem1`
(`Sem1Held`) and `sem2` (`Sem2Held`: in MODE1 the one file that is open or is being
released; in MODE2 nobody; during a switch it is on its way), that the counters are the numbers of open files, and what a
thread asleep has seen (`WaitsOK`).  `DeviceDeadlocks` is a case distinction over
where each thread may be blocked.  `DeviceStuck` is the part of `Sem1Released` that is
about steps: the double switch is never undone.

**ThreadedQueue** (`ThreadedTypes`, `ThreadedNullRead`, `ThreadedBound`, `ThreadedInOrder`,
`ThreadedSignalsOnly`).  `ThreadedInv`: what a signal tells the thread it wakes still
holds when that thread has the mutex again, because there is one thread on either side
(`ReaderHasLine`, `WriterHasRoom`); and every line that was kept is received, in the
reader's hand, in the queue or in the writer's hand, in this order (`LinesOrdered`,
`LinesKept`), with EOF last (`EndLast`).

**SharedRing** (`SharedOwnLines`).  Unless two set-ups have overlapped, the names an instance in
its set-up has made are its own, the semaphores it has opened are those it made,
and each ring counts its own slots (`SharedInv`).

**Calendar and LocationUpdater** (`ScanFindsFirst`, `CalendarPrintedIsFirst`,
`CalendarPrintsNews`, `UpdaterLinesArrive`, `UpdaterPrintedIsFirst`).
`ScanFindsFirst`: the recursive scan of `getEarliestEvent` finds the first live event of every
sequence.  `CalInv` relates each date's events, its pointer and the line printed
last.  `UpdaterInv` says that what has been filtered, what is buffered and what
is in the two pipes and still to be written are together the input, and which
ends each process holds.

**CharDriver** (`CharInBounds`, `CharNoSkip`).  `CharInv`: the kernel lets only requests
into the driver that end at a position (`RequestFits`), so that the sum in lines 87 and
104 has not wrapped when it is compared with the size of the disk.

**Keyboard** (`KbdTypes`, `KbdMemory`, `KbdLeds`, `KbdKeys`).  `KbdInv`: what is
allocated in every phase of probe and disconnect (`Allocated`), that no request is on
its way where its memory is given back (`Quiet`), and what `newleds`, `leds` and
the mode have to do with the last event and the last transfer (`LedsFollow`).

The library's induction theorems take an operator as a parameter, which the
provers cannot instantiate.  What a recursive function or a sum computes is
therefore proved by the least counterexample: `LeastElement` (a set of naturals that is
not empty has a least element) and `SmallestSet`.

Only model-checked: liveness (`HeadIsRemoved`, `Termination`, `Sem1Released`,
`OpenAdmitted`, `Ends`, `LedsSettle`, `EndsOrHangs`, `EndsOrOrphans`), since tlapm has
no rules for fairness and ENABLED, and what the two runs that expect a violation show.

## 6. What is not modelled, and the plan

Not modelled:

* argument errors, `sem_init`, `pipe` and `malloc` failures in the user programs,
  loading drivers with failed allocations, unloading them: nothing of the
  programs runs after these;
* the text of lines: a line is refused for one of the reasons of
  `parseEmailSubject` or is an event.  Fields longer than their 20 bytes, times
  that `sscanf` cannot read, lines without "Subject: " (for which `filterEmail` parses
  a buffer it has not written) and lines longer than the buffers are outside what
  the models say;
* the exit at line 32 of `shared_ring_buffer.c`: a kept line is shorter than 100
  characters;
* overflow of balances and of hw4's counters;
* the bytes of the ram disks;
* `pread` and `pwrite` on hw5's devices: they call the same functions with a position of
  the caller, so that the test of the end is the one that is modelled and the file's position
  stays as it is;
* scan code 255, whose key the input core is not told of (`usbkbd.c:334`), and scan codes
  of modifiers (224 to 231) in the slots of a report: keyboards send these in the first byte;
* an empty first line is modelled in hw2 only, where it hangs the reader; hw1 and
  hw4 read in the same way;
* the test programs: what they call is among what the device models let users
  call.  `userapp-test.c:72` expects "ghij" of a read of eleven bytes,
  five before the end of the disk; line 87 of `char_driver.c` refuses a read past
  the end as a whole.

Planned:

1. A ring of `SharedRing` whose set-up no other overlaps as an implementation of
   `BoundedQueue`, and the queue of `ThreadedQueue`, with waits that return on signals
   alone, as one with a single place.
2. `DeviceDeadlocks` with the other direction: that each of its forms really is for good.
3. What can be said without fairness of the liveness properties, as `DeviceStuck` does for
   `Sem1Released`: which states have no way on.
