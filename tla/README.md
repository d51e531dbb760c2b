# Rockpod: a verification of the firmware's concurrent core

Rockpod is firmware for the iPod Classic, derived from Rockbox: a small
cooperative kernel (`firmware/kernel`), drivers and a USB stack
(`firmware/usb.c`, `firmware/usbstack`, `firmware/target/arm/s5l8702`), and the
player built on them (`apps`). This directory holds TLA+ modules that model
parts of it, the TLC configurations that check them, and theorems about them
that TLAPS checks. The build that is modelled is the hardware build for the
iPod Classic (one core, priority scheduling, event-driven cable detection, the
DesignWare USB controller); where a component is only interesting on the
dual-core targets (the core lock), their build is modelled and this text says
so.

Paths below are relative to the repository. Names of definitions are those of
the source where TLA+ allows.

## 1. Inventory

### The system in one page

Threads are cooperative: a thread runs until it calls something that blocks or
yields (`switch_thread`). Interrupt handlers run at any time interrupts are
enabled; the kernel's critical sections disable them. Threads talk through
*event queues*: a thread owns one, others (and interrupt handlers) post to it,
and a thread may `queue_send` and block until the owner replies. The timer
interrupt counts ticks, runs *tick tasks* and, through one of them, *timeouts*.
On top of that, the USB thread takes the disk away from all other threads when
a computer asks for it, by a broadcast that every registered queue must
acknowledge.

| Component | State it keeps | Operations | Talks to |
|---|---|---|---|
| Core lock (`kernel/corelock.c`, `asm/arm/corelock.c`) | `myl[2]`, `turn` | init, lock, try_lock, unlock | used by every kernel object on dual-core targets |
| Event queue (`kernel/queue.c`) | ring of messages, senders, current sender, wait list | init, delete, enable_queue_send, wait, wait_w_tmo, post, send, reply, peek_ex, remove_from_head, clear, broadcast | scheduler (block, wake), every thread, interrupt handlers |
| Tick and timeouts (`kernel/tick.c`, `timeout.c`) | `current_tick`, two arrays | add/remove task, register/cancel, the interrupt | cable debounce, headphone detection, charger, USB host timeout, fades |
| USB handover (`usb.c`, part of `usb_core.c`, the acknowledging threads) | connection state, configuration, exclusive storage, acks to expect, sequence number | cable interrupts, debounce, the usb thread's messages, the clients' handling of connect/disconnect | all registered queues, disk mount |
| Mutex, semaphore, reader-writer lock | owner, recursion, count, wait list | lock/unlock, wait/release, acquire/release | scheduler, priority inheritance |
| Scheduler and priority inheritance (`thread.c`) | run queue, priorities, wait queues, blockers | block, wake, transfer, inherit, set priority, expire timeouts | all kernel objects |
| ATA storage with SSD mode (`storage_ata-6g.c`, `storage.c`) | powered, deep sleep, mode, last activity | transfer, flush, sleep, deep sleep, wake, set mode | storage thread, file system, USB storage, backlight |
| USB audio, iAP over HID (`usb_audio.c`, `usb_iap_hid.c`) | receive and transmit rings, feedback, report reassembly | transfer complete, PCM callback, start/stop | usb thread, PCM interrupt |
| iAP protocol (`apps/iap`) | authentication state, lingo state | packet handlers, periodic task | serial interrupt, HID driver |
| PCM, mixer, PCM buffer, fades | chunk ring, channel states | commit, callback, fade | codec thread, DMA interrupt, tick |
| Playback, codec, voice | track list, states, audio queue | many messages | buffering, PCM, tagcache |
| Buffering | ring of handles | open, close, read, rebuffer, shrink, move | playback, codecs, file system |
| Movable memory (buflib) | block list, handle table, pins | allocate, free, shrink, compact, move | everything that allocates |
| Power management | power state, battery, charger | shutdown sequence, charge gate | storage, backlight, USB |
| File systems, database, playlists, user interface, plugins, tools | — | sequential code under locks, or drawing | — |

### What is hard here, and what would make it correct

* **Core lock.** Two cores interleave single memory accesses. Correct: at most
  one core between lock and unlock, no starvation of a spinning core.
* **Event queue.** Free-running counters, a full ring that overwrites its
  oldest message, senders blocked on slots, timeouts that expire before the
  thread runs, interrupts posting between a thread's test and its block.
  Correct: no lost wake-up, no sender forgotten, each sender gets the reply to
  its own message or the default, messages in order and once.
* **Ticks and timeouts.** Arrays are compacted while an interrupt handler walks
  them by position. Correct: never early, never after a cancel, never late
  without bound.
* **USB handover.** Cable, host and threads act at any time; a request may be
  withdrawn while only some threads have acknowledged it, acknowledgements of
  an old request arrive during a new one, queues appear and disappear. Correct:
  player and computer never use the disk together; a request ends; everybody
  resumes, on a mounted disk.
* **Kernel objects, priorities.** A timed wait races a release from an
  interrupt; ownership passes at unlock; inherited priorities propagate along
  chains of blocked owners and must be undone. Correct: a release is not given
  twice, nor lost; an owner's priority is the best of those that wait for it.
  (Of the code the second and the third are not true in every case: section 4.)
* **ATA storage.** `ata_flush` looks at `ata_powered` before it takes the
  mutex; the mode can change between sleep and wake. Correct: no command to a
  drive without power or clock.
* **USB audio.** Ring between thread and interrupt where equal indices mean
  both full and empty. Correct: an overflow is recovered from.
* **Buffering, PCM.** Data moved by one thread while another reads it; fades
  changed under a tick task. Correct: a reader never sees bytes of another
  handle.

`PROJECT.json` lists each of these under `hazards` at the line where it bites,
with the properties that cover it, or why none does.

## 2. Plan

In order of importance to the running device; what is built is marked.

1. `Corelock`, abstract `ExclusiveLock` — **built, checked, proved**.
2. `EventQueue`, abstract `RemoteCall` — **built, checked; safety and the
   refinement proved**.
3. `UsbHandover`, abstract `DiskHandover` — **built, checked; safety and the
   refinement proved**. It takes queues as their contents, on the strength of
   `EventQueue`'s `RingExact` and `NoSleepOnMessage`.
4. `TickTimeouts`, abstract `Alarms` — **built, checked, proved**.
5. `Threads` (blocking, waking, priority inheritance) and on it `KernelObjects`
   (mutex, reader-writer lock, semaphore, senders of a queue), abstract
   `FairLocks` and `Permits` — **built, checked; the bookkeeping, both refinements
   and the run queue's counts proved; the priorities proved as long as no lock
   that is waited for is left at `PRIORITY_IDLE`, which is proved where no queue
   has an owner that inherits**.
6. `StoragePower` (power states of the disk, storage thread, mode setting) —
   **built, checked, safety proved**.
7. `HandleRing` (memory of the buffering ring, as operators) and on it
   `Buffering` (three threads) — **built, checked, safety proved** for the
   sessions in which the code keeps its promises (`Ordinary`, section 5).
8. `PcmBuf`: the chunk ring between codec thread and DMA interrupt, the mixer's
   channels, the fade, and the USB interrupt that pulls from the mixer in source
   mode. **Left.**
9. Bounded algorithms against reference definitions (buflib's compaction).
   **Left.**

A module for the receive ring of USB audio was planned and dropped: no path of
this target feeds that ring; what its source mode shares with other threads is
the mixer, which is item 8.

Every safety property of a passing run has its theorem but `PriorityExact`, which
fails for four threads (finding 1). What would be worth proving next is `Buffering`
with padded files, once the code moves the padding with the handle (the
observation on `apps/buffering.c:772`).

The set of runs is kept to a dozen, one per question.

## 3. The modules

### Corelock

`myl` and `turn` are the bytes of `struct corelock`, `pc` says which
instruction of `asm/arm/corelock.c` a core is at. One action per access to
shared memory: `LockStoreMyl`, `LockStoreTurn`, `LockReadMyl`, `LockReadTurn`
for `corelock_lock`, `Try...` for `corelock_try_lock`, `Unlock`. `CoreId` is
what a core stores: 0x55 and 0xaa in the assembly, the core number in the
portable C version. `ExclusiveLock` knows only the set of holders.

### EventQueue

`ring` is `struct event_queue` with its `queue_sender_list`; `threadVars` are
the fields of `struct thread_entry` the queue touches. A step is a stretch of
code between `disable_irq_save` and `restore_irq` (or `switch_thread`). Blocking
calls have an entry (`WaitEnter`, `Send`) and a continuation after the
scheduler has come back (`WakeWithMessage`, `WakeEmptyBlock`, `WakeTimedOut`,
`SendReturn`). `TmoExpire` is the scheduler making a thread runnable whose time
is up, which does not unlink it from the wait list. `BlockOther`, `WakeOther`,
`OtherReturn` stand for every other object a thread blocks on, so that a
wake-up by the wrong object shows. `queue_broadcast` is a `Post` per queue.
History variables number the messages; no guard of the code reads them except
the bound `posted < MaxPosts` and, with it, `Succ(write) # read`, which keeps
the distance of the counters below their range.

`RemoteCall` is the promise of `queue_send`: a request is taken at most once,
answered at most once, and what it was answered with is final. A client is
idle, asked, taken, replied or defaulted; where it is follows from `call`,
`state`, `curr_sender` and `retval` (`Phase`).

### UsbHandover

| TLA+ | code |
|---|---|
| `CableInterrupt`, `StartMonitoring`, `DebounceExpired` | `usb_insert_int`, `usb_remove_int`, `usb_status_event`, `usb_start_monitoring`, `usb_status_tmo_callback` |
| `HostRequest`, `BusReset` | interrupt side of `usb_core.c`: posts to `usb_queue` |
| `HandleInserted`, `HandleExtracted`, `HandleAck`, `HandleCompletion`, `HandleBusReset` | the cases of `usb_thread` |
| `SetConfig`, `RequestExclusiveStorage`, `ReleaseExclusiveStorage` | `usb_core_do_set_config`, and the two functions of `usb.c` |
| `Stoppers` with `TakeConnected`, `StopPlayback`, `Acknowledge`, `Resume` | main thread, `audio_thread`, tagcache: take the message, stop, acknowledge, wait in `usb_wait_for_disconnect` |
| `Ackers` with `AckAndGoOn` | storage, backlight, iAP: acknowledge and continue |
| `Plugins` with `StartPlugin`, `EndPlugin` | plugin threads with a registered queue that never acknowledge |

A step is the handling of one message (the scheduler is cooperative and the
handlers of the usb thread do not give up the state they work on). Threads that
do long work between taking and acknowledging take a step for each part. The
debounce branch for a status that differs from the reported one cannot be
reached with this hardware's interrupts, which store both at once; it is kept
because the code has it.

`DiskHandover` has an owner of the disk and the set of threads that may use it.

### TickTimeouts

`tick_funcs` and `tmo_list` are the arrays up to their first `NULL`; `fnPos`,
`tmoPos` and `pc` are where the interrupt handler is inside `call_tick_tasks`
and `timeout_tick`. Each call of a task or callback is a state of its own, in
which any of `timeout_register`, `timeout_cancel`, `tick_add_task`,
`tick_remove_task` may be called, any number of times (`Call`); between ticks
threads call them. `expires` and `current_tick` wrap at `Modulus`, and
`TimeBefore` is the signed comparison of `system.h`. `timeout_tick`'s local
`tick` is `current_tick`, which does not change inside the handler.

`Alarms` is the promise: an alarm rings no earlier than its interval, never once
cancelled, and at most `MaxLate` ticks late.

### Threads and KernelObjects

`Threads` has the fields of `struct thread_entry` and `struct blocker` that
blocking and priorities touch: `state`, `wqp`, `blocker`, `retval`, the wait
queues, owners and splays, `priority`, `base_priority`, `pdist`, the blockers'
priorities and the distribution of the run queue. `block_thread`, the
`wakeup_thread_...` operators and `inherit_priority` are the functions of
`thread.c`.

`struct priority_distribution` is two variables, because the code can run from the
first into the second: the histogram (`pdist`, integers) and the mask behind it
(`pdmask`). `priority_inherit_internal` and `priority_disinherit_internal` skip
`PRIORITY_IDLE`; the `_inner` functions do not (`InheritUnchecked`,
`DisinheritUnchecked`), and `wakeup_thread_transfer` calls those.
`hist[PRIORITY_IDLE]` is then the first byte of the mask
(`thread-internal.h:75`), so what the model does to the mask is a count of one up
or down in its first `ByteBits` bits (`Incremented`, `Decremented`). In C that is
an access outside the array; the model takes the plain byte access that the
assignment compiles to. Left out of this: the bit for `PRIORITY_IDLE` that
`prio_add_entry` and `prio_subtract_entry` may then touch in the word behind the
mask (`skip_count`, which only the choice of the next thread reads), and the mask
of the run queue's own distribution, which only that choice reads too.

`inherit_priority` loops along a chain of blocked owners and recurses where an
object has several; one turn of its loop is one step and `walk` is the stack of
what is left. Interrupts are disabled as long as it lasts, so every other action
waits for an empty `walk`. Which running thread gets the processor is left open.

`KernelObjects` adds `mutex_lock/unlock`, `mrsw_read/write_acquire/release`,
`semaphore_wait/release` and a queue's send and reply as far as they block, one
step up to where the operation returns or gives up the processor; a blocked
thread comes back in a step of its own (`Return`, `WaitReturn`). A semaphore wait
that was not woken takes two: `semaphore_wait` looks at its queue pointer with
interrupts enabled (`WaitReturn`, `semaphore.c:72`) and goes on with interrupts
disabled (`WaitExpired`, 75 to 93). Between the two no other thread runs
(`Runs`), but interrupts release semaphores and senders. `reads` and
`writes` are what callers know of their own claims; they guard the rules of use
(one releases what one holds; objects are taken in one order; a reader does not
ask to write) and the bookkeeping of the code does not look at them.

`FairLocks` is the promise of the locks: one writer or any number of readers, a
line that is served in the order of arrival, nobody passes it, and no lock is
free while somebody waits. `Permits` is that of the semaphores: each permit is
given to one waiter or kept up to the maximum, a wait succeeds only if it was given
one, and nobody waits while there is one. A permit given to a waiter after that
waiter's last look is lost (`Lose`), and this is the only way to lose one.

### StoragePower

| TLA+ | code (`storage_ata-6g.c`, `storage.c`) |
|---|---|
| `ata_powered`, `ata_ssd_mode`, `ssd_deep_asleep` | the driver's flags |
| `ldo`, `gated`, `configured`, `unsaved`, `drive` | what the hardware is: power, clock gate, set up since power came, write cache; drives differ in what they can do |
| `owner`, `depth` | `ata_mutex`; `depth` counts what failed power-ups leave locked |
| `pc`, `op`, `ret`, `tries` | where each thread is in the driver, split where it may give up the processor |
| `idle`, `longAsleep` | the two times the storage thread compares with |
| `events` | `storage_queue`: backlight off (sleep), pre-wake |

Every operation of the driver that waits for the disk gives up the processor
with the mutex held, and several tests are made without it; those are the
interleavings the module is about. A failing transfer is retried after a soft
and a hard reset under the same lock.

### HandleRing and Buffering

`HandleRing` has no state: `ringbuf_add` and its relatives with the width of
`size_t`, `add_handle`, `move_handle`, `memmove` with its overlap, alignment and
padding, as operators over an array of cells. `Buffering` applies them. Its
`buffer` holds, in place of bytes, whose they are: `<<id, offset>>` for a byte of
a file, `<<id, Header>>` for a `struct memory_handle`; a read that lands on the
wrong handle therefore shows.

The buffering thread (`bt`, `filling`: `buffer_handle`, `fill_buffer`,
`shrink_buffer`, `rebuffer_handle`, its messages), the audio thread (`audio`:
opens, `load_image` under `llist_mutex`, closes, reacts to the two buffer events)
and the codec thread (`codec`: `bufread`, `bufgetdata`, `bufadvance`, `bufseek`,
the wait for data) are cooperative: the code between two places where a thread
may give up the processor is one step, or several during which `CanRun` keeps the
others out. A session is a sequence of files that are opened in turn, with the
seeks the codec may make. `BufferingInvariant` has the inductive invariant of
section 5: the layout of the ring by distance along it, the parts that say what
each thread remembers, and the sessions it holds for.

## 4. The runs

| Run | Question | Result |
|---|---|---|
| `corelock` | mutual exclusion with its inductive strengthening, no starvation, refinement of `ExclusiveLock` | holds |
| `event_queue` | the inductive invariant, no sender forgotten, no lost wake-up, wait list exact, no foreign wake-up, refinement of `RemoteCall`; one receiver, two senders, interrupt posts, overflow, timeouts, clear, delete | holds |
| `event_queue_live` | every `queue_send` and every timed wait returns; order and once-only with removals behind the head, across the wrap | holds |
| `kernel_objects` | priorities, run queue and bookkeeping exact; refinement of `FairLocks` and of `Permits` with the one loss the code has; three threads, a mutex, a reader-writer lock, a queue, a semaphore, a thread whose base priority is changed | holds |
| `priority_chain` | an owner is at least as good as whoever waits for it, on a chain of two mutexes and four threads | violated (finding 1) |
| `storage_power` | commands reach a ready drive, no sleep with unsaved writes, the mutex is released, calls return, an unused disk goes to sleep; every kind of drive, a power-up that may fail | holds |
| `storage_mode_change` | a disk taken to be powered has power, the mode being changed at any time | violated (finding 2) |
| `tick_timeouts` | both lists exact, lateness bounded, refinement of `Alarms` | holds |
| `usb_handover` | exclusive use of the disk with its inductive strengthening, resume on a mounted disk, refinement of `DiskHandover`; with a playing audio thread and a plugin | holds |
| `usb_handover_live` | exact ack counting, no thread misinformed, handover completes, everybody resumes, the cable settles | holds |
| `usb_lost_disconnect` | everybody resumes, with an audio thread that was playing | violated (finding 3) |
| `buffering` | no handle runs into another, cursors agree, data given to the codec stays, a waiting codec goes on; files of every kind, failing ones, seeks | holds |

Deadlock is checked, except where the system may really stop: in the queue runs
(with `MaxPosts` messages posted or the queue deleted a receiver waits for ever)
and in `buffering` (a session that is played to its end).

### Findings

1. `firmware/kernel/thread.c:597`: `inherit_priority` carries the priority of one
   blocker to the next when the owner in between is raised, but not above the
   best of those it waits beside. That next owner then runs at a worse priority
   than a thread that waits for it. It takes four threads, which is why
   `PriorityExact` holds in `kernel_objects`: with three, whoever is overtaken in
   the queue is alone in it. The same carry leads to the second of the
   observations below.
2. `firmware/target/arm/s5l8702/ipod6g/storage_ata-6g.c:663`: what kind of sleep
   the disk is in is inferred from the mode setting. Setting SSD mode while a
   hard disk sleeps without power makes the next power-up open the clock gate
   only; transfers fail, and in SSD mode the hard reset takes the same path.
3. `apps/playback.c:3592`: the audio thread clears its queue for every
   `SYS_USB_CONNECTED` (the data is a sequence number, never 0), and with it a
   disconnect that is already there; it then waits for that disconnect.

Further observations, met while modelling, that no run of their own shows:

* `firmware/kernel/semaphore.c:72`: a permit is lost when an interrupt releases the
  semaphore while a thread whose wait has expired is between its look at
  `wait_queue_ptr` (72, interrupts enabled by `switch_thread`) and `disable_irq`
  (75). The thread is still linked, so `semaphore_release` takes the branch "a
  thread was queued - wake it up and keep count at 0" (111), `wakeup_thread_`
  unlinks it (`thread.c:886`), `wait_queue_try_remove` (79) finds nothing and `ret`
  stays `OBJ_WAIT_TIMEDOUT`. The comment at 78, "see if anyone got us after the
  expired wait", takes a failed removal for nothing to get; 98 promises to "up the
  semaphore's count and release any thread waiting". `Permits` has this loss as an
  action of its own; with `Lose` taken out of `Permits`, `ImplementsPermits` fails.
* `firmware/kernel/thread.c:775`: `wakeup_thread_transfer` gives back the old
  owner's boost without asking whether there was one (`PRIORITY_IDLE`, as 644 to
  649 do). The carry of finding 1 can leave a mutex with waiters at `PRIORITY_IDLE`
  when there is a queue below it in the chain. An instance with four threads shows it
  in eleven states: t1 (base priority 3) owns the queue and is raised to 2 by a
  sender t2; t4 (3) owns the mutex; t3 (1) waits for it, then t1 does. The sender
  is released: the queue goes to `PRIORITY_IDLE`, t1 back to 3, neither test
  at 598 and 600 holds, and the mutex gets `PRIORITY_IDLE`. When t4 unlocks, its
  mask {3} becomes {0, 1, 3}: the byte behind the histogram, 0, was decremented. At
  the next turn of `inherit_priority` for t4 it runs at priority 0, better than any
  thread may have. `LocksRaised` names the condition under which this does not
  happen; in `kernel_objects` it always holds, since `PriorityExact` implies it.
* `firmware/kernel/queue.c:617`: removing a message behind the head leaves a
  sender in the slot the head vacates. With `ScrubDepth` = 2 and two senders,
  `QueueInv` (its part `SenderSlotsLive`) and `NoForeignWakeup` fail: a later
  message at that slot releases a thread that waits for something else.
  `event_queue` and the proofs therefore remove at the head only, and
  `event_queue_live`, which removes behind it, has one sender. The callers that
  do are `apps/playback.c:1000` and 1220.
* `apps/plugins/pictureflow/pictureflow.c:2675`: a registered queue whose thread
  never acknowledges is counted, and the disk is not handed over.
* `firmware/usb.c:433`: a bus reset behind an extraction is dropped while
  `bus_reset_pending` stays set, which suppresses every later one.
* `firmware/asm/corelock.c:35`: the portable lock uses an identity, 0, that means
  "not interested". No current target compiles it for two cores.
* `firmware/kernel/mrsw_lock.c:277`: the comment says that a reader that asks to
  write deadlocks; a sole reader is let through. Callers are kept from it here.
* `storage_ata-6g.c:1353` waits `10*HZ` for the deep sleep; the comment at 1349
  and `README.md:260` say 30 s.
* `storage_ata-6g.c:1011`: `PASS_RC` returns with `ata_mutex` locked when a
  power-up fails, for `ata_hard_reset`, `ata_soft_reset` and `ata_reset`; no other
  thread gets to the disk again. `StoragePower` has the leak (`PoweringFails`,
  `depth`), so its properties speak of runs in which no power-up has failed.
  After a failed power-up out of the deep sleep the next one takes the fast path.
* Changing from SSD to hard disk mode while the clock is gated leaves the drive
  powered and gated until the next access.
* `apps/buffering.c:772`: `shrink_handle` moves the header and `data_size` bytes of
  a handle that may not wrap, but `bufopen` put its data `alignment_pad` bytes
  behind the header (1024): an unpinned padded handle that is moved loses its last
  bytes. With `Sessions <- AtomicThenPackets` (`MCBuffering`) `HandlesIntact` fails;
  no session of the run has such a handle that moves.
* `apps/buffering.c:1024`: `bufopen` adds the padding without asking whether it
  still fits before the first handle, as `rebuffer_handle` does (1208).
  `Cramped` = TRUE admits such files, and `HandlesIntact` fails.
* `apps/buffering.c:772`, 1186: two seeks in a file that cannot be read to its
  end. A short seek clamps the new position to a size that was cut short
  meanwhile, a long one does not: `rebuffer_handle` then sets `start` behind
  `filesize`, a seek back to the end that remains finds it below `start`, and the
  read index, from which `shrink_handle` takes the distance it moves the header by,
  is one of no byte of the file. In a file that is kept in one piece, a long seek
  forward lets its handle move up into the room it gave up; the seek back resets
  `start`, and `filesize - start` is more than the room there is: the distance
  `shrink_handle` computes is then below zero, as a large `size_t`. The sessions of the run have one seek
  at most and none in such files; `Ordinary` excludes both. The codecs of files that are
  kept in one piece only go back to the start.
* `apps/buffering.c:1413`: stripping the tag of a file while its last chunk is
  being read, or while the buffering thread waits for `llist_mutex` to go on,
  shortens the file under the read, and a file opened in between gets its header
  where the read lands. `Racing` = TRUE admits it, and `HandlesIntact` fails.
* `apps/playback.c:1482`: after the last file is buffered the audio thread
  watches no more. A seek that makes the buffering thread start the last file
  again sends no event then, and a codec that waits for room is left waiting:
  `ReadReturns` exempts `audio.done`. It also exempts a codec file that cannot be
  read: it is never truncated, and the halt signal only reaches `ci.audio_hid`.

### Bounds, and why they are enough

* Core lock: none; two cores are all there are.
* Queue: a ring of two slots (three in `event_queue_live`) and three or four
  messages fill it, overflow it and reuse a slot; the counters wrap inside the run
  (`Wrap` 6 or 8, starts just below it). Two senders are the least with which one is
  current and one is queued; they are symmetric in the safety run. More slots add distance
  between slots, not kinds of neighbours; the theorems hold for any length.
* Kernel objects: three threads, one of each object, priorities 1 to 3 (a fourth
  level, 0, has a bit but is nobody's own; the mask is 4 bits, `ByteBits` = 2 of
  them in its first byte, for 32 and 8), at most
  two claims of a thread at a time (`MaxClaims`): enough for a nested claim, a
  holder that waits elsewhere, a reader and a writer in line, a release by an
  interrupt during a timed wait. Chains of two owners need four threads and are
  in `priority_chain`; with the reader-writer lock and the queue, four threads
  are beyond a run of minutes.
* Storage: one user beside the storage thread, two attempts for a transfer, one
  failing power-up, one event in the queue. The safety properties were also
  checked with two users and two failing power-ups (2.3 million states) and are
  proved for any number of each; the liveness properties are not checked with
  two, which would add a second of the same kind to the line for the mutex.
  `Switching` = FALSE means that SSD mode is set only while the disk is powered
  and its mutex free: otherwise finding 2.
* USB: two requests (`MaxSeq`) make the acks of one arrive during the next.
  `MaxUsbQueue` bounds how many messages hardware adds; acks come on top, so
  the queue is longer than that. The host may reset or reconfigure at every
  step. One thread of each kind, since a thread only touches its own queue and
  the count. `usb_handover_live` has no playing audio thread and no plugin that
  is silent: with them its properties fail (finding 3, and the observation on
  pictureflow).
* Timeouts: three timeouts for two slots, and one task beside `timeout_tick`,
  reach a full list, each way to be skipped once and both together: the lateness
  bound is attained (with `MaxLate` one smaller the refinement fails). The same
  module with two tasks and three places in `tick_funcs`, about a million states,
  holds too. `Modulus` 8 wraps many times in a run; the assumption
  `TickAssumption` says what it must exceed.
* Buffering: a ring of 8 units, a header of one, files of 1 to 3, reads of 2
  (`Chunk`), a guard buffer of 2, a watermark of 3, alignment 2: two tracks do not
  fit together, data wraps, padding occurs, shrinks move handles across the end.
  The ten sessions of `MCBuffering` contain each kind of file, resumed, stripped
  and failing ones, and at most one seek; a codec asks for 2 and leaves nothing
  unread. `Cramped` and `Racing` are FALSE, and no session moves an unpinned
  padded handle, for the observations above. The path behind the header
  (`PathSize`) is 0 here; the theorems hold for any. Four of the sessions contain
  a padded file that is kept in one piece (a codec, an atomic track) and are
  therefore not `Ordinary`; what the run shows of them no theorem does. The
  inductive invariant was itself model-checked before it was proved, on this
  ring, aligned or not, with nine `Ordinary` sessions of one to four files and up
  to two seeks.

### Fairness

* Core lock: each core's next access happens; interrupts are off in the lock
  and a critical section ends. Calling the lock is not assumed.
* Queue: a runnable thread runs (`SendReturn`, `Resume`): the scheduler's run
  queue serves all runnable threads and raises ones it skipped. Ticks come
  (`TmoExpire`). The owner returns to its main loop (`SF` of `WaitEnter`: in
  between it is elsewhere, so weak fairness would assume less than it does).
  Posting, replying and clearing are not assumed.
* Kernel objects: no liveness is checked. The turns of `inherit_priority` are
  steps during which nobody else runs, so every action would need strong
  fairness; that waiting is bounded is in `FairLocks`, by the order of arrival.
* Storage: a thread in the driver goes on (weak), time passes (weak), and a
  thread in line for the mutex gets it (strong: it is free again and again, and
  mutexes are first come, first served, as `ImplementsFairLocks` says). Reads,
  writes, the backlight and the mode setting promise nothing.
* USB: the usb thread and the clients handle their messages, the debounce
  timeout expires (`TickTimeouts` bounds how late), and the main thread ends a
  running plugin once it has been told to stop. The cable, the host and the user
  promise nothing.
* Buffering: the buffering thread, when it can go on, does (weak; its being ready
  is written out as `Ready`, since the actions' own `ENABLED` is too slow for
  TLC). The audio and codec threads get the processor again and again (strong:
  scheduling is cooperative and what they do is possible only between the others'
  steps). A wait of the buffering thread times out in the end (strong: a hundred
  looks of one tick outlast `HZ/2`). New calls of the codec, seeks and opens are
  not assumed.

## 5. What is proved

All theorems hold for every value of the constants under the named assumptions
of the modules; what they add to those is said here.

`CorelockProofs` — for any two distinct non-zero identities (`CoreId`'s
assumptions in `Corelock`):

* `CorelockInvInductive`, `CorelockMutualExclusion`: mutual exclusion alone is
  not inductive. The invariant adds that a core's byte tells whether it is
  between its store and its unlock, and that a holder's identity is in `turn`
  when the other core is past its own store; the second is what the last read
  of `corelock_lock` relies on.
* `CorelockImplementsExclusiveLock`: each access is a stutter, an acquisition of
  an open lock, or its holder's release.

`EventQueueProofs` — for every ring length that divides the counters' range, every
set of threads and any number of messages. All but `QueueRingExact` assume
`ProperUse`: one receiver and no removal behind the head. Both are needed, the
second by the observation on `queue.c:617`, the first because a second receiver
overwrites `curr_sender`.

* `QueueInvInductive`: `QueueInv` = types, links matching calls, the wait list
  holding the receiver or nobody, one place per sender, the current sender
  belonging to the last message taken, and the three properties below. None of
  these is inductive alone: that a sender is accounted for needs that its slot
  is live (a slot leaving the ring releases whoever is in it), which needs that
  no thread is in two slots, which needs that a released thread is in none.
* `QueueSendersAccounted`, `QueueReplyMatches`, `QueueNoSleepOnMessage`,
  `QueueWaitListExact`: consequences of it (`ReplyMatches` is a part of
  `QueueInv`, not a property of a run).
* `QueueNoForeignWakeup`: the threads a step releases are linked to this queue
  (`WokenAreLinked`), by the same invariant.
* `QueueImplementsRemoteCall`: `RequestStep` says what a step may do to one
  thread's request; one lemma per operation shows that every step is of that
  form, and one that steps of that form are steps of `RemoteCall`.

* `QueueRingExact`: without `ProperUse`, for any receivers and removals at any
  depth. `RingInv` says the same as `RingExact` by position behind the head, and
  that the ring is not overfull: then no two positions share a slot
  (`SlotsApart`; this is where the length has to divide the counters' range), so
  storing behind the tail and sliding into a gap disturb no other message.
  `SlideMoves` is about the slide, a recursive function in the model; it is proved
  by induction over the set of steps for which it holds (`FromZeroOn`).

The proof has one lemma per operation; the arithmetic of the wrapping counters
is in lemmas of their own.

`TickTimeoutsProofs` — for any number of timeouts, tick tasks and
slots and any width of the counter, under `TickAssumption` (the tick tasks of the
build fit):

* `TicksListsExact`: `ListsExact` is inductive as stated. That `timeout_tick` is
  installed exactly while a timeout is active rests on two facts about the other
  list: the last removal empties `tmo_list` only because nothing is in it twice,
  and the first registration finds a slot for `timeout_tick` because `tick_funcs`
  without it is an injection into the other tasks (`RoomForTimeoutTick`).
* `TicksOverdueBounded`: `OverdueBounded` speaks of the states between ticks. The
  invariant behind it, `Lateness`, speaks of all: for a timeout at place j, with
  `timeout_tick` at place i, the ticks it is late by, plus one if the handler has
  already gone past it in this tick, are at most the places that are left to
  move up, (`MaxTimeouts` - j) + (`MaxTasks` - i). A removal moves entries up
  only (`MovesUp`), and an addition moves none (`StaysPut`); so going past a
  timeout that is due takes a place (`NoLater`).
* `TicksImplementAlarms`: a tick is the alarms' clock, a callback is called only
  for an armed timeout that is due, and the lateness the clock asks for is the
  bound just proved, at place 1 of both lists.

The lemmas on `remove_array_ptr` (`WithoutEntry`, `WithoutKeeps`) and on adding an
entry (`WithKeeps`) come first, one lemma per operation after them; `Differences`
has what the proofs need of the signed difference of two wrapping ticks.

`UsbHandoverProofs` — for any threads of each kind, any number of requests, any
queue lengths and any plugins:

* `HandoverInvInductive`: the current request is the last piece of news in every
  queue, or the thread has taken it and not acknowledged yet, or its ack is under
  way; acks of older numbers never count; and the acks expected are at least
  the threads that have not stopped plus the acks of this request in flight. So
  none expected means that all have stopped.
* `HandoverExclusive`, `HandoverRequestJustified`, `HandoverResumesMounted`,
  `HandoverImplements`: exclusive use of the disk, a request only under a
  configuration that wants one, resuming on a mounted disk, and the refinement of
  `DiskHandover`, from it (`RequestJustified` is a part of `HandoverInv`).
* `HandoverToldTheTruth`, with `Players = {}`: every thread that stops is told the
  truth. The last message of a queue is not enough for this, since a thread throws
  away what it has no case for: in addition the messages of each queue alternate
  (`InTurn`), and the first is the one the thread's place asks for, so nothing is
  ever thrown away. The audio thread is excluded because of finding 3:
  while it plays it clears its queue.

* `HandoverAcksExact`, with `Plugins = {}` and `Players = {}`: the number of acks
  expected is exact, not only enough. What can still come is an ack from each
  thread that has not stopped for the current request, and those posted
  (`Coming`); a step of a thread only moves an ack from the first kind to the
  second (`SameComing`), and the USB thread counts one off as it takes it. That a
  thread that has not stopped has the request before it comes from the alternation
  of `HandoverToldTheTruth`. A plugin that registers a queue and never
  acknowledges is counted and owes nothing, and the audio thread clears the
  request out of its queue: hence the two assumptions.

The module's own filter of completion messages is used in place of `SelectSeq`,
into which the provers cannot look; that the two agree is checked by TLC on all
short sequences (`WithoutCompletionsIsSelectSeq`).

`StoragePowerProofs` — for any users, drives, retries, failures and queue length,
with `~Switching`:

* `StorageInvInductive`: the owner of the mutex is the only thread inside the
  driver (`LockShape`); what a thread can be doing where it is (`OpShape`); the
  flags say what the hardware is unless a power-up is under way (`FlagsTrue`);
  and nothing but the storage thread's own sleep takes the power away
  (`PowerShape`).
* `StorageCommandsReachReadyDrive`, `StorageAsleepClean`, `StorageLockReleased`: the
  three safety properties of `storage_power`, from it.

`KernelObjectsProofs` — for any threads, interrupt handlers, priorities and objects
of each kind, and any bound on recursion and permits (`ThreadsAssumption`,
`KernelAssumption`):

* `LocksExact`: `ObjectsInv`. The wait queue of an object is exactly the threads
  linked to it, each once; and the fields of each lock (owner, recursion, count,
  the readers' own counts) are what its callers hold, plus what a caller has been
  handed while it was asleep and has not yet noticed. The second needs the first: an
  unlock hands the lock to the head of the queue, who must be one that waits.
* `LocksFair`: mutexes and reader-writer locks implement `FairLocks`; the step that
  has content is `mrsw_write_release` and `mrsw_read_release`, which wake one writer
  or the run of readers at the head (`Shortened`, `LineExact`).
* `PermitsKept`: semaphores implement `Permits`, with the releases from interrupts
  and a timeout that comes before or after them. It does not say that no permit is
  lost, which is not so: it says when one is. A permit is given to one waiter or
  kept; that waiter returns success unless the permit came between its last look
  and its disabling interrupts. The refinement needs `ObjectsInv`: a waiter that is
  late is linked exactly if it was not woken since.

`PrioritiesProofs` — priority inheritance, under the same assumptions:

* `RunQueueCounts`: the histogram of the run queue counts the running threads, from
  `RunQueueInv`, by counting what one thread's change of place does (`Replaced`).
  It needs only that priorities are levels (`LevelTypes`, proved as `LevelsLast`),
  not that they are right, and so holds also where an unlock has counted
  `PRIORITY_IDLE`.
* `BookkeepingKept`: `BookkeepingExact`, from `ObjectsInv`, `LevelTypes` and
  `RunQueueInv`; likewise without a condition.
* `PrioritiesKept`: `PrioritiesInv`, as long as no lock that threads wait for is left
  at `PRIORITY_IDLE` (`[]LocksRaised`). Each turn of `inherit_priority`'s loop is a
  step; between them a blocker's priority and that of its owner differ by what the walk still
  owes (`Lends`, `Due`). The invariant says that nothing else differs (`Accounted`),
  that masks agree with histograms and priorities with masks (`Effective`),
  that the walk follows the chain of owners (`WalkExact`), and that no object
  claims a priority that none of its waiters has (`Justified`). The condition is used
  in one place, the unguarded disinherit of `wakeup_thread_transfer`; without it
  the observation on `thread.c:775` refutes the theorem.
* `LocksStayRaised`: with `Queues = {}`, for any threads, mutexes, reader-writer locks
  and semaphores, the condition always holds, and with it `PrioritiesInv`. The
  invariant (`RaisedInv`) says that no turn of the walk carries `PRIORITY_IDLE` and
  that a lock with waiters has a priority or is about to get one: a walk starts
  with the priority of a thread, and what it finds next is that of a waiter, so there is
  nothing to carry. Only `wakeup_thread_release`, of a sender, starts one with
  `PRIORITY_IDLE`.
* `NothingKept`, under `[]LocksRaised`: with no walk under way a thread's priority is
  exactly the best of its base priority and those of the objects it owns, and no
  object's priority is better than that of the best thread waiting for it: what was
  inherited is given back. The other direction, that an owner is at least as good as
  whoever waits for it, is what finding 1 refutes; so `PriorityExact` in full fails
  from four threads on, and stays with TLC for three.

`BufferingProofs` — the ring's operators for every ring, alignment and word width:

* `MoveHandle`: what `move_handle` does to memory, where the room wanted, the
  header and the data together fit into the ring: every byte arrives at the
  place the moved cursors say, the header and data that may not wrap stay in one
  piece, and no byte outside the target changes, although source and target
  overlap and either may wrap. The copy is up to three `memmove`s; `MemmoveAt` says what
  one of them does, `PiecesArrive` puts them together.
* `AddHandle`: where `add_handle` puts a handle: header and data in the room
  between the end of the last handle's whole file and the first handle, not
  wrapped where they may not be.

And on them the safety of `Buffering`, for rings, headers, alignments, chunks, guards
and watermarks of any size and for sessions of any length, under `Ordinary`:
no `Cramped` and no `Racing` opens (each makes `HandlesIntact` fail, see the
observations); no padding before a file that is kept in one piece and read
straight from the disk (an atomic track, a codec: `shrink_handle` loses what the
padding shifts); and no seeks in a session that has an atomic track or an audio
file that fails to be read (the observation on 772 and 1186). None of these
follows from the code: without any one of them, some session breaks `HandlesIntact`. This target
aligns reads to the cache line (`STORAGE_WANTS_ALIGN`), so on it the theorems speak
of sessions of audio, metadata, artwork and raw files; of atomic tracks and codecs
they speak where reads need no alignment.

* `SoundAlways`: the inductive invariant `Sound` (`BufferingInvariant`). The layout
  (`StandPart`) is stated by distance forward along the ring (`Gap`), which makes a handle
  that wraps no special case: the ring holds every handle's header and data
  (`Holds`), a handle's own fields agree (`Shape`), what a handle holds ends before
  any other begins (`Apart`), handles lie in the order of the list (`InOrder`), and
  what is moved as a whole has room for its whole file (`RoomForAll`). `HandlesIntact`
  needs all of it: a byte stays because nobody's room reaches it. The layout
  is not inductive alone. `buffer_handle` finds room, gives up the processor, and
  reads: that the room is still there (`ReadRoom`, in `BtPart`) rests on what the other two
  threads may do in between, so the invariant says where each thread is and what
  it still relies on (`BtPart`, `AudioPart`, `CodecPart`): that the codec's track is
  linked and pinned and not among those being closed, that what the codec
  was given lies where its read position is, that a seek under way is the codec's. What
  the buffering thread will be asked is constrained by the messages already posted
  (`QueuePart`): at most one of the codec's, at most one close of the audio
  thread's, never the codec's own track. `CursorPart` says that a read position is
  behind what was read only during a seek.
* `TypesHold`, `HandlesStayIntact`, `CursorsAlwaysAgree`, `HeldDataAlwaysStays`: the
  four safety properties of the run, from it.

There is one lemma per action. What the actions do to the ring comes before them:
`GrownStands` (a read), `ResetStands` (a rebuffer), `OpenStands`, `LoadedStands`,
`ClosedStands`, `KeptStands` and `TrimmedStands` (the two kinds of shrink), each
with `Disjoint`, `Further` and the other lemmas on distances in place of case
distinctions about wrapping. `shrink_buffer` goes over the list from its end and is
a recursive function in the model: `ShrinkAll` is by induction over the numbers for which
the layout stands after that many shrinks (`FromZeroOn`).

Only model-checked: liveness (`ReadReturns` among it) and anything with `ENABLED`;
`PriorityExact` of `Threads` in full, which does not hold for all values of the
constants; `Buffering` outside `Ordinary`. Induction with an operator as parameter
is out of the prover's reach, so no module that is proved about uses a `RECURSIVE`
operator; the recursive functions the proofs look into are the slide of
`EventQueue` and `shrink_buffer` of `Buffering`, each by induction over a set.

## 6. What is not modelled, and why

* Two receivers of a queue that has `queue_send` enabled: the code forbids it in
  a comment and no queue has them. The module allows it (`Receivers`).
* `queue_delete` while a thread waits on the queue: modelled, it blocks again;
  no property asks otherwise since queues are deleted by or after their owners.
* Of the scheduler: which running thread is chosen (and with it the mask of the run
  queue's distribution) and how the skipped ones age, creation and exit of threads, sleep, stacks, migration between cores.
* Of the disk driver: CE-ATA drives, `ata_read_smart`, registers and DMA;
  `ata_flush`, which no build of this target calls (`HAVE_STORAGE_FLUSH` is not
  defined). A drive with a volatile cache that cannot be flushed is excluded: in
  SSD mode the code would cut its power all the same (`storage_ata-6g.c:1136`).
* Of buffering: cuesheets (`Q_BUFFER_HANDLE`), the cache order, the pins taken
  while a track is closed, the debug data. Seeking back in a file that is kept in
  one piece and was opened behind its start is not reachable from the codecs.
* A plugin that stays resident and registers its queue between the broadcast
  and the main thread's handling of it (`battery_bench.c:731`) is neither told
  nor counted. Plugins here end before the main thread acknowledges.
* The panic of `tick_add_task` with eight tasks: the assumption says the tasks
  of the build fit. The refusal of a ninth timeout is modelled; no caller
  notices.
* Descriptors, endpoints, charging currents and class drivers of USB; SCSI
  commands; everything the inventory lists under drawing, file formats,
  decoders, start-up and tools: sequential, third-party, or hardware protocol.
* PCM buffer, mixer and fades, the playback engine's track list, iAP's
  authentication, power management and buflib: items 8 and 9 of the plan, or
  after them.
