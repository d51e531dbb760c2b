---------------------------- MODULE StoragePower ----------------------------
(***************************************************************************)
(* Power states of the disk of the iPod classic: storage_ata-6g.c with the *)
(* storage thread of storage.c that drives it.                             *)
(*                                                                         *)
(* The driver keeps three flags (ata_powered, ata_ssd_mode and             *)
(* ssd_deep_asleep) and infers from them what the hardware is: whether the *)
(* drive has power (AUTOLDO, `ldo`), whether the controller's clock is     *)
(* gated, and whether the drive has been set up since it last had none.    *)
(* ata_mutex serialises commands, but every command that waits gives up    *)
(* the processor while it is held, and several tests are made without it.  *)
(* An operation is split where the thread may give up the processor.       *)
(*                                                                         *)
(* Times are reduced to what is compared with: `idle`, no activity for     *)
(* ata_sleep_timeout, and `longAsleep`, 10 s since ssd_sleep_tick.         *)
(* Lock/unlock pairs nested in one another count only where an error       *)
(* return leaves one of them locked (`depth`).                             *)
(***************************************************************************)
EXTENDS Naturals, Sequences

CONSTANTS
    Users,       \* threads that read and write
    StorageThread,
    Drives,      \* kinds of drives: [canSleep, canFlush : BOOLEAN]
    Switching,   \* BOOLEAN: the mode is set to SSD whatever state the disk is in
    MaxEvents,   \* bound: length of storage_queue
    Retries,     \* ata_retries: attempts after the first that fails
    MaxFailures, \* bound: power-ups that fail
    None

ASSUME StorageAssumption ==
    /\ StorageThread \notin Users /\ None \notin Users \cup {StorageThread}
    /\ Drives \subseteq [canSleep : BOOLEAN, canFlush : BOOLEAN]
    /\ Switching \in BOOLEAN
    /\ MaxEvents \in Nat /\ Retries \in Nat /\ MaxFailures \in Nat

VARIABLES
    ata_ssd_mode, ata_powered, ssd_deep_asleep,
    ldo, gated, configured,
    unsaved,        \* the drive's write cache holds what the medium does not
    idle, longAsleep,
    is_backlight_on,
    events,         \* storage_queue
    owner, depth,   \* ata_mutex
    pc,             \* thread -> where it is in the driver
    op,             \* thread -> what it has called
    ret,            \* thread -> what the power-up it is in was called from
    tries,          \* failed attempts of the transfer that has ata_mutex
    drive,
    failures        \* power-ups that have failed

flags == <<ata_powered, ssd_deep_asleep>>
hardware == <<ldo, gated, configured>>
times == <<idle, longAsleep>>
lock == <<owner, depth>>
world == <<ata_ssd_mode, is_backlight_on, events, drive>>
vars == <<flags, hardware, unsaved, times, lock, world, pc, op, ret, tries, failures>>

Threads == Users \cup {StorageThread}
Accesses == {"read", "write", "notify"}
Wakes == {"spin", "preWake"}
Calls == Accesses \cup Wakes \cup {"sleepNow", "deepSleep"}
Places == {"idle", "locking", "locked", "powering", "chunk", "softReset", "cooling",
           "flushing", "standby"}

Init ==  \* after ata_init
    /\ ata_ssd_mode \in BOOLEAN /\ ata_powered = TRUE /\ ssd_deep_asleep = FALSE
    /\ ldo = TRUE /\ gated = FALSE /\ configured = TRUE
    /\ unsaved = FALSE
    /\ idle = FALSE /\ longAsleep = FALSE
    /\ is_backlight_on = TRUE
    /\ events = <<>>
    /\ owner = None /\ depth = 0
    /\ pc = [t \in Threads |-> "idle"]
    /\ op = [t \in Threads |-> "none"]
    /\ ret = [t \in Threads |-> "none"]
    /\ drive \in Drives
    /\ tries = 0 /\ failures = 0

-----------------------------------------------------------------------------
(* Steps inside an operation *)

Ready == ldo /\ ~gated /\ configured

Goto(t, l) ==
    /\ pc' = [pc EXCEPT ![t] = l]
    /\ ret' = [ret EXCEPT ![t] = "none"]
    /\ UNCHANGED <<op, lock>>

(* Mutant: a caller that finds the disk awake leaves without unlocking.    *)
ReturnLocked(t) ==
    /\ depth' = IF op[t] \in Wakes THEN depth ELSE depth - 1
    /\ owner' = IF depth = 1 /\ op[t] \notin Wakes THEN None ELSE owner
    /\ pc' = [pc EXCEPT ![t] = "idle"]
    /\ op' = [op EXCEPT ![t] = "none"]
    /\ ret' = [ret EXCEPT ![t] = "none"]

(* The operation unlocks ata_mutex and returns; idle notifications are     *)
(* followed by the sleep they announce.                                    *)
Return(t) ==
    /\ depth' = depth - 1
    /\ owner' = IF depth = 1 THEN None ELSE owner
    /\ IF op[t] = "notify"
       THEN /\ pc' = [pc EXCEPT ![t] = "locking"]
            /\ op' = [op EXCEPT ![t] = "sleepNow"]
       ELSE /\ pc' = [pc EXCEPT ![t] = "idle"]
            /\ op' = [op EXCEPT ![t] = "none"]
    /\ ret' = [ret EXCEPT ![t] = "none"]

(* t calls o, which gets as far as its mutex_lock. *)
Call(t, o) ==
    /\ pc' = [pc EXCEPT ![t] = "locking"]
    /\ op' = [op EXCEPT ![t] = o]
    /\ UNCHANGED <<ret, lock>>

(* mutex_lock lets t go on: it finds ata_mutex free, or it is handed over. *)
Acquire(t) ==
    /\ pc[t] = "locking" /\ owner \in {None, t}
    /\ owner' = t /\ depth' = depth + 1
    /\ pc' = [pc EXCEPT ![t] = "locked"]
    /\ UNCHANGED <<flags, hardware, unsaved, times, world, op, ret, tries, failures>>

ata_set_active == idle' = FALSE /\ UNCHANGED longAsleep

ata_power_down ==
    /\ ata_powered' = FALSE
    /\ ldo' = (ldo /\ ~ata_powered)
    /\ configured' = (configured /\ ~ata_powered)

(* Where a thread goes on when ata_power_up, called from r, succeeds.      *)
(* ata_transfer_sectors goes on to its first chunk, and so it does after   *)
(* ata_reset; ata_spin and the pre-wake are done.                          *)
AfterPowerUp(t, r) == IF r = "reset" THEN "softReset" ELSE "chunk"

Powered(t, r) ==
    /\ ata_powered' = TRUE
    /\ ata_set_active
    /\ IF r = "op" /\ op[t] \in Wakes THEN Return(t) ELSE Goto(t, AfterPowerUp(t, r))

(* Mutant: the deep sleep is forgotten. *)
NeedsInitHdd == ~ata_ssd_mode

NeedsInit == ~ata_ssd_mode \/ ssd_deep_asleep

(* ata_power_up up to its first wait, by the holder of ata_mutex. *)
ata_power_up(t, r) ==
    \/ /\ ~NeedsInit
       /\ gated' = FALSE
       /\ Powered(t, r)
       /\ UNCHANGED <<ldo, configured, ssd_deep_asleep>>
    \/ /\ NeedsInit
       /\ ssd_deep_asleep' = (ssd_deep_asleep /\ ~ata_ssd_mode)
       /\ ldo' = TRUE /\ gated' = FALSE /\ configured' = FALSE
       /\ ata_set_active
       /\ pc' = [pc EXCEPT ![t] = "powering"]
       /\ ret' = [ret EXCEPT ![t] = r]
       /\ UNCHANGED <<ata_powered, op, lock>>

PoweringSucceeds(t) ==
    /\ pc[t] = "powering"
    /\ configured' = TRUE
    /\ Powered(t, ret[t])
    /\ UNCHANGED <<ldo, gated, ssd_deep_asleep, unsaved, world, tries, failures>>

(* The drive does not answer: ata_transfer_sectors, ata_spin and the       *)
(* pre-wake ignore it; ata_reset and ata_hard_reset return without         *)
(* unlocking; after the hard reset, ata_reset cuts the power for 3 s.      *)
PoweringFails(t) ==
    /\ pc[t] = "powering" /\ failures < MaxFailures
    /\ failures' = failures + 1
    /\ \/ /\ ret[t] = "op" /\ op[t] \in Wakes
          /\ Return(t)
          /\ ata_set_active
          /\ UNCHANGED <<flags, hardware>>
       \/ /\ ret[t] = "again" \/ (ret[t] = "op" /\ op[t] \in Accesses)
          /\ Goto(t, "chunk")
          /\ ata_set_active
          /\ UNCHANGED <<flags, hardware>>
       \/ /\ ret[t] \in {"reset", "hardReset"}
          /\ depth' = depth + 1
          /\ pc' = [pc EXCEPT ![t] = IF ret[t] = "reset" THEN "chunk" ELSE "cooling"]
          /\ ret' = [ret EXCEPT ![t] = "none"]
          /\ IF ret[t] = "hardReset"
             THEN ata_power_down /\ UNCHANGED <<ssd_deep_asleep, gated>>
             ELSE UNCHANGED <<flags, hardware>>
          /\ UNCHANGED <<times, op, owner>>
    /\ UNCHANGED <<unsaved, world, tries>>

(* ata_reset after 3 s without power: it tries once more. *)
CoolingEnds(t) ==
    /\ pc[t] = "cooling"
    /\ ata_power_up(t, "again")
    /\ UNCHANGED <<unsaved, world, tries, failures>>

-----------------------------------------------------------------------------
(* Reads, writes and wake-ups *)

ata_read_write_sectors(t, o) ==
    /\ pc[t] = "idle" /\ t \in Users
    /\ Call(t, o)
    /\ UNCHANGED <<flags, hardware, unsaved, times, world, tries, failures>>

(* ata_spin looks before it locks, and again after. *)
ata_spin(t) ==
    /\ pc[t] = "idle" /\ t \in Users
    /\ \/ /\ ata_ssd_mode /\ ~ata_powered
          /\ Call(t, "spin")
          /\ UNCHANGED times
       \/ /\ ~(ata_ssd_mode /\ ~ata_powered)
          /\ ata_set_active
          /\ UNCHANGED <<pc, op, ret, lock>>
    /\ UNCHANGED <<flags, hardware, unsaved, world, tries, failures>>

(* With ata_mutex: power the disk up unless it is. *)
FindAsleep(t) ==
    /\ pc[t] = "locked" /\ op[t] \in Accesses \cup Wakes /\ ~ata_powered
    /\ ata_power_up(t, "op")
    /\ UNCHANGED <<unsaved, world, tries, failures>>

FindAwake(t) ==
    /\ pc[t] = "locked" /\ op[t] \in Accesses \cup Wakes /\ ata_powered
    /\ ata_set_active
    /\ IF op[t] \in Wakes THEN Return(t) ELSE Goto(t, "chunk")
    /\ UNCHANGED <<flags, hardware, unsaved, world, tries, failures>>

(* The last chunk is done.  A drive that has a write cache has the command *)
(* that flushes it.                                                        *)
TransferDone(t) ==
    /\ pc[t] = "chunk" /\ tries <= Retries /\ Ready
    /\ unsaved' = (unsaved \/ (op[t] # "read" /\ drive.canFlush))
    /\ tries' = 0
    /\ ata_set_active
    /\ Return(t)
    /\ UNCHANGED <<flags, hardware, world, failures>>

(* Mutant: the retries never run out. *)
CountTryNot == UNCHANGED tries

CountTry == tries' = tries + 1

(* A chunk fails, and ata_reset follows. *)
TransferFails(t) ==
    /\ pc[t] = "chunk" /\ tries <= Retries
    /\ CountTry
    /\ \/ /\ ata_powered
          /\ ata_set_active
          /\ Goto(t, "softReset")
          /\ UNCHANGED <<flags, hardware>>
       \/ /\ ~ata_powered
          /\ ata_power_up(t, "reset")
    /\ UNCHANGED <<unsaved, world, failures>>

GiveUp(t) ==
    /\ pc[t] = "chunk" /\ tries > Retries
    /\ tries' = 0
    /\ Return(t)
    /\ UNCHANGED <<flags, hardware, unsaved, times, world, failures>>

SoftResetDone(t) ==
    /\ pc[t] = "softReset"
    /\ ata_set_active
    /\ Goto(t, "chunk")
    /\ UNCHANGED <<flags, hardware, unsaved, world, tries, failures>>

SoftResetFails(t) ==
    /\ pc[t] = "softReset"
    /\ ata_power_up(t, "hardReset")
    /\ UNCHANGED <<unsaved, world, tries, failures>>

-----------------------------------------------------------------------------
(* The storage thread *)

(* Nothing came for HZ/2: Q_STORAGE_TICK.  The idle notifications, which   *)
(* may write, are left out in USB mode and for 30 s after the last ones.   *)
TickSleeps ==
    LET t == StorageThread IN
    /\ pc[t] = "idle" /\ events = <<>>
    /\ ata_powered /\ idle
    /\ \E o \in {"notify", "sleepNow"} : Call(t, o)
    /\ UNCHANGED <<flags, hardware, unsaved, times, world, tries, failures>>

(* Mutant: the condition on the backlight the wrong way round. *)
DeepSleepDueLit ==
    /\ ata_ssd_mode /\ ~ata_powered /\ ~ssd_deep_asleep
    /\ is_backlight_on /\ longAsleep

DeepSleepDue ==
    /\ ata_ssd_mode /\ ~ata_powered /\ ~ssd_deep_asleep
    /\ ~is_backlight_on /\ longAsleep

TickDeepens ==
    LET t == StorageThread IN
    /\ pc[t] = "idle" /\ events = <<>>
    /\ DeepSleepDue
    /\ Call(t, "deepSleep")
    /\ UNCHANGED <<flags, hardware, unsaved, times, world, tries, failures>>

(* Mutant: what was found before the lock is taken for granted. *)
StillAsleepUnchecked == TRUE

StillAsleep == ~ata_powered /\ ~ssd_deep_asleep

DeepSleep(t) ==
    /\ pc[t] = "locked" /\ op[t] = "deepSleep"
    /\ IF StillAsleep
       THEN /\ ldo' = FALSE /\ configured' = FALSE /\ ssd_deep_asleep' = TRUE
            /\ UNCHANGED <<gated, ata_powered>>
       ELSE UNCHANGED <<flags, hardware>>
    /\ Return(t)
    /\ UNCHANGED <<unsaved, times, world, tries, failures>>

(* Q_STORAGE_SLEEP: what is left of the timeout is over by the next tick.  *)
HandleSleep ==
    /\ pc[StorageThread] = "idle"
    /\ events # <<>> /\ Head(events) = "SLEEP" /\ events' = Tail(events)
    /\ idle' = TRUE
    /\ UNCHANGED <<flags, hardware, unsaved, longAsleep, ata_ssd_mode, is_backlight_on,
                   drive, pc, op, ret, lock, tries, failures>>

HandlePreWake ==
    /\ pc[StorageThread] = "idle"
    /\ events # <<>> /\ Head(events) = "PRE_WAKE" /\ events' = Tail(events)
    /\ \/ /\ ata_ssd_mode /\ ~ata_powered
          /\ Call(StorageThread, "preWake")
          /\ UNCHANGED times
       \/ /\ ~(ata_ssd_mode /\ ~ata_powered)
          /\ ata_set_active
          /\ UNCHANGED <<pc, op, ret, lock>>
    /\ UNCHANGED <<flags, hardware, unsaved, ata_ssd_mode, is_backlight_on, drive,
                   tries, failures>>

(* ata_sleepnow, which does not look at ata_powered. *)
SleepNow(t) ==
    /\ pc[t] = "locked" /\ op[t] = "sleepNow"
    /\ Goto(t, "flushing")
    /\ UNCHANGED <<flags, hardware, unsaved, times, world, tries, failures>>

(* Mutant: an SSD needs no flush. *)
ata_flush_cache_hdd == unsaved' = (unsaved /\ ata_ssd_mode)

ata_flush_cache == unsaved' = FALSE

(* The mode is read after the flush. *)
FlushDone(t) ==
    /\ pc[t] = "flushing"
    /\ ata_flush_cache
    /\ \/ /\ ata_ssd_mode
          /\ gated' = TRUE
          /\ ata_powered' = FALSE /\ ssd_deep_asleep' = FALSE
          /\ longAsleep' = FALSE
          /\ Return(t)
          /\ UNCHANGED <<ldo, configured, idle>>
       \/ /\ ~ata_ssd_mode /\ drive.canSleep
          /\ Goto(t, "standby")
          /\ UNCHANGED <<flags, hardware, times>>
       \/ /\ ~ata_ssd_mode /\ ~drive.canSleep /\ drive.canFlush
          /\ ata_power_down
          /\ Return(t)
          /\ UNCHANGED <<ssd_deep_asleep, gated, times>>
       \/ /\ ~ata_ssd_mode /\ ~drive.canSleep /\ ~drive.canFlush
          /\ Return(t)
          /\ UNCHANGED <<flags, hardware, times>>
    /\ UNCHANGED <<world, tries, failures>>

StandbyDone(t) ==
    /\ pc[t] = "standby"
    /\ gated' = TRUE
    /\ ata_power_down
    /\ Return(t)
    /\ UNCHANGED <<ssd_deep_asleep, unsaved, times, world, tries, failures>>

-----------------------------------------------------------------------------
(* The rest of the system *)

Post(e) == events' = Append(events, e)

(* storage_sleep: the backlight goes off in SSD mode, or the buffer is     *)
(* full.                                                                   *)
BacklightOff ==
    /\ is_backlight_on /\ is_backlight_on' = FALSE
    /\ IF ata_ssd_mode THEN Len(events) < MaxEvents /\ Post("SLEEP") ELSE UNCHANGED events
    /\ UNCHANGED <<flags, hardware, unsaved, times, ata_ssd_mode, drive, pc, op, ret, lock,
                   tries, failures>>

backlight_on ==
    /\ is_backlight_on' = TRUE
    /\ IF ata_ssd_mode THEN Len(events) < MaxEvents /\ Post("PRE_WAKE")
                       ELSE UNCHANGED events
    /\ UNCHANGED <<flags, hardware, unsaved, times, ata_ssd_mode, drive, pc, op, ret, lock,
                   tries, failures>>

storage_sleep ==
    /\ Len(events) < MaxEvents /\ Post("SLEEP")
    /\ UNCHANGED <<flags, hardware, unsaved, times, ata_ssd_mode, is_backlight_on, drive,
                   pc, op, ret, lock, tries, failures>>

(* Settings are applied. *)
ata_set_storage_mode(ssd) ==
    /\ ssd => Switching \/ (ata_powered /\ owner = None)
    /\ ata_ssd_mode' = ssd
    /\ UNCHANGED <<flags, hardware, unsaved, times, is_backlight_on, events, drive, pc, op,
                   ret, lock, tries, failures>>

BecomesIdle ==
    /\ ~idle /\ idle' = TRUE
    /\ UNCHANGED <<flags, hardware, unsaved, longAsleep, world, pc, op, ret, lock,
                   tries, failures>>

BecomesLong ==
    /\ ~longAsleep /\ longAsleep' = TRUE
    /\ UNCHANGED <<flags, hardware, unsaved, idle, world, pc, op, ret, lock,
                   tries, failures>>

-----------------------------------------------------------------------------
Step(t) ==
    \/ FindAsleep(t) \/ FindAwake(t)
    \/ PoweringSucceeds(t) \/ PoweringFails(t) \/ CoolingEnds(t)
    \/ TransferDone(t) \/ TransferFails(t) \/ GiveUp(t)
    \/ SoftResetDone(t) \/ SoftResetFails(t)
    \/ DeepSleep(t) \/ SleepNow(t) \/ FlushDone(t) \/ StandbyDone(t)

StorageEvent == HandleSleep \/ HandlePreWake \/ TickSleeps \/ TickDeepens

UserCall(t) == \/ \E o \in {"read", "write"} : ata_read_write_sectors(t, o)
               \/ ata_spin(t)

Environment ==
    \/ BacklightOff \/ backlight_on \/ storage_sleep
    \/ \E ssd \in BOOLEAN : ata_set_storage_mode(ssd)

Next ==
    \/ \E t \in Threads : Acquire(t) \/ Step(t)
    \/ \E t \in Users : UserCall(t)
    \/ StorageEvent
    \/ Environment
    \/ BecomesIdle \/ BecomesLong

Spec == Init /\ [][Next]_vars

(* A thread in the driver goes on, ata_mutex is handed over in the order   *)
(* of arrival, the storage thread looks at its queue, and time passes.     *)
Fairness ==
    /\ \A t \in Threads : WF_vars(Step(t)) /\ SF_vars(Acquire(t))
    /\ WF_vars(StorageEvent)
    /\ WF_vars(BecomesIdle) /\ WF_vars(BecomesLong)

FairSpec == Spec /\ Fairness

-----------------------------------------------------------------------------
(* Properties *)

DriverTypes ==
    /\ ata_powered \in BOOLEAN /\ ssd_deep_asleep \in BOOLEAN
    /\ ldo \in BOOLEAN /\ gated \in BOOLEAN /\ configured \in BOOLEAN
    /\ idle \in BOOLEAN /\ longAsleep \in BOOLEAN

ControlTypes ==
    /\ owner \in Threads \cup {None} /\ depth \in Nat
    /\ pc \in [Threads -> Places]
    /\ op \in [Threads -> Calls \cup {"none"}]
    /\ ret \in [Threads -> {"none", "op", "reset", "hardReset", "again"}]

RestTypes ==
    /\ unsaved \in BOOLEAN /\ ata_ssd_mode \in BOOLEAN /\ is_backlight_on \in BOOLEAN
    /\ events \in Seq({"SLEEP", "PRE_WAKE"}) /\ Len(events) <= MaxEvents
    /\ drive \in Drives
    /\ tries \in 0..(Retries + 1) /\ failures \in 0..MaxFailures

TypeOK == DriverTypes /\ ControlTypes /\ RestTypes

(* A command goes to a drive that has power, a clock and its settings,     *)
(* whatever sleep the disk was put to, by whom and in which mode.          *)
CommandsReachReadyDrive ==
    failures = 0 =>
        \A t \in Threads : pc[t] \in {"chunk", "flushing", "standby"} => Ready

(* The disk is not asleep with writes in its cache: the deep sleep cuts    *)
(* the power later without asking.                                         *)
AsleepClean == failures = 0 /\ ~ata_powered => ~unsaved

(* Nobody leaves the driver with ata_mutex. *)
LockReleased == failures = 0 /\ owner # None => pc[owner] \notin {"idle", "locking"}

(* "clock was gated, AUTOLDO still on" (the fast path of ata_power_up):    *)
(* a drive that is taken to be powered up has power.                       *)
PoweredUpWithPower == [][~ata_powered /\ ata_powered' => ldo']_vars

(* Every read, write and wake-up comes back. *)
CallsReturn ==
    \A t \in Threads : pc[t] = "locking" ~> pc[t] = "idle" \/ failures > 0

Disturbed == Environment \/ \E u \in Users : UserCall(u)

DarkAndSleepy == ~is_backlight_on /\ (ata_ssd_mode \/ drive.canSleep \/ drive.canFlush)

(* A disk that nobody wants any more is put to sleep, and an SSD ends up   *)
(* without power.                                                          *)
SettlesAsleep ==
    <>[][~Disturbed]_vars /\ <>[]DarkAndSleepy
        => <>[](failures = 0 => ~ata_powered /\ (ata_ssd_mode => ~ldo))

-----------------------------------------------------------------------------
(* The inductive invariant behind the first three properties, when the     *)
(* mode is not set to SSD while the disk sleeps.                           *)

Inside(t) == pc[t] \notin {"idle", "locking"}

(* Who is past mutex_lock owns ata_mutex; it is locked once more than it   *)
(* was left locked by a failed power-up.                                   *)
LockShape ==
    /\ \A t \in Threads : Inside(t) => owner = t
    /\ owner = None <=> depth = 0
    /\ depth <= failures + 1
    /\ (\A t \in Threads : ~Inside(t)) => depth <= failures

(* What a thread can be doing where it is. *)
OpShape ==
    \A t \in Threads :
        /\ op[t] \in {"notify", "sleepNow", "deepSleep"} => t = StorageThread
        /\ pc[t] \in {"flushing", "standby"} => op[t] = "sleepNow"
        /\ pc[t] \in {"chunk", "softReset", "cooling"} => op[t] \in Accesses
        /\ pc[t] = "powering" => op[t] \in Accesses \/ (ret[t] = "op" /\ op[t] \in Wakes)

NobodyPowering == \A t \in Threads : pc[t] # "powering"

(* What the flags say of the hardware unless it is just being powered up:  *)
(* a powered disk is ready, and one that sleeps in SSD mode, not deeply,   *)
(* needs no more than its clock.                                           *)
FlagsTrue ==
    /\ NobodyPowering /\ ata_powered => Ready
    /\ NobodyPowering /\ ~NeedsInit => ldo /\ configured
    /\ ~ata_powered => ~unsaved

(* Nothing but the storage thread's own sleep takes the power away.        *)
PowerShape ==
    \A t \in Threads :
        /\ pc[t] # "cooling"
        /\ pc[t] = "powering" => ldo /\ ~gated
        /\ pc[t] \in {"chunk", "softReset", "flushing", "standby"} => ata_powered
        /\ op[t] = "sleepNow" => ata_powered
        /\ pc[t] = "standby" => ~ata_ssd_mode /\ ~unsaved

StorageInv ==
    /\ TypeOK /\ LockShape /\ OpShape
    /\ failures = 0 => FlagsTrue /\ PowerShape

=============================================================================
