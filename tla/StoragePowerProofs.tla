------------------------- MODULE StoragePowerProofs -------------------------
(***************************************************************************)
(* The driver's flags tell the truth about the disk: for any number of     *)
(* users, retries and kinds of drives, a command reaches a drive that is   *)
(* ready for it, a sleeping drive has nothing unsaved and nobody leaves    *)
(* the driver with ata_mutex, as long as the mode is not set to SSD while  *)
(* the disk sleeps and no power-up fails.                                  *)
(***************************************************************************)
EXTENDS StoragePower, TLAPS

-----------------------------------------------------------------------------
(* Types *)

(* The holder of ata_mutex goes on, or unlocks it and leaves.              *)
LEMMA GotoTypes ==
    ASSUME ControlTypes, NEW t \in Threads, NEW l \in Places, Goto(t, l)
    PROVE  ControlTypes'
BY DEF ControlTypes, Goto, lock

LEMMA HolderLocked ==
    ASSUME ControlTypes, LockShape, NEW t \in Threads, Inside(t)
    PROVE  owner = t /\ depth \in Nat /\ depth # 0
BY StorageAssumption DEF ControlTypes, LockShape, Threads

LEMMA ReturnTypes ==
    ASSUME ControlTypes, LockShape, NEW t \in Threads, Inside(t), Return(t)
    PROVE  ControlTypes'
<1>1. owner = t /\ depth \in Nat /\ depth # 0
  BY HolderLocked
<1> QED
  BY <1>1 DEF ControlTypes, Return, Places, Calls

LEMMA CallTypes ==
    ASSUME ControlTypes, NEW t \in Threads,
           NEW o \in Calls, Call(t, o)
    PROVE  ControlTypes'
BY DEF ControlTypes, Call, lock, Places, Calls

LEMMA PoweredTypes ==
    ASSUME ControlTypes, LockShape, NEW t \in Threads, Inside(t), NEW r, Powered(t, r)
    PROVE  ControlTypes' /\ ata_powered' = TRUE /\ idle' = FALSE /\ longAsleep' = longAsleep
<1>1. AfterPowerUp(t, r) \in Places
  BY DEF AfterPowerUp, Places
<1> QED
  BY <1>1, GotoTypes, ReturnTypes DEF Powered, ata_set_active

LEMMA PowerUpTypes ==
    ASSUME ControlTypes, DriverTypes, LockShape, NEW t \in Threads, Inside(t),
           NEW r \in {"op", "reset", "hardReset", "again"}, ata_power_up(t, r)
    PROVE  ControlTypes' /\ DriverTypes'
<1>1. CASE ~NeedsInit
  BY <1>1, PoweredTypes DEF ata_power_up, DriverTypes
<1>2. CASE NeedsInit
  <2>1. ControlTypes'
    BY <1>2 DEF ata_power_up, ControlTypes, lock, Places
  <2>2. DriverTypes'
    BY <1>2 DEF ata_power_up, DriverTypes, ata_set_active
  <2> QED
    BY <2>1, <2>2
<1> QED
  BY <1>1, <1>2

LEMMA DownTypes ==
    ASSUME DriverTypes, ata_power_down
    PROVE  ata_powered' \in BOOLEAN /\ ldo' \in BOOLEAN /\ configured' \in BOOLEAN
BY DEF DriverTypes, ata_power_down

LEMMA TypeStep ==
    ASSUME TypeOK, LockShape, Next
    PROVE  TypeOK'
<1> USE DEF TypeOK
<1>1. ASSUME NEW t \in Threads, Acquire(t)
      PROVE  TypeOK'
  BY <1>1 DEF Acquire, ControlTypes, DriverTypes, RestTypes, Places, flags, hardware, times, world
<1>2. ASSUME NEW t \in Threads, FindAsleep(t)
      PROVE  TypeOK'
  <2>1. ControlTypes' /\ DriverTypes'
    BY <1>2, PowerUpTypes DEF FindAsleep, Inside
  <2> QED
    BY <1>2, <2>1 DEF FindAsleep, RestTypes, world
<1>3. ASSUME NEW t \in Threads, FindAwake(t)
      PROVE  TypeOK'
  <2>1. ControlTypes'
    BY <1>3, ReturnTypes, GotoTypes DEF FindAwake, Inside, Places
  <2> QED
    BY <1>3, <2>1
       DEF FindAwake, ata_set_active, DriverTypes, RestTypes, flags, hardware, world
<1>4. ASSUME NEW t \in Threads, PoweringSucceeds(t)
      PROVE  TypeOK'
  <2>1. ControlTypes' /\ ata_powered' = TRUE /\ idle' = FALSE /\ longAsleep' = longAsleep
    BY <1>4, PoweredTypes DEF PoweringSucceeds, Inside
  <2> QED
    BY <1>4, <2>1 DEF PoweringSucceeds, DriverTypes, RestTypes, world
<1>5. ASSUME NEW t \in Threads, PoweringFails(t)
      PROVE  TypeOK'
  <2>1. RestTypes'
    BY <1>5, StorageAssumption DEF PoweringFails, RestTypes, world
  <2>2. CASE Return(t) /\ ata_set_active /\ UNCHANGED <<flags, hardware>>
    <3>1. ControlTypes'
      BY <1>5, <2>2, ReturnTypes DEF PoweringFails, Inside
    <3> QED
      BY <2>1, <2>2, <3>1 DEF ata_set_active, DriverTypes, flags, hardware
  <2>3. CASE Goto(t, "chunk") /\ ata_set_active /\ UNCHANGED <<flags, hardware>>
    <3>1. ControlTypes'
      BY <2>3, GotoTypes DEF Places
    <3> QED
      BY <2>1, <2>3, <3>1 DEF ata_set_active, DriverTypes, flags, hardware
  <2>4. CASE /\ depth' = depth + 1
             /\ pc' = [pc EXCEPT ![t] = IF ret[t] = "reset" THEN "chunk" ELSE "cooling"]
             /\ ret' = [ret EXCEPT ![t] = "none"]
             /\ IF ret[t] = "hardReset"
                THEN ata_power_down /\ UNCHANGED <<ssd_deep_asleep, gated>>
                ELSE UNCHANGED <<flags, hardware>>
             /\ UNCHANGED <<times, op, owner>>
    <3>1. ControlTypes'
      BY <2>4 DEF ControlTypes, Places
    <3>2. DriverTypes'
      BY <2>4, DownTypes DEF DriverTypes, flags, hardware, times
    <3> QED
      BY <2>1, <3>1, <3>2
  <2> QED
    BY <1>5, <2>2, <2>3, <2>4 DEF PoweringFails
<1>6. ASSUME NEW t \in Threads, CoolingEnds(t)
      PROVE  TypeOK'
  <2>1. ControlTypes' /\ DriverTypes'
    BY <1>6, PowerUpTypes DEF CoolingEnds, Inside
  <2> QED
    BY <1>6, <2>1 DEF CoolingEnds, RestTypes, world
<1>7. ASSUME NEW t \in Threads, TransferDone(t)
      PROVE  TypeOK'
  <2>1. ControlTypes'
    BY <1>7, ReturnTypes DEF TransferDone, Inside
  <2>2. unsaved' \in BOOLEAN
    BY <1>7 DEF TransferDone
  <2>3. tries' \in 0..(Retries + 1)
    BY <1>7, StorageAssumption DEF TransferDone
  <2> QED
    BY <1>7, <2>1, <2>2, <2>3
       DEF TransferDone, ata_set_active, DriverTypes, RestTypes, flags, hardware, world
<1>8. ASSUME NEW t \in Threads, TransferFails(t)
      PROVE  TypeOK'
  <2>1. RestTypes'
    BY <1>8, StorageAssumption DEF TransferFails, CountTry, RestTypes, world
  <2>2. CASE ata_set_active /\ Goto(t, "softReset") /\ UNCHANGED <<flags, hardware>>
    <3>1. ControlTypes'
      BY <2>2, GotoTypes DEF Places
    <3> QED
      BY <2>1, <2>2, <3>1 DEF ata_set_active, DriverTypes, flags, hardware
  <2>3. CASE ata_power_up(t, "reset")
    <3>1. ControlTypes' /\ DriverTypes'
      BY <1>8, <2>3, PowerUpTypes DEF TransferFails, Inside
    <3> QED
      BY <2>1, <3>1
  <2> QED
    BY <1>8, <2>2, <2>3 DEF TransferFails
<1>9. ASSUME NEW t \in Threads, GiveUp(t)
      PROVE  TypeOK'
  <2>1. ControlTypes'
    BY <1>9, ReturnTypes DEF GiveUp, Inside
  <2> QED
    BY <1>9, <2>1, StorageAssumption
       DEF GiveUp, DriverTypes, RestTypes, flags, hardware, times, world
<1>10. ASSUME NEW t \in Threads, SoftResetDone(t)
       PROVE  TypeOK'
  <2>1. ControlTypes'
    BY <1>10, GotoTypes DEF SoftResetDone, Places
  <2> QED
    BY <1>10, <2>1
       DEF SoftResetDone, ata_set_active, DriverTypes, RestTypes, flags, hardware, world
<1>11. ASSUME NEW t \in Threads, SoftResetFails(t)
       PROVE  TypeOK'
  <2>1. ControlTypes' /\ DriverTypes'
    BY <1>11, PowerUpTypes DEF SoftResetFails, Inside
  <2> QED
    BY <1>11, <2>1 DEF SoftResetFails, RestTypes, world
<1>12. ASSUME NEW t \in Threads, DeepSleep(t)
       PROVE  TypeOK'
  <2>1. ControlTypes'
    BY <1>12, ReturnTypes DEF DeepSleep, Inside
  <2> QED
    BY <1>12, <2>1 DEF DeepSleep, DriverTypes, RestTypes, flags, hardware, times, world
<1>13. ASSUME NEW t \in Threads, SleepNow(t)
       PROVE  TypeOK'
  <2>1. ControlTypes'
    BY <1>13, GotoTypes DEF SleepNow, Places
  <2> QED
    BY <1>13, <2>1 DEF SleepNow, DriverTypes, RestTypes, flags, hardware, times, world
<1>14. ASSUME NEW t \in Threads, FlushDone(t)
       PROVE  TypeOK'
  <2>1. ControlTypes'
    BY <1>14, ReturnTypes, GotoTypes DEF FlushDone, Inside, Places
  <2>2. DriverTypes'
    BY <1>14, DownTypes DEF FlushDone, DriverTypes, flags, hardware, times
  <2> QED
    BY <1>14, <2>1, <2>2 DEF FlushDone, ata_flush_cache, RestTypes, world
<1>15. ASSUME NEW t \in Threads, StandbyDone(t)
       PROVE  TypeOK'
  <2>1. ControlTypes'
    BY <1>15, ReturnTypes DEF StandbyDone, Inside
  <2>2. DriverTypes'
    BY <1>15, DownTypes DEF StandbyDone, DriverTypes, times
  <2> QED
    BY <1>15, <2>1, <2>2 DEF StandbyDone, RestTypes, world
<1>16. ASSUME NEW t \in Users, UserCall(t)
       PROVE  TypeOK'
  <2>1. ControlTypes'
    <3>1. CASE \E o \in {"read", "write"} : ata_read_write_sectors(t, o)
      BY <3>1, CallTypes DEF ata_read_write_sectors, Threads, Calls, Accesses
    <3>2. CASE ata_spin(t)
      BY <3>2, CallTypes DEF ata_spin, Threads, Calls, Wakes, ControlTypes, lock
    <3> QED
      BY <1>16, <3>1, <3>2 DEF UserCall
  <2> QED
    BY <1>16, <2>1 DEF UserCall, ata_read_write_sectors, ata_spin, ata_set_active,
       DriverTypes, RestTypes, flags, hardware, times, world
<1>17. CASE StorageEvent
  <2>1. StorageThread \in Threads
    BY DEF Threads
  <2>2. CASE HandleSleep
    BY <1>17, <2>2, StorageAssumption
       DEF HandleSleep, ControlTypes, DriverTypes, RestTypes, flags, hardware, lock
  <2>3. CASE HandlePreWake
    <3>1. ControlTypes'
      BY <2>1, <2>3, CallTypes DEF HandlePreWake, Calls, Wakes, ControlTypes, lock
    <3>2. events' \in Seq({"SLEEP", "PRE_WAKE"}) /\ Len(events') <= MaxEvents
      BY <2>3, StorageAssumption DEF HandlePreWake, RestTypes
    <3> QED
      BY <2>3, <3>1, <3>2
         DEF HandlePreWake, ata_set_active, DriverTypes, RestTypes, flags, hardware, times
  <2>4. CASE TickSleeps \/ TickDeepens
    <3>1. ControlTypes'
      BY <2>1, <2>4, CallTypes DEF TickSleeps, TickDeepens, Calls, Accesses
    <3> QED
      BY <2>4, <3>1
         DEF TickSleeps, TickDeepens, DriverTypes, RestTypes, flags, hardware, times, world
  <2> QED
    BY <1>17, <2>2, <2>3, <2>4 DEF StorageEvent
<1>18. CASE Environment
  <2>1. ControlTypes' /\ DriverTypes'
    BY <1>18 DEF Environment, BacklightOff, backlight_on, storage_sleep, ata_set_storage_mode,
       ControlTypes, DriverTypes, flags, hardware, times, lock
  <2>2. RestTypes'
    <3>1. events' \in Seq({"SLEEP", "PRE_WAKE"}) /\ Len(events') <= MaxEvents
      BY <1>18, StorageAssumption DEF Environment, BacklightOff, backlight_on, storage_sleep, ata_set_storage_mode,
         Post, RestTypes
    <3> QED
      BY <1>18, <3>1 DEF Environment, BacklightOff, backlight_on, storage_sleep, ata_set_storage_mode,
         RestTypes
  <2> QED
    BY <2>1, <2>2
<1>19. CASE BecomesIdle \/ BecomesLong
  BY <1>19 DEF BecomesIdle, BecomesLong, ControlTypes, DriverTypes, RestTypes,
     flags, hardware, lock, world
<1> QED
  BY <1>1, <1>2, <1>3, <1>4, <1>5, <1>6, <1>7, <1>8, <1>9, <1>10, <1>11, <1>12, <1>13,
     <1>14, <1>15, <1>16, <1>17, <1>18, <1>19 DEF Next, Step

-----------------------------------------------------------------------------
(* ata_mutex *)

(* The holder goes on inside, locks once more, or unlocks once.            *)
LEMMA HolderGoesOn ==
    ASSUME TypeOK, LockShape, NEW t \in Threads, Inside(t),
           NEW l \in Places, l \notin {"idle", "locking"},
           pc' = [pc EXCEPT ![t] = l], failures' \in {failures, failures + 1},
           \/ depth' = depth
           \/ depth' = depth + 1 /\ failures' = failures + 1,
           owner' = owner
    PROVE  LockShape'
<1>1. owner = t /\ depth \in Nat /\ depth # 0
  BY HolderLocked DEF TypeOK
<1>2. failures \in Nat
  BY StorageAssumption DEF TypeOK, RestTypes
<1> QED
  BY <1>1, <1>2 DEF TypeOK, ControlTypes, LockShape, Inside

LEMMA OneLess ==
    ASSUME NEW d \in Nat, NEW f \in Nat, NEW g \in {f, f + 1}, d <= f + 1
    PROVE  d - 1 <= g /\ d - 1 <= g + 1 /\ (d - 1 = 0 <=> d = 1)
OBVIOUS

LEMMA HolderReturns ==
    ASSUME TypeOK, LockShape, NEW t \in Threads, Inside(t), Return(t),
           failures' \in {failures, failures + 1}
    PROVE  LockShape'
<1>1. owner = t /\ depth \in Nat /\ depth # 0
  BY HolderLocked DEF TypeOK
<1>2. failures \in Nat /\ failures' \in Nat
  BY StorageAssumption DEF TypeOK, RestTypes
<1>3. \A u \in Threads : ~Inside(u)'
  BY <1>1 DEF TypeOK, ControlTypes, LockShape, Inside, Return
<1>4. depth' = depth - 1 /\ (owner' = None <=> depth = 1)
  BY <1>1, StorageAssumption DEF Return, Threads
<1>5. depth' <= failures' /\ depth' <= failures' + 1 /\ (depth' = 0 <=> depth = 1)
  BY <1>1, <1>2, <1>4, OneLess DEF LockShape
<1> QED
  BY <1>3, <1>4, <1>5 DEF LockShape

LEMMA PowerUpLock ==
    ASSUME TypeOK, LockShape, NEW t \in Threads, Inside(t),
           NEW r, ata_power_up(t, r), UNCHANGED failures
    PROVE  LockShape'
<1>1. CASE ~NeedsInit
  <2>1. CASE Return(t)
    BY <2>1, HolderReturns
  <2>2. CASE Goto(t, AfterPowerUp(t, r))
    BY <2>2, HolderGoesOn DEF Goto, AfterPowerUp, Places, lock
  <2> QED
    BY <1>1, <2>1, <2>2 DEF ata_power_up, Powered
<1>2. CASE NeedsInit
  BY <1>2, HolderGoesOn DEF ata_power_up, Places, lock
<1> QED
  BY <1>1, <1>2

(* ata_mutex belongs to whoever is inside, and is locked once more than   *)
(* it was left locked.                                                     *)
LEMMA LockStep ==
    ASSUME TypeOK, LockShape, Next
    PROVE  LockShape'
<1>1. ASSUME NEW t \in Threads, Acquire(t)
      PROVE  LockShape'
  <2>1. owner = t => depth <= failures
    <3>1. ASSUME owner = t, NEW u \in Threads
          PROVE  ~Inside(u)
      BY <1>1, <3>1 DEF Acquire, LockShape, Inside
    <3> QED
      BY <3>1 DEF LockShape
  <2>2. depth <= failures /\ depth \in Nat /\ failures \in Nat
    BY <1>1, <2>1, StorageAssumption
       DEF Acquire, LockShape, TypeOK, ControlTypes, RestTypes
  <2>3. \A u \in Threads : u # t => ~Inside(u)
    BY <1>1, StorageAssumption DEF Acquire, LockShape, Threads, Inside
  <2>4. depth + 1 # 0 /\ depth + 1 <= failures + 1
    BY <2>2
  <2>5. t # None
    BY StorageAssumption DEF Threads
  <2>6. Inside(t)' /\ \A u \in Threads : u # t => ~Inside(u)'
    BY <1>1, <2>3 DEF Acquire, Inside, TypeOK, ControlTypes
  <2> QED
    BY <1>1, <2>4, <2>5, <2>6 DEF Acquire, LockShape
<1>2. ASSUME NEW t \in Threads, FindAsleep(t)
      PROVE  LockShape'
  BY <1>2, PowerUpLock DEF FindAsleep, Inside
<1>3. ASSUME NEW t \in Threads, FindAwake(t)
      PROVE  LockShape'
  <2>1. CASE Return(t)
    BY <1>3, <2>1, HolderReturns DEF FindAwake, Inside
  <2>2. CASE Goto(t, "chunk")
    BY <1>3, <2>2, HolderGoesOn DEF FindAwake, Goto, Inside, Places, lock
  <2> QED
    BY <1>3, <2>1, <2>2 DEF FindAwake
<1>4. ASSUME NEW t \in Threads, PoweringSucceeds(t)
      PROVE  LockShape'
  <2>1. CASE Return(t)
    BY <1>4, <2>1, HolderReturns DEF PoweringSucceeds, Inside
  <2>2. CASE Goto(t, AfterPowerUp(t, ret[t]))
    BY <1>4, <2>2, HolderGoesOn
       DEF PoweringSucceeds, AfterPowerUp, Goto, Inside, Places, lock
  <2> QED
    BY <1>4, <2>1, <2>2 DEF PoweringSucceeds, Powered
<1>5. ASSUME NEW t \in Threads, PoweringFails(t)
      PROVE  LockShape'
  <2>1. CASE Return(t)
    BY <1>5, <2>1, HolderReturns DEF PoweringFails, Inside
  <2>2. CASE Goto(t, "chunk")
    BY <1>5, <2>2, HolderGoesOn DEF PoweringFails, Goto, Inside, Places, lock
  <2>3. CASE /\ depth' = depth + 1 /\ UNCHANGED owner
             /\ pc' = [pc EXCEPT ![t] = IF ret[t] = "reset" THEN "chunk" ELSE "cooling"]
    BY <1>5, <2>3, HolderGoesOn DEF PoweringFails, Inside, Places
  <2> QED
    BY <1>5, <2>1, <2>2, <2>3 DEF PoweringFails
<1>6. ASSUME NEW t \in Threads, CoolingEnds(t)
      PROVE  LockShape'
  BY <1>6, PowerUpLock DEF CoolingEnds, Inside
<1>7. ASSUME NEW t \in Threads, TransferDone(t)
      PROVE  LockShape'
  BY <1>7, HolderReturns DEF TransferDone, Inside
<1>8. ASSUME NEW t \in Threads, TransferFails(t)
      PROVE  LockShape'
  <2>1. CASE Goto(t, "softReset")
    BY <1>8, <2>1, HolderGoesOn DEF TransferFails, Goto, Inside, Places, lock
  <2>2. CASE ata_power_up(t, "reset")
    BY <1>8, <2>2, PowerUpLock DEF TransferFails, Inside
  <2> QED
    BY <1>8, <2>1, <2>2 DEF TransferFails
<1>9. ASSUME NEW t \in Threads, GiveUp(t)
      PROVE  LockShape'
  BY <1>9, HolderReturns DEF GiveUp, Inside
<1>10. ASSUME NEW t \in Threads, SoftResetDone(t)
       PROVE  LockShape'
  BY <1>10, HolderGoesOn DEF SoftResetDone, Goto, Inside, Places, lock
<1>11. ASSUME NEW t \in Threads, SoftResetFails(t)
       PROVE  LockShape'
  BY <1>11, PowerUpLock DEF SoftResetFails, Inside
<1>12. ASSUME NEW t \in Threads, DeepSleep(t)
       PROVE  LockShape'
  BY <1>12, HolderReturns DEF DeepSleep, Inside
<1>13. ASSUME NEW t \in Threads, SleepNow(t)
       PROVE  LockShape'
  BY <1>13, HolderGoesOn DEF SleepNow, Goto, Inside, Places, lock
<1>14. ASSUME NEW t \in Threads, FlushDone(t)
       PROVE  LockShape'
  <2>1. CASE Return(t)
    BY <1>14, <2>1, HolderReturns DEF FlushDone, Inside
  <2>2. CASE Goto(t, "standby")
    BY <1>14, <2>2, HolderGoesOn DEF FlushDone, Goto, Inside, Places, lock
  <2> QED
    BY <1>14, <2>1, <2>2 DEF FlushDone
<1>15. ASSUME NEW t \in Threads, StandbyDone(t)
       PROVE  LockShape'
  BY <1>15, HolderReturns DEF StandbyDone, Inside
<1>16. ASSUME NEW t \in Users, UserCall(t)
       PROVE  LockShape'
  BY <1>16 DEF UserCall, ata_read_write_sectors, ata_spin, Call, TypeOK, ControlTypes,
     LockShape, Inside, Threads, lock
<1>17. CASE StorageEvent
  BY <1>17 DEF StorageEvent, TickSleeps, TickDeepens, HandleSleep, HandlePreWake, Call, TypeOK,
     ControlTypes, LockShape, Inside, Threads, lock
<1>18. CASE Environment
  BY <1>18 DEF Environment, BacklightOff, backlight_on, storage_sleep,
     ata_set_storage_mode, LockShape, Inside, lock
<1>19. CASE BecomesIdle \/ BecomesLong
  BY <1>19 DEF BecomesIdle, BecomesLong, LockShape, Inside, lock
<1> QED
  BY <1>1, <1>2, <1>3, <1>4, <1>5, <1>6, <1>7, <1>8, <1>9, <1>10, <1>11, <1>12,
     <1>13, <1>14, <1>15, <1>16, <1>17, <1>18, <1>19 DEF Next, Step
-----------------------------------------------------------------------------
(* The disk *)

(* A thread is where its call can be.                                     *)
LEMMA OpStep ==
    ASSUME TypeOK, OpShape, Next
    PROVE  OpShape'
<1>1. ASSUME NEW t \in Threads, Acquire(t)
      PROVE  OpShape'
  BY <1>1 DEF Acquire, TypeOK, ControlTypes, OpShape, Threads, Accesses, Wakes,
     lock, world
<1>2. ASSUME NEW t \in Threads, FindAsleep(t)
      PROVE  OpShape'
  BY <1>2 DEF FindAsleep, ata_power_up, Powered, AfterPowerUp, ata_set_active,
     Return, Goto, TypeOK, ControlTypes, OpShape, Threads, Accesses, Wakes, lock,
     world
<1>3. ASSUME NEW t \in Threads, FindAwake(t)
      PROVE  OpShape'
  BY <1>3 DEF FindAwake, ata_set_active, Return, Goto, TypeOK, ControlTypes,
     OpShape, Threads, Accesses, Wakes, lock, world
<1>4. ASSUME NEW t \in Threads, PoweringSucceeds(t)
      PROVE  OpShape'
  BY <1>4 DEF PoweringSucceeds, Powered, AfterPowerUp, ata_set_active, Return,
     Goto, TypeOK, ControlTypes, OpShape, Threads, Accesses, Wakes, lock, world
<1>5. ASSUME NEW t \in Threads, PoweringFails(t)
      PROVE  OpShape'
  BY <1>5 DEF PoweringFails, Return, Goto, TypeOK, ControlTypes, OpShape, Threads,
     Accesses, Wakes, lock, world
<1>6. ASSUME NEW t \in Threads, CoolingEnds(t)
      PROVE  OpShape'
  BY <1>6 DEF CoolingEnds, ata_power_up, Powered, AfterPowerUp, ata_set_active,
     Return, Goto, TypeOK, ControlTypes, OpShape, Threads, Accesses, Wakes, lock,
     world
<1>7. ASSUME NEW t \in Threads, TransferDone(t)
      PROVE  OpShape'
  BY <1>7 DEF TransferDone, ata_set_active, Return, TypeOK, ControlTypes, OpShape,
     Threads, Accesses, Wakes, lock, world
<1>8. ASSUME NEW t \in Threads, TransferFails(t)
      PROVE  OpShape'
  BY <1>8 DEF TransferFails, ata_power_up, Powered, AfterPowerUp, ata_set_active,
     Return, Goto, TypeOK, ControlTypes, OpShape, Threads, Accesses, Wakes, lock,
     world
<1>9. ASSUME NEW t \in Threads, GiveUp(t)
      PROVE  OpShape'
  BY <1>9 DEF GiveUp, Return, TypeOK, ControlTypes, OpShape, Threads, Accesses,
     Wakes, lock, world
<1>10. ASSUME NEW t \in Threads, SoftResetDone(t)
       PROVE  OpShape'
  BY <1>10 DEF SoftResetDone, ata_set_active, Goto, TypeOK, ControlTypes, OpShape,
     Threads, Accesses, Wakes, lock, world
<1>11. ASSUME NEW t \in Threads, SoftResetFails(t)
       PROVE  OpShape'
  BY <1>11 DEF SoftResetFails, ata_power_up, Powered, AfterPowerUp,
     ata_set_active, Return, Goto, TypeOK, ControlTypes, OpShape, Threads,
     Accesses, Wakes, lock, world
<1>12. ASSUME NEW t \in Threads, DeepSleep(t)
       PROVE  OpShape'
  BY <1>12 DEF DeepSleep, StillAsleep, Return, TypeOK, ControlTypes, OpShape,
     Threads, Accesses, Wakes, lock, world
<1>13. ASSUME NEW t \in Threads, SleepNow(t)
       PROVE  OpShape'
  BY <1>13 DEF SleepNow, Goto, TypeOK, ControlTypes, OpShape, Threads, Accesses,
     Wakes, lock, world
<1>14. ASSUME NEW t \in Threads, FlushDone(t)
       PROVE  OpShape'
  BY <1>14 DEF FlushDone, ata_flush_cache, ata_power_down, Return, Goto, TypeOK,
     ControlTypes, OpShape, Threads, Accesses, Wakes, lock, world
<1>15. ASSUME NEW t \in Threads, StandbyDone(t)
       PROVE  OpShape'
  BY <1>15 DEF StandbyDone, ata_power_down, Return, TypeOK, ControlTypes, OpShape,
     Threads, Accesses, Wakes, lock, world
<1>16. ASSUME NEW t \in Users, UserCall(t)
       PROVE  OpShape'
  BY <1>16, StorageAssumption DEF UserCall, ata_read_write_sectors, ata_spin,
     ata_set_active, Call, TypeOK, ControlTypes, OpShape, Threads, Accesses,
     Wakes, lock, world
<1>17. CASE StorageEvent
  BY <1>17 DEF StorageEvent, TickSleeps, TickDeepens, HandleSleep, HandlePreWake,
     ata_set_active, Call, TypeOK, ControlTypes, OpShape, Threads, Accesses,
     Wakes, lock, world
<1>18. CASE Environment
  BY <1>18 DEF Environment, BacklightOff, backlight_on, storage_sleep,
     ata_set_storage_mode, TypeOK, ControlTypes, OpShape, Threads, Accesses,
     Wakes, lock, world
<1>19. CASE BecomesIdle \/ BecomesLong
  BY <1>19 DEF BecomesIdle, BecomesLong, TypeOK, ControlTypes, OpShape, Threads,
     Accesses, Wakes, lock, world
<1> QED
  BY <1>1, <1>2, <1>3, <1>4, <1>5, <1>6, <1>7, <1>8, <1>9, <1>10, <1>11, <1>12,
     <1>13, <1>14, <1>15, <1>16, <1>17, <1>18, <1>19 DEF Next, Step
(* Only the storage thread's sleep takes the power away.                  *)
LEMMA PowerStep ==
    ASSUME StorageInv, ~Switching, failures' = 0, Next
    PROVE  PowerShape'
<1>1. ASSUME NEW t \in Threads, Acquire(t)
      PROVE  PowerShape'
  BY <1>1 DEF Acquire, StorageInv, TypeOK, ControlTypes, LockShape, OpShape,
     PowerShape, FlagsTrue, NobodyPowering, NeedsInit, Ready, Inside, Threads,
     Accesses, Wakes, flags, hardware, lock, world
<1>2. ASSUME NEW t \in Threads, FindAsleep(t)
      PROVE  PowerShape'
  BY <1>2 DEF FindAsleep, ata_power_up, Powered, AfterPowerUp, ata_set_active,
     Return, Goto, StorageInv, TypeOK, ControlTypes, LockShape, OpShape,
     PowerShape, FlagsTrue, NobodyPowering, NeedsInit, Ready, Inside, Threads,
     Accesses, Wakes, flags, hardware, lock, world
<1>3. ASSUME NEW t \in Threads, FindAwake(t)
      PROVE  PowerShape'
  BY <1>3 DEF FindAwake, ata_set_active, Return, Goto, StorageInv, TypeOK,
     ControlTypes, LockShape, OpShape, PowerShape, FlagsTrue, NobodyPowering,
     NeedsInit, Ready, Inside, Threads, Accesses, Wakes, flags, hardware, lock,
     world
<1>4. ASSUME NEW t \in Threads, PoweringSucceeds(t)
      PROVE  PowerShape'
  BY <1>4 DEF PoweringSucceeds, Powered, AfterPowerUp, ata_set_active, Return,
     Goto, StorageInv, TypeOK, ControlTypes, LockShape, OpShape, PowerShape,
     FlagsTrue, NobodyPowering, NeedsInit, Ready, Inside, Threads, Accesses,
     Wakes, flags, hardware, lock, world
<1>5. ASSUME NEW t \in Threads, PoweringFails(t)
      PROVE  PowerShape'
  BY <1>5, StorageAssumption DEF PoweringFails, StorageInv, TypeOK, RestTypes
<1>6. ASSUME NEW t \in Threads, CoolingEnds(t)
      PROVE  PowerShape'
  BY <1>6 DEF CoolingEnds, ata_power_up, Powered, AfterPowerUp, ata_set_active,
     Return, Goto, StorageInv, TypeOK, ControlTypes, LockShape, OpShape,
     PowerShape, FlagsTrue, NobodyPowering, NeedsInit, Ready, Inside, Threads,
     Accesses, Wakes, flags, hardware, lock, world
<1>7. ASSUME NEW t \in Threads, TransferDone(t)
      PROVE  PowerShape'
  BY <1>7 DEF TransferDone, ata_set_active, Return, StorageInv, TypeOK,
     ControlTypes, LockShape, OpShape, PowerShape, FlagsTrue, NobodyPowering,
     NeedsInit, Ready, Inside, Threads, Accesses, Wakes, flags, hardware, lock,
     world
<1>8. ASSUME NEW t \in Threads, TransferFails(t)
      PROVE  PowerShape'
  BY <1>8 DEF TransferFails, ata_power_up, Powered, AfterPowerUp, ata_set_active,
     Return, Goto, StorageInv, TypeOK, ControlTypes, LockShape, OpShape,
     PowerShape, FlagsTrue, NobodyPowering, NeedsInit, Ready, Inside, Threads,
     Accesses, Wakes, flags, hardware, lock, world
<1>9. ASSUME NEW t \in Threads, GiveUp(t)
      PROVE  PowerShape'
  BY <1>9 DEF GiveUp, Return, StorageInv, TypeOK, ControlTypes, LockShape,
     OpShape, PowerShape, FlagsTrue, NobodyPowering, NeedsInit, Ready, Inside,
     Threads, Accesses, Wakes, flags, hardware, lock, world
<1>10. ASSUME NEW t \in Threads, SoftResetDone(t)
       PROVE  PowerShape'
  BY <1>10 DEF SoftResetDone, ata_set_active, Goto, StorageInv, TypeOK,
     ControlTypes, LockShape, OpShape, PowerShape, FlagsTrue, NobodyPowering,
     NeedsInit, Ready, Inside, Threads, Accesses, Wakes, flags, hardware, lock,
     world
<1>11. ASSUME NEW t \in Threads, SoftResetFails(t)
       PROVE  PowerShape'
  BY <1>11 DEF SoftResetFails, ata_power_up, Powered, AfterPowerUp,
     ata_set_active, Return, Goto, StorageInv, TypeOK, ControlTypes, LockShape,
     OpShape, PowerShape, FlagsTrue, NobodyPowering, NeedsInit, Ready, Inside,
     Threads, Accesses, Wakes, flags, hardware, lock, world
<1>12. ASSUME NEW t \in Threads, DeepSleep(t)
       PROVE  PowerShape'
  BY <1>12 DEF DeepSleep, StillAsleep, Return, StorageInv, TypeOK, ControlTypes,
     LockShape, OpShape, PowerShape, FlagsTrue, NobodyPowering, NeedsInit, Ready,
     Inside, Threads, Accesses, Wakes, flags, hardware, lock, world
<1>13. ASSUME NEW t \in Threads, SleepNow(t)
       PROVE  PowerShape'
  BY <1>13 DEF SleepNow, Goto, StorageInv, TypeOK, ControlTypes, LockShape,
     OpShape, PowerShape, FlagsTrue, NobodyPowering, NeedsInit, Ready, Inside,
     Threads, Accesses, Wakes, flags, hardware, lock, world
<1>14. ASSUME NEW t \in Threads, FlushDone(t)
       PROVE  PowerShape'
  BY <1>14 DEF FlushDone, ata_flush_cache, ata_power_down, Return, Goto,
     StorageInv, TypeOK, ControlTypes, LockShape, OpShape, PowerShape, FlagsTrue,
     NobodyPowering, NeedsInit, Ready, Inside, Threads, Accesses, Wakes, flags,
     hardware, lock, world
<1>15. ASSUME NEW t \in Threads, StandbyDone(t)
       PROVE  PowerShape'
  BY <1>15 DEF StandbyDone, ata_power_down, Return, StorageInv, TypeOK,
     ControlTypes, LockShape, OpShape, PowerShape, FlagsTrue, NobodyPowering,
     NeedsInit, Ready, Inside, Threads, Accesses, Wakes, flags, hardware, lock,
     world
<1>16. ASSUME NEW t \in Users, UserCall(t)
       PROVE  PowerShape'
  BY <1>16, StorageAssumption DEF UserCall, ata_read_write_sectors, ata_spin,
     ata_set_active, Call, StorageInv, TypeOK, ControlTypes, LockShape, OpShape,
     PowerShape, FlagsTrue, NobodyPowering, NeedsInit, Ready, Inside, Threads,
     Accesses, Wakes, flags, hardware, lock, world
<1>17. CASE StorageEvent
  BY <1>17 DEF StorageEvent, TickSleeps, TickDeepens, HandleSleep, HandlePreWake,
     ata_set_active, Call, StorageInv, TypeOK, ControlTypes, LockShape, OpShape,
     PowerShape, FlagsTrue, NobodyPowering, NeedsInit, Ready, Inside, Threads,
     Accesses, Wakes, flags, hardware, lock, world
<1>18. CASE Environment
  <2>1. ASSUME NEW ssd \in BOOLEAN, ata_set_storage_mode(ssd), NEW t \in Threads, pc[t] = "standby"
        PROVE  ~ssd
    BY <2>1, StorageAssumption
       DEF ata_set_storage_mode, StorageInv, LockShape, Inside, Threads
  <2>2. ASSUME NEW ssd \in BOOLEAN, ata_set_storage_mode(ssd)
        PROVE  PowerShape'
    BY <2>1, <2>2 DEF ata_set_storage_mode, StorageInv, PowerShape, flags, hardware
  <2>3. CASE BacklightOff \/ backlight_on \/ storage_sleep
    BY <2>3 DEF BacklightOff, backlight_on, storage_sleep, StorageInv, PowerShape, flags, hardware
  <2> QED
    BY <1>18, <2>2, <2>3 DEF Environment
<1>19. CASE BecomesIdle \/ BecomesLong
  BY <1>19 DEF BecomesIdle, BecomesLong, StorageInv, TypeOK, ControlTypes,
     LockShape, OpShape, PowerShape, FlagsTrue, NobodyPowering, NeedsInit, Ready,
     Inside, Threads, Accesses, Wakes, flags, hardware, lock, world
<1> QED
  BY <1>1, <1>2, <1>3, <1>4, <1>5, <1>6, <1>7, <1>8, <1>9, <1>10, <1>11, <1>12,
     <1>13, <1>14, <1>15, <1>16, <1>17, <1>18, <1>19 DEF Next, Step
(* The flags say what the hardware is: whoever is inside alone changes    *)
(* them, and does so for both.                                             *)
LEMMA FlagsStep ==
    ASSUME StorageInv, ~Switching, failures' = 0, Next
    PROVE  FlagsTrue'
<1>1. ASSUME NEW t \in Threads, Acquire(t)
      PROVE  FlagsTrue'
  BY <1>1 DEF Acquire, StorageInv, TypeOK, ControlTypes, LockShape, OpShape,
     PowerShape, FlagsTrue, NobodyPowering, NeedsInit, Ready, Inside, Threads,
     Accesses, Wakes, flags, hardware, lock, world
<1>2. ASSUME NEW t \in Threads, FindAsleep(t)
      PROVE  FlagsTrue'
  BY <1>2 DEF FindAsleep, ata_power_up, Powered, AfterPowerUp, ata_set_active,
     Return, Goto, StorageInv, TypeOK, ControlTypes, LockShape, OpShape,
     PowerShape, FlagsTrue, NobodyPowering, NeedsInit, Ready, Inside, Threads,
     Accesses, Wakes, flags, hardware, lock, world
<1>3. ASSUME NEW t \in Threads, FindAwake(t)
      PROVE  FlagsTrue'
  BY <1>3 DEF FindAwake, ata_set_active, Return, Goto, StorageInv, TypeOK,
     ControlTypes, LockShape, OpShape, PowerShape, FlagsTrue, NobodyPowering,
     NeedsInit, Ready, Inside, Threads, Accesses, Wakes, flags, hardware, lock,
     world
<1>4. ASSUME NEW t \in Threads, PoweringSucceeds(t)
      PROVE  FlagsTrue'
  BY <1>4 DEF PoweringSucceeds, Powered, AfterPowerUp, ata_set_active, Return,
     Goto, StorageInv, TypeOK, ControlTypes, LockShape, OpShape, PowerShape,
     FlagsTrue, NobodyPowering, NeedsInit, Ready, Inside, Threads, Accesses,
     Wakes, flags, hardware, lock, world
<1>5. ASSUME NEW t \in Threads, PoweringFails(t)
      PROVE  FlagsTrue'
  BY <1>5, StorageAssumption DEF PoweringFails, StorageInv, TypeOK, RestTypes
<1>6. ASSUME NEW t \in Threads, CoolingEnds(t)
      PROVE  FlagsTrue'
  BY <1>6 DEF CoolingEnds, ata_power_up, Powered, AfterPowerUp, ata_set_active,
     Return, Goto, StorageInv, TypeOK, ControlTypes, LockShape, OpShape,
     PowerShape, FlagsTrue, NobodyPowering, NeedsInit, Ready, Inside, Threads,
     Accesses, Wakes, flags, hardware, lock, world
<1>7. ASSUME NEW t \in Threads, TransferDone(t)
      PROVE  FlagsTrue'
  BY <1>7 DEF TransferDone, ata_set_active, Return, StorageInv, TypeOK,
     ControlTypes, LockShape, OpShape, PowerShape, FlagsTrue, NobodyPowering,
     NeedsInit, Ready, Inside, Threads, Accesses, Wakes, flags, hardware, lock,
     world
<1>8. ASSUME NEW t \in Threads, TransferFails(t)
      PROVE  FlagsTrue'
  BY <1>8 DEF TransferFails, ata_power_up, Powered, AfterPowerUp, ata_set_active,
     Return, Goto, StorageInv, TypeOK, ControlTypes, LockShape, OpShape,
     PowerShape, FlagsTrue, NobodyPowering, NeedsInit, Ready, Inside, Threads,
     Accesses, Wakes, flags, hardware, lock, world
<1>9. ASSUME NEW t \in Threads, GiveUp(t)
      PROVE  FlagsTrue'
  BY <1>9 DEF GiveUp, Return, StorageInv, TypeOK, ControlTypes, LockShape,
     OpShape, PowerShape, FlagsTrue, NobodyPowering, NeedsInit, Ready, Inside,
     Threads, Accesses, Wakes, flags, hardware, lock, world
<1>10. ASSUME NEW t \in Threads, SoftResetDone(t)
       PROVE  FlagsTrue'
  BY <1>10 DEF SoftResetDone, ata_set_active, Goto, StorageInv, TypeOK,
     ControlTypes, LockShape, OpShape, PowerShape, FlagsTrue, NobodyPowering,
     NeedsInit, Ready, Inside, Threads, Accesses, Wakes, flags, hardware, lock,
     world
<1>11. ASSUME NEW t \in Threads, SoftResetFails(t)
       PROVE  FlagsTrue'
  BY <1>11 DEF SoftResetFails, ata_power_up, Powered, AfterPowerUp,
     ata_set_active, Return, Goto, StorageInv, TypeOK, ControlTypes, LockShape,
     OpShape, PowerShape, FlagsTrue, NobodyPowering, NeedsInit, Ready, Inside,
     Threads, Accesses, Wakes, flags, hardware, lock, world
<1>12. ASSUME NEW t \in Threads, DeepSleep(t)
       PROVE  FlagsTrue'
  BY <1>12 DEF DeepSleep, StillAsleep, Return, StorageInv, TypeOK, ControlTypes,
     LockShape, OpShape, PowerShape, FlagsTrue, NobodyPowering, NeedsInit, Ready,
     Inside, Threads, Accesses, Wakes, flags, hardware, lock, world
<1>13. ASSUME NEW t \in Threads, SleepNow(t)
       PROVE  FlagsTrue'
  BY <1>13 DEF SleepNow, Goto, StorageInv, TypeOK, ControlTypes, LockShape,
     OpShape, PowerShape, FlagsTrue, NobodyPowering, NeedsInit, Ready, Inside,
     Threads, Accesses, Wakes, flags, hardware, lock, world
<1>14. ASSUME NEW t \in Threads, FlushDone(t)
       PROVE  FlagsTrue'
  BY <1>14 DEF FlushDone, ata_flush_cache, ata_power_down, Return, Goto,
     StorageInv, TypeOK, ControlTypes, LockShape, OpShape, PowerShape, FlagsTrue,
     NobodyPowering, NeedsInit, Ready, Inside, Threads, Accesses, Wakes, flags,
     hardware, lock, world
<1>15. ASSUME NEW t \in Threads, StandbyDone(t)
       PROVE  FlagsTrue'
  BY <1>15 DEF StandbyDone, ata_power_down, Return, StorageInv, TypeOK,
     ControlTypes, LockShape, OpShape, PowerShape, FlagsTrue, NobodyPowering,
     NeedsInit, Ready, Inside, Threads, Accesses, Wakes, flags, hardware, lock,
     world
<1>16. ASSUME NEW t \in Users, UserCall(t)
       PROVE  FlagsTrue'
  BY <1>16, StorageAssumption DEF UserCall, ata_read_write_sectors, ata_spin,
     ata_set_active, Call, StorageInv, TypeOK, ControlTypes, LockShape, OpShape,
     PowerShape, FlagsTrue, NobodyPowering, NeedsInit, Ready, Inside, Threads,
     Accesses, Wakes, flags, hardware, lock, world
<1>17. CASE StorageEvent
  BY <1>17 DEF StorageEvent, TickSleeps, TickDeepens, HandleSleep, HandlePreWake,
     ata_set_active, Call, StorageInv, TypeOK, ControlTypes, LockShape, OpShape,
     PowerShape, FlagsTrue, NobodyPowering, NeedsInit, Ready, Inside, Threads,
     Accesses, Wakes, flags, hardware, lock, world
<1>18. CASE Environment
  BY <1>18 DEF Environment, BacklightOff, backlight_on, storage_sleep,
     ata_set_storage_mode, StorageInv, TypeOK, ControlTypes, LockShape, OpShape,
     PowerShape, FlagsTrue, NobodyPowering, NeedsInit, Ready, Inside, Threads,
     Accesses, Wakes, flags, hardware, lock, world
<1>19. CASE BecomesIdle \/ BecomesLong
  BY <1>19 DEF BecomesIdle, BecomesLong, StorageInv, TypeOK, ControlTypes,
     LockShape, OpShape, PowerShape, FlagsTrue, NobodyPowering, NeedsInit, Ready,
     Inside, Threads, Accesses, Wakes, flags, hardware, lock, world
<1> QED
  BY <1>1, <1>2, <1>3, <1>4, <1>5, <1>6, <1>7, <1>8, <1>9, <1>10, <1>11, <1>12,
     <1>13, <1>14, <1>15, <1>16, <1>17, <1>18, <1>19 DEF Next, Step
-----------------------------------------------------------------------------
(* The theorems *)

LEMMA StorageInit == Init => StorageInv
<1> SUFFICES ASSUME Init
             PROVE  StorageInv
  OBVIOUS
<1>1. DriverTypes /\ ControlTypes
  BY DEF Init, DriverTypes, ControlTypes, Places
<1>2. RestTypes
  <2>1. events \in Seq({"SLEEP", "PRE_WAKE"}) /\ Len(events) <= MaxEvents
    BY StorageAssumption DEF Init
  <2>2. tries \in 0..(Retries + 1) /\ failures \in 0..MaxFailures
    BY StorageAssumption DEF Init
  <2> QED
    BY <2>1, <2>2 DEF Init, RestTypes
<1>3. LockShape /\ OpShape
  BY DEF Init, LockShape, OpShape, Inside, Accesses, Wakes
<1>4. FlagsTrue /\ PowerShape
  BY DEF Init, FlagsTrue, PowerShape, Ready
<1> QED
  BY <1>1, <1>2, <1>3, <1>4 DEF StorageInv, TypeOK

(* What the driver believes of the disk is so, whatever its users, the     *)
(* storage thread and the backlight do, and however often transfers fail.  *)
THEOREM StorageInvInductive ==
    ASSUME ~Switching
    PROVE  Spec => []StorageInv
<1>1. StorageInv /\ [Next]_vars => StorageInv'
  <2>1. ASSUME StorageInv, Next
        PROVE  StorageInv'
    <3>1. TypeOK' /\ LockShape' /\ OpShape'
      BY <2>1, TypeStep, LockStep, OpStep DEF StorageInv
    <3>2. ASSUME failures' = 0
          PROVE  FlagsTrue' /\ PowerShape'
      BY <2>1, <3>2, FlagsStep, PowerStep
    <3> QED
      BY <3>1, <3>2 DEF StorageInv
  <2>2. ASSUME StorageInv, UNCHANGED vars
        PROVE  StorageInv'
    <3>1. TypeOK' /\ LockShape' /\ OpShape'
      BY <2>2 DEF StorageInv, TypeOK, DriverTypes, ControlTypes, RestTypes, LockShape,
         Inside, OpShape, vars, flags, hardware, times, lock, world
    <3>2. ASSUME failures' = 0
          PROVE  FlagsTrue' /\ PowerShape'
      BY <2>2, <3>2 DEF StorageInv, FlagsTrue, PowerShape, NobodyPowering, NeedsInit,
         Ready, vars, flags, hardware, lock, world
    <3> QED
      BY <3>1, <3>2 DEF StorageInv
  <2> QED
    BY <2>1, <2>2
<1> QED
  BY StorageInit, <1>1, PTL DEF Spec

(* A transfer, a flush or a STANDBY IMMEDIATE is sent to a drive that has  *)
(* power, a clock and its settings (ata_transfer_sectors, ata_sleepnow).   *)
THEOREM StorageCommandsReachReadyDrive ==
    ASSUME ~Switching
    PROVE  Spec => []CommandsReachReadyDrive
<1>1. ASSUME StorageInv
      PROVE  CommandsReachReadyDrive
  <2> SUFFICES ASSUME failures = 0, NEW t \in Threads,
                      pc[t] \in {"chunk", "flushing", "standby"}
               PROVE  Ready
    BY DEF CommandsReachReadyDrive
  <2>1. ata_powered
    BY <1>1 DEF StorageInv, PowerShape
  <2>2. NobodyPowering
    BY <1>1 DEF StorageInv, LockShape, Inside, NobodyPowering
  <2> QED
    BY <1>1, <2>1, <2>2 DEF StorageInv, FlagsTrue
<1> QED
  BY <1>1, StorageInvInductive, PTL

(* What was written has been flushed before the disk sleeps, in either     *)
(* mode: ata_power_down and the deep sleep cut the power without asking.   *)
THEOREM StorageAsleepClean ==
    ASSUME ~Switching
    PROVE  Spec => []AsleepClean
<1>1. StorageInv => AsleepClean
  BY DEF StorageInv, FlagsTrue, AsleepClean
<1> QED
  BY <1>1, StorageInvInductive, PTL

(* Every path through the driver that starts with mutex_lock(&ata_mutex)   *)
(* ends with it unlocked, except where a power-up fails.                   *)
THEOREM StorageLockReleased ==
    ASSUME ~Switching
    PROVE  Spec => []LockReleased
<1>1. ASSUME StorageInv, failures = 0, owner # None
      PROVE  pc[owner] \notin {"idle", "locking"}
  <2>1. depth \in Nat /\ depth # 0
    BY <1>1 DEF StorageInv, TypeOK, ControlTypes, LockShape
  <2>2. ~(depth <= failures)
    BY <1>1, <2>1
  <2>3. PICK t \in Threads : Inside(t)
    BY <1>1, <2>2 DEF StorageInv, LockShape
  <2> QED
    BY <1>1, <2>3 DEF StorageInv, LockShape, Inside
<1>2. StorageInv => LockReleased
  BY <1>1 DEF LockReleased
<1> QED
  BY <1>2, StorageInvInductive, PTL
=============================================================================
