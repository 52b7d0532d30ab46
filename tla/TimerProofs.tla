------------------------------ MODULE TimerProofs ------------------------------
(***************************************************************************)
(* Theorems about Timer, for a counter of any width, any durations and     *)
(* whatever the boot ROM has left in the timer's registers.                *)
(***************************************************************************)
EXTENDS Timer, TLAPS

Words == 0..(WordSize - 1)

USE DEF Words

(* Wrapping addition, without division.                                    *)
LEMMA Wrapped ==
    ASSUME NEW x \in Nat, x < 2 * WordSize
    PROVE  x % WordSize = IF x < WordSize THEN x ELSE x - WordSize
  <1> DEFINE q == x \div WordSize
             r == x % WordSize
  <1>1. q \in Nat /\ r \in 0..(WordSize - 1) /\ x = WordSize * q + r
    BY WordAssumption
  <1>2. CASE q = 0
    BY <1>1, <1>2, WordAssumption
  <1>3. CASE q = 1
    BY <1>1, <1>3, WordAssumption
  <1>4. CASE q >= 2
    <2>1. WordSize * q >= WordSize * 2
      BY <1>1, <1>4, WordAssumption
    <2> QED  BY <2>1, <1>1, WordAssumption
  <1> QED  BY <1>1, <1>2, <1>3, <1>4

LEMMA TargetWrapped ==
    ASSUME NEW n \in Words, NEW d \in Words
    PROVE  Target(n, d) = IF n + d < WordSize THEN n + d ELSE n + d - WordSize
  <1> DEFINE x == n + d
  <1>1. x \in Nat /\ x < 2 * WordSize
    BY WordAssumption
  <1>2. Target(n, d) = x % WordSize
    BY DEF Target
  <1> HIDE DEF x
  <1>3. x % WordSize = IF x < WordSize THEN x ELSE x - WordSize
    BY <1>1, Wrapped
  <1> QED  BY <1>2, <1>3, WordAssumption DEF x

LEMMA TickWrapped ==
    ASSUME NEW t \in Words
    PROVE  (t + 1) % WordSize = IF t + 1 < WordSize THEN t + 1 ELSE t + 1 - WordSize
  <1> DEFINE x == t + 1
  <1>1. x \in Nat /\ x < 2 * WordSize
    BY WordAssumption
  <1> HIDE DEF x
  <1>2. x % WordSize = IF x < WordSize THEN x ELSE x - WordSize
    BY <1>1, Wrapped
  <1> QED  BY <1>2, WordAssumption DEF x

LEMMA AlarmIrqsAre == AlarmIrqs = {1, 2, 3}
  BY DEF AlarmIrqs, Selected, WindowSelect, FirstIrq

LEMMA PeriodRange == \A p \in Periods : p \in Nat /\ Latency \in Nat /\ Latency < p
  BY PeriodAssumption

----
(* Type correctness.                                                       *)

LEMMA TypeInitial == Init => TypeOK
  <1> SUFFICES ASSUME Init PROVE TypeOK
    OBVIOUS
  <1>1. Garbage \subseteq Words /\ 0 \in Words
    BY GarbageAssumption, WordAssumption
  <1>2. target \in [Alarms -> Words]
    BY <1>1 DEF Init
  <1>3. forced \subseteq {FirstIrq + a : a \in Alarms}
    BY DEF Init, FirstIrq, Alarm1, Alarms
  <1> QED  BY <1>1, <1>2, <1>3 DEF Init, TypeOK, BootPCs

LEMMA TypeStep == TypeOK /\ [Next]_vars => TypeOK'
  <1> SUFFICES ASSUME TypeOK, [Next]_vars PROVE TypeOK'
    OBVIOUS
  <1> USE DEF TypeOK, BootPCs, timerVars
  <1>1. CASE StartTicks
    BY <1>1 DEF StartTicks
  <1>2. CASE ResetTimer
    BY <1>2, WordAssumption DEF ResetTimer
  <1>3. CASE EnableIrqs
    BY <1>3, AlarmIrqsAre DEF EnableIrqs, FirstIrq, Alarms
  <1>4. CASE EnableAlarms
    BY <1>4 DEF EnableAlarms, ClearBits, SetBits
  <1>5. CASE CheckDuration
    BY <1>5 DEF CheckDuration
  <1>6. CASE ReadNow
    BY <1>6 DEF ReadNow
  <1>7. CASE ArmAlarm
    <2>1. Target(now, period) \in Words /\ 0 \in Words
      BY PeriodRange, WordAssumption DEF Target
    <2> QED  BY <1>7, <2>1 DEF ArmAlarm, Follow, ClearBits, Alarms, Alarm1
  <1>8. CASE Trap
    BY <1>8 DEF Trap, Follow
  <1>9. CASE ClearAlarmEvent
    BY <1>9 DEF ClearAlarmEvent, Follow, ClearBits
  <1>10. CASE Tick
    <2>1. (time + 1) % WordSize \in Words
      BY WordAssumption
    <2> QED  BY <1>10, <2>1 DEF Tick, cpuVars
  <1>11. CASE UNCHANGED vars
    BY <1>11 DEF vars, cpuVars, timerVars
  <1> QED
    BY <1>1, <1>2, <1>3, <1>4, <1>5, <1>6, <1>7, <1>8, <1>9, <1>10, <1>11
    DEF Next, Cpu, SetAlarm

(* The counter, the alarms and the set of interrupts keep to their widths. *)
THEOREM TypeCorrect == Spec => []TypeOK
  BY TypeInitial, TypeStep, PTL DEF Spec

----
(* The life of the alarm.  From the reset to the first set_alarm, and from *)
(* the clearing of the event to the next, nothing is armed and no event is *)
(* pending; otherwise exactly one of the two.  The distance from the       *)
(* counter to the target, around the end of the word, is the rest of the   *)
(* duration.                                                               *)

Early == {"ticks", "reset"}
Quiet == {"irqs", "alarms", "duration", "now", "arm", "panic"}

(* What init_alarms has established where it has come so far.              *)
BootInv ==
    /\ forced \subseteq {Alarm1}
    /\ pc \notin Early => intf = {}
    /\ pc \notin Early \cup {"irqs"} => forced = {} /\ Alarm1 \in irqs
    /\ Booted => inte = Alarms

(* x is d ahead of y, on a counter that wraps.                             *)
Ahead(x, y, d) == x = y + d \/ x = y + d - WordSize

Waiting ==
    /\ armed = {Alarm1} /\ intr = {}
    /\ age < period /\ period < WordSize
    /\ Ahead(target[Alarm1], time, period - age)

Fired == armed = {} /\ intr = {Alarm1}

AlarmInv ==
    /\ pc \in Quiet => armed = {} /\ intr = {}
    /\ pc \in {"now", "arm"} => period < WordSize
    /\ pc = "arm" => age <= Latency /\ Ahead(time, now, age)
    /\ pc = "main" => Waiting \/ Fired
    /\ pc = "event" => Fired
    /\ pc = "panic" => period >= WordSize

TimerInv == TypeOK /\ BootInv /\ AlarmInv

LEMMA InvInitial == Init => TimerInv
  BY TypeInitial
  DEF Init, TimerInv, BootInv, AlarmInv, Early, Quiet, Booted, BootPCs, FirstIrq, Alarm1

(* Only the alarm's own interrupt reaches the core, once its event is      *)
(* there.                                                                  *)
LEMMA OnlyAlarm1 ==
    ASSUME TimerInv, pc = "main"
    PROVE  PendingIrqs = IF Fired THEN {Alarm1} ELSE {}
  BY DEF TimerInv, TypeOK, BootInv, AlarmInv, Early, Booted, BootPCs, Waiting, Fired,
         PendingIrqs, Ints, FirstIrq, Alarm1, Alarms

LEMMA BootStep == TimerInv /\ [Next]_vars => BootInv'
  <1> SUFFICES ASSUME TimerInv, [Next]_vars PROVE BootInv'
    OBVIOUS
  <1> USE DEF BootInv, Early, Booted, BootPCs, timerVars
  <1>0. BootInv /\ TypeOK
    BY DEF TimerInv
  <1>1. CASE StartTicks
    BY <1>0, <1>1 DEF StartTicks
  <1>2. CASE ResetTimer
    BY <1>0, <1>2 DEF ResetTimer
  <1>3. CASE EnableIrqs
    BY <1>0, <1>3, AlarmIrqsAre DEF EnableIrqs, Alarm1
  <1>4. CASE EnableAlarms
    BY <1>0, <1>4 DEF EnableAlarms, ClearBits, SetBits, TypeOK
  <1>5. CASE CheckDuration
    BY <1>0, <1>5 DEF CheckDuration
  <1>6. CASE ReadNow
    BY <1>0, <1>6 DEF ReadNow
  <1>7. CASE ArmAlarm
    BY <1>0, <1>7 DEF ArmAlarm, Follow, ClearBits
  <1>8. CASE Trap
    BY <1>0, <1>8 DEF Trap, Follow
  <1>9. CASE ClearAlarmEvent
    BY <1>0, <1>9 DEF ClearAlarmEvent, Follow
  <1>10. CASE Tick
    BY <1>0, <1>10 DEF Tick, cpuVars
  <1>11. CASE UNCHANGED vars
    BY <1>0, <1>11 DEF vars, cpuVars, timerVars
  <1> QED
    BY <1>1, <1>2, <1>3, <1>4, <1>5, <1>6, <1>7, <1>8, <1>9, <1>10, <1>11
    DEF Next, Cpu, SetAlarm

(* The alarm is set while the counter is at most Latency past what was     *)
(* read, so the target is still ahead.                                     *)
LEMMA ArmedAhead ==
    ASSUME TimerInv, ArmAlarm
    PROVE  Waiting'
  <1>1. /\ period \in Nat /\ period < WordSize /\ age \in Nat /\ age < period
        /\ now \in Words /\ time \in Words /\ Ahead(time, now, age)
    BY PeriodRange DEF TimerInv, TypeOK, AlarmInv, ArmAlarm
  <1>2. armed = {} /\ intr = {}
    BY DEF TimerInv, AlarmInv, Quiet, ArmAlarm
  <1>3. Target(now, period)
            = IF now + period < WordSize THEN now + period ELSE now + period - WordSize
    BY <1>1, WordAssumption, TargetWrapped
  <1>4. Ahead(Target(now, period), time, period - age)
    BY <1>1, <1>3, WordAssumption DEF Ahead
  <1>5. target'[Alarm1] = Target(now, period)
    BY DEF ArmAlarm, TimerInv, TypeOK, Alarms, Alarm1
  <1> QED
    BY <1>1, <1>2, <1>4, <1>5 DEF ArmAlarm, Waiting, Ahead

(* A tick takes the counter one closer to the target, which it reaches     *)
(* when the duration is over and not before.                               *)
LEMMA TickCloser ==
    ASSUME TimerInv, Tick, Waiting
    PROVE  /\ age' = age + 1
           /\ IF age' = period THEN Fired' ELSE Waiting'
  <1> DEFINE t == (time + 1) % WordSize
             fired == {a \in armed : target[a] = t}
  <1>1. /\ period \in Nat /\ period < WordSize /\ age \in Nat /\ age < period
        /\ time \in Words /\ target[Alarm1] \in Words
        /\ Ahead(target[Alarm1], time, period - age)
    BY PeriodRange DEF TimerInv, TypeOK, Waiting, Alarms, Alarm1
  <1>2. age' = age + 1
    BY DEF Tick, Waiting
  <1>3. t = IF time + 1 < WordSize THEN time + 1 ELSE 0
    <2>1. t = IF time + 1 < WordSize THEN time + 1 ELSE time + 1 - WordSize
      BY <1>1, TickWrapped
    <2> HIDE DEF t
    <2> QED  BY <2>1, <1>1, WordAssumption
  <1>4. time' = t /\ armed' = armed \ fired /\ intr' = intr \cup fired
        /\ UNCHANGED <<period, target>>
    BY DEF Tick, cpuVars
  <1> HIDE DEF t
  <1>5. CASE target[Alarm1] = t
    <2>1. age + 1 = period
      BY <1>1, <1>3, <1>5, WordAssumption DEF Ahead
    <2>2. fired = {Alarm1}
      BY <1>5 DEF Waiting
    <2> QED  BY <1>2, <1>4, <2>1, <2>2 DEF Fired, Waiting
  <1>6. CASE target[Alarm1] # t
    <2>1. age + 1 < period
      BY <1>1, <1>3, <1>6, WordAssumption DEF Ahead
    <2>2. fired = {}
      BY <1>6 DEF Waiting
    <2>3. Ahead(target[Alarm1], t, period - (age + 1))
      BY <1>1, <1>3, <1>6, <2>1, WordAssumption DEF Ahead
    <2> QED  BY <1>1, <1>2, <1>4, <2>1, <2>2, <2>3 DEF Fired, Waiting, Ahead
  <1> QED  BY <1>5, <1>6

LEMMA AlarmStep == TimerInv /\ [Next]_vars => AlarmInv'
  <1> SUFFICES ASSUME TimerInv, [Next]_vars PROVE AlarmInv'
    OBVIOUS
  <1>0. AlarmInv /\ BootInv /\ TypeOK
    BY DEF TimerInv
  <1> USE DEF AlarmInv, Quiet, timerVars
  <1>1. CASE StartTicks
    BY <1>0, <1>1 DEF StartTicks
  <1>2. CASE ResetTimer
    BY <1>0, <1>2 DEF ResetTimer
  <1>3. CASE EnableIrqs
    BY <1>0, <1>3 DEF EnableIrqs
  <1>4. CASE EnableAlarms
    BY <1>0, <1>4 DEF EnableAlarms
  <1>5. CASE CheckDuration
    <2>1. period \in Nat
      BY <1>0, PeriodRange DEF TypeOK
    <2> QED  BY <1>0, <1>5, <2>1, WordAssumption DEF CheckDuration
  <1>6. CASE ReadNow
    BY <1>0, <1>6, PeriodAssumption DEF ReadNow, Ahead, TypeOK
  <1>7. CASE ArmAlarm
    <2>1. pc' = "main"
      BY <1>7 DEF ArmAlarm, Follow
    <2> QED  BY <1>7, <2>1, ArmedAhead
  <1>8. CASE Trap
    <2>1. pc = "main" /\ UNCHANGED <<period, now, time, target, armed, intr, age>>
      BY <1>8 DEF Trap, timerVars
    <2>2. Fired /\ pc' = "event"
      BY <1>8, <2>1, OnlyAlarm1 DEF Trap, Follow, Alarm1
    <2> QED  BY <2>1, <2>2 DEF Fired
  <1>9. CASE ClearAlarmEvent
    BY <1>0, <1>9 DEF ClearAlarmEvent, Follow, ClearBits, Fired
  <1>10. CASE Tick
    <2>1. UNCHANGED <<pc, period, now>>
      BY <1>10 DEF Tick, cpuVars
    <2>2. CASE pc = "main" /\ Waiting
      BY <1>10, <2>1, <2>2, TickCloser
    <2>3. armed = {} => UNCHANGED <<armed, intr>>
      BY <1>10 DEF Tick
    <2>4. CASE pc \in {"main", "event"} /\ Fired
      BY <2>1, <2>3, <2>4 DEF Fired
    <2>5. CASE pc \in Quiet /\ pc # "arm"
      BY <1>0, <2>1, <2>3, <2>5
    <2>6. CASE pc = "arm"
      <3>1. age < Latency /\ age' = age + 1 /\ time' = (time + 1) % WordSize
        BY <1>10, <2>6 DEF Tick
      <3>2. /\ age \in Nat /\ Latency \in Nat /\ period \in Nat
            /\ time \in Words /\ now \in Words /\ Ahead(time, now, age)
            /\ age < period /\ period < WordSize
        BY <1>0, <2>6, <3>1, PeriodRange DEF TypeOK
      <3>3. time' = IF time + 1 < WordSize THEN time + 1 ELSE time + 1 - WordSize
        BY <3>1, <3>2, TickWrapped
      <3>4. Ahead(time', now, age')
        BY <3>1, <3>2, <3>3, WordAssumption DEF Ahead
      <3> QED  BY <1>0, <2>1, <2>3, <2>6, <3>1, <3>2, <3>4 DEF Ahead
    <2>7. CASE pc \in Early
      BY <2>1, <2>7 DEF Early
    <2> QED
      BY <1>0, <2>2, <2>4, <2>5, <2>6, <2>7 DEF TypeOK, BootPCs, Early
  <1>11. CASE UNCHANGED vars
    BY <1>0, <1>11 DEF vars, cpuVars, timerVars, Waiting, Fired, Ahead
  <1> QED
    BY <1>1, <1>2, <1>3, <1>4, <1>5, <1>6, <1>7, <1>8, <1>9, <1>10, <1>11
    DEF Next, Cpu, SetAlarm

LEMMA InvInductive == Spec => []TimerInv
  <1>1. TimerInv /\ [Next]_vars => TimerInv'
    BY TypeStep, BootStep, AlarmStep DEF TimerInv
  <1> QED  BY <1>1, InvInitial, PTL DEF Spec

----
(* The heartbeat cannot be lost, for a counter of any width: outside       *)
(* set_alarm the alarm is armed and its time has not come, or its          *)
(* interrupt is pending.                                                   *)
THEOREM AlarmNeverSilent == Spec => []NeverSilent
  <1>1. TimerInv => NeverSilent
    <2> SUFFICES ASSUME TimerInv, pc \in {"main", "event"} PROVE NeverSilent
      BY DEF NeverSilent
    <2>1. Waiting \/ Fired
      BY DEF TimerInv, AlarmInv
    <2>2. CASE Waiting
      BY <2>2 DEF NeverSilent, Waiting
    <2>3. CASE Fired
      <3>1. Alarm1 \in Ints /\ Alarm1 \in irqs
        BY <2>3 DEF TimerInv, BootInv, Fired, Ints, Early, Booted, BootPCs, Alarms, Alarm1
      <3> QED
        BY <2>3, <3>1 DEF NeverSilent, Fired, PendingIrqs, FirstIrq, Alarm1
    <2> QED  BY <2>1, <2>2, <2>3
  <1> QED  BY <1>1, InvInductive, PTL

(* The assertion of timer_trap_handler never fails, whatever the boot ROM  *)
(* has left armed, pending or forced.                                      *)
THEOREM OnlyTooFarPanics == Spec => []PanicsTooFar
  <1>1. TimerInv => PanicsTooFar
    BY DEF TimerInv, AlarmInv, PanicsTooFar
  <1> QED  BY <1>1, InvInductive, PTL

(* An alarm goes off when its duration is over, neither early nor late by  *)
(* a wrap of the counter, for a counter of any width.                      *)
THEOREM AlarmsOnTime == Spec => AlarmOnTime
  <1>1. TimerInv /\ [Next]_vars
            => [Booted /\ Alarm1 \notin intr /\ Alarm1 \in intr' => age' = period]_vars
    <2> SUFFICES ASSUME TimerInv, Next, Booted, Alarm1 \notin intr, Alarm1 \in intr'
                 PROVE  age' = period
      OBVIOUS
    <2>1. Tick
      BY DEF Next, Cpu, SetAlarm, StartTicks, ResetTimer, EnableIrqs, EnableAlarms,
             CheckDuration, ReadNow, ArmAlarm, Trap, ClearAlarmEvent, ClearBits,
             timerVars, Booted, BootPCs
    <2>2. armed # {}
      BY <2>1 DEF Tick
    <2>3. Waiting
      BY <2>2 DEF TimerInv, TypeOK, AlarmInv, Quiet, Booted, BootPCs, Fired
    <2>4. ~Waiting'
      BY DEF Waiting
    <2> QED  BY <2>1, <2>3, <2>4, TickCloser
  <1> QED  BY <1>1, InvInductive, PTL DEF Spec, AlarmOnTime

==============================================================================
