-------------------------------- MODULE Timer --------------------------------
(***************************************************************************)
(* The alarms of src/src/timer.rs as src/src/main.rs uses them: alarm 1    *)
(* interrupts, and its handler clears the event and sets the alarm again.  *)
(* Alarms compare with the low word of a counter that goes on meanwhile,   *)
(* and wraps.                                                              *)
(***************************************************************************)
EXTENDS Registers

CONSTANTS
    WordSize,  \* values of the low word of the counter: 2^32 in the code
    Periods,   \* durations, in ticks, that enable_timer may pass: 1 000 000 in the code
    Latency,   \* most ticks between the read of the counter and the write of the alarm
    Garbage    \* targets the boot ROM may leave in the alarm registers

ASSUME WordAssumption == WordSize \in Nat \ {0}

\* The two accesses of set_alarm are much closer together than the duration.
ASSUME PeriodAssumption ==
    Periods \subseteq Nat /\ Latency \in Nat /\ \A p \in Periods : Latency < p

ASSUME GarbageAssumption == Garbage \subseteq 0..(WordSize - 1)

VARIABLES
    pc,       \* where the CPU is in main, timer_trap_handler or set_alarm
    period,   \* the duration
    now,      \* local now_lower of set_alarm
    time,     \* the low word of the counter
    ticking,  \* the tick generator is enabled
    target,   \* the ALARM registers
    armed,    \* ARMED
    intr,     \* INTR
    inte,     \* INTE
    intf,     \* INTF
    irqs,     \* MEIEA: the IRQs of the timer that are enabled
    forced,   \* MEIFA: the IRQs of the timer that are forced
    age       \* ghost: ticks since the last set_alarm has read the counter

cpuVars == <<pc, period, now, irqs, forced>>
timerVars == <<time, ticking, target, armed, intr, inte, intf>>
vars == <<cpuVars, timerVars, age>>

Alarms == 0..3
Alarm1 == 1
FirstIrq == 0  \* first_irq_num of TIMER0

(* INTS.                                                                   *)
Ints == (intr \cup intf) \cap inte

(* The IRQs that are asserted and enabled.                                 *)
PendingIrqs == (forced \cup {FirstIrq + a : a \in Ints}) \cap irqs

(* A faulty variant of AlarmIrqs: the interrupt of alarm 0 only.           *)
AlarmIrqsFirst == Selected(WindowSelect(FirstIrq, {0}))

(* The mask of enable_alarm_interrupts leaves alarm 0 out.                 *)
AlarmIrqs == Selected(WindowSelect(FirstIrq, {1, 2, 3}))

(* Faulty variants of Target: an addition that saturates, and one of more  *)
(* than 32 bits.                                                           *)
TargetSaturating(n, d) == IF n + d < WordSize THEN n + d ELSE WordSize - 1

TargetUnwrapped(n, d) == n + d

(* now_lower.wrapping_add(target_diff).                                    *)
Target(n, d) == (n + d) % WordSize

(* A faulty variant of Follow: the event is cleared after the alarm is set *)
(* again.                                                                  *)
FollowClearLast == [ trap |-> "duration", arm |-> "event", event |-> "main" ]

(* What follows a step: timer_trap_handler clears the event, and then both *)
(* it and main call enable_timer.                                          *)
Follow == [ trap |-> "event", event |-> "duration", arm |-> "main" ]

Init ==
    /\ pc = "ticks"
    /\ period \in Periods
    /\ now = 0 /\ age = 0
    /\ time \in Garbage
    /\ ticking \in BOOLEAN
    /\ target \in {[a \in Alarms |-> g] : g \in Garbage}
    /\ armed \in {{}, Alarms} /\ intr \in {{}, Alarms}
    /\ inte \in {{}, Alarms} /\ intf = {}
    /\ irqs = {} /\ forced \in SUBSET {FirstIrq + Alarm1}

----
(* init_alarms.                                                            *)

(* TickGenerator::enable, the three writes of which nothing reads.         *)
StartTicks ==
    /\ pc = "ticks"
    /\ pc' = "reset"
    /\ ticking' = TRUE
    /\ UNCHANGED <<period, now, irqs, forced, time, target, armed, intr, inte, intf, age>>

(* A faulty variant of ResetTimer: the reset is never asserted.            *)
ResetTimerNever ==
    /\ pc = "reset"
    /\ pc' = "irqs"
    /\ UNCHANGED <<period, now, irqs, forced, timerVars, age>>

(* Timer::reset.                                                           *)
ResetTimer ==
    /\ pc = "reset"
    /\ pc' = "irqs"
    /\ time' = 0
    /\ target' = [a \in Alarms |-> 0]
    /\ armed' = {} /\ intr' = {} /\ inte' = {} /\ intf' = {}
    /\ UNCHANGED <<period, now, irqs, forced, ticking, age>>

(* enable_alarm_interrupts.                                                *)
EnableIrqs ==
    /\ pc = "irqs"
    /\ pc' = "alarms"
    /\ irqs' = irqs \cup AlarmIrqs
    /\ forced' = forced \ AlarmIrqs
    /\ UNCHANGED <<period, now, timerVars, age>>

(* The rest of enable_alarms.                                              *)
EnableAlarms ==
    /\ pc = "alarms"
    /\ pc' = "duration"
    /\ intf' = ClearBits(intf, Alarms)
    /\ inte' = SetBits(inte, Alarms)
    /\ UNCHANGED <<period, now, irqs, forced, time, ticking, target, armed, intr, age>>

----
(* enable_timer, called by main and by the handler.                        *)

(* set_alarm: the duration fits in a word, or the caller's expect panics.  *)
CheckDuration ==
    /\ pc = "duration"
    /\ pc' = IF period < WordSize THEN "now" ELSE "panic"
    /\ UNCHANGED <<period, now, irqs, forced, timerVars, age>>

ReadNow ==
    /\ pc = "now"
    /\ pc' = "arm"
    /\ now' = time
    /\ age' = 0
    /\ UNCHANGED <<period, irqs, forced, timerVars>>

(* Writing the alarm register arms the alarm.                              *)
ArmAlarm ==
    /\ pc = "arm"
    /\ pc' = Follow.arm
    /\ intf' = ClearBits(intf, {Alarm1})
    /\ target' = [target EXCEPT ![Alarm1] = Target(now, period)]
    /\ armed' = armed \cup {Alarm1}
    /\ now' = 0
    /\ UNCHANGED <<period, irqs, forced, time, ticking, intr, inte, age>>

SetAlarm == CheckDuration \/ ReadNow \/ ArmAlarm

----
(* The trap, from main, and timer_trap_handler, which asserts that the     *)
(* interrupt is alarm 1's and clears its event, by the clear alias of INTR.*)
Trap ==
    /\ pc = "main"
    /\ \E irq \in PendingIrqs : pc' = IF irq = Alarm1 THEN Follow.trap ELSE "panic"
    /\ UNCHANGED <<period, now, irqs, forced, timerVars, age>>

ClearAlarmEvent ==
    /\ pc = "event"
    /\ pc' = Follow.event
    /\ intr' = ClearBits(intr, {Alarm1})
    /\ UNCHANGED <<period, now, irqs, forced, time, ticking, target, armed, inte, intf, age>>

Cpu ==
    \/ StartTicks \/ ResetTimer \/ EnableIrqs \/ EnableAlarms
    \/ SetAlarm \/ Trap \/ ClearAlarmEvent

----
(* The counter, which is external: a tick, and the alarms that match fire  *)
(* and are disarmed.  The CPU is not held up for more than Latency ticks   *)
(* between the two accesses.                                               *)
Tick ==
    /\ ticking
    /\ pc = "arm" => age < Latency
    /\ LET t == (time + 1) % WordSize
           fired == {a \in armed : target[a] = t}
       IN  /\ time' = t
           /\ armed' = armed \ fired
           /\ intr' = intr \cup fired
    /\ age' = IF pc = "arm" \/ Alarm1 \in armed THEN age + 1 ELSE age
    /\ UNCHANGED <<cpuVars, ticking, target, inte, intf>>

Next == Cpu \/ Tick

(* Time goes on, and so does the CPU.                                      *)
Fairness == WF_vars(Cpu) /\ WF_vars(Tick)

Spec == Init /\ [][Next]_vars /\ Fairness

----
(* Properties.                                                             *)

BootPCs == {"ticks", "reset", "irqs", "alarms"}
Booted == pc \notin BootPCs

(* Type correctness.                                                       *)
TypeOK ==
    /\ pc \in BootPCs \cup {"duration", "now", "arm", "main", "event", "panic"}
    /\ period \in Periods
    /\ now \in 0..(WordSize - 1) /\ time \in 0..(WordSize - 1)
    /\ ticking \in BOOLEAN
    /\ target \in [Alarms -> 0..(WordSize - 1)]
    /\ armed \subseteq Alarms
    /\ intr \subseteq Alarms /\ inte \subseteq Alarms /\ intf \subseteq Alarms
    /\ irqs \subseteq {FirstIrq + a : a \in Alarms}
    /\ forced \subseteq {FirstIrq + a : a \in Alarms}
    /\ age \in Nat

(* An alarm that is set goes off when its duration is over, counted from   *)
(* the read of the counter in set_alarm, also when the counter or the      *)
(* target wraps: it is never late by a wrap, nor early.                    *)
AlarmOnTime ==
    [][Booted /\ Alarm1 \notin intr /\ Alarm1 \in intr' => age' = period]_vars

(* The heartbeat cannot be lost: once main has set the alarm, it is armed, *)
(* or its interrupt is pending, or the handler is on the way to set it     *)
(* again with nothing armed that it could miss.                            *)
NeverSilent ==
    pc \in {"main", "event"} =>
        \/ Alarm1 \in armed /\ age < period
        \/ Alarm1 \in intr /\ FirstIrq + Alarm1 \in PendingIrqs

(* timer_trap_handler's assertion never fails, whatever the alarms were    *)
(* left at, and expect fails for a duration that does not fit only.        *)
PanicsTooFar == pc = "panic" => period >= WordSize

(* The alarm is handled again and again.                                   *)
Heartbeat == (pc = "main") ~> (pc = "event")

==============================================================================
