----------------------------- MODULE TrapDispatch -----------------------------
(***************************************************************************)
(* Traps, as src/src/trap.rs takes them: the wrapper that saves registers, *)
(* trap_handler, which saves MCAUSE and MEPC, and the loop over MEINEXT in *)
(* handle_external_interrupt, which lets interrupts in while a handler     *)
(* runs.  The core and its interrupt controller are external.              *)
(***************************************************************************)
EXTENDS Integers, Sequences

CONSTANTS
    Irqs,        \* the interrupts that are enabled and may be asserted
    Levels,      \* the highest priority there is: 15 in the core
    Priorities,  \* what MEIPRA may hold: the code leaves it as it finds it
    MainSteps    \* places at which main may be interrupted

ASSUME IrqsAssumption == Irqs \subseteq 0..51
ASSUME PrioritiesAssumption == Levels \in Nat /\ Priorities \subseteq [Irqs -> 0..Levels]
ASSUME MainAssumption == MainSteps \in Nat \ {0}

VARIABLES
    main,      \* where main is
    frames,    \* the traps that are being handled, the innermost one last
    mie,       \* MSTATUS.MIE
    mpie,      \* MSTATUS.MPIE
    mpp,       \* MSTATUS.MPP
    mepc,      \* MEPC
    mcause,    \* MCAUSE
    context,   \* MEICONTEXT
    pending,   \* the interrupts that are asserted
    priority   \* MEIPRA

mstatus == <<mie, mpie, mpp>>
trapRegs == <<mepc, mcause>>
vars == <<main, frames, mstatus, trapRegs, context, pending, priority>>

----
(* Registers.  The wrapper keeps those a function may change, gp and tp.   *)

CallerSaved == {1} \cup 5..7 \cup 10..17 \cup 28..31

(* A faulty variant of WrapperSaved: one register less.                    *)
WrapperSavedShort == {1, 3, 4} \cup 5..7 \cup 10..17 \cup 28..30

WrapperSaved == {1, 3, 4} \cup 5..7 \cup 10..17 \cup 28..31

(* MEICONTEXT: the least priority that preempts, that of the preempted     *)
(* frame and of the one it preempted, and whether mret pops them.          *)
Context(preempt, ppreempt, pppreempt, mreteirq) ==
    [ preempt |-> preempt, ppreempt |-> ppreempt, pppreempt |-> pppreempt,
      mreteirq |-> mreteirq ]

NoContext == Context(0, 0, 0, FALSE)
NoIrq == -1

(* Where the CPU is: at a step of main or in the handler of a trap.        *)
Place(depth, step) == [ depth |-> depth, step |-> step ]
Here == IF frames = <<>> THEN Place(0, main) ELSE Place(Len(frames), 0)

Top == frames[Len(frames)]
Outer == SubSeq(frames, 1, Len(frames) - 1)
At(stage) == frames # <<>> /\ Top.pc = stage

(* The innermost frame goes on at another stage, or becomes f.             *)
Become(f) == frames' = [frames EXCEPT ![Len(frames)] = f]
Goto(stage) == Become([Top EXCEPT !.pc = stage])

(* init_traps is over: the vector is set, and interrupts are enabled.     *)
Init ==
    /\ main = 0
    /\ frames = <<>>
    /\ mie = TRUE /\ mpie = FALSE /\ mpp = "M"
    /\ mepc = Place(0, 0) /\ mcause = "none"
    /\ context = NoContext
    /\ pending = {}
    /\ priority \in Priorities

----
(* The interrupts that preempt what the CPU does.                          *)
Preempting == {i \in pending : priority[i] >= context.preempt}
Interrupted == mie /\ Preempting # {}

(* A step of main, when no interrupt comes first.                          *)
MainStep ==
    /\ frames = <<>> /\ ~Interrupted
    /\ main' = (main + 1) % MainSteps
    /\ UNCHANGED <<frames, mstatus, trapRegs, context, pending, priority>>

----
(* The core takes a trap.                                                  *)

Push(cause) ==
    /\ frames' = Append(frames,
          [ pc |-> "entry", cause |-> "none", epc |-> Place(0, 0), irq |-> NoIrq,
            saved |-> NoContext, from |-> Here, reason |-> cause, lost |-> {} ])
    /\ mepc' = Here /\ mcause' = cause
    /\ mpie' = mie /\ mie' = FALSE /\ mpp' = "M"

(* The interrupt of the highest priority among s, the lowest of those, if  *)
(* there is any.                                                           *)
MostUrgent(s) ==
    {i \in s : \A j \in s \ {i} :
        priority[i] > priority[j] \/ (priority[i] = priority[j] /\ i < j)}

Interrupt ==
    /\ Interrupted
    /\ Push("external")
    /\ \E i \in MostUrgent(Preempting) :
          context' = Context(priority[i] + 1, context.preempt, context.ppreempt, TRUE)
    /\ UNCHANGED <<main, pending, priority>>

(* An exception, in main or in a handler.                                  *)
Fault ==
    /\ frames = <<>> \/ At("serve")
    /\ Push("fault")
    /\ context' = [context EXCEPT !.mreteirq = FALSE]
    /\ UNCHANGED <<main, pending, priority>>

(* mret.                                                                   *)
Return ==
    /\ At("return")
    /\ frames' = Outer
    /\ mie' = mpie /\ mpie' = TRUE /\ mpp' = "U"
    /\ context' =
          IF context.mreteirq
            THEN Context(context.ppreempt, context.pppreempt, 0, FALSE)
            ELSE context
    /\ UNCHANGED <<main, trapRegs, pending, priority>>

----
(* trap_handler: what it saves, and the match on the cause.  Everything    *)
(* but an external interrupt is unrecoverable.                             *)
ReadCause ==
    /\ At("entry")
    /\ Become([Top EXCEPT !.pc = IF mcause = "external" THEN "context" ELSE "stuck",
                          !.cause = mcause, !.epc = mepc, !.lost = CallerSaved])
    /\ UNCHANGED <<main, mstatus, trapRegs, context, pending, priority>>

(* handle_external_interrupt saves MEICONTEXT.                             *)
SaveContext ==
    /\ At("context")
    /\ Become([Top EXCEPT !.pc = "next", !.saved = context])
    /\ UNCHANGED <<main, mstatus, trapRegs, context, pending, priority>>

(* A faulty variant of Updated: MEINEXT is read without UPDATE.            *)
UpdatedNot(level) == context

(* MEINEXT is read with UPDATE: only what preempts no less than this frame *)
(* does preempts from now on.                                              *)
Updated(level) == [context EXCEPT !.preempt = level]

(* What MEINEXT shows: nothing the preempted frame is itself serving.      *)
Visible == {i \in pending : priority[i] >= context.ppreempt}

(* The word MEINEXT shows for an interrupt, four times its number.         *)
NextWord(irq) == 4 * irq

(* A faulty variant of IrqOf: shifted by one bit only.                     *)
IrqOfShort(next) == next \div 2

(* The number the handler takes from it.                                   *)
IrqOf(next) == next \div 4

NextIrq ==
    /\ At("next")
    /\ \E irq \in MostUrgent(Visible) :
          /\ Become([Top EXCEPT !.pc = "enable", !.irq = IrqOf(NextWord(irq))])
          /\ context' = Updated(priority[irq] + 1)
    /\ UNCHANGED <<main, mstatus, trapRegs, pending, priority>>

(* A faulty variant of NoNextIrq: the loop looks again and again.          *)
NoNextIrqAgain ==
    /\ At("next")
    /\ Visible = {}
    /\ context' = Updated(Levels + 1)
    /\ UNCHANGED <<main, frames, mstatus, trapRegs, pending, priority>>

NoNextIrq ==
    /\ At("next")
    /\ Visible = {}
    /\ Goto("unwind")
    /\ context' = Updated(Levels + 1)
    /\ UNCHANGED <<main, mstatus, trapRegs, pending, priority>>

(* The interrupts the match has a handler for: alarm 1, which is all that  *)
(* timer_trap_handler accepts, and the USB controller.                     *)
Handled == {1, 14}

EnableInterrupts ==
    /\ At("enable")
    /\ Goto(IF Top.irq \in Handled THEN "serve" ELSE "stuck")
    /\ mie' = TRUE
    /\ UNCHANGED <<main, mpie, mpp, trapRegs, context, pending, priority>>

(* A faulty variant of Acknowledge: the event is not cleared.              *)
AcknowledgeNot ==
    /\ At("serve")
    /\ Goto("served")
    /\ UNCHANGED <<main, mstatus, trapRegs, context, pending, priority>>

(* The handler makes its source lower the interrupt.                       *)
Acknowledge ==
    /\ At("serve")
    /\ Goto("served")
    /\ pending' = pending \ {Top.irq}
    /\ UNCHANGED <<main, mstatus, trapRegs, context, priority>>

(* The defer of the loop's body.                                           *)
DisableInterrupts ==
    /\ At("served")
    /\ Become([Top EXCEPT !.pc = "next", !.irq = NoIrq])
    /\ mie' = FALSE
    /\ UNCHANGED <<main, mpie, mpp, trapRegs, context, pending, priority>>

(* Faulty variants of Unwind: without one of the defers.                   *)
UnwindNoContext ==
    /\ At("unwind")
    /\ Become([Top EXCEPT !.pc = "return", !.lost = @ \ WrapperSaved])
    /\ mepc' = Top.epc /\ mcause' = Top.cause
    /\ UNCHANGED <<main, mstatus, context, pending, priority>>

UnwindNoEpc ==
    /\ At("unwind")
    /\ Become([Top EXCEPT !.pc = "return", !.lost = @ \ WrapperSaved])
    /\ context' = Top.saved
    /\ mcause' = Top.cause
    /\ UNCHANGED <<main, mstatus, mepc, pending, priority>>

(* The other defers, the last one first: MEICONTEXT, MEPC and MCAUSE, and  *)
(* then the wrapper's loads.                                               *)
Unwind ==
    /\ At("unwind")
    /\ Become([Top EXCEPT !.pc = "return", !.lost = @ \ WrapperSaved])
    /\ context' = Top.saved
    /\ mepc' = Top.epc /\ mcause' = Top.cause
    /\ UNCHANGED <<main, mstatus, pending, priority>>

----
Handler ==
    \/ ReadCause \/ SaveContext \/ NextIrq \/ NoNextIrq
    \/ EnableInterrupts \/ Acknowledge \/ DisableInterrupts \/ Unwind

Cpu == MainStep \/ Interrupt \/ Handler \/ Return

(* A source asserts its interrupt.                                         *)
Raise(i) ==
    /\ pending' = pending \cup {i}
    /\ UNCHANGED <<main, frames, mstatus, trapRegs, context, priority>>

Next == Cpu \/ Fault \/ \E i \in Irqs : Raise(i)

(* The CPU goes on; nothing need ever interrupt it.                        *)
Spec == Init /\ [][Next]_vars /\ WF_vars(Cpu)

----
(* Properties.                                                             *)

Places == [ depth : Nat, step : Nat ]

Contexts == [ preempt : 0..(Levels + 1), ppreempt : 0..(Levels + 1),
              pppreempt : 0..(Levels + 1), mreteirq : BOOLEAN ]

Frame ==
    [ pc : {"entry", "context", "next", "enable", "serve", "served", "unwind",
            "return", "stuck"},
      cause : {"none", "external", "fault"}, epc : Places, irq : Irqs \cup {NoIrq},
      saved : Contexts, from : Places, reason : {"external", "fault"}, lost : SUBSET (1..31) ]

(* Type correctness.                                                       *)
TypeOK ==
    /\ main \in 0..(MainSteps - 1)
    /\ frames \in Seq(Frame)
    /\ mie \in BOOLEAN /\ mpie \in BOOLEAN /\ mpp \in {"M", "U"}
    /\ mepc \in Places
    /\ mcause \in {"none", "external", "fault"}
    /\ context \in Contexts
    /\ pending \subseteq Irqs
    /\ priority \in Priorities

OnePriority == \A i, j \in Irqs : priority[i] = priority[j]

(* A trap returns to the place it interrupted, with the registers of that  *)
(* place, though interrupts were let in meanwhile and have overwritten     *)
(* MEPC and MCAUSE; and to the mode it interrupted, as long as all         *)
(* interrupts have one priority: MSTATUS.MPP is not among what is saved.   *)
ContextRestored ==
    At("return") =>
        /\ mepc = Top.from /\ mcause = Top.reason
        /\ Top.lost = {}
        /\ mpie
        /\ OnePriority => mpp = "M"

(* A handler is preempted by interrupts of higher priority only: never by  *)
(* its own, nor by another of the same priority, whose handler could       *)
(* change what it works on.                                                *)
PreemptedByHigher ==
    \A m, n \in DOMAIN frames :
        m < n /\ frames[m].irq # NoIrq /\ frames[n].irq # NoIrq
            => priority[frames[m].irq] < priority[frames[n].irq]

(* When no trap is being handled, every interrupt comes through.           *)
MainInterruptible ==
    frames = <<>> => mie /\ context.preempt = 0 /\ ~context.mreteirq

(* A handler has given up: an exception, an interrupt without a handler,   *)
(* or a panic.                                                             *)
Halted == \E n \in DOMAIN frames : frames[n].pc = "stuck"

(* The interrupt that comes before all others is served, however often the *)
(* others are asserted.                                                    *)
MostUrgentServed ==
    \A i \in Irqs :
        (i \in pending /\ i \in MostUrgent(Irqs)) ~> (i \notin pending \/ Halted)

(* When the sources are quiet, main is resumed.                            *)
MainResumed == <>[](pending = {}) => <>[](Halted \/ frames = <<>>)

(* The handlers that are active, the innermost one last: one in every      *)
(* frame, but for the innermost while it is between two of them.           *)
Serving(f) == f.irq # NoIrq

ServingDepth ==
    IF frames # <<>> /\ ~Serving(Top) THEN Len(frames) - 1 ELSE Len(frames)

Active == [n \in 1..ServingDepth |-> frames[n].irq]

Service == INSTANCE InterruptService WITH
    requested <- pending, active <- Active, halted <- Halted

(* Interrupts are served as InterruptService says.                         *)
ServiceSpec == Service!Spec

(* The part of that which holds of every finite run: what is served was    *)
(* requested, no handler is entered within itself, and they end in the     *)
(* reverse order of their beginning.                                       *)
ServiceSafety == Service!Init /\ [][Service!Next]_(Service!vars)

===============================================================================
